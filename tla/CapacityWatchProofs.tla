------------------------ MODULE CapacityWatchProofs -------------------------
(***************************************************************************)
(* Proofs about the pool and its watcher, for every pool and every number  *)
(* of calls, faults and buffered messages, embedded or not: what a change  *)
(* of one volume does to the sum of all, that no notification is lost and  *)
(* the state keeps its shape, for any number of clients, and that one      *)
(* client keeps a thin pool within its limit.                              *)
(***************************************************************************)
EXTENDS CapacityWatch, FiniteSetTheorems, TLAPS

Handlers ==
    /\ vol \in [Names -> Nat]
    /\ call \in [Clients -> Call]

\* Watch has a channel exactly while it runs: a notification it needs is never
\* dropped for want of one.
Registered == watching <=> wpc \in {"list", "send", "wait"}

\* An embedded lvmd hands its values over without a stream: they arrive in order.
Stream ==
    /\ \E S : stream \in Seq(S)
    /\ Embedded => stream = <<>>

WakeupInv == Handlers /\ Registered /\ Stream /\ NoLostWakeup

-----------------------------------------------------------------------------

\* Rounding up to extents gives a size.
LEMMA RoundUpNat == ASSUME NEW s \in Nat PROVE RoundUp(s) \in Nat
<1>1. Extent \in Nat \ {0}
  BY PoolAssumption
<1>2. (s + Extent - 1) \div Extent \in Nat
  BY <1>1
<1> QED
  BY <1>1, <1>2 DEF RoundUp

\* The record of a free handler is a call.
LEMMA IdleIsCall == Idle \in Call /\ Idle.pc = "idle"
<1>1. \E n \in Names : TRUE
  BY PoolAssumption
<1> QED
  BY <1>1 DEF Idle, Call

\* The capacity is a function of the volumes.
LEMMA SamePool == ASSUME vol' = vol PROVE Reported' = Reported
  BY DEF Reported, Free, FreeBytes, VirtualBytes

(* A step of client c that leaves the rest of the pool alone and does not  *)
(* end the duty to notify.                                                 *)
LEMMA HandlerKeeps ==
    ASSUME WakeupInv, NEW c \in Clients, NEW r \in Call,
           call' = [call EXCEPT ![c] = r],
           c \in Unfinished => r.pc \in {"find", "resize", "activate", "notify"},
           UNCHANGED <<vol, notified, watching, unreported, watchVars>>
    PROVE  WakeupInv'
<1>1. Handlers' /\ Registered' /\ Stream'
  BY DEF WakeupInv, Handlers, Registered, Stream, watchVars
<1>2. Unfinished \subseteq Unfinished'
  BY DEF Unfinished, WakeupInv, Handlers
<1>3. Newest' = Newest
  BY DEF Newest, watchVars
<1>4. NoLostWakeup'
  BY <1>2, <1>3, SamePool DEF NoLostWakeup, WakeupInv, watchVars
<1> QED
  BY <1>1, <1>4 DEF WakeupInv

(* A step of client c that may change the pool, and either keeps the duty  *)
(* to notify, or notifies, or leaves the change unreported.                *)
LEMMA HandlerOwes ==
    ASSUME WakeupInv, NEW c \in Clients, NEW r \in Call,
           call' = [call EXCEPT ![c] = r],
           vol' \in [Names -> Nat],
           \/ r.pc \in {"find", "resize", "activate", "notify"}
           \/ notified' = watching
           \/ unreported' = TRUE,
           UNCHANGED <<watching, watchVars>>
    PROVE  WakeupInv'
<1>1. Handlers' /\ Registered' /\ Stream'
  BY DEF WakeupInv, Handlers, Registered, Stream, watchVars
<1>2. r.pc \in {"find", "resize", "activate", "notify"} => c \in Unfinished'
  BY DEF Unfinished, WakeupInv, Handlers
<1>3. NoLostWakeup'
  BY <1>2 DEF NoLostWakeup, WakeupInv, Registered, watchVars
<1> QED
  BY <1>1, <1>3 DEF WakeupInv

-----------------------------------------------------------------------------
(* The ways a handler's step can end. *)

\* A record with another pc and size is a call.
LEMMA CallWith ==
    ASSUME NEW r \in Call, NEW s \in Nat
    PROVE  [r EXCEPT !.pc = "command", !.size = s] \in Call
  BY ZenonT(30) DEF Call

\* An error before the pool was changed.
LEMMA RejectedKeeps ==
    ASSUME WakeupInv, NEW c \in Clients, call[c].pc \in {"check", "command"},
           Rejected(c) \/ Fails(c), UNCHANGED watchVars
    PROVE  WakeupInv'
<1>1. c \notin Unfinished
  BY DEF Unfinished
<1> QED
  BY <1>1, IdleIsCall, HandlerKeeps DEF Rejected, Fails, Return

\* An error after it.
LEMMA SilentKeeps ==
    ASSUME WakeupInv, NEW c \in Clients,
           RejectedSilently(c) \/ FailsSilently(c), UNCHANGED watchVars
    PROVE  WakeupInv'
<1>1. vol' \in [Names -> Nat]
  BY DEF RejectedSilently, FailsSilently, WakeupInv, Handlers
<1> QED
  BY ZenonT(30), <1>1, IdleIsCall, HandlerOwes DEF RejectedSilently, FailsSilently, ReturnSilently, Return

\* A handler that goes on to its next step without changing the pool.
LEMMA ContinueKeeps ==
    ASSUME WakeupInv, NEW c \in Clients,
           NEW pc \in {"command", "resize", "activate", "find", "notify"},
           pc = "command" => call[c].pc = "check",
           Continue(c, pc), UNCHANGED watchVars
    PROVE  WakeupInv'
<1> DEFINE r == [call[c] EXCEPT !.pc = pc]
<1>1. r \in Call /\ r.pc = pc
  BY DEF WakeupInv, Handlers, Call
<1>2. call' = [call EXCEPT ![c] = r]
  BY DEF Continue, Goto
<1>3. c \in Unfinished => pc \in {"find", "resize", "activate", "notify"}
  BY DEF Unfinished
<1> HIDE DEF r
<1> QED
  BY ZenonT(30), <1>1, <1>2, <1>3, HandlerKeeps DEF Continue

\* An LVM command: the handler that changed the pool owes a notification.
LEMMA CommandKeeps ==
    ASSUME WakeupInv, NEW c \in Clients, NEW s \in Nat,
           NEW pc \in {"resize", "activate", "find", "notify"},
           Command(c, s, pc), UNCHANGED watchVars
    PROVE  WakeupInv'
<1> DEFINE r == [call[c] EXCEPT !.pc = pc]
<1>1. r \in Call /\ r.pc = pc
  BY DEF WakeupInv, Handlers, Call
<1>2. call' = [call EXCEPT ![c] = r]
  BY DEF Command, Goto
<1>3. vol' \in [Names -> Nat]
  BY ZenonT(30) DEF Command, WakeupInv, Handlers
<1> HIDE DEF r
<1> QED
  BY ZenonT(30), <1>1, <1>2, <1>3, HandlerOwes DEF Command

-----------------------------------------------------------------------------
(* lvmd's handlers preserve the invariant. *)

\* A new call.
LEMMA RequestPreserves ==
    ASSUME WakeupInv, NEW c \in Clients, NewRequest(c), UNCHANGED watchVars
    PROVE  WakeupInv'
<1>1. PICK op \in Operations, name \in Names, source \in Names, size \in Nat :
          Request(c, op, name, source, size)
  BY PoolAssumption DEF NewRequest, Operations
<1> DEFINE r == [op |-> op, name |-> name, source |-> source, size |-> size, pc |-> "check"]
<1>2. r \in Call
  BY DEF Call
<1>3. c \notin Unfinished
  BY <1>1 DEF Request, Unfinished
<1>4. call' = [call EXCEPT ![c] = r] /\ UNCHANGED <<vol, notified, watching, unreported>>
  BY <1>1 DEF Request
<1> HIDE DEF r
<1> QED
  BY ZenonT(30), <1>2, <1>3, <1>4, HandlerKeeps

\* Every step of a call, its notification included.
LEMMA PoolStepPreserves ==
    ASSUME WakeupInv, NEW c \in Clients, PoolStep(c), UNCHANGED watchVars
    PROVE  WakeupInv'
<1>0. Handlers /\ call[c] \in Call /\ call[c].size \in Nat /\ call[c].name \in Names
      /\ call[c].source \in Names /\ RoundUp(call[c].size) \in Nat /\ vol[call[c].source] \in Nat
  BY RoundUpNat DEF WakeupInv, Handlers, Call
<1>1. CASE CreateLVCheck(c)
  BY <1>1, RejectedKeeps, ContinueKeeps DEF CreateLVCheck, At
<1>2. CASE CreateVolume(c)
  BY <1>0, <1>2, RejectedKeeps, CommandKeeps DEF CreateVolume, At
<1>3. CASE CreateLVFind(c)
  BY <1>3, SilentKeeps, ContinueKeeps DEF CreateLVFind, At
<1>4. CASE RemoveLV(c)
  BY <1>4, RejectedKeeps, CommandKeeps DEF RemoveLV, At
<1>5. CASE ResizeLVCheck(c)
  BY <1>5, RejectedKeeps, ContinueKeeps DEF ResizeLVCheck, At
<1>6. CASE ResizeVolume(c)
  BY ZenonT(30), <1>0, <1>6, RejectedKeeps, CommandKeeps DEF ResizeVolume, At
<1>7. CASE SnapshotCheck(c)
  <2> DEFINE size == IF call[c].size = 0 THEN vol[call[c].source] ELSE call[c].size
             r    == [call[c] EXCEPT !.pc = "command", !.size = size]
  <2>1. CASE Rejected(c) \/ Fails(c)
    BY ZenonT(30), <1>7, <2>1, RejectedKeeps DEF SnapshotCheck, At
  <2>2. CASE /\ call' = [call EXCEPT ![c].pc = "command", ![c].size = size]
             /\ UNCHANGED <<vol, notified, watching, unreported, calls, faults>>
    <3>1. size \in Nat
      BY <1>0
    <3>2. call' = [call EXCEPT ![c] = r]
      BY ZenonT(30), <1>0, <2>2 DEF Handlers, Call
    <3> HIDE DEF size
    <3>3. r \in Call
      BY ZenonT(30), <1>0, <3>1, CallWith
    <3>4. c \notin Unfinished
      BY <1>7 DEF SnapshotCheck, At, Unfinished
    <3> HIDE DEF r
    <3> QED
      BY ZenonT(30), <2>2, <3>2, <3>3, <3>4, HandlerKeeps
  <2> QED
    BY ZenonT(30), <1>7, <2>1, <2>2 DEF SnapshotCheck
<1>8. CASE ThinSnapshot(c)
  BY ZenonT(30), <1>0, <1>8, RejectedKeeps, CommandKeeps DEF ThinSnapshot, At
<1>9. CASE SnapshotResize(c)
  BY <1>0, <1>9, SilentKeeps, CommandKeeps DEF SnapshotResize, At
<1>10. CASE SnapshotActivate(c)
  <2>1. CASE Continue(c, "notify")
    BY <2>1, ContinueKeeps
  <2>2. CASE ~Continue(c, "notify")
    <3>1. vol' \in [Names -> Nat]
      BY <1>0, <1>10, <2>2 DEF SnapshotActivate, Handlers
    <3> QED
      BY ZenonT(30), <1>10, <2>2, <3>1, IdleIsCall, HandlerOwes DEF SnapshotActivate, ReturnSilently, Return
  <2> QED
    BY <2>1, <2>2
<1>11. CASE Notify(c)
  <2>1. vol' \in [Names -> Nat]
    BY <1>0, <1>11 DEF Notify, Handlers
  <2> QED
    BY ZenonT(30), <1>11, <2>1, IdleIsCall, HandlerOwes DEF Notify, notifyWatchers, Return
<1> QED
  BY <1>1, <1>2, <1>3, <1>4, <1>5, <1>6, <1>7, <1>8, <1>9, <1>10, <1>11 DEF PoolStep

-----------------------------------------------------------------------------
(* So do Watch and the exporter. *)

\* A step that leaves the handlers and the pool alone.
LEMMA SameHandlers ==
    ASSUME WakeupInv, UNCHANGED <<vol, call>>
    PROVE  Handlers' /\ Unfinished' = Unfinished /\ Reported' = Reported
  BY SamePool DEF WakeupInv, Handlers, Unfinished

\* The steps of Watch and of its stream.
LEMMA WatchPreserves ==
    ASSUME WakeupInv, WatchStart \/ SendList \/ StreamSend \/ WatchWake \/ Tick
    PROVE  WakeupInv'
<1>1. CASE WatchStart
  BY <1>1, SameHandlers DEF WatchStart, WakeupInv, Registered, Stream, NoLostWakeup
<1>2. CASE SendList
  <2>1. Handlers' /\ Registered' /\ Stream'
    BY ZenonT(30), <1>2, SameHandlers DEF SendList, WakeupInv, Registered, Stream
  <2>2. NoLostWakeup'
    BY <1>2, SameHandlers DEF SendList, NoLostWakeup, Newest
  <2> QED
    BY <2>1, <2>2 DEF WakeupInv
<1>3. CASE StreamSend
  <2>0. UNCHANGED <<vol, call, notified, watching, unreported>>
    BY <1>3 DEF StreamSend, poolVars
  <2>1. PICK S : stream \in Seq(S)
    BY DEF WakeupInv, Stream
  <2>2. stream \in Seq(S \cup {wval})
    BY <2>1
  <2>3. /\ stream' \in Seq(S \cup {wval})
        /\ stream' # <<>> /\ stream'[Len(stream')] = wval
    BY <1>3, <2>2 DEF StreamSend
  <2>4. Handlers' /\ Registered' /\ Stream'
    BY ZenonT(30), <1>3, <2>0, <2>3, SameHandlers DEF StreamSend, WakeupInv, Registered, Stream
  <2>5. NoLostWakeup'
    BY <1>3, <2>0, <2>3, SameHandlers DEF StreamSend, WakeupInv, NoLostWakeup, Newest
  <2> QED
    BY <2>4, <2>5 DEF WakeupInv
<1>4. CASE WatchWake
  BY <1>4, SameHandlers DEF WatchWake, WakeupInv, Registered, Stream, NoLostWakeup
<1>5. CASE Tick
  <2>1. Handlers' /\ Registered' /\ Stream'
    BY <1>5, SameHandlers DEF Tick, watchVars, WakeupInv, Registered, Stream
  <2>2. NoLostWakeup'
    BY <1>5 DEF Tick, notifyWatchers, watchVars, WakeupInv, Registered, NoLostWakeup
  <2> QED
    BY <2>1, <2>2 DEF WakeupInv
<1> QED
  BY <1>1, <1>2, <1>3, <1>4, <1>5

\* Taking one from a number above one leaves something.
LEMMA AboveOne ==
    /\ \A n \in Nat \ {0} : n # 1 => n \in Nat /\ n > 1
    /\ \A n \in Nat : n > 1 => n - 1 # 0
  OBVIOUS

\* The exporter takes the first item off the stream; the newest stays the last.
LEMMA RecvPreserves == ASSUME WakeupInv, Recv PROVE WakeupInv'
<1>0. UNCHANGED <<vol, call, notified, watching, unreported>>
  BY DEF Recv, poolVars
<1>1. PICK S : stream \in Seq(S)
  BY DEF WakeupInv, Stream
<1>2. CASE stream # <<>> /\ res' = Head(stream) /\ stream' = Tail(stream) /\ UNCHANGED <<wpc, wval>>
  <2>1. stream' \in Seq(S)
    BY <1>1, <1>2
  <2>2. Handlers' /\ Registered' /\ Stream'
    BY <1>0, <1>2, <2>1, SameHandlers DEF WakeupInv, Registered, Stream
  <2>3. Newest' = Newest
    <3>1. CASE Len(stream) = 1
      BY <1>1, <1>2, <3>1 DEF Newest
    <3>2. CASE Len(stream) # 1
      <4>1. Len(stream) \in Nat /\ Len(stream) > 1
        <5>1. Len(stream) \in Nat \ {0}
          BY <1>1, <1>2
        <5> QED
          BY <3>2, <5>1, AboveOne, Zenon
      <4>2. /\ Len(Tail(stream)) = Len(stream) - 1
            /\ Tail(stream)[Len(stream) - 1] = stream[Len(stream)]
        BY <1>1, <1>2, <4>1
      <4> QED
        <5>1. Len(<<>>) = 0
          BY Zenon
        <5>2. Tail(stream) # <<>>
          BY <4>1, <4>2, <5>1, AboveOne, Zenon
        <5> QED
          BY <1>2, <4>1, <4>2, <5>2 DEF Newest
    <3> QED
      BY <3>1, <3>2
  <2> QED
    BY <1>0, <1>2, <2>2, <2>3, SameHandlers DEF WakeupInv, NoLostWakeup
<1>3. CASE Embedded /\ wpc = "send" /\ res' = wval /\ wpc' = "wait" /\ wval' = 0 /\ UNCHANGED stream
  <2>1. Handlers' /\ Registered' /\ Stream'
    BY <1>0, <1>3, SameHandlers DEF WakeupInv, Registered, Stream
  <2>2. Newest' = Newest
    BY <1>3 DEF Newest, WakeupInv, Stream
  <2> QED
    BY <1>0, <1>3, <2>1, <2>2, SameHandlers DEF WakeupInv, NoLostWakeup
<1> QED
  BY <1>2, <1>3 DEF Recv

\* After a restart Watch starts afresh.
LEMMA ResetPreserves ==
    ASSUME WakeupInv, Reset, call' \in [Clients -> Call] PROVE WakeupInv'
<1>1. <<>> \in Seq({})
  OBVIOUS
<1> QED
  BY <1>1 DEF Reset, WakeupInv, Handlers, Registered, Stream, NoLostWakeup

\* The Node is not part of it.
LEMMA NodePreserves ==
    ASSUME WakeupInv, UNCHANGED <<poolVars, wpc, wval, stream, res>> PROVE WakeupInv'
<1>1. Handlers' /\ Registered' /\ Stream'
  BY SameHandlers DEF poolVars, WakeupInv, Registered, Stream
<1>2. NoLostWakeup'
  BY SameHandlers DEF poolVars, WakeupInv, NoLostWakeup, Newest
<1> QED
  BY <1>1, <1>2 DEF WakeupInv

\* Every step keeps the invariant.
LEMMA NextPreserves == ASSUME WakeupInv, [Next]_vars PROVE WakeupInv'
<1>0. call \in [Clients -> Call] /\ [c \in Clients |-> Idle] \in [Clients -> Call]
  BY IdleIsCall DEF WakeupInv, Handlers
<1>1. ASSUME NEW c \in Clients, NewRequest(c), UNCHANGED watchVars PROVE WakeupInv'
  BY <1>1, RequestPreserves
<1>2. ASSUME NEW c \in Clients, PoolStep(c), UNCHANGED watchVars PROVE WakeupInv'
  BY <1>2, PoolStepPreserves
<1>3. CASE WatchStart \/ SendList \/ StreamSend \/ WatchWake \/ Tick
  BY <1>3, WatchPreserves
<1>4. CASE Recv
  BY <1>4, RecvPreserves
<1>5. CASE RecvError
  BY <1>0, <1>5, ResetPreserves DEF RecvError
<1>6. CASE UpdateNode \/ NodeCacheSync \/ NodeDelete \/ UNCHANGED vars
  BY <1>6, NodePreserves DEF UpdateNode, NodeCacheSync, NodeDelete, vars, watchVars
<1>7. CASE UpdateNodeFails \/ Crash
  BY <1>0, <1>7, ResetPreserves DEF UpdateNodeFails, Crash, Killed, Survives
<1> QED
  BY <1>1, <1>2, <1>3, <1>4, <1>5, <1>6, <1>7 DEF Next

\* The invariant holds to begin with.
LEMMA InitWakeupInv == Init => WakeupInv
<1> SUFFICES ASSUME Init PROVE WakeupInv
  OBVIOUS
<1>1. <<>> \in Seq({})
  OBVIOUS
<1>2. Handlers
  BY IdleIsCall DEF Init, PoolInit, Handlers
<1> QED
  BY <1>1, <1>2 DEF Init, WakeupInv, Registered, Stream, NoLostWakeup

(* The invariant holds in every reachable state. *)
THEOREM WakeupInvariant == Spec => []WakeupInv
<1>1. WakeupInv /\ [Next]_vars => WakeupInv'
  BY NextPreserves
<1> QED
  BY <1>1, InitWakeupInv, PTL DEF Spec

(* No notification is lost: notifyWatchers may drop a token that finds the *)
(* channel of capacity one full, and Watch still reads the pool after the  *)
(* last change, for any number of concurrent handlers, crashes and errors. *)
THEOREM WakeupsAreNotLost == Spec => []NoLostWakeup
<1>1. WakeupInv => NoLostWakeup
  BY DEF WakeupInv
<1> QED
  BY <1>1, WakeupInvariant, PTL

-----------------------------------------------------------------------------
(* Sums over finite sets.  A recursive function over the subsets of a      *)
(* finite set is known by induction over them, and the induction rests on  *)
(* the least number of a set of numbers.                                   *)

\* Every set of natural numbers has a least one.
LEMMA LeastNumber == ASSUME NEW T, T \subseteq Nat, T # {} PROVE \E n \in T : \A m \in T : n <= m
<1>1. PICK x \in T : \A y \in T : ~ (<<y, x>> \in OpToRel(<, Nat))
  BY ZenonT(30), NatLessThanWellFounded, WFMin
<1>2. \A y \in T : ~ (y < x)
  BY ZenonT(30), <1>1 DEF OpToRel
<1> QED
  BY <1>2

Pick(s) == CHOOSE x \in s : TRUE

Sums(v, S) == CHOOSE f : f = [s \in SUBSET S |-> IF s = {} THEN 0 ELSE v[Pick(s)] + f[s \ {Pick(s)}]]

\* Total adds the sizes up in the order in which CHOOSE picks the names.
LEMMA TotalIsSum == ASSUME NEW v PROVE Total(v) = Sums(v, Names)[Names]
  BY ZenonT(30) DEF Total, MapThenSumSet, MapThenFoldSet, Sums, Pick

\* A set that is not empty has its pick.
LEMMA PickIn == ASSUME NEW s, s # {} PROVE Pick(s) \in s
  BY DEF Pick

\* Without its pick, or any other element, a finite set has one element less.
LEMMA OneLess ==
    ASSUME NEW s, IsFiniteSet(s), NEW x \in s
    PROVE  /\ IsFiniteSet(s \ {x}) /\ Cardinality(s \ {x}) = Cardinality(s) - 1
           /\ Cardinality(s) \in Nat \ {0} /\ Cardinality(s \ {x}) \in Nat
<1>1. IsFiniteSet(s \ {x}) /\ Cardinality(s \ {x}) = Cardinality(s) - 1
  BY ZenonT(30), FS_RemoveElement
<1>2. Cardinality(s) \in Nat /\ Cardinality(s \ {x}) \in Nat
  BY ZenonT(30), <1>1, FS_CardinalityType
<1>3. Cardinality(s) # 0
  BY ZenonT(30), FS_EmptySet
<1> QED
  BY <1>1, <1>2, <1>3

\* The recursive definition of the sums defines them.
LEMMA SumsDefined ==
    ASSUME NEW S, IsFiniteSet(S), NEW v
    PROVE  LET f == Sums(v, S)
           IN  f = [s \in SUBSET S |-> IF s = {} THEN 0 ELSE v[Pick(s)] + f[s \ {Pick(s)}]]
<1> DEFINE D(n)       == {s \in SUBSET S : Cardinality(s) <= n}
           Good(n, f) == f = [s \in D(n) |-> IF s = {} THEN 0 ELSE v[Pick(s)] + f[s \ {Pick(s)}]]
           Bad        == {n \in Nat : ~ \E f : Good(n, f)}
<1>1. \A s \in SUBSET S : IsFiniteSet(s) /\ Cardinality(s) \in Nat
  BY ZenonT(30), FS_Subset, FS_CardinalityType
<1>2. Bad = {}
  <2> SUFFICES ASSUME Bad # {} PROVE FALSE
    BY ZenonT(30)
  <2>1. PICK n \in Bad : \A m \in Bad : n <= m
    <3>1. Bad \subseteq Nat
      OBVIOUS
    <3> HIDE DEF Bad
    <3> QED
      BY ZenonT(30), <3>1, LeastNumber
  <2>2. n \in Nat /\ ~ \E f : Good(n, f)
    BY ZenonT(30)
  <2>3. CASE n = 0
    <3> DEFINE f == [s \in D(n) |-> 0]
    <3>1. \A s \in D(n) : s = {}
      <4> SUFFICES ASSUME NEW s \in D(n) PROVE s = {}
        BY ZenonT(30)
      <4>1. IsFiniteSet(s) /\ Cardinality(s) \in Nat /\ Cardinality(s) <= 0
        BY <1>1, <2>3
      <4>2. Cardinality(s) = 0
        BY <4>1
      <4> QED
        BY ZenonT(30), <4>1, <4>2, FS_EmptySet
    <3>2. Good(n, f)
      BY ZenonT(30), <3>1
    <3> QED
      BY ZenonT(30), <2>2, <3>2
  <2>4. CASE n # 0
    <3>1. n - 1 \in Nat /\ ~ (n <= n - 1)
      BY <2>2, <2>4
    <3>2. PICK g : Good(n - 1, g)
      BY ZenonT(30), <2>1, <3>1
    <3> DEFINE f == [s \in D(n) |-> IF s = {} THEN 0 ELSE v[Pick(s)] + g[s \ {Pick(s)}]]
    <3>3. ASSUME NEW s \in D(n), s # {} PROVE f[s \ {Pick(s)}] = g[s \ {Pick(s)}]
      <4> DEFINE t == s \ {Pick(s)}
      <4>1. Cardinality(t) <= n - 1 /\ Cardinality(t) <= n
        BY <1>1, <2>2, <3>3, PickIn, OneLess
      <4>2. t \in D(n - 1) /\ t \in D(n)
        BY ZenonT(30), <4>1
      <4> HIDE DEF t
      <4>3. f[t] = IF t = {} THEN 0 ELSE v[Pick(t)] + g[t \ {Pick(t)}]
        BY ZenonT(30), <4>2
      <4>4. g[t] = IF t = {} THEN 0 ELSE v[Pick(t)] + g[t \ {Pick(t)}]
        BY ZenonT(30), <3>2, <4>2
      <4> QED
        BY ZenonT(30), <4>3, <4>4 DEF t
    <3>4. Good(n, f)
      <4>1. \A s \in D(n) : (IF s = {} THEN 0 ELSE v[Pick(s)] + g[s \ {Pick(s)}])
                              = (IF s = {} THEN 0 ELSE v[Pick(s)] + f[s \ {Pick(s)}])
        BY ZenonT(30), <3>3
      <4> QED
        BY ZenonT(30), <4>1
    <3> QED
      BY ZenonT(30), <2>2, <3>4
  <2> QED
    BY <2>3, <2>4
<1>3. \E f : f = [s \in SUBSET S |-> IF s = {} THEN 0 ELSE v[Pick(s)] + f[s \ {Pick(s)}]]
  <2> DEFINE N == Cardinality(S)
  <2>1. N \in Nat
    BY ZenonT(30), FS_CardinalityType
  <2>2. PICK f : Good(N, f)
    BY ZenonT(30), <1>2, <2>1
  <2>3. D(N) = SUBSET S
    BY ZenonT(30), FS_Subset
  <2> QED
    BY ZenonT(30), <2>2, <2>3
<1> QED
  BY ZenonT(30), <1>3 DEF Sums

\* The equation of a sum.
LEMMA SumsAt ==
    ASSUME NEW S, IsFiniteSet(S), NEW v, NEW s \in SUBSET S
    PROVE  Sums(v, S)[s] = IF s = {} THEN 0 ELSE v[Pick(s)] + Sums(v, S)[s \ {Pick(s)}]
<1> DEFINE f == Sums(v, S)
           h == [t \in SUBSET S |-> IF t = {} THEN 0 ELSE v[Pick(t)] + f[t \ {Pick(t)}]]
<1>1. f = h
  BY ZenonT(30), SumsDefined
<1>2. h[s] = IF s = {} THEN 0 ELSE v[Pick(s)] + f[s \ {Pick(s)}]
  BY ZenonT(30)
<1>3. f[s] = h[s]
  <2> HIDE DEF h, f
  <2> QED
    BY ZenonT(30), <1>1
<1> HIDE DEF h
<1> QED
  BY ZenonT(30), <1>2, <1>3

\* The same for all subsets at once.
LEMMA SumsStep ==
    ASSUME NEW S, IsFiniteSet(S), NEW v
    PROVE  \A s \in SUBSET S :
               Sums(v, S)[s] = IF s = {} THEN 0 ELSE v[Pick(s)] + Sums(v, S)[s \ {Pick(s)}]
BY ZenonT(30), SumsAt

\* Induction over the subsets of a finite set.
LEMMA SubsetInduction ==
    ASSUME NEW S, IsFiniteSet(S), NEW T,
           \A s \in SUBSET S : (\A x \in s : s \ {x} \in T) => s \in T
    PROVE  \A s \in SUBSET S : s \in T
<1> DEFINE Bad == {n \in Nat : \E s \in SUBSET S : s \notin T /\ Cardinality(s) = n}
<1>1. \A s \in SUBSET S : IsFiniteSet(s) /\ Cardinality(s) \in Nat
  BY ZenonT(30), FS_Subset, FS_CardinalityType
<1>2. SUFFICES ASSUME Bad # {} PROVE FALSE
  <2> SUFFICES ASSUME NEW s \in SUBSET S, s \notin T PROVE Bad # {}
    BY ZenonT(30)
  <2>1. Cardinality(s) \in Bad
    BY ZenonT(30), <1>1
  <2> QED
    BY ZenonT(30), <2>1
<1>3. PICK n \in Bad : \A m \in Bad : n <= m
  <2>1. Bad \subseteq Nat
    BY ZenonT(30)
  <2> HIDE DEF Bad
  <2> QED
    BY ZenonT(30), <1>2, <2>1, LeastNumber
<1>4. PICK s \in SUBSET S : s \notin T /\ Cardinality(s) = n
  BY ZenonT(30)
<1>5. ASSUME NEW x \in s PROVE s \ {x} \in T
  <2>0. IsFiniteSet(s)
    BY ZenonT(30), <1>1
  <2>1. /\ Cardinality(s \ {x}) = n - 1 /\ n \in Nat /\ n - 1 \in Nat
    <3>1. Cardinality(s \ {x}) = Cardinality(s) - 1 /\ Cardinality(s \ {x}) \in Nat
          /\ Cardinality(s) \in Nat \ {0}
      BY ZenonT(30), <2>0, OneLess
    <3> HIDE DEF Bad
    <3> QED
      BY <1>4, <3>1
  <2>2. ~ (n <= n - 1)
    BY <2>1
  <2>3. n - 1 \notin Bad
    BY ZenonT(30), <1>3, <2>2
  <2>4. s \ {x} \in SUBSET S
    BY ZenonT(30)
  <2> QED
    BY ZenonT(30), <2>1, <2>3, <2>4
<1> QED
  BY ZenonT(30), <1>4, <1>5

\* Sums are natural numbers.
LEMMA SumsNat ==
    ASSUME NEW S, IsFiniteSet(S), NEW v \in [S -> Nat]
    PROVE  \A s \in SUBSET S : Sums(v, S)[s] \in Nat
<1> DEFINE f == Sums(v, S)
           T == {s \in SUBSET S : f[s] \in Nat}
<1>1. ASSUME NEW s \in SUBSET S, \A x \in s : s \ {x} \in T PROVE s \in T
  <2>1. f[s] = IF s = {} THEN 0 ELSE v[Pick(s)] + f[s \ {Pick(s)}]
    BY ZenonT(30), SumsAt
  <2>2. CASE s = {}
    BY <2>1, <2>2
  <2>3. CASE s # {}
    <3>1. Pick(s) \in S /\ v[Pick(s)] \in Nat /\ f[s \ {Pick(s)}] \in Nat
      BY ZenonT(30), <1>1, <2>3, PickIn
    <3> QED
      BY <2>1, <2>3, <3>1
  <2> QED
    BY <2>2, <2>3
<1> HIDE DEF T
<1>2. \A s \in SUBSET S : s \in T
  BY ZenonT(30), <1>1, SubsetInduction
<1> QED
  BY ZenonT(30), <1>2 DEF T

\* The order in which the elements are added does not matter.
LEMMA SumsAnyOrder ==
    ASSUME NEW S, IsFiniteSet(S), NEW v \in [S -> Nat]
    PROVE  \A s \in SUBSET S : \A x \in s : Sums(v, S)[s] = v[x] + Sums(v, S)[s \ {x}]
<1> DEFINE f == Sums(v, S)
           T == {s \in SUBSET S : \A x \in s : f[s] = v[x] + f[s \ {x}]}
<1>1. ASSUME NEW s \in SUBSET S, \A y \in s : s \ {y} \in T PROVE s \in T
  <2> SUFFICES ASSUME NEW x \in s PROVE f[s] = v[x] + f[s \ {x}]
    BY ZenonT(30)
  <2> DEFINE c == Pick(s)
  <2>1. c \in s /\ f[s] = v[c] + f[s \ {c}]
    BY ZenonT(30), SumsAt, PickIn
  <2>2. CASE c = x
    BY ZenonT(30), <2>1, <2>2
  <2>3. CASE c # x
    <3> DEFINE rest == s \ {c, x}
    <3> HIDE DEF c
    <3>1. s \ {c} \in T /\ s \ {x} \in T /\ x \in s \ {c} /\ c \in s \ {x}
      BY ZenonT(30), <1>1, <2>1, <2>3
    <3>2. (s \ {c}) \ {x} = rest /\ (s \ {x}) \ {c} = rest
      BY ZenonT(30)
    <3>3. f[s \ {c}] = v[x] + f[rest] /\ f[s \ {x}] = v[c] + f[rest]
      BY ZenonT(30), <3>1, <3>2
    <3>4. v[x] \in Nat /\ v[c] \in Nat /\ f[rest] \in Nat
      BY ZenonT(30), <2>1, SumsNat
    <3> HIDE DEF f, rest
    <3> QED
      BY <2>1, <3>3, <3>4
  <2> QED
    BY ZenonT(30), <2>2, <2>3
<1> HIDE DEF T
<1>2. \A s \in SUBSET S : s \in T
  BY ZenonT(30), <1>1, SubsetInduction
<1> QED
  BY ZenonT(30), <1>2 DEF T

\* A sum depends on the sizes of its elements only.
LEMMA SumsSame ==
    ASSUME NEW S, IsFiniteSet(S), NEW v \in [S -> Nat], NEW w \in [S -> Nat], NEW n \in S,
           \A x \in S \ {n} : v[x] = w[x]
    PROVE  Sums(v, S)[S \ {n}] = Sums(w, S)[S \ {n}]
<1> DEFINE f == Sums(v, S)
           g == Sums(w, S)
           T == {s \in SUBSET S : n \notin s => f[s] = g[s]}
<1>0. /\ \A s \in SUBSET S : f[s] = IF s = {} THEN 0 ELSE v[Pick(s)] + f[s \ {Pick(s)}]
      /\ \A s \in SUBSET S : g[s] = IF s = {} THEN 0 ELSE w[Pick(s)] + g[s \ {Pick(s)}]
  BY ZenonT(30), SumsStep
<1>1. ASSUME NEW s \in SUBSET S, \A y \in s : s \ {y} \in T PROVE s \in T
  <2> SUFFICES ASSUME n \notin s PROVE f[s] = g[s]
    BY ZenonT(30)
  <2>1. /\ f[s] = IF s = {} THEN 0 ELSE v[Pick(s)] + f[s \ {Pick(s)}]
        /\ g[s] = IF s = {} THEN 0 ELSE w[Pick(s)] + g[s \ {Pick(s)}]
    BY ZenonT(30), <1>0
  <2>2. s # {} => v[Pick(s)] = w[Pick(s)] /\ f[s \ {Pick(s)}] = g[s \ {Pick(s)}]
    BY ZenonT(30), <1>1, PickIn
  <2> QED
    BY ZenonT(30), <2>1, <2>2
<1> HIDE DEF T
<1>2. \A s \in SUBSET S : s \in T
  BY ZenonT(30), <1>1, SubsetInduction
<1> QED
  BY ZenonT(30), <1>2 DEF T

\* Nothing adds up to nothing.
LEMMA SumsZero ==
    ASSUME NEW S, IsFiniteSet(S) PROVE Sums([n \in S |-> 0], S)[S] = 0
<1> DEFINE f == Sums([n \in S |-> 0], S)
           T == {s \in SUBSET S : f[s] = 0}
<1>1. ASSUME NEW s \in SUBSET S, \A y \in s : s \ {y} \in T PROVE s \in T
  <2>1. f[s] = IF s = {} THEN 0 ELSE [n \in S |-> 0][Pick(s)] + f[s \ {Pick(s)}]
    BY ZenonT(30), SumsAt
  <2>2. s # {} => [n \in S |-> 0][Pick(s)] = 0 /\ f[s \ {Pick(s)}] = 0
    BY ZenonT(30), <1>1, PickIn
  <2>3. f[s] = 0
    <3> HIDE DEF f
    <3> QED
      BY <2>1, <2>2
  <2> QED
    BY ZenonT(30), <2>3
<1> HIDE DEF T
<1>2. \A s \in SUBSET S : s \in T
  BY ZenonT(30), <1>1, SubsetInduction
<1> QED
  BY ZenonT(30), <1>2 DEF T

\* What the model needs to know of Total: the volumes without one of them, and
\* that one.
LEMMA TotalSplit ==
    ASSUME IsFiniteSet(Names), NEW v \in [Names -> Nat], NEW n \in Names, NEW x \in Nat
    PROVE  /\ Total(v) \in Nat /\ Total([v EXCEPT ![n] = x]) \in Nat
           /\ Total([v EXCEPT ![n] = x]) = Total(v) - v[n] + x
           /\ v[n] <= Total(v)
<1> DEFINE w    == [v EXCEPT ![n] = x]
           rest == Sums(v, Names)[Names \ {n}]
<1>1. w \in [Names -> Nat] /\ w[n] = x /\ v[n] \in Nat /\ \A y \in Names \ {n} : v[y] = w[y]
  BY ZenonT(30)
<1> HIDE DEF w
<1>2. Names \in SUBSET Names /\ Names \ {n} \in SUBSET Names
  BY ZenonT(30)
<1>3. rest \in Nat
  BY ZenonT(30), <1>2, SumsNat
<1>4. Total(v) = v[n] + rest
  <2>1. Total(v) = Sums(v, Names)[Names]
    BY ZenonT(30), TotalIsSum
  <2>2. Sums(v, Names)[Names] = v[n] + rest
    <3>1. \A s \in SUBSET Names : \A y \in s : Sums(v, Names)[s] = v[y] + Sums(v, Names)[s \ {y}]
      BY ZenonT(30), SumsAnyOrder
    <3> QED
      BY ZenonT(30), <1>2, <3>1
  <2> QED
    BY ZenonT(30), <2>1, <2>2
<1>5. Total(w) = x + rest
  <2>1. Total(w) = w[n] + Sums(w, Names)[Names \ {n}]
    <3>1. Total(w) = Sums(w, Names)[Names]
      BY ZenonT(30), TotalIsSum
    <3>2. Sums(w, Names)[Names] = w[n] + Sums(w, Names)[Names \ {n}]
      <4>1. \A s \in SUBSET Names : \A y \in s : Sums(w, Names)[s] = w[y] + Sums(w, Names)[s \ {y}]
        <5>1. \A u \in [Names -> Nat] : \A s \in SUBSET Names : \A y \in s :
                 Sums(u, Names)[s] = u[y] + Sums(u, Names)[s \ {y}]
          BY ZenonT(30), SumsAnyOrder
        <5> QED
          BY ZenonT(30), <1>1, <5>1
      <4> QED
        BY ZenonT(30), <1>2, <4>1
    <3> QED
      BY ZenonT(30), <3>1, <3>2
  <2>2. Sums(w, Names)[Names \ {n}] = rest
    <3>1. \A y \in Names \ {n} : v[y] = w[y]
      BY <1>1
    <3>2. w \in [Names -> Nat]
      BY <1>1
    <3>3. Sums(v, Names)[Names \ {n}] = Sums(w, Names)[Names \ {n}]
      <4>1. \A u1, u2 \in [Names -> Nat] : \A m \in Names :
               (\A y \in Names \ {m} : u1[y] = u2[y])
               => Sums(u1, Names)[Names \ {m}] = Sums(u2, Names)[Names \ {m}]
        BY ZenonT(30), SumsSame
      <4> QED
        BY ZenonT(30), <3>1, <3>2, <4>1
    <3> QED
      BY ZenonT(30), <3>3
  <2> QED
    BY ZenonT(30), <1>1, <2>1, <2>2
<1> HIDE DEF rest
<1>6. /\ Total(v) \in Nat /\ Total(w) \in Nat /\ Total(w) = Total(v) - v[n] + x /\ v[n] <= Total(v)
  BY <1>1, <1>3, <1>4, <1>5
<1> QED
  BY ZenonT(30), <1>6 DEF w

-----------------------------------------------------------------------------
(* The shape of the state *)

Flags == notified \in BOOLEAN /\ watching \in BOOLEAN /\ unreported \in BOOLEAN /\ (notified => watching)
Counters == calls \in 0..MaxCalls /\ faults \in 0..MaxFaults
Places == wpc \in {"off", "list", "send", "wait", "ended"} /\ epc \in {"recv", "update", "stopped"}
Values == wval \in Nat /\ res \in Nat \cup {-1} /\ stream \in Seq(Nat) /\ Len(stream) <= StreamCap
Nodes == node \in Node /\ nodeSeen \in Node

\* The pool has a size, and what is reported of it is one.
LEMMA CapacityIsNat ==
    ASSUME Handlers PROVE VirtualBytes \in Nat /\ VirtualPoolSize \in Nat /\ Reported \in Nat
<1>1. VirtualBytes \in Nat
  <2>1. PICK n \in Names : TRUE
    BY PoolAssumption
  <2> QED
    BY ZenonT(30), <2>1, PoolAssumption, TotalSplit DEF VirtualBytes, Handlers
<1>2. VirtualPoolSize \in Nat
  <2>1. RatioNum * PoolSize \in Nat /\ RatioDen \in Nat \ {0}
    BY PoolAssumption
  <2> QED
    BY <2>1 DEF VirtualPoolSize
<1> HIDE DEF VirtualBytes
<1> QED
  BY <1>1, <1>2, PoolAssumption DEF Reported, Free, FreeBytes

\* What a handler can do to the flags and the counters.
LEMMA HandlerShape ==
    ASSUME NEW c \in Clients, NewRequest(c) \/ PoolStep(c)
    PROVE  /\ notified' \in {notified, watching} /\ watching' = watching
           /\ unreported' \in {unreported, TRUE}
           /\ calls' = calls \/ (calls < MaxCalls /\ calls' = calls + 1)
           /\ faults' = faults \/ (faults > 0 /\ faults' = faults - 1)
<1>1. CASE NewRequest(c)
  BY ZenonT(30), <1>1 DEF NewRequest, Request
<1>2. CASE CreateLVCheck(c) \/ RemoveLV(c) \/ ResizeLVCheck(c)
  BY ZenonT(30), <1>2 DEF CreateLVCheck, RemoveLV, ResizeLVCheck, Rejected, Continue, Command, Fails, Fault
<1>3. CASE CreateVolume(c) \/ ResizeVolume(c) \/ ThinSnapshot(c)
  BY ZenonT(30), <1>3 DEF CreateVolume, ResizeVolume, ThinSnapshot, Rejected, Command, Fails, Fault
<1>4. CASE CreateLVFind(c) \/ SnapshotResize(c)
  BY ZenonT(30), <1>4 DEF CreateLVFind, SnapshotResize, RejectedSilently, FailsSilently, ReturnSilently,
       Continue, Command, Fault
<1>5. CASE SnapshotCheck(c)
  BY ZenonT(30), <1>5 DEF SnapshotCheck, Rejected, Fails, Fault
<1>6. CASE SnapshotActivate(c)
  BY ZenonT(30), <1>6 DEF SnapshotActivate, Continue, ReturnSilently, Fault
<1>7. CASE Notify(c)
  BY ZenonT(30), <1>7 DEF Notify, notifyWatchers
<1> QED
  BY ZenonT(30), <1>1, <1>2, <1>3, <1>4, <1>5, <1>6, <1>7 DEF PoolStep

\* What the other steps do to the counters.
LEMMA OtherShape ==
    ASSUME \/ WatchStart \/ SendList \/ StreamSend \/ WatchWake \/ Tick \/ Recv \/ RecvError
           \/ UpdateNode \/ UpdateNodeFails \/ NodeCacheSync \/ NodeDelete \/ Crash \/ UNCHANGED vars
    PROVE  calls' = calls /\ (faults' = faults \/ (faults > 0 /\ faults' = faults - 1))
<1>1. CASE WatchStart \/ SendList \/ StreamSend \/ WatchWake \/ Tick \/ Recv
  BY ZenonT(30), <1>1 DEF WatchStart, SendList, StreamSend, WatchWake, Tick, Recv, poolVars, Fault
<1>2. CASE \/ RecvError \/ UpdateNode \/ UpdateNodeFails \/ NodeCacheSync \/ NodeDelete \/ Crash
           \/ UNCHANGED vars
  BY ZenonT(30), <1>2 DEF RecvError, UpdateNode, UpdateNodeFails, NodeCacheSync, NodeDelete, Crash, Reset,
       vars, poolVars, Fault
<1> QED
  BY <1>1, <1>2

\* The counters stay within their bounds.
LEMMA CountersKept ==
    ASSUME Counters,
           calls' = calls \/ (calls < MaxCalls /\ calls' = calls + 1),
           faults' = faults \/ (faults > 0 /\ faults' = faults - 1)
    PROVE  Counters'
<1>1. MaxCalls \in Nat /\ MaxFaults \in Nat
  BY PoolAssumption
<1> QED
  BY <1>1 DEF Counters

\* A Node with other fields is a Node.
LEMMA NodeTyped ==
    ASSUME NEW n \in Node, NEW s \in Node, NEW k \in Nat \cup {-1}
    PROVE  /\ [n EXCEPT !.deleting = TRUE] \in Node
           /\ [n EXCEPT !.capacity = IF s.capacity = k THEN n.capacity ELSE k,
                        !.finalizer = n.finalizer \/ ~s.finalizer] \in Node
<1>1. [n EXCEPT !.deleting = TRUE] \in Node
  BY ZenonT(30) DEF Node
<1>2. /\ (IF s.capacity = k THEN n.capacity ELSE k) \in Nat \cup {-1}
      /\ (n.finalizer \/ ~s.finalizer) \in BOOLEAN
  BY ZenonT(30) DEF Node
<1> DEFINE a == IF s.capacity = k THEN n.capacity ELSE k
           b == n.finalizer \/ ~s.finalizer
<1>3. a \in Nat \cup {-1} /\ b \in BOOLEAN
  BY ZenonT(30), <1>2
<1> HIDE DEF a, b
<1>4. [n EXCEPT !.capacity = a, !.finalizer = b] \in Node
  BY ZenonT(30), <1>3 DEF Node
<1> QED
  BY ZenonT(30), <1>1, <1>4 DEF a, b

Shape == Flags /\ Counters /\ Places /\ Values /\ Nodes

\* A new start has the shape.
LEMMA ResetShape ==
    ASSUME Shape, Reset, unreported' \in {unreported, FALSE}, Counters' PROVE Shape'
<1>1. Flags'
  BY ZenonT(30) DEF Reset, Shape, Flags
<1>2. Places'
  BY ZenonT(30) DEF Reset, Places
<1>3. Nodes'
  BY ZenonT(30) DEF Reset, Shape, Nodes
<1>4. <<>> \in Seq(Nat) /\ Len(<<>>) = 0 /\ 0 <= StreamCap
  BY WatchAssumption
<1>5. Values'
  BY <1>4 DEF Reset, Values
<1> QED
  BY <1>1, <1>2, <1>3, <1>5 DEF Shape

\* Every step keeps the shape.
LEMMA ShapeNext == ASSUME WakeupInv, Shape, [Next]_vars PROVE Shape'
<1>1. ASSUME NEW c \in Clients, NewRequest(c) \/ PoolStep(c), UNCHANGED watchVars PROVE Shape'
  <2>1. Flags'
    BY ZenonT(30), <1>1, HandlerShape DEF Shape, Flags
  <2>2. Counters'
    BY ZenonT(30), <1>1, HandlerShape, CountersKept DEF Shape
  <2>3. Places'
    BY ZenonT(30), <1>1 DEF Shape, Places, watchVars
  <2>4. Values'
    BY ZenonT(30), <1>1 DEF Shape, Values, watchVars
  <2>5. Nodes'
    BY ZenonT(30), <1>1 DEF Shape, Nodes, watchVars
  <2> QED
    BY <2>1, <2>2, <2>3, <2>4, <2>5 DEF Shape
<1>2. CASE WatchStart \/ SendList \/ StreamSend \/ WatchWake \/ Tick \/ Recv
  <2>1. Counters'
    BY ZenonT(30), <1>2, OtherShape, CountersKept DEF Shape
  <2>2. Flags'
    <3>1. CASE WatchStart
      BY ZenonT(30), <3>1 DEF WatchStart, Shape, Flags
    <3>2. CASE SendList
      <4>1. CASE notified' = notified /\ watching' = watching /\ unreported' = FALSE
        BY ZenonT(30), <4>1 DEF Shape, Flags
      <4>2. CASE notified' = FALSE /\ watching' = FALSE /\ unreported' = unreported
        BY ZenonT(30), <4>2 DEF Shape, Flags
      <4> QED
        BY ZenonT(30), <3>2, <4>1, <4>2 DEF SendList
    <3>3. CASE WatchWake
      BY ZenonT(30), <3>3 DEF WatchWake, Shape, Flags
    <3>4. CASE StreamSend \/ Recv
      <4>1. UNCHANGED <<notified, watching, unreported>>
        BY <3>4 DEF StreamSend, Recv, poolVars
      <4> QED
        BY ZenonT(30), <4>1 DEF Shape, Flags
    <3>5. CASE Tick
      BY <3>5 DEF Tick, notifyWatchers, Shape, Flags
    <3> QED
      BY <1>2, <3>1, <3>2, <3>3, <3>4, <3>5
  <2>3. Places'
    BY ZenonT(30), <1>2 DEF WatchStart, SendList, StreamSend, WatchWake, Tick, Recv, watchVars, Shape, Places
  <2>4. Nodes'
    BY ZenonT(30), <1>2 DEF WatchStart, SendList, StreamSend, WatchWake, Tick, Recv, watchVars, Shape, Nodes
  <2>5. Values'
    <3>1. CASE WatchStart \/ WatchWake \/ Tick
      BY ZenonT(30), <3>1 DEF WatchStart, WatchWake, Tick, watchVars, Shape, Values
    <3>2. CASE SendList
      BY ZenonT(30), <3>2, CapacityIsNat DEF SendList, Shape, Values, WakeupInv
    <3>3. CASE StreamSend
      <4>1. stream' = Append(stream, wval) /\ Len(stream) < StreamCap /\ wval' = 0 /\ res' = res
        BY <3>3 DEF StreamSend
      <4>2. stream' \in Seq(Nat) /\ Len(stream') = Len(stream) + 1 /\ Len(stream) \in Nat
        BY <4>1 DEF Shape, Values
      <4>3. Len(stream') <= StreamCap
        BY <4>1, <4>2, WatchAssumption
      <4> QED
        BY ZenonT(30), <4>1, <4>2, <4>3 DEF Shape, Values
    <3>4. CASE Recv
      <4>1. CASE stream # <<>> /\ res' = Head(stream) /\ stream' = Tail(stream) /\ wval' = wval
        <5>1. /\ Head(stream) \in Nat /\ Tail(stream) \in Seq(Nat)
              /\ Len(Tail(stream)) = Len(stream) - 1 /\ Len(stream) \in Nat
          BY <4>1 DEF Shape, Values
        <5>2. Len(stream') <= StreamCap
          BY <4>1, <5>1, WatchAssumption DEF Shape, Values
        <5> QED
          BY ZenonT(30), <4>1, <5>1, <5>2 DEF Shape, Values
      <4>2. CASE res' = wval /\ wval' = 0 /\ stream' = stream
        BY <4>2 DEF Shape, Values
      <4> QED
        BY ZenonT(30), <3>4, <4>1, <4>2 DEF Recv
    <3> QED
      BY <1>2, <3>1, <3>2, <3>3, <3>4
  <2> QED
    BY <2>1, <2>2, <2>3, <2>4, <2>5 DEF Shape
<1>3. CASE RecvError \/ UpdateNodeFails \/ Crash
  <2>1. Counters'
    BY ZenonT(30), <1>3, OtherShape, CountersKept DEF Shape
  <2>2. Reset /\ unreported' \in {unreported, FALSE}
    BY ZenonT(30), <1>3 DEF RecvError, UpdateNodeFails, Crash, Killed, Survives
  <2> QED
    BY ZenonT(30), <2>1, <2>2, ResetShape
<1>4. CASE UpdateNode \/ NodeCacheSync \/ NodeDelete \/ UNCHANGED vars
  <2>0. UNCHANGED <<notified, watching, unreported, wpc, wval, stream, res>>
    BY ZenonT(30), <1>4 DEF UpdateNode, NodeCacheSync, NodeDelete, vars, watchVars, poolVars
  <2>1. Counters'
    BY ZenonT(30), <1>4, OtherShape, CountersKept DEF Shape
  <2>2. Flags'
    BY ZenonT(30), <2>0 DEF Shape, Flags
  <2>3. Values'
    BY ZenonT(30), <2>0 DEF Shape, Values
  <2>4. Places'
    BY ZenonT(30), <1>4, <2>0 DEF UpdateNode, NodeCacheSync, NodeDelete, vars, watchVars, Shape, Places
  <2>5. Nodes'
    <3>1. CASE UpdateNode
      <4>1. Patched(nodeSeen) \in Node
        BY ZenonT(30), NodeTyped DEF Patched, Shape, Nodes, Values
      <4> QED
        BY ZenonT(30), <3>1, <4>1 DEF UpdateNode, Shape, Nodes
    <3>2. CASE NodeDelete
      BY ZenonT(30), <3>2, NodeTyped DEF NodeDelete, Shape, Nodes
    <3>3. CASE NodeCacheSync \/ UNCHANGED vars
      BY ZenonT(30), <3>3 DEF NodeCacheSync, vars, watchVars, Shape, Nodes
    <3> QED
      BY <1>4, <3>1, <3>2, <3>3
  <2> QED
    BY <2>1, <2>2, <2>3, <2>4, <2>5 DEF Shape
<1> QED
  BY ZenonT(30), <1>1, <1>2, <1>3, <1>4 DEF Next

\* The state keeps its shape: sizes are never negative, counters keep within
\* their bounds, the stream within its capacity, and a token waits in the
\* channel only while Watch has it registered.
THEOREM WatchTypes == Spec => []TypeOK
<1> DEFINE Inv == WakeupInv /\ Shape
<1>1. Init => Inv
  <2> SUFFICES ASSUME Init PROVE Shape
    BY InitWakeupInv
  <2>1. MaxCalls \in Nat /\ MaxFaults \in Nat /\ StreamCap \in Nat
    BY PoolAssumption, WatchAssumption
  <2>2. Counters
    BY <2>1 DEF Init, PoolInit, Counters
  <2>3. <<>> \in Seq(Nat) /\ Len(<<>>) = 0
    OBVIOUS
  <2>4. Values
    BY <2>1, <2>3 DEF Init, Values
  <2>5. Flags /\ Places
    BY ZenonT(30) DEF Init, PoolInit, Flags, Places
  <2>6. Nodes
    BY DEF Init, Nodes, Node
  <2> QED
    BY <2>2, <2>4, <2>5, <2>6 DEF Shape
<1>2. Inv /\ [Next]_vars => Inv'
  BY NextPreserves, ShapeNext
<1>3. Inv => TypeOK
  BY ZenonT(30) DEF WakeupInv, Handlers, Registered, Shape, Flags, Counters, Places, Values, Nodes, TypeOK, PoolTypeOK
<1> HIDE DEF Inv
<1> QED
  BY <1>1, <1>2, <1>3, PTL DEF Spec

-----------------------------------------------------------------------------
(* One caller and a thin pool *)

\* The pool is within its limit, up to the rounding of one size.
Within(v) == Type = "thin" => Total(v) < VirtualPoolSize + Extent

\* A handler k that is past its comparison with the free bytes has room for
\* what it is about to do, and one that is done has the size it was asked for.
CallFits(k, v) ==
    /\ k.op = "RemoveLV" => k.size = 0
    /\ k.op = "CreateLV" => k.size > 0
    /\ k.op = "CreateLVSnapshot" /\ k.pc = "command" => v[k.source] <= k.size
    /\ k.pc \in {"find", "activate", "notify"} => v[k.name] >= k.size
    /\ Type = "thin" /\ k.pc \in {"command", "resize"} =>
         Total(v) - v[k.name] + k.size <= VirtualPoolSize

OneCallInv == Within(vol) /\ \A c \in Clients : CallFits(call[c], vol)

OneClient == \A c, d \in Clients : c = d

\* Rounding up to extents adds less than one.
LEMMA RoundUpBounds ==
    ASSUME NEW n \in Nat PROVE RoundUp(n) \in Nat /\ n <= RoundUp(n) /\ RoundUp(n) < n + Extent
<1> DEFINE a == n + Extent - 1
           q == a \div Extent
<1>1. Extent \in Nat \ {0} /\ a \in Nat
  BY PoolAssumption
<1>2. q \in Nat /\ a % Extent \in 0..(Extent - 1) /\ a = q * Extent + (a % Extent)
  <2> HIDE DEF a
  <2> QED
    BY <1>1
<1>3. RoundUp(n) = q * Extent
  BY DEF RoundUp
<1> HIDE DEF q
<1>4. q * Extent \in Nat
  BY <1>1, <1>2
<1> QED
  BY <1>1, <1>2, <1>3, <1>4

\* The free bytes of a thin pool, if there are enough of them, are what its
\* volumes leave.
LEMMA FreeIsRoom ==
    ASSUME Handlers, Type = "thin", NEW n \in Nat \ {0}, ~ (Free < n)
    PROVE  Total(vol) + n <= VirtualPoolSize
<1>1. Total(vol) \in Nat /\ VirtualPoolSize \in Nat
  BY CapacityIsNat DEF VirtualBytes
<1>2. Free = IF VirtualPoolSize <= Total(vol) THEN 0 ELSE VirtualPoolSize - Total(vol)
  BY DEF Free, FreeBytes, VirtualBytes
<1> QED
  BY <1>1, <1>2

\* What the one client leaves behind is the state of the pool.
LEMMA OneCallStep ==
    ASSUME OneClient, Handlers, NEW c \in Clients, NEW r \in Call, NEW w,
           call' = [call EXCEPT ![c] = r], vol' = w, Within(w), CallFits(r, w)
    PROVE  OneCallInv'
<1>1. \A d \in Clients : d = c /\ call'[d] = r
  BY ZenonT(30) DEF OneClient, Handlers
<1>2. \A d \in Clients : CallFits(call'[d], vol')
  BY ZenonT(30), <1>1
<1>3. Within(vol')
  BY ZenonT(30)
<1> QED
  BY ZenonT(30), <1>2, <1>3 DEF OneCallInv, Within, CallFits

\* A call that is over owes nothing; its volume is as it was, or is gone.
LEMMA ReturnFits ==
    ASSUME OneClient, Handlers, OneCallInv, NEW c \in Clients, Return(c),
           vol' = vol \/ vol' = [vol EXCEPT ![call[c].name] = 0]
    PROVE  OneCallInv'
<1>1. Idle \in Call /\ Idle.pc = "idle" /\ Idle.op = "none"
  BY ZenonT(30), IdleIsCall DEF Idle
<1>2. CallFits(Idle, vol')
  BY ZenonT(30), <1>1 DEF CallFits
<1>3. Within(vol')
  <2>1. CASE vol' = vol
    BY ZenonT(30), <2>1 DEF OneCallInv
  <2>2. CASE vol' = [vol EXCEPT ![call[c].name] = 0]
    <3> DEFINE w == [vol EXCEPT ![call[c].name] = 0]
    <3>1. call[c].name \in Names /\ vol \in [Names -> Nat] /\ 0 \in Nat /\ IsFiniteSet(Names)
      BY PoolAssumption DEF Handlers, Call
    <3>2. /\ Total(vol) \in Nat /\ Total(w) \in Nat
          /\ Total(w) = Total(vol) - vol[call[c].name] + 0
      BY ZenonT(30), <3>1, TotalSplit
    <3>3. vol[call[c].name] \in Nat
      BY <3>1
    <3>4. VirtualPoolSize \in Nat /\ Extent \in Nat
      BY CapacityIsNat, PoolAssumption
    <3> HIDE DEF w
    <3>5. Within(w)
      <4>1. Type = "thin" => Total(vol) < VirtualPoolSize + Extent
        BY ZenonT(30) DEF OneCallInv, Within
      <4>2. \A t, v, m, e \in Nat : t < m + e => t - v + 0 < m + e
        OBVIOUS
      <4>3. Type = "thin" => Total(vol) - vol[call[c].name] + 0 < VirtualPoolSize + Extent
        BY ZenonT(30), <3>2, <3>3, <3>4, <4>1, <4>2
      <4> QED
        BY ZenonT(30), <3>2, <4>3 DEF Within
    <3> QED
      BY ZenonT(30), <2>2, <3>5 DEF w
  <2> QED
    BY <2>1, <2>2
<1> QED
  BY ZenonT(30), <1>1, <1>2, <1>3, OneCallStep DEF Return

\* A handler that goes on without changing the pool.
LEMMA ContinueFits ==
    ASSUME OneClient, Handlers, OneCallInv, NEW c \in Clients,
           NEW pc \in {"command", "resize", "activate", "find", "notify"}, Continue(c, pc),
           pc \in {"find", "activate", "notify"} => vol[call[c].name] >= call[c].size,
           pc = "command" => call[c].op # "CreateLVSnapshot",
           Type = "thin" /\ pc \in {"command", "resize"} =>
             Total(vol) - vol[call[c].name] + call[c].size <= VirtualPoolSize
    PROVE  OneCallInv'
<1> DEFINE r == [call[c] EXCEPT !.pc = pc]
<1>1. /\ r \in Call /\ r.pc = pc /\ r.op = call[c].op /\ r.name = call[c].name
      /\ r.source = call[c].source /\ r.size = call[c].size
  BY DEF Handlers, Call
<1>2. call' = [call EXCEPT ![c] = r] /\ vol' = vol
  BY DEF Continue, Goto
<1> HIDE DEF r
<1>3. CallFits(call[c], vol) /\ Within(vol)
  BY ZenonT(30) DEF OneCallInv
<1>4. CallFits(r, vol)
  BY ZenonT(30), <1>1, <1>3 DEF CallFits
<1> QED
  BY ZenonT(30), <1>1, <1>2, <1>3, <1>4, OneCallStep

\* A total t of which v is replaced, and a limit m.
LEMMA Replaced ==
    ASSUME NEW t \in Nat, NEW v \in Nat, NEW m \in Nat
    PROVE  /\ \A n \in Nat : t + n <= m => t - v + n <= m
           /\ \A n \in Nat : n - v \in Nat /\ t + (n - v) <= m => t - v + n <= m
           /\ \A n, k \in Nat, e \in Nat \ {0} : t - v + k <= m /\ n < k + e => t - v + n < m + e
           /\ \A n, k \in Nat, e \in Nat \ {0} : t - v + k <= m /\ n <= k => t - v + n < m + e
           /\ \A e \in Nat \ {0} : t < m + e => t - v + 0 < m + e
  OBVIOUS

\* An LVM command that sets the size of the volume.
LEMMA CommandFits ==
    ASSUME OneClient, Handlers, OneCallInv, NEW c \in Clients, NEW n \in Nat,
           NEW pc \in {"resize", "activate", "find", "notify"}, Command(c, n, pc),
           pc \in {"find", "activate", "notify"} => n >= call[c].size,
           Type = "thin" => Total(vol) - vol[call[c].name] + n < VirtualPoolSize + Extent,
           Type = "thin" /\ pc = "resize" =>
             Total(vol) - vol[call[c].name] + call[c].size <= VirtualPoolSize
    PROVE  OneCallInv'
<1> DEFINE r == [call[c] EXCEPT !.pc = pc]
           w == [vol EXCEPT ![call[c].name] = n]
<1>1. /\ r \in Call /\ r.pc = pc /\ r.op = call[c].op /\ r.name = call[c].name
      /\ r.source = call[c].source /\ r.size = call[c].size /\ r.size \in Nat
  BY DEF Handlers, Call
<1>2. call' = [call EXCEPT ![c] = r] /\ vol' = w
  BY DEF Command, Goto
<1>3. call[c].name \in Names /\ vol \in [Names -> Nat] /\ IsFiniteSet(Names)
  BY ZenonT(30), PoolAssumption DEF Handlers, Call
<1>4. Total(vol) \in Nat /\ Total(w) \in Nat /\ Total(w) = Total(vol) - vol[call[c].name] + n
  BY ZenonT(30), <1>3, TotalSplit
<1>5. w[call[c].name] = n /\ vol[call[c].name] \in Nat
  BY ZenonT(30), <1>3
<1>6. CallFits(call[c], vol)
  BY ZenonT(30) DEF OneCallInv
<1> HIDE DEF r, w
<1>7. Within(w)
  BY ZenonT(30), <1>4 DEF Within
<1>8. CallFits(r, w)
  <2>1. Type = "thin" /\ pc = "resize" => Total(w) - w[r.name] + r.size <= VirtualPoolSize
    <3>2. w[r.name] = n /\ r.size = call[c].size /\ call[c].size \in Nat
      BY ZenonT(30), <1>1, <1>5
    <3>3. Total(w) - w[r.name] + r.size = (Total(vol) - vol[call[c].name] + n) - n + call[c].size
      BY ZenonT(30), <1>4, <3>2
    <3>4. (Total(vol) - vol[call[c].name] + n) - n + call[c].size = Total(vol) - vol[call[c].name] + call[c].size
      <4> DEFINE a == Total(vol)
                 b == vol[call[c].name]
                 z == call[c].size
      <4>1. a \in Nat /\ b \in Nat /\ z \in Nat
        BY ZenonT(30), <1>4, <1>5, <3>2
      <4> HIDE DEF a, b, z
      <4>2. (a - b + n) - n + z = a - b + z
        BY <4>1
      <4> QED
        BY ZenonT(30), <4>2 DEF a, b, z
    <3> QED
      BY ZenonT(30), <3>3, <3>4
  <2> QED
    BY ZenonT(30), <1>1, <1>5, <1>6, <2>1 DEF CallFits
<1> QED
  BY ZenonT(30), <1>1, <1>2, <1>7, <1>8, OneCallStep

\* A request starts with the size it may ask for.
LEMMA RequestFits ==
    ASSUME OneClient, Handlers, OneCallInv, NEW c \in Clients, NewRequest(c)
    PROVE  OneCallInv'
<1>1. PICK op \in Operations, name \in Names, source \in Names, size \in Nat :
          /\ Request(c, op, name, source, size)
          /\ op = "RemoveLV" => size = 0
          /\ op = "CreateLV" => size > 0
  BY PoolAssumption DEF NewRequest, Operations
<1> DEFINE r == [op |-> op, name |-> name, source |-> source, size |-> size, pc |-> "check"]
<1>2. r \in Call /\ r.op = op /\ r.size = size /\ r.pc = "check"
  BY ZenonT(30) DEF Call
<1>3. call' = [call EXCEPT ![c] = r] /\ vol' = vol
  BY ZenonT(30), <1>1 DEF Request
<1> HIDE DEF r
<1>4. CallFits(r, vol)
  BY ZenonT(30), <1>1, <1>2 DEF CallFits
<1> QED
  BY ZenonT(30), <1>2, <1>3, <1>4, OneCallStep DEF OneCallInv

\* The comparison with the free bytes holds until the command has run.
LEMMA StepFits ==
    ASSUME OneClient, Handlers, OneCallInv, NEW c \in Clients, PoolStep(c)
    PROVE  OneCallInv'
<1> DEFINE k == call[c]
<1>0. /\ k \in Call /\ k.size \in Nat /\ k.name \in Names /\ k.source \in Names
      /\ vol[k.name] \in Nat /\ vol[k.source] \in Nat
      /\ Total(vol) \in Nat /\ VirtualPoolSize \in Nat /\ Extent \in Nat \ {0}
  <2>1. Total(vol) \in Nat /\ VirtualPoolSize \in Nat
    BY CapacityIsNat DEF VirtualBytes
  <2> QED
    BY ZenonT(30), <2>1, PoolAssumption DEF Handlers, Call
<1>1. CallFits(k, vol) /\ Within(vol)
  BY DEF OneCallInv
<1>2. RoundUp(k.size) \in Nat /\ k.size <= RoundUp(k.size) /\ RoundUp(k.size) < k.size + Extent
  BY ZenonT(30), <1>0, RoundUpBounds
<1>3. CASE Rejected(c) \/ Fails(c) \/ RejectedSilently(c) \/ FailsSilently(c)
  BY ZenonT(30), <1>3, ReturnFits DEF Rejected, Fails, RejectedSilently, FailsSilently, ReturnSilently
<1>4. CASE CreateLVCheck(c)
  <2>1. CASE Continue(c, "command") /\ ~ (Free < k.size)
    <3>1. k.op = "CreateLV" /\ k.size \in Nat \ {0}
      <4>1. k.op = "CreateLV"
        BY ZenonT(30), <1>4 DEF CreateLVCheck, At
      <4>2. k.size > 0
        BY ZenonT(30), <1>1, <4>1 DEF CallFits
      <4> HIDE DEF k
      <4> QED
        BY <1>0, <4>1, <4>2
    <3>2. Type = "thin" => Total(vol) + k.size <= VirtualPoolSize
      BY ZenonT(30), <2>1, <3>1, FreeIsRoom
    <3>3. Type = "thin" => Total(vol) - vol[k.name] + k.size <= VirtualPoolSize
      <4> HIDE DEF k
      <4> QED
        BY ZenonT(30), <1>0, <3>1, <3>2, Replaced
    <3> QED
      BY ZenonT(30), <2>1, <3>1, <3>3, ContinueFits
  <2> QED
    BY ZenonT(30), <1>3, <1>4, <2>1 DEF CreateLVCheck
<1>5. CASE CreateVolume(c)
  <2>1. CASE Command(c, RoundUp(k.size), "find")
    <3>1. Type = "thin" => Total(vol) - vol[k.name] + k.size <= VirtualPoolSize
      BY ZenonT(30), <1>1, <1>5 DEF CreateVolume, At, CallFits
    <3>2. Type = "thin" => Total(vol) - vol[k.name] + RoundUp(k.size) < VirtualPoolSize + Extent
      <4> HIDE DEF k
      <4> QED
        BY ZenonT(30), <1>0, <1>2, <3>1, Replaced
    <3>3. RoundUp(k.size) >= k.size
      <4> HIDE DEF k
      <4> QED
        BY ZenonT(30), <1>0, <1>2
    <3> QED
      BY ZenonT(30), <1>2, <2>1, <3>2, <3>3, CommandFits
  <2> QED
    BY ZenonT(30), <1>3, <1>5, <2>1 DEF CreateVolume
<1>6. CASE CreateLVFind(c)
  <2>1. CASE Continue(c, "notify")
    <3>1. vol[k.name] >= k.size
      BY ZenonT(30), <1>1, <1>6 DEF CreateLVFind, At, CallFits
    <3> QED
      BY ZenonT(30), <2>1, <3>1, ContinueFits
  <2> QED
    BY ZenonT(30), <1>3, <1>6, <2>1 DEF CreateLVFind
<1>7. CASE RemoveLV(c)
  <2>1. CASE Command(c, 0, "notify")
    <3>1. k.size = 0
      BY ZenonT(30), <1>1, <1>7 DEF RemoveLV, At, CallFits
    <3>2. Type = "thin" => Total(vol) - vol[k.name] + 0 < VirtualPoolSize + Extent
      BY ZenonT(30), <1>0, <1>1, Replaced DEF Within
    <3>3. 0 >= k.size /\ 0 \in Nat
      BY <3>1
    <3> QED
      BY ZenonT(30), <2>1, <3>2, <3>3, CommandFits
  <2> QED
    BY ZenonT(30), <1>3, <1>7, <2>1 DEF RemoveLV
<1>8. CASE ResizeLVCheck(c)
  <2>1. CASE Continue(c, "command") /\ ~ (k.size <= vol[k.name]) /\ ~ (Free < k.size - vol[k.name])
    <3>1. k.op = "ResizeLV" /\ k.size - vol[k.name] \in Nat \ {0}
      <4>1. k.op = "ResizeLV" /\ ~ (k.size <= vol[k.name])
        BY ZenonT(30), <1>8, <2>1 DEF ResizeLVCheck, At
      <4> HIDE DEF k
      <4> QED
        BY <1>0, <4>1
    <3>2. Type = "thin" => Total(vol) + (k.size - vol[k.name]) <= VirtualPoolSize
      BY ZenonT(30), <2>1, <3>1, FreeIsRoom
    <3>3. Type = "thin" => Total(vol) - vol[k.name] + k.size <= VirtualPoolSize
      <4> HIDE DEF k
      <4> QED
        BY ZenonT(30), <1>0, <3>1, <3>2, Replaced
    <3> QED
      BY ZenonT(30), <2>1, <3>1, <3>3, ContinueFits
  <2> QED
    BY ZenonT(30), <1>3, <1>8, <2>1 DEF ResizeLVCheck
<1>9. CASE ResizeVolume(c)
  <2>1. CASE Command(c, RoundUp(k.size), "notify")
    <3>1. Type = "thin" => Total(vol) - vol[k.name] + k.size <= VirtualPoolSize
      BY ZenonT(30), <1>1, <1>9 DEF ResizeVolume, At, CallFits
    <3>2. Type = "thin" => Total(vol) - vol[k.name] + RoundUp(k.size) < VirtualPoolSize + Extent
      <4> HIDE DEF k
      <4> QED
        BY ZenonT(30), <1>0, <1>2, <3>1, Replaced
    <3>3. RoundUp(k.size) >= k.size
      <4> HIDE DEF k
      <4> QED
        BY ZenonT(30), <1>0, <1>2
    <3> QED
      BY ZenonT(30), <1>2, <2>1, <3>2, <3>3, CommandFits
  <2> QED
    BY ZenonT(30), <1>3, <1>9, <2>1 DEF ResizeVolume
<1>10. CASE SnapshotCheck(c)
  <2> DEFINE n == IF k.size = 0 THEN vol[k.source] ELSE k.size
             r == [k EXCEPT !.pc = "command", !.size = n]
  <2>1. CASE /\ vol[k.source] # 0 /\ ~ (vol[k.source] > n) /\ ~ (Free < n)
             /\ call' = [call EXCEPT ![c].pc = "command", ![c].size = n]
             /\ vol' = vol
    <3>1. n \in Nat \ {0} /\ vol[k.source] <= n
      <4>1. \A a, b \in Nat : a # 0 /\ ~ (a > b) => a <= b /\ b # 0
        OBVIOUS
      <4>2. n \in Nat
        BY ZenonT(30), <1>0
      <4> QED
        BY ZenonT(30), <1>0, <2>1, <4>1, <4>2
    <3>2. k.op = "CreateLVSnapshot"
      BY ZenonT(30), <1>10 DEF SnapshotCheck, At
    <3>3. call' = [call EXCEPT ![c] = r]
      BY ZenonT(30), <1>0, <2>1 DEF Handlers, Call
    <3> HIDE DEF n
    <3>4. r \in Call
      BY ZenonT(30), <1>0, <3>1, CallWith
    <3>5. r.op = "CreateLVSnapshot" /\ r.name = k.name /\ r.source = k.source /\ r.size = n /\ r.pc = "command"
      BY <1>0, <3>2 DEF Call
    <3>6. Type = "thin" => Total(vol) + n <= VirtualPoolSize
      BY ZenonT(30), <2>1, <3>1, FreeIsRoom
    <3>7. Type = "thin" => Total(vol) - vol[k.name] + n <= VirtualPoolSize
      BY ZenonT(30), <1>0, <3>1, <3>6, Replaced
    <3> HIDE DEF r
    <3>8. CallFits(r, vol)
      BY ZenonT(30), <3>1, <3>5, <3>7 DEF CallFits
    <3> QED
      BY ZenonT(30), <1>1, <2>1, <3>3, <3>4, <3>8, OneCallStep
  <2> QED
    BY ZenonT(30), <1>3, <1>10, <2>1 DEF SnapshotCheck
<1>11. CASE ThinSnapshot(c)
  <2>1. CASE Command(c, vol[k.source], "resize")
    <3>1. /\ vol[k.source] <= k.size
          /\ Type = "thin" => Total(vol) - vol[k.name] + k.size <= VirtualPoolSize
      BY ZenonT(30), <1>1, <1>11 DEF ThinSnapshot, At, CallFits
    <3>2. Type = "thin" => Total(vol) - vol[k.name] + vol[k.source] < VirtualPoolSize + Extent
      <4> HIDE DEF k
      <4> QED
        BY ZenonT(30), <1>0, <3>1, Replaced
    <3> QED
      BY ZenonT(30), <1>0, <2>1, <3>1, <3>2, CommandFits
  <2> QED
    BY ZenonT(30), <1>3, <1>11, <2>1 DEF ThinSnapshot
<1>12. CASE SnapshotResize(c)
  <2>1. CASE Command(c, RoundUp(k.size), "activate")
    <3>1. Type = "thin" => Total(vol) - vol[k.name] + k.size <= VirtualPoolSize
      BY ZenonT(30), <1>1, <1>12 DEF SnapshotResize, At, CallFits
    <3>2. Type = "thin" => Total(vol) - vol[k.name] + RoundUp(k.size) < VirtualPoolSize + Extent
      <4> HIDE DEF k
      <4> QED
        BY ZenonT(30), <1>0, <1>2, <3>1, Replaced
    <3>3. RoundUp(k.size) >= k.size
      <4> HIDE DEF k
      <4> QED
        BY ZenonT(30), <1>0, <1>2
    <3> QED
      BY ZenonT(30), <1>2, <2>1, <3>2, <3>3, CommandFits
  <2> QED
    BY ZenonT(30), <1>3, <1>12, <2>1 DEF SnapshotResize
<1>13. CASE SnapshotActivate(c)
  <2>1. CASE Continue(c, "notify")
    <3>1. vol[k.name] >= k.size
      BY ZenonT(30), <1>1, <1>13 DEF SnapshotActivate, At, CallFits
    <3> QED
      BY ZenonT(30), <2>1, <3>1, ContinueFits
  <2>2. CASE /\ vol' = [vol EXCEPT ![k.name] = 0] \/ vol' = vol
             /\ ReturnSilently(c)
    BY <2>2, ReturnFits DEF ReturnSilently
  <2> QED
    BY ZenonT(30), <1>13, <2>1, <2>2 DEF SnapshotActivate
<1>14. CASE Notify(c)
  BY ZenonT(30), <1>14, ReturnFits DEF Notify
<1> QED
  BY ZenonT(30), <1>4, <1>5, <1>6, <1>7, <1>8, <1>9, <1>10, <1>11, <1>12, <1>13, <1>14 DEF PoolStep

\* Watch and the exporter leave the pool alone; a crash ends the calls.
LEMMA OthersFit ==
    ASSUME OneClient, Handlers, OneCallInv, vol' = vol, call' = call \/ call' = [c \in Clients |-> Idle]
    PROVE  OneCallInv'
<1>1. CASE call' = call
  BY ZenonT(30), <1>1 DEF OneCallInv, Within, CallFits
<1>2. CASE call' = [c \in Clients |-> Idle]
  <2>1. Idle.pc = "idle" /\ Idle.op = "none"
    BY ZenonT(30) DEF Idle
  <2>2. CallFits(Idle, vol)
    BY ZenonT(30), <2>1 DEF CallFits
  <2>3. \A c \in Clients : CallFits(call'[c], vol')
    BY ZenonT(30), <1>2, <2>2
  <2> QED
    BY ZenonT(30), <2>3 DEF OneCallInv, Within, CallFits
<1> QED
  BY <1>1, <1>2

\* With one client the invariant of its call holds in every reachable state.
THEOREM OneCallInvariant == ASSUME OneClient PROVE Spec => []OneCallInv
<1>1. ASSUME Init PROVE OneCallInv
  <2>1. Idle.pc = "idle" /\ Idle.op = "none"
    BY ZenonT(30) DEF Idle
  <2>2. CallFits(Idle, vol)
    BY ZenonT(30), <2>1 DEF CallFits
  <2>3. Total(vol) = 0
    <3>1. vol = [n \in Names |-> 0]
      BY <1>1 DEF Init, PoolInit
    <3>2. Total([n \in Names |-> 0]) = Sums([n \in Names |-> 0], Names)[Names]
      BY ZenonT(30), TotalIsSum
    <3>3. Sums([n \in Names |-> 0], Names)[Names] = 0
      BY ZenonT(30), SumsZero, PoolAssumption
    <3> QED
      BY ZenonT(30), <3>1, <3>2, <3>3
  <2>4. Within(vol)
    <3>1. VirtualPoolSize \in Nat /\ Extent \in Nat \ {0}
      BY <1>1, InitWakeupInv, CapacityIsNat, PoolAssumption DEF WakeupInv
    <3> QED
      BY <2>3, <3>1 DEF Within
  <2>5. \A c \in Clients : call[c] = Idle
    BY <1>1 DEF Init, PoolInit
  <2> QED
    BY ZenonT(30), <2>2, <2>4, <2>5 DEF OneCallInv
<1>2. ASSUME WakeupInv, OneCallInv, [Next]_vars PROVE OneCallInv'
  <2>0. Handlers
    BY <1>2 DEF WakeupInv
  <2>1. ASSUME NEW c \in Clients, NewRequest(c) PROVE OneCallInv'
    BY <1>2, <2>0, <2>1, RequestFits
  <2>2. ASSUME NEW c \in Clients, PoolStep(c) PROVE OneCallInv'
    BY <1>2, <2>0, <2>2, StepFits
  <2>3. CASE WatchStart \/ SendList \/ StreamSend \/ WatchWake \/ Tick \/ Recv
    <3>1. vol' = vol /\ call' = call
      BY ZenonT(30), <2>3 DEF WatchStart, SendList, StreamSend, WatchWake, Tick, Recv, poolVars
    <3> QED
      BY <1>2, <2>0, <3>1, OthersFit
  <2>4. CASE UpdateNode \/ NodeCacheSync \/ NodeDelete \/ UNCHANGED vars
    <3>1. vol' = vol /\ call' = call
      BY ZenonT(30), <2>4 DEF UpdateNode, NodeCacheSync, NodeDelete, vars, poolVars
    <3> QED
      BY <1>2, <2>0, <3>1, OthersFit
  <2>5. CASE RecvError \/ UpdateNodeFails \/ Crash
    <3>1. vol' = vol /\ (call' = call \/ call' = [c \in Clients |-> Idle])
      BY ZenonT(30), <2>5 DEF RecvError, UpdateNodeFails, Crash, Reset, Killed, Survives
    <3> QED
      BY <1>2, <2>0, <3>1, OthersFit
  <2> QED
    BY ZenonT(30), <1>2, <2>1, <2>2, <2>3, <2>4, <2>5 DEF Next
<1>3. WakeupInv /\ OneCallInv /\ [Next]_vars => OneCallInv'
  BY <1>2
<1>4. Init => OneCallInv
  BY <1>1
<1> QED
  BY <1>3, <1>4, WakeupInvariant, PTL DEF Spec

\* One caller never drives a thin pool past its overprovision limit by an
\* extent or more, whatever it asks for and whatever fails: the comparisons of
\* CreateLV, CreateLVSnapshot and ResizeLV with FreeBytes are enough for it.
THEOREM OneClientIsBounded == ASSUME OneClient PROVE Spec => []OvercommitBounded
<1>1. OneCallInv => OvercommitBounded
  BY DEF OneCallInv, Within, OvercommitBounded, VirtualBytes
<1> QED
  BY <1>1, OneCallInvariant, PTL

\* A handler of the one caller that is about to report success has a volume of
\* at least the size that was asked for.
THEOREM OneClientGetsItsSize == ASSUME OneClient PROVE Spec => []SuccessHasSize
<1>1. OneCallInv => SuccessHasSize
  BY ZenonT(30) DEF OneCallInv, CallFits, SuccessHasSize
<1> QED
  BY <1>1, OneCallInvariant, PTL
=============================================================================
