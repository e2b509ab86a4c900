----------------------- MODULE ControllerServerProofs -----------------------
(***************************************************************************)
(* Proofs about the CSI controller.  First what convertRequestCapacityBytes *)
(* returns, for every request and limit, every sector size and every width *)
(* of integers.  Then what CreateVolume and CreateSnapshot answer, for any *)
(* number of calls, sizes, requests, expansions and faults, and that the   *)
(* two locks of the handlers hold through time-outs and a panic.           *)
(***************************************************************************)
EXTENDS ControllerServer, TLAPS

IsMultiple(n) == \E k \in Nat : n = k * MinimumSectorSize

\* A size that the caller may be given: whole sectors between the request and
\* the limit, if there is one.
Fits(n, wanted, limit) ==
    n > 0 /\ IsMultiple(n) /\ wanted <= n /\ (limit # 0 => n <= limit)

\* Division with remainder, as far as the rounding needs it.
LEMMA Division ==
    ASSUME NEW a \in Nat, NEW b \in Nat \ {0}
    PROVE  /\ a \div b \in Nat /\ a % b \in 0..(b - 1)
           /\ a = (a \div b) * b + (a % b)
  BY SMT

\* Between two consecutive multiples there is none.
LEMMA Consecutive ==
    ASSUME NEW q \in Nat, NEW k \in Nat, NEW b \in Nat \ {0}, k * b > q * b
    PROVE  k * b >= q * b + b
<1>1. k > q
  <2>1. SUFFICES ASSUME k <= q PROVE FALSE
    OBVIOUS
  <2>2. PICK d \in Nat : q = k + d
    BY <2>1, q - k \in Nat
  <2>3. q * b = k * b + d * b /\ d * b >= 0
    BY <2>2
  <2> QED
    BY <2>3
<1>2. PICK d \in Nat : k = q + 1 + d
  BY <1>1, k - q - 1 \in Nat
<1>3. k * b = q * b + b + d * b /\ d * b >= 0
  BY <1>2
<1> QED
  BY <1>3

\* roundUp is the least multiple that is not below the size.
LEMMA RoundUpLeast ==
    ASSUME NEW amount \in Nat, amount + MinimumSectorSize - 1 <= MaxInt
    PROVE  LET r == roundUp(amount, MinimumSectorSize)
           IN  /\ IsMultiple(r) /\ r \in Nat
               /\ amount <= r /\ r < amount + MinimumSectorSize
               /\ \A n \in Nat : IsMultiple(n) /\ n >= amount => n >= r
<1> DEFINE m == MinimumSectorSize
           a == amount + m - 1
           q == a \div m
<1>1. m \in Nat \ {0} /\ MaxInt \in Nat
  BY SizeAssumption
<1>2. a \in Nat
  BY <1>1
<1>3. roundUp(amount, m) = q * m
  BY <1>1, <1>2 DEF roundUp, Wrap, Quotient
<1>4. /\ q \in Nat /\ a % m \in 0..(m - 1)
      /\ a = q * m + (a % m)
  BY ZenonT(30), <1>1, <1>2, Division
<1>5. q * m \in Nat
  BY <1>1, <1>4
<1>6. amount <= q * m /\ q * m < amount + m
  <2> HIDE DEF q
  <2> QED
    BY <1>1, <1>4, <1>5
<1>7. ASSUME NEW n \in Nat, IsMultiple(n), n >= amount PROVE n >= q * m
  <2>1. PICK k \in Nat : n = k * m
    BY <1>7 DEF IsMultiple
  <2>2. SUFFICES ASSUME q * m > k * m PROVE FALSE
    BY <2>1, <1>1, <1>5
  <2>3. q * m >= k * m + m
    BY ZenonT(30), <2>2, <1>1, <1>4, Consecutive
  <2> HIDE DEF q
  <2> QED
    BY <2>1, <2>3, <1>1, <1>5, <1>6, <1>7
<1>8. IsMultiple(q * m)
  BY <1>4 DEF IsMultiple
<1> QED
  BY <1>3, <1>5, <1>6, <1>7, <1>8

\* roundDown is the greatest multiple that is not above the size.
LEMMA RoundDownGreatest ==
    ASSUME NEW amount \in Nat
    PROVE  LET r == roundDown(amount, MinimumSectorSize)
           IN  /\ IsMultiple(r) /\ r \in Nat /\ r <= amount
               /\ \A n \in Nat : IsMultiple(n) /\ n <= amount => n <= r
<1> DEFINE m == MinimumSectorSize
           q == amount \div m
<1>1. m \in Nat \ {0}
  BY SizeAssumption
<1>2. /\ q \in Nat /\ amount % m \in 0..(m - 1)
      /\ amount = q * m + (amount % m)
  BY ZenonT(30), <1>1, Division
<1>3. q * m \in Nat
  <2> HIDE DEF q
  <2> QED
    BY <1>1, <1>2
<1>4. roundDown(amount, m) = q * m
  <2> HIDE DEF q
  <2> QED
    BY <1>1, <1>2, <1>3 DEF roundDown
<1>5. ASSUME NEW n \in Nat, IsMultiple(n), n <= amount PROVE n <= q * m
  <2>1. PICK k \in Nat : n = k * m
    BY <1>5 DEF IsMultiple
  <2>2. SUFFICES ASSUME k * m > q * m PROVE FALSE
    BY <2>1, <1>1, <1>3
  <2>3. k * m >= q * m + m
    BY ZenonT(30), <2>2, <1>1, <1>2, Consecutive
  <2> HIDE DEF q
  <2> QED
    BY <2>1, <2>3, <1>1, <1>2, <1>3, <1>5
<1>6. IsMultiple(q * m)
  BY <1>2 DEF IsMultiple
<1>7. q * m <= amount
  <2> HIDE DEF q
  <2> QED
    BY <1>1, <1>2, <1>3
<1> QED
  BY <1>3, <1>4, <1>5, <1>6, <1>7

-----------------------------------------------------------------------------

\* A multiple of the sector is recognised as one.
LEMMA WholeSectors == ASSUME NEW n \in Nat, n % MinimumSectorSize = 0 PROVE IsMultiple(n)
<1>1. MinimumSectorSize \in Nat \ {0}
  BY SizeAssumption
<1>2. n \div MinimumSectorSize \in Nat /\ n = (n \div MinimumSectorSize) * MinimumSectorSize
  BY <1>1, Division
<1> QED
  BY <1>2 DEF IsMultiple

\* controller.go:419: "convertRequestCapacityBytes converts requestBytes and
\* limitBytes to a valid capacity." An answer is a positive number of whole
\* sectors, no less than the request and no more than the limit if there is
\* one, unless the request is within a sector of the largest integer. A request
\* is given the least such number.
THEOREM ConvertIsValid ==
    ASSUME NEW wanted \in Int64, NEW limit \in Int64,
           wanted + MinimumSectorSize - 1 <= MaxInt,
           convertRequestCapacityBytes(wanted, limit).err = "none"
    PROVE  LET n == convertRequestCapacityBytes(wanted, limit).bytes
           IN  /\ Fits(n, wanted, limit)
               /\ wanted > 0 => \A k \in Nat : Fits(k, wanted, limit) => n <= k
<1> DEFINE result == convertRequestCapacityBytes(wanted, limit)
<1>1. /\ MinimumSectorSize \in Nat \ {0} /\ MaxInt \in Nat
      /\ DefaultSize \in Nat \ {0} /\ IsMultiple(DefaultSize)
  <2>1. PICK k \in 1..MaxInt : DefaultSize = k * MinimumSectorSize
    BY SizeAssumption
  <2>2. MinimumSectorSize \in Nat \ {0} /\ MaxInt \in Nat /\ k \in Nat \ {0}
    BY SizeAssumption
  <2>3. k * MinimumSectorSize \in Nat \ {0}
    BY <2>2
  <2> QED
    BY <2>1, <2>2, <2>3 DEF IsMultiple
<1>2. wanted \in Nat /\ limit \in Nat /\ (limit # 0 => wanted <= limit)
  BY <1>1 DEF convertRequestCapacityBytes, Failure, Int64
<1>3. CASE wanted = 0
  <2>1. result = DefaultRequest(limit)
    BY <1>2, <1>3 DEF convertRequestCapacityBytes
  <2>2. CASE limit = 0 \/ limit >= DefaultSize
    <3>1. result.bytes = DefaultSize
      BY <2>1, <2>2 DEF DefaultRequest, Success
    <3> QED
      BY <3>1, <1>1, <1>2, <1>3, <2>2 DEF Fits
  <2>3. CASE limit # 0 /\ limit < DefaultSize
    <3> DEFINE r == roundDown(limit, MinimumSectorSize)
    <3>1. r # 0 /\ result.bytes = r
      BY <2>1, <2>3, <1>1, <1>2 DEF DefaultRequest, Success, Failure
    <3>2. IsMultiple(r) /\ r \in Nat /\ r <= limit
      BY <1>2, RoundDownGreatest
    <3> HIDE DEF r
    <3> QED
      BY <3>1, <3>2, <1>2, <1>3 DEF Fits
  <2> QED
    BY <2>2, <2>3, <1>1, <1>2
<1>4. CASE wanted > 0
  <2>1. result = RoundedRequest(wanted, limit)
    BY <1>2, <1>4 DEF convertRequestCapacityBytes
  <2>2. CASE wanted % MinimumSectorSize = 0
    <3>1. result.bytes = wanted
      BY <2>1, <2>2 DEF RoundedRequest, Success
    <3>2. IsMultiple(wanted)
      BY <1>2, <2>2, WholeSectors
    <3> QED
      BY <3>1, <3>2, <1>2, <1>4 DEF Fits
  <2>3. CASE wanted % MinimumSectorSize # 0
    <3> DEFINE r == roundUp(wanted, MinimumSectorSize)
    <3>1. result.bytes = r /\ ~(limit > 0 /\ r > limit)
      BY <2>1, <2>3 DEF RoundedRequest, Success, Failure
    <3>2. /\ IsMultiple(r) /\ r \in Nat /\ wanted <= r
          /\ \A k \in Nat : IsMultiple(k) /\ k >= wanted => k >= r
      BY <1>2, RoundUpLeast
    <3> HIDE DEF r
    <3> QED
      BY <3>1, <3>2, <1>2, <1>4 DEF Fits
  <2> QED
    BY <2>2, <2>3
<1> QED
  BY <1>2, <1>3, <1>4

\* A request is refused as too large, or as zero, only when no positive number
\* of whole sectors lies between the request and the limit.
THEOREM RefusalIsJustified ==
    ASSUME NEW wanted \in Int64, NEW limit \in Int64,
           wanted + MinimumSectorSize - 1 <= MaxInt,
           convertRequestCapacityBytes(wanted, limit).err \in {"exceeds", "zero"}
    PROVE  ~ \E n \in Nat : Fits(n, wanted, limit)
<1> SUFFICES ASSUME NEW n \in Nat, Fits(n, wanted, limit) PROVE FALSE
  OBVIOUS
<1>1. n > 0 /\ IsMultiple(n) /\ wanted <= n /\ (limit # 0 => n <= limit)
  BY DEF Fits
<1>2. MinimumSectorSize \in Nat \ {0} /\ MaxInt \in Nat
  BY SizeAssumption
<1>3. wanted \in Nat /\ limit \in Nat \ {0} /\ wanted <= limit
  BY <1>1, <1>2 DEF convertRequestCapacityBytes, DefaultRequest, RoundedRequest,
                    Success, Failure, Int64
<1>4. CASE wanted = 0
  <2>1. roundDown(limit, MinimumSectorSize) = 0
    BY <1>3, <1>4 DEF convertRequestCapacityBytes, DefaultRequest, Success, Failure
  <2> QED
    BY <2>1, <1>1, <1>3, RoundDownGreatest
<1>5. CASE wanted > 0
  <2>1. roundUp(wanted, MinimumSectorSize) > limit
    BY <1>3, <1>5 DEF convertRequestCapacityBytes, RoundedRequest, Success, Failure
  <2> QED
    BY <2>1, <1>1, <1>3, RoundUpLeast
<1> QED
  BY <1>3, <1>4, <1>5

-----------------------------------------------------------------------------
(* The invariant of the creation *)

Steps == {"idle", "getSource", "create", "wait", "expand", "waitExpand", "delete", "validate",
          "deleteDerived", "waitDelete"}

\* What the request allows the derived volume to be.
Allowed(n) ==
    /\ n \in Nat
    /\ request.kind = "clone" =>
         n >= request.required /\ (request.limit # 0 => n <= request.limit)

VolumesInv ==
    /\ src = None \/ src \in Source
    /\ derived = None \/ derived \in DerivedCR
    /\ dlvm \in [size : Nat, base : Nat, active : BOOLEAN]

DerivedInv ==
    /\ derived = None => dlvm = NoVolume
    /\ derived # None =>
         /\ Allowed(derived.size)
         /\ dlvm.base <= dlvm.size /\ dlvm.size <= derived.size
         /\ derived.currentSize \in {0, derived.size}

CallsInv ==
    /\ csrc \in Nat /\ request \in Requests
    /\ step \in [AllCalls -> Steps] /\ size \in [AllCalls -> Nat]
    /\ \A c \in NameCalls : step[c] = "create" => Allowed(size[c])

AnswerInv == answer # None => Allowed(answer.bytes) /\ answer.bytes >= answer.base

-----------------------------------------------------------------------------
(* The sizes of a creation *)

\* A rounding up that overflows is not positive, so that no source is small
\* enough for it: whatever is positive fits the request.
LEMMA PositiveIsValid ==
    ASSUME NEW asked \in Int64, NEW limit \in Int64,
           convertRequestCapacityBytes(asked, limit).err = "none",
           convertRequestCapacityBytes(asked, limit).bytes > 0
    PROVE  LET n == convertRequestCapacityBytes(asked, limit).bytes
           IN  n \in Nat /\ asked <= n /\ (limit # 0 => n <= limit)
<1> DEFINE result == convertRequestCapacityBytes(asked, limit)
<1>1. MinimumSectorSize \in Nat \ {0} /\ MaxInt \in Nat /\ MinimumSectorSize <= MaxInt
  BY SizeAssumption
<1>2. CASE asked + MinimumSectorSize - 1 <= MaxInt
  <2>1. Fits(result.bytes, asked, limit)
    BY <1>2, ConvertIsValid
  <2>2. PICK k \in Nat : result.bytes = k * MinimumSectorSize
    BY <2>1 DEF Fits, IsMultiple
  <2>3. result.bytes \in Nat
    BY <1>1, <2>2
  <2> QED
    BY <2>1, <2>3 DEF Fits
<1>3. CASE asked + MinimumSectorSize - 1 > MaxInt
  <2>1. asked \in Nat \ {0} /\ asked <= MaxInt /\ limit \in Nat /\ (limit # 0 => asked <= limit)
    BY <1>1, <1>3 DEF convertRequestCapacityBytes, Failure, Int64
  <2>2. result = RoundedRequest(asked, limit)
    BY <2>1 DEF convertRequestCapacityBytes
  <2>3. CASE asked % MinimumSectorSize = 0
    <3>1. result.bytes = asked
      BY <2>2, <2>3 DEF RoundedRequest, Success
    <3> QED
      BY <2>1, <3>1
  <2>4. CASE asked % MinimumSectorSize # 0
    <3> DEFINE over == 2 * (MaxInt + 1) - (asked + MinimumSectorSize - 1)
               q    == over \div MinimumSectorSize
    <3>1. over \in Nat
      BY <1>1, <2>1
    <3>2. q \in Nat
      BY <1>1, <3>1
    <3>3. roundUp(asked, MinimumSectorSize) = (0 - q) * MinimumSectorSize
      <4>1. Wrap(asked + MinimumSectorSize - 1) = 0 - over
        BY <1>1, <1>3, <2>1 DEF Wrap
      <4>2. Wrap(asked + MinimumSectorSize - 1) < 0
        BY <1>1, <1>3, <2>1 DEF Wrap
      <4>3. 0 - (0 - over) = over
        BY <3>1
      <4> HIDE DEF over
      <4> QED
        BY <1>1, <3>1, <4>1, <4>2, <4>3 DEF roundUp, Quotient
    <3>4. result.bytes = roundUp(asked, MinimumSectorSize)
      BY <2>2, <2>4 DEF RoundedRequest, Success, Failure
    <3> HIDE DEF q
    <3>5. (0 - q) * MinimumSectorSize <= 0 /\ (0 - q) * MinimumSectorSize \in Int
      BY <1>1, <3>2
    <3>6. result.bytes > 0
      OBVIOUS
    <3> HIDE DEF result
    <3> QED
      BY <3>3, <3>4, <3>5, <3>6
  <2> QED
    BY <2>3, <2>4
<1> QED
  BY <1>1, <1>2, <1>3 DEF Int64

\* A request has its type.
LEMMA RequestTyped ==
    ASSUME CallsInv
    PROVE  /\ request.kind \in {"snapshot", "clone"}
           /\ request.required \in Int64 /\ request.limit \in Int64
  BY RequestAssumption DEF CallsInv

\* The cache, or the API server in its place, has a size or nothing.
LEMMA SourceTyped ==
    ASSUME VolumesInv, CallsInv PROVE GetSource \in Nat /\ SizeOf(src) \in Nat
  BY ZenonT(30) DEF VolumesInv, CallsInv, GetSource, SizeOf, Source

\* What a call goes on with is allowed by the request.
LEMMA WantedIsAllowed ==
    ASSUME VolumesInv, CallsInv, WantedSize # 0 PROVE Allowed(WantedSize)
<1>1. GetSource \in Nat /\ GetSource # 0
  BY SourceTyped DEF WantedSize
<1>2. CASE request.kind = "snapshot"
  BY <1>1, <1>2 DEF WantedSize, Allowed
<1>3. CASE request.kind # "snapshot"
  <2> DEFINE asked == MinMaxAllocationsFromSettings(request.required, Minimum)
  <2>1. asked \in Int64 /\ asked >= request.required
    BY RequestTyped, RequestAssumption, SizeAssumption
       DEF MinMaxAllocationsFromSettings, GetMinimumAllocationSize, Int64
  <2>2. /\ WantedSize = CloneSize.bytes
        /\ CloneSize.err = "none" /\ ~(CloneSize.bytes < GetSource)
    BY <1>1, <1>3 DEF WantedSize
  <2>3. CloneSize = convertRequestCapacityBytes(asked, request.limit)
    BY DEF CloneSize
  <2>4. CloneSize.bytes \in Int
    <3>1. /\ MinimumSectorSize \in Nat \ {0} /\ MaxInt \in Nat /\ DefaultSize \in Int
          /\ request.limit \in Int /\ asked \in Int
      BY <2>1, SizeAssumption, RequestTyped DEF Int64
    <3> HIDE DEF asked
    <3>2. /\ roundUp(asked, MinimumSectorSize) \in Int
          /\ roundDown(request.limit, MinimumSectorSize) \in Int
      BY <3>1 DEF roundUp, roundDown, Wrap, Quotient
    <3> QED
      BY <2>3, <3>1, <3>2
         DEF convertRequestCapacityBytes, DefaultRequest, RoundedRequest, Success, Failure
  <2>5. CloneSize.bytes > 0
    BY <1>1, <2>2, <2>4
  <2> HIDE DEF asked
  <2>6. /\ CloneSize.bytes \in Nat /\ asked <= CloneSize.bytes
        /\ request.limit # 0 => CloneSize.bytes <= request.limit
    BY <2>1, <2>2, <2>3, <2>5, RequestTyped, PositiveIsValid
  <2> QED
    BY <2>1, <2>2, <2>6, RequestTyped, SizeAssumption DEF Allowed, Int64
<1> QED
  BY <1>2, <1>3

-----------------------------------------------------------------------------
(* Steps that leave most of it alone *)

\* The volumes and the request as they were.
LEMMA VolumesKept ==
    ASSUME VolumesInv, DerivedInv, UNCHANGED <<src, derived, dlvm, request>>
    PROVE  VolumesInv' /\ DerivedInv'
  BY DEF VolumesInv, DerivedInv, Allowed

\* The answer and the request as they were.
LEMMA AnswerKept ==
    ASSUME AnswerInv, UNCHANGED <<answer, request>> PROVE AnswerInv'
  BY DEF AnswerInv, Allowed

\* The calls and the request as they were.
LEMMA CallsKept ==
    ASSUME CallsInv, UNCHANGED <<step, size, csrc, request>> PROVE CallsInv'
  BY DEF CallsInv, Allowed

\* A call that goes anywhere but to the creation of the CR.
LEMMA CallMoves ==
    ASSUME CallsInv, NEW c \in AllCalls, NEW at \in Steps \ {"create"}, NEW n \in Nat,
           step' = [step EXCEPT ![c] = at],
           size' = size \/ size' = [size EXCEPT ![c] = n],
           UNCHANGED <<csrc, request>>
    PROVE  CallsInv'
<1>1. step' \in [AllCalls -> Steps] /\ size' \in [AllCalls -> Nat]
  BY DEF CallsInv
<1>2. ASSUME NEW d \in NameCalls, step'[d] = "create" PROVE Allowed(size[d]) /\ size'[d] = size[d]
  BY <1>2 DEF CallsInv, AllCalls
<1> QED
  BY <1>1, <1>2 DEF CallsInv, Allowed

\* The call is over.
LEMMA CallEnds ==
    ASSUME CallsInv, NEW c \in AllCalls,
           step' = [step EXCEPT ![c] = "idle"], size' = [size EXCEPT ![c] = 0],
           UNCHANGED <<csrc, request>>
    PROVE  CallsInv'
<1>1. "idle" \in Steps \ {"create"} /\ 0 \in Nat
  BY DEF Steps
<1> QED
  BY ZenonT(30), <1>1, CallMoves

-----------------------------------------------------------------------------
(* topolvm-node *)

\* A CR with other fields is a CR.
LEMMA FieldsTyped ==
    ASSUME NEW d \in DerivedCR, NEW n \in Nat
    PROVE  /\ [d EXCEPT !.code = "Error"] \in DerivedCR
           /\ [d EXCEPT !.deleting = TRUE] \in DerivedCR
           /\ [d EXCEPT !.volumeID = TRUE] \in DerivedCR
           /\ [d EXCEPT !.volumeID = TRUE, !.currentSize = n] \in DerivedCR
           /\ [d EXCEPT !.currentSize = n, !.code = "OK"] \in DerivedCR
  BY ZenonT(30) DEF DerivedCR

\* A step that rewrites the CR, or leaves it, and keeps or changes its volume.
LEMMA Rewritten ==
    ASSUME VolumesInv, DerivedInv, derived # None,
           NEW d \in DerivedCR, NEW v \in [size : Nat, base : Nat, active : BOOLEAN],
           derived' = derived \/ derived' = d, dlvm' = v,
           d.size = derived.size, d.currentSize \in {derived.currentSize, 0, derived.size},
           v.base <= v.size, v.size <= derived.size,
           UNCHANGED <<src, request>>
    PROVE  VolumesInv' /\ DerivedInv'
<1>1. derived' # None /\ derived' \in DerivedCR
  BY NoneAssumption DEF VolumesInv
<1>2. derived'.size = derived.size /\ derived'.currentSize \in {0, derived.size}
  BY DEF DerivedInv
<1>3. VolumesInv'
  BY <1>1 DEF VolumesInv
<1> QED
  BY <1>1, <1>2, <1>3 DEF DerivedInv, Allowed

\* The fields of a CR that a write leaves alone.
LEMMA FieldsKept ==
    ASSUME NEW d \in DerivedCR, NEW n \in Nat
    PROVE  /\ [d EXCEPT !.code = "Error"].size = d.size
           /\ [d EXCEPT !.code = "Error"].currentSize = d.currentSize
           /\ [d EXCEPT !.deleting = TRUE].size = d.size
           /\ [d EXCEPT !.deleting = TRUE].currentSize = d.currentSize
           /\ [d EXCEPT !.volumeID = TRUE].size = d.size
           /\ [d EXCEPT !.volumeID = TRUE].currentSize = d.currentSize
           /\ [d EXCEPT !.volumeID = TRUE, !.currentSize = n].size = d.size
           /\ [d EXCEPT !.volumeID = TRUE, !.currentSize = n].currentSize = n
           /\ [d EXCEPT !.currentSize = n, !.code = "OK"].size = d.size
           /\ [d EXCEPT !.currentSize = n, !.code = "OK"].currentSize = n
  BY DEF DerivedCR

\* The source is expanded or goes; the derived volume is not touched.
LEMMA SourceSteps ==
    ASSUME VolumesInv, DerivedInv, ExpandSource \/ RemoveSource \/ NodeCacheSync, request' = request
    PROVE  VolumesInv' /\ DerivedInv'
<1>1. UNCHANGED <<derived, dlvm>>
  BY DEF ExpandSource, RemoveSource, NodeCacheSync
<1>2. src' = None \/ src' \in Source
  <2>1. CASE ExpandSource
    <3>1. src \in Source
      BY <2>1 DEF ExpandSource, VolumesInv
    <3>2. /\ [src EXCEPT !.lvm = src.spec, !.currentSize = src.spec] \in Source
          /\ [src EXCEPT !.lvm = src.spec] \in Source
      BY ZenonT(30), <3>1 DEF Source
    <3> QED
      BY ZenonT(30), <2>1, <3>2 DEF ExpandSource
  <2>2. CASE RemoveSource
    BY <2>2 DEF RemoveSource
  <2>3. CASE NodeCacheSync
    BY <2>3 DEF NodeCacheSync, VolumesInv
  <2> QED
    BY <2>1, <2>2, <2>3
<1>3. VolumesInv'
  BY ZenonT(30), <1>1, <1>2 DEF VolumesInv
<1>4. DerivedInv'
  BY <1>1 DEF DerivedInv, Allowed
<1> QED
  BY <1>3, <1>4

\* createLV and expandLV of the derived volume: what is made is no smaller than
\* the source was, and no larger than what was asked for.
LEMMA DerivedSteps ==
    ASSUME VolumesInv, DerivedInv, request' = request,
           \/ VolumeExistsFails \/ Adopt \/ CreateLVSnapshot \/ CreateLVSnapshotFails
           \/ ExpandDerived \/ ExpandDerivedFails
    PROVE  VolumesInv' /\ DerivedInv'
<1> DEFINE V == [size : Nat, base : Nat, active : BOOLEAN]
<1>1. /\ derived # None /\ derived \in DerivedCR /\ dlvm \in V /\ src' = src
      /\ derived.size \in Nat /\ dlvm.base \in Nat /\ dlvm.size \in Nat
      /\ dlvm.base <= dlvm.size /\ dlvm.size <= derived.size
  BY DEF VolumeExistsFails, Adopt, CreateLVSnapshot, CreateLVSnapshotFails, ExpandDerived,
         ExpandDerivedFails, Pending, VolumesInv, DerivedInv, DerivedCR
<1>2. CASE VolumeExistsFails \/ ExpandDerivedFails
  <2>1. derived' = [derived EXCEPT !.code = "Error"] /\ dlvm' = dlvm
    BY <1>2 DEF VolumeExistsFails, ExpandDerivedFails
  <2> QED
    BY ZenonT(30), <1>1, <2>1, Rewritten, FieldsTyped, FieldsKept
<1>3. CASE Adopt
  <2>1. dlvm' = dlvm /\ (derived' = derived \/ derived' = [derived EXCEPT !.volumeID = TRUE])
    BY <1>3 DEF Adopt, WriteStatus
  <2> QED
    BY ZenonT(30), <1>1, <2>1, Rewritten, FieldsTyped, FieldsKept
<1>4. CASE CreateLVSnapshot \/ CreateLVSnapshotFails
  <2>1. CASE /\ dlvm' = dlvm
             /\ derived' = derived \/ derived' = [derived EXCEPT !.code = "Error"]
    BY ZenonT(30), <1>1, <2>1, Rewritten, FieldsTyped, FieldsKept
  <2>2. ASSUME NEW active \in BOOLEAN, NEW s \in {src.lvm, derived.size},
               src # None, ~TooSmall,
               dlvm' = [size |-> s, base |-> src.lvm, active |-> active],
               \/ derived' = derived
               \/ derived' = [derived EXCEPT !.code = "Error"]
               \/ derived' = [derived EXCEPT !.volumeID = TRUE, !.currentSize = derived.size]
        PROVE  VolumesInv' /\ DerivedInv'
    <3>1. src.lvm \in Nat /\ src.lvm <= derived.size
      BY <1>1, <2>2 DEF VolumesInv, Source, TooSmall
    <3> DEFINE v == [size |-> s, base |-> src.lvm, active |-> active]
    <3>2. v \in V /\ v.base <= v.size /\ v.size <= derived.size
      BY <1>1, <3>1
    <3> HIDE DEF v, V
    <3>3. dlvm' = v
      BY <2>2 DEF v
    <3>4. PICK d \in DerivedCR : /\ derived' = derived \/ derived' = d
                                 /\ d.size = derived.size
                                 /\ d.currentSize \in {derived.currentSize, 0, derived.size}
      <4>1. CASE derived' = derived
        BY ZenonT(30), <1>1, <4>1
      <4>2. CASE derived' = [derived EXCEPT !.code = "Error"]
        BY ZenonT(30), <1>1, <4>2, FieldsTyped, FieldsKept
      <4>3. CASE derived' = [derived EXCEPT !.volumeID = TRUE, !.currentSize = derived.size]
        <5> DEFINE e == [derived EXCEPT !.volumeID = TRUE, !.currentSize = derived.size]
        <5>1. e \in DerivedCR
          BY ZenonT(30), <1>1, FieldsTyped
        <5>2. e.size = derived.size /\ e.currentSize = derived.size
          BY ZenonT(30), <1>1, FieldsKept
        <5>3. derived' = e
          BY <4>3
        <5> HIDE DEF e
        <5> QED
          BY ZenonT(30), <5>1, <5>2, <5>3
      <4> QED
        BY ZenonT(30), <2>2, <4>1, <4>2, <4>3
    <3> QED
      BY ZenonT(30), <1>1, <3>2, <3>3, <3>4, Rewritten DEF V
  <2> QED
    BY ZenonT(30), <1>4, <2>1, <2>2 DEF CreateLVSnapshot, CreateLVSnapshotFails, WriteStatus
<1>5. CASE ExpandDerived
  <2>1. (IF derived.size > dlvm.size THEN derived.size ELSE dlvm.size) = derived.size
    BY <1>1
  <2>2. /\ dlvm' = [dlvm EXCEPT !.size = derived.size]
        /\ \/ derived' = derived
           \/ derived' = [derived EXCEPT !.currentSize = derived.size, !.code = "OK"]
    BY ZenonT(30), <1>5, <2>1 DEF ExpandDerived, WriteStatus
  <2> DEFINE v == [dlvm EXCEPT !.size = derived.size]
  <2>3. v \in V
    BY ZenonT(30), <1>1
  <2>4. v.base <= v.size /\ v.size <= derived.size
    BY <1>1
  <2> HIDE DEF v, V
  <2>5. dlvm' = v
    BY <2>2 DEF v
  <2>6. PICK d \in DerivedCR : /\ derived' = derived \/ derived' = d
                               /\ d.size = derived.size
                               /\ d.currentSize \in {derived.currentSize, 0, derived.size}
    <3>1. CASE derived' = derived
      BY ZenonT(30), <1>1, <3>1
    <3>2. CASE derived' = [derived EXCEPT !.currentSize = derived.size, !.code = "OK"]
      <4> DEFINE e == [derived EXCEPT !.currentSize = derived.size, !.code = "OK"]
      <4>1. e \in DerivedCR
        BY ZenonT(30), <1>1, FieldsTyped
      <4>2. e.size = derived.size /\ e.currentSize = derived.size
        BY ZenonT(30), <1>1, FieldsKept
      <4>3. derived' = e
        BY <3>2
      <4> HIDE DEF e
      <4> QED
        BY ZenonT(30), <4>1, <4>2, <4>3
    <3> QED
      BY ZenonT(30), <2>2, <3>1, <3>2
  <2> QED
    BY ZenonT(30), <1>1, <2>3, <2>4, <2>5, <2>6, Rewritten DEF V
<1> QED
  BY <1>2, <1>3, <1>4, <1>5

\* Every step of topolvm-node.
LEMMA NodeKeeps ==
    ASSUME VolumesInv, DerivedInv, NodeStep, request' = request
    PROVE  VolumesInv' /\ DerivedInv'
<1>1. CASE RemoveDerived
  <2>1. NoVolume \in [size : Nat, base : Nat, active : BOOLEAN]
    BY DEF NoVolume
  <2> QED
    BY ZenonT(30), <1>1, <2>1 DEF RemoveDerived, VolumesInv, DerivedInv
<1> QED
  BY ZenonT(30), <1>1, SourceSteps, DerivedSteps DEF NodeStep

-----------------------------------------------------------------------------
(* topolvm-controller *)

CreationInv == VolumesInv /\ DerivedInv /\ CallsInv /\ AnswerInv

\* A creating call: it reads the source, makes or finds the CR, waits for it
\* and answers with what it finds.
LEMMA CreateKeeps ==
    ASSUME CreationInv, NEW c \in NameCalls, CallCreate(c) \/ CreateStep(c)
    PROVE  CreationInv'
<1> USE DEF CreationInv
<1>0. c \in AllCalls /\ request' = request
  BY ZenonT(30) DEF AllCalls, CallCreate, CreateStep, LockName, CreateGetSource, CreateCR, WaitCreate, Panic,
         CancelledCreate, ReturnCreate, csiVars
<1>1. CASE CallCreate(c)
  <2>1. "getSource" \in Steps \ {"create"} /\ 0 \in Nat
    BY DEF Steps
  <2>2. /\ UNCHANGED <<src, derived, dlvm, csrc, answer, size>>
        /\ step' = [step EXCEPT ![c] = "getSource"]
    BY <1>1 DEF CallCreate, nodeVars, csiVars
  <2>3. CallsInv'
    BY ZenonT(30), <1>0, <2>1, <2>2, CallMoves
  <2> QED
    BY ZenonT(30), <1>0, <2>2, <2>3, VolumesKept, AnswerKept
<1>2. CASE LockName(c)
  <2>1. UNCHANGED <<src, derived, dlvm, csrc, answer, size, step>>
    BY <1>2 DEF LockName, nodeVars, callVars, csiVars
  <2> QED
    BY ZenonT(30), <1>0, <2>1, VolumesKept, AnswerKept, CallsKept
<1>3. CASE /\ ReturnCreate(c) /\ UNCHANGED <<nodeVars, answer>>
  <2>1. /\ UNCHANGED <<src, derived, dlvm, csrc, answer>>
        /\ step' = [step EXCEPT ![c] = "idle"] /\ size' = [size EXCEPT ![c] = 0]
    BY <1>3 DEF ReturnCreate, nodeVars
  <2> QED
    BY ZenonT(30), <1>0, <2>1, VolumesKept, AnswerKept, CallEnds
<1>4. CASE CreateGetSource(c)
  <2>1. CASE WantedSize = 0
    BY <1>3, <1>4, <2>1 DEF CreateGetSource
  <2>2. CASE WantedSize # 0
    <3>1. /\ UNCHANGED <<src, derived, dlvm, csrc, answer>>
          /\ step' = [step EXCEPT ![c] = "create"] /\ size' = [size EXCEPT ![c] = WantedSize]
      BY <1>4, <2>2 DEF CreateGetSource, nodeVars, csiVars
    <3>2. Allowed(WantedSize) /\ WantedSize \in Nat
      BY <2>2, WantedIsAllowed DEF Allowed
    <3>3. CallsInv'
      <4>1. step' \in [AllCalls -> Steps] /\ size' \in [AllCalls -> Nat]
        BY <1>0, <3>1, <3>2 DEF CallsInv, Steps
      <4>2. ASSUME NEW d \in NameCalls, step'[d] = "create" PROVE Allowed(size'[d])
        BY <1>0, <3>1, <3>2, <4>2 DEF CallsInv, AllCalls
      <4> QED
        BY ZenonT(30), <1>0, <3>1, <4>1, <4>2 DEF CallsInv, Allowed
    <3> QED
      BY ZenonT(30), <1>0, <3>1, <3>3, VolumesKept, AnswerKept
  <2> QED
    BY <2>1, <2>2
<1>5. CASE CreateCR(c)
  <2>1. CASE derived # None /\ ~IsCompatibleWith(derived, size[c])
    BY ZenonT(30), <1>3, <1>5, <2>1 DEF CreateCR
  <2>2. CASE ~(derived # None /\ ~IsCompatibleWith(derived, size[c]))
    <3>1. /\ derived' = IF derived = None THEN NewDerived(size[c]) ELSE derived
          /\ step' = [step EXCEPT ![c] = "wait"]
          /\ UNCHANGED <<src, dlvm, csrc, answer, size>>
          /\ step[c] = "create"
      BY ZenonT(30), <1>5, <2>2 DEF CreateCR, Running, csiVars
    <3>2. "wait" \in Steps \ {"create"} /\ 0 \in Nat
      BY DEF Steps
    <3>3. CallsInv'
      BY ZenonT(30), <1>0, <3>1, <3>2, CallMoves
    <3>4. CASE derived # None
      BY ZenonT(30), <1>0, <3>1, <3>3, <3>4, VolumesKept, AnswerKept
    <3>5. CASE derived = None
      <4>1. derived' = NewDerived(size[c])
        BY <3>1, <3>5
      <4>2. Allowed(size[c]) /\ size[c] \in Nat
        BY <3>1 DEF CallsInv, Allowed
      <4>3. NewDerived(size[c]) \in DerivedCR
        BY ZenonT(30), <4>2 DEF NewDerived, DerivedCR
      <4>4. VolumesInv'
        BY ZenonT(30), <3>1, <4>1, <4>3 DEF VolumesInv
      <4>5. derived' # None /\ derived'.size = size[c] /\ derived'.currentSize = 0
        BY ZenonT(30), <4>1, <4>3, NoneAssumption DEF NewDerived
      <4>6. dlvm'.base = 0 /\ dlvm'.size = 0
        BY <3>1, <3>5 DEF DerivedInv, NoVolume
      <4>7. DerivedInv'
        BY <1>0, <4>2, <4>5, <4>6 DEF DerivedInv, Allowed
      <4> QED
        BY ZenonT(30), <1>0, <3>1, <3>3, <4>4, <4>7, AnswerKept
    <3> QED
      BY <3>4, <3>5
  <2> QED
    BY <2>1, <2>2
<1>6. CASE WaitCreate(c)
  <2>0. /\ step' = [step EXCEPT ![c] = "idle"] /\ size' = [size EXCEPT ![c] = 0]
        /\ csrc' = csrc /\ ReturnCreate(c)
    BY ZenonT(30), <1>6 DEF WaitCreate, ReturnCreate
  <2>1. CASE UNCHANGED <<nodeVars, answer>>
    BY <1>3, <2>0, <2>1
  <2>2. CASE /\ derived # None /\ derived.volumeID /\ derived.currentSize # 0
             /\ answer' = [bytes |-> derived.currentSize, base |-> dlvm.base]
             /\ UNCHANGED nodeVars
    <3>1. derived.currentSize = derived.size /\ Allowed(derived.size) /\ dlvm.base <= derived.size
      BY <2>2 DEF DerivedInv, VolumesInv, DerivedCR
    <3>2. answer'.bytes = derived.size /\ answer'.base = dlvm.base
      BY <2>2, <3>1
    <3>3. AnswerInv'
      BY ZenonT(30), <1>0, <3>1, <3>2 DEF AnswerInv, Allowed, VolumesInv
    <3>4. UNCHANGED <<src, derived, dlvm>>
      BY <2>2 DEF nodeVars
    <3> QED
      BY ZenonT(30), <1>0, <2>0, <3>3, <3>4, VolumesKept, CallEnds
  <2>3. CASE /\ derived # None /\ DeleteFailed
             /\ UNCHANGED <<src, nsrc, dlvm, faults, answer>>
    <3>1. derived \in DerivedCR /\ derived' = [derived EXCEPT !.deleting = TRUE]
      BY <2>3 DEF DeleteFailed, VolumesInv
    <3>2. VolumesInv' /\ DerivedInv'
      BY ZenonT(30), <1>0, <2>3, <3>1, Rewritten, FieldsTyped, FieldsKept DEF VolumesInv, DerivedInv
    <3> QED
      BY ZenonT(30), <1>0, <2>0, <2>3, <3>2, AnswerKept, CallEnds
  <2> QED
    BY ZenonT(30), <1>6, <2>1, <2>2, <2>3 DEF WaitCreate
<1>7. CASE Panic(c)
  <2>1. /\ UNCHANGED <<src, derived, dlvm, answer>> /\ csrc' = SizeOf(src)
        /\ step' = [d \in AllCalls |-> "idle"] /\ size' = [d \in AllCalls |-> 0]
    BY <1>7 DEF Panic, nodeVars
  <2>2. CallsInv'
    BY ZenonT(30), <1>0, <2>1, SourceTyped DEF CallsInv, AllCalls, Steps
  <2> QED
    BY ZenonT(30), <1>0, <2>1, <2>2, VolumesKept, AnswerKept
<1>8. CASE CancelledCreate(c)
  BY <1>3, <1>8 DEF CancelledCreate
<1> QED
  BY ZenonT(30), <1>1, <1>2, <1>4, <1>5, <1>6, <1>7, <1>8 DEF CreateStep

\* The handlers that name a volume ID change the CRs' sizes and deletion marks
\* only.
LEMMA ByIDKeeps ==
    ASSUME CreationInv, NEW c \in IDCalls,
           \/ ByIDStep(c)
           \/ \E op \in {"expand", "delete", "validate", "deleteDerived"}, s \in SourceSizes \cup {0} :
                CallByID(c, op, s)
    PROVE  CreationInv'
<1> USE DEF CreationInv
<1>1. c \in AllCalls
  BY DEF AllCalls
<1>2. CASE ReturnByID(c) /\ UNCHANGED nodeVars
  <2>1. /\ UNCHANGED <<src, derived, dlvm, csrc, answer, request>>
        /\ step' = [step EXCEPT ![c] = "idle"] /\ size' = [size EXCEPT ![c] = 0]
    BY <1>2 DEF ReturnByID, nodeVars, csiVars
  <2> QED
    BY ZenonT(30), <1>1, <2>1, VolumesKept, AnswerKept, CallEnds
<1>3. CASE LockID(c)
  <2>1. UNCHANGED <<src, derived, dlvm, csrc, answer, size, step, request>>
    BY <1>3 DEF LockID, nodeVars, callVars, csiVars
  <2> QED
    BY ZenonT(30), <2>1, VolumesKept, AnswerKept, CallsKept
<1>4. ASSUME NEW at \in {"waitExpand", "waitDelete"}, ThenWait(c, at)
      PROVE  CallsInv' /\ AnswerInv' /\ UNCHANGED <<dlvm, request>>
  <2>1. at \in Steps \ {"create"} /\ 0 \in Nat
    BY DEF Steps
  <2>2. step' = [step EXCEPT ![c] = at] /\ UNCHANGED <<dlvm, size, csrc, answer, request>>
    BY <1>4 DEF ThenWait, csiVars
  <2> QED
    BY ZenonT(30), <1>1, <2>1, <2>2, CallMoves, AnswerKept
<1>5. ASSUME NEW s \in Source, src' = s, derived' = derived, UNCHANGED <<dlvm, request>>
      PROVE  VolumesInv' /\ DerivedInv'
  BY <1>5 DEF VolumesInv, DerivedInv, Allowed
<1>6. CASE ControllerExpandVolume(c)
  <2>1. CASE src = None \/ csrc # SizeOf(src) \/ GetSource >= size[c]
    BY ZenonT(30), <1>2, <1>6, <2>1 DEF ControllerExpandVolume
  <2>2. CASE ~(src = None \/ csrc # SizeOf(src) \/ GetSource >= size[c])
    <3>1. src' = [src EXCEPT !.spec = size[c]] /\ derived' = derived /\ ThenWait(c, "waitExpand")
      BY ZenonT(30), <1>6, <2>2 DEF ControllerExpandVolume
    <3>2. [src EXCEPT !.spec = size[c]] \in Source
      BY ZenonT(30), <1>1, <2>2 DEF VolumesInv, Source, CallsInv
    <3> QED
      BY ZenonT(30), <1>4, <1>5, <3>1, <3>2
  <2> QED
    BY <2>1, <2>2
<1>7. CASE DeleteVolume(c)
  <2>1. CASE src = None
    BY <1>2, <1>7, <2>1 DEF DeleteVolume
  <2>2. CASE src # None
    <3>1. src' = [src EXCEPT !.deleting = TRUE] /\ derived' = derived /\ ThenWait(c, "waitDelete")
      BY <1>7, <2>2 DEF DeleteVolume
    <3>2. [src EXCEPT !.deleting = TRUE] \in Source
      BY ZenonT(30), <2>2 DEF VolumesInv, Source
    <3> QED
      BY ZenonT(30), <1>4, <1>5, <3>1, <3>2
  <2> QED
    BY <2>1, <2>2
<1>8. CASE DeleteSnapshot(c)
  <2>1. CASE derived = None
    BY <1>2, <1>8, <2>1 DEF DeleteSnapshot
  <2>2. CASE derived # None
    <3>1. derived' = [derived EXCEPT !.deleting = TRUE] /\ src' = src /\ ThenWait(c, "waitDelete")
      BY <1>8, <2>2 DEF DeleteSnapshot
    <3>2. derived \in DerivedCR /\ UNCHANGED <<dlvm, request>>
      BY ZenonT(30), <1>4, <2>2, <3>1 DEF VolumesInv
    <3>3. VolumesInv' /\ DerivedInv'
      BY ZenonT(30), <2>2, <3>1, <3>2, Rewritten, FieldsTyped, FieldsKept DEF VolumesInv, DerivedInv
    <3> QED
      BY ZenonT(30), <1>4, <3>1, <3>3
  <2> QED
    BY <2>1, <2>2
<1>9. CASE WaitExpand(c) \/ WaitDelete(c) \/ ValidateVolumeCapabilities(c) \/ CancelledByID(c)
  BY ZenonT(30), <1>2, <1>9 DEF WaitExpand, WaitDelete, ValidateVolumeCapabilities, CancelledByID
<1>10. ASSUME NEW op \in {"expand", "delete", "validate", "deleteDerived"},
              NEW s \in SourceSizes \cup {0}, CallByID(c, op, s)
       PROVE  CreationInv'
  <2>1. op \in Steps \ {"create"} /\ s \in Nat
    BY DerivedAssumption DEF Steps
  <2>2. /\ UNCHANGED <<src, derived, dlvm, csrc, answer, request>>
        /\ step' = [step EXCEPT ![c] = op] /\ size' = [size EXCEPT ![c] = s]
    BY ZenonT(30), <1>10 DEF CallByID, nodeVars
  <2>3. CallsInv'
    BY ZenonT(30), <1>1, <2>1, <2>2, CallMoves
  <2> QED
    BY ZenonT(30), <2>2, <2>3, VolumesKept, AnswerKept
<1> QED
  BY ZenonT(30), <1>3, <1>6, <1>7, <1>8, <1>9, <1>10 DEF ByIDStep

\* The invariant of the creation holds to begin with.
LEMMA CreationInit == Init => CreationInv
<1> SUFFICES ASSUME Init PROVE CreationInv
  OBVIOUS
<1>1. InitialSize \in Nat
  BY DerivedAssumption
<1>2. src \in Source /\ src.currentSize = InitialSize
  BY ZenonT(30), <1>1 DEF Init, NodeInit, Source
<1>3. VolumesInv /\ DerivedInv
  BY ZenonT(30), <1>2 DEF Init, NodeInit, VolumesInv, DerivedInv, NoVolume
<1>4. CallsInv
  BY <1>1, <1>2 DEF Init, CallsInv, AllCalls, Steps
<1>5. AnswerInv
  BY DEF Init, AnswerInv
<1> QED
  BY <1>3, <1>4, <1>5 DEF CreationInv

\* Every step keeps it.
LEMMA CreationNext == CreationInv /\ [Next]_vars => CreationInv'
<1> SUFFICES ASSUME CreationInv, [Next]_vars PROVE CreationInv'
  OBVIOUS
<1> USE DEF CreationInv
<1>1. CASE UNCHANGED vars
  <2>1. UNCHANGED <<src, derived, dlvm, csrc, answer, size, step, request>>
    BY <1>1 DEF vars, nodeVars, callVars, csiVars
  <2> QED
    BY ZenonT(30), <2>1, VolumesKept, AnswerKept, CallsKept
<1>2. CASE NodeTurn(NodeStep)
  <2>1. NodeStep /\ UNCHANGED <<csrc, answer, size, step, request>>
    BY <1>2 DEF NodeTurn, callVars, csiVars
  <2> QED
    BY ZenonT(30), <2>1, NodeKeeps, AnswerKept, CallsKept
<1>3. CASE ControllerCacheSync
  <2>1. UNCHANGED <<src, derived, dlvm, answer, size, step, request>> /\ csrc' = SizeOf(src)
    BY <1>3 DEF ControllerCacheSync, nodeVars, callVars
  <2>2. CallsInv'
    BY ZenonT(30), <2>1, SourceTyped DEF CallsInv, Allowed
  <2> QED
    BY ZenonT(30), <2>1, <2>2, VolumesKept, AnswerKept
<1>4. ASSUME NEW c \in AllCalls, Timeout(c) \/ Deadline(c) PROVE CreationInv'
  <2>1. /\ UNCHANGED <<src, derived, dlvm, answer, csrc, request>>
        /\ step' = [step EXCEPT ![c] = "idle"] /\ size' = [size EXCEPT ![c] = 0]
    BY ZenonT(30), <1>4 DEF Timeout, Deadline, Cancel, nodeVars, csiVars
  <2> QED
    BY ZenonT(30), <2>1, VolumesKept, AnswerKept, CallEnds
<1> QED
  BY ZenonT(30), <1>1, <1>2, <1>3, <1>4, CreateKeeps, ByIDKeeps DEF Next

\* The sizes on the way from the request to the answer: what a call asks for,
\* what the CR asks for and what is answered are all allowed by the request,
\* and the volume is between its source, as it was, and the CR.
THEOREM CreationInvariant == Spec => []CreationInv
  BY CreationInit, CreationNext, PTL DEF Spec

\* The capacity CreateVolume answers for a clone lies in the range that was
\* asked for, for any requests (also those whose rounding overflows an
\* integer), calls, time-outs, expansions and faults.
THEOREM AnswersFit == Spec => []AnswerFitsRequest
<1>1. CreationInv => AnswerFitsRequest
  BY DEF CreationInv, AnswerInv, Allowed, AnswerFitsRequest
<1> QED
  BY <1>1, CreationInvariant, PTL

\* An answered snapshot or clone is never smaller than its source was when it
\* was taken.
THEOREM AnswersAreWhole == Spec => []AnswerIsWhole
<1>1. CreationInv => AnswerIsWhole
  BY DEF CreationInv, AnswerInv, AnswerIsWhole
<1> QED
  BY <1>1, CreationInvariant, PTL

-----------------------------------------------------------------------------
(* The locks of the handlers *)

NameLock == INSTANCE LockByIDProofs WITH
    Calls <- NameCalls, IDs <- {"derived"}, pc <- npc, id <- nid, locked <- nlocked, panic <- npanic
IDLock == INSTANCE LockByIDProofs WITH
    Calls <- IDCalls, IDs <- {"source", "derived"},
    pc <- ipc, id <- iid, locked <- ilocked, panic <- ipanic

NameLockRestarts == npc' = [d \in NameCalls |-> "idle"] /\ nlocked' = {} /\ UNCHANGED <<nid, npanic>>
IDLockRestarts == ipc' = [d \in IDCalls |-> "idle"] /\ ilocked' = {} /\ UNCHANGED <<iid, ipanic>>

\* What a step of the controller does to the lock by name: a step of LockByID,
\* nothing, or a new start after a panic.
LEMMA NameLockSteps ==
    ASSUME [Next]_vars PROVE NameLock!Next \/ UNCHANGED nameLock \/ NameLockRestarts
<1>1. ASSUME NEW c \in NameCalls, ByName!Call(c, "derived") \/ ByName!TryLock(c) \/ ByName!UnlockByID(c)
      PROVE  NameLock!Next
  BY ZenonT(30), <1>1 DEF ByName!Call, ByName!TryLock, ByName!UnlockByID, NameLock!Next, NameLock!Call,
              NameLock!TryLock, NameLock!UnlockByID
<1>2. CASE UNCHANGED vars \/ NodeTurn(NodeStep) \/ ControllerCacheSync
  BY <1>2 DEF vars, NodeTurn, ControllerCacheSync
<1>3. ASSUME NEW c \in NameCalls, CallCreate(c) \/ CreateStep(c)
      PROVE  NameLock!Next \/ UNCHANGED nameLock \/ NameLockRestarts
  <2>1. \/ ByName!Call(c, "derived") \/ ByName!TryLock(c) \/ ByName!UnlockByID(c)
        \/ UNCHANGED nameLock \/ NameLockRestarts
    <3>1. CASE CallCreate(c) \/ LockName(c)
      BY ZenonT(30), <3>1 DEF CallCreate, LockName
    <3>2. CASE CreateGetSource(c) \/ CreateCR(c)
      BY ZenonT(30), <3>2 DEF CreateGetSource, CreateCR, ReturnCreate
    <3>3. CASE WaitCreate(c) \/ CancelledCreate(c)
      BY ZenonT(30), <3>3 DEF WaitCreate, CancelledCreate, ReturnCreate
    <3>4. CASE Panic(c)
      BY ZenonT(30), <3>4 DEF Panic, NameLockRestarts
    <3> QED
      BY ZenonT(30), <1>3, <3>1, <3>2, <3>3, <3>4 DEF CreateStep
  <2> QED
    BY ZenonT(30), <1>1, <2>1
<1>4. ASSUME NEW c \in IDCalls, ByIDStep(c) PROVE UNCHANGED nameLock
  BY ZenonT(30), <1>4 DEF ByIDStep, LockID, ControllerExpandVolume, WaitExpand, DeleteVolume, DeleteSnapshot,
       WaitDelete, ValidateVolumeCapabilities, CancelledByID, ReturnByID, ThenWait
<1>5. ASSUME NEW c \in IDCalls, NEW op, NEW s, CallByID(c, op, s) PROVE UNCHANGED nameLock
  BY ZenonT(30), <1>5 DEF CallByID
<1>6. ASSUME NEW c \in AllCalls, Timeout(c) \/ Deadline(c) PROVE UNCHANGED nameLock
  BY <1>6 DEF Timeout, Deadline
<1> QED
  BY ZenonT(30), <1>2, <1>3, <1>4, <1>5, <1>6 DEF Next

\* The same for the lock by volume ID.
LEMMA IDLockSteps ==
    ASSUME [Next]_vars PROVE IDLock!Next \/ UNCHANGED idLock \/ IDLockRestarts
<1>1. ASSUME NEW c \in IDCalls, NEW i \in {"source", "derived"},
             ByID!Call(c, i) \/ ByID!TryLock(c) \/ ByID!UnlockByID(c)
      PROVE  IDLock!Next
  BY ZenonT(30), <1>1 DEF ByID!Call, ByID!TryLock, ByID!UnlockByID, IDLock!Next, IDLock!Call,
              IDLock!TryLock, IDLock!UnlockByID
<1>2. CASE UNCHANGED vars \/ NodeTurn(NodeStep) \/ ControllerCacheSync
  BY <1>2 DEF vars, NodeTurn, ControllerCacheSync
<1>3. ASSUME NEW c \in NameCalls, CallCreate(c) \/ CreateStep(c)
      PROVE  UNCHANGED idLock \/ IDLockRestarts
  <2>1. CASE Panic(c)
    BY ZenonT(30), <2>1 DEF Panic, IDLockRestarts
  <2> QED
    BY ZenonT(30), <1>3, <2>1 DEF CallCreate, CreateStep, LockName, CreateGetSource, CreateCR, WaitCreate,
         CancelledCreate, ReturnCreate
<1>4. ASSUME NEW c \in IDCalls, ByIDStep(c)
      PROVE  ByID!TryLock(c) \/ ByID!UnlockByID(c) \/ UNCHANGED idLock
  BY ZenonT(30), <1>4 DEF ByIDStep, LockID, ControllerExpandVolume, WaitExpand, DeleteVolume, DeleteSnapshot,
       WaitDelete, ValidateVolumeCapabilities, CancelledByID, ReturnByID, ThenWait
<1>5. ASSUME NEW c \in IDCalls, NEW op, NEW s, CallByID(c, op, s)
      PROVE  \E i \in {"source", "derived"} : ByID!Call(c, i)
  BY ZenonT(30), <1>5 DEF CallByID
<1>6. ASSUME NEW c \in AllCalls, Timeout(c) \/ Deadline(c) PROVE UNCHANGED idLock
  BY <1>6 DEF Timeout, Deadline
<1>7. ASSUME NEW c \in IDCalls, ByIDStep(c) PROVE IDLock!Next \/ UNCHANGED idLock
  BY ZenonT(30), <1>1, <1>4, <1>7
<1>8. ASSUME NEW c \in IDCalls, NEW op, NEW s, CallByID(c, op, s) PROVE IDLock!Next
  BY ZenonT(30), <1>1, <1>5, <1>8
<1> QED
  BY ZenonT(30), <1>2, <1>3, <1>6, <1>7, <1>8 DEF Next

\* A new start leaves a free lock.
LEMMA RestartedLocks ==
    /\ NameLock!LockInv /\ NameLockRestarts => NameLock!LockInv'
    /\ IDLock!LockInv /\ IDLockRestarts => IDLock!LockInv'
<1>1. ASSUME NameLock!LockInv, NameLockRestarts PROVE NameLock!LockInv'
  BY ZenonT(30), <1>1 DEF NameLockRestarts, NameLock!LockInv, NameLock!TypeOK, NameLock!LockedIsHeld,
       NameLock!MutualExclusion, NameLock!ParkedHasHolder, NameLock!NoPanic
<1>2. ASSUME IDLock!LockInv, IDLockRestarts PROVE IDLock!LockInv'
  BY ZenonT(30), <1>2 DEF IDLockRestarts, IDLock!LockInv, IDLock!TypeOK, IDLock!LockedIsHeld,
       IDLock!MutualExclusion, IDLock!ParkedHasHolder, IDLock!NoPanic
<1> QED
  BY <1>1, <1>2

\* The two locks of controllerServer in the composed system, where callers give
\* up, deadlines pass and a panic starts the process again: no two handlers
\* are inside for one volume name or one volume ID, a call that sleeps has a
\* holder to wake it, and UnlockByID does not panic.
THEOREM LocksHold ==
    Spec => [](/\ ByName!MutualExclusion /\ ByName!ParkedHasHolder /\ ByName!NoPanic
               /\ ByID!MutualExclusion /\ ByID!ParkedHasHolder /\ ByID!NoPanic)
<1> DEFINE Both == NameLock!LockInv /\ IDLock!LockInv
<1>1. Init => Both
  <2> SUFFICES ASSUME Init PROVE Both
    OBVIOUS
  <2>1. NameLock!Init /\ IDLock!Init
    BY DEF Init, ByName!Init, ByID!Init, NameLock!Init, IDLock!Init
  <2> QED
    BY <2>1, NameLock!LockInit, IDLock!LockInit
<1>2. Both /\ [Next]_vars => Both'
  <2> SUFFICES ASSUME Both, [Next]_vars PROVE Both'
    OBVIOUS
  <2>1. NameLock!LockInv'
    <3>1. UNCHANGED nameLock => UNCHANGED NameLock!vars
      BY DEF nameLock, NameLock!vars
    <3> QED
      BY ZenonT(30), <3>1, NameLockSteps, RestartedLocks, NameLock!LockNext
  <2>2. IDLock!LockInv'
    <3>1. UNCHANGED idLock => UNCHANGED IDLock!vars
      BY DEF idLock, IDLock!vars
    <3> QED
      BY ZenonT(30), <3>1, IDLockSteps, RestartedLocks, IDLock!LockNext
  <2> QED
    BY <2>1, <2>2
<1>3. Both => /\ ByName!MutualExclusion /\ ByName!ParkedHasHolder /\ ByName!NoPanic
              /\ ByID!MutualExclusion /\ ByID!ParkedHasHolder /\ ByID!NoPanic
  BY ZenonT(30) DEF NameLock!LockInv, NameLock!MutualExclusion, NameLock!ParkedHasHolder, NameLock!NoPanic,
         IDLock!LockInv, IDLock!MutualExclusion, IDLock!ParkedHasHolder, IDLock!NoPanic,
         ByName!MutualExclusion, ByName!ParkedHasHolder, ByName!NoPanic,
         ByID!MutualExclusion, ByID!ParkedHasHolder, ByID!NoPanic
<1> HIDE DEF Both
<1> QED
  BY <1>1, <1>2, <1>3, PTL DEF Spec
=============================================================================
