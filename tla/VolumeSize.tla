----------------------------- MODULE VolumeSize -----------------------------
(***************************************************************************)
(* The size topolvm-controller gives a volume: the minimum allocation of   *)
(* the settings, the defaults, and the rounding to sectors, in integers of *)
(* a fixed width.                                                          *)
(***************************************************************************)
EXTENDS Integers

CONSTANTS MinimumSectorSize,  \* 4096 in the code
          DefaultSize,        \* 1Gi in the code
          MaxInt              \* the largest integer: 2^63 - 1 in the code

ASSUME SizeAssumption ==
    /\ MinimumSectorSize \in Nat \ {0}
    /\ MaxInt \in Nat /\ MinimumSectorSize <= MaxInt
    /\ \E k \in 1..MaxInt : DefaultSize = k * MinimumSectorSize
    /\ DefaultSize <= MaxInt

Int64 == (-MaxInt - 1)..MaxInt

Wrap(n) == IF n > MaxInt THEN n - 2 * (MaxInt + 1) ELSE n

\* Division towards zero.
Quotient(a, b) == IF a >= 0 THEN a \div b ELSE 0 - ((0 - a) \div b)

roundUp(size, multiple) == Quotient(Wrap(size + multiple - 1), multiple) * multiple

roundDown(size, multiple) == size - (size % multiple)

Success(n) == [err |-> "none", bytes |-> n]
Failure(e) == [err |-> e, bytes |-> 0]

\* Mutant: the limit is not looked at again.
RoundedRequestUnchecked(request, limit) == Success(roundUp(request, MinimumSectorSize))

\* A size that is no multiple of the sector is rounded up, and may then
\* exceed the limit.
RoundedRequest(request, limit) ==
    IF request % MinimumSectorSize = 0 THEN Success(request)
    ELSE LET rounded == roundUp(request, MinimumSectorSize)
         IN  IF limit > 0 /\ rounded > limit THEN Failure("exceeds") ELSE Success(rounded)

\* Without a request the size is the default, or what the limit leaves of it.
DefaultRequest(limit) ==
    IF limit = 0 \/ limit >= DefaultSize THEN Success(DefaultSize)
    ELSE LET rounded == roundDown(limit, MinimumSectorSize)
         IN  IF rounded = 0 THEN Failure("zero") ELSE Success(rounded)

convertRequestCapacityBytes(request, limit) ==
    IF request < 0 \/ limit < 0 THEN Failure("negative")
    ELSE IF limit # 0 /\ request > limit THEN Failure("exceeds")
    ELSE IF request = 0 THEN DefaultRequest(limit)
    ELSE RoundedRequest(request, limit)

\* The setting of a block volume or of a file system; none, or a negative
\* one, is 0.
GetMinimumAllocationSize(setting) == IF setting < 0 THEN 0 ELSE setting

\* The request after the minimum allocation is applied; the limit is kept.
MinMaxAllocationsFromSettings(required, setting) ==
    IF GetMinimumAllocationSize(setting) > required THEN GetMinimumAllocationSize(setting)
    ELSE required
=============================================================================
