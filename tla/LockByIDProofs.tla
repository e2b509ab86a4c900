--------------------------- MODULE LockByIDProofs ---------------------------
(***************************************************************************)
(* LockByID is correct for any number of calls and of IDs.  The invariant  *)
(* that carries the proof says that the map holds exactly the IDs that     *)
(* some call holds.                                                        *)
(***************************************************************************)
EXTENDS LockByID, TLAPS

LockedIsHeld == \A i \in IDs : i \in locked <=> \E c \in Calls : pc[c] = "holding" /\ id[c] = i

LockInv == TypeOK /\ LockedIsHeld /\ MutualExclusion /\ ParkedHasHolder /\ NoPanic

\* The lock starts out free.
LEMMA LockInit == Init => LockInv
  BY ZenonT(30) DEF Init, LockInv, TypeOK, LockedIsHeld, MutualExclusion, ParkedHasHolder, NoPanic

\* A call that asks for a lock disturbs nobody.
LEMMA CallStep == ASSUME LockInv, NEW c \in Calls, NEW i \in IDs, Call(c, i) PROVE LockInv'
  BY DEF Call, LockInv, TypeOK, LockedIsHeld, MutualExclusion, ParkedHasHolder, NoPanic

\* TryLock takes a free ID, or parks behind its holder.
LEMMA TryLockStep == ASSUME LockInv, NEW c \in Calls, TryLock(c) PROVE LockInv'
  <1>1. CASE id[c] \in locked
    <2>1. PICK d \in Calls : pc[d] = "holding" /\ id[d] = id[c]
      BY <1>1 DEF LockInv, TypeOK, LockedIsHeld
    <2>2. /\ pc' = [pc EXCEPT ![c] = "parked"]
          /\ locked' = locked /\ id' = id /\ panic' = panic
          /\ pc[c] = "want" /\ d # c
      BY <1>1, <2>1 DEF TryLock
    <2>3. TypeOK' /\ NoPanic'
      BY <2>2 DEF LockInv, TypeOK, NoPanic
    <2>4. LockedIsHeld' /\ MutualExclusion'
      BY <2>2 DEF LockInv, TypeOK, LockedIsHeld, MutualExclusion
    <2>5. ParkedHasHolder'
      BY <2>1, <2>2 DEF LockInv, TypeOK, ParkedHasHolder
    <2>. QED
      BY <2>3, <2>4, <2>5 DEF LockInv
  <1>2. CASE id[c] \notin locked
    <2>1. /\ pc' = [pc EXCEPT ![c] = "holding"]
          /\ locked' = locked \cup {id[c]} /\ id' = id /\ panic' = panic
          /\ pc[c] = "want"
      BY <1>2 DEF TryLock
    <2>2. TypeOK' /\ NoPanic'
      BY <2>1 DEF LockInv, TypeOK, NoPanic
    <2>3. LockedIsHeld'
      BY <2>1 DEF LockInv, TypeOK, LockedIsHeld
    <2>4. MutualExclusion'
      BY <1>2, <2>1 DEF LockInv, TypeOK, LockedIsHeld, MutualExclusion
    <2>5. ParkedHasHolder'
      BY <2>1 DEF LockInv, TypeOK, ParkedHasHolder
    <2>. QED
      BY <2>2, <2>3, <2>4, <2>5 DEF LockInv
  <1>. QED
    BY <1>1, <1>2

\* UnlockByID frees the ID of its caller only, and leaves nobody parked.
LEMMA UnlockStep == ASSUME LockInv, NEW c \in Calls, UnlockByID(c) PROVE LockInv'
  <1>1. /\ pc[c] = "holding" /\ id[c] \in locked
        /\ locked' = locked \ {id[c]} /\ id' = id /\ panic' = panic
        /\ pc' = [d \in Calls |-> IF d = c THEN "idle" ELSE IF pc[d] = "parked" THEN "want" ELSE pc[d]]
    BY DEF UnlockByID, LockInv, TypeOK, LockedIsHeld, NoPanic
  <1>2. TypeOK' /\ NoPanic'
    BY <1>1 DEF LockInv, TypeOK, NoPanic
  <1>3. \A d \in Calls : /\ pc'[d] = "holding" <=> (pc[d] = "holding" /\ d # c)
                         /\ pc'[d] # "parked"
    BY <1>1 DEF LockInv, TypeOK
  <1>4. MutualExclusion' /\ ParkedHasHolder'
    BY <1>1, <1>3 DEF LockInv, MutualExclusion, ParkedHasHolder
  <1>5. LockedIsHeld'
    BY <1>1, <1>3 DEF LockInv, TypeOK, LockedIsHeld, MutualExclusion
  <1>. QED
    BY <1>2, <1>4, <1>5 DEF LockInv

\* Every step keeps the invariant.
LEMMA LockNext == LockInv /\ [Next]_vars => LockInv'
  <1>1. ASSUME LockInv, UNCHANGED vars PROVE LockInv'
    BY <1>1 DEF LockInv, vars, TypeOK, LockedIsHeld, MutualExclusion, ParkedHasHolder, NoPanic
  <1>2. ASSUME LockInv, Next PROVE LockInv'
    BY <1>2, CallStep, TryLockStep, UnlockStep DEF Next
  <1>. QED
    BY <1>1, <1>2

\* LockByID for any calls and IDs: no two handlers run for one volume, every
\* parked call is behind a holder whose UnlockByID will wake it, and
\* UnlockByID never panics.
THEOREM LockIsCorrect == Spec => [](TypeOK /\ MutualExclusion /\ ParkedHasHolder /\ NoPanic)
  <1>1. LockInv => TypeOK /\ MutualExclusion /\ ParkedHasHolder /\ NoPanic
    BY DEF LockInv
  <1>. QED
    BY <1>1, LockInit, LockNext, PTL DEF Spec
=============================================================================
