----------------------------- MODULE LockProofs -----------------------------
(***************************************************************************)
(* Proofs about Lock for every set of threads, spinning or not.            *)
(***************************************************************************)
EXTENDS Lock, TLAPS

Using == {"lock", "spin", "held"}

\* A lock in use is the one the pointer leads to, and stays that one.
UsePointer ==
    \A t \in Threads : pc[t] \in Using => pointer # Null /\ l[t] = pointer

\* The lock that is installed is neither freed nor still being prepared, and
\* no lock has been freed before one is installed.
PointerSettled ==
    /\ pointer \notin freed
    /\ pointer = Null => freed = {}
    /\ \A t \in Threads : pc[t] \in {"alloc", "install"} => pointer # t

\* A thread installs the lock it has allocated.
OwnLock == \A t \in Threads : pc[t] = "install" => l[t] = t

\* A thread inside has written its id to the lock.
HolderWritten == \A t \in Threads : pc[t] = "held" => sync[l[t]] = t

LockInv ==
    /\ TypeOK
    /\ UsePointer
    /\ PointerSettled
    /\ OwnLock
    /\ HolderWritten
    /\ UnlockSound

LEMMA InitLockInv == Init => LockInv
BY LockAssumption
DEF Init, LockInv, TypeOK, UsePointer, PointerSettled, OwnLock, HolderWritten, UnlockSound,
    Using, Locks

LEMMA NextLockInv == LockInv /\ [Next]_vars => LockInv'
<1> SUFFICES ASSUME LockInv, [Next]_vars PROVE LockInv'
    OBVIOUS
<1> USE LockAssumption
    DEF LockInv, TypeOK, UsePointer, PointerSettled, OwnLock, HolderWritten, UnlockSound,
        Using, Locks, Goto
<1>1. ASSUME NEW t \in Threads, Critical(t) PROVE LockInv'
    BY <1>1 DEF Critical
<1>2. ASSUME NEW t \in Threads, AllocLock(t) PROVE LockInv'
    BY <1>2 DEF AllocLock
<1>3. ASSUME NEW t \in Threads, Install(t) PROVE LockInv'
  <2>1. CASE pointer = Null
    BY <1>3, <2>1 DEF Install
  <2>2. CASE pointer # Null
    BY <1>3, <2>2 DEF Install
  <2> QED
    BY <2>1, <2>2
<1>4. ASSUME NEW t \in Threads, LockTake(t) PROVE LockInv'
    BY <1>4 DEF LockTake, Acquire
<1>5. ASSUME NEW t \in Threads, LockMiss(t) PROVE LockInv'
    BY <1>5 DEF LockMiss
<1>6. ASSUME NEW t \in Threads, LockSpin(t) PROVE LockInv'
    BY <1>6 DEF LockSpin
<1>7. ASSUME NEW t \in Threads, MutexLock(t) PROVE LockInv'
    BY <1>7 DEF MutexLock, Acquire
<1>8. ASSUME NEW t \in Threads, TryLock(t) PROVE LockInv'
    BY <1>8 DEF TryLock
<1>9. ASSUME NEW t \in Threads, Unlock(t) PROVE LockInv'
    BY <1>9 DEF Unlock
<1>10. CASE UNCHANGED vars
    BY <1>10 DEF vars
<1> QED
    BY <1>1, <1>2, <1>3, <1>4, <1>5, <1>6, <1>7, <1>8, <1>9, <1>10 DEF Next, Step

\* The inductive invariant holds in every state of the specification.
THEOREM LockInvariant == Spec => []LockInv
<1>1. Init => LockInv
    BY InitLockInv
<1>2. LockInv /\ [Next]_vars => LockInv'
    BY NextLockInv
<1> QED
    BY <1>1, <1>2, PTL DEF Spec

\* The lock words, the pointer and the locals of __ompc_critical keep their
\* types.
THEOREM LockTypesHold == Spec => []TypeOK
<1>1. LockInv => TypeOK
    BY DEF LockInv
<1> QED
    BY <1>1, LockInvariant, PTL

LEMMA LockInvExcludes == LockInv => MutualExclusion
BY DEF LockInv, UsePointer, HolderWritten, MutualExclusion, Using

\* No two threads are in the critical section, whoever won the race to
\* allocate its lock and however many threads there are.
THEOREM MutualExclusionHolds == Spec => []MutualExclusion
BY LockInvariant, LockInvExcludes, PTL

LEMMA LockInvNoFree == LockInv => NoUseAfterFree
BY DEF LockInv, UsePointer, PointerSettled, NoUseAfterFree, Using

\* The lock that a loser of the race frees is used by nobody.
THEOREM NoUseAfterFreeHolds == Spec => []NoUseAfterFree
BY LockInvariant, LockInvNoFree, PTL

\* The assertions of __ompc_end_critical and __pmp_unlock cannot fail.
THEOREM UnlockSoundHolds == Spec => []UnlockSound
<1>1. LockInv => UnlockSound
    BY DEF LockInv
<1> QED
    BY <1>1, LockInvariant, PTL

LEMMA EnterMutex ==
    ASSUME LockInv, NEW t \in Threads, sync[l[t]] = Unlocked,
           pc[t] = "out" => l[t] = pointer, pc[t] \in {"out", "lock"},
           Goto(t, "held")
    PROVE  M!Enter(t)
BY LockAssumption
DEF LockInv, TypeOK, UsePointer, HolderWritten, Using, Goto, M!Enter, inside

LEMMA ImplementStep == LockInv /\ [Next]_vars => [M!Next]_inside
<1> SUFFICES ASSUME LockInv, [Next]_vars PROVE [M!Next]_inside
    OBVIOUS
<1> USE LockAssumption DEF Goto
<1>1. ASSUME NEW t \in Threads, LockTake(t) \/ MutexLock(t) PROVE M!Next
    BY <1>1, EnterMutex DEF LockTake, MutexLock, Acquire, M!Next
<1>2. ASSUME NEW t \in Threads, TryLock(t) PROVE M!Next
  <2>1. inside = {}
    BY <1>2 DEF TryLock, LockInv, TypeOK, UsePointer, HolderWritten, Using, inside
  <2>2. inside' = {t}
    BY <1>2, <2>1 DEF TryLock, LockInv, TypeOK, inside
  <2> QED
    BY <2>1, <2>2 DEF M!Next, M!Enter
<1>3. ASSUME NEW t \in Threads, Unlock(t) PROVE M!Next
  <2>1. inside = {t}
    BY <1>3, LockInvExcludes DEF Unlock, MutualExclusion, inside
  <2>2. inside' = {}
    BY <1>3, <2>1 DEF Unlock, LockInv, TypeOK, inside
  <2> QED
    BY <2>1, <2>2 DEF M!Next, M!Exit
<1>4. ASSUME NEW t \in Threads,
             Critical(t) \/ AllocLock(t) \/ Install(t) \/ LockMiss(t) \/ LockSpin(t)
      PROVE UNCHANGED inside
    BY <1>4 DEF Critical, AllocLock, Install, LockMiss, LockSpin, LockInv, TypeOK, inside
<1>5. CASE UNCHANGED vars
    BY <1>5 DEF vars, inside
<1> QED
    BY <1>1, <1>2, <1>3, <1>4, <1>5 DEF Next, Step

\* The locks and the critical sections implement the abstract mutex.
THEOREM LockRefinesMutex == Spec => ImplementsMutex
<1>1. Init => M!Init
    BY DEF Init, M!Init, inside
<1>2. LockInv /\ [Next]_vars => [M!Next]_inside
    BY ImplementStep
<1> QED
    BY <1>1, <1>2, LockInvariant, PTL DEF Spec, ImplementsMutex, M!Spec
=============================================================================
