--------------------------- MODULE NestLockProofs ---------------------------
(***************************************************************************)
(* Proofs about NestLock for every set of threads, every depth of nesting, *)
(* spinning or not.                                                        *)
(***************************************************************************)
EXTENDS NestLock, TLAPS

Labels == {"out", "spin", "retry", "count", "test", "abort"}

Types ==
    /\ lock_spin \in BOOLEAN
    /\ sync \in Threads \cup {Unlocked}
    /\ held \in Nat
    /\ nest \in Nat
    /\ pc \in [Threads -> Labels]
    /\ mine \in [Threads -> BOOLEAN]
    /\ depth \in [Threads -> Nat]

\* t is in the middle of taking or releasing the lock.
Counting(t) == pc[t] \in {"count", "test"}

\* Whoever has nested the lock, or is about to write or test its count, has
\* its id in the lock; whoever polls the lock, a word to spin on, has not.
Owner ==
    \A t \in Threads :
        /\ depth[t] > 0 \/ Counting(t) => sync = t
        /\ pc[t] \in {"spin", "retry"} => lock_spin /\ sync # t

\* The count belongs to the owner, and is 0 when there is none or when the
\* owner has just become the owner.
Count ==
    /\ sync = Unlocked => nest = 0
    /\ \A t \in Threads :
        /\ sync = t => nest = depth[t]
        /\ pc[t] = "count" /\ ~mine[t] => nest = 0

\* The mutex has an owner while it is locked.  A word to spin on has an owner
\* only while it is nested or the owner is on its way in or out.
Held ==
    /\ ~lock_spin => (held = 0 <=> sync = Unlocked)
    /\ lock_spin => \A t \in Threads : sync = t => depth[t] > 0 \/ Counting(t)

NestInv == Types /\ Owner /\ Count /\ Held /\ NestAssertions

LEMMA InitNestInv == Init => NestInv
BY NestLockAssumption
DEF Init, NestInv, Types, Owner, Count, Held, NestAssertions, Counting, Labels

\* What a thread remembers of the lock it has taken.
LEMMA TakeMine ==
    ASSUME NEW t \in Threads, Take(t)
    PROVE  /\ sync = t => mine' = [mine EXCEPT ![t] = TRUE]
           /\ sync # t => mine' = [mine EXCEPT ![t] = FALSE]
BY DEF Take

LEMMA NextNestInv == NestInv /\ [Next]_vars => NestInv'
<1> SUFFICES ASSUME NestInv, [Next]_vars PROVE NestInv'
    OBVIOUS
<1> USE NestLockAssumption
    DEF NestInv, Types, Owner, Count, Held, NestAssertions, Counting, Labels, Goto
<1>1. ASSUME NEW t \in Threads, NestTake(t) PROVE NestInv'
  <2>1. CASE sync = t
    BY <1>1, <2>1, TakeMine DEF NestTake, Take
  <2>2. CASE sync = Unlocked
    BY <1>1, <2>2, TakeMine DEF NestTake, Take
  <2> QED
    BY <1>1, <2>1, <2>2 DEF NestTake
<1>2. ASSUME NEW t \in Threads, NestMiss(t) PROVE NestInv'
    BY <1>2 DEF NestMiss
<1>3. ASSUME NEW t \in Threads, NestPoll(t) PROVE NestInv'
    BY <1>3 DEF NestPoll
<1>4. ASSUME NEW t \in Threads, NestRetry(t) PROVE NestInv'
  <2>1. CASE sync = Unlocked
    <3>1. sync' = t /\ mine' = [mine EXCEPT ![t] = FALSE] /\ pc' = [pc EXCEPT ![t] = "count"]
      BY <1>4, <2>1, TakeMine DEF NestRetry, Take
    <3>2. nest = 0 /\ \A u \in Threads : depth[u] = 0 /\ ~Counting(u)
      BY <2>1
    <3> QED
      BY <1>4, <2>1, <3>1, <3>2 DEF NestRetry
  <2>2. CASE sync # Unlocked
    BY <1>4, <2>2 DEF NestRetry
  <2> QED
    BY <2>1, <2>2
<1>5. ASSUME NEW t \in Threads, MutexTake(t) PROVE NestInv'
  <2>1. CASE sync = t
    <3>1. sync' = sync /\ mine' = [mine EXCEPT ![t] = TRUE] /\ pc' = [pc EXCEPT ![t] = "count"]
      BY <1>5, <2>1, TakeMine DEF MutexTake, Take
    <3>2. ~lock_spin /\ held' = held + 1 /\ UNCHANGED <<lock_spin, nest, depth>>
      BY <1>5 DEF MutexTake
    <3> QED
      BY <2>1, <3>1, <3>2
  <2>2. CASE sync = Unlocked
    <3>1. sync' = t /\ mine' = [mine EXCEPT ![t] = FALSE] /\ pc' = [pc EXCEPT ![t] = "count"]
      BY <1>5, <2>2, TakeMine DEF MutexTake, Take
    <3>2. nest = 0 /\ \A u \in Threads : depth[u] = 0 /\ ~Counting(u)
      BY <2>2
    <3> QED
      BY <1>5, <2>2, <3>1, <3>2 DEF MutexTake
  <2> QED
    BY <1>5, <2>1, <2>2 DEF MutexTake
<1>6. ASSUME NEW t \in Threads, NestCount(t) PROVE NestInv'
    BY <1>6 DEF NestCount
<1>7. ASSUME NEW t \in Threads, NestUnlock(t) PROVE NestInv'
    BY <1>7 DEF NestUnlock
<1>8. ASSUME NEW t \in Threads, NestRelease(t) PROVE NestInv'
    BY <1>8 DEF NestRelease
<1>9. CASE UNCHANGED vars
    BY <1>9 DEF vars
<1> QED
    BY <1>1, <1>2, <1>3, <1>4, <1>5, <1>6, <1>7, <1>8, <1>9 DEF Next

\* The inductive invariant holds in every state of the specification.
THEOREM NestInvariant == Spec => []NestInv
<1>1. Init => NestInv
    BY InitNestInv
<1>2. NestInv /\ [Next]_vars => NestInv'
    BY NextNestInv
<1> QED
    BY <1>1, <1>2, PTL DEF Spec

\* The assertions of lock.h about lock->nest hold with both kinds of lock,
\* although the count is neither atomic itself nor with the lock.
THEOREM NestAssertionsHold == Spec => []NestAssertions
<1>1. NestInv => NestAssertions
    BY DEF NestInv
<1> QED
    BY <1>1, NestInvariant, PTL

LEMMA NestInvExcludes == NestInv => NestExclusion
BY NestLockAssumption DEF NestInv, Types, Owner, Count, NestExclusion

\* One thread at a time has nested the lock, and lock->nest is its depth.
THEOREM NestExclusionHolds == Spec => []NestExclusion
BY NestInvariant, NestInvExcludes, PTL

LEMMA NestInvFree == NestInv => SpinFreeWhenUnnested
BY NestLockAssumption
DEF NestInv, Types, Count, Held, Counting, FreeWhenUnnested, SpinFreeWhenUnnested

\* A spinning lock is free when nobody has it nested.  The recursive mutex is
\* not: it counts its own locks, and __pmp_nest_unlock undoes only one.
THEOREM SpinFreeWhenUnnestedHolds == Spec => []SpinFreeWhenUnnested
BY NestInvariant, NestInvFree, PTL
=============================================================================
