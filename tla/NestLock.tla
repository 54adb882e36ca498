------------------------------ MODULE NestLock ------------------------------
(***************************************************************************)
(* The nestable locks of the OpenMP runtime: __pmp_nest_lock,              *)
(* __pmp_nest_trylock and __pmp_nest_unlock in libopenmp/lock.h.  The      *)
(* thread that holds the lock may take it again; the nesting is counted in *)
(* a field that is read and written without atomic operations.  With       *)
(* param->lock_spin the lock is a word that the threads spin on, without   *)
(* it a recursive pthread mutex that counts the nesting as well.           *)
(***************************************************************************)
EXTENDS Naturals

CONSTANTS Threads,     \* global ids
          Unlocked,    \* PMP_SYNC_UNLOCKED
          MaxDepth,    \* how deep the program nests the lock
          MaxHeld      \* the bound on how often the mutex is locked

ASSUME NestLockAssumption ==
    /\ Unlocked \notin Threads
    /\ {MaxDepth, MaxHeld} \subseteq Nat \ {0}

VARIABLES lock_spin, \* param->lock_spin
          sync,     \* lock->sync, or the owner of lock->mutex
          held,     \* how often the owner has locked lock->mutex
          nest,     \* lock->nest
          pc,
          mine,     \* the thread has found its own id in the lock
          depth     \* history: how often the program holds the lock

vars == <<lock_spin, sync, held, nest, pc, mine, depth>>

Init ==
    /\ lock_spin \in BOOLEAN
    /\ sync = Unlocked
    /\ held = 0
    /\ nest = 0
    /\ pc = [t \in Threads |-> "out"]
    /\ mine = [t \in Threads |-> FALSE]
    /\ depth = [t \in Threads |-> 0]

Goto(t, label) == pc' = [pc EXCEPT ![t] = label]
-----------------------------------------------------------------------------
\* The lock is taken, or was the thread's own; the nesting is counted next.
Take(t) ==
    /\ sync' = t
    /\ mine' = [mine EXCEPT ![t] = sync = t]
    /\ Goto(t, "count")

\* Compare and exchange, in omp_set_nest_lock and in omp_test_nest_lock,
\* which gives up when another thread has the lock.
NestTake(t) ==
    /\ lock_spin
    /\ pc[t] = "out" /\ depth[t] < MaxDepth
    /\ sync \in {Unlocked, t}
    /\ Take(t)
    /\ UNCHANGED <<lock_spin, held, nest, depth>>

NestMiss(t) ==
    /\ lock_spin
    /\ pc[t] = "out"
    /\ sync \notin {Unlocked, t}
    /\ Goto(t, "spin")
    /\ UNCHANGED <<lock_spin, sync, held, nest, mine, depth>>

\* A plain read of the lock: poll on, or try again.
NestPoll(t) ==
    /\ pc[t] = "spin"
    /\ sync \in {Unlocked, t}
    /\ Goto(t, IF sync = t THEN "abort" ELSE "retry")
    /\ UNCHANGED <<lock_spin, sync, held, nest, mine, depth>>

\* Mutant: the poll has seen the lock free, so take it.
NestRetryStore(t) ==
    /\ pc[t] = "retry"
    /\ Take(t)
    /\ UNCHANGED <<lock_spin, held, nest, depth>>

NestRetry(t) ==
    /\ pc[t] = "retry"
    /\ IF sync = Unlocked
         THEN Take(t)
         ELSE Goto(t, IF sync = t THEN "abort" ELSE "spin") /\ UNCHANGED <<sync, mine>>
    /\ UNCHANGED <<lock_spin, held, nest, depth>>

\* pthread_mutex_lock or pthread_mutex_trylock on the recursive mutex.
MutexTake(t) ==
    /\ ~lock_spin
    /\ pc[t] = "out" /\ depth[t] < MaxDepth /\ held < MaxHeld
    /\ sync \in {Unlocked, t}
    /\ Take(t)
    /\ held' = held + 1
    /\ UNCHANGED <<lock_spin, nest, depth>>

\* lock->nest++; when the lock was free its count must have been 0.
NestCount(t) ==
    /\ pc[t] = "count"
    /\ IF lock_spin /\ ~(nest = 0 \/ mine[t])
         THEN Goto(t, "abort") /\ UNCHANGED <<nest, depth>>
         ELSE /\ nest' = nest + 1
              /\ depth' = [depth EXCEPT ![t] = @ + 1]
              /\ Goto(t, "out")
    /\ UNCHANGED <<lock_spin, sync, held, mine>>

\* Mutant: the lock is released although it is nested.
NestUnlockAll(t) ==
    /\ pc[t] = "out" /\ depth[t] > 0
    /\ nest' = 0
    /\ depth' = [depth EXCEPT ![t] = @ - 1]
    /\ Goto(t, "test")
    /\ UNCHANGED <<lock_spin, sync, held, mine>>

\* omp_unset_nest_lock by a thread that holds the lock: lock->nest-- ...
NestUnlock(t) ==
    /\ pc[t] = "out" /\ depth[t] > 0
    /\ IF nest = 0 \/ (lock_spin /\ sync # t)
         THEN Goto(t, "abort") /\ UNCHANGED <<nest, depth>>
         ELSE /\ nest' = nest - 1
              /\ depth' = [depth EXCEPT ![t] = @ - 1]
              /\ Goto(t, "test")
    /\ UNCHANGED <<lock_spin, sync, held, mine>>

\* Mutant: the lock is not released.
NestReleaseKeep(t) ==
    /\ pc[t] = "test"
    /\ Goto(t, "out")
    /\ UNCHANGED <<lock_spin, sync, held, nest, mine, depth>>

\* ... and when that makes it 0, release the lock: once.
NestRelease(t) ==
    /\ pc[t] = "test"
    /\ IF nest # 0
         THEN Goto(t, "out") /\ UNCHANGED <<sync, held>>
         ELSE IF lock_spin
           THEN /\ sync' = IF sync = t THEN Unlocked ELSE sync
                /\ Goto(t, IF sync = t THEN "out" ELSE "abort")
                /\ UNCHANGED held
           ELSE /\ held' = held - 1
                /\ sync' = IF held = 1 THEN Unlocked ELSE sync
                /\ Goto(t, "out")
    /\ UNCHANGED <<lock_spin, nest, mine, depth>>

Next ==
    \E t \in Threads :
        \/ NestTake(t) \/ NestMiss(t) \/ NestPoll(t) \/ NestRetry(t) \/ MutexTake(t)
        \/ NestCount(t) \/ NestUnlock(t) \/ NestRelease(t)

Spec == Init /\ [][Next]_vars
-----------------------------------------------------------------------------
(***************************************************************************)
(* Properties                                                              *)
(***************************************************************************)
\* The assertions of the nestable lock hold: the count belongs to the thread
\* that writes it, although neither the count nor the test that follows it is
\* atomic with the lock.
NestAssertions == \A t \in Threads : pc[t] # "abort"

\* Two threads never hold the lock at once, and lock->nest is as deep as the
\* program of the thread that holds it has nested the lock.
NestExclusion ==
    \A t \in Threads : depth[t] > 0 =>
        /\ sync = t
        /\ nest = depth[t]
        /\ \A u \in Threads : depth[u] > 0 => u = t

\* When no thread holds the lock and none is in the middle of an operation on
\* it, the lock is free: lock->nest is 0 only for a lock without an owner.
FreeWhenUnnested ==
    (\A t \in Threads : depth[t] = 0 /\ pc[t] = "out") => sync = Unlocked /\ nest = 0

\* The same of the locks that spin, whose word is released together with the
\* last nesting.
SpinFreeWhenUnnested == lock_spin => FreeWhenUnnested
=============================================================================
