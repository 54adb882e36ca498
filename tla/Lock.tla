-------------------------------- MODULE Lock --------------------------------
(***************************************************************************)
(* The locks of the OpenMP runtime (__pmp_lock, __pmp_trylock and          *)
(* __pmp_unlock in libopenmp/lock.h) and the critical sections built on    *)
(* them (__ompc_critical and __ompc_end_critical in libopenmp/lock.c).     *)
(*                                                                         *)
(* A critical section has a pointer to its lock that is NULL at first.     *)
(* Whoever finds it NULL allocates a lock and tries to install it; the     *)
(* losers free theirs and use the one installed.  A lock of the program    *)
(* has been allocated by omp_init_lock before it is used.                  *)
(***************************************************************************)
CONSTANTS Threads,     \* global ids
          Unlocked,    \* PMP_SYNC_UNLOCKED
          Null,        \* the pointer before the first use
          UserLock     \* the lock that omp_init_lock allocates

ASSUME LockAssumption ==
    /\ Unlocked \notin Threads
    /\ Null \notin Threads
    /\ UserLock \notin Threads \cup {Null}

\* A thread allocates one lock at most, so its id names the lock as well.
Locks == Threads \cup {UserLock}

VARIABLES lock_spin, \* param->lock_spin: spin, or use the pthread mutex
          pointer,   \* *lock
          sync,      \* lock->sync of every lock, or the owner of lock->mutex
          freed,     \* the locks given back to the allocator
          pc,
          l          \* the local variable l

vars == <<lock_spin, pointer, sync, freed, pc, l>>

Init ==
    /\ lock_spin \in BOOLEAN
    /\ pointer \in {Null, UserLock}
    /\ sync = [o \in Locks |-> Unlocked]
    /\ freed = {}
    /\ pc = [t \in Threads |-> "out"]
    /\ l = [t \in Threads |-> Null]

Goto(t, label) == pc' = [pc EXCEPT ![t] = label]
-----------------------------------------------------------------------------
\* __ompc_critical, omp_set_lock: read the pointer.
Critical(t) ==
    /\ pc[t] = "out"
    /\ l' = [l EXCEPT ![t] = pointer]
    /\ Goto(t, IF pointer = Null THEN "alloc" ELSE "lock")
    /\ UNCHANGED <<lock_spin, pointer, sync, freed>>

\* __ompc_critical: allocate and initialise a lock of one's own ...
AllocLock(t) ==
    /\ pc[t] = "alloc"
    /\ l' = [l EXCEPT ![t] = t]
    /\ sync' = [sync EXCEPT ![t] = Unlocked]
    /\ Goto(t, "install")
    /\ UNCHANGED <<lock_spin, pointer, freed>>

\* Mutant: the pointer is stored without looking at it again.
InstallStore(t) ==
    /\ pc[t] = "install"
    /\ pointer' = l[t]
    /\ Goto(t, "lock")
    /\ UNCHANGED <<lock_spin, sync, freed, l>>

\* Mutant: the loser frees its lock and goes on with it.
InstallKeep(t) ==
    /\ pc[t] = "install"
    /\ IF pointer = Null
         THEN pointer' = l[t] /\ UNCHANGED freed
         ELSE freed' = freed \cup {l[t]} /\ UNCHANGED pointer
    /\ Goto(t, "lock")
    /\ UNCHANGED <<lock_spin, sync, l>>

\* ... and install it, or free it and take the one that is there.
Install(t) ==
    /\ pc[t] = "install"
    /\ IF pointer = Null
         THEN pointer' = l[t] /\ UNCHANGED <<freed, l>>
         ELSE /\ freed' = freed \cup {l[t]}
              /\ l' = [l EXCEPT ![t] = pointer]
              /\ UNCHANGED pointer
    /\ Goto(t, "lock")
    /\ UNCHANGED <<lock_spin, sync>>

Acquire(t) == sync' = [sync EXCEPT ![l[t]] = t] /\ Goto(t, "held")

\* __pmp_lock: compare and exchange.
LockTake(t) ==
    /\ lock_spin
    /\ pc[t] = "lock"
    /\ sync[l[t]] = Unlocked
    /\ Acquire(t)
    /\ UNCHANGED <<lock_spin, pointer, freed, l>>

\* The lock is taken: poll it.
LockMiss(t) ==
    /\ lock_spin
    /\ pc[t] = "lock"
    /\ sync[l[t]] # Unlocked
    /\ Goto(t, "spin")
    /\ UNCHANGED <<lock_spin, pointer, sync, freed, l>>

\* Mutant: what the poll has read is enough.
LockSpinTake(t) ==
    /\ pc[t] = "spin"
    /\ sync[l[t]] = Unlocked
    /\ Goto(t, "held")
    /\ UNCHANGED <<lock_spin, pointer, sync, freed, l>>

\* A plain read has seen the lock free: try to take it again.
LockSpin(t) ==
    /\ pc[t] = "spin"
    /\ sync[l[t]] = Unlocked
    /\ Goto(t, "lock")
    /\ UNCHANGED <<lock_spin, pointer, sync, freed, l>>

\* pthread_mutex_lock returns when the mutex is free.
MutexLock(t) ==
    /\ ~lock_spin
    /\ pc[t] = "lock"
    /\ sync[l[t]] = Unlocked
    /\ Acquire(t)
    /\ UNCHANGED <<lock_spin, pointer, freed, l>>

\* omp_test_lock, __pmp_trylock: there is no trying a critical section.
TryLock(t) ==
    /\ pc[t] = "out"
    /\ pointer = UserLock
    /\ sync[UserLock] = Unlocked
    /\ sync' = [sync EXCEPT ![UserLock] = t]
    /\ l' = [l EXCEPT ![t] = UserLock]
    /\ Goto(t, "held")
    /\ UNCHANGED <<lock_spin, pointer, freed>>

\* Mutant: the lock is not released.
UnlockKeep(t) ==
    /\ pc[t] = "held"
    /\ Goto(t, "out")
    /\ l' = [l EXCEPT ![t] = Null]
    /\ UNCHANGED <<lock_spin, pointer, sync, freed>>

\* __ompc_end_critical, omp_unset_lock: read the pointer again, unlock.
Unlock(t) ==
    /\ pc[t] = "held"
    /\ IF pointer # Null /\ sync[pointer] = t
         THEN sync' = [sync EXCEPT ![pointer] = Unlocked] /\ Goto(t, "out")
         ELSE Goto(t, "abort") /\ UNCHANGED sync
    /\ l' = [l EXCEPT ![t] = Null]
    /\ UNCHANGED <<lock_spin, pointer, freed>>

Step(t) ==
    \/ AllocLock(t) \/ Install(t)
    \/ LockTake(t) \/ LockMiss(t) \/ LockSpin(t) \/ MutexLock(t)
    \/ Unlock(t)

Next == \E t \in Threads : Critical(t) \/ TryLock(t) \/ Step(t)

Spec == Init /\ [][Next]_vars

FairSpec == Spec /\ \A t \in Threads : WF_vars(Step(t))
-----------------------------------------------------------------------------
(***************************************************************************)
(* Properties                                                              *)
(***************************************************************************)
TypeOK ==
    /\ lock_spin \in BOOLEAN
    /\ pointer \in Locks \cup {Null}
    /\ sync \in [Locks -> Threads \cup {Unlocked}]
    /\ freed \subseteq Locks
    /\ pc \in [Threads -> {"out", "alloc", "install", "lock", "spin", "held", "abort"}]
    /\ l \in [Threads -> Locks \cup {Null}]

\* Two threads that race to allocate the lock of a critical section end up
\* with the same lock: no two are inside at once.
MutualExclusion == \A t, u \in Threads : pc[t] = "held" /\ pc[u] = "held" => t = u

\* No thread takes, polls or releases a lock that has been freed.
NoUseAfterFree ==
    \A t \in Threads : pc[t] \in {"lock", "spin", "held"} => l[t] \notin freed

\* The assertions of __ompc_end_critical and __pmp_unlock: the pointer read
\* again at the end is the lock that the thread has taken.
UnlockSound == \A t \in Threads : pc[t] # "abort"

inside == {t \in Threads : pc[t] = "held"}

M == INSTANCE Mutex

\* The lock implements the abstract mutex.
ImplementsMutex == M!Spec

\* When threads wait for the lock, one of them gets it.  Which one is left to
\* chance (lock.h: "an increased risk of starvation for an unlucky thread").
SomeoneEnters == (\E t \in Threads : pc[t] = "lock") ~> (\E t \in Threads : pc[t] = "held")
=============================================================================
