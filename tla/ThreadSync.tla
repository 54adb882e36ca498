----------------------------- MODULE ThreadSync -----------------------------
(***************************************************************************)
(* The wait/wake mechanism of the OpenMP runtime: __pmp_thread_wait and    *)
(* __pmp_thread_wake in libopenmp/thread.c.  A thread spins for a while on *)
(* its own sync field and then blocks in sigwait; a waker either finds the *)
(* thread not blocked and leaves UNBLOCKED in the field, or finds it       *)
(* blocked, resets the field and sends SIGPMP.                             *)
(*                                                                         *)
(* Each atomic access to the sync field is one step.  How often a thread   *)
(* spins (param->thread_spin) is left open: it may give up at any time.    *)
(* SyncClient gives the actions an arbitrary client, ForkJoin the real one.*)
(***************************************************************************)
EXTENDS Naturals

CONSTANT Thread

VARIABLES sync,      \* thread->sync
          sigpmp,    \* SIGPMP signals sent to the thread and not yet taken
          waitpc,    \* where the thread is in __pmp_thread_wait
          wakepc,    \* where the thread is in __pmp_thread_wake
          wakee      \* the thread it is waking; itself when it wakes nobody

syncVars == <<sync, sigpmp, waitpc, wakepc, wakee>>

SyncTypeOK ==
    /\ sync   \in [Thread -> {"IDLE", "BLOCKED", "UNBLOCKED"}]
    /\ sigpmp \in [Thread -> Nat]
    /\ waitpc \in [Thread -> {"out", "spin", "reset", "sigwait"}]
    /\ wakepc \in [Thread -> {"out", "idle", "kill"}]
    /\ wakee  \in [Thread -> Thread]

SyncInit ==
    /\ sync   = [t \in Thread |-> "IDLE"]
    /\ sigpmp = [t \in Thread |-> 0]
    /\ waitpc = [t \in Thread |-> "out"]
    /\ wakepc = [t \in Thread |-> "out"]
    /\ wakee  = [t \in Thread |-> t]

\* t is in neither of the two functions, so its caller's code runs.
Running(t) == waitpc[t] = "out" /\ wakepc[t] = "out"
-----------------------------------------------------------------------------
(***************************************************************************)
(* __pmp_thread_wait                                                       *)
(***************************************************************************)
\* The call; the steps of the caller resume when waitpc[t] is "out" again.
CallWait(t) ==
    /\ waitpc' = [waitpc EXCEPT ![t] = "spin"]
    /\ UNCHANGED <<sync, sigpmp, wakepc, wakee>>

\* A read in the spin loop finds UNBLOCKED, or the cmpxchg after it fails.
WaitPass(t) ==
    /\ waitpc[t] = "spin"
    /\ sync[t] # "IDLE"
    /\ waitpc' = [waitpc EXCEPT ![t] = "reset"]
    /\ UNCHANGED <<sync, sigpmp, wakepc, wakee>>

\* Mutant: a plain store in place of the cmpxchg overwrites an early wake.
WaitBlockStore(t) ==
    /\ waitpc[t] = "spin"
    /\ sync' = [sync EXCEPT ![t] = "BLOCKED"]
    /\ waitpc' = [waitpc EXCEPT ![t] = "sigwait"]
    /\ UNCHANGED <<sigpmp, wakepc, wakee>>

\* The cmpxchg from IDLE to BLOCKED succeeds.
WaitBlock(t) ==
    /\ waitpc[t] = "spin"
    /\ sync[t] = "IDLE"
    /\ sync' = [sync EXCEPT ![t] = "BLOCKED"]
    /\ waitpc' = [waitpc EXCEPT ![t] = "sigwait"]
    /\ UNCHANGED <<sigpmp, wakepc, wakee>>

\* thread->sync = PMP_SYNC_IDLE, and the wait returns.
WaitReset(t) ==
    /\ waitpc[t] = "reset"
    /\ sync' = [sync EXCEPT ![t] = "IDLE"]
    /\ waitpc' = [waitpc EXCEPT ![t] = "out"]
    /\ UNCHANGED <<sigpmp, wakepc, wakee>>

\* sigwait takes a pending SIGPMP, and the wait returns.
WaitSignal(t) ==
    /\ waitpc[t] = "sigwait"
    /\ sigpmp[t] > 0
    /\ sigpmp' = [sigpmp EXCEPT ![t] = @ - 1]
    /\ waitpc' = [waitpc EXCEPT ![t] = "out"]
    /\ UNCHANGED <<sync, wakepc, wakee>>
-----------------------------------------------------------------------------
(***************************************************************************)
(* __pmp_thread_wake, called by k for t                                    *)
(***************************************************************************)
\* Mutant: the waker stores UNBLOCKED and does not look for a blocked thread.
CallWakeStore(k, t) ==
    /\ sync' = [sync EXCEPT ![t] = "UNBLOCKED"]
    /\ UNCHANGED <<sigpmp, waitpc, wakepc, wakee>>

\* The cmpxchg from IDLE to UNBLOCKED.  It fails when t is blocked; that it
\* never finds UNBLOCKED is the assertion of thread.c:137, stated as an
\* invariant of every client and not as a guard here.
CallWake(k, t) ==
    /\ sync' = IF sync[t] = "IDLE" THEN [sync EXCEPT ![t] = "UNBLOCKED"]
                                   ELSE sync
    /\ IF sync[t] = "BLOCKED"
         THEN /\ wakepc' = [wakepc EXCEPT ![k] = "idle"]
              /\ wakee'  = [wakee  EXCEPT ![k] = t]
         ELSE UNCHANGED <<wakepc, wakee>>
    /\ UNCHANGED <<sigpmp, waitpc>>

\* Mutant: the waker leaves the sync field of the sleeper BLOCKED.
WakeIdleNoReset(k) ==
    /\ wakepc[k] = "idle"
    /\ wakepc' = [wakepc EXCEPT ![k] = "kill"]
    /\ UNCHANGED <<sync, sigpmp, waitpc, wakee>>

\* thread->sync = PMP_SYNC_IDLE
WakeIdle(k) ==
    /\ wakepc[k] = "idle"
    /\ sync' = [sync EXCEPT ![wakee[k]] = "IDLE"]
    /\ wakepc' = [wakepc EXCEPT ![k] = "kill"]
    /\ UNCHANGED <<sigpmp, waitpc, wakee>>

\* pthread_kill(thread->pthread_id, SIGPMP)
WakeKill(k) ==
    /\ wakepc[k] = "kill"
    /\ sigpmp' = [sigpmp EXCEPT ![wakee[k]] = @ + 1]
    /\ wakepc' = [wakepc EXCEPT ![k] = "out"]
    /\ wakee'  = [wakee  EXCEPT ![k] = k]
    /\ UNCHANGED <<sync, waitpc>>

\* One step of t inside the two functions.
SyncStep(t) ==
    \/ WaitPass(t)
    \/ WaitBlock(t)
    \/ WaitReset(t)
    \/ WaitSignal(t)
    \/ WakeIdle(t)
    \/ WakeKill(t)
-----------------------------------------------------------------------------
(***************************************************************************)
(* The permit of Permit, as it is spread over the concrete state: in the   *)
(* sync field, in the hands of a waker, or in a pending signal.            *)
(***************************************************************************)
BeingSignalled(t) == \E k \in Thread : wakepc[k] # "out" /\ wakee[k] = t

HasPermit(t) ==
    \/ sync[t] = "UNBLOCKED"
    \/ BeingSignalled(t)
    \/ sigpmp[t] > 0

P == INSTANCE Permit WITH
        permits <- {t \in Thread : HasPermit(t)},
        waiters <- {t \in Thread : waitpc[t] # "out"}

-----------------------------------------------------------------------------
(***************************************************************************)
(* Properties                                                              *)
(***************************************************************************)
\* A thread that sits in sigwait with its sync field no longer BLOCKED has a
\* signal pending or on its way: the window of __pmp_thread_wake between
\* "sync = IDLE" and pthread_kill never strands the sleeper.
NoLostWakeup ==
    \A t \in Thread :
        waitpc[t] = "sigwait" /\ sync[t] # "BLOCKED" =>
            sigpmp[t] = 1 \/ \E k \in Thread : wakepc[k] = "kill" /\ wakee[k] = t

\* A wake is delivered in exactly one of its three forms, to one wait: no
\* signal is left over to end a later wait early, no two threads signal the
\* same sleeper, and the store that ends a wait never destroys a newer wake.
OneDelivery ==
    /\ \A t \in Thread :
        /\ sigpmp[t] > 0 => sigpmp[t] = 1 /\ sync[t] = "IDLE" /\ waitpc[t] = "sigwait"
        /\ waitpc[t] = "reset" => sync[t] = "UNBLOCKED"
        /\ sync[t] = "BLOCKED" => waitpc[t] = "sigwait"
        /\ sync[t] = "UNBLOCKED" => waitpc[t] # "sigwait"
    /\ \A k \in Thread : wakepc[k] # "out" =>
        /\ waitpc[wakee[k]] = "sigwait"
        /\ sigpmp[wakee[k]] = 0
        /\ sync[wakee[k]] = IF wakepc[k] = "idle" THEN "BLOCKED" ELSE "IDLE"
    /\ \A k, l \in Thread :
        wakepc[k] # "out" /\ wakepc[l] # "out" /\ wakee[k] = wakee[l] => k = l

\* The wait/wake code implements the permit contract, its liveness included:
\* a wait returns only by consuming a wake, and a thread that waits and has
\* been woken returns.
ImplementsPermit == P!Spec
=============================================================================
