------------------------------- MODULE Permit -------------------------------
(***************************************************************************)
(* What __pmp_thread_wait and __pmp_thread_wake (libopenmp/thread.c)       *)
(* promise their callers.  Every thread owns one permit.  A wake gives the *)
(* permit, a wait returns only by taking it, and a wake may come before,   *)
(* during or after the call of the wait it is meant for.  The caller's     *)
(* part of the contract is that nobody gives a permit that has already     *)
(* been given and not been taken: the assertion of __pmp_thread_wake.      *)
(***************************************************************************)
CONSTANT Thread          \* the threads of the runtime

VARIABLES permits,       \* the threads with a wake that is not consumed yet
          waiters        \* the threads inside __pmp_thread_wait

vars == <<permits, waiters>>

Init ==
    /\ permits = {}
    /\ waiters = {}

Enter(t) ==
    /\ t \notin waiters
    /\ waiters' = waiters \cup {t}
    /\ UNCHANGED permits

Give(t) ==
    /\ t \notin permits
    /\ permits' = permits \cup {t}
    /\ UNCHANGED waiters

Take(t) ==
    /\ t \in waiters \cap permits
    /\ waiters' = waiters \ {t}
    /\ permits' = permits \ {t}

Next == \E t \in Thread : Enter(t) \/ Give(t) \/ Take(t)

\* The part of the contract that is about safety only.
SafeSpec == Init /\ [][Next]_vars

\* A thread that waits and has its permit leaves the wait.
Spec == SafeSpec /\ \A t \in Thread : WF_vars(Take(t))
=============================================================================
