----------------------------- MODULE SyncClient -----------------------------
(***************************************************************************)
(* ThreadSync under a client that keeps its part of the contract of Permit *)
(* - it never wakes a thread that has an unconsumed wake - and is free     *)
(* otherwise: any thread may wait, and wake any other, at any time.        *)
(***************************************************************************)
EXTENDS ThreadSync

ClientWait(t) == Running(t) /\ CallWait(t)

ClientWake(k, t) == Running(k) /\ k # t /\ ~HasPermit(t) /\ CallWake(k, t)

ClientNext ==
    \E t \in Thread :
        \/ SyncStep(t)
        \/ ClientWait(t)
        \/ \E k \in Thread : ClientWake(k, t)

\* The operating system lets every thread that can take a step take it: the
\* spin loops yield, and sigwait returns when the signal is there.
ClientFairness == \A t \in Thread : WF_syncVars(SyncStep(t))

SafeClientSpec == SyncInit /\ [][ClientNext]_syncVars

ClientSpec == SafeClientSpec /\ ClientFairness
=============================================================================
