-------------------------------- MODULE Mutex --------------------------------
(***************************************************************************)
(* What the locks and the critical sections of the OpenMP runtime promise: *)
(* a thread enters when nobody is inside, and the one inside leaves.       *)
(***************************************************************************)
CONSTANT Threads

VARIABLE inside    \* the threads that hold the lock

Init == inside = {}

Enter(t) == inside = {} /\ inside' = {t}

Exit(t) == inside = {t} /\ inside' = {}

Next == \E t \in Threads : Enter(t) \/ Exit(t)

Spec == Init /\ [][Next]_inside
=============================================================================
