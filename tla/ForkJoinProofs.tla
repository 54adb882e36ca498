--------------------------- MODULE ForkJoinProofs ---------------------------
(***************************************************************************)
(* Proofs about wait and wake and about the parallel regions that use      *)
(* them, for any number of threads, any work functions and any number of   *)
(* regions.  Under every client that does not wake a thread with an        *)
(* unconsumed wake, wait and wake implement the permit contract.  Fork,    *)
(* barrier and join are such a client: they wake each thread exactly once. *)
(* Barriers separate, and a team outlives its use.  On the invariant of    *)
(* the region, whose barriers keep the threads apart, rest the proofs      *)
(* about the data in it: singles, copyprivates and threadprivate copies,   *)
(* for the work functions that the compiler emits.                         *)
(***************************************************************************)
EXTENDS ForkJoin, SyncClient, FiniteSetTheorems, TLAPS

(***************************************************************************)
(* What the steps of __pmp_thread_wait and __pmp_thread_wake do, seen from *)
(* their callers: to the permits and the waits of the threads.  The lemmas *)
(* are about the actions alone and hold under every client that does not   *)
(* wake a thread with an unconsumed wake: the free one of SyncClient and   *)
(* the real one of ForkJoin.                                               *)
(*                                                                         *)
(* OneDelivery together with the types and NoLostWakeup is inductive: the  *)
(* invariant says where the one permit of a thread is at every moment.     *)
(***************************************************************************)
IInv == SyncTypeOK /\ OneDelivery /\ NoLostWakeup

Waits(t) == waitpc[t] # "out"
Wakes(t) == wakepc[t] # "out"

(***************************************************************************)
(* The four things a step can do to the permits and the waits.             *)
(***************************************************************************)
Silent ==
    \A u \in Thread : (HasPermit(u)' <=> HasPermit(u)) /\ (Waits(u)' <=> Waits(u))

Entered(t) ==
    \A u \in Thread : (HasPermit(u)' <=> HasPermit(u)) /\ (Waits(u)' <=> Waits(u) \/ u = t)

Given(t) ==
    \A u \in Thread : (HasPermit(u)' <=> HasPermit(u) \/ u = t) /\ (Waits(u)' <=> Waits(u))

Taken(t) ==
    /\ HasPermit(t) /\ Waits(t)
    /\ \A u \in Thread :
         (HasPermit(u)' <=> HasPermit(u) /\ u # t) /\ (Waits(u)' <=> Waits(u) /\ u # t)

\* Nobody but k starts to signal a sleeper.
WakersButFor(k) == \A u \in Thread \ {k} : Wakes(u)' => Wakes(u)
NoNewWaker == \A u \in Thread : Wakes(u)' => Wakes(u)
-----------------------------------------------------------------------------
\* __pmp_thread_init leaves every thread outside both functions, with an
\* idle sync field and no signal.
LEMMA InitIInv ==
    SyncInit => IInv /\ \A t \in Thread : ~HasPermit(t) /\ ~Waits(t) /\ ~Wakes(t)
<1>1. SyncInit => IInv
  BY DEF SyncInit, IInv, SyncTypeOK, OneDelivery, NoLostWakeup
<1>2. ASSUME SyncInit, NEW t \in Thread PROVE ~HasPermit(t) /\ ~Waits(t) /\ ~Wakes(t)
  <2>1. ~Waits(t) /\ \A k \in Thread : ~Wakes(k)
    BY <1>2 DEF SyncInit, Waits, Wakes
  <2>2. sync[t] = "IDLE" /\ sigpmp[t] = 0
    BY <1>2 DEF SyncInit
  <2> QED BY <2>1, <2>2 DEF HasPermit, BeingSignalled, Wakes
<1> QED BY <1>1, <1>2

\* The steps inside __pmp_thread_wait keep the permit in one place.
LEMMA WaitStep ==
  ASSUME IInv, NEW t \in Thread,
         WaitPass(t) \/ WaitBlock(t) \/ WaitReset(t) \/ WaitSignal(t)
  PROVE  IInv'
<1> USE DEF IInv, SyncTypeOK, OneDelivery, NoLostWakeup
<1>1. CASE WaitPass(t)
  BY <1>1 DEF WaitPass
<1>2. CASE WaitBlock(t)
  BY <1>2 DEF WaitBlock
<1>3. CASE WaitReset(t)
  BY <1>3 DEF WaitReset
<1>4. CASE WaitSignal(t)
  BY <1>4 DEF WaitSignal
<1> QED BY <1>1, <1>2, <1>3, <1>4

\* The steps inside __pmp_thread_wake after its cmpxchg hand the permit on.
LEMMA WakeStep ==
  ASSUME IInv, NEW k \in Thread, WakeIdle(k) \/ WakeKill(k)
  PROVE  IInv'
<1> USE DEF IInv, SyncTypeOK, OneDelivery, NoLostWakeup
<1>1. CASE WakeIdle(k)
  BY <1>1 DEF WakeIdle
<1>2. CASE WakeKill(k)
  BY <1>2 DEF WakeKill
<1> QED BY <1>1, <1>2

\* Blocking, and the hand-over of the permit from the sync field to the
\* waker and to the signal, are invisible to the callers.
LEMMA InternalSilent ==
  ASSUME IInv, NEW t \in Thread,
         WaitPass(t) \/ WaitBlock(t) \/ WakeIdle(t) \/ WakeKill(t)
  PROVE  Silent
<1> USE DEF IInv, SyncTypeOK, OneDelivery
<1>1. \A u \in Thread : HasPermit(u)' <=> HasPermit(u)
  <2>1. CASE WaitPass(t) \/ WaitBlock(t)
    BY <2>1 DEF WaitPass, WaitBlock, HasPermit, BeingSignalled
  <2>2. CASE WakeIdle(t)
    BY <2>2 DEF WakeIdle, HasPermit, BeingSignalled
  <2>3. CASE WakeKill(t)
    BY <2>3 DEF WakeKill, HasPermit, BeingSignalled
  <2> QED BY <2>1, <2>2, <2>3
<1>2. \A u \in Thread : Waits(u)' <=> Waits(u)
  BY DEF WaitPass, WaitBlock, WakeIdle, WakeKill, Waits
<1> QED BY <1>1, <1>2 DEF Silent

\* A wait that returns takes the permit of its thread.
LEMMA ReturnTakes ==
  ASSUME IInv, NEW t \in Thread, WaitReset(t) \/ WaitSignal(t)
  PROVE  Taken(t)
<1> USE DEF IInv, SyncTypeOK, OneDelivery
<1>1. HasPermit(t) /\ Waits(t)
  BY DEF WaitReset, WaitSignal, HasPermit, Waits
<1>2. ~HasPermit(t)' /\ ~Waits(t)'
  BY DEF WaitReset, WaitSignal, HasPermit, BeingSignalled, Waits
<1>3. \A u \in Thread \ {t} : (HasPermit(u)' <=> HasPermit(u)) /\ (Waits(u)' <=> Waits(u))
  BY DEF WaitReset, WaitSignal, HasPermit, BeingSignalled, Waits
<1> QED BY <1>1, <1>2, <1>3 DEF Taken

\* A step inside the two functions is silent or ends a wait with a permit.
LEMMA SyncStepEffect ==
  ASSUME IInv, NEW t \in Thread, SyncStep(t)
  PROVE  IInv' /\ (Silent \/ Taken(t)) /\ NoNewWaker
<1>1. IInv'
  BY WaitStep, WakeStep DEF SyncStep
<1>2. Silent \/ Taken(t)
  BY InternalSilent, ReturnTakes DEF SyncStep
<1>3. NoNewWaker
  BY DEF SyncStep, WaitPass, WaitBlock, WaitReset, WaitSignal, WakeIdle, WakeKill,
         NoNewWaker, Wakes, IInv, SyncTypeOK
<1> QED BY <1>1, <1>2, <1>3

\* The call of __pmp_thread_wait.
LEMMA CallWaitEffect ==
  ASSUME IInv, NEW t \in Thread, ~Waits(t), ~Wakes(t), CallWait(t)
  PROVE  IInv' /\ Entered(t) /\ NoNewWaker
<1>1. IInv'
  BY DEF CallWait, Waits, Wakes, IInv, SyncTypeOK, OneDelivery, NoLostWakeup
<1>2. \A u \in Thread : HasPermit(u)' <=> HasPermit(u)
  BY DEF CallWait, HasPermit, BeingSignalled
<1>3. \A u \in Thread : (Waits(u)' <=> Waits(u) \/ u = t) /\ (Wakes(u)' <=> Wakes(u))
  BY DEF CallWait, Waits, Wakes, IInv, SyncTypeOK
<1> QED BY <1>1, <1>2, <1>3 DEF Entered, NoNewWaker

\* The call of __pmp_thread_wake, for a thread without an unconsumed wake.
LEMMA CallWakeEffect ==
  ASSUME IInv, NEW k \in Thread, NEW t \in Thread, ~Waits(k), ~Wakes(k), ~HasPermit(t),
         CallWake(k, t)
  PROVE  IInv' /\ Given(t) /\ WakersButFor(k)
<1>1. IInv'
  BY DEF CallWake, Waits, Wakes, HasPermit, BeingSignalled,
         IInv, SyncTypeOK, OneDelivery, NoLostWakeup
<1> USE DEF IInv, SyncTypeOK, OneDelivery
<1>2. HasPermit(t)'
  BY DEF CallWake, HasPermit, BeingSignalled
<1>3. \A u \in Thread \ {t} : HasPermit(u)' <=> HasPermit(u)
  BY DEF CallWake, Waits, Wakes, HasPermit, BeingSignalled
<1>4. (\A u \in Thread : Waits(u)' <=> Waits(u)) /\ WakersButFor(k)
  BY DEF CallWake, Waits, Wakes, WakersButFor
<1> QED BY <1>1, <1>2, <1>3, <1>4 DEF Given

\* A step that leaves the fields of wait and wake alone.
LEMMA ElsewhereEffect ==
  ASSUME IInv, UNCHANGED syncVars
  PROVE  IInv' /\ Silent /\ NoNewWaker
<1>1. IInv'
  BY DEF syncVars, IInv, SyncTypeOK, OneDelivery, NoLostWakeup
<1>2. Silent /\ NoNewWaker
  BY DEF syncVars, Silent, NoNewWaker, HasPermit, BeingSignalled, Waits, Wakes
<1> QED BY <1>1, <1>2
-----------------------------------------------------------------------------
(***************************************************************************)
(* Refinement: the four effects are the stutter, the Enter, the Give and   *)
(* the Take of the permit contract.                                        *)
(***************************************************************************)
\* Before the first call nobody waits and nobody has a permit.
LEMMA RefineInit == SyncInit => P!Init
  BY InitIInv DEF P!Init, Waits

\* A silent step is a stutter of the contract.
LEMMA RefineSilent == Silent => UNCHANGED P!vars
  BY DEF Silent, P!vars, Waits

\* What the other effects are in the contract.
LEMMA RefineEffect ==
  ASSUME NEW t \in Thread
  PROVE  /\ Entered(t) /\ ~Waits(t) => P!Enter(t)
         /\ Given(t) /\ ~HasPermit(t) => P!Give(t)
         /\ Taken(t) => P!Take(t)
<1> USE DEF Waits
<1>1. Entered(t) /\ ~Waits(t) => P!Enter(t)
  BY DEF Entered, P!Enter
<1>2. Given(t) /\ ~HasPermit(t) => P!Give(t)
  BY DEF Given, P!Give
<1>3. Taken(t) => P!Take(t)
  BY DEF Taken, P!Take
<1> QED BY <1>1, <1>2, <1>3
-----------------------------------------------------------------------------
(***************************************************************************)
(* The free client                                                         *)
(***************************************************************************)
\* The free client keeps its part of the contract: what its calls do.
LEMMA ClientEffect ==
  ASSUME IInv, [ClientNext]_syncVars
  PROVE  /\ IInv'
         /\ \/ Silent
            \/ \E t \in Thread : \/ Taken(t)
                                 \/ Entered(t) /\ ~Waits(t)
                                 \/ Given(t) /\ ~HasPermit(t)
<1>1. ASSUME NEW t \in Thread, SyncStep(t) PROVE IInv' /\ (Silent \/ Taken(t))
  BY <1>1, SyncStepEffect
<1>2. ASSUME NEW t \in Thread, ClientWait(t) PROVE IInv' /\ Entered(t) /\ ~Waits(t)
  BY <1>2, CallWaitEffect DEF ClientWait, Running, Waits, Wakes
<1>3. ASSUME NEW k \in Thread, NEW t \in Thread, ClientWake(k, t)
      PROVE  IInv' /\ Given(t) /\ ~HasPermit(t)
  BY <1>3, CallWakeEffect DEF ClientWake, Running, Waits, Wakes
<1>4. CASE UNCHANGED syncVars
  BY <1>4, ElsewhereEffect
<1> QED BY <1>1, <1>2, <1>3, <1>4 DEF ClientNext

\* In every behaviour of wait and wake with a client that does not give a
\* permit twice, the invariant holds.
THEOREM SyncInvariant == SafeClientSpec => []IInv
<1>1. SyncInit => IInv
  BY InitIInv
<1>2. IInv /\ [ClientNext]_syncVars => IInv'
  BY ClientEffect
<1> QED BY <1>1, <1>2, PTL DEF SafeClientSpec

\* The fields that __pmp_thread_wait and __pmp_thread_wake share keep their
\* types; no wait takes a signal that has not been sent.
THEOREM SyncTypesHold == SafeClientSpec => []SyncTypeOK
<1>1. IInv => SyncTypeOK
  BY DEF IInv
<1> QED BY <1>1, SyncInvariant, PTL

\* A thread in sigwait whose sync field was reset by a waker has its signal
\* pending or on its way.
THEOREM NoLostWakeupHolds == SafeClientSpec => []NoLostWakeup
<1>1. IInv => NoLostWakeup
  BY DEF IInv
<1> QED BY <1>1, SyncInvariant, PTL

\* A wake is delivered in exactly one form and to exactly one wait.
THEOREM OneDeliveryHolds == SafeClientSpec => []OneDelivery
<1>1. IInv => OneDelivery
  BY DEF IInv
<1> QED BY <1>1, SyncInvariant, PTL

\* The wait/wake code implements the safety part of the permit contract:
\* every step is an Enter, a Give, a Take or a stutter of it.
THEOREM SyncRefinesPermit == SafeClientSpec => P!SafeSpec
<1>1. SyncInit => P!Init
  BY RefineInit
<1>2. IInv /\ [ClientNext]_syncVars => [P!Next]_P!vars
  <2> SUFFICES ASSUME IInv, [ClientNext]_syncVars PROVE [P!Next]_P!vars
    OBVIOUS
  <2>1. CASE Silent
    BY <2>1, RefineSilent
  <2>2. ASSUME NEW t \in Thread, \/ Taken(t)
                                 \/ Entered(t) /\ ~Waits(t)
                                 \/ Given(t) /\ ~HasPermit(t)
        PROVE  P!Next
    BY <2>2, RefineEffect DEF P!Next
  <2> QED BY <2>1, <2>2, ClientEffect
<1> QED BY <1>1, <1>2, SyncInvariant, PTL DEF SafeClientSpec, P!SafeSpec
-----------------------------------------------------------------------------
(***************************************************************************)
(* Types                                                                   *)
(***************************************************************************)
Label == {"serial", "assign", "work", "join", "release", "created", "run", "joinwake",
          "idle", "reset", "wakeall", "install", "fill"}

Call == {"barrier", "single", "publish", "copy", "nested", "thdprv", "copyin", "assign"}

TeamRecord == [team_size : Nat, working_threads : Int, barrier_count : Int,
               single_count : Nat, copyprivate_src : [thread : Thread, at : Nat],
               members : Seq(Thread)]

Types ==
    /\ pc \in [Thread -> Label]
    /\ at \in [Thread -> Nat]
    /\ next \in [Thread -> Nat]
    /\ local_id \in [Thread -> Int]
    /\ inTeam \in [Thread -> BOOLEAN]
    /\ single_count \in [Thread -> Nat]
    /\ lock \in [Thread -> BOOLEAN]
    /\ idstack \in Seq(Workers)
    /\ team \in TeamRecord
    /\ work \in Seq(Call)
    /\ program \in Programs /\ work \in program \cup {<<>>}
    /\ joined \subseteq Workers

(***************************************************************************)
(* The team: its size, its members and their local ids, and the free ids.  *)
(***************************************************************************)
Size == team.team_size

Shape ==
    /\ local_id[main] = 0
    /\ \A i, j \in DOMAIN idstack : idstack[i] = idstack[j] => i = j
    /\ pc[main] = "serial" => Size = 0 /\ Len(idstack) = NumThreads - 1
    /\ pc[main] # "serial" =>
         /\ Size \in 1 .. NumThreads /\ Len(team.members) = Size
         /\ Len(idstack) + Size = NumThreads
         /\ Member(0) = main
         /\ \A i \in 1 .. Size - 1 : Member(i) # main
         /\ \A i \in 0 .. Size - 1 : local_id[Member(i)] = i /\ inTeam[Member(i)]
         /\ \A i \in DOMAIN idstack : idstack[i] \notin Members

(***************************************************************************)
(* Where a thread can be: the places of the master and of the workers, in  *)
(* which of them a thread waits, wakes another one or has a wake that it   *)
(* has not consumed, and its position in the work function.                *)
(***************************************************************************)
IsBarrier(b) == b \in DOMAIN work /\ work[b] = "barrier"

Places(t) ==
    /\ t = main => pc[t] \in {"serial", "assign", "join", "release"} \cup InWork
    /\ t # main => pc[t] \in {"created", "run", "idle", "joinwake"} \cup InWork
    /\ Waits(t) => pc[t] \in {"run", "work", "release"} /\ ~Wakes(t)
    /\ Wakes(t) => pc[t] \in {"assign", "wakeall", "idle"}
    /\ HasPermit(t) => Waits(t) \/ pc[t] \in {"created", "idle"}
    /\ pc[t] = "assign" => next[t] \in 1 .. Size
    /\ pc[t] = "wakeall" => next[t] \in 0 .. Size
    /\ pc[t] \notin {"assign", "wakeall"} => next[t] = 0
    /\ pc[t] \in InWork => at[t] \in 1 .. Len(work) + 1
    /\ pc[t] \in {"install", "fill"} => at[t] \in DOMAIN work /\ work[at[t]] = "thdprv"

(***************************************************************************)
(* A worker outside the team, one that the master has still to wake, and   *)
(* one that has joined are off and have no wake; a worker that the master  *)
(* has woken and that is off still has the wake.                           *)
(***************************************************************************)
Off(t) == pc[t] \in {"created", "idle"} \/ (pc[t] = "run" /\ Waits(t))

Unwoken(t) == pc[main] = "assign" /\ local_id[t] >= next[main]

WorkerAt(t) ==
    /\ t \notin Members => Off(t) /\ ~HasPermit(t)
    /\ t \in Members /\ t \in joined =>
         (Off(t) \/ pc[t] = "joinwake") /\ ~HasPermit(t) /\ ~Unwoken(t)
    /\ t \in Members /\ t \notin joined /\ Unwoken(t) => Off(t) /\ ~HasPermit(t)
    /\ t \in Members /\ t \notin joined /\ ~Unwoken(t) =>
         (IF Off(t) THEN HasPermit(t) ELSE pc[t] # "joinwake")

(***************************************************************************)
(* The join: working_threads counts the master, until it has counted       *)
(* itself out, and the workers that have not joined.  A worker wakes the   *)
(* master only when it is the last one and the master waits for it.        *)
(***************************************************************************)
Remaining == (Members \ {main}) \ joined

JoinCount ==
    /\ pc[main] \notin {"serial", "release"} =>
         team.working_threads = 1 + Cardinality(Remaining)
    /\ pc[main] = "release" => team.working_threads = Cardinality(Remaining)

JoinWoken == pc[main] = "release" /\ (~Waits(main) \/ HasPermit(main)) => Remaining = {}

JoinWaker ==
    \A t \in Workers : pc[t] = "joinwake" =>
        /\ pc[main] = "release" /\ Waits(main) /\ ~HasPermit(main) /\ Remaining = {}
        /\ \A u \in Workers : pc[u] = "joinwake" => u = t

(***************************************************************************)
(* The barrier.  A thread that is in the barrier's wait is counted until   *)
(* the last one to arrive has taken over; then it is pending until it is   *)
(* woken.  Called and Released say that a thread has counted itself at the *)
(* barrier b, and that it has been let go.                                 *)
(***************************************************************************)
Waking(k) == pc[k] \in {"reset", "wakeall"}

PendingBy(k, t) ==
    t # k /\ (pc[k] = "reset" \/ (pc[k] = "wakeall" /\ local_id[t] >= next[k]))

AtBarrier(t) == pc[t] = "work" /\ Waits(t)

Counted(t) == AtBarrier(t) /\ ~HasPermit(t) /\ \A k \in Members : ~PendingBy(k, t)

Uncounted == {t \in Members : ~Counted(t)}

Called(t, b) ==
    \/ t \in joined
    \/ pc[t] \in {"join", "release"}
    \/ pc[t] \in InWork /\ (at[t] > b \/ (at[t] = b /\ Waking(t)))

Released(t, b) ==
    \/ t \in joined
    \/ pc[t] \in {"join", "release"}
    \/ pc[t] \in InWork /\ \/ at[t] > b + 1
                           \/ at[t] = b + 1 /\ ~Counted(t)
                           \/ at[t] = b /\ Waking(t)

\* One thread at a time lets the others go.
OneWaker ==
    \A k \in Members : Waking(k) => IsBarrier(at[k]) /\ \A l \in Members : Waking(l) => l = k

\* Whom it has still to wake waits in the same barrier and has no wake.
PendingWaits ==
    \A k, t \in Members : PendingBy(k, t) => AtBarrier(t) /\ ~HasPermit(t) /\ at[t] = at[k] + 1

WaitsAtBarrier == \A t \in Members : AtBarrier(t) => IsBarrier(at[t] - 1)

\* barrier_count is the number of threads that have still to arrive.
BarrierCount ==
    pc[main] # "serial" =>
        team.barrier_count = IF \E k \in Members : pc[k] = "reset" THEN 0
                                                     ELSE Cardinality(Uncounted)

\* Nobody is let go before everybody has called.
ReleasedCalled ==
    \A t, u \in Members : \A b \in DOMAIN work :
        IsBarrier(b) /\ Released(t, b) => Called(u, b)

\* While a thread is counted nobody has been let go from its barrier.
CountedHolds ==
    \A c, t \in Members : \A b \in DOMAIN work :
        Counted(c) /\ at[c] = b + 1 => ~Released(t, b)

BarrierInv == /\ OneWaker
              /\ PendingWaits
              /\ WaitsAtBarrier
              /\ BarrierCount
              /\ ReleasedCalled
              /\ CountedHolds

\* The inductive invariant of a region.
RegionInv == /\ Types
             /\ IInv
             /\ Shape
             /\ \A t \in Thread : Places(t)
             /\ \A t \in Workers : WorkerAt(t)
             /\ JoinCount /\ JoinWoken /\ JoinWaker
             /\ BarrierInv
-----------------------------------------------------------------------------
(***************************************************************************)
(* What the steps do, apart from fork and release: t goes to the label l,  *)
(* the position a and the loop index n, and the team stays as it is.       *)
(***************************************************************************)
SameTeam ==
    /\ UNCHANGED <<local_id, inTeam, idstack, work, program>>
    /\ team'.team_size = team.team_size
    /\ team'.members = team.members

Moves(t, l, a, n) ==
    /\ pc' = [pc EXCEPT ![t] = l]
    /\ at' = [at EXCEPT ![t] = a]
    /\ next' = [next EXCEPT ![t] = n]

Counters(w, b) == team'.working_threads = w /\ team'.barrier_count = b

\* A step that touches neither the counters nor the set of joined workers.
CountersKept ==
    Counters(team.working_threads, team.barrier_count) /\ joined' = joined

Step(t, l, a, n) == Types' /\ IInv' /\ SameTeam /\ Moves(t, l, a, n)

LEMMA ThreadFacts ==
    /\ main \in Thread /\ Workers \subseteq Thread
    /\ NumThreads \in Nat /\ NumThreads > 0
    /\ \A t \in Thread : t \in Int
    /\ \A p \in Programs : p \subseteq Seq(Call)
BY ForkJoinAssumption DEF main, Workers, Call

\* The updates of the team's record.
LEMMA UpdateWorking ==
    ASSUME NEW r \in TeamRecord, NEW c \in Int
    PROVE  LET s == [r EXCEPT !.working_threads = c]
           IN  /\ s \in TeamRecord /\ s.team_size = r.team_size /\ s.members = r.members
               /\ s.working_threads = c /\ s.barrier_count = r.barrier_count
BY DEF TeamRecord

LEMMA UpdateBarrier ==
    ASSUME NEW r \in TeamRecord, NEW c \in Int
    PROVE  LET s == [r EXCEPT !.barrier_count = c]
           IN  /\ s \in TeamRecord /\ s.team_size = r.team_size /\ s.members = r.members
               /\ s.working_threads = r.working_threads /\ s.barrier_count = c
BY DEF TeamRecord

LEMMA UpdateSingle ==
    ASSUME NEW r \in TeamRecord, NEW c \in Nat
    PROVE  LET s == [r EXCEPT !.single_count = c]
           IN  /\ s \in TeamRecord /\ s.team_size = r.team_size /\ s.members = r.members
               /\ s.working_threads = r.working_threads /\ s.barrier_count = r.barrier_count
BY DEF TeamRecord

LEMMA UpdateSource ==
    ASSUME NEW r \in TeamRecord, NEW c \in [thread : Thread, at : Nat]
    PROVE  LET s == [r EXCEPT !.copyprivate_src = c]
           IN  /\ s \in TeamRecord /\ s.team_size = r.team_size /\ s.members = r.members
               /\ s.working_threads = r.working_threads /\ s.barrier_count = r.barrier_count
BY DEF TeamRecord

LEMMA UpdateSize ==
    ASSUME NEW r \in TeamRecord, NEW c \in Nat
    PROVE  LET s == [r EXCEPT !.team_size = c]
           IN  /\ s \in TeamRecord /\ s.team_size = c /\ s.members = r.members
               /\ s.working_threads = r.working_threads /\ s.barrier_count = r.barrier_count
BY DEF TeamRecord

LEMMA TeamFields ==
    ASSUME NEW r \in TeamRecord
    PROVE  /\ r.team_size \in Nat /\ r.working_threads \in Int /\ r.barrier_count \in Int
           /\ r.single_count \in Nat /\ r.members \in Seq(Thread)
BY DEF TeamRecord

\* A step inside __pmp_thread_wait or __pmp_thread_wake.
LEMMA WaitWakeEffect ==
    ASSUME RegionInv, NEW t \in Thread, WaitWakeStep(t)
    PROVE  /\ Step(t, pc[t], at[t], next[t]) /\ CountersKept
           /\ (Silent \/ Taken(t)) /\ NoNewWaker
<1>1. IInv' /\ (Silent \/ Taken(t)) /\ NoNewWaker
    BY SyncStepEffect DEF RegionInv, WaitWakeStep
<1>2. UNCHANGED <<threadVars, teamVars>>
    BY DEF WaitWakeStep
<1>3. Types' /\ SameTeam /\ CountersKept
    BY <1>2 DEF RegionInv, Types, SameTeam, CountersKept, Counters, threadVars, teamVars, historyVars
<1>4. Moves(t, pc[t], at[t], next[t])
    BY <1>2 DEF RegionInv, Types, Moves, threadVars
<1> QED
    BY <1>1, <1>3, <1>4 DEF Step

\* A call that neither waits nor wakes, or a step within it: t goes on in its
\* work function, and not past a barrier.
LocalMove(t, l, a) ==
    /\ pc[t] \in {"work", "install", "fill"} /\ ~Waits(t) /\ ~Wakes(t)
    /\ l \in {"work", "install", "fill"}
    /\ at[t] \in DOMAIN work
    /\ a \in {at[t], at[t] + 1}
    /\ a = at[t] + 1 => ~IsBarrier(at[t])
    /\ l \in {"install", "fill"} => a = at[t] /\ work[a] = "thdprv"

LocalStep(t) ==
    \/ Single(t) \/ Publish(t) \/ Copy(t) \/ Nested(t) \/ GetThdprv(t)
    \/ InstallThdprv(t) \/ FillThdprv(t) \/ Assign(t) \/ CopyinThdprv(t)

LEMMA LocalEffect ==
    ASSUME RegionInv, NEW t \in Thread, LocalStep(t)
    PROVE  \E l, a : /\ LocalMove(t, l, a) /\ Step(t, l, a, next[t]) /\ CountersKept
                     /\ Silent /\ NoNewWaker
<1>0. /\ Types /\ Places(t) /\ IInv
      /\ single_count \in [Thread -> Nat] /\ lock \in [Thread -> BOOLEAN]
    BY DEF RegionInv, Types
<1>1. UNCHANGED syncVars
    BY DEF LocalStep, Single, Publish, Copy, Nested, GetThdprv, InstallThdprv, FillThdprv,
           Assign, CopyinThdprv, Store, UnchangedButThdprv
<1>2. IInv' /\ Silent /\ NoNewWaker
    BY <1>0, <1>1, ElsewhereEffect
<1>3. /\ UNCHANGED <<local_id, inTeam, idstack, work, program, next, joined>>
      /\ Single(t) \/ Publish(t) \/ UNCHANGED team
    BY DEF LocalStep, Single, Publish, Copy, Nested, GetThdprv, InstallThdprv, FillThdprv,
           Assign, CopyinThdprv, Store, UnchangedButThdprv, teamVars, historyVars
<1>4. team' \in TeamRecord /\ SameTeam /\ CountersKept
  <2>1. CASE Single(t)
    <3>1. team' = team \/ team' = [team EXCEPT !.single_count = team.single_count + 1]
        BY <2>1 DEF Single
    <3>2. team \in TeamRecord /\ team.single_count + 1 \in Nat
        BY <1>0, TeamFields DEF Types
    <3> QED
        BY <1>3, <3>1, <3>2, UpdateSingle DEF SameTeam, CountersKept, Counters
  <2>2. CASE Publish(t)
    <3> DEFINE src == [thread |-> t, at |-> at[t]]
    <3>1. team' = team \/ team' = [team EXCEPT !.copyprivate_src = src]
        BY <2>2 DEF Publish
    <3>2. team \in TeamRecord /\ src \in [thread : Thread, at : Nat]
        BY <1>0 DEF Types
    <3> HIDE DEF src
    <3> QED
        BY <1>3, <3>1, <3>2, UpdateSource DEF SameTeam, CountersKept, Counters
  <2>3. CASE UNCHANGED team
    BY <1>0, <1>3, <2>3 DEF Types, SameTeam, CountersKept, Counters
  <2> QED
    BY <1>3, <2>1, <2>2, <2>3
<1>5. single_count' \in [Thread -> Nat] /\ lock' \in [Thread -> BOOLEAN]
  <2>1. CASE Single(t)
    <3>1. \E win \in BOOLEAN : lock' = [lock EXCEPT ![t] = win]
        BY <2>1 DEF Single
    <3>2. \/ single_count' = single_count
          \/ single_count' = [single_count EXCEPT ![t] = single_count[t] + 1]
        BY <2>1 DEF Single
    <3>3. lock' \in [Thread -> BOOLEAN]
        BY <1>0, <3>1 DEF Types
    <3>4. single_count' \in [Thread -> Nat]
        BY <1>0, <3>2
    <3> QED
        BY <3>3, <3>4
  <2>2. CASE ~Single(t)
    <3>1. lock' = lock /\ \/ single_count' = single_count
                          \/ single_count' = [single_count EXCEPT ![t] = 0]
        BY <2>2 DEF LocalStep, Publish, Copy, Nested, GetThdprv, InstallThdprv,
           FillThdprv, Assign, CopyinThdprv, Store, UnchangedButThdprv
    <3> QED
        BY <1>0, <3>1
  <2> QED
    BY <2>1, <2>2
<1>6. \E l, a : /\ LocalMove(t, l, a)
                /\ pc' = [pc EXCEPT ![t] = l] /\ at' = [at EXCEPT ![t] = a]
  <2>1. ASSUME NEW c \in Call \ {"barrier"}, Calls(t, c), Return(t), UNCHANGED pc
        PROVE  /\ LocalMove(t, "work", at[t] + 1)
               /\ pc' = [pc EXCEPT ![t] = "work"] /\ at' = [at EXCEPT ![t] = at[t] + 1]
    BY <1>0, <2>1 DEF LocalMove, IsBarrier, Calls, Running, Waits, Wakes, Return, Types, Call
  <2>2. CASE Single(t) \/ Publish(t) \/ Copy(t) \/ Nested(t) \/ Assign(t) \/ CopyinThdprv(t)
    <3>1. \E c \in Call \ {"barrier"} : Calls(t, c)
        BY <2>2 DEF Single, Publish, Copy, Nested, Assign, CopyinThdprv, Call
    <3>2. Return(t) /\ UNCHANGED pc
        BY <2>2 DEF Single, Publish, Copy, Nested, Assign, CopyinThdprv, Store
    <3> QED
        BY <2>1, <3>1, <3>2
  <2>3. CASE GetThdprv(t) /\ CopyOf(t) # NULL
    BY <2>1, <2>3 DEF GetThdprv, Call
  <2>4. CASE GetThdprv(t) /\ ~(CopyOf(t) # NULL)
    <3>1. PICK l \in {"install", "fill"} : pc' = [pc EXCEPT ![t] = l] /\ UNCHANGED at
        BY <2>4 DEF GetThdprv, Goto
    <3>2. LocalMove(t, l, at[t])
        BY <1>0, <2>4 DEF GetThdprv, Calls, LocalMove, Types, Running, Waits, Wakes
    <3> QED
        BY <1>0, <3>1, <3>2 DEF Types
  <2>5. CASE InstallThdprv(t)
    <3>1. LocalMove(t, "fill", at[t])
        BY <1>0, <2>5 DEF InstallThdprv, LocalMove, Types, Places
    <3> QED
        BY <1>0, <2>5, <3>1 DEF Types, InstallThdprv, Goto
  <2>6. CASE FillThdprv(t)
    <3>1. LocalMove(t, "work", at[t] + 1)
        BY <1>0, <2>6 DEF FillThdprv, LocalMove, IsBarrier, Types, Places
    <3> QED
        BY <1>0, <2>6, <3>1 DEF Types, FillThdprv, Goto, Return
  <2> QED
    BY <2>2, <2>3, <2>4, <2>5, <2>6 DEF LocalStep
<1>7. PICK l, a : /\ LocalMove(t, l, a)
                  /\ pc' = [pc EXCEPT ![t] = l] /\ at' = [at EXCEPT ![t] = a]
    BY <1>6
<1>8. Moves(t, l, a, next[t])
    BY <1>0, <1>3, <1>7 DEF Moves, Types
<1>9. Types'
  <2>1. l \in Label /\ a \in Nat
    BY <1>0, <1>7 DEF LocalMove, Types, Label
  <2>2. pc' \in [Thread -> Label] /\ at' \in [Thread -> Nat]
    BY <1>0, <1>7, <2>1 DEF Types
  <2> QED
    BY <1>0, <1>3, <1>4, <1>5, <2>2 DEF Types
<1> QED
    BY <1>2, <1>4, <1>7, <1>8, <1>9 DEF Step

-----------------------------------------------------------------------------
(***************************************************************************)
(* The members of the team                                                 *)
(***************************************************************************)
LEMMA MemberFacts ==
    ASSUME Types, Shape
    PROVE  /\ \A u \in Members : /\ u \in Thread /\ pc[main] # "serial"
                                 /\ local_id[u] \in 0 .. Size - 1 /\ Member(local_id[u]) = u
                                 /\ inTeam[u]
           /\ \A i \in 0 .. Size - 1 : Member(i) \in Members /\ local_id[Member(i)] = i
           /\ pc[main] # "serial" => main \in Members
           /\ Size \in Nat /\ team.members \in Seq(Thread)
<1>1. Size \in Nat /\ team.members \in Seq(Thread)
    BY TeamFields DEF Types, Size
<1>2. CASE pc[main] = "serial"
  <2>1. Members = {}
    BY <1>2 DEF Shape, Members, Size
  <2> QED
    BY <1>1, <1>2, <2>1 DEF Shape
<1>3. CASE pc[main] # "serial"
  <2>1. Size \in 1 .. NumThreads /\ Len(team.members) = Size
    BY <1>3 DEF Shape
  <2>2. \A i \in 0 .. Size - 1 : Member(i) \in Thread /\ i + 1 \in 1 .. Len(team.members)
    BY <1>1, <2>1, ThreadFacts DEF Member
  <2>3. \A i \in 0 .. Size - 1 : local_id[Member(i)] = i /\ inTeam[Member(i)]
    BY <1>3 DEF Shape
  <2>4. 0 \in 0 .. Size - 1 /\ Member(0) = main
    BY <1>1, <1>3, <2>1 DEF Shape
  <2>5. Members = {Member(i) : i \in 0 .. Size - 1}
    BY DEF Members, Size
  <2> HIDE DEF Member, Members, Size
  <2> QED
    BY <1>1, <1>3, <2>2, <2>3, <2>4, <2>5
<1> QED
    BY <1>2, <1>3

\* The team has as many members as its size says.
LEMMA MembersFinite ==
    ASSUME Types, Shape
    PROVE  IsFiniteSet(Members) /\ Cardinality(Members) = Size
<1>1. Size \in Nat
    BY MemberFacts
<1> DEFINE f == [i \in 0 .. Size - 1 |-> Member(i)]
<1>2. f \in Bijection(0 .. Size - 1, Members)
  <2>1. f \in [0 .. Size - 1 -> Members]
    BY MemberFacts
  <2>2. \A i, j \in 0 .. Size - 1 : f[i] = f[j] => i = j
    BY MemberFacts
  <2>3. \A u \in Members : \E i \in 0 .. Size - 1 : f[i] = u
    BY MemberFacts
  <2> HIDE DEF f
  <2> QED
    BY <2>1, <2>2, <2>3 DEF Bijection, Injection, IsInjective, Surjection
<1>3. IsFiniteSet(0 .. Size - 1) /\ Cardinality(0 .. Size - 1) = Size
    BY <1>1, FS_Interval
<1>4. ExistsBijection(0 .. Size - 1, Members)
    BY <1>2, Zenon DEF ExistsBijection
<1> QED
    BY <1>3, <1>4, FS_Bijection

\* Whoever runs a work function, or is about to, or wakes the master at the
\* end of it, is a member of the team.
LEMMA WorksAsMember ==
    ASSUME RegionInv, NEW u \in Thread,
           pc[u] \in InWork \cup {"joinwake", "join", "release", "assign"}
           \/ (pc[u] = "run" /\ ~Waits(u))
    PROVE  u \in Members /\ pc[main] # "serial"
<1>1. Types /\ Shape /\ Places(u)
    BY DEF RegionInv
<1>2. CASE u = main
    BY <1>1, <1>2, MemberFacts DEF Places, InWork
<1>3. CASE u # main
  <2>1. WorkerAt(u)
    BY <1>3 DEF RegionInv, Workers
  <2>2. ~Off(u)
    BY <1>1, <1>3 DEF Off, Places, InWork
  <2>3. u \in Members
    BY <2>1, <2>2 DEF WorkerAt
  <2> QED
    BY <1>1, <2>3, MemberFacts
<1> QED
    BY <1>2, <1>3

LEMMA SameMembers ==
    ASSUME SameTeam
    PROVE  /\ Members' = Members /\ Size' = Size
           /\ \A i \in Int : Member(i)' = Member(i)
BY DEF SameTeam, Members, Member, Size

-----------------------------------------------------------------------------
(***************************************************************************)
(* The steps of the barrier                                                *)
(***************************************************************************)
\* t calls the barrier at its position.
AtCall(t) == pc[t] = "work" /\ ~Waits(t) /\ ~Wakes(t) /\ IsBarrier(at[t])

LEMMA ArriveEffect ==
    ASSUME RegionInv, NEW t \in Thread, BarrierArrive(t)
    PROVE  /\ AtCall(t) /\ joined' = joined /\ NoNewWaker
           /\ IF Size = 1 THEN Step(t, "work", at[t] + 1, next[t]) /\ CountersKept /\ Silent
              ELSE /\ Counters(team.working_threads, team.barrier_count - 1)
                   /\ IF team.barrier_count > 1
                        THEN Step(t, "work", at[t] + 1, next[t]) /\ Entered(t)
                        ELSE Step(t, "reset", at[t], next[t]) /\ Silent
<1>1. Types /\ IInv
    BY DEF RegionInv
<1>2. AtCall(t)
    BY DEF BarrierArrive, Calls, AtCall, Running, Waits, Wakes, IsBarrier
<1>3. UNCHANGED <<local_id, inTeam, single_count, lock, idstack, work, program, joined, next>>
    BY DEF BarrierArrive, historyVars
<1>4. team' = IF Size = 1 THEN team
              ELSE [team EXCEPT !.barrier_count = team.barrier_count - 1]
    BY DEF BarrierArrive, Size
<1>5. team \in TeamRecord /\ team.barrier_count - 1 \in Int
    BY <1>1, TeamFields DEF Types
<1>6. /\ team' \in TeamRecord /\ SameTeam
      /\ Counters(team.working_threads, IF Size = 1 THEN team.barrier_count
                                        ELSE team.barrier_count - 1)
    BY <1>3, <1>4, <1>5, UpdateBarrier DEF SameTeam, Counters
<1>7. ASSUME NEW l \in Label, NEW a \in Nat,
             pc' = [pc EXCEPT ![t] = l], at' = [at EXCEPT ![t] = a]
      PROVE  Types' /\ Moves(t, l, a, next[t])
    BY <1>1, <1>3, <1>6, <1>7 DEF Types, Moves
<1>8. CASE Size = 1 \/ team.barrier_count > 1
  <2>1. pc' = [pc EXCEPT ![t] = "work"] /\ at' = [at EXCEPT ![t] = at[t] + 1]
    BY <1>1, <1>2, <1>8 DEF BarrierArrive, Return, Types, Size, AtCall
  <2>2. Types' /\ Moves(t, "work", at[t] + 1, next[t])
    <3>1. "work" \in Label /\ at[t] + 1 \in Nat
        BY <1>1 DEF Types, Label
    <3> QED
        BY <1>7, <2>1, <3>1
  <2>3. CASE Size = 1
    <3>1. UNCHANGED syncVars
        BY <2>3 DEF BarrierArrive, Size
    <3>2. IInv' /\ Silent /\ NoNewWaker
        BY <1>1, <3>1, ElsewhereEffect
    <3> QED
        BY <1>2, <1>3, <1>6, <2>2, <2>3, <3>2 DEF Step, CountersKept
  <2>4. CASE Size # 1
    <3>1. CallWait(t)
        BY <1>8, <2>4 DEF BarrierArrive, Size
    <3>2. IInv' /\ Entered(t) /\ NoNewWaker
        BY <1>1, <1>2, <3>1, CallWaitEffect DEF AtCall
    <3> QED
        BY <1>2, <1>3, <1>6, <1>8, <2>2, <2>4, <3>2 DEF Step
  <2> QED
    BY <2>3, <2>4
<1>9. CASE ~(Size = 1 \/ team.barrier_count > 1)
  <2>1. pc' = [pc EXCEPT ![t] = "reset"] /\ at' = [at EXCEPT ![t] = at[t]] /\ UNCHANGED syncVars
    BY <1>1, <1>9 DEF BarrierArrive, Goto, Types, Size
  <2>2. Types' /\ Moves(t, "reset", at[t], next[t])
    BY <1>1, <1>7, <2>1 DEF Types, Label
  <2>3. IInv' /\ Silent /\ NoNewWaker
    BY <1>1, <2>1, ElsewhereEffect
  <2> QED
    BY <1>2, <1>3, <1>6, <1>9, <2>2, <2>3 DEF Step
<1> QED
    BY <1>8, <1>9

LEMMA ResetEffect ==
    ASSUME RegionInv, NEW t \in Thread, BarrierReset(t)
    PROVE  /\ pc[t] = "reset" /\ joined' = joined /\ NoNewWaker /\ Silent
           /\ Counters(team.working_threads, Size)
           /\ Step(t, "wakeall", at[t], next[t])
<1>1. Types /\ IInv
    BY DEF RegionInv
<1>2. /\ UNCHANGED <<syncVars, at, next, local_id, inTeam, single_count, lock, idstack, work,
                     program, joined>>
      /\ pc[t] = "reset" /\ pc' = [pc EXCEPT ![t] = "wakeall"]
      /\ team' = [team EXCEPT !.barrier_count = Size]
    BY DEF BarrierReset, Rearm, Goto, historyVars, Size
<1>3. IInv' /\ Silent /\ NoNewWaker
    BY <1>1, <1>2, ElsewhereEffect
<1>4. team \in TeamRecord /\ Size \in Int
    BY <1>1, TeamFields DEF Types, Size
<1>5. team' \in TeamRecord /\ SameTeam /\ Counters(team.working_threads, Size)
    BY <1>2, <1>4, UpdateBarrier DEF SameTeam, Counters
<1>6. Types' /\ Moves(t, "wakeall", at[t], next[t])
    BY <1>1, <1>2, <1>5 DEF Types, Moves, Label
<1> QED
    BY <1>2, <1>3, <1>5, <1>6 DEF Step

\* Whom the last to arrive wakes has no unconsumed wake.
LEMMA BarrierWakeTarget ==
    ASSUME RegionInv, NEW t \in Thread, pc[t] = "wakeall", next[t] < Size,
           next[t] # local_id[t]
    PROVE  /\ Member(next[t]) \in Members \ {t} /\ PendingBy(t, Member(next[t]))
           /\ local_id[Member(next[t])] = next[t] /\ ~HasPermit(Member(next[t]))
<1>1. Types /\ Shape /\ Places(t) /\ PendingWaits
    BY DEF RegionInv, BarrierInv
<1>2. next[t] \in 0 .. Size - 1
    BY <1>1, MemberFacts DEF Places
<1>3. Member(next[t]) \in Members /\ local_id[Member(next[t])] = next[t]
    BY <1>1, <1>2, MemberFacts
<1>4. t \in Members
    BY WorksAsMember DEF InWork
<1>5. PICK u \in Members : u = Member(next[t])
    BY <1>3
<1>6. u # t /\ PendingBy(t, u)
    BY <1>2, <1>3, <1>5 DEF PendingBy
<1>7. ~HasPermit(u)
    BY <1>1, <1>4, <1>6 DEF PendingWaits
<1> QED
    BY <1>3, <1>5, <1>6, <1>7

LEMMA BarrierWakeEffect ==
    ASSUME RegionInv, NEW t \in Thread, BarrierWake(t)
    PROVE  /\ pc[t] = "wakeall" /\ ~Waits(t) /\ ~Wakes(t) /\ next[t] < Size
           /\ Step(t, "wakeall", at[t], next[t] + 1) /\ CountersKept /\ WakersButFor(t)
           /\ IF next[t] = local_id[t] THEN Silent
              ELSE \E u \in Members \ {t} : /\ local_id[u] = next[t] /\ PendingBy(t, u)
                                            /\ Given(u) /\ ~HasPermit(u)
<1>1. Types /\ IInv /\ Shape
    BY DEF RegionInv
<1>2. /\ UNCHANGED <<pc, at, local_id, inTeam, single_count, lock, idstack, work,
                     program, joined, team>>
      /\ pc[t] = "wakeall" /\ ~Waits(t) /\ ~Wakes(t) /\ next[t] < Size
      /\ next' = [next EXCEPT ![t] = next[t] + 1]
    BY DEF BarrierWake, teamVars, historyVars, Size, Running, Waits, Wakes
<1>3. /\ IInv' /\ WakersButFor(t)
      /\ IF next[t] = local_id[t] THEN Silent
         ELSE \E u \in Members \ {t} : /\ local_id[u] = next[t] /\ PendingBy(t, u)
                                       /\ Given(u) /\ ~HasPermit(u)
  <2>1. CASE next[t] = local_id[t]
    <3>1. UNCHANGED syncVars
        BY <2>1 DEF BarrierWake
    <3>2. IInv' /\ Silent /\ NoNewWaker
        BY <1>1, <3>1, ElsewhereEffect
    <3> QED
        BY <2>1, <3>2 DEF NoNewWaker, WakersButFor
  <2>2. CASE next[t] # local_id[t]
    <3>1. PICK u \in Members \ {t} : /\ u = Member(next[t]) /\ local_id[u] = next[t]
                                     /\ PendingBy(t, u) /\ ~HasPermit(u)
        BY <1>2, <2>2, BarrierWakeTarget
    <3>2. CallWake(t, u) /\ u \in Thread
        BY <1>1, <2>2, <3>1, MemberFacts DEF BarrierWake
    <3>3. IInv' /\ Given(u) /\ WakersButFor(t)
        BY <1>1, <1>2, <3>1, <3>2, CallWakeEffect
    <3> QED
        BY <2>2, <3>1, <3>3
  <2> QED
    BY <2>1, <2>2
<1>4. SameTeam /\ CountersKept
    BY <1>2 DEF SameTeam, CountersKept, Counters
<1>5. Types' /\ Moves(t, "wakeall", at[t], next[t] + 1)
    BY <1>1, <1>2 DEF Types, Moves
<1> QED
    BY <1>2, <1>3, <1>4, <1>5 DEF Step

LEMMA LeaveEffect ==
    ASSUME RegionInv, NEW t \in Thread, BarrierLeave(t)
    PROVE  /\ pc[t] = "wakeall" /\ ~Waits(t) /\ ~Wakes(t) /\ next[t] = Size
           /\ Step(t, "work", at[t] + 1, 0) /\ CountersKept /\ Silent /\ NoNewWaker
<1>1. Types /\ IInv
    BY DEF RegionInv
<1>2. /\ UNCHANGED <<syncVars, local_id, inTeam, single_count, lock, idstack, work,
                     program, joined, team>>
      /\ pc[t] = "wakeall" /\ ~Waits(t) /\ ~Wakes(t) /\ next[t] = Size
      /\ pc' = [pc EXCEPT ![t] = "work"] /\ at' = [at EXCEPT ![t] = at[t] + 1]
      /\ next' = [next EXCEPT ![t] = 0]
    BY DEF BarrierLeave, Return, Goto, teamVars, historyVars, Size, Running, Waits, Wakes
<1>3. IInv' /\ Silent /\ NoNewWaker
    BY <1>1, <1>2, ElsewhereEffect
<1>4. SameTeam /\ CountersKept
    BY <1>2 DEF SameTeam, CountersKept, Counters
<1>5. Types' /\ Moves(t, "work", at[t] + 1, 0)
    BY <1>1, <1>2 DEF Types, Moves, Label
<1> QED
    BY <1>2, <1>3, <1>4, <1>5 DEF Step

-----------------------------------------------------------------------------
(***************************************************************************)
(* The steps of the master and the workers, apart from fork and release    *)
(***************************************************************************)
\* Whom the master wakes at the fork has no unconsumed wake.
LEMMA AssignTarget ==
    ASSUME RegionInv, pc[main] = "assign", next[main] < Size
    PROVE  /\ Member(next[main]) \in Members \ {main}
           /\ local_id[Member(next[main])] = next[main]
           /\ Member(next[main]) \notin joined
           /\ Off(Member(next[main])) /\ ~HasPermit(Member(next[main]))
<1>1. Types /\ Shape /\ Places(main) /\ main \in Thread
    BY ThreadFacts DEF RegionInv
<1>2. next[main] \in 1 .. Size - 1 /\ next[main] \in 0 .. Size - 1
    BY <1>1, MemberFacts DEF Places
<1>3. PICK u \in Members : u = Member(next[main]) /\ local_id[u] = next[main]
    BY <1>1, <1>2, MemberFacts
<1>4. u # main /\ u \in Thread
    BY <1>1, <1>2, <1>3, MemberFacts DEF Shape
<1>5. WorkerAt(u) /\ Unwoken(u)
    BY <1>1, <1>2, <1>3, <1>4 DEF RegionInv, Workers, Unwoken
<1>6. u \notin joined /\ Off(u) /\ ~HasPermit(u)
    BY <1>3, <1>5 DEF WorkerAt
<1> QED
    BY <1>3, <1>4, <1>6

LEMMA AssignWakeEffect ==
    ASSUME RegionInv, AssignWake
    PROVE  /\ pc[main] = "assign" /\ ~Waits(main) /\ ~Wakes(main) /\ next[main] < Size
           /\ Step(main, "assign", at[main], next[main] + 1) /\ CountersKept
           /\ WakersButFor(main)
           /\ \E u \in Members \ {main} : /\ local_id[u] = next[main] /\ u \notin joined
                                          /\ Off(u) /\ Given(u) /\ ~HasPermit(u)
<1>1. Types /\ IInv /\ Shape /\ main \in Thread
    BY ThreadFacts DEF RegionInv
<1>2. /\ UNCHANGED <<pc, at, local_id, inTeam, single_count, lock, idstack, work,
                     program, joined, team>>
      /\ pc[main] = "assign" /\ ~Waits(main) /\ ~Wakes(main) /\ next[main] < Size
      /\ next' = [next EXCEPT ![main] = next[main] + 1]
    BY DEF AssignWake, teamVars, historyVars, Size, Running, Waits, Wakes
<1>3. PICK u \in Members \ {main} : /\ u = Member(next[main]) /\ local_id[u] = next[main]
                                    /\ u \notin joined /\ Off(u) /\ ~HasPermit(u)
    BY <1>2, AssignTarget
<1>4. CallWake(main, u) /\ u \in Thread
    BY <1>1, <1>3, MemberFacts DEF AssignWake
<1>5. IInv' /\ Given(u) /\ WakersButFor(main)
    BY <1>1, <1>2, <1>3, <1>4, CallWakeEffect
<1>6. SameTeam /\ CountersKept
    BY <1>2 DEF SameTeam, CountersKept, Counters
<1>7. Types' /\ Moves(main, "assign", at[main], next[main] + 1)
    BY <1>1, <1>2 DEF Types, Moves
<1> QED
    BY <1>2, <1>3, <1>5, <1>6, <1>7 DEF Step

\* The master goes from one part of __pmp_thread_fork to the next.
LEMMA MasterWorkEffect ==
    ASSUME RegionInv, MasterWork
    PROVE  /\ pc[main] = "assign" /\ ~Waits(main) /\ ~Wakes(main) /\ next[main] = Size
           /\ Step(main, "work", 1, 0) /\ CountersKept /\ Silent /\ NoNewWaker
<1>1. Types /\ IInv /\ main \in Thread
    BY ThreadFacts DEF RegionInv
<1>2. /\ UNCHANGED <<syncVars, local_id, inTeam, single_count, lock, idstack, work,
                     program, joined, team>>
      /\ pc[main] = "assign" /\ ~Waits(main) /\ ~Wakes(main) /\ next[main] = Size
      /\ pc' = [pc EXCEPT ![main] = "work"] /\ at' = [at EXCEPT ![main] = 1]
      /\ next' = [next EXCEPT ![main] = 0]
    BY DEF MasterWork, Goto, teamVars, historyVars, Size, Running, Waits, Wakes
<1>3. IInv' /\ Silent /\ NoNewWaker
    BY <1>1, <1>2, ElsewhereEffect
<1>4. SameTeam /\ CountersKept
    BY <1>2 DEF SameTeam, CountersKept, Counters
<1>5. Types' /\ Moves(main, "work", 1, 0)
    BY <1>1, <1>2 DEF Types, Moves, Label
<1> QED
    BY <1>2, <1>3, <1>4, <1>5 DEF Step

LEMMA WorkDoneEffect ==
    ASSUME RegionInv, MasterWorkDone
    PROVE  /\ pc[main] = "work" /\ ~Waits(main) /\ ~Wakes(main) /\ at[main] > Len(work)
           /\ Step(main, "join", at[main], next[main]) /\ CountersKept
           /\ Silent /\ NoNewWaker
<1>1. Types /\ IInv /\ main \in Thread
    BY ThreadFacts DEF RegionInv
<1>2. /\ UNCHANGED <<syncVars, at, next, local_id, inTeam, single_count, lock, idstack, work,
                     program, joined, team>>
      /\ pc[main] = "work" /\ ~Waits(main) /\ ~Wakes(main) /\ at[main] > Len(work)
      /\ pc' = [pc EXCEPT ![main] = "join"]
    BY DEF MasterWorkDone, Goto, teamVars, historyVars, Running, Waits, Wakes
<1>3. IInv' /\ Silent /\ NoNewWaker
    BY <1>1, <1>2, ElsewhereEffect
<1>4. SameTeam /\ CountersKept
    BY <1>2 DEF SameTeam, CountersKept, Counters
<1>5. Types' /\ Moves(main, "join", at[main], next[main])
    BY <1>1, <1>2 DEF Types, Moves, Label
<1> QED
    BY <1>2, <1>3, <1>4, <1>5 DEF Step

LEMMA JoinSpinEffect ==
    ASSUME RegionInv, MasterJoinSpin
    PROVE  /\ pc[main] = "join" /\ team.working_threads = 1
           /\ Step(main, "release", at[main], next[main]) /\ joined' = joined
           /\ Counters(0, team.barrier_count) /\ Silent /\ NoNewWaker
<1>1. Types /\ IInv /\ main \in Thread
    BY ThreadFacts DEF RegionInv
<1>2. /\ UNCHANGED <<syncVars, at, next, local_id, inTeam, single_count, lock, idstack, work,
                     program, joined>>
      /\ pc[main] = "join" /\ team.working_threads = 1
      /\ team' = [team EXCEPT !.working_threads = 0]
      /\ pc' = [pc EXCEPT ![main] = "release"]
    BY DEF MasterJoinSpin, JoinWhen, Goto, historyVars
<1>3. IInv' /\ Silent /\ NoNewWaker
    BY <1>1, <1>2, ElsewhereEffect
<1>4. team' \in TeamRecord /\ SameTeam /\ Counters(0, team.barrier_count)
  <2>1. team \in TeamRecord /\ 0 \in Int
    BY <1>1 DEF Types
  <2> QED
    BY <1>2, <2>1, UpdateWorking DEF SameTeam, Counters
<1>5. Types' /\ Moves(main, "release", at[main], next[main])
    BY <1>1, <1>2, <1>4 DEF Types, Moves, Label
<1> QED
    BY <1>2, <1>3, <1>4, <1>5 DEF Step

LEMMA MasterJoinEffect ==
    ASSUME RegionInv, MasterJoin
    PROVE  /\ pc[main] = "join" /\ ~Waits(main) /\ ~Wakes(main)
           /\ Step(main, "release", at[main], next[main]) /\ joined' = joined
           /\ Counters(team.working_threads - 1, team.barrier_count) /\ NoNewWaker
           /\ IF team.working_threads > 1 THEN Entered(main) ELSE Silent
<1>1. Types /\ IInv /\ main \in Thread /\ Places(main)
    BY ThreadFacts DEF RegionInv
<1>2. /\ UNCHANGED <<at, next, local_id, inTeam, single_count, lock, idstack, work,
                     program, joined>>
      /\ pc[main] = "join"
      /\ team' = [team EXCEPT !.working_threads = team.working_threads - 1]
      /\ pc' = [pc EXCEPT ![main] = "release"]
      /\ IF team.working_threads > 1 THEN CallWait(main) ELSE UNCHANGED syncVars
    BY DEF MasterJoin, Goto, historyVars
<1>3. ~Waits(main) /\ ~Wakes(main)
    BY <1>1, <1>2 DEF Places
<1>4. /\ IInv' /\ NoNewWaker
      /\ IF team.working_threads > 1 THEN Entered(main) ELSE Silent
    BY <1>1, <1>2, <1>3, ElsewhereEffect, CallWaitEffect
<1>5. team \in TeamRecord /\ team.working_threads - 1 \in Int
    BY <1>1, TeamFields DEF Types
<1>6. /\ team' \in TeamRecord /\ SameTeam
      /\ Counters(team.working_threads - 1, team.barrier_count)
    BY <1>2, <1>5, UpdateWorking DEF SameTeam, Counters
<1>7. Types' /\ Moves(main, "release", at[main], next[main])
    BY <1>1, <1>2, <1>6 DEF Types, Moves, Label
<1> QED
    BY <1>2, <1>3, <1>4, <1>6, <1>7 DEF Step

\* A worker goes to its first wait.
LEMMA StartEffect ==
    ASSUME RegionInv, NEW t \in Thread, Start(t)
    PROVE  /\ pc[t] = "created" /\ Step(t, "run", at[t], next[t]) /\ CountersKept
           /\ ~Waits(t) /\ Entered(t) /\ NoNewWaker
<1>1. Types /\ IInv /\ Places(t)
    BY DEF RegionInv
<1>2. /\ UNCHANGED <<at, next, local_id, inTeam, single_count, lock, idstack, work,
                     program, joined, team>>
      /\ pc[t] = "created" /\ pc' = [pc EXCEPT ![t] = "run"] /\ CallWait(t)
    BY DEF Start, Goto, teamVars, historyVars
<1>3. ~Waits(t) /\ ~Wakes(t)
    BY <1>1, <1>2 DEF Places
<1>4. IInv' /\ Entered(t) /\ NoNewWaker
    BY <1>1, <1>2, <1>3, CallWaitEffect
<1>5. SameTeam /\ CountersKept
    BY <1>2 DEF SameTeam, CountersKept, Counters
<1>6. Types' /\ Moves(t, "run", at[t], next[t])
    BY <1>1, <1>2 DEF Types, Moves, Label
<1> QED
    BY <1>2, <1>3, <1>4, <1>5, <1>6 DEF Step

LEMMA WorkerWorkEffect ==
    ASSUME RegionInv, NEW t \in Thread, WorkerWork(t)
    PROVE  /\ pc[t] = "run" /\ ~Waits(t) /\ ~Wakes(t)
           /\ Step(t, "work", 1, next[t]) /\ CountersKept /\ Silent /\ NoNewWaker
<1>1. Types /\ IInv
    BY DEF RegionInv
<1>2. /\ UNCHANGED <<syncVars, next, local_id, inTeam, single_count, lock, idstack, work,
                     program, joined, team>>
      /\ pc[t] = "run" /\ ~Waits(t) /\ ~Wakes(t)
      /\ pc' = [pc EXCEPT ![t] = "work"] /\ at' = [at EXCEPT ![t] = 1]
    BY DEF WorkerWork, Goto, teamVars, historyVars, Running, Waits, Wakes
<1>3. IInv' /\ Silent /\ NoNewWaker
    BY <1>1, <1>2, ElsewhereEffect
<1>4. SameTeam /\ CountersKept
    BY <1>2 DEF SameTeam, CountersKept, Counters
<1>5. Types' /\ Moves(t, "work", 1, next[t])
    BY <1>1, <1>2 DEF Types, Moves, Label
<1> QED
    BY <1>2, <1>3, <1>4, <1>5 DEF Step

LEMMA WorkerJoinEffect ==
    ASSUME RegionInv, NEW t \in Thread, WorkerJoin(t)
    PROVE  /\ t # main /\ pc[t] = "work" /\ ~Waits(t) /\ ~Wakes(t) /\ at[t] > Len(work)
           /\ Step(t, IF team.working_threads = 1 THEN "joinwake" ELSE "idle", at[t], next[t])
           /\ joined' = joined \cup {t}
           /\ Counters(team.working_threads - 1, team.barrier_count)
           /\ Silent /\ NoNewWaker
<1> DEFINE l == IF team.working_threads = 1 THEN "joinwake" ELSE "idle"
<1>1. Types /\ IInv
    BY DEF RegionInv
<1>2. /\ UNCHANGED <<syncVars, at, next, local_id, inTeam, single_count, lock, idstack, work,
                     program>>
      /\ t # main /\ pc[t] = "work" /\ ~Waits(t) /\ ~Wakes(t) /\ at[t] > Len(work)
      /\ joined' = joined \cup {t}
      /\ team' = [team EXCEPT !.working_threads = team.working_threads - 1]
      /\ pc' = [pc EXCEPT ![t] = l]
    BY DEF WorkerJoin, WorkerLeave, Goto, Running, Waits, Wakes
<1>3. IInv' /\ Silent /\ NoNewWaker
    BY <1>1, <1>2, ElsewhereEffect
<1>4. team \in TeamRecord /\ team.working_threads - 1 \in Int
    BY <1>1, TeamFields DEF Types
<1>5. /\ team' \in TeamRecord /\ SameTeam
      /\ Counters(team.working_threads - 1, team.barrier_count)
    BY <1>2, <1>4, UpdateWorking DEF SameTeam, Counters
<1>6. l \in Label /\ t \in Workers
    BY <1>2 DEF Label, Workers
<1> HIDE DEF l
<1>7. Types' /\ Moves(t, l, at[t], next[t])
    BY <1>1, <1>2, <1>5, <1>6 DEF Types, Moves
<1>8. Step(t, l, at[t], next[t])
    BY <1>3, <1>5, <1>7 DEF Step
<1> QED
    BY <1>2, <1>3, <1>5, <1>8 DEF l

LEMMA JoinWakeEffect ==
    ASSUME RegionInv, NEW t \in Thread, WorkerJoinWake(t)
    PROVE  /\ t \in Workers /\ pc[t] = "joinwake" /\ ~Waits(t) /\ ~HasPermit(main)
           /\ Step(t, "idle", at[t], next[t]) /\ CountersKept
           /\ Given(main) /\ WakersButFor(t)
<1>1. Types /\ IInv /\ Shape /\ Places(t) /\ JoinWaker
    BY DEF RegionInv
<1>2. /\ UNCHANGED <<at, next, local_id, inTeam, single_count, lock, idstack, work,
                     program, joined, team>>
      /\ pc[t] = "joinwake" /\ pc' = [pc EXCEPT ![t] = "idle"] /\ CallWake(t, Member(0))
    BY DEF WorkerJoinWake, Goto, teamVars, historyVars
<1>3. t \in Workers /\ ~Waits(t) /\ ~Wakes(t)
    BY <1>1, <1>2 DEF Places, Workers, InWork
<1>4. ~HasPermit(main) /\ Member(0) = main /\ main \in Thread
    BY <1>1, <1>2, <1>3, ThreadFacts DEF JoinWaker, Shape
<1>5. IInv' /\ Given(main) /\ WakersButFor(t)
    BY <1>1, <1>2, <1>3, <1>4, CallWakeEffect
<1>6. SameTeam /\ CountersKept
    BY <1>2 DEF SameTeam, CountersKept, Counters
<1>7. Types' /\ Moves(t, "idle", at[t], next[t])
    BY <1>1, <1>2 DEF Types, Moves, Label
<1> QED
    BY <1>2, <1>3, <1>4, <1>5, <1>6, <1>7 DEF Step

LEMMA IdleEffect ==
    ASSUME RegionInv, NEW t \in Thread, Idle(t)
    PROVE  /\ pc[t] = "idle" /\ Step(t, "run", 0, next[t]) /\ CountersKept
           /\ ~Waits(t) /\ ~Wakes(t) /\ Entered(t) /\ NoNewWaker
<1>1. Types /\ IInv
    BY DEF RegionInv
<1>2. /\ UNCHANGED <<next, local_id, inTeam, idstack, work, program, joined, team>>
      /\ pc[t] = "idle" /\ pc' = [pc EXCEPT ![t] = "run"] /\ CallWait(t)
      /\ at' = [at EXCEPT ![t] = 0]
      /\ single_count' = [single_count EXCEPT ![t] = 0] /\ lock' = [lock EXCEPT ![t] = FALSE]
      /\ ~Waits(t) /\ ~Wakes(t)
    BY DEF Idle, Goto, teamVars, historyVars, Running, Waits, Wakes
<1>3. IInv' /\ Entered(t) /\ NoNewWaker
    BY <1>1, <1>2, CallWaitEffect
<1>4. SameTeam /\ CountersKept
    BY <1>2 DEF SameTeam, CountersKept, Counters
<1>5. Types' /\ Moves(t, "run", 0, next[t])
    BY <1>1, <1>2 DEF Types, Moves, Label
<1> QED
    BY <1>2, <1>3, <1>4, <1>5 DEF Step

-----------------------------------------------------------------------------
(***************************************************************************)
(* Fork and release                                                        *)
(***************************************************************************)
\* The ids that a fork of n threads takes from the stack.
LEMMA PoppedIds ==
    ASSUME Types, Shape, pc[main] = "serial", NEW n \in 1 .. NumThreads, NEW p,
           p = [i \in 1 .. n - 1 |-> idstack[Len(idstack) - i + 1]]
    PROVE  /\ p \in Seq(Thread) /\ Len(p) = n - 1
           /\ \A i \in 1 .. n - 1 : p[i] \in Workers
           /\ \A i, j \in 1 .. n - 1 : p[i] = p[j] => i = j
           /\ LET s == SubSeq(idstack, 1, Len(idstack) - (n - 1))
              IN  /\ s \in Seq(Workers) /\ Len(s) = NumThreads - n
                  /\ \A j \in DOMAIN s : s[j] = idstack[j]
                  /\ \A j \in DOMAIN s, i \in 1 .. n - 1 : s[j] # p[i]
                  /\ \A i, j \in DOMAIN s : s[i] = s[j] => i = j
<1> DEFINE L == Len(idstack)
<1>0. NumThreads \in Nat /\ n \in Nat /\ n >= 1 /\ n <= NumThreads
    BY ThreadFacts
<1>1. /\ idstack \in Seq(Workers) /\ L = NumThreads - 1 /\ L \in Nat
      /\ DOMAIN idstack = 1 .. L
      /\ \A i, j \in 1 .. L : idstack[i] = idstack[j] => i = j
      /\ \A i \in 1 .. L : idstack[i] \in Workers
  <2>1. idstack \in Seq(Workers)
    BY DEF Types
  <2>2. L \in Nat /\ DOMAIN idstack = 1 .. L /\ \A i \in 1 .. L : idstack[i] \in Workers
    BY <2>1
  <2>3. L = NumThreads - 1 /\ \A i, j \in DOMAIN idstack : idstack[i] = idstack[j] => i = j
    BY DEF Shape
  <2> QED
    BY <2>1, <2>2, <2>3
<1> HIDE DEF L
<1>2. \A i \in 1 .. n - 1 : L - i + 1 \in 1 .. L /\ L - i + 1 > L - (n - 1)
    BY <1>0, <1>1
<1>3. \A i \in 1 .. n - 1 : p[i] = idstack[L - i + 1] /\ p[i] \in Workers
    BY <1>1, <1>2 DEF L
<1>4. \A i, j \in 1 .. n - 1 : p[i] = p[j] => i = j
  <2> SUFFICES ASSUME NEW i \in 1 .. n - 1, NEW j \in 1 .. n - 1, p[i] = p[j] PROVE i = j
    OBVIOUS
  <2>1. L - i + 1 \in 1 .. L /\ L - j + 1 \in 1 .. L
    BY <1>2
  <2>2. idstack[L - i + 1] = idstack[L - j + 1]
    BY <1>3
  <2>3. L - i + 1 = L - j + 1
    BY <1>1, <2>1, <2>2
  <2> QED
    BY <1>1, <2>3
<1>5. p \in Seq(Thread) /\ Len(p) = n - 1
  <2>1. n - 1 \in Nat
    BY <1>0
  <2>2. p \in [1 .. n - 1 -> Thread]
    BY <1>3, ThreadFacts
  <2> QED
    BY <2>1, <2>2
<1> DEFINE s == SubSeq(idstack, 1, L - (n - 1))
<1>6. L - (n - 1) \in 0 .. L
    BY <1>0, <1>1
<1>7. /\ s \in Seq(Workers) /\ Len(s) = L - (n - 1) /\ DOMAIN s = 1 .. L - (n - 1)
      /\ \A j \in 1 .. L - (n - 1) : s[j] = idstack[j]
    BY <1>1, <1>6 DEF L
<1> HIDE DEF s
<1>8. \A j \in 1 .. L - (n - 1) : j \in 1 .. L
    BY <1>1, <1>6
<1>9. \A j \in DOMAIN s, i \in 1 .. n - 1 : s[j] # p[i]
  <2> SUFFICES ASSUME NEW j \in 1 .. L - (n - 1), NEW i \in 1 .. n - 1 PROVE s[j] # p[i]
    BY <1>7
  <2>1. j # L - i + 1
    BY <1>1, <1>2
  <2> QED
    BY <1>1, <1>2, <1>3, <1>7, <1>8, <2>1
<1>10. \A i, j \in DOMAIN s : s[i] = s[j] => i = j
    BY <1>1, <1>7, <1>8
<1>11. Len(s) = NumThreads - n
    BY <1>1, <1>7, ThreadFacts
<1> QED
    BY <1>3, <1>4, <1>5, <1>7, <1>9, <1>10, <1>11 DEF s, L

LEMMA ForkEffect ==
    ASSUME RegionInv, NEW n \in 1 .. NumThreads, NEW w \in program, Fork(n, w)
    PROVE  /\ Types' /\ IInv' /\ Shape' /\ Silent /\ NoNewWaker
           /\ pc[main] = "serial" /\ pc' = [pc EXCEPT ![main] = "assign"]
           /\ at' = at /\ next' = [next EXCEPT ![main] = 1]
           /\ Size' = n /\ Counters(n, n) /\ joined' = {}
<1> DEFINE p == [i \in 1 .. n - 1 |-> idstack[Len(idstack) - i + 1]]
           s == SubSeq(idstack, 1, Len(idstack) - (n - 1))
           q == <<main>> \o p
           C == {p[i] : i \in 1 .. n - 1}
           Id(t) == CHOOSE i \in 1 .. n - 1 : p[i] = t
<1>1. Types /\ Shape /\ IInv /\ main \in Thread
    BY ThreadFacts DEF RegionInv
<1>2. /\ UNCHANGED <<syncVars, at, lock, program>>
      /\ pc[main] = "serial" /\ pc' = [pc EXCEPT ![main] = "assign"]
      /\ next' = [next EXCEPT ![main] = 1]
      /\ idstack' = s
      /\ team' = [team_size |-> n, working_threads |-> n, barrier_count |-> n,
                  single_count |-> 0, copyprivate_src |-> team.copyprivate_src,
                  members |-> q]
      /\ work' = w /\ joined' = {}
      /\ local_id' = [t \in Thread |-> IF t \in C THEN Id(t) ELSE local_id[t]]
      /\ inTeam' = [t \in Thread |-> t = main \/ t \in C \/ inTeam[t]]
      /\ single_count' = [single_count EXCEPT ![main] = 0]
    BY DEF Fork, Goto
<1>3. /\ p \in Seq(Thread) /\ Len(p) = n - 1
      /\ \A i \in 1 .. n - 1 : p[i] \in Workers
      /\ \A i, j \in 1 .. n - 1 : p[i] = p[j] => i = j
      /\ s \in Seq(Workers) /\ Len(s) = NumThreads - n
      /\ \A j \in DOMAIN s, i \in 1 .. n - 1 : s[j] # p[i]
      /\ \A i, j \in DOMAIN s : s[i] = s[j] => i = j
    BY <1>1, <1>2, PoppedIds
<1>4. n \in Nat /\ n > 0 /\ NumThreads \in Nat
    BY ThreadFacts
<1> HIDE DEF p, s
<1>5. /\ q \in Seq(Thread) /\ Len(q) = n /\ q[1] = main
      /\ \A i \in 1 .. n - 1 : q[i + 1] = p[i]
    BY <1>1, <1>3, <1>4
<1> HIDE DEF q
<1>6. /\ main \notin C
      /\ \A i \in 1 .. n - 1 : p[i] \in C /\ Id(p[i]) = i
    BY <1>3 DEF Workers
<1>7. \A t \in C : Id(t) \in 1 .. n - 1
    OBVIOUS
<1> HIDE DEF C, Id
<1>8. /\ local_id' \in [Thread -> Int] /\ inTeam' \in [Thread -> BOOLEAN]
      /\ local_id'[main] = 0
      /\ \A i \in 1 .. n - 1 : local_id'[p[i]] = i /\ inTeam'[p[i]]
      /\ inTeam'[main]
  <2>1. local_id' \in [Thread -> Int]
    BY <1>1, <1>2, <1>4, <1>7 DEF Types
  <2>2. inTeam' \in [Thread -> BOOLEAN]
    BY <1>2
  <2>3. local_id'[main] = 0
    BY <1>1, <1>2, <1>6 DEF Shape
  <2>4. \A i \in 1 .. n - 1 : local_id'[p[i]] = i
    BY <1>2, <1>3, <1>6, ThreadFacts
  <2>5. inTeam'[main] /\ \A i \in 1 .. n - 1 : inTeam'[p[i]]
    BY <1>1, <1>2, <1>3, <1>6, ThreadFacts
  <2> QED
    BY <2>1, <2>2, <2>3, <2>4, <2>5
<1>9. /\ team' \in TeamRecord /\ Size' = n /\ Counters(n, n) /\ team'.members = q
  <2>1. team.copyprivate_src \in [thread : Thread, at : Nat]
    BY <1>1 DEF Types, TeamRecord
  <2> QED
    BY <1>2, <1>4, <1>5, <2>1 DEF TeamRecord, Size, Counters
<1>10. Types'
  <2>1. w \in Seq(Call) /\ program' \in Programs /\ work' \in program' \cup {<<>>}
    BY <1>1, <1>2, ThreadFacts DEF Types
  <2>2. pc' \in [Thread -> Label] /\ next' \in [Thread -> Nat]
    BY <1>1, <1>2 DEF Types, Label
  <2>3. at' \in [Thread -> Nat] /\ lock' \in [Thread -> BOOLEAN]
    BY <1>1, <1>2 DEF Types
  <2>4. single_count' \in [Thread -> Nat]
    <3>1. single_count \in [Thread -> Nat]
        BY <1>1 DEF Types
    <3> QED
        BY <1>2, <3>1
  <2> QED
    BY <1>2, <1>3, <1>8, <1>9, <2>1, <2>2, <2>3, <2>4 DEF Types
<1>11. Shape'
  <2>1. /\ \A i \in 1 .. n - 1 : Member(i)' = p[i]
        /\ Member(0)' = main
    BY <1>5, <1>9 DEF Member
  <2>2. \A i \in 0 .. n - 1 : i = 0 \/ i \in 1 .. n - 1
    BY <1>4
  <2>3. \A i \in 0 .. n - 1 : local_id'[Member(i)'] = i /\ inTeam'[Member(i)']
    BY <1>8, <2>1, <2>2
  <2>4. \A i \in 1 .. n - 1 : Member(i)' # main
    BY <1>3, <2>1 DEF Workers
  <2>5. Members' = {Member(i)' : i \in 0 .. n - 1}
    BY <1>9 DEF Members, Size
  <2>6. \A j \in DOMAIN s : s[j] \in Workers
    BY <1>3
  <2>7. \A j \in DOMAIN s : s[j] \notin Members'
    BY <1>3, <2>1, <2>2, <2>5, <2>6 DEF Workers
  <2>8. pc'[main] # "serial" /\ n \in 1 .. NumThreads /\ Len(q) = n /\ Len(s) + n = NumThreads
    BY <1>1, <1>2, <1>3, <1>4, <1>5 DEF Types
  <2> QED
    BY <1>2, <1>3, <1>8, <1>9, <2>1, <2>3, <2>4, <2>7, <2>8 DEF Shape
<1>12. IInv' /\ Silent /\ NoNewWaker
    BY <1>1, <1>2, ElsewhereEffect
<1> QED
    BY <1>2, <1>9, <1>10, <1>11, <1>12

\* The ids that a release puts back.
LEMMA ReleasedIds ==
    ASSUME Types, Shape, pc[main] # "serial", NEW r,
           r = [i \in 1 .. Size - 1 |-> Member(Size - i)]
    PROVE  LET s == idstack \o r
           IN  /\ s \in Seq(Workers) /\ Len(s) = NumThreads - 1
               /\ \A i, j \in DOMAIN s : s[i] = s[j] => i = j
<1> DEFINE L == Len(idstack)
           s == idstack \o r
<1>1. /\ Size \in Nat /\ Size >= 1 /\ L + Size = NumThreads /\ NumThreads \in Nat
    BY MemberFacts, ThreadFacts DEF Shape
<1>2. /\ idstack \in Seq(Workers) /\ L \in Nat /\ DOMAIN idstack = 1 .. L
      /\ \A i \in 1 .. L : idstack[i] \in Workers
    BY DEF Types
<1>3. /\ \A i, j \in DOMAIN idstack : idstack[i] = idstack[j] => i = j
      /\ \A i \in DOMAIN idstack : idstack[i] \notin Members
      /\ \A i \in 1 .. Size - 1 : Member(i) # main
    BY DEF Shape
<1>4. \A i \in 1 .. Size - 1 : Size - i \in 1 .. Size - 1 /\ Size - i \in 0 .. Size - 1
    BY <1>1
<1>5. \A i \in 1 .. Size - 1 : r[i] = Member(Size - i)
    OBVIOUS
<1>6. \A i \in 1 .. Size - 1 : r[i] \in Members /\ r[i] \in Workers /\ local_id[r[i]] = Size - i
    BY <1>3, <1>4, <1>5, MemberFacts DEF Workers
<1> HIDE DEF L, Size
<1>7. \A i, j \in 1 .. Size - 1 : r[i] = r[j] => i = j
    BY <1>1, <1>6
<1>8. r \in Seq(Workers) /\ Len(r) = Size - 1
  <2>1. Size - 1 \in Nat
    BY <1>1
  <2>2. r \in [1 .. Size - 1 -> Workers]
    BY <1>6
  <2> QED
    BY <2>1, <2>2
<1>9. /\ s \in Seq(Workers) /\ Len(s) = L + (Size - 1) /\ DOMAIN s = 1 .. L + (Size - 1)
      /\ \A i \in 1 .. L : s[i] = idstack[i]
      /\ \A i \in 1 .. L + (Size - 1) : i > L => s[i] = r[i - L]
    BY <1>1, <1>2, <1>8 DEF L
<1> HIDE DEF s
<1>10. ASSUME NEW i \in DOMAIN s, NEW j \in DOMAIN s, s[i] = s[j] PROVE i = j
  <2>1. \A k \in DOMAIN s : \/ k \in 1 .. L /\ s[k] = idstack[k] /\ s[k] \notin Members
                            \/ k - L \in 1 .. Size - 1 /\ s[k] = r[k - L] /\ s[k] \in Members
    <3> SUFFICES ASSUME NEW k \in 1 .. L + (Size - 1)
                 PROVE  \/ k \in 1 .. L /\ s[k] = idstack[k] /\ s[k] \notin Members
                        \/ k - L \in 1 .. Size - 1 /\ s[k] = r[k - L] /\ s[k] \in Members
        BY <1>9
    <3>1. k \in 1 .. L \/ (k > L /\ k - L \in 1 .. Size - 1)
        BY <1>1, <1>2
    <3> QED
        BY <1>2, <1>3, <1>6, <1>9, <3>1
  <2>2. CASE i \in 1 .. L /\ s[i] = idstack[i] /\ s[i] \notin Members
    BY <1>2, <1>3, <1>10, <2>1, <2>2
  <2>3. CASE i - L \in 1 .. Size - 1 /\ s[i] = r[i - L] /\ s[i] \in Members
    <3>1. j - L \in 1 .. Size - 1 /\ s[j] = r[j - L]
        BY <1>10, <2>1, <2>3
    <3>2. i - L = j - L
        BY <1>7, <1>10, <2>3, <3>1
    <3>3. i \in Int /\ j \in Int
        BY <1>1, <1>2, <1>9
    <3> QED
        BY <1>2, <3>2, <3>3
  <2> QED
    BY <2>1, <2>2, <2>3
<1>11. Len(s) = NumThreads - 1
    BY <1>1, <1>2, <1>9
<1> QED
    BY <1>9, <1>10, <1>11 DEF s

LEMMA ReleaseEffect ==
    ASSUME RegionInv, Release
    PROVE  /\ Types' /\ IInv' /\ Shape' /\ Silent /\ NoNewWaker
           /\ pc[main] = "release" /\ ~Waits(main) /\ ~Wakes(main)
           /\ pc' = [pc EXCEPT ![main] = "serial"] /\ at' = [at EXCEPT ![main] = 0]
           /\ next' = next /\ Members' = {} /\ Size' = 0
           /\ UNCHANGED <<joined, work>>
<1> DEFINE r == [i \in 1 .. Size - 1 |-> Member(Size - i)]
           s == idstack \o r
<1>1. Types /\ Shape /\ IInv /\ main \in Thread
    BY ThreadFacts DEF RegionInv
<1>2. /\ UNCHANGED <<syncVars, next, single_count, work, program, joined>>
      /\ pc[main] = "release" /\ ~Waits(main) /\ ~Wakes(main)
      /\ idstack' = s
      /\ local_id' = [t \in Thread |-> IF t \in Members \ {main} THEN -1 ELSE local_id[t]]
      /\ inTeam' = [t \in Thread |-> inTeam[t] /\ t \notin Members]
      /\ team' = [team EXCEPT !.team_size = 0]
      /\ at' = [at EXCEPT ![main] = 0]
      /\ lock' = [lock EXCEPT ![main] = FALSE]
      /\ pc' = [pc EXCEPT ![main] = "serial"]
    BY DEF Release, Goto, historyVars, Size, Running, Waits, Wakes
<1>3. /\ s \in Seq(Workers) /\ Len(s) = NumThreads - 1
      /\ \A i, j \in DOMAIN s : s[i] = s[j] => i = j
    BY <1>1, <1>2, ReleasedIds
<1> HIDE DEF s
<1>4. team' \in TeamRecord /\ Size' = 0
  <2>1. team \in TeamRecord /\ 0 \in Nat
    BY <1>1 DEF Types
  <2> QED
    BY <1>2, <2>1, UpdateSize DEF Size
<1>5. Members' = {}
    BY <1>4 DEF Members, Size
<1>6. local_id' \in [Thread -> Int] /\ local_id'[main] = 0
    BY <1>1, <1>2 DEF Types, Shape
<1>7. inTeam' \in [Thread -> BOOLEAN]
    BY <1>2
<1>8. Types'
    BY <1>1, <1>2, <1>3, <1>4, <1>6, <1>7 DEF Types, Label
<1>9. Shape'
  <2>1. pc'[main] = "serial"
    BY <1>1, <1>2 DEF Types
  <2> QED
    BY <1>2, <1>3, <1>4, <1>6, <2>1 DEF Shape
<1>10. IInv' /\ Silent /\ NoNewWaker
    BY <1>1, <1>2, ElsewhereEffect
<1> QED
    BY <1>2, <1>4, <1>5, <1>8, <1>9, <1>10

-----------------------------------------------------------------------------
(***************************************************************************)
(* Frames: what a step of t leaves to be shown                             *)
(***************************************************************************)
LEMMA StepFacts ==
    ASSUME RegionInv, NEW t \in Thread, NEW l, NEW a, NEW n, Step(t, l, a, n)
    PROVE  /\ pc'[t] = l /\ at'[t] = a /\ next'[t] = n
           /\ \A u \in Thread \ {t} : pc'[u] = pc[u] /\ at'[u] = at[u] /\ next'[u] = next[u]
           /\ local_id' = local_id /\ work' = work
           /\ Members' = Members /\ Size' = Size
<1>1. Types /\ SameTeam /\ Moves(t, l, a, n)
    BY DEF RegionInv, Step
<1>2. Members' = Members /\ Size' = Size
    BY <1>1, SameMembers
<1> QED
    BY <1>1, <1>2 DEF Types, SameTeam, Moves

LEMMA ShapeKept ==
    ASSUME RegionInv, NEW t \in Thread, NEW l, NEW a, NEW n, Step(t, l, a, n),
           l # "serial", t = main => pc[main] # "serial"
    PROVE  Shape'
<1>1. Shape /\ SameTeam /\ main \in Thread
    BY ThreadFacts DEF RegionInv, Step
<1>2. pc'[main] = "serial" <=> pc[main] = "serial"
    BY <1>1, StepFacts
<1>3. Size' = Size /\ Members' = Members /\ \A i \in Int : Member(i)' = Member(i)
    BY <1>1, SameMembers
<1>4. \A i \in 0 .. Size - 1 : Member(i)' = Member(i) /\ i \in Int
    BY <1>3
<1>5. \A i \in 1 .. Size - 1 : Member(i)' = Member(i)
    BY <1>3
<1>6. Member(0)' = Member(0)
    BY <1>3
<1> HIDE DEF Member, Members, Size
<1> QED
    BY <1>1, <1>2, <1>3, <1>4, <1>5, <1>6 DEF Shape, SameTeam

LEMMA PlacesKept ==
    ASSUME RegionInv, NEW t \in Thread, NEW l, NEW a, NEW n, Step(t, l, a, n),
           Places(t)', WakersButFor(t),
           \A u \in Thread \ {t} :
               /\ Waits(u)' <=> Waits(u)
               /\ HasPermit(u)' => HasPermit(u) \/ Waits(u) \/ pc[u] \in {"created", "idle"}
    PROVE  \A u \in Thread : Places(u)'
<1> SUFFICES ASSUME NEW u \in Thread \ {t} PROVE Places(u)'
    OBVIOUS
<1>1. Places(u)
    BY DEF RegionInv
<1>2. pc'[u] = pc[u] /\ at'[u] = at[u] /\ next'[u] = next[u] /\ Size' = Size /\ work' = work
    BY StepFacts
<1>3. Wakes(u)' => Wakes(u)
    BY DEF WakersButFor
<1> QED
    BY <1>1, <1>2, <1>3 DEF Places

LEMMA WorkerKept ==
    ASSUME RegionInv, NEW t \in Thread, NEW l, NEW a, NEW n, Step(t, l, a, n),
           NEW u \in Workers, u # t,
           HasPermit(u)' <=> HasPermit(u), Waits(u)' <=> Waits(u),
           u \in joined' <=> u \in joined,
           u \in Members => (Unwoken(u)' <=> Unwoken(u))
    PROVE  WorkerAt(u)'
<1>1. WorkerAt(u) /\ u \in Thread
    BY DEF RegionInv, Workers
<1>2. pc'[u] = pc[u] /\ Members' = Members
    BY <1>1, StepFacts
<1>3. Off(u)' <=> Off(u)
    BY <1>2 DEF Off
<1> QED
    BY <1>1, <1>2, <1>3 DEF WorkerAt

\* Only the steps of the master change who is still to be woken.
LEMMA UnwokenKept ==
    ASSUME RegionInv, NEW t \in Thread, NEW l, NEW a, NEW n, Step(t, l, a, n),
           t # main \/ (pc[main] = l /\ next[main] = n) \/ (pc[main] # "assign" /\ l # "assign")
    PROVE  \A u \in Thread : Unwoken(u)' <=> Unwoken(u)
<1>1. main \in Thread
    BY ThreadFacts
<1>2. local_id' = local_id
    BY StepFacts
<1>3. CASE t # main \/ (pc[main] = l /\ next[main] = n)
  <2>1. pc'[main] = pc[main] /\ next'[main] = next[main]
    BY <1>1, <1>3, StepFacts
  <2> QED
    BY <1>2, <2>1 DEF Unwoken
<1>4. CASE t = main /\ pc[main] # "assign" /\ l # "assign"
    BY <1>4, StepFacts DEF Unwoken
<1> QED
    BY <1>3, <1>4

\* A step that is not one of the join.
LEMMA JoinFrame ==
    ASSUME RegionInv, NEW t \in Thread, NEW l, NEW a, NEW n, Step(t, l, a, n),
           team'.working_threads = team.working_threads, joined' = joined, l # "joinwake",
           t = main => l = pc[main] \/ {l, pc[main]} \cap {"serial", "release"} = {},
           pc[main] = "release" /\ (~Waits(main)' \/ HasPermit(main)') =>
               ~Waits(main) \/ HasPermit(main)
    PROVE  JoinCount' /\ JoinWoken' /\ JoinWaker'
<1>1. JoinCount /\ JoinWoken /\ JoinWaker /\ main \in Thread /\ Workers \subseteq Thread
    BY ThreadFacts DEF RegionInv
<1>2. /\ pc'[main] = "release" <=> pc[main] = "release"
      /\ pc'[main] \in {"serial", "release"} <=> pc[main] \in {"serial", "release"}
      /\ \A u \in Workers : pc'[u] = "joinwake" => pc[u] = "joinwake"
      /\ Members' = Members
    BY <1>1, StepFacts
<1>3. Remaining' = Remaining /\ team'.working_threads = team.working_threads
    BY <1>2 DEF Remaining
<1>4. JoinCount'
    BY <1>1, <1>2, <1>3 DEF JoinCount
<1>5. JoinWoken'
    BY <1>1, <1>2, <1>3 DEF JoinWoken
<1>6. JoinWaker'
    BY <1>1, <1>2, <1>3 DEF JoinWaker
<1> QED
    BY <1>4, <1>5, <1>6

LEMMA JoinKept ==
    ASSUME RegionInv, NEW t \in Thread, NEW l, NEW a, NEW n, Step(t, l, a, n),
           CountersKept, l # "joinwake",
           t = main => l = pc[main] \/ {l, pc[main]} \cap {"serial", "release"} = {},
           pc[main] = "release" /\ (~Waits(main)' \/ HasPermit(main)') =>
               ~Waits(main) \/ HasPermit(main)
    PROVE  JoinCount' /\ JoinWoken' /\ JoinWaker'
BY JoinFrame DEF CountersKept, Counters
-----------------------------------------------------------------------------
(***************************************************************************)
(* Frames of the barrier                                                   *)
(***************************************************************************)
LEMMA MonotoneBarrier ==
    ASSUME RegionInv, NEW t \in Thread, NEW l, NEW a, NEW n, Step(t, l, a, n),
           \A u \in Members : Counted(u)' => Counted(u) /\ at'[u] = at[u],
           \A u \in Members : \A b \in Int : Called(u, b) => Called(u, b)',
           \A u \in Members : \A b \in Int : IsBarrier(b) /\ Released(u, b)' => Released(u, b)
    PROVE  ReleasedCalled' /\ CountedHolds'
<1>1. /\ Types /\ WaitsAtBarrier /\ ReleasedCalled /\ CountedHolds
    BY DEF RegionInv, BarrierInv
<1>2. Members' = Members /\ work' = work
    BY StepFacts
<1>3. \A b \in DOMAIN work : b \in Int
    BY <1>1 DEF Types
<1>4. \A b : IsBarrier(b)' <=> IsBarrier(b)
    BY <1>2 DEF IsBarrier
<1>5. ReleasedCalled'
  <2> SUFFICES ASSUME NEW u \in Members, NEW v \in Members, NEW b \in DOMAIN work,
                      IsBarrier(b), Released(u, b)'
               PROVE  Called(v, b)'
    BY <1>2, <1>4 DEF ReleasedCalled
  <2> QED
    BY <1>1, <1>3 DEF ReleasedCalled
<1>6. CountedHolds'
  <2> SUFFICES ASSUME NEW c \in Members, NEW v \in Members, NEW b \in DOMAIN work,
                      Counted(c)', at'[c] = b + 1, Released(v, b)'
               PROVE  FALSE
    BY <1>2 DEF CountedHolds
  <2>1. Counted(c) /\ at[c] = b + 1 /\ b \in Int
    BY <1>3
  <2>2. IsBarrier(b)
    BY <1>1, <2>1 DEF WaitsAtBarrier, Counted, IsBarrier
  <2>3. Released(v, b)
    BY <2>1, <2>2
  <2> QED
    BY <1>1, <2>1, <2>3 DEF CountedHolds
<1> QED
    BY <1>5, <1>6

LEMMA CountKept ==
    ASSUME RegionInv, NEW t \in Thread, NEW l, NEW a, NEW n, Step(t, l, a, n),
           l # "serial", t = main => pc[main] # "serial",
           team'.barrier_count = team.barrier_count,
           \A u \in Members : Counted(u)' <=> Counted(u),
           \A u \in Members : pc'[u] = "reset" <=> pc[u] = "reset"
    PROVE  BarrierCount'
<1>1. BarrierCount /\ main \in Thread
    BY ThreadFacts DEF RegionInv, BarrierInv
<1>2. Members' = Members /\ (pc'[main] = "serial" <=> pc[main] = "serial")
    BY <1>1, StepFacts
<1>3. Uncounted' = Uncounted
    BY <1>2 DEF Uncounted
<1>4. (\E k \in Members' : pc'[k] = "reset") <=> (\E k \in Members : pc[k] = "reset")
    BY <1>2
<1> QED
    BY <1>1, <1>2, <1>3, <1>4 DEF BarrierCount

\* A step of a thread that is not waking the others and not, without a wake,
\* in the wait of the barrier, neither before nor after it.
LEMMA NonWakerBarrier ==
    ASSUME RegionInv, NEW t \in Thread, NEW l, NEW a, NEW n, Step(t, l, a, n),
           l # "serial", t = main => pc[main] # "serial",
           ~Waking(t), l \notin {"reset", "wakeall"},
           joined \subseteq joined', joined' \subseteq joined \cup {t},
           team'.barrier_count = team.barrier_count,
           \A u \in Members \ {t} : pc[u] = "work" =>
               (HasPermit(u)' <=> HasPermit(u)) /\ (Waits(u)' <=> Waits(u)),
           ~AtBarrier(t) \/ HasPermit(t), ~AtBarrier(t)',
           t \in Members => \A b \in Int :
               (Called(t, b) => Called(t, b)') /\ (IsBarrier(b) /\ Released(t, b)' => Released(t, b))
    PROVE  BarrierInv'
<1>1. /\ Types /\ Shape /\ OneWaker /\ PendingWaits /\ WaitsAtBarrier
    BY DEF RegionInv, BarrierInv
<1>2. /\ pc'[t] = l /\ at'[t] = a
      /\ \A u \in Thread \ {t} : pc'[u] = pc[u] /\ at'[u] = at[u] /\ next'[u] = next[u]
      /\ local_id' = local_id /\ work' = work /\ Members' = Members
    BY StepFacts
<1>3. \A u \in Members : u \in Thread
    BY <1>1, MemberFacts
<1>4. \A k, u \in Members : PendingBy(k, u)' <=> PendingBy(k, u)
    BY <1>2, <1>3 DEF PendingBy, Waking
<1>5. \A u \in Members \ {t} : /\ pc'[u] = pc[u] /\ at'[u] = at[u]
                               /\ AtBarrier(u)' <=> AtBarrier(u)
                               /\ Counted(u)' <=> Counted(u)
                               /\ Waking(u)' <=> Waking(u)
    BY <1>2, <1>3, <1>4 DEF AtBarrier, Counted, Waking
<1>6. ~Counted(t) /\ ~Counted(t)'
    BY DEF Counted
<1>7. t \in Members => \A k \in Members : ~PendingBy(k, t)
    BY <1>1 DEF PendingWaits
<1>8. ~Waking(t)'
    BY <1>2 DEF Waking
<1>9. OneWaker'
    BY <1>1, <1>2, <1>5, <1>8 DEF OneWaker, IsBarrier
<1>10. PendingWaits'
  <2> SUFFICES ASSUME NEW k \in Members, NEW u \in Members, PendingBy(k, u)'
               PROVE  AtBarrier(u)' /\ ~HasPermit(u)' /\ at'[u] = at'[k] + 1
    BY <1>2 DEF PendingWaits
  <2>1. PendingBy(k, u) /\ AtBarrier(u) /\ ~HasPermit(u) /\ at[u] = at[k] + 1
    BY <1>1, <1>4 DEF PendingWaits
  <2>2. k # t /\ u # t
    BY <1>7, <2>1 DEF PendingBy, Waking
  <2> QED
    BY <1>5, <2>1, <2>2 DEF AtBarrier
<1>11. WaitsAtBarrier'
    BY <1>1, <1>2, <1>5 DEF WaitsAtBarrier, IsBarrier
<1>12. BarrierCount'
    BY <1>2, <1>5, <1>6, CountKept DEF Waking
<1>13. \A u \in Members : \A b \in Int : Called(u, b) => Called(u, b)'
    BY <1>5 DEF Called
<1>14. \A u \in Members : \A b \in Int : IsBarrier(b) /\ Released(u, b)' => Released(u, b)
    BY <1>5 DEF Released
<1>15. ReleasedCalled' /\ CountedHolds'
    BY <1>5, <1>6, <1>13, <1>14, MonotoneBarrier
<1> QED
    BY <1>9, <1>10, <1>11, <1>12, <1>15 DEF BarrierInv

-----------------------------------------------------------------------------
(***************************************************************************)
(* The invariant is kept, step by step                                     *)
(***************************************************************************)
\* Steps that neither wait nor wake nor go on.
LEMMA NothingKept ==
    ASSUME RegionInv, Types', IInv', Silent, NoNewWaker,
           UNCHANGED <<threadVars, teamVars>>
    PROVE  RegionInv'
<1>1. UNCHANGED <<pc, at, next, local_id, inTeam, idstack, team, work, joined>>
    BY DEF threadVars, teamVars, historyVars
<1>2. Members' = Members /\ Size' = Size /\ \A i : Member(i)' = Member(i)
    BY <1>1 DEF Members, Member, Size
<1>3. \A t \in Thread : (HasPermit(t)' <=> HasPermit(t)) /\ (Waits(t)' <=> Waits(t))
    BY DEF Silent
<1>4. Shape'
    BY <1>1, <1>2 DEF RegionInv, Shape
<1>5. \A t \in Thread : Places(t)'
    BY <1>1, <1>2, <1>3 DEF RegionInv, Places, NoNewWaker
<1>6. \A t \in Workers : WorkerAt(t)'
    BY <1>1, <1>2, <1>3 DEF RegionInv, Workers, WorkerAt, Off, Unwoken
<1>7. main \in Thread /\ Types /\ Shape
    BY ThreadFacts DEF RegionInv
<1>8. JoinCount' /\ JoinWoken' /\ JoinWaker'
  <2>1. Remaining' = Remaining
    BY <1>1, <1>2 DEF Remaining
  <2> QED
    BY <1>1, <1>3, <1>7, <2>1 DEF RegionInv, JoinCount, JoinWoken, JoinWaker
<1>9. \A t \in Members : t \in Thread
    BY <1>7, MemberFacts
<1>10. \A t \in Members : /\ AtBarrier(t)' <=> AtBarrier(t)
                          /\ Counted(t)' <=> Counted(t)
                          /\ Waking(t)' <=> Waking(t)
    BY <1>1, <1>2, <1>3, <1>9 DEF AtBarrier, Counted, PendingBy, Waking
<1>11. \A t \in Members : \A b : /\ Called(t, b)' <=> Called(t, b)
                                 /\ Released(t, b)' <=> Released(t, b)
    BY <1>1, <1>10 DEF Called, Released
<1>12. \A b : IsBarrier(b)' <=> IsBarrier(b)
    BY <1>1 DEF IsBarrier
<1>13. OneWaker' /\ PendingWaits' /\ WaitsAtBarrier'
    BY <1>1, <1>2, <1>3, <1>9, <1>10
       DEF RegionInv, BarrierInv, OneWaker, PendingWaits, WaitsAtBarrier, PendingBy, IsBarrier
<1>14. BarrierCount'
  <2>1. Uncounted' = Uncounted
    BY <1>2, <1>10 DEF Uncounted
  <2> QED
    BY <1>1, <1>2, <2>1 DEF RegionInv, BarrierInv, BarrierCount
<1>15. ReleasedCalled' /\ CountedHolds'
    BY <1>1, <1>2, <1>10, <1>11, <1>12 DEF RegionInv, BarrierInv, ReleasedCalled, CountedHolds
<1>16. BarrierInv'
    BY <1>13, <1>14, <1>15 DEF BarrierInv
<1> QED
    BY <1>4, <1>5, <1>6, <1>8, <1>16 DEF RegionInv

\* Steps of t that give nobody a permit.
OthersQuiet(t) ==
    \A u \in Thread \ {t} : (HasPermit(u)' <=> HasPermit(u)) /\ (Waits(u)' <=> Waits(u))

LEMMA QuietFrame ==
    ASSUME RegionInv, NEW t \in Thread, NEW l, NEW a, NEW n, Step(t, l, a, n),
           OthersQuiet(t), NoNewWaker,
           l # "serial", t = main => pc[main] # "serial",
           Places(t)', t # main => WorkerAt(t)',
           \A u \in Workers \ {t} : u \in joined' <=> u \in joined,
           \A u \in Members \ {t} : Unwoken(u)' <=> Unwoken(u),
           JoinCount' /\ JoinWoken' /\ JoinWaker', BarrierInv'
    PROVE  RegionInv'
<1>1. Shape'
    BY ShapeKept
<1>2. \A u \in Thread : Places(u)'
    BY PlacesKept DEF OthersQuiet, NoNewWaker, WakersButFor
<1>3. \A u \in Workers : WorkerAt(u)'
  <2> SUFFICES ASSUME NEW u \in Workers, u # t PROVE WorkerAt(u)'
    BY DEF Workers
  <2>1. u \in Thread \ {t}
    BY DEF Workers
  <2>2. (HasPermit(u)' <=> HasPermit(u)) /\ (Waits(u)' <=> Waits(u))
    BY <2>1 DEF OthersQuiet
  <2> QED
    BY <2>2, WorkerKept
<1> QED
    BY <1>1, <1>2, <1>3 DEF RegionInv, Step

\* The end of a wait.
LEMMA TakenKept ==
    ASSUME RegionInv, NEW t \in Thread, Step(t, pc[t], at[t], next[t]), CountersKept,
           Taken(t), NoNewWaker
    PROVE  RegionInv'
<1>1. /\ Types /\ Shape /\ Places(t) /\ main \in Thread
      /\ HasPermit(t) /\ Waits(t) /\ ~HasPermit(t)' /\ ~Waits(t)' /\ OthersQuiet(t)
    BY ThreadFacts DEF RegionInv, Taken, OthersQuiet
<1>2. pc[t] \in {"run", "work", "release"}
    BY <1>1 DEF Places
<1>3. /\ pc'[t] = pc[t] /\ at'[t] = at[t] /\ next'[t] = next[t] /\ Size' = Size /\ work' = work
      /\ Members' = Members
    BY StepFacts
<1>4. Places(t)'
  <2>1. ~Wakes(t)'
    BY <1>1 DEF Places, NoNewWaker
  <2> QED
    BY <1>1, <1>3, <2>1 DEF Places
<1>5. \A u \in Thread : Unwoken(u)' <=> Unwoken(u)
    BY UnwokenKept
<1>6. ASSUME t # main PROVE WorkerAt(t)'
  <2>1. WorkerAt(t)
    BY <1>6 DEF RegionInv, Workers
  <2>2. ~Off(t)'
    BY <1>1, <1>2, <1>3 DEF Off
  <2> QED
    BY <1>1, <1>2, <1>3, <1>5, <2>1, <2>2 DEF WorkerAt, CountersKept
<1>7. JoinCount' /\ JoinWoken' /\ JoinWaker'
  <2>1. t = main \/ ((HasPermit(main)' <=> HasPermit(main)) /\ (Waits(main)' <=> Waits(main)))
    BY <1>1 DEF OthersQuiet
  <2> QED
    BY <1>1, <1>2, <2>1, JoinKept
<1>8. BarrierInv'
  <2>1. ~Waking(t) /\ ~AtBarrier(t)'
    BY <1>1, <1>2 DEF Waking, AtBarrier
  <2>2. ~Counted(t) /\ ~Counted(t)' /\ ~Waking(t)'
    BY <1>1, <1>2, <1>3, <2>1 DEF Counted, Waking
  <2>3. \A b \in Int : (Called(t, b) => Called(t, b)') /\ (Released(t, b)' => Released(t, b))
    BY <1>3, <2>1, <2>2 DEF Called, Released, CountersKept
  <2>4. \A u \in Members \ {t} : (HasPermit(u)' <=> HasPermit(u)) /\ (Waits(u)' <=> Waits(u))
    BY <1>1, MemberFacts DEF OthersQuiet
  <2>5. /\ joined' = joined /\ team'.barrier_count = team.barrier_count
        /\ pc[t] # "serial" /\ pc[t] \notin {"reset", "wakeall"}
    BY <1>2 DEF CountersKept, Counters
  <2> QED
    BY <1>1, <2>1, <2>3, <2>4, <2>5, NonWakerBarrier
<1> QED
    BY <1>1, <1>2, <1>4, <1>5, <1>6, <1>7, <1>8, QuietFrame, MemberFacts DEF CountersKept

LEMMA WaitWakeKept ==
    ASSUME RegionInv, NEW t \in Thread, WaitWakeStep(t)
    PROVE  RegionInv'
<1>1. /\ Step(t, pc[t], at[t], next[t]) /\ CountersKept /\ (Silent \/ Taken(t)) /\ NoNewWaker
    BY WaitWakeEffect
<1>2. CASE Silent
    BY <1>1, <1>2, NothingKept DEF Step, WaitWakeStep
<1>3. CASE Taken(t)
    BY <1>1, <1>3, TakenKept
<1> QED
    BY <1>1, <1>2, <1>3

\* A worker that goes on in its work function.
LEMMA AtWorkKept ==
    ASSUME RegionInv, NEW t \in Workers, NEW l, NEW a, NEW n, Step(t, l, a, n),
           pc[t] \in InWork \/ (pc[t] = "run" /\ ~Waits(t)), l \in InWork,
           joined' = joined
    PROVE  t \in Members /\ t \notin joined /\ WorkerAt(t)'
<1>1. t \in Thread /\ t # main /\ WorkerAt(t)
    BY DEF RegionInv, Workers
<1>2. t \in Members
    BY <1>1, WorksAsMember
<1>3. ~Off(t) /\ pc[t] # "joinwake"
    BY DEF Off, InWork
<1>4. t \notin joined /\ ~Unwoken(t)
    BY <1>1, <1>2, <1>3 DEF WorkerAt
<1>5. pc'[t] = l /\ Members' = Members
    BY <1>1, StepFacts
<1>6. ~Off(t)' /\ pc'[t] # "joinwake"
    BY <1>5 DEF Off, InWork
<1>7. ~Unwoken(t)'
    BY <1>1, <1>4, UnwokenKept
<1> QED
    BY <1>2, <1>4, <1>5, <1>6, <1>7 DEF WorkerAt

LEMMA LocalKept ==
    ASSUME RegionInv, NEW t \in Thread, LocalStep(t)
    PROVE  RegionInv'
<1>1. PICK l, a : /\ LocalMove(t, l, a) /\ Step(t, l, a, next[t]) /\ CountersKept
                  /\ Silent /\ NoNewWaker
    BY LocalEffect
<1>2. /\ Types /\ Shape /\ Places(t) /\ main \in Thread /\ at[t] \in Nat
      /\ ~Waits(t) /\ ~Waits(t)' /\ ~Wakes(t)' /\ (HasPermit(t)' <=> HasPermit(t))
      /\ OthersQuiet(t)
    BY <1>1, ThreadFacts DEF RegionInv, Silent, OthersQuiet, LocalMove, NoNewWaker, Types
<1>3. /\ pc'[t] = l /\ at'[t] = a /\ next'[t] = next[t] /\ Size' = Size /\ work' = work
      /\ Members' = Members
    BY <1>1, StepFacts
<1>4. /\ pc[t] \in {"work", "install", "fill"} /\ l \in {"work", "install", "fill"}
      /\ at[t] \in DOMAIN work /\ DOMAIN work = 1 .. Len(work) /\ Len(work) \in Nat
      /\ a = at[t] \/ (a = at[t] + 1 /\ ~IsBarrier(at[t]))
      /\ l \in {"install", "fill"} => a \in DOMAIN work /\ work[a] = "thdprv"
    BY <1>1, <1>2 DEF LocalMove, Types
<1>5. Places(t)'
    BY <1>2, <1>3, <1>4 DEF Places, InWork
<1>6. \A u \in Thread : Unwoken(u)' <=> Unwoken(u)
    BY <1>1, <1>4, UnwokenKept
<1>7. t # main => t \notin joined /\ WorkerAt(t)'
    BY <1>1, <1>4, AtWorkKept DEF InWork, CountersKept, Workers
<1>8. JoinCount' /\ JoinWoken' /\ JoinWaker'
    BY <1>1, <1>2, <1>4, JoinKept DEF Silent
<1>9. BarrierInv'
  <2>1. ~Waking(t) /\ ~AtBarrier(t)' /\ ~AtBarrier(t) /\ ~Waking(t)' /\ ~Counted(t) /\ ~Counted(t)'
    BY <1>2, <1>3, <1>4 DEF Waking, AtBarrier, Counted
  <2>2. \A b \in Int : Called(t, b) => Called(t, b)'
    BY <1>1, <1>2, <1>3, <1>4, <2>1 DEF Called, CountersKept, InWork
  <2>3. ASSUME NEW b \in Int, IsBarrier(b), Released(t, b)' PROVE Released(t, b)
    BY <1>1, <1>2, <1>3, <1>4, <2>1, <2>3 DEF Released, CountersKept, InWork
  <2>4. \A u \in Members \ {t} : (HasPermit(u)' <=> HasPermit(u)) /\ (Waits(u)' <=> Waits(u))
    BY <1>2, MemberFacts DEF OthersQuiet
  <2>5. joined' = joined /\ team'.barrier_count = team.barrier_count
    BY <1>1 DEF CountersKept, Counters
  <2> QED
    BY <1>1, <1>4, <2>1, <2>2, <2>3, <2>4, <2>5, NonWakerBarrier
<1> QED
    BY <1>1, <1>2, <1>4, <1>5, <1>6, <1>7, <1>8, <1>9, QuietFrame, MemberFacts DEF CountersKept

\* The master and the workers begin their work.
LEMMA MasterWorkKept ==
    ASSUME RegionInv, MasterWork
    PROVE  RegionInv'
<1>1. /\ pc[main] = "assign" /\ ~Waits(main) /\ ~Wakes(main) /\ next[main] = Size
      /\ Step(main, "work", 1, 0) /\ CountersKept /\ Silent /\ NoNewWaker
    BY MasterWorkEffect
<1>2. /\ Types /\ Shape /\ Places(main) /\ main \in Thread /\ Len(work) \in Nat
      /\ ~Waits(main)' /\ ~Wakes(main)' /\ (HasPermit(main)' <=> HasPermit(main))
      /\ OthersQuiet(main) /\ joined' = joined
    BY <1>1, ThreadFacts DEF RegionInv, Silent, OthersQuiet, NoNewWaker, Types, CountersKept
<1>3. /\ pc'[main] = "work" /\ at'[main] = 1 /\ next'[main] = 0 /\ Size' = Size /\ work' = work
      /\ Members' = Members /\ local_id' = local_id
    BY <1>1, <1>2, StepFacts
<1>4. Places(main)'
    BY <1>1, <1>2, <1>3 DEF Places, InWork
<1>5. \A u \in Members : Unwoken(u)' <=> Unwoken(u)
    BY <1>1, <1>2, <1>3, MemberFacts DEF Unwoken
<1>6. JoinCount' /\ JoinWoken' /\ JoinWaker'
    BY <1>1, <1>2, JoinKept
<1>7. BarrierInv'
  <2>1. ~Waking(main) /\ ~AtBarrier(main)' /\ ~AtBarrier(main) /\ ~Waking(main)'
    BY <1>1, <1>2, <1>3 DEF Waking, AtBarrier
  <2>2. ~Counted(main) /\ ~Counted(main)' /\ main \notin joined
    BY <1>2, <2>1 DEF Counted, Types, Workers
  <2>3. \A b \in Int : (Called(main, b) => Called(main, b)')
    BY <1>1, <1>2, <2>2 DEF Called, InWork
  <2>4. \A b \in DOMAIN work : b \in Nat /\ b >= 1
    BY <1>2 DEF Types
  <2>5. ASSUME NEW b \in Int, IsBarrier(b), Released(main, b)' PROVE Released(main, b)
    BY <1>2, <1>3, <2>1, <2>2, <2>4, <2>5 DEF Released, InWork, IsBarrier
  <2>6. \A u \in Members \ {main} : (HasPermit(u)' <=> HasPermit(u)) /\ (Waits(u)' <=> Waits(u))
    BY <1>2, MemberFacts DEF OthersQuiet
  <2>7. joined' = joined /\ team'.barrier_count = team.barrier_count
    BY <1>1 DEF CountersKept, Counters
  <2> QED
    BY <1>1, <1>2, <2>1, <2>3, <2>5, <2>6, <2>7, NonWakerBarrier
<1> QED
    BY <1>1, <1>2, <1>4, <1>5, <1>6, <1>7, QuietFrame

LEMMA WorkerWorkKept ==
    ASSUME RegionInv, NEW t \in Workers, WorkerWork(t)
    PROVE  RegionInv'
<1>1. /\ pc[t] = "run" /\ ~Waits(t) /\ ~Wakes(t) /\ t \in Thread /\ t # main
      /\ Step(t, "work", 1, next[t]) /\ CountersKept /\ Silent /\ NoNewWaker
    BY WorkerWorkEffect DEF Workers
<1>2. /\ Types /\ Shape /\ Places(t) /\ main \in Thread /\ Len(work) \in Nat
      /\ ~Waits(t)' /\ ~Wakes(t)' /\ (HasPermit(t)' <=> HasPermit(t))
      /\ OthersQuiet(t) /\ joined' = joined
    BY <1>1, ThreadFacts DEF RegionInv, Silent, OthersQuiet, NoNewWaker, Types, CountersKept
<1>3. /\ pc'[t] = "work" /\ at'[t] = 1 /\ next'[t] = next[t] /\ Size' = Size /\ work' = work
      /\ Members' = Members
    BY <1>1, StepFacts
<1>4. Places(t)'
    BY <1>1, <1>2, <1>3 DEF Places, InWork
<1>5. \A u \in Thread : Unwoken(u)' <=> Unwoken(u)
    BY <1>1, UnwokenKept
<1>6. t \notin joined /\ WorkerAt(t)'
    BY <1>1, <1>2, AtWorkKept DEF InWork
<1>7. JoinCount' /\ JoinWoken' /\ JoinWaker'
    BY <1>1, <1>2, JoinKept DEF Silent
<1>8. BarrierInv'
  <2>1. ~Waking(t) /\ ~AtBarrier(t)' /\ ~AtBarrier(t) /\ ~Waking(t)' /\ ~Counted(t) /\ ~Counted(t)'
    BY <1>1, <1>2, <1>3 DEF Waking, AtBarrier, Counted
  <2>2. \A b \in Int : (Called(t, b) => Called(t, b)')
    BY <1>1, <1>2, <1>6 DEF Called, InWork
  <2>3. \A b \in DOMAIN work : b \in Nat /\ b >= 1
    BY <1>2 DEF Types
  <2>4. ASSUME NEW b \in Int, IsBarrier(b), Released(t, b)' PROVE Released(t, b)
    BY <1>2, <1>3, <1>6, <2>1, <2>3, <2>4 DEF Released, InWork, IsBarrier
  <2>5. \A u \in Members \ {t} : (HasPermit(u)' <=> HasPermit(u)) /\ (Waits(u)' <=> Waits(u))
    BY <1>2, MemberFacts DEF OthersQuiet
  <2>6. joined' = joined /\ team'.barrier_count = team.barrier_count
    BY <1>1 DEF CountersKept, Counters
  <2> QED
    BY <1>1, <1>2, <2>1, <2>2, <2>4, <2>5, <2>6, NonWakerBarrier
<1> QED
    BY <1>1, <1>2, <1>4, <1>5, <1>6, <1>7, <1>8, QuietFrame, MemberFacts

\* The master gets to its join.
LEMMA WorkDoneKept ==
    ASSUME RegionInv, MasterWorkDone
    PROVE  RegionInv'
<1>1. /\ pc[main] = "work" /\ ~Waits(main) /\ ~Wakes(main) /\ at[main] > Len(work)
      /\ Step(main, "join", at[main], next[main]) /\ CountersKept /\ Silent /\ NoNewWaker
    BY WorkDoneEffect
<1>2. /\ Types /\ Shape /\ Places(main) /\ main \in Thread /\ Len(work) \in Nat
      /\ ~Waits(main)' /\ ~Wakes(main)' /\ (HasPermit(main)' <=> HasPermit(main))
      /\ OthersQuiet(main) /\ joined' = joined /\ at[main] \in Nat
    BY <1>1, ThreadFacts DEF RegionInv, Silent, OthersQuiet, NoNewWaker, Types, CountersKept
<1>3. /\ pc'[main] = "join" /\ at'[main] = at[main] /\ next'[main] = next[main] /\ Size' = Size
      /\ work' = work /\ Members' = Members
    BY <1>1, <1>2, StepFacts
<1>4. Places(main)'
    BY <1>1, <1>2, <1>3 DEF Places, InWork
<1>5. \A u \in Thread : Unwoken(u)' <=> Unwoken(u)
    BY <1>1, <1>2, UnwokenKept
<1>6. JoinCount' /\ JoinWoken' /\ JoinWaker'
    BY <1>1, <1>2, JoinKept
<1>7. BarrierInv'
  <2>1. ~Waking(main) /\ ~AtBarrier(main)' /\ ~AtBarrier(main) /\ ~Waking(main)'
    BY <1>1, <1>2, <1>3 DEF Waking, AtBarrier
  <2>2. ~Counted(main) /\ ~Counted(main)'
    BY <2>1 DEF Counted
  <2>3. \A b \in Int : (Called(main, b) => Called(main, b)')
    BY <1>3 DEF Called
  <2>4. \A b \in DOMAIN work : b \in Nat /\ at[main] >= b + 1
    BY <1>1, <1>2 DEF Types
  <2>5. ASSUME NEW b \in Int, IsBarrier(b), Released(main, b)' PROVE Released(main, b)
    BY <1>1, <1>2, <2>2, <2>4, <2>5 DEF Released, InWork, IsBarrier
  <2>6. \A u \in Members \ {main} : (HasPermit(u)' <=> HasPermit(u)) /\ (Waits(u)' <=> Waits(u))
    BY <1>2, MemberFacts DEF OthersQuiet
  <2>7. joined' = joined /\ team'.barrier_count = team.barrier_count
    BY <1>1 DEF CountersKept, Counters
  <2> QED
    BY <1>1, <1>2, <2>1, <2>3, <2>5, <2>6, <2>7, NonWakerBarrier
<1> QED
    BY <1>1, <1>2, <1>4, <1>5, <1>6, <1>7, QuietFrame, MemberFacts

LEMMA RemainingFinite ==
    ASSUME Types, Shape
    PROVE  /\ IsFiniteSet(Remaining) /\ Cardinality(Remaining) \in Nat
           /\ Cardinality(Remaining) = 0 <=> Remaining = {}
<1>1. IsFiniteSet(Remaining)
    BY MembersFinite, FS_Subset DEF Remaining
<1> QED
    BY <1>1, FS_CardinalityType, FS_EmptySet

\* The master's steps from its join to the release keep the barrier.
LEMMA JoiningBarrier ==
    ASSUME RegionInv, Step(main, "release", at[main], next[main]), pc[main] = "join",
           OthersQuiet(main), joined' = joined, team'.barrier_count = team.barrier_count
    PROVE  BarrierInv'
<1>1. /\ Types /\ Shape /\ main \in Thread
    BY ThreadFacts DEF RegionInv
<1>2. pc'[main] = "release"
    BY <1>1, StepFacts
<1>3. ~Waking(main) /\ ~AtBarrier(main)' /\ ~AtBarrier(main)
    BY <1>2 DEF Waking, AtBarrier
<1>4. \A b \in Int : Called(main, b)' /\ Released(main, b)
    BY <1>2 DEF Called, Released
<1>5. \A u \in Members \ {main} : (HasPermit(u)' <=> HasPermit(u)) /\ (Waits(u)' <=> Waits(u))
    BY <1>1, MemberFacts DEF OthersQuiet
<1> QED
    BY <1>1, <1>3, <1>4, <1>5, NonWakerBarrier

LEMMA JoinSpinKept ==
    ASSUME RegionInv, MasterJoinSpin
    PROVE  RegionInv'
<1>1. /\ pc[main] = "join" /\ team.working_threads = 1
      /\ Step(main, "release", at[main], next[main]) /\ joined' = joined
      /\ Counters(0, team.barrier_count) /\ Silent /\ NoNewWaker
    BY JoinSpinEffect
<1>2. /\ Types /\ Shape /\ Places(main) /\ main \in Thread /\ Workers \subseteq Thread
      /\ OthersQuiet(main)
      /\ JoinCount /\ JoinWaker
    BY <1>1, ThreadFacts DEF RegionInv, Silent, OthersQuiet
<1>3. /\ pc'[main] = "release" /\ next'[main] = next[main] /\ at'[main] = at[main]
      /\ \A u \in Workers : pc'[u] = pc[u]
      /\ Members' = Members
    BY <1>1, <1>2, StepFacts DEF Workers
<1>4. (Waits(main)' <=> Waits(main)) /\ (HasPermit(main)' <=> HasPermit(main))
    BY <1>1, <1>2 DEF Silent
<1>5. Places(main)'
    BY <1>1, <1>2, <1>3, <1>4 DEF Places, InWork, NoNewWaker
<1>6. \A u \in Thread : Unwoken(u)' <=> Unwoken(u)
    BY <1>1, <1>2, UnwokenKept
<1>7. Remaining = {} /\ Remaining' = Remaining /\ Cardinality(Remaining) = 0
  <2>1. 1 = 1 + Cardinality(Remaining)
    BY <1>1, <1>2 DEF JoinCount
  <2>2. Cardinality(Remaining) \in Nat
    BY <1>2, RemainingFinite
  <2>3. Cardinality(Remaining) = 0
    BY <2>1, <2>2
  <2> QED
    BY <1>1, <1>2, <1>3, <2>3, RemainingFinite DEF Remaining
<1>8. JoinCount' /\ JoinWoken' /\ JoinWaker'
    BY <1>1, <1>2, <1>3, <1>7 DEF JoinCount, JoinWoken, JoinWaker, Counters
<1>9. BarrierInv'
    BY <1>1, <1>2, JoiningBarrier DEF Counters
<1> QED
    BY <1>1, <1>2, <1>5, <1>6, <1>8, <1>9, QuietFrame, MemberFacts

LEMMA MasterJoinKept ==
    ASSUME RegionInv, MasterJoin
    PROVE  RegionInv'
<1>1. /\ pc[main] = "join" /\ ~Waits(main) /\ ~Wakes(main)
      /\ Step(main, "release", at[main], next[main]) /\ joined' = joined
      /\ Counters(team.working_threads - 1, team.barrier_count) /\ NoNewWaker
      /\ IF team.working_threads > 1 THEN Entered(main) ELSE Silent
    BY MasterJoinEffect
<1>2. /\ Types /\ Shape /\ Places(main) /\ main \in Thread /\ Workers \subseteq Thread
      /\ OthersQuiet(main)
      /\ JoinCount /\ JoinWaker
    BY <1>1, ThreadFacts DEF RegionInv, Silent, Entered, OthersQuiet
<1>3. /\ pc'[main] = "release" /\ next'[main] = next[main] /\ at'[main] = at[main]
      /\ \A u \in Workers : pc'[u] = pc[u]
      /\ Members' = Members
    BY <1>1, <1>2, StepFacts DEF Workers
<1>4. ~HasPermit(main)' /\ ~Wakes(main)' /\ (Waits(main)' <=> team.working_threads > 1)
    BY <1>1, <1>2 DEF Silent, Entered, Places, NoNewWaker
<1>5. Places(main)'
    BY <1>1, <1>2, <1>3, <1>4 DEF Places, InWork
<1>6. \A u \in Thread : Unwoken(u)' <=> Unwoken(u)
    BY <1>1, <1>2, UnwokenKept
<1>7. /\ team.working_threads = 1 + Cardinality(Remaining) /\ Cardinality(Remaining) \in Nat
      /\ Cardinality(Remaining) = 0 <=> Remaining = {}
      /\ Remaining' = Remaining
    BY <1>1, <1>2, <1>3, RemainingFinite DEF JoinCount, Remaining
<1>8. JoinCount' /\ JoinWaker'
    BY <1>1, <1>2, <1>3, <1>7 DEF JoinCount, JoinWaker, Counters
<1>9. JoinWoken'
  <2>1. ~(team.working_threads > 1) => Cardinality(Remaining) = 0
    BY <1>7
  <2> QED
    BY <1>4, <1>7, <2>1 DEF JoinWoken
<1>10. BarrierInv'
    BY <1>1, <1>2, JoiningBarrier DEF Counters
<1> QED
    BY <1>1, <1>2, <1>5, <1>6, <1>8, <1>9, <1>10, QuietFrame, MemberFacts

\* A worker goes to wait for its next assignment.
LEMMA RestKept ==
    ASSUME RegionInv, NEW t \in Workers, NEW a \in Nat, Step(t, "run", a, next[t]), CountersKept,
           pc[t] \in {"created", "idle"}, ~Waits(t), Entered(t), NoNewWaker, ~Wakes(t)
    PROVE  RegionInv'
<1>1. /\ t \in Thread /\ t # main /\ Types /\ Shape /\ Places(t) /\ WorkerAt(t) /\ main \in Thread
      /\ OthersQuiet(t) /\ (HasPermit(t)' <=> HasPermit(t)) /\ Waits(t)' /\ ~Wakes(t)'
      /\ joined' = joined /\ team'.barrier_count = team.barrier_count
    BY ThreadFacts DEF RegionInv, Workers, Entered, OthersQuiet, NoNewWaker, CountersKept, Counters
<1>2. /\ pc'[t] = "run" /\ next'[t] = next[t] /\ Members' = Members
    BY <1>1, StepFacts
<1>3. Places(t)'
    BY <1>1, <1>2 DEF Places, InWork
<1>4. \A u \in Thread : Unwoken(u)' <=> Unwoken(u)
    BY <1>1, UnwokenKept
<1>5. WorkerAt(t)'
  <2>1. Off(t) /\ Off(t)'
    BY <1>1, <1>2 DEF Off
  <2> QED
    BY <1>1, <1>2, <1>4, <2>1 DEF WorkerAt
<1>6. JoinCount' /\ JoinWoken' /\ JoinWaker'
    BY <1>1, JoinKept DEF OthersQuiet
<1>7. BarrierInv'
  <2>1. ~Waking(t) /\ ~AtBarrier(t)' /\ ~AtBarrier(t) /\ ~Waking(t)'
    BY <1>2 DEF Waking, AtBarrier
  <2>2. \A b \in Int : (Called(t, b) => Called(t, b)') /\ (Released(t, b)' => Released(t, b))
    BY <1>1, <1>2 DEF Called, Released, InWork
  <2>3. \A u \in Members \ {t} : (HasPermit(u)' <=> HasPermit(u)) /\ (Waits(u)' <=> Waits(u))
    BY <1>1, MemberFacts DEF OthersQuiet
  <2> QED
    BY <1>1, <2>1, <2>2, <2>3, NonWakerBarrier
<1> QED
    BY <1>1, <1>3, <1>4, <1>5, <1>6, <1>7, QuietFrame, MemberFacts

\* A worker counts itself out of the team.
LEMMA WorkerJoinKept ==
    ASSUME RegionInv, NEW t \in Workers, WorkerJoin(t)
    PROVE  RegionInv'
<1> DEFINE l == IF team.working_threads = 1 THEN "joinwake" ELSE "idle"
<1>1. /\ t # main /\ pc[t] = "work" /\ ~Waits(t) /\ ~Wakes(t) /\ at[t] > Len(work)
      /\ Step(t, l, at[t], next[t])
      /\ joined' = joined \cup {t}
      /\ Counters(team.working_threads - 1, team.barrier_count)
      /\ Silent /\ NoNewWaker /\ t \in Thread
    BY WorkerJoinEffect DEF Workers
<1>2. /\ Types /\ Shape /\ Places(t) /\ WorkerAt(t) /\ main \in Thread /\ Workers \subseteq Thread
      /\ JoinCount /\ JoinWoken /\ JoinWaker
      /\ OthersQuiet(t) /\ (HasPermit(t)' <=> HasPermit(t)) /\ ~Waits(t)' /\ ~Wakes(t)'
      /\ (HasPermit(main)' <=> HasPermit(main)) /\ (Waits(main)' <=> Waits(main))
    BY <1>1, ThreadFacts DEF RegionInv, Silent, OthersQuiet, NoNewWaker
<1>3. l \in {"joinwake", "idle"}
    OBVIOUS
<1> HIDE DEF l
<1>4. /\ pc'[t] = l /\ next'[t] = next[t] /\ at'[t] = at[t] /\ Members' = Members
      /\ pc'[main] = pc[main] /\ work' = work
      /\ \A u \in Workers \ {t} : pc'[u] = pc[u]
    BY <1>1, <1>2, StepFacts
<1>5. t \in Members /\ pc[main] # "serial"
    BY <1>1, WorksAsMember DEF InWork
<1>6. ~Off(t) /\ ~HasPermit(t) /\ ~HasPermit(t)'
    BY <1>1, <1>2 DEF Off, Places
<1>7. t \notin joined /\ ~Unwoken(t)
    BY <1>1, <1>2, <1>5, <1>6 DEF WorkerAt
<1>8. \A u \in Thread : Unwoken(u)' <=> Unwoken(u)
    BY <1>1, UnwokenKept
<1>9. Places(t)'
    BY <1>1, <1>2, <1>3, <1>4, <1>6 DEF Places, InWork
<1>10. WorkerAt(t)'
  <2>1. Off(t)' \/ pc'[t] = "joinwake"
    BY <1>3, <1>4 DEF Off
  <2> QED
    BY <1>1, <1>4, <1>5, <1>6, <1>7, <1>8, <2>1 DEF WorkerAt
<1>11. /\ t \in Remaining /\ Remaining' = Remaining \ {t}
       /\ Cardinality(Remaining) \in Nat /\ Cardinality(Remaining') = Cardinality(Remaining) - 1
       /\ Cardinality(Remaining) = 1 => Remaining' = {}
  <2>1. t \in Remaining /\ Remaining' = Remaining \ {t}
    BY <1>1, <1>4, <1>5, <1>7 DEF Remaining
  <2>2. IsFiniteSet(Remaining) /\ Cardinality(Remaining) \in Nat
    BY <1>2, RemainingFinite
  <2>3. /\ IsFiniteSet(Remaining \ {t})
        /\ Cardinality(Remaining \ {t}) = Cardinality(Remaining) - 1
    BY <2>1, <2>2, FS_RemoveElement
  <2>4. Cardinality(Remaining \ {t}) = 0 => Remaining \ {t} = {}
    BY <2>3, FS_EmptySet
  <2> QED
    BY <2>1, <2>2, <2>3, <2>4
<1>12. JoinCount'
    BY <1>1, <1>2, <1>4, <1>5, <1>11 DEF JoinCount, Counters
<1>13. JoinWoken'
    BY <1>2, <1>4, <1>11 DEF JoinWoken
<1>14. JoinWaker'
  <2>1. \A u \in Workers : pc[u] # "joinwake"
    BY <1>2, <1>11 DEF JoinWaker
  <2>2. ASSUME l = "joinwake"
        PROVE  /\ pc'[main] = "release" /\ Waits(main)' /\ ~HasPermit(main)'
               /\ Remaining' = {}
    <3>1. team.working_threads = 1
        BY <2>2 DEF l
    <3>2. pc[main] = "release" /\ Cardinality(Remaining) = 1
      <4>1. Cardinality(Remaining) # 0
        BY <1>2, <1>11, RemainingFinite
      <4> QED
        BY <1>2, <1>5, <1>11, <3>1, <4>1 DEF JoinCount
    <3>3. Waits(main) /\ ~HasPermit(main)
        BY <1>2, <1>11, <3>2 DEF JoinWoken
    <3> QED
        BY <1>2, <1>4, <1>11, <3>2, <3>3
  <2>3. \A u \in Workers : pc'[u] = "joinwake" => u = t /\ l = "joinwake"
    BY <1>4, <2>1
  <2> QED
    BY <2>2, <2>3 DEF JoinWaker
<1>15. BarrierInv'
  <2>1. ~Waking(t) /\ ~AtBarrier(t)' /\ ~AtBarrier(t) /\ ~Waking(t)' /\ ~Counted(t)
    BY <1>1, <1>3, <1>4 DEF Waking, AtBarrier, Counted
  <2>2. \A b \in Int : Called(t, b)'
    BY <1>1 DEF Called
  <2>3. \A b \in DOMAIN work : b \in Nat /\ at[t] >= b + 1 /\ at[t] \in Nat
    BY <1>1, <1>2 DEF Types
  <2>4. ASSUME NEW b \in Int, IsBarrier(b) PROVE Released(t, b)
    BY <1>1, <2>1, <2>3, <2>4 DEF Released, InWork, IsBarrier
  <2>5. \A u \in Members \ {t} : (HasPermit(u)' <=> HasPermit(u)) /\ (Waits(u)' <=> Waits(u))
    BY <1>2, MemberFacts DEF OthersQuiet
  <2>6. /\ joined \subseteq joined' /\ joined' \subseteq joined \cup {t}
        /\ team'.barrier_count = team.barrier_count
        /\ l # "serial" /\ l \notin {"reset", "wakeall"}
    BY <1>1, <1>3 DEF Counters
  <2> QED
    BY <1>1, <2>1, <2>2, <2>4, <2>5, <2>6, NonWakerBarrier
<1> QED
    BY <1>1, <1>2, <1>3, <1>8, <1>9, <1>10, <1>12, <1>13, <1>14, <1>15, QuietFrame, MemberFacts

\* The last worker out wakes the master.
LEMMA JoinWakeKept ==
    ASSUME RegionInv, NEW t \in Thread, WorkerJoinWake(t)
    PROVE  RegionInv'
<1>1. /\ t \in Workers /\ t # main /\ pc[t] = "joinwake" /\ ~Waits(t) /\ ~HasPermit(main)
      /\ Step(t, "idle", at[t], next[t]) /\ CountersKept
      /\ Given(main) /\ WakersButFor(t)
    BY JoinWakeEffect DEF Workers
<1>2. /\ Types /\ Shape /\ Places(t) /\ WorkerAt(t) /\ main \in Thread /\ Workers \subseteq Thread
      /\ JoinCount /\ JoinWaker
      /\ joined' = joined /\ team'.barrier_count = team.barrier_count
    BY <1>1, ThreadFacts DEF RegionInv, CountersKept, Counters
<1>3. /\ \A u \in Thread : Waits(u)' <=> Waits(u)
      /\ \A u \in Thread \ {main} : HasPermit(u)' <=> HasPermit(u)
    BY <1>1 DEF Given
<1>4. /\ pc'[t] = "idle" /\ next'[t] = next[t] /\ Members' = Members /\ pc'[main] = pc[main]
      /\ \A u \in Workers \ {t} : pc'[u] = pc[u]
    BY <1>1, <1>2, StepFacts
<1>5. /\ pc[main] = "release" /\ Waits(main) /\ Remaining = {}
      /\ \A u \in Workers : pc[u] = "joinwake" => u = t
    BY <1>1, <1>2 DEF JoinWaker
<1>6. t \in Members
    BY <1>1, WorksAsMember
<1>7. t \in joined /\ ~HasPermit(t) /\ ~Unwoken(t)
  <2>1. ~Off(t)
    BY <1>1 DEF Off
  <2> QED
    BY <1>1, <1>2, <1>6, <2>1 DEF WorkerAt
<1>8. Places(t)'
    BY <1>1, <1>2, <1>3, <1>4 DEF Places, InWork
<1>9. \A u \in Thread : Places(u)'
    BY <1>1, <1>2, <1>3, <1>5, <1>8, PlacesKept
<1>10. \A u \in Thread : Unwoken(u)' <=> Unwoken(u)
    BY <1>1, UnwokenKept
<1>11. WorkerAt(t)'
  <2>1. Off(t)' /\ ~HasPermit(t)'
    BY <1>1, <1>3, <1>4, <1>7 DEF Off
  <2> QED
    BY <1>2, <1>4, <1>6, <1>7, <1>10, <2>1 DEF WorkerAt
<1>12. \A u \in Workers : WorkerAt(u)'
  <2> SUFFICES ASSUME NEW u \in Workers, u # t PROVE WorkerAt(u)'
    BY <1>11
  <2>1. (HasPermit(u)' <=> HasPermit(u)) /\ (Waits(u)' <=> Waits(u)) /\ (Unwoken(u)' <=> Unwoken(u))
    BY <1>3, <1>10 DEF Workers
  <2> QED
    BY <1>1, <1>2, <2>1, WorkerKept
<1>13. JoinCount' /\ JoinWoken' /\ JoinWaker'
  <2>1. Remaining' = Remaining /\ team'.working_threads = team.working_threads
    BY <1>1, <1>2, <1>4 DEF Remaining, CountersKept, Counters
  <2>2. \A u \in Workers : pc'[u] # "joinwake"
    BY <1>4, <1>5
  <2> QED
    BY <1>2, <1>4, <1>5, <2>1, <2>2 DEF JoinCount, JoinWoken, JoinWaker
<1>14. BarrierInv'
  <2>1. ~Waking(t) /\ ~AtBarrier(t)' /\ ~AtBarrier(t)
    BY <1>1, <1>4 DEF Waking, AtBarrier
  <2>2. \A b \in Int : Called(t, b)' /\ Released(t, b)
    BY <1>2, <1>7 DEF Called, Released
  <2>3. \A u \in Members \ {t} : pc[u] = "work" =>
            (HasPermit(u)' <=> HasPermit(u)) /\ (Waits(u)' <=> Waits(u))
    BY <1>2, <1>3, <1>5, MemberFacts
  <2> QED
    BY <1>1, <1>2, <2>1, <2>2, <2>3, NonWakerBarrier
<1>15. Shape'
    BY <1>1, ShapeKept
<1> QED
    BY <1>1, <1>9, <1>12, <1>13, <1>14, <1>15 DEF RegionInv, Step

\* The master wakes a worker of its new team.
LEMMA AssignWakeKept ==
    ASSUME RegionInv, AssignWake
    PROVE  RegionInv'
<1>1. /\ pc[main] = "assign" /\ ~Waits(main) /\ ~Wakes(main) /\ next[main] < Size
      /\ Step(main, "assign", at[main], next[main] + 1) /\ CountersKept
      /\ WakersButFor(main)
    BY AssignWakeEffect
<1>2. PICK w \in Members \ {main} : /\ local_id[w] = next[main] /\ w \notin joined
                                    /\ Off(w) /\ Given(w) /\ ~HasPermit(w)
    BY AssignWakeEffect
<1>3. /\ Types /\ Shape /\ Places(main) /\ main \in Thread /\ Workers \subseteq Thread
      /\ joined' = joined /\ team'.barrier_count = team.barrier_count
    BY <1>1, ThreadFacts DEF RegionInv, CountersKept, Counters
<1>4. /\ \A u \in Thread : Waits(u)' <=> Waits(u)
      /\ \A u \in Thread \ {w} : HasPermit(u)' <=> HasPermit(u)
      /\ HasPermit(w)' /\ w \in Thread /\ w \in Workers
    BY <1>2, <1>3, MemberFacts DEF Given, Workers
<1>5. /\ pc'[main] = "assign" /\ next'[main] = next[main] + 1 /\ Members' = Members
      /\ Size' = Size /\ work' = work /\ local_id' = local_id
      /\ \A u \in Workers : pc'[u] = pc[u]
    BY <1>1, <1>3, StepFacts DEF Workers
<1>6. next[main] \in Nat /\ Size \in Nat /\ next[main] + 1 \in 1 .. Size
    BY <1>1, <1>3, MemberFacts DEF Types
<1>7. Places(main)'
    BY <1>1, <1>2, <1>3, <1>4, <1>5, <1>6 DEF Places, InWork
<1>8. \A u \in Thread : Places(u)'
  <2>1. Waits(w) \/ pc[w] \in {"created", "idle"}
    BY <1>2 DEF Off
  <2>2. \A u \in Thread \ {main} :
            /\ Waits(u)' <=> Waits(u)
            /\ HasPermit(u)' => HasPermit(u) \/ Waits(u) \/ pc[u] \in {"created", "idle"}
    BY <1>4, <2>1
  <2> QED
    BY <1>1, <1>3, <1>7, <2>2, PlacesKept
<1>9. \A u \in Members : local_id[u] \in Int /\ (local_id[u] = next[main] => u = w)
    BY <1>2, <1>3, MemberFacts
<1>10. \A u \in Members \ {w} : Unwoken(u)' <=> Unwoken(u)
    BY <1>1, <1>5, <1>6, <1>9 DEF Unwoken
<1>11. WorkerAt(w)'
  <2>1. Off(w)' /\ ~Unwoken(w)'
    BY <1>2, <1>4, <1>5, <1>6 DEF Off, Unwoken
  <2> QED
    BY <1>2, <1>3, <1>4, <1>5, <2>1 DEF WorkerAt
<1>12. \A u \in Workers : WorkerAt(u)'
  <2> SUFFICES ASSUME NEW u \in Workers, u # w PROVE WorkerAt(u)'
    BY <1>11
  <2>1. /\ (HasPermit(u)' <=> HasPermit(u)) /\ (Waits(u)' <=> Waits(u)) /\ u # main
        /\ u \in Members => (Unwoken(u)' <=> Unwoken(u))
    BY <1>4, <1>10 DEF Workers
  <2> QED
    BY <1>1, <1>3, <2>1, WorkerKept
<1>13. JoinCount' /\ JoinWoken' /\ JoinWaker'
    BY <1>1, <1>3, JoinKept
<1>14. BarrierInv'
  <2>1. ~Waking(main) /\ ~AtBarrier(main)' /\ ~AtBarrier(main) /\ ~Waking(main)'
    BY <1>1, <1>5 DEF Waking, AtBarrier
  <2>2. \A b \in Int : (Called(main, b) => Called(main, b)') /\ (Released(main, b)' => Released(main, b))
    BY <1>1, <1>3, <1>5 DEF Called, Released, InWork
  <2>3. pc[w] # "work"
    BY <1>2 DEF Off
  <2>4. \A u \in Members \ {main} : pc[u] = "work" =>
            (HasPermit(u)' <=> HasPermit(u)) /\ (Waits(u)' <=> Waits(u))
    BY <1>3, <1>4, <2>3, MemberFacts
  <2> QED
    BY <1>1, <1>3, <2>1, <2>2, <2>4, NonWakerBarrier
<1>15. Shape'
    BY <1>1, <1>3, ShapeKept
<1> QED
    BY <1>1, <1>8, <1>12, <1>13, <1>14, <1>15 DEF RegionInv, Step
-----------------------------------------------------------------------------
(***************************************************************************)
(* The barrier's own steps                                                 *)
(***************************************************************************)
\* A barrier of a team of one.
LEMMA AloneKept ==
    ASSUME RegionInv, NEW t \in Thread, BarrierArrive(t), Size = 1
    PROVE  RegionInv'
<1>1. /\ AtCall(t) /\ NoNewWaker
      /\ Step(t, "work", at[t] + 1, next[t]) /\ CountersKept /\ Silent
    BY ArriveEffect
<1>2. /\ Types /\ Shape /\ Places(t) /\ main \in Thread /\ at[t] \in Nat /\ Len(work) \in Nat
      /\ DOMAIN work = 1 .. Len(work)
      /\ joined' = joined /\ team'.barrier_count = team.barrier_count
      /\ pc[t] = "work" /\ ~Waits(t) /\ IsBarrier(at[t])
      /\ ~Waits(t)' /\ ~Wakes(t)' /\ (HasPermit(t)' <=> HasPermit(t)) /\ OthersQuiet(t)
    BY <1>1, ThreadFacts
       DEF RegionInv, CountersKept, Counters, AtCall, Silent, NoNewWaker, OthersQuiet, Types
<1>3. /\ pc'[t] = "work" /\ at'[t] = at[t] + 1 /\ next'[t] = next[t] /\ Size' = Size
      /\ work' = work /\ Members' = Members
    BY <1>1, StepFacts
<1>4. Places(t)'
    BY <1>2, <1>3 DEF Places, InWork, IsBarrier
<1>5. \A u \in Thread : Unwoken(u)' <=> Unwoken(u)
    BY <1>1, <1>2, UnwokenKept
<1>6. t # main => WorkerAt(t)'
    BY <1>1, <1>2, AtWorkKept DEF InWork, Workers
<1>7. JoinCount' /\ JoinWoken' /\ JoinWaker'
    BY <1>1, <1>2, JoinKept DEF Silent
<1>8. Members = {t}
  <2>1. t \in Members
    BY <1>2, WorksAsMember DEF InWork
  <2>2. \A u \in Members : local_id[u] \in 0 .. 0 /\ u = Member(local_id[u])
    BY <1>2, MemberFacts
  <2>3. \A u \in Members : u = Member(0)
    BY <2>2
  <2> QED
    BY <2>1, <2>3
<1>9. BarrierInv'
  <2>1. ~Counted(t) /\ ~Counted(t)' /\ ~Waking(t)' /\ ~AtBarrier(t)'
    BY <1>2, <1>3 DEF Counted, AtBarrier, Waking
  <2>2. OneWaker' /\ PendingWaits' /\ WaitsAtBarrier'
    BY <1>3, <1>8, <2>1 DEF OneWaker, PendingWaits, WaitsAtBarrier, PendingBy
  <2>3. BarrierCount'
    BY <1>1, <1>2, <1>3, <1>8, <2>1, CountKept
  <2>4. ReleasedCalled'
    <3>1. \A b \in Int : Released(t, b)' => Called(t, b)'
        BY <1>2, <1>3 DEF Released, Called
    <3>2. \A b \in DOMAIN work : b \in Int
        BY <1>2
    <3> QED
        BY <1>3, <1>8, <3>1, <3>2 DEF ReleasedCalled
  <2>5. CountedHolds'
    BY <1>3, <1>8, <2>1 DEF CountedHolds
  <2> QED
    BY <2>2, <2>3, <2>4, <2>5 DEF BarrierInv
<1> QED
    BY <1>1, <1>2, <1>4, <1>5, <1>6, <1>7, <1>9, QuietFrame, MemberFacts

\* What holds of a thread that is about to count itself at a barrier.
LEMMA AtCallFacts ==
    ASSUME RegionInv, NEW t \in Thread, AtCall(t)
    PROVE  /\ t \in Members /\ t \notin joined /\ pc[main] # "serial"
           /\ ~HasPermit(t) /\ ~Counted(t) /\ ~Waking(t) /\ ~AtBarrier(t)
           /\ \A k \in Members : ~PendingBy(k, t) /\ pc[k] # "reset"
           /\ ~Called(t, at[t])
           /\ \A u \in Members : ~Released(u, at[t])
<1>1. /\ Types /\ Shape /\ Places(t) /\ BarrierInv /\ pc[t] = "work" /\ ~Waits(t) /\ IsBarrier(at[t])
    BY DEF RegionInv, AtCall
<1>2. t \in Members /\ pc[main] # "serial"
    BY <1>1, WorksAsMember DEF InWork
<1>3. t \notin joined
  <2>1. CASE t = main
    BY <1>1, <2>1 DEF Types, Workers
  <2>2. CASE t # main
    <3>1. WorkerAt(t) /\ ~Off(t)
        BY <1>1, <2>2 DEF RegionInv, Workers, Off
    <3> QED
        BY <1>1, <1>2, <3>1 DEF WorkerAt
  <2> QED
    BY <2>1, <2>2
<1>4. ~HasPermit(t) /\ ~Counted(t) /\ ~Waking(t) /\ ~AtBarrier(t)
    BY <1>1 DEF Places, Counted, Waking, AtBarrier
<1>5. \A k \in Members : ~PendingBy(k, t)
    BY <1>1, <1>2, <1>4 DEF BarrierInv, PendingWaits
<1>6. \A k \in Members : pc[k] # "reset"
    BY <1>1, <1>5 DEF PendingBy
<1>7. ~Called(t, at[t])
    BY <1>1, <1>3, <1>4 DEF Called, Types
<1>8. \A u \in Members : ~Released(u, at[t])
    BY <1>1, <1>2, <1>7 DEF BarrierInv, ReleasedCalled, IsBarrier
<1> QED
    BY <1>2, <1>3, <1>4, <1>5, <1>6, <1>7, <1>8

LEMMA UncountedFinite ==
    ASSUME Types, Shape
    PROVE  IsFiniteSet(Uncounted) /\ Cardinality(Uncounted) \in Nat
<1>1. IsFiniteSet(Uncounted)
    BY MembersFinite, FS_Subset DEF Uncounted
<1> QED
    BY <1>1, FS_CardinalityType

\* A thread that is not the last to arrive counts itself and waits.
LEMMA ArriveWaitKept ==
    ASSUME RegionInv, NEW t \in Thread, BarrierArrive(t), Size # 1, team.barrier_count > 1
    PROVE  RegionInv'
<1>1. /\ AtCall(t) /\ NoNewWaker /\ joined' = joined
      /\ Counters(team.working_threads, team.barrier_count - 1)
      /\ Step(t, "work", at[t] + 1, next[t]) /\ Entered(t)
    BY ArriveEffect
<1>2. /\ Types /\ Shape /\ Places(t) /\ BarrierInv /\ main \in Thread /\ at[t] \in Nat
      /\ Len(work) \in Nat /\ DOMAIN work = 1 .. Len(work)
      /\ pc[t] = "work" /\ ~Waits(t) /\ IsBarrier(at[t])
      /\ Waits(t)' /\ ~Wakes(t)' /\ (HasPermit(t)' <=> HasPermit(t)) /\ OthersQuiet(t)
  <2>1. /\ Types /\ Shape /\ Places(t) /\ BarrierInv /\ main \in Thread
        /\ pc[t] = "work" /\ ~Waits(t) /\ ~Wakes(t) /\ IsBarrier(at[t])
    BY <1>1, ThreadFacts DEF RegionInv, AtCall
  <2>2. at[t] \in Nat /\ Len(work) \in Nat /\ DOMAIN work = 1 .. Len(work)
    BY <2>1 DEF Types
  <2>3. Waits(t)' /\ (HasPermit(t)' <=> HasPermit(t)) /\ OthersQuiet(t)
    BY <1>1 DEF Entered, OthersQuiet
  <2>4. ~Wakes(t)'
    BY <1>1, <2>1 DEF NoNewWaker
  <2> QED
    BY <2>1, <2>2, <2>3, <2>4
<1>3. /\ pc'[t] = "work" /\ at'[t] = at[t] + 1 /\ next'[t] = next[t] /\ Size' = Size
      /\ work' = work /\ Members' = Members /\ local_id' = local_id
      /\ \A u \in Thread \ {t} : pc'[u] = pc[u] /\ at'[u] = at[u] /\ next'[u] = next[u]
    BY <1>1, StepFacts
<1>4. /\ t \in Members /\ t \notin joined /\ pc[main] # "serial"
      /\ ~HasPermit(t) /\ ~Counted(t) /\ ~Waking(t) /\ ~AtBarrier(t)
      /\ \A k \in Members : ~PendingBy(k, t) /\ pc[k] # "reset"
      /\ \A u \in Members : ~Released(u, at[t])
    BY <1>1, AtCallFacts
<1>5. Places(t)'
  <2>1. at'[t] \in 1 .. Len(work') + 1
    BY <1>2, <1>3 DEF IsBarrier
  <2>2. pc'[t] = pc[t] /\ next'[t] = next[t] /\ Waits(t)' /\ ~Wakes(t)' /\ ~HasPermit(t)'
    BY <1>2, <1>3, <1>4
  <2> QED
    BY <1>2, <2>1, <2>2 DEF Places, InWork
<1>6. \A u \in Thread : Unwoken(u)' <=> Unwoken(u)
    BY <1>1, <1>2, UnwokenKept
<1>7. t # main => WorkerAt(t)'
    BY <1>1, <1>2, AtWorkKept DEF InWork, Workers
<1>8. JoinCount' /\ JoinWoken' /\ JoinWaker'
  <2>1. pc[main] = "release" => t # main
    BY <1>2
  <2>2. pc[main] = "release" => (HasPermit(main)' <=> HasPermit(main)) /\ (Waits(main)' <=> Waits(main))
    BY <1>2, <2>1 DEF OthersQuiet
  <2> QED
    BY <1>1, <1>2, <2>2, JoinFrame DEF Counters
<1>9. \A u \in Members : u \in Thread
    BY <1>2, MemberFacts
<1>10. \A k, u \in Members : PendingBy(k, u)' <=> PendingBy(k, u)
    BY <1>2, <1>3, <1>9 DEF PendingBy
<1>11. AtBarrier(t)' /\ Counted(t)' /\ ~Waking(t)'
    BY <1>2, <1>3, <1>4, <1>10 DEF Counted, AtBarrier, Waking
<1>12. \A u \in Members \ {t} : /\ pc'[u] = pc[u] /\ at'[u] = at[u]
                                /\ HasPermit(u)' <=> HasPermit(u)
                                /\ AtBarrier(u)' <=> AtBarrier(u)
                                /\ Counted(u)' <=> Counted(u)
                                /\ Waking(u)' <=> Waking(u)
    BY <1>2, <1>3, <1>9, <1>10 DEF AtBarrier, Counted, Waking, OthersQuiet
<1>13. OneWaker'
    BY <1>2, <1>3, <1>11, <1>12 DEF BarrierInv, OneWaker, IsBarrier
<1>14. PendingWaits'
  <2> SUFFICES ASSUME NEW k \in Members, NEW u \in Members, PendingBy(k, u)'
               PROVE  AtBarrier(u)' /\ ~HasPermit(u)' /\ at'[u] = at'[k] + 1
    BY <1>3 DEF PendingWaits
  <2>1. PendingBy(k, u) /\ AtBarrier(u) /\ ~HasPermit(u) /\ at[u] = at[k] + 1
    BY <1>2, <1>10 DEF BarrierInv, PendingWaits
  <2>2. k # t /\ u # t
    BY <1>4, <2>1 DEF PendingBy, Waking
  <2> QED
    BY <1>12, <2>1, <2>2
<1>15. WaitsAtBarrier'
  <2>1. at'[t] - 1 = at[t]
    BY <1>2, <1>3
  <2> QED
    BY <1>2, <1>3, <1>12, <2>1 DEF BarrierInv, WaitsAtBarrier, IsBarrier
<1>16. BarrierCount'
  <2>1. team.barrier_count = Cardinality(Uncounted)
    BY <1>2, <1>4 DEF BarrierInv, BarrierCount
  <2>2. Uncounted' = Uncounted \ {t} /\ t \in Uncounted
    BY <1>3, <1>4, <1>11, <1>12 DEF Uncounted
  <2>3. Cardinality(Uncounted') = Cardinality(Uncounted) - 1
    BY <1>2, <2>2, UncountedFinite, FS_RemoveElement
  <2>4. \A k \in Members : pc'[k] # "reset"
    BY <1>3, <1>4, <1>12
  <2> QED
    BY <1>1, <1>3, <2>1, <2>3, <2>4 DEF BarrierCount, Counters
<1>17. \A u \in Members : \A b \in Int : Called(u, b) => Called(u, b)'
    BY <1>1, <1>2, <1>3, <1>4, <1>12 DEF Called
<1>18. \A u \in Members : \A b \in Int : Released(u, b)' => Released(u, b)
  <2>1. ASSUME NEW b \in Int, Released(t, b)' PROVE Released(t, b)
    BY <1>1, <1>2, <1>3, <1>4, <1>11, <2>1 DEF Released
  <2>2. ASSUME NEW u \in Members \ {t}, NEW b \in Int, Released(u, b)' PROVE Released(u, b)
    BY <1>1, <1>12, <2>2 DEF Released
  <2> QED
    BY <2>1, <2>2
<1>19. \A b \in DOMAIN work : b \in Int
    BY <1>2
<1>20. ReleasedCalled'
    BY <1>2, <1>3, <1>17, <1>18, <1>19 DEF BarrierInv, ReleasedCalled, IsBarrier
<1>21. CountedHolds'
  <2> SUFFICES ASSUME NEW c \in Members, NEW v \in Members, NEW b \in DOMAIN work,
                      Counted(c)', at'[c] = b + 1, Released(v, b)'
               PROVE  FALSE
    BY <1>3 DEF CountedHolds
  <2>1. Released(v, b)
    BY <1>18, <1>19
  <2>2. CASE c = t
    <3>1. at[t] = b
        BY <1>2, <1>3, <1>19, <2>2
    <3> QED
        BY <1>4, <2>1, <3>1
  <2>3. CASE c # t
    BY <1>2, <1>12, <2>1, <2>3 DEF BarrierInv, CountedHolds
  <2> QED
    BY <2>2, <2>3
<1>22. BarrierInv'
    BY <1>13, <1>14, <1>15, <1>16, <1>20, <1>21 DEF BarrierInv
<1> QED
    BY <1>1, <1>2, <1>5, <1>6, <1>7, <1>8, <1>22, QuietFrame, MemberFacts

LEMMA WorkingUnjoined ==
    ASSUME RegionInv, NEW u \in Thread, pc[u] \in InWork
    PROVE  u \in Members /\ u \notin joined
<1>1. u \in Members
    BY WorksAsMember
<1>2. CASE u = main
    BY <1>1, <1>2 DEF RegionInv, Types, Workers
<1>3. CASE u # main
  <2>1. WorkerAt(u) /\ ~Off(u) /\ pc[u] # "joinwake"
    BY <1>3 DEF RegionInv, Workers, Off, InWork
  <2> QED
    BY <1>1, <2>1 DEF WorkerAt
<1> QED
    BY <1>2, <1>3

\* When the last thread arrives, all the others wait in the same barrier.
LEMMA LastArrives ==
    ASSUME RegionInv, NEW t \in Thread, AtCall(t), team.barrier_count <= 1
    PROVE  /\ team.barrier_count = 1
           /\ \A u \in Members \ {t} :
                /\ Counted(u) /\ u \notin joined /\ pc[u] = "work" /\ ~HasPermit(u)
                /\ at[u] = at[t] + 1
<1>1. /\ Types /\ Shape /\ BarrierInv /\ pc[t] = "work" /\ IsBarrier(at[t])
    BY DEF RegionInv, AtCall
<1>2. /\ t \in Members /\ t \notin joined /\ pc[main] # "serial" /\ ~Counted(t)
      /\ \A k \in Members : pc[k] # "reset"
      /\ \A u \in Members : ~Released(u, at[t])
    BY AtCallFacts
<1>3. team.barrier_count = Cardinality(Uncounted)
    BY <1>1, <1>2 DEF BarrierInv, BarrierCount
<1>4. t \in Uncounted
    BY <1>2 DEF Uncounted
<1>5. IsFiniteSet(Uncounted) /\ Cardinality(Uncounted) \in Nat
    BY <1>1, UncountedFinite
<1>6. /\ Cardinality(Uncounted \ {t}) = Cardinality(Uncounted) - 1
      /\ IsFiniteSet(Uncounted \ {t})
    BY <1>4, <1>5, FS_RemoveElement
<1>7. Cardinality(Uncounted \ {t}) \in Nat
    BY <1>6, FS_CardinalityType
<1>8. team.barrier_count = 1 /\ Cardinality(Uncounted \ {t}) = 0
    BY <1>3, <1>5, <1>6, <1>7
<1>9. Uncounted \ {t} = {}
    BY <1>6, <1>8, FS_EmptySet
<1>10. ASSUME NEW u \in Members \ {t}
       PROVE  /\ Counted(u) /\ u \notin joined /\ pc[u] = "work" /\ ~HasPermit(u)
              /\ at[u] = at[t] + 1
  <2>1. Counted(u) /\ pc[u] = "work" /\ ~HasPermit(u) /\ u \in Thread
    BY <1>1, <1>9, MemberFacts DEF Uncounted, Counted, AtBarrier
  <2>2. u \notin joined
    BY <2>1, WorkingUnjoined DEF InWork
  <2>3. at[u] \in Nat /\ at[t] \in Nat /\ IsBarrier(at[u] - 1)
    BY <1>1, <2>1 DEF Types, BarrierInv, WaitsAtBarrier, Counted
  <2>4. ~(at[u] > at[t] + 1)
    BY <1>2, <2>1 DEF Released, InWork
  <2>5. ~(at[u] < at[t] + 1)
    <3>1. PICK b \in DOMAIN work : b = at[u] - 1
        BY <2>3 DEF IsBarrier
    <3>2. at[u] = b + 1 /\ b \in Int
        BY <2>3, <3>1
    <3>3. ~Released(t, b)
        BY <1>1, <1>2, <2>1, <3>2 DEF BarrierInv, CountedHolds
    <3>4. ~(at[t] > b + 1) /\ ~(at[t] = b + 1)
        BY <1>1, <1>2, <3>3 DEF Released, InWork
    <3> QED
        BY <2>3, <3>2, <3>4
  <2> QED
    BY <2>1, <2>2, <2>3, <2>4, <2>5
<1> QED
    BY <1>8, <1>10

LEMMA ArriveLastKept ==
    ASSUME RegionInv, NEW t \in Thread, BarrierArrive(t), Size # 1, ~(team.barrier_count > 1)
    PROVE  RegionInv'
<1>1. /\ AtCall(t) /\ NoNewWaker /\ joined' = joined
      /\ Counters(team.working_threads, team.barrier_count - 1)
      /\ Step(t, "reset", at[t], next[t]) /\ Silent
    BY ArriveEffect
<1>2. /\ Types /\ Shape /\ Places(t) /\ BarrierInv /\ main \in Thread
      /\ pc[t] = "work" /\ ~Waits(t) /\ ~Wakes(t) /\ IsBarrier(at[t])
    BY <1>1, ThreadFacts DEF RegionInv, AtCall
<1>3. at[t] \in Nat /\ Len(work) \in Nat /\ DOMAIN work = 1 .. Len(work)
      /\ team.barrier_count \in Int
    BY <1>2, TeamFields DEF Types
<1>4. /\ ~Waits(t)' /\ ~Wakes(t)' /\ (HasPermit(t)' <=> HasPermit(t)) /\ OthersQuiet(t)
    BY <1>1, <1>2 DEF Silent, NoNewWaker, OthersQuiet
<1>5. /\ pc'[t] = "reset" /\ at'[t] = at[t] /\ next'[t] = next[t] /\ Size' = Size
      /\ work' = work /\ Members' = Members /\ local_id' = local_id
      /\ \A u \in Thread \ {t} : pc'[u] = pc[u] /\ at'[u] = at[u] /\ next'[u] = next[u]
    BY <1>1, StepFacts
<1>6. t \in Members /\ t \notin joined /\ pc[main] # "serial" /\ ~HasPermit(t)
    BY <1>1, AtCallFacts
<1>7. /\ team.barrier_count = 1
      /\ \A u \in Members \ {t} :
            /\ Counted(u) /\ u \notin joined /\ pc[u] = "work" /\ ~HasPermit(u)
            /\ at[u] = at[t] + 1
    BY <1>1, <1>3, LastArrives
<1>8. Places(t)'
    BY <1>2, <1>4, <1>5, <1>6 DEF Places, InWork
<1>9. \A u \in Thread : Unwoken(u)' <=> Unwoken(u)
    BY <1>1, <1>2, UnwokenKept
<1>10. t # main => WorkerAt(t)'
    BY <1>1, <1>2, AtWorkKept DEF InWork, Workers
<1>11. JoinCount' /\ JoinWoken' /\ JoinWaker'
  <2>1. (HasPermit(main)' <=> HasPermit(main)) /\ (Waits(main)' <=> Waits(main))
    BY <1>1, <1>2 DEF Silent
  <2> QED
    BY <1>1, <1>2, <2>1, JoinFrame DEF Counters
<1>12. \A u \in Members : u \in Thread
    BY <1>2, MemberFacts
<1>13. \A u \in Members \ {t} : /\ pc'[u] = "work" /\ at'[u] = at[t] + 1 /\ ~HasPermit(u)'
                                /\ AtBarrier(u)' /\ ~Waking(u)' /\ PendingBy(t, u)'
  <2> SUFFICES ASSUME NEW u \in Members \ {t}
               PROVE  /\ pc'[u] = "work" /\ at'[u] = at[t] + 1 /\ ~HasPermit(u)'
                      /\ AtBarrier(u)' /\ ~Waking(u)' /\ PendingBy(t, u)'
    OBVIOUS
  <2>1. pc'[u] = "work" /\ at'[u] = at[t] + 1 /\ ~HasPermit(u)' /\ Waits(u)'
    BY <1>1, <1>5, <1>7, <1>12 DEF Counted, AtBarrier, Silent
  <2> QED
    BY <1>5, <2>1 DEF AtBarrier, Waking, PendingBy
<1>14. \A u \in Members : ~Counted(u)'
    BY <1>4, <1>5, <1>6, <1>13 DEF Counted, AtBarrier
<1>15. OneWaker'
    BY <1>2, <1>5, <1>13 DEF OneWaker, IsBarrier
<1>16. PendingWaits'
  <2> SUFFICES ASSUME NEW k \in Members, NEW u \in Members, PendingBy(k, u)'
               PROVE  AtBarrier(u)' /\ ~HasPermit(u)' /\ at'[u] = at'[k] + 1
    BY <1>5 DEF PendingWaits
  <2>1. k = t /\ u # t
    BY <1>13 DEF PendingBy
  <2> QED
    BY <1>5, <1>13, <2>1
<1>17. WaitsAtBarrier'
  <2>1. \A u \in Members \ {t} : at'[u] - 1 = at[t]
    BY <1>3, <1>13
  <2>2. ~AtBarrier(t)' /\ IsBarrier(at[t])'
    BY <1>2, <1>4, <1>5 DEF AtBarrier, IsBarrier
  <2> QED
    BY <1>5, <2>1, <2>2 DEF WaitsAtBarrier, IsBarrier
<1>18. BarrierCount'
    BY <1>1, <1>5, <1>6, <1>7 DEF BarrierCount, Counters
<1>19. \A u \in Members, b \in Int : (Called(u, b)' <=> at[t] >= b) /\ (Released(u, b)' => at[t] >= b)
  <2>1. ASSUME NEW b \in Int PROVE (Called(t, b)' <=> at[t] >= b) /\ (Released(t, b)' => at[t] >= b)
    BY <1>1, <1>3, <1>5, <1>6 DEF Called, Released, InWork, Waking
  <2>2. ASSUME NEW u \in Members \ {t}, NEW b \in Int
        PROVE  (Called(u, b)' <=> at[t] >= b) /\ (Released(u, b)' => at[t] >= b)
    BY <1>1, <1>3, <1>7, <1>13 DEF Called, Released, InWork, Waking
  <2> QED
    BY <2>1, <2>2
<1>20. ReleasedCalled'
  <2>1. \A b \in DOMAIN work : b \in Int
    BY <1>3
  <2> QED
    BY <1>5, <1>19, <2>1 DEF ReleasedCalled
<1>21. CountedHolds'
    BY <1>5, <1>14 DEF CountedHolds
<1>22. BarrierInv'
    BY <1>15, <1>16, <1>17, <1>18, <1>20, <1>21 DEF BarrierInv
<1> QED
    BY <1>1, <1>2, <1>4, <1>8, <1>9, <1>10, <1>11, <1>22, QuietFrame, MemberFacts

\* What holds of the thread that lets the others go.
LEMMA WakerFacts ==
    ASSUME RegionInv, NEW t \in Thread, Waking(t)
    PROVE  /\ t \in Members /\ t \notin joined /\ pc[main] # "serial" /\ IsBarrier(at[t])
           /\ ~Waits(t) /\ ~HasPermit(t) /\ ~AtBarrier(t)
           /\ \A k \in Members \ {t} : ~Waking(k) /\ \A u : ~PendingBy(k, u)
           /\ \A u \in Members : Counted(u) => ~PendingBy(t, u)
<1>1. Places(t) /\ BarrierInv /\ pc[t] \in InWork
    BY DEF RegionInv, Waking, InWork
<1>2. t \in Members /\ t \notin joined /\ pc[main] # "serial"
    BY <1>1, WorkingUnjoined, WorksAsMember
<1>3. IsBarrier(at[t]) /\ \A k \in Members \ {t} : ~Waking(k)
    BY <1>1, <1>2 DEF BarrierInv, OneWaker
<1>4. \A k \in Members \ {t} : \A u : ~PendingBy(k, u)
    BY <1>3 DEF PendingBy, Waking
<1>5. ~Waits(t) /\ ~HasPermit(t) /\ ~AtBarrier(t)
    BY <1>1 DEF Places, Waking, AtBarrier
<1> QED
    BY <1>2, <1>3, <1>4, <1>5 DEF Counted

\* A step of that thread that counts nobody and makes nobody pending.
LEMMA WakerFrame ==
    ASSUME RegionInv, NEW t \in Thread, NEW n, Step(t, "wakeall", at[t], n),
           Waking(t), joined' = joined,
           \A u \in Members : Counted(u)' <=> Counted(u),
           \A u \in Members : PendingBy(t, u)' => PendingBy(t, u) /\ ~HasPermit(u)',
           \A u \in Thread : Waits(u)' <=> Waits(u)
    PROVE  OneWaker' /\ PendingWaits' /\ WaitsAtBarrier' /\ ReleasedCalled' /\ CountedHolds'
<1>1. Types /\ Shape /\ BarrierInv
    BY DEF RegionInv
<1>2. /\ t \in Members /\ t \notin joined /\ IsBarrier(at[t])
      /\ \A k \in Members \ {t} : ~Waking(k)
    BY WakerFacts
<1>3. /\ pc'[t] = "wakeall" /\ at'[t] = at[t]
      /\ work' = work /\ Members' = Members /\ local_id' = local_id
      /\ \A u \in Thread \ {t} : pc'[u] = pc[u] /\ at'[u] = at[u] /\ next'[u] = next[u]
    BY StepFacts
<1>4. \A u \in Members : u \in Thread /\ at'[u] = at[u]
    BY <1>1, <1>3, MemberFacts
<1>5. \A u \in Members : (AtBarrier(u)' <=> AtBarrier(u)) /\ (Waking(u)' <=> Waking(u))
    BY <1>3, <1>4 DEF AtBarrier, Waking
<1>6. OneWaker'
    BY <1>1, <1>3, <1>4, <1>5 DEF BarrierInv, OneWaker, IsBarrier
<1>7. PendingWaits'
  <2> SUFFICES ASSUME NEW k \in Members, NEW u \in Members, PendingBy(k, u)'
               PROVE  AtBarrier(u)' /\ ~HasPermit(u)' /\ at'[u] = at'[k] + 1
    BY <1>3 DEF PendingWaits
  <2>1. k = t
    BY <1>2, <1>3, <1>4 DEF PendingBy, Waking
  <2>2. PendingBy(t, u) /\ ~HasPermit(u)'
    BY <2>1
  <2> QED
    BY <1>1, <1>2, <1>4, <1>5, <2>1, <2>2 DEF BarrierInv, PendingWaits
<1>8. WaitsAtBarrier'
    BY <1>1, <1>3, <1>4, <1>5 DEF BarrierInv, WaitsAtBarrier, IsBarrier
<1>9. \A u \in Members : pc'[u] \in InWork <=> pc[u] \in InWork
    BY <1>3, <1>4 DEF InWork, Waking
<1>10. \A u \in Members : pc'[u] \in {"join", "release"} <=> pc[u] \in {"join", "release"}
    BY <1>3, <1>4 DEF Waking
<1>11. \A u \in Members : \A b \in Int : /\ Called(u, b) => Called(u, b)'
                                         /\ Released(u, b)' => Released(u, b)
    BY <1>4, <1>5, <1>9, <1>10 DEF Called, Released
<1>12. ReleasedCalled' /\ CountedHolds'
    BY <1>4, <1>11, MonotoneBarrier
<1> QED
    BY <1>6, <1>7, <1>8, <1>12

\* The last to arrive re-arms the barrier.
LEMMA ResetKept ==
    ASSUME RegionInv, NEW t \in Thread, BarrierReset(t)
    PROVE  RegionInv'
<1>1. /\ pc[t] = "reset" /\ joined' = joined /\ NoNewWaker /\ Silent
      /\ Counters(team.working_threads, Size)
      /\ Step(t, "wakeall", at[t], next[t])
    BY ResetEffect
<1>2. /\ Types /\ Shape /\ Places(t) /\ BarrierInv /\ main \in Thread /\ Waking(t)
    BY <1>1, ThreadFacts DEF RegionInv, Waking
<1>3. /\ t \in Members /\ t \notin joined /\ pc[main] # "serial"
      /\ ~Waits(t) /\ ~HasPermit(t) /\ ~AtBarrier(t)
      /\ \A k \in Members \ {t} : ~Waking(k)
    BY <1>2, WakerFacts
<1>4. /\ ~Waits(t)' /\ ~Wakes(t)' /\ ~HasPermit(t)' /\ OthersQuiet(t)
    BY <1>1, <1>2, <1>3 DEF Silent, NoNewWaker, OthersQuiet, Places
<1>5. /\ pc'[t] = "wakeall" /\ at'[t] = at[t] /\ next'[t] = next[t] /\ Size' = Size
      /\ work' = work /\ Members' = Members /\ local_id' = local_id
      /\ \A u \in Thread \ {t} : pc'[u] = pc[u] /\ at'[u] = at[u] /\ next'[u] = next[u]
    BY <1>1, StepFacts
<1>6. next[t] = 0 /\ Size \in Nat
    BY <1>1, <1>2, MemberFacts DEF Places
<1>7. Places(t)'
    BY <1>1, <1>2, <1>4, <1>5, <1>6 DEF Places, InWork
<1>8. \A u \in Thread : Unwoken(u)' <=> Unwoken(u)
    BY <1>1, <1>2, UnwokenKept
<1>9. t # main => WorkerAt(t)'
    BY <1>1, <1>2, AtWorkKept DEF InWork, Workers
<1>10. JoinCount' /\ JoinWoken' /\ JoinWaker'
  <2>1. (HasPermit(main)' <=> HasPermit(main)) /\ (Waits(main)' <=> Waits(main))
    BY <1>1, <1>2 DEF Silent
  <2> QED
    BY <1>1, <1>2, <2>1, JoinFrame DEF Counters
<1>11. \A u \in Members : u \in Thread /\ local_id[u] >= 0
    BY <1>2, MemberFacts
<1>12. \A u \in Members \ {t} : PendingBy(t, u) /\ PendingBy(t, u)'
    BY <1>1, <1>5, <1>6, <1>11 DEF PendingBy
<1>13. \A u \in Members : ~Counted(u) /\ ~Counted(u)'
    BY <1>3, <1>4, <1>5, <1>12 DEF Counted, AtBarrier
<1>14. \A u \in Members : PendingBy(t, u)' => PendingBy(t, u) /\ ~HasPermit(u)'
  <2>1. \A u \in Members \ {t} : ~HasPermit(u)
    BY <1>2, <1>3, <1>12 DEF BarrierInv, PendingWaits
  <2>2. ~PendingBy(t, t)'
    BY DEF PendingBy
  <2> QED
    BY <1>1, <1>11, <1>12, <2>1, <2>2 DEF Silent
<1>15. OneWaker' /\ PendingWaits' /\ WaitsAtBarrier' /\ ReleasedCalled' /\ CountedHolds'
    BY <1>1, <1>2, <1>13, <1>14, WakerFrame DEF Silent
<1>16. BarrierCount'
  <2>1. Uncounted' = Members
    BY <1>5, <1>13 DEF Uncounted
  <2>2. Cardinality(Members) = Size
    BY <1>2, MembersFinite
  <2>3. \A k \in Members : pc'[k] # "reset"
    BY <1>3, <1>5, <1>11 DEF Waking
  <2> QED
    BY <1>1, <1>5, <2>1, <2>2, <2>3 DEF BarrierCount, Counters
<1>17. BarrierInv'
    BY <1>15, <1>16 DEF BarrierInv
<1> QED
    BY <1>1, <1>2, <1>4, <1>3, <1>7, <1>8, <1>9, <1>10, <1>17, QuietFrame, MemberFacts

\* It wakes the next member, unless that is itself.
LEMMA BarrierWakeKept ==
    ASSUME RegionInv, NEW t \in Thread, BarrierWake(t)
    PROVE  RegionInv'
<1>1. /\ pc[t] = "wakeall" /\ ~Waits(t) /\ ~Wakes(t) /\ next[t] < Size
      /\ Step(t, "wakeall", at[t], next[t] + 1) /\ CountersKept /\ WakersButFor(t)
      /\ IF next[t] = local_id[t] THEN Silent
         ELSE \E u \in Members \ {t} : /\ local_id[u] = next[t] /\ PendingBy(t, u)
                                       /\ Given(u) /\ ~HasPermit(u)
    BY BarrierWakeEffect
<1>2. /\ Types /\ Shape /\ Places(t) /\ BarrierInv /\ main \in Thread /\ Waking(t)
      /\ joined' = joined /\ team'.barrier_count = team.barrier_count
    BY <1>1, ThreadFacts DEF RegionInv, Waking, CountersKept, Counters
<1>3. /\ t \in Members /\ t \notin joined /\ pc[main] # "serial"
      /\ ~Waits(t) /\ ~HasPermit(t) /\ ~AtBarrier(t)
      /\ \A k \in Members \ {t} : ~Waking(k) /\ \A u : ~PendingBy(k, u)
    BY <1>2, WakerFacts
<1>4. /\ pc'[t] = "wakeall" /\ at'[t] = at[t] /\ next'[t] = next[t] + 1 /\ Size' = Size
      /\ work' = work /\ Members' = Members /\ local_id' = local_id
      /\ \A u \in Thread \ {t} : pc'[u] = pc[u] /\ at'[u] = at[u] /\ next'[u] = next[u]
    BY <1>1, StepFacts
<1>5. /\ \A u \in Thread : Waits(u)' <=> Waits(u)
      /\ ~HasPermit(t)'
      /\ \A u \in Thread : (HasPermit(u)' <=> HasPermit(u)) \/ (u \in Members /\ PendingBy(t, u))
    BY <1>1, <1>3 DEF Silent, Given
<1>6. \A u \in Members : /\ u \in Thread /\ local_id[u] \in Int
                         /\ local_id[u] = local_id[t] => u = t
    BY <1>2, <1>3, MemberFacts
<1>7. \A u \in Members \ {t} : local_id[u] = next[t] => HasPermit(u)' /\ PendingBy(t, u)
  <2>1. CASE next[t] = local_id[t]
    BY <1>6, <2>1
  <2>2. CASE next[t] # local_id[t]
    <3>1. PICK w \in Members \ {t} : local_id[w] = next[t] /\ PendingBy(t, w) /\ Given(w)
        BY <1>1, <2>2
    <3>2. \A u \in Members : local_id[u] = next[t] => u = w
        BY <1>2, <3>1, MemberFacts
    <3>3. HasPermit(w)'
        BY <1>6, <3>1 DEF Given
    <3> QED
        BY <3>1, <3>2, <3>3
  <2> QED
    BY <2>1, <2>2
<1>8. \A u \in Members \ {t} : local_id[u] # next[t] => (HasPermit(u)' <=> HasPermit(u))
    BY <1>1, <1>6 DEF Silent, Given
<1>9. next[t] \in Nat /\ Size \in Nat /\ next[t] + 1 \in 0 .. Size
    BY <1>1, <1>2, MemberFacts DEF Types
<1>10. \A u \in Members : PendingBy(t, u)' <=> PendingBy(t, u) /\ local_id[u] # next[t]
    BY <1>1, <1>4, <1>6, <1>9 DEF PendingBy
<1>11. \A k \in Members \ {t} : \A u \in Members : ~PendingBy(k, u)'
    BY <1>3, <1>4, <1>6 DEF PendingBy, Waking
<1>12. \A u \in Members : Counted(u)' <=> Counted(u)
  <2>1. ~AtBarrier(t)'
    BY <1>4 DEF AtBarrier
  <2>2. \A u \in Members : AtBarrier(u)' <=> AtBarrier(u)
    BY <1>3, <1>4, <1>5, <1>6, <2>1 DEF AtBarrier
  <2>3. ASSUME NEW u \in Members \ {t}, local_id[u] = next[t] PROVE ~Counted(u) /\ ~Counted(u)'
    BY <1>3, <1>7, <2>3 DEF Counted
  <2>4. ASSUME NEW u \in Members \ {t}, local_id[u] # next[t]
        PROVE  (HasPermit(u)' <=> HasPermit(u)) /\ \A k \in Members : PendingBy(k, u)' <=> PendingBy(k, u)
    BY <1>3, <1>8, <1>10, <1>11, <2>4
  <2> QED
    BY <1>3, <1>4, <2>1, <2>2, <2>3, <2>4 DEF Counted
<1>13. \A u \in Members : PendingBy(t, u)' => PendingBy(t, u) /\ ~HasPermit(u)'
  <2> SUFFICES ASSUME NEW u \in Members, PendingBy(t, u)' PROVE PendingBy(t, u) /\ ~HasPermit(u)'
    OBVIOUS
  <2>1. PendingBy(t, u) /\ local_id[u] # next[t] /\ u # t
    BY <1>10 DEF PendingBy
  <2>2. ~HasPermit(u)
    BY <1>2, <1>3, <2>1 DEF BarrierInv, PendingWaits
  <2> QED
    BY <1>8, <2>1, <2>2
<1>14. OneWaker' /\ PendingWaits' /\ WaitsAtBarrier' /\ ReleasedCalled' /\ CountedHolds'
    BY <1>1, <1>2, <1>5, <1>12, <1>13, WakerFrame
<1>15. \A u \in Members : pc'[u] = "reset" <=> pc[u] = "reset"
    BY <1>1, <1>4, <1>6
<1>16. BarrierCount'
    BY <1>1, <1>2, <1>3, <1>12, <1>15, CountKept
<1>17. BarrierInv'
    BY <1>14, <1>16 DEF BarrierInv
<1>18. \A u \in Members : PendingBy(t, u) => AtBarrier(u)
    BY <1>2, <1>3 DEF BarrierInv, PendingWaits
<1>19. Places(t)'
    BY <1>1, <1>2, <1>3, <1>4, <1>5, <1>9 DEF Places, InWork
<1>20. \A u \in Thread : Places(u)'
  <2>1. \A u \in Thread \ {t} :
            /\ Waits(u)' <=> Waits(u)
            /\ HasPermit(u)' => HasPermit(u) \/ Waits(u) \/ pc[u] \in {"created", "idle"}
    BY <1>5, <1>18 DEF AtBarrier
  <2> QED
    BY <1>1, <1>19, <2>1, PlacesKept
<1>21. \A u \in Thread : Unwoken(u)' <=> Unwoken(u)
    BY <1>1, <1>2, UnwokenKept
<1>22. \A u \in Workers : WorkerAt(u)'
  <2> SUFFICES ASSUME NEW u \in Workers PROVE WorkerAt(u)'
    OBVIOUS
  <2>0. u \in Thread /\ u # main
    BY DEF Workers
  <2>1. CASE u = t
    BY <1>1, <1>2, <2>1, AtWorkKept DEF InWork
  <2>2. CASE u # t /\ u \in Members /\ PendingBy(t, u)
    <3>1. pc[u] = "work" /\ WorkerAt(u)
        BY <1>18, <2>2 DEF AtBarrier, RegionInv
    <3>2. ~Off(u) /\ ~Off(u)' /\ pc'[u] = "work"
        BY <1>4, <2>0, <2>2, <3>1 DEF Off
    <3> QED
        BY <1>2, <1>4, <1>21, <2>0, <2>2, <3>1, <3>2 DEF WorkerAt
  <2>3. CASE u # t /\ ~(u \in Members /\ PendingBy(t, u))
    <3>1. (HasPermit(u)' <=> HasPermit(u)) /\ (Waits(u)' <=> Waits(u))
        BY <1>5, <2>0, <2>3
    <3> QED
        BY <1>1, <1>2, <1>21, <2>0, <2>3, <3>1, WorkerKept
  <2> QED
    BY <2>1, <2>2, <2>3
<1>23. JoinCount' /\ JoinWoken' /\ JoinWaker'
  <2>1. pc[main] = "release" => ~(main \in Members /\ PendingBy(t, main))
    BY <1>18 DEF AtBarrier
  <2>2. pc[main] = "release" => (HasPermit(main)' <=> HasPermit(main)) /\ (Waits(main)' <=> Waits(main))
    BY <1>2, <1>5, <2>1
  <2> QED
    BY <1>1, <1>2, <2>2, JoinKept
<1>24. Shape'
    BY <1>1, <1>2, <1>3, ShapeKept
<1> QED
    BY <1>1, <1>17, <1>20, <1>22, <1>23, <1>24 DEF RegionInv, Step

\* All are woken: it goes on.
LEMMA LeaveKept ==
    ASSUME RegionInv, NEW t \in Thread, BarrierLeave(t)
    PROVE  RegionInv'
<1>1. /\ pc[t] = "wakeall" /\ ~Waits(t) /\ ~Wakes(t) /\ next[t] = Size
      /\ Step(t, "work", at[t] + 1, 0) /\ CountersKept /\ Silent /\ NoNewWaker
    BY LeaveEffect
<1>2. /\ Types /\ Shape /\ Places(t) /\ BarrierInv /\ main \in Thread /\ Waking(t)
      /\ joined' = joined /\ team'.barrier_count = team.barrier_count
    BY <1>1, ThreadFacts DEF RegionInv, Waking, CountersKept, Counters
<1>3. /\ t \in Members /\ t \notin joined /\ pc[main] # "serial" /\ IsBarrier(at[t])
      /\ ~Waits(t) /\ ~HasPermit(t) /\ ~AtBarrier(t)
      /\ \A k \in Members \ {t} : ~Waking(k) /\ \A u : ~PendingBy(k, u)
    BY <1>2, WakerFacts
<1>4. /\ ~Waits(t)' /\ ~Wakes(t)' /\ ~HasPermit(t)' /\ OthersQuiet(t)
    BY <1>1, <1>2, <1>3 DEF Silent, NoNewWaker, OthersQuiet
<1>5. /\ pc'[t] = "work" /\ at'[t] = at[t] + 1 /\ next'[t] = 0 /\ Size' = Size
      /\ work' = work /\ Members' = Members /\ local_id' = local_id
      /\ \A u \in Thread \ {t} : pc'[u] = pc[u] /\ at'[u] = at[u] /\ next'[u] = next[u]
    BY <1>1, StepFacts
<1>6. at[t] \in Nat /\ Len(work) \in Nat /\ DOMAIN work = 1 .. Len(work)
    BY <1>2 DEF Types
<1>7. Places(t)'
  <2>1. at'[t] \in 1 .. Len(work') + 1
    BY <1>3, <1>5, <1>6 DEF IsBarrier
  <2> QED
    BY <1>2, <1>4, <1>5, <2>1 DEF Places, InWork
<1>8. \A u \in Thread : Unwoken(u)' <=> Unwoken(u)
    BY <1>1, <1>2, UnwokenKept
<1>9. t # main => WorkerAt(t)'
    BY <1>1, <1>2, AtWorkKept DEF InWork, Workers
<1>10. JoinCount' /\ JoinWoken' /\ JoinWaker'
    BY <1>1, <1>2, JoinKept DEF Silent
<1>11. \A u \in Members : u \in Thread /\ local_id[u] \in 0 .. Size - 1 /\ Size \in Nat
    BY <1>2, MemberFacts
<1>12. \A k, u \in Members : ~PendingBy(k, u) /\ ~PendingBy(k, u)'
  <2>1. \A u \in Members : ~PendingBy(t, u)
    BY <1>1, <1>11 DEF PendingBy
  <2> QED
    BY <1>3, <1>5, <1>11, <2>1 DEF PendingBy, Waking
<1>13. /\ ~AtBarrier(t)' /\ ~Counted(t) /\ ~Counted(t)' /\ ~Waking(t)'
       /\ \A u \in Members \ {t} : /\ pc'[u] = pc[u] /\ at'[u] = at[u]
                                   /\ AtBarrier(u)' <=> AtBarrier(u)
                                   /\ Counted(u)' <=> Counted(u)
                                   /\ ~Waking(u) /\ ~Waking(u)'
  <2>1. ~AtBarrier(t)' /\ ~Counted(t) /\ ~Counted(t)' /\ ~Waking(t)'
    BY <1>3, <1>4, <1>5 DEF AtBarrier, Counted, Waking
  <2>2. \A u \in Members \ {t} : (HasPermit(u)' <=> HasPermit(u)) /\ (Waits(u)' <=> Waits(u))
    BY <1>4, <1>11 DEF OthersQuiet
  <2> QED
    BY <1>3, <1>5, <1>11, <1>12, <2>1, <2>2 DEF AtBarrier, Counted, Waking
<1>14. OneWaker' /\ PendingWaits'
    BY <1>5, <1>12, <1>13 DEF OneWaker, PendingWaits
<1>15. WaitsAtBarrier'
    BY <1>2, <1>5, <1>13 DEF BarrierInv, WaitsAtBarrier, IsBarrier
<1>16. BarrierCount'
    BY <1>1, <1>2, <1>3, <1>5, <1>13, CountKept
<1>17. \A b \in Int : (Called(t, b) => Called(t, b)') /\ (Released(t, b)' => Released(t, b))
    BY <1>1, <1>2, <1>3, <1>5, <1>6, <1>13 DEF Called, Released, InWork, Waking
<1>18. \A u \in Members \ {t} : \A b \in Int :
           (Called(u, b) => Called(u, b)') /\ (Released(u, b)' => Released(u, b))
    BY <1>2, <1>13 DEF Called, Released
<1>19. ReleasedCalled' /\ CountedHolds'
  <2>1. \A u \in Members : Counted(u)' => Counted(u) /\ at'[u] = at[u]
    BY <1>13
  <2>2. \A u \in Members : \A b \in Int : Called(u, b) => Called(u, b)'
    BY <1>17, <1>18
  <2>3. \A u \in Members : \A b \in Int : IsBarrier(b) /\ Released(u, b)' => Released(u, b)
    BY <1>17, <1>18
  <2> QED
    BY <1>1, <2>1, <2>2, <2>3, MonotoneBarrier
<1>20. BarrierInv'
    BY <1>14, <1>15, <1>16, <1>19 DEF BarrierInv
<1> QED
    BY <1>1, <1>2, <1>3, <1>4, <1>7, <1>8, <1>9, <1>10, <1>20, QuietFrame, MemberFacts

-----------------------------------------------------------------------------
(***************************************************************************)
(* Fork and release                                                        *)
(***************************************************************************)
LEMMA MembersNext ==
    /\ (Types /\ Shape => IsFiniteSet(Members) /\ Cardinality(Members) = Size)'
    /\ (Types /\ Shape => \A u \in Members : u \in Thread /\ local_id[u] \in Int
                                            /\ (u # main => local_id[u] >= 1))'
    /\ (Types /\ Shape /\ pc[main] # "serial" => main \in Members)'
<1>1. Types /\ Shape => IsFiniteSet(Members) /\ Cardinality(Members) = Size
    BY MembersFinite
<1>2. Types /\ Shape => \A u \in Members : u \in Thread /\ local_id[u] \in Int
                                          /\ (u # main => local_id[u] >= 1)
  <2> SUFFICES ASSUME Types, Shape, NEW u \in Members
               PROVE  u \in Thread /\ local_id[u] \in Int /\ (u # main => local_id[u] >= 1)
    OBVIOUS
  <2>1. /\ u \in Thread /\ pc[main] # "serial" /\ local_id[u] \in 0 .. Size - 1
        /\ Member(local_id[u]) = u /\ Size \in Nat
    BY MemberFacts
  <2>2. Member(0) = main
    BY <2>1 DEF Shape
  <2> QED
    BY <2>1, <2>2
<1>3. Types /\ Shape /\ pc[main] # "serial" => main \in Members
    BY MemberFacts
<1> QED
    BY <1>1, <1>2, <1>3, PTL

LEMMA ForkKept ==
    ASSUME RegionInv, NEW n \in 1 .. NumThreads, NEW w \in program, Fork(n, w)
    PROVE  RegionInv'
<1>1. /\ Types' /\ IInv' /\ Shape' /\ Silent /\ NoNewWaker
      /\ pc[main] = "serial" /\ pc' = [pc EXCEPT ![main] = "assign"]
      /\ at' = at /\ next' = [next EXCEPT ![main] = 1]
      /\ Size' = n /\ Counters(n, n) /\ joined' = {}
    BY ForkEffect
<1>2. /\ Types /\ Shape /\ main \in Thread /\ Workers \subseteq Thread /\ Places(main)
      /\ NumThreads \in Nat /\ n \in Nat /\ n >= 1
    BY ThreadFacts DEF RegionInv
<1>3. /\ pc'[main] = "assign" /\ next'[main] = 1
      /\ \A u \in Thread \ {main} : pc'[u] = pc[u] /\ next'[u] = next[u]
    BY <1>1, <1>2 DEF Types
<1>4. \A u \in Thread : pc[u] \notin InWork /\ pc[u] # "joinwake"
    BY <1>1, WorksAsMember
<1>5. \A u \in Thread : pc'[u] \notin InWork /\ pc'[u] \notin {"joinwake", "join", "release"}
  <2>1. \A u \in Thread \ {main} : pc[u] \notin {"join", "release"}
    BY DEF RegionInv, Places, InWork
  <2> QED
    BY <1>3, <1>4, <2>1 DEF InWork
<1>6. \A u \in Thread : (HasPermit(u)' <=> HasPermit(u)) /\ (Waits(u)' <=> Waits(u))
                        /\ (Wakes(u)' => Wakes(u))
    BY <1>1 DEF Silent, NoNewWaker
<1>7. \A u \in Thread : Places(u)'
  <2>1. Places(main)'
    BY <1>1, <1>2, <1>3, <1>6 DEF Places, InWork
  <2>2. ASSUME NEW u \in Thread \ {main} PROVE Places(u)'
    <3>1. Places(u)
        BY DEF RegionInv
    <3>2. pc'[u] = pc[u] /\ next'[u] = next[u] /\ pc[u] \notin InWork
        BY <1>3, <1>4
    <3>3. pc[u] \notin {"assign", "wakeall", "install", "fill"}
        BY <3>1, <3>2 DEF Places, InWork
    <3> QED
        BY <1>6, <3>1, <3>2, <3>3 DEF Places
  <2> QED
    BY <2>1, <2>2
<1>8. \A u \in Workers : WorkerAt(u)'
  <2> SUFFICES ASSUME NEW u \in Workers PROVE WorkerAt(u)'
    OBVIOUS
  <2>1. u \in Thread /\ u # main /\ WorkerAt(u)
    BY DEF RegionInv, Workers
  <2>2. u \notin Members
    BY <1>1, <1>2, MemberFacts
  <2>3. Off(u) /\ ~HasPermit(u)
    BY <2>1, <2>2 DEF WorkerAt
  <2>4. Off(u)' /\ ~HasPermit(u)'
    BY <1>3, <1>6, <2>1, <2>3 DEF Off
  <2>5. u \in Members' => Unwoken(u)'
    BY <1>1, <1>3, <2>1, MembersNext DEF Unwoken
  <2> QED
    BY <1>1, <2>4, <2>5 DEF WorkerAt
<1>9. JoinCount' /\ JoinWoken' /\ JoinWaker'
  <2>1. Remaining' = Members' \ {main}
    BY <1>1 DEF Remaining
  <2>2. IsFiniteSet(Members') /\ Cardinality(Members') = n /\ main \in Members'
    BY <1>1, <1>3, MembersNext
  <2>3. Cardinality(Remaining') = n - 1
    BY <2>1, <2>2, FS_RemoveElement
  <2>4. JoinCount'
    BY <1>1, <1>2, <1>3, <2>3 DEF JoinCount, Counters
  <2>5. JoinWoken' /\ JoinWaker'
    BY <1>2, <1>3, <1>5 DEF JoinWoken, JoinWaker
  <2> QED
    BY <2>4, <2>5
<1>10. BarrierInv'
  <2>1. \A u \in Members' : u \in Thread
    BY <1>1, MembersNext
  <2>2. \A u \in Members' : /\ pc'[u] \notin InWork /\ pc'[u] \notin {"join", "release"}
                            /\ ~Waking(u)' /\ ~AtBarrier(u)' /\ ~Counted(u)'
    BY <1>5, <2>1 DEF InWork, Waking, AtBarrier, Counted
  <2>3. \A k, u \in Members' : ~PendingBy(k, u)'
    BY <2>2 DEF PendingBy, InWork
  <2>4. OneWaker' /\ PendingWaits' /\ WaitsAtBarrier' /\ CountedHolds'
    BY <2>2, <2>3 DEF OneWaker, PendingWaits, WaitsAtBarrier, CountedHolds
  <2>5. \A u \in Members' : \A b : ~Released(u, b)'
    BY <1>1, <2>2 DEF Released
  <2>6. ReleasedCalled'
    BY <2>5 DEF ReleasedCalled
  <2>7. Uncounted' = Members'
    BY <2>2 DEF Uncounted
  <2>8. Cardinality(Members') = n
    BY <1>1, MembersNext
  <2>9. BarrierCount'
    BY <1>1, <2>2, <2>7, <2>8 DEF BarrierCount, Counters, InWork
  <2> QED
    BY <2>4, <2>6, <2>9 DEF BarrierInv
<1> QED
    BY <1>1, <1>7, <1>8, <1>9, <1>10 DEF RegionInv

\* When the master takes the team down every worker is off.
LEMMA ReleaseKept ==
    ASSUME RegionInv, Release
    PROVE  RegionInv'
<1>1. /\ Types' /\ IInv' /\ Shape' /\ Silent /\ NoNewWaker
      /\ pc[main] = "release" /\ ~Waits(main) /\ ~Wakes(main)
      /\ pc' = [pc EXCEPT ![main] = "serial"] /\ at' = [at EXCEPT ![main] = 0]
      /\ next' = next /\ Members' = {}
    BY ReleaseEffect
<1>2. /\ Types /\ Shape /\ main \in Thread /\ Workers \subseteq Thread /\ Places(main)
      /\ JoinWoken /\ JoinWaker
    BY ThreadFacts DEF RegionInv
<1>3. /\ pc'[main] = "serial"
      /\ \A u \in Thread \ {main} : pc'[u] = pc[u] /\ at'[u] = at[u] /\ next'[u] = next[u]
    BY <1>1, <1>2 DEF Types
<1>4. Remaining = {}
    BY <1>1, <1>2 DEF JoinWoken
<1>5. \A u \in Workers : pc[u] \notin InWork /\ pc[u] # "joinwake"
  <2>1. \A u \in Workers : pc[u] # "joinwake"
    BY <1>1, <1>2 DEF JoinWaker
  <2>2. ASSUME NEW u \in Workers, pc[u] \in InWork PROVE FALSE
    <3>1. u \in Members /\ u \notin joined /\ u # main
        BY <1>2, <2>2, WorkingUnjoined DEF Workers
    <3> QED
        BY <1>4, <3>1 DEF Remaining
  <2> QED
    BY <2>1, <2>2
<1>6. \A u \in Thread : (HasPermit(u)' <=> HasPermit(u)) /\ (Waits(u)' <=> Waits(u))
                        /\ (Wakes(u)' => Wakes(u))
    BY <1>1 DEF Silent, NoNewWaker
<1>7. \A u \in Thread : Places(u)'
  <2>1. Places(main)'
    BY <1>1, <1>2, <1>3, <1>6 DEF Places, InWork
  <2>2. ASSUME NEW u \in Thread \ {main} PROVE Places(u)'
    <3>1. Places(u)
        BY DEF RegionInv
    <3>2. pc'[u] = pc[u] /\ next'[u] = next[u] /\ pc[u] \notin InWork
        BY <1>3, <1>5 DEF Workers
    <3>3. pc[u] \notin {"assign", "wakeall", "install", "fill"}
        BY <3>1, <3>2 DEF Places, InWork
    <3> QED
        BY <1>6, <3>1, <3>2, <3>3 DEF Places
  <2> QED
    BY <2>1, <2>2
<1>8. \A u \in Workers : WorkerAt(u)'
  <2> SUFFICES ASSUME NEW u \in Workers PROVE WorkerAt(u)'
    OBVIOUS
  <2>1. u \in Thread /\ u # main /\ WorkerAt(u) /\ pc[u] # "joinwake"
    BY <1>5 DEF RegionInv, Workers
  <2>2. u \in Members => u \in joined
    BY <1>4, <2>1 DEF Remaining
  <2>3. Off(u) /\ ~HasPermit(u)
    BY <2>1, <2>2 DEF WorkerAt
  <2>4. Off(u)' /\ ~HasPermit(u)'
    BY <1>3, <1>6, <2>1, <2>3 DEF Off
  <2> QED
    BY <1>1, <2>4 DEF WorkerAt
<1>9. JoinCount' /\ JoinWoken' /\ JoinWaker'
    BY <1>2, <1>3, <1>5 DEF JoinCount, JoinWoken, JoinWaker, Workers
<1>10. BarrierInv'
    BY <1>1, <1>3 DEF BarrierInv, OneWaker, PendingWaits, WaitsAtBarrier, BarrierCount,
                      ReleasedCalled, CountedHolds
<1> QED
    BY <1>1, <1>7, <1>8, <1>9, <1>10 DEF RegionInv
-----------------------------------------------------------------------------
LEMMA InitRegionInv == Init => RegionInv
<1> SUFFICES ASSUME Init PROVE RegionInv
    OBVIOUS
<1>1. main \in Thread /\ Workers \subseteq Thread /\ NumThreads \in Nat /\ NumThreads >= 1
    BY ThreadFacts
<1>2. IInv /\ \A t \in Thread : ~HasPermit(t) /\ ~Waits(t) /\ ~Wakes(t)
    BY InitIInv DEF Init
<1>3. /\ \A t \in Thread : pc[t] = IF t = main THEN "serial" ELSE "created"
      /\ \A t \in Thread : next[t] = 0
      /\ local_id[main] = 0 /\ joined = {} /\ work = <<>>
    BY <1>1 DEF Init
<1>4. idstack \in Seq(Workers) /\ Len(idstack) = NumThreads - 1
      /\ \A i, j \in DOMAIN idstack : idstack[i] = idstack[j] => i = j
  <2>1. idstack = [i \in 1 .. NumThreads - 1 |-> NumThreads - i]
    BY DEF Init
  <2>2. \A i \in 1 .. NumThreads - 1 : NumThreads - i \in Workers
    BY <1>1, ForkJoinAssumption DEF Workers, main
  <2>3. NumThreads - 1 \in Nat
    BY <1>1
  <2> QED
    BY <1>1, <2>1, <2>2, <2>3
<1>5. team \in TeamRecord /\ team.team_size = 0
    BY <1>1 DEF Init, FreeTeam, NoSource, TeamRecord
<1>6. Types
  <2>1. pc \in [Thread -> Label] /\ local_id \in [Thread -> Int]
    BY DEF Init, Label
  <2>2. at \in [Thread -> Nat] /\ next \in [Thread -> Nat] /\ single_count \in [Thread -> Nat]
    BY DEF Init
  <2>3. inTeam \in [Thread -> BOOLEAN] /\ lock \in [Thread -> BOOLEAN]
    BY DEF Init
  <2>4. work \in Seq(Call) /\ program \in Programs /\ work \in program \cup {<<>>}
    BY DEF Init
  <2> QED
    BY <1>3, <1>4, <1>5, <2>1, <2>2, <2>3, <2>4 DEF Types
<1>7. Members = {} /\ Size = 0
    BY <1>5 DEF Members, Size
<1>8. Shape
    BY <1>1, <1>3, <1>4, <1>7 DEF Shape
<1>9. \A t \in Thread : Places(t)
    BY <1>2, <1>3 DEF Places, InWork
<1>10. \A t \in Workers : WorkerAt(t)
    BY <1>2, <1>3, <1>7 DEF WorkerAt, Off, Workers
<1>11. JoinCount /\ JoinWoken /\ JoinWaker
    BY <1>1, <1>3 DEF JoinCount, JoinWoken, JoinWaker, Workers
<1>12. BarrierInv
    BY <1>1, <1>3, <1>7 DEF BarrierInv, OneWaker, PendingWaits, WaitsAtBarrier, BarrierCount,
                      ReleasedCalled, CountedHolds
<1> QED
    BY <1>2, <1>6, <1>8, <1>9, <1>10, <1>11, <1>12 DEF RegionInv

(***************************************************************************)
(* Every step keeps the invariant, and does to the permits and the waits   *)
(* what the contract of wait and wake allows.                              *)
(***************************************************************************)
Contract ==
    \/ Silent
    \/ \E u \in Thread : \/ Entered(u) /\ ~Waits(u)
                         \/ Given(u) /\ ~HasPermit(u)
                         \/ Taken(u)

LEMMA CallStepKept ==
    ASSUME RegionInv, NEW t \in Thread, CallStep(t)
    PROVE  RegionInv' /\ Contract
<1>1. CASE LocalStep(t)
    BY <1>1, LocalKept, LocalEffect DEF Contract
<1>2. CASE BarrierArrive(t)
  <2>1. RegionInv'
    BY <1>2, AloneKept, ArriveWaitKept, ArriveLastKept
  <2>2. AtCall(t) /\ (Silent \/ Entered(t))
    BY <1>2, ArriveEffect
  <2> QED
    BY <2>1, <2>2 DEF Contract, AtCall
<1>3. CASE BarrierReset(t)
    BY <1>3, ResetKept, ResetEffect DEF Contract
<1>4. CASE BarrierWake(t)
  <2>1. RegionInv'
    BY <1>4, BarrierWakeKept
  <2>2. Silent \/ \E u \in Members : Given(u) /\ ~HasPermit(u)
    BY <1>4, BarrierWakeEffect
  <2>3. \A u \in Members : u \in Thread
    BY MemberFacts DEF RegionInv
  <2> QED
    BY <2>1, <2>2, <2>3 DEF Contract
<1>5. CASE BarrierLeave(t)
    BY <1>5, LeaveKept, LeaveEffect DEF Contract
<1> QED
    BY <1>1, <1>2, <1>3, <1>4, <1>5 DEF CallStep, LocalStep

LEMMA WorkerStepKept ==
    ASSUME RegionInv, NEW t \in Workers, WorkerStep(t)
    PROVE  RegionInv' /\ Contract
<1>0. t \in Thread /\ Places(t) /\ main \in Thread /\ Types
    BY ThreadFacts DEF RegionInv, Workers
<1>1. CASE Start(t)
  <2>1. /\ pc[t] = "created" /\ Step(t, "run", at[t], next[t]) /\ CountersKept
        /\ ~Waits(t) /\ Entered(t) /\ NoNewWaker
    BY <1>0, <1>1, StartEffect
  <2>2. ~Wakes(t) /\ at[t] \in Nat
    BY <1>0, <2>1 DEF Places, Types
  <2> QED
    BY <1>0, <2>1, <2>2, RestKept DEF Contract
<1>2. CASE Idle(t)
  <2>1. /\ pc[t] = "idle" /\ Step(t, "run", 0, next[t]) /\ CountersKept
        /\ ~Waits(t) /\ ~Wakes(t) /\ Entered(t) /\ NoNewWaker
    BY <1>0, <1>2, IdleEffect
  <2> QED
    BY <1>0, <2>1, RestKept DEF Contract
<1>3. CASE WorkerWork(t)
    BY <1>0, <1>3, WorkerWorkKept, WorkerWorkEffect DEF Contract
<1>4. CASE WorkerJoin(t)
    BY <1>0, <1>4, WorkerJoinKept, WorkerJoinEffect DEF Contract
<1>5. CASE WorkerJoinWake(t)
    BY <1>0, <1>5, JoinWakeKept, JoinWakeEffect DEF Contract
<1> QED
    BY <1>1, <1>2, <1>3, <1>4, <1>5 DEF WorkerStep

LEMMA MasterStepKept ==
    ASSUME RegionInv, MasterStep
    PROVE  RegionInv' /\ Contract
<1>0. main \in Thread
    BY ThreadFacts
<1>1. CASE AssignWake
  <2>1. \E u \in Members : Given(u) /\ ~HasPermit(u)
    BY <1>1, AssignWakeEffect
  <2>2. \A u \in Members : u \in Thread
    BY MemberFacts DEF RegionInv
  <2> QED
    BY <1>1, <2>1, <2>2, AssignWakeKept DEF Contract
<1>2. CASE MasterWork
    BY <1>2, MasterWorkKept, MasterWorkEffect DEF Contract
<1>3. CASE MasterWorkDone
    BY <1>3, WorkDoneKept, WorkDoneEffect DEF Contract
<1>4. CASE MasterJoinSpin
    BY <1>4, JoinSpinKept, JoinSpinEffect DEF Contract
<1>5. CASE MasterJoin
    BY <1>0, <1>5, MasterJoinKept, MasterJoinEffect DEF Contract
<1>6. CASE Release
    BY <1>6, ReleaseKept, ReleaseEffect DEF Contract
<1> QED
    BY <1>1, <1>2, <1>3, <1>4, <1>5, <1>6 DEF MasterStep

LEMMA NextRegionInv ==
    ASSUME RegionInv, [Next]_vars
    PROVE  RegionInv' /\ Contract
<1>1. ASSUME NEW t \in Thread, ThreadStep(t) PROVE RegionInv' /\ Contract
  <2>1. CASE WaitWakeStep(t)
    BY <2>1, WaitWakeKept, WaitWakeEffect DEF Contract
  <2>2. CASE CallStep(t)
    BY <2>2, CallStepKept
  <2>3. CASE MasterStep
    BY <2>3, MasterStepKept
  <2>4. CASE t # main /\ WorkerStep(t)
    BY <2>4, WorkerStepKept DEF Workers
  <2> QED
    BY <1>1, <2>1, <2>2, <2>3, <2>4 DEF ThreadStep
<1>2. ASSUME NEW n \in 1 .. NumThreads, NEW w \in program, Fork(n, w)
      PROVE  RegionInv' /\ Contract
    BY <1>2, ForkKept, ForkEffect DEF Contract
<1>3. CASE UNCHANGED vars
  <2>1. UNCHANGED <<syncVars, threadVars, teamVars>>
    BY <1>3 DEF vars
  <2>2. IInv' /\ Silent /\ NoNewWaker
    BY <2>1, ElsewhereEffect DEF RegionInv
  <2>3. Types'
    BY <2>1 DEF RegionInv, Types, threadVars, teamVars, historyVars
  <2> QED
    BY <2>1, <2>2, <2>3, NothingKept DEF Contract
<1> QED
    BY <1>1, <1>2, <1>3 DEF Next
-----------------------------------------------------------------------------
(***************************************************************************)
(* Theorems                                                                *)
(***************************************************************************)
\* However the threads interleave, a region keeps its invariant: the team has
\* the shape that fork gave it, every thread is where the counts say, and a
\* wake is owed to exactly the threads that wait (thread.c:168-214,
\* 303-404, 588-736).
THEOREM RegionInvariant == Spec => []RegionInv
<1>1. RegionInv /\ [Next]_vars => RegionInv'
    BY NextRegionInv
<1> QED
    BY <1>1, InitRegionInv, PTL DEF Spec

\* The assertion of thread.c:137 never fails: fork, barrier and join never
\* wake a thread that still has a wake.
THEOREM NoDoubleWakeHolds == Spec => []NoDoubleWake
<1>1. RegionInv => NoDoubleWake
  <2> SUFFICES ASSUME RegionInv, NEW t \in Thread, NEW u \in Thread, AboutToWake(t, u)
               PROVE  ~HasPermit(u)
    BY DEF NoDoubleWake
  <2>1. Places(t) /\ Shape /\ JoinWaker /\ Types
    BY DEF RegionInv
  <2>2. CASE pc[t] = "assign"
    <3>1. t = main
        BY <2>1, <2>2 DEF Places, InWork
    <3>2. next[main] < Size /\ u = Member(next[main])
        BY <2>2, <3>1 DEF AboutToWake, Size
    <3> QED
        BY <2>2, <3>1, <3>2, AssignTarget
  <2>3. CASE pc[t] = "wakeall"
    <3>1. next[t] < Size /\ next[t] # local_id[t] /\ u = Member(next[t])
        BY <2>3 DEF AboutToWake, Size
    <3> QED
        BY <2>3, <3>1, BarrierWakeTarget
  <2>4. CASE pc[t] = "joinwake"
    <3>1. t \in Workers /\ pc[main] # "serial" /\ u = Member(0)
        BY <2>1, <2>4, WorksAsMember DEF Places, InWork, Workers, AboutToWake
    <3>2. u = main
        BY <2>1, <3>1 DEF Shape
    <3> QED
        BY <2>1, <2>4, <3>1, <3>2 DEF JoinWaker
  <2> QED
    BY <2>2, <2>3, <2>4 DEF AboutToWake
<1> QED
    BY <1>1, RegionInvariant, PTL

\* Under their real client - fork, barrier, join and idle - a wake is never
\* lost and never delivered twice (thread.c:76-166).
THEOREM ClientOneDelivery == Spec => [](OneDelivery /\ NoLostWakeup)
<1>1. RegionInv => OneDelivery /\ NoLostWakeup
    BY DEF RegionInv, IInv
<1> QED
    BY <1>1, RegionInvariant, PTL

\* The runtime's use of wait and wake keeps the permit contract: a wait
\* returns only with a wake of its own.
THEOREM ClientRefinesPermit == Spec => P!SafeSpec
<1>1. Init => P!Init
    BY RefineInit DEF Init
<1>2. RegionInv /\ [Next]_vars => [P!Next]_P!vars
  <2> SUFFICES ASSUME RegionInv, [Next]_vars PROVE [P!Next]_P!vars
    OBVIOUS
  <2>1. Contract
    BY NextRegionInv
  <2>2. CASE Silent
    BY <2>2, RefineSilent
  <2>3. ASSUME NEW u \in Thread, \/ Entered(u) /\ ~Waits(u)
                                 \/ Given(u) /\ ~HasPermit(u)
                                 \/ Taken(u)
        PROVE  P!Next
    BY <2>3, RefineEffect DEF P!Next
  <2> QED
    BY <2>1, <2>2, <2>3 DEF Contract
<1> QED
    BY <1>1, <1>2, RegionInvariant, PTL DEF Spec, P!SafeSpec

\* A thread leaves a barrier only when every member of the team has arrived
\* at it, however often the barrier is used again (thread.c:706-736).
THEOREM BarrierSeparatesHolds == Spec => []BarrierSeparates
<1>1. RegionInv => BarrierSeparates
  <2> SUFFICES ASSUME RegionInv, NEW b \in DOMAIN work, work[b] = "barrier",
                      NEW t \in Members, NEW u \in Members, Passed(t, b)
               PROVE  Arrived(u, b)
    BY DEF BarrierSeparates
  <2>1. Types /\ Shape /\ ReleasedCalled
    BY DEF RegionInv, BarrierInv
  <2>2. t \in Thread /\ u \in Thread
    BY <2>1, MemberFacts
  <2>3. at[t] \in Nat /\ at[u] \in Nat /\ b \in Nat
    BY <2>1, <2>2 DEF Types
  <2>4. waitpc[t] = "out" => ~Counted(t)
    BY DEF Counted, AtBarrier, Waits
  <2>5. Released(t, b)
    BY <2>3, <2>4 DEF Passed, Released
  <2>6. Called(u, b)
    BY <2>1, <2>5 DEF ReleasedCalled, IsBarrier
  <2> QED
    BY <2>3, <2>6 DEF Called, Arrived
<1> QED
    BY <1>1, RegionInvariant, PTL

\* A worker runs in a team, and reads it to wake its master, only while it is
\* a member and the team is allocated (the assertion of thread.c:380).
THEOREM TeamOutlivesWorkHolds == Spec => []TeamOutlivesWork
<1>1. RegionInv => TeamOutlivesWork
  <2> SUFFICES ASSUME RegionInv, NEW t \in Workers,
                      \/ pc[t] \in InWork \cup {"joinwake"}
                      \/ pc[t] = "run" /\ Running(t)
               PROVE  inTeam[t] /\ t \in Members
    BY DEF TeamOutlivesWork
  <2>1. t \in Thread
    BY DEF Workers
  <2>2. t \in Members
    BY <2>1, WorksAsMember DEF Running, Waits
  <2> QED
    BY <2>2, MemberFacts DEF RegionInv
<1> QED
    BY <1>1, RegionInvariant, PTL

(***************************************************************************)
(* The work functions the compiler emits: a procedure gets its copy of a   *)
(* threadprivate variable before it stores in it, a COPYIN is closed by a  *)
(* barrier and comes before the stores of the region, a copyprivate        *)
(* belongs to the single before it, and no fork follows a single, because  *)
(* a nested fork does not restore single_count.                            *)
(***************************************************************************)
Is(w, i, call) == i \in DOMAIN w /\ w[i] = call

GetsCopy(p) ==
    \A w \in p : \A i \in DOMAIN w : w[i] = "assign" =>
        \E j \in DOMAIN w : j < i /\ w[j] = "thdprv"

ClosesCopyin(p) ==
    \A w \in p : \A i \in DOMAIN w : w[i] = "copyin" =>
        /\ Is(w, i + 1, "barrier")
        /\ \A j \in DOMAIN w : w[j] = "assign" =>
             i + 1 < j /\ \A k \in DOMAIN w : w[k] = "assign" => k = j

ForksFirst(p) ==
    \A w \in p : \A i, j \in DOMAIN w : w[i] = "nested" /\ w[j] = "single" => i < j

ClosesCopyprivate(p) ==
    \A w \in p : \A i \in DOMAIN w :
        /\ w[i] = "publish" => /\ Is(w, i - 1, "single") /\ Is(w, i + 1, "barrier")
                               /\ Is(w, i + 2, "copy") /\ Is(w, i + 3, "barrier")
        /\ w[i] = "copy" => Is(w, i - 2, "publish")

\* t has called the i-th function of the work function and gone on.
Past(t, i) ==
    \/ t \in joined
    \/ pc[t] \in {"join", "release"}
    \/ pc[t] \in InWork /\ at[t] > i

InRegion == pc[main] # "serial"

(***************************************************************************)
(* Threadprivate data                                                      *)
(***************************************************************************)
DataTypes ==
    /\ thdprv \in Thread \cup {NULL}
    /\ array \in [Thread -> Thread \cup {NULL}]
    /\ copies \in [Thread -> [Thread -> Value \cup {NULL}]]
    /\ stored \in [Thread -> Value \cup {NULL}]

Mirror == \A t \in Thread : stored[t] = CopyOf(t)

NoCopies == thdprv = NULL => \A a, g \in Thread : copies[a][g] = NULL

Filling == \A t \in Thread : pc[t] = "fill" => thdprv # NULL /\ array[t] = thdprv

Allocated ==
    \A i \in DOMAIN work :
        /\ work[i] = "thdprv" /\ (\E t \in Members : Past(t, i)) => thdprv # NULL
        /\ work[i] = "copyin" /\ InRegion => thdprv # NULL

DataInv == DataTypes /\ Mirror /\ NoCopies /\ Filling /\ Allocated

\* The copy that a region copies in stays with the main thread until it has
\* changed it, and with the others from their copyin until they change theirs.
Untouched(t) == \A j \in DOMAIN work : work[j] = "assign" => ~Past(t, j)

MasterKeeps ==
    \A i \in DOMAIN work : work[i] = "copyin" /\ InRegion =>
        thdprv # NULL /\ forked # NULL /\ (Untouched(main) => CopyOf(main) = forked)

OthersHave ==
    \A t \in Members : \A i \in DOMAIN work :
        work[i] = "copyin" /\ Past(t, i) /\ Untouched(t) => CopyOf(t) = forked

CopyinInv == MasterKeeps /\ OthersHave

(***************************************************************************)
(* Singles                                                                 *)
(***************************************************************************)
Singles(w, a) == {i \in 1 .. a - 1 : Is(w, i, "single")}
Nth(w, a) == Cardinality(Singles(w, a))

\* Nobody or one thread has won a single, and in a region it is a member.
AtMostOne ==
    \A i \in DOMAIN work : /\ winners[i] = {} \/ \E t \in Thread : winners[i] = {t}
                           /\ InRegion => winners[i] \subseteq Members

\* The team's single_count is the number of singles that have been won.
Decided == InRegion /\ Size > 1 =>
    \A i \in DOMAIN work : work[i] = "single" =>
        (winners[i] = {} <=> Nth(work, i) >= team.single_count)

\* A thread's single_count is the number of singles that it has passed.
Counts == InRegion /\ Size > 1 =>
    /\ \A t \in Members : pc[t] \in InWork =>
         single_count[t] = Nth(work, at[t]) /\ Nth(work, at[t]) <= team.single_count
    /\ \A t \in Members : t \in joined \/ pc[t] \in {"join", "release"} =>
         Nth(work, Len(work) + 1) <= team.single_count

\* Every thread begins a region with 0.
Fresh == /\ \A t \in Workers : pc[t] \in {"created", "run"} => single_count[t] = 0
         /\ pc[main] = "assign" => single_count[main] = 0

\* A single costs a thread without a team nothing but the call.
Alone == InRegion /\ Size = 1 =>
    \A i \in DOMAIN work : work[i] = "single" => (winners[i] # {} <=> Past(main, i))

SingleInv ==
    /\ winners \in [DOMAIN work -> SUBSET Thread]
    /\ AtMostOne /\ Decided /\ Counts /\ Fresh /\ Alone

(***************************************************************************)
(* Copyprivate                                                             *)
(***************************************************************************)
\* A thread that has just executed a single knows whether it has won it.
LockIsWin ==
    \A t \in Members : \A i \in DOMAIN work :
        work[i] = "single" /\ pc[t] \in InWork /\ at[t] = i + 1 => (lock[t] <=> t \in winners[i])

WinnerPast == InRegion => \A i \in DOMAIN work : \A x \in winners[i] : Past(x, i)

\* What the winner has published stays until somebody has gone beyond the
\* second barrier of the copyprivate.
Published ==
    Size > 1 => \A x \in Members : \A i \in DOMAIN work :
        /\ work[i] = "publish" /\ winners[i - 1] = {x} /\ Past(x, i)
        /\ \A t \in Members : ~Past(t, i + 4)
        => team.copyprivate_src = [thread |-> x, at |-> i]

CopyInv == LockIsWin /\ WinnerPast /\ Published

-----------------------------------------------------------------------------
(***************************************************************************)
(* Control: how a step of t, other than fork and release, moves it through *)
(* its work function.                                                      *)
(***************************************************************************)
WorksOn(t) == pc[t] \in InWork /\ pc'[t] \in InWork /\ at'[t] \in {at[t], at[t] + 1}
Begins(t) == pc[t] \in {"assign", "run"} /\ pc'[t] = "work" /\ at'[t] = 1
Stays(t) == pc'[t] = pc[t] /\ at'[t] = at[t]
Ends(t) == /\ pc[t] = "join" \/ (pc[t] = "work" /\ at[t] > Len(work))
           /\ pc'[t] \in {"join", "release"}
Rests(t) == pc[t] \in {"created", "idle", "joinwake"} /\ pc'[t] \in {"run", "idle"}
Joins(t) == /\ pc[t] = "work" /\ at[t] > Len(work) /\ pc'[t] \in {"idle", "joinwake"}
            /\ joined' = joined \cup {t}

Control(t) ==
    /\ UNCHANGED <<work, program, local_id>> /\ Members' = Members /\ Size' = Size
    /\ InRegion' <=> InRegion
    /\ \A u \in Thread \ {t} : pc'[u] = pc[u] /\ at'[u] = at[u]
    /\ \/ joined' = joined /\ (WorksOn(t) \/ Begins(t) \/ Stays(t) \/ Ends(t) \/ Rests(t))
       \/ Joins(t)

LEMMA StepControl ==
    ASSUME RegionInv, NEW t \in Thread, NEW l, NEW a, NEW n, Step(t, l, a, n),
           l # "serial", t = main => pc[main] # "serial",
           pc'[t] = l /\ at'[t] = a =>
               \/ joined' = joined /\ (WorksOn(t) \/ Begins(t) \/ Stays(t) \/ Ends(t) \/ Rests(t))
               \/ Joins(t)
    PROVE  Control(t)
<1>1. main \in Thread /\ UNCHANGED program
    BY ThreadFacts DEF Step, SameTeam
<1>2. /\ pc'[t] = l /\ at'[t] = a
      /\ \A u \in Thread \ {t} : pc'[u] = pc[u] /\ at'[u] = at[u]
      /\ local_id' = local_id /\ work' = work /\ Members' = Members /\ Size' = Size
    BY StepFacts
<1>3. InRegion' <=> InRegion
    BY <1>1, <1>2 DEF InRegion
<1> QED
    BY <1>1, <1>2, <1>3 DEF Control

LEMMA ControlHolds ==
    ASSUME RegionInv, NEW t \in Thread, ThreadStep(t), ~Release
    PROVE  Control(t)
<1>0. main \in Thread /\ Places(t)
    BY ThreadFacts DEF RegionInv
<1>1. CASE LocalStep(t)
  <2>1. PICK l, a : LocalMove(t, l, a) /\ Step(t, l, a, next[t]) /\ CountersKept
    BY <1>1, LocalEffect
  <2> QED
    BY <2>1, StepControl DEF LocalMove, WorksOn, InWork, CountersKept
<1>2. CASE WaitWakeStep(t)
  <2>1. Step(t, pc[t], at[t], next[t]) /\ CountersKept
    BY <1>2, WaitWakeEffect
  <2>2. CASE t = main /\ pc[t] = "serial"
    BY <1>2, <2>1, <2>2, StepFacts
       DEF Control, InRegion, Stays, WaitWakeStep, threadVars, teamVars, historyVars
  <2>3. CASE ~(t = main /\ pc[t] = "serial")
    <3>1. pc[t] # "serial"
        BY <1>0, <2>3 DEF Places, InWork
    <3> QED
        BY <2>1, <2>3, <3>1, StepControl DEF Stays, CountersKept
  <2> QED
    BY <2>2, <2>3
<1>3. CASE BarrierArrive(t)
  <2>1. PICK l, a : /\ Step(t, l, a, next[t]) /\ joined' = joined
                    /\ pc[t] = "work" /\ l \in {"work", "reset"} /\ a \in {at[t], at[t] + 1}
    BY <1>3, ArriveEffect DEF AtCall
  <2> QED
    BY <2>1, StepControl DEF WorksOn, InWork
<1>4. CASE BarrierReset(t)
    BY <1>4, ResetEffect, StepControl DEF WorksOn, InWork
<1>5. CASE BarrierWake(t)
    BY <1>5, BarrierWakeEffect, StepControl DEF WorksOn, InWork, CountersKept
<1>6. CASE BarrierLeave(t)
    BY <1>6, LeaveEffect, StepControl DEF WorksOn, InWork, CountersKept
<1>7. CASE t = main /\ MasterStep
  <2>1. CASE AssignWake
    BY <1>7, <2>1, AssignWakeEffect, StepControl DEF Stays, CountersKept
  <2>2. CASE MasterWork
    BY <1>7, <2>2, MasterWorkEffect, StepControl DEF Begins, CountersKept
  <2>3. CASE MasterWorkDone
    BY <1>7, <2>3, WorkDoneEffect, StepControl DEF Ends, CountersKept
  <2>4. CASE MasterJoinSpin
    BY <1>7, <2>4, JoinSpinEffect, StepControl DEF Ends
  <2>5. CASE MasterJoin
    BY <1>7, <2>5, MasterJoinEffect, StepControl DEF Ends
  <2> QED
    BY <1>7, <2>1, <2>2, <2>3, <2>4, <2>5 DEF MasterStep
<1>8. CASE t # main /\ WorkerStep(t)
  <2>1. CASE Start(t)
    BY <1>8, <2>1, StartEffect, StepControl DEF Rests, CountersKept
  <2>2. CASE WorkerWork(t)
    BY <1>8, <2>2, WorkerWorkEffect, StepControl DEF Begins, CountersKept
  <2>3. CASE WorkerJoin(t)
    <3>1. PICK l \in {"joinwake", "idle"} :
            /\ Step(t, l, at[t], next[t]) /\ joined' = joined \cup {t}
            /\ pc[t] = "work" /\ at[t] > Len(work)
        BY <2>3, WorkerJoinEffect
    <3> QED
        BY <1>8, <3>1, StepControl DEF Joins
  <2>4. CASE WorkerJoinWake(t)
    BY <1>8, <2>4, JoinWakeEffect, StepControl DEF Rests, CountersKept
  <2>5. CASE Idle(t)
    BY <1>8, <2>5, IdleEffect, StepControl DEF Rests, CountersKept
  <2> QED
    BY <1>8, <2>1, <2>2, <2>3, <2>4, <2>5 DEF WorkerStep
<1> QED
    BY <1>1, <1>2, <1>3, <1>4, <1>5, <1>6, <1>7, <1>8 DEF ThreadStep, CallStep, LocalStep

\* Nobody goes back, and a step takes only t past the call that it is at.
LEMMA PastFacts ==
    ASSUME RegionInv, NEW t \in Thread, Control(t)
    PROVE  /\ \A u \in Thread : \A i \in Int : Past(u, i) => Past(u, i)'
           /\ \A u \in Thread : \A i \in DOMAIN work : Past(u, i)' =>
                \/ Past(u, i)
                \/ /\ u = t /\ pc[t] \in InWork /\ pc'[t] \in InWork
                   /\ at[t] = i /\ at'[t] = i + 1
<1>0. at \in [Thread -> Nat] /\ work \in Seq(Call)
    BY DEF RegionInv, Types
<1>1. at[t] \in Nat /\ Len(work) \in Nat /\ DOMAIN work = 1 .. Len(work)
    BY <1>0
<1>2. \A u \in Thread \ {t} : \A i : Past(u, i)' <=> Past(u, i)
    BY DEF Control, Past, Joins
<1>3. CASE joined' = joined /\ (Stays(t) \/ Rests(t))
    BY <1>2, <1>3 DEF Past, Stays, Rests, InWork
<1>4. CASE joined' = joined /\ WorksOn(t)
  <2>1. ASSUME NEW i \in Int, Past(t, i) PROVE Past(t, i)'
    BY <1>1, <1>4, <2>1 DEF Past, WorksOn, InWork
  <2>2. ASSUME NEW i \in DOMAIN work, Past(t, i)', ~Past(t, i)
        PROVE  /\ pc[t] \in InWork /\ pc'[t] \in InWork /\ at[t] = i /\ at'[t] = i + 1
    BY <1>1, <1>4, <2>2 DEF Past, WorksOn, InWork
  <2> QED
    BY <1>2, <2>1, <2>2
<1>5. CASE joined' = joined /\ Begins(t)
  <2>1. \A i \in Int : Past(t, i) => Past(t, i)'
    BY <1>5 DEF Past, Begins, InWork
  <2>2. \A i \in DOMAIN work : Past(t, i)' => Past(t, i)
    <3>1. \A i \in DOMAIN work : ~(at'[t] > i)
        BY <1>1, <1>5 DEF Begins
    <3> QED
        BY <1>5, <3>1 DEF Past, Begins
  <2> QED
    BY <1>2, <2>1, <2>2
<1>6. CASE joined' = joined /\ Ends(t)
  <2>1. \A i \in Int : Past(t, i)'
    BY <1>6 DEF Past, Ends
  <2>2. \A i \in DOMAIN work : Past(t, i)
    BY <1>1, <1>6 DEF Past, Ends, InWork
  <2> QED
    BY <1>2, <2>1, <2>2
<1>7. CASE Joins(t)
  <2>1. \A i \in Int : Past(t, i)'
    BY <1>7 DEF Past, Joins
  <2>2. \A i \in DOMAIN work : Past(t, i)
    BY <1>1, <1>7 DEF Past, Joins, InWork
  <2> QED
    BY <1>2, <2>1, <2>2
<1> QED
    BY <1>3, <1>4, <1>5, <1>6, <1>7 DEF Control

LEMMA WorkInProgram ==
    ASSUME RegionInv, NEW i \in DOMAIN work
    PROVE  work \in program /\ i \in Nat /\ i <= Len(work) /\ Len(work) \in Nat
           /\ DOMAIN work = 1 .. Len(work)
<1>1. work \in Seq(Call) /\ work \in program \cup {<<>>}
    BY DEF RegionInv, Types
<1>2. DOMAIN work = 1 .. Len(work) /\ Len(work) \in Nat
    BY <1>1
<1>3. work # <<>>
    BY <1>2
<1> QED
    BY <1>1, <1>2, <1>3

\* In a new region nobody has called anything.
LEMMA ForkFacts ==
    ASSUME RegionInv, NEW n \in 1 .. NumThreads, NEW w \in program, Fork(n, w)
    PROVE  /\ work' = w /\ w \in Seq(Call) /\ joined' = {} /\ ~InRegion /\ InRegion'
           /\ pc'[main] = "assign" /\ \A u \in Thread \ {main} : pc'[u] = pc[u]
           /\ \A u \in Thread : pc'[u] \notin InWork /\ pc'[u] \notin {"join", "release"}
           /\ \A u \in Thread : \A i : ~Past(u, i)'
           /\ Members' \subseteq Thread /\ Size' = n
<1>1. /\ Types' /\ Shape' /\ pc[main] = "serial" /\ pc' = [pc EXCEPT ![main] = "assign"]
      /\ joined' = {} /\ Size' = n
    BY ForkEffect
<1>2. Types /\ main \in Thread
    BY ThreadFacts DEF RegionInv
<1>3. pc'[main] = "assign" /\ \A u \in Thread \ {main} : pc'[u] = pc[u]
    BY <1>1, <1>2 DEF Types
<1>4. \A u \in Thread : pc'[u] \notin InWork /\ pc'[u] \notin {"join", "release"}
  <2>1. \A u \in Thread : pc[u] \notin InWork
    BY <1>1, WorksAsMember
  <2>2. \A u \in Thread \ {main} : pc[u] \notin {"join", "release"}
    BY DEF RegionInv, Places, InWork
  <2> QED
    BY <1>3, <2>1, <2>2 DEF InWork
<1>5. work' = w /\ w \in Seq(Call)
  <2>1. program \subseteq Seq(Call)
    BY <1>2, ThreadFacts DEF Types
  <2> QED
    BY <2>1 DEF Fork
<1>6. Members' \subseteq Thread
    BY <1>1, MembersNext
<1> QED
    BY <1>1, <1>3, <1>4, <1>5, <1>6 DEF InRegion, Past

LEMMA ReleaseFacts ==
    ASSUME RegionInv, Release
    PROVE  /\ Members' = {} /\ ~InRegion' /\ Size' = 0 /\ UNCHANGED <<work, joined, program>>
           /\ pc'[main] = "serial" /\ \A u \in Thread \ {main} : pc'[u] = pc[u]
<1>1. /\ Members' = {} /\ Size' = 0 /\ pc' = [pc EXCEPT ![main] = "serial"]
      /\ UNCHANGED <<work, joined>>
    BY ReleaseEffect
<1>2. main \in Thread /\ Types /\ program' = program
    BY ThreadFacts DEF RegionInv, Release, historyVars
<1> QED
    BY <1>1, <1>2 DEF InRegion, Types
-----------------------------------------------------------------------------
(***************************************************************************)
(* Threadprivate data: the invariant is kept                               *)
(***************************************************************************)
\* A step that passes no call which provides the array.
LEMMA DataFrame ==
    ASSUME RegionInv, DataInv, NEW t \in Thread, Control(t),
           UNCHANGED <<thdprv, copies, stored>>,
           array' = array \/ \E a \in Thread \cup {NULL} : array' = [array EXCEPT ![t] = a],
           pc'[t] = "fill" => thdprv # NULL /\ array'[t] = thdprv,
           at[t] \in DOMAIN work /\ work[at[t]] = "thdprv" /\ pc[t] \in InWork
               /\ at'[t] = at[t] + 1 => thdprv # NULL
    PROVE  DataInv'
<1>1. DataTypes' /\ Mirror' /\ NoCopies'
    BY DEF DataInv, DataTypes, Mirror, NoCopies, CopyOf
<1>2. Filling'
    BY DEF DataInv, DataTypes, Filling, Control
<1>3. Types /\ Shape /\ Members \subseteq Thread /\ work' = work /\ Members' = Members
      /\ (InRegion' <=> InRegion) /\ thdprv' = thdprv
    BY MemberFacts DEF RegionInv, Control
<1>4. Allocated'
  <2> SUFFICES ASSUME NEW i \in DOMAIN work,
                      \/ work[i] = "thdprv" /\ \E u \in Members : Past(u, i)'
                      \/ work[i] = "copyin" /\ InRegion'
               PROVE  thdprv # NULL
    BY <1>3 DEF Allocated
  <2>1. CASE work[i] = "copyin" /\ InRegion'
    BY <1>3, <2>1 DEF DataInv, Allocated
  <2>2. CASE work[i] = "thdprv" /\ \E u \in Members : Past(u, i)'
    <3>1. PICK u \in Members : Past(u, i)'
        BY <2>2
    <3>2. u \in Thread /\ i \in Int
        BY <1>3, WorkInProgram
    <3>3. CASE Past(u, i)
        BY <2>2, <3>3 DEF DataInv, Allocated
    <3>4. CASE ~Past(u, i)
        BY <2>2, <3>1, <3>2, <3>4, PastFacts
    <3> QED
        BY <3>3, <3>4
  <2> QED
    BY <2>1, <2>2
<1> QED
    BY <1>1, <1>2, <1>4 DEF DataInv

\* A step that writes one copy of t.
LEMMA WriteKept ==
    ASSUME RegionInv, DataInv, NEW t \in Thread, Control(t), NEW v \in Value \cup {NULL},
           thdprv # NULL,
           copies' = [copies EXCEPT ![thdprv][t] = v], stored' = [stored EXCEPT ![t] = v],
           thdprv' = thdprv, pc'[t] # "fill",
           array' = array \/ array' = [array EXCEPT ![t] = NULL]
    PROVE  DataInv' /\ CopyOf(t)' = v /\ \A u \in Thread \ {t} : CopyOf(u)' = CopyOf(u)
<1>1. DataTypes /\ thdprv \in Thread
    BY DEF DataInv, DataTypes
<1>2. /\ copies'[thdprv][t] = v
      /\ \A u \in Thread \ {t} : copies'[thdprv][u] = copies[thdprv][u]
      /\ copies' \in [Thread -> [Thread -> Value \cup {NULL}]]
    BY <1>1 DEF DataTypes
<1>3. CopyOf(t)' = v /\ \A u \in Thread \ {t} : CopyOf(u)' = CopyOf(u)
    BY <1>2 DEF CopyOf
<1>4. Mirror'
    BY <1>1, <1>3 DEF DataInv, Mirror, DataTypes
<1>5. DataTypes'
    BY <1>1, <1>2 DEF DataTypes
<1>6. NoCopies'
    BY DEF NoCopies
<1>7. Filling'
    BY <1>1 DEF DataInv, Filling, Control, DataTypes
<1>8. Allocated'
    BY DEF Allocated
<1> QED
    BY <1>3, <1>4, <1>5, <1>6, <1>7, <1>8 DEF DataInv

\* A thread that stores in its copy has one.
LEMMA StoreKept ==
    ASSUME RegionInv, DataInv, GetsCopy(program), NEW t \in Thread, Control(t), NEW v,
           \/ Calls(t, "assign") /\ v \in Value
           \/ Calls(t, "copyin") /\ v = CopyOf(main),
           Store(t, v)
    PROVE  /\ DataInv' /\ thdprv # NULL /\ thdprv' = thdprv /\ forked' = forked
           /\ CopyOf(t)' = v /\ \A u \in Thread \ {t} : CopyOf(u)' = CopyOf(u)
<1>1. pc[t] = "work" /\ at[t] \in DOMAIN work /\ t \in Members /\ InRegion
    BY WorksAsMember DEF Calls, InWork, InRegion
<1>2. thdprv # NULL
  <2>1. CASE work[at[t]] = "copyin"
    BY <1>1, <2>1 DEF DataInv, Allocated
  <2>2. CASE work[at[t]] = "assign"
    <3>1. PICK j \in DOMAIN work : j < at[t] /\ work[j] = "thdprv"
        BY <1>1, <2>2, WorkInProgram DEF GetsCopy
    <3>2. Past(t, j)
        BY <1>1, <3>1, WorkInProgram DEF Past, InWork
    <3> QED
        BY <1>1, <3>1, <3>2 DEF DataInv, Allocated
  <2> QED
    BY <2>1, <2>2 DEF Calls
<1>3. v \in Value \cup {NULL}
  <2>1. CopyOf(main) \in Value \cup {NULL}
    BY ThreadFacts DEF CopyOf, DataInv, DataTypes
  <2> QED
    BY <2>1
<1>4. pc'[t] # "fill"
    BY <1>1 DEF Store
<1> QED
    BY <1>2, <1>3, <1>4, WriteKept DEF Store

\* What a step other than a store does to the copies that exist.
Keeps ==
    /\ thdprv # NULL => /\ thdprv' = thdprv
                        /\ \A u \in Thread : CopyOf(u) # NULL => CopyOf(u)' = CopyOf(u)
    /\ forked' = forked

\* The steps of __ompc_get_thdprv.
LEMMA GetKept ==
    ASSUME RegionInv, DataInv, NEW t \in Thread, Control(t),
           GetThdprv(t) \/ InstallThdprv(t) \/ FillThdprv(t)
    PROVE  DataInv' /\ Keeps
<1>0. DataTypes /\ Types /\ t # NULL /\ Places(t)
    BY ForkJoinAssumption DEF DataInv, RegionInv, NULL
<1>1. CASE GetThdprv(t)
  <2>1. UNCHANGED <<thdprv, copies, stored, forked>> /\ pc[t] = "work"
    BY <1>1 DEF GetThdprv, Calls
  <2>2. CASE CopyOf(t) # NULL
    <3>1. pc' = pc /\ array' = array /\ thdprv # NULL
        BY <1>1, <2>2 DEF GetThdprv, CopyOf
    <3>2. DataInv'
        BY <2>1, <3>1, DataFrame
    <3> QED
        BY <2>1, <3>2 DEF Keeps, CopyOf
  <2>3. CASE CopyOf(t) = NULL
    <3>1. /\ array' = [array EXCEPT ![t] = thdprv] /\ at' = at
          /\ pc' = [pc EXCEPT ![t] = IF thdprv = NULL THEN "install" ELSE "fill"]
        BY <1>1, <2>3 DEF GetThdprv, Goto
    <3>2. array'[t] = thdprv /\ pc'[t] = IF thdprv = NULL THEN "install" ELSE "fill"
        BY <1>0, <3>1 DEF DataTypes, Types
    <3>3. at'[t] # at[t] + 1
        BY <1>0, <3>1 DEF Types
    <3>4. \E a \in Thread \cup {NULL} : array' = [array EXCEPT ![t] = a]
        BY <1>0, <3>1 DEF DataTypes
    <3>5. DataInv'
        BY <2>1, <3>2, <3>3, <3>4, DataFrame
    <3> QED
        BY <2>1, <3>5 DEF Keeps, CopyOf
  <2> QED
    BY <2>2, <2>3
<1>2. CASE InstallThdprv(t)
  <2>1. /\ UNCHANGED <<copies, stored, forked, at>> /\ pc' = [pc EXCEPT ![t] = "fill"]
        /\ thdprv' = IF thdprv = NULL THEN t ELSE thdprv
        /\ array' = [array EXCEPT ![t] = thdprv']
    BY <1>2 DEF InstallThdprv, Goto
  <2>2. thdprv' \in Thread /\ thdprv' # NULL /\ array'[t] = thdprv' /\ at'[t] # at[t] + 1
    BY <1>0, <2>1 DEF DataTypes, Types
  <2>3. CASE thdprv # NULL
    <3>1. DataInv'
        BY <2>1, <2>2, <2>3, DataFrame
    <3> QED
        BY <2>1, <2>3, <3>1 DEF Keeps, CopyOf
  <2>4. CASE thdprv = NULL
    <3>1. \A u \in Thread : CopyOf(u)' = NULL /\ stored[u] = NULL
        BY <2>1, <2>2, <2>4 DEF DataInv, NoCopies, Mirror, CopyOf
    <3>2. Mirror'
        BY <2>1, <3>1 DEF Mirror
    <3>3. DataTypes' /\ NoCopies' /\ Allocated'
        BY <1>0, <2>1, <2>2 DEF DataTypes, NoCopies, Allocated
    <3>4. Filling'
        BY <2>2, <2>4 DEF DataInv, Filling, Control
    <3> QED
        BY <2>1, <2>4, <3>2, <3>3, <3>4 DEF DataInv, Keeps
  <2> QED
    BY <2>3, <2>4
<1>3. CASE FillThdprv(t)
  <2>1. /\ UNCHANGED <<thdprv, forked>> /\ pc' = [pc EXCEPT ![t] = "work"] /\ pc[t] = "fill"
        /\ array' = [array EXCEPT ![t] = NULL]
    BY <1>3 DEF FillThdprv, Goto
  <2>2. thdprv # NULL /\ array[t] = thdprv /\ pc'[t] # "fill"
    BY <1>0, <2>1 DEF DataInv, Filling, Types
  <2>3. CASE copies[thdprv][t] = NULL
    <3>1. copies' = [copies EXCEPT ![thdprv][t] = 0] /\ stored' = [stored EXCEPT ![t] = 0]
        BY <1>3, <2>2, <2>3 DEF FillThdprv
    <3>2. 0 \in Value \cup {NULL}
        BY DEF Value
    <3>3. DataInv' /\ \A u \in Thread \ {t} : CopyOf(u)' = CopyOf(u)
        BY <2>1, <2>2, <3>1, <3>2, WriteKept
    <3> QED
        BY <2>1, <2>2, <2>3, <3>3 DEF Keeps, CopyOf
  <2>4. CASE copies[thdprv][t] # NULL
    <3>1. UNCHANGED <<copies, stored>>
        BY <1>3, <2>2, <2>4 DEF FillThdprv
    <3>2. DataInv'
        BY <2>1, <2>2, <3>1, DataFrame
    <3> QED
        BY <2>1, <3>1, <3>2 DEF Keeps, CopyOf
  <2> QED
    BY <2>3, <2>4
<1> QED
    BY <1>1, <1>2, <1>3

\* The steps that leave threadprivate data alone.
Elsewhere(t) ==
    /\ ThreadStep(t) /\ ~Release
    /\ ~(GetThdprv(t) \/ InstallThdprv(t) \/ FillThdprv(t) \/ Assign(t) \/ CopyinThdprv(t))

LEMMA ElsewhereKept ==
    ASSUME RegionInv, DataInv, NEW t \in Thread, Elsewhere(t)
    PROVE  /\ DataInv' /\ Keeps /\ UNCHANGED thdprvVars
           /\ pc[t] \in InWork /\ at'[t] = at[t] + 1 =>
                at[t] \in DOMAIN work /\ work[at[t]] \in {"barrier", "single", "publish", "copy", "nested"}
<1>0. Control(t) /\ Types /\ Places(t)
    BY ControlHolds DEF Elsewhere, RegionInv
<1>1. UNCHANGED thdprvVars
    BY DEF Elsewhere, ThreadStep, WaitWakeStep, CallStep, MasterStep, WorkerStep,
           BarrierArrive, BarrierReset, Rearm, BarrierWake, BarrierLeave, Single, Publish,
           Copy, Nested, AssignWake, MasterWork, MasterWorkDone, MasterJoinSpin, JoinWhen,
           MasterJoin, Start, WorkerWork, WorkerJoin, WorkerLeave, WorkerJoinWake, Idle,
           teamVars, historyVars
<1>2. pc'[t] = "fill" => pc[t] = "fill"
  <2>1. CASE UNCHANGED pc
    BY <2>1
  <2>2. CASE \E l \in Label \ {"fill"} : pc' = [pc EXCEPT ![t] = l]
    BY <1>0, <2>2 DEF Types
  <2> QED
    BY <2>1, <2>2
       DEF Elsewhere, ThreadStep, WaitWakeStep, CallStep, MasterStep, WorkerStep,
           BarrierArrive, BarrierReset, Rearm, BarrierWake, BarrierLeave, Single, Publish,
           Copy, Nested, AssignWake, MasterWork, MasterWorkDone, MasterJoinSpin, JoinWhen,
           MasterJoin, Start, WorkerWork, WorkerJoin, WorkerLeave, WorkerJoinWake, Idle,
           threadVars, Goto, Label
<1>3. ASSUME pc[t] \in InWork, at'[t] = at[t] + 1
      PROVE  /\ at[t] \in DOMAIN work
             /\ work[at[t]] \in {"barrier", "single", "publish", "copy", "nested"}
  <2>0. at[t] \in Nat
    BY <1>0 DEF Types
  <2>1. CASE Single(t) \/ Publish(t) \/ Copy(t) \/ Nested(t) \/ BarrierArrive(t)
    BY <2>1 DEF Single, Publish, Copy, Nested, BarrierArrive, Calls
  <2>2. CASE BarrierLeave(t)
    <3>1. Waking(t)
        BY <2>2 DEF BarrierLeave, Waking
    <3> QED
        BY <3>1, WakerFacts DEF IsBarrier
  <2>3. CASE UNCHANGED at
    BY <1>3, <2>0, <2>3
  <2>4. CASE MasterWork \/ WorkerWork(t) \/ (t # main /\ Idle(t))
    BY <1>3, <2>4, <1>0 DEF MasterWork, WorkerWork, Idle, InWork, Types
  <2> QED
    BY <2>1, <2>2, <2>3, <2>4
       DEF Elsewhere, ThreadStep, WaitWakeStep, CallStep, MasterStep, WorkerStep,
           BarrierReset, Rearm, BarrierWake, AssignWake, MasterWorkDone, MasterJoinSpin,
           JoinWhen, MasterJoin, Start, WorkerJoin, WorkerLeave, WorkerJoinWake, threadVars
<1>4. DataInv'
  <2>1. UNCHANGED <<thdprv, copies, stored>> /\ array' = array
    BY <1>1 DEF thdprvVars
  <2>2. pc'[t] = "fill" => thdprv # NULL /\ array'[t] = thdprv
    BY <1>2, <2>1 DEF DataInv, Filling
  <2> QED
    BY <1>0, <1>3, <2>1, <2>2, DataFrame
<1>5. Keeps
    BY <1>1 DEF Keeps, thdprvVars, CopyOf
<1> QED
    BY <1>1, <1>3, <1>4, <1>5

LEMMA ForkDataKept ==
    ASSUME RegionInv, DataInv, NEW n \in 1 .. NumThreads, NEW w \in program, Fork(n, w)
    PROVE  /\ DataInv' /\ forked' = CopyOf(main)
           /\ \A u \in Thread : CopyOf(u)' = CopyOf(u)
           /\ (\E i \in DOMAIN w : w[i] = "copyin") => forked' # NULL /\ thdprv' # NULL
<1>1. /\ UNCHANGED <<thdprv, copies, stored, array>> /\ forked' = CopyOf(main)
      /\ (\E i \in DOMAIN w : w[i] = "copyin") => CopyOf(main) # NULL
    BY DEF Fork
<1>2. /\ work' = w /\ Members' \subseteq Thread
      /\ \A u \in Thread : pc'[u] \notin InWork
      /\ \A u \in Thread : \A i : ~Past(u, i)'
    BY ForkFacts
<1>3. \A u \in Thread : CopyOf(u)' = CopyOf(u)
    BY <1>1 DEF CopyOf
<1>4. DataTypes' /\ Mirror' /\ NoCopies'
    BY <1>1, <1>3 DEF DataInv, DataTypes, Mirror, NoCopies
<1>5. Filling'
    BY <1>2 DEF Filling, InWork
<1>6. CopyOf(main) # NULL => thdprv # NULL
    BY DEF CopyOf
<1>7. Allocated'
    BY <1>1, <1>2, <1>6 DEF Allocated
<1> QED
    BY <1>1, <1>3, <1>4, <1>5, <1>6, <1>7 DEF DataInv

LEMMA ReleaseDataKept ==
    ASSUME RegionInv, DataInv, Release
    PROVE  DataInv' /\ UNCHANGED <<thdprv, copies, stored, array, forked>>
<1>1. UNCHANGED <<thdprv, copies, stored, array, forked>>
    BY DEF Release, historyVars, thdprvVars
<1>2. Members' = {} /\ ~InRegion' /\ pc'[main] = "serial" /\ \A u \in Thread \ {main} : pc'[u] = pc[u]
    BY ReleaseFacts
<1>3. DataTypes' /\ Mirror' /\ NoCopies'
    BY <1>1 DEF DataInv, DataTypes, Mirror, NoCopies, CopyOf
<1>4. Filling'
    BY <1>1, <1>2 DEF DataInv, Filling
<1>5. Allocated'
    BY <1>2 DEF Allocated
<1> QED
    BY <1>1, <1>3, <1>4, <1>5 DEF DataInv

LEMMA NothingDataKept ==
    ASSUME DataInv, UNCHANGED vars
    PROVE  DataInv'
<1>1. UNCHANGED <<pc, at, team, work, joined, thdprv, copies, stored, array>>
    BY DEF vars, threadVars, teamVars, historyVars, thdprvVars
<1>2. Members' = Members /\ \A u, i : Past(u, i)' <=> Past(u, i)
    BY <1>1 DEF Members, Member, Past
<1> QED
    BY <1>1, <1>2 DEF DataInv, DataTypes, Mirror, NoCopies, Filling, Allocated, CopyOf, InRegion

LEMMA ProgramKept ==
    ASSUME [Next]_vars
    PROVE  program' = program
<1>1. CASE UNCHANGED vars
    BY <1>1 DEF vars, teamVars, historyVars
<1>2. ASSUME NEW n, NEW w, Fork(n, w) PROVE program' = program
    BY <1>2 DEF Fork
<1>3. ASSUME NEW t \in Thread, ThreadStep(t) PROVE program' = program
    BY <1>3 DEF ThreadStep, WaitWakeStep, CallStep, MasterStep, WorkerStep,
           BarrierArrive, BarrierReset, Rearm, BarrierWake, BarrierLeave, Single, Publish,
           Copy, Nested, AssignWake, MasterWork, MasterWorkDone, MasterJoinSpin, JoinWhen,
           MasterJoin, Release, Start, WorkerWork, WorkerJoin, WorkerLeave, WorkerJoinWake, Idle,
           GetThdprv, InstallThdprv, FillThdprv, Assign, CopyinThdprv, Store,
           UnchangedButThdprv, teamVars, historyVars
<1> QED
    BY <1>1, <1>2, <1>3 DEF Next

\* The stores of the program and of a COPYIN.
LEMMA StoreSteps ==
    ASSUME RegionInv, DataInv, GetsCopy(program), NEW t \in Thread, Control(t),
           Assign(t) \/ CopyinThdprv(t)
    PROVE  /\ DataInv' /\ thdprv # NULL /\ thdprv' = thdprv /\ forked' = forked
           /\ \A u \in Thread \ {t} : CopyOf(u)' = CopyOf(u)
           /\ Calls(t, "assign") \/ (Calls(t, "copyin") /\ CopyOf(t)' = CopyOf(main))
           /\ pc[t] = "work" /\ at' = [at EXCEPT ![t] = at[t] + 1] /\ pc' = pc
<1>1. CASE Assign(t)
  <2>1. PICK v \in Value : Store(t, v)
    BY <1>1 DEF Assign, Value
  <2>2. Calls(t, "assign")
    BY <1>1 DEF Assign
  <2> QED
    BY <2>1, <2>2, StoreKept DEF Store, Return, Calls
<1>2. CASE CopyinThdprv(t)
  <2>1. Calls(t, "copyin") /\ Store(t, CopyOf(main))
    BY <1>2 DEF CopyinThdprv
  <2> QED
    BY <2>1, StoreKept DEF Store, Return, Calls
<1> QED
    BY <1>1, <1>2

LEMMA NextDataInv ==
    ASSUME RegionInv, DataInv, GetsCopy(program), [Next]_vars
    PROVE  DataInv'
<1>1. ASSUME NEW t \in Thread, ThreadStep(t), ~Release PROVE DataInv'
  <2>1. Control(t)
    BY <1>1, ControlHolds
  <2> QED
    BY <1>1, <2>1, ElsewhereKept, GetKept, StoreSteps DEF Elsewhere
<1>2. CASE Release
    BY <1>2, ReleaseDataKept
<1>3. ASSUME NEW n \in 1 .. NumThreads, NEW w \in program, Fork(n, w) PROVE DataInv'
    BY <1>3, ForkDataKept
<1>4. CASE UNCHANGED vars
    BY <1>4, NothingDataKept
<1> QED
    BY <1>1, <1>2, <1>3, <1>4 DEF Next

LEMMA InitDataInv == Init => DataInv
<1> SUFFICES ASSUME Init PROVE DataInv
    OBVIOUS
<1>0. thdprv = NULL /\ DOMAIN work = {}
    BY DEF Init
<1>1. DataTypes /\ NoCopies
    BY DEF Init, DataTypes, NoCopies
<1>2. Mirror
    BY DEF Init, Mirror, CopyOf
<1>3. Filling
    BY DEF Init, Filling
<1>4. Allocated
    BY <1>0 DEF Allocated
<1> QED
    BY <1>1, <1>2, <1>3, <1>4 DEF DataInv

\* Each thread's copy in the installed array is what it has stored last, there
\* is no copy before an array is installed, and whoever fills in its copy does
\* so in the installed array (thread.c:882-948), in every program that gets its
\* copy before it stores in it.
THEOREM DataInvariant == Spec /\ GetsCopy(program) => []DataInv
<1>1. RegionInv /\ DataInv /\ GetsCopy(program) /\ [Next]_vars =>
          DataInv' /\ GetsCopy(program)'
    BY NextDataInv, ProgramKept DEF GetsCopy
<1> QED
    BY <1>1, InitDataInv, RegionInvariant, PTL DEF Spec

\* Threads that race to install the array lose no copy: a thread finds what
\* it has last stored, in this region or an earlier one (thread.c:910-926).
THEOREM CopyPersistsHolds == Spec /\ GetsCopy(program) => []CopyPersists
<1>1. DataInv => CopyPersists
    BY DEF DataInv, Mirror, CopyPersists
<1> QED
    BY <1>1, DataInvariant, PTL

-----------------------------------------------------------------------------
(***************************************************************************)
(* COPYIN                                                                  *)
(***************************************************************************)
\* The barrier after a COPYIN keeps the main thread from its next store until
\* everybody has copied.
LEMMA MasterHasNotStored ==
    ASSUME RegionInv, ClosesCopyin(program), NEW t \in Thread, Calls(t, "copyin")
    PROVE  Untouched(main) /\ t \in Members /\ InRegion
<1>1. pc[t] = "work" /\ at[t] \in DOMAIN work /\ work[at[t]] = "copyin"
    BY DEF Calls
<1>2. t \in Members /\ t \notin joined /\ InRegion
    BY <1>1, WorkingUnjoined, WorksAsMember DEF InWork, InRegion
<1>3. Types /\ Shape /\ ReleasedCalled /\ main \in Members /\ main \in Thread
    BY <1>2, ThreadFacts, MemberFacts DEF RegionInv, BarrierInv, InRegion
<1>4. main \notin joined /\ at[main] \in Nat /\ at[t] \in Nat
    BY <1>3 DEF Types, Workers
<1> SUFFICES ASSUME NEW j \in DOMAIN work, work[j] = "assign", Past(main, j) PROVE FALSE
    BY <1>2 DEF Untouched
<1>5. /\ work \in program /\ j \in Nat
    BY WorkInProgram
<1>6. /\ at[t] + 1 \in DOMAIN work /\ work[at[t] + 1] = "barrier" /\ at[t] + 1 < j
    BY <1>1, <1>5 DEF ClosesCopyin, Is
<1> DEFINE b == at[t] + 1
<1>7. b \in Nat /\ b \in DOMAIN work /\ IsBarrier(b) /\ b < j
    BY <1>4, <1>6 DEF IsBarrier
<1>8. ~Called(t, b)
    BY <1>1, <1>2, <1>4 DEF Called
<1> HIDE DEF b
<1>9. Released(main, b)
    BY <1>4, <1>5, <1>7 DEF Past, Released
<1> QED
    BY <1>2, <1>3, <1>7, <1>8, <1>9 DEF ReleasedCalled

LEMMA UntouchedKept ==
    ASSUME RegionInv, NEW t \in Thread, Control(t), NEW u \in Thread, Untouched(u)'
    PROVE  Untouched(u)
<1>1. work' = work
    BY DEF Control
<1>2. \A j \in DOMAIN work : j \in Int
    BY WorkInProgram
<1>3. \A j \in DOMAIN work : Past(u, j) => Past(u, j)'
    BY <1>2, PastFacts
<1> QED
    BY <1>1, <1>3 DEF Untouched

\* Steps that store nothing, and the steps of __ompc_get_thdprv.
LEMMA KeepsCopyin ==
    ASSUME RegionInv, CopyinInv, NEW t \in Thread, Control(t), Keeps,
           at[t] \in DOMAIN work /\ pc[t] \in InWork /\ at'[t] = at[t] + 1 =>
               work[at[t]] # "copyin"
    PROVE  CopyinInv'
<1>1. /\ main \in Thread /\ work' = work /\ Members' = Members /\ (InRegion' <=> InRegion)
      /\ Types /\ Shape
    BY ThreadFacts DEF Control, RegionInv
<1>2. \A u \in Members : u \in Thread /\ InRegion
    BY <1>1, MemberFacts DEF InRegion
<1>3. MasterKeeps'
  <2> SUFFICES ASSUME NEW i \in DOMAIN work, work[i] = "copyin", InRegion
               PROVE  thdprv' # NULL /\ forked' # NULL /\ (Untouched(main)' => CopyOf(main)' = forked')
    BY <1>1 DEF MasterKeeps
  <2>1. thdprv # NULL /\ forked # NULL /\ (Untouched(main) => CopyOf(main) = forked)
    BY DEF CopyinInv, MasterKeeps
  <2>2. thdprv' = thdprv /\ forked' = forked /\ (CopyOf(main) # NULL => CopyOf(main)' = CopyOf(main))
    BY <1>1, <2>1 DEF Keeps
  <2>3. Untouched(main)' => Untouched(main)
    BY <1>1, UntouchedKept
  <2> QED
    BY <2>1, <2>2, <2>3
<1>4. OthersHave'
  <2> SUFFICES ASSUME NEW u \in Members, NEW i \in DOMAIN work, work[i] = "copyin",
                      Past(u, i)', Untouched(u)'
               PROVE  CopyOf(u)' = forked'
    BY <1>1 DEF OthersHave
  <2>1. u \in Thread /\ InRegion
    BY <1>2
  <2>2. Untouched(u)
    BY <2>1, UntouchedKept
  <2>3. Past(u, i)
    BY <2>1, PastFacts
  <2>4. CopyOf(u) = forked /\ thdprv # NULL /\ forked # NULL
    BY <2>1, <2>2, <2>3 DEF CopyinInv, MasterKeeps, OthersHave
  <2> QED
    BY <2>1, <2>4 DEF Keeps
<1> QED
    BY <1>3, <1>4 DEF CopyinInv

LEMMA StoreCopyin ==
    ASSUME RegionInv, DataInv, CopyinInv, GetsCopy(program), ClosesCopyin(program),
           NEW t \in Thread, Control(t), Assign(t) \/ CopyinThdprv(t)
    PROVE  CopyinInv'
<1>1. /\ thdprv # NULL /\ thdprv' = thdprv /\ forked' = forked
      /\ \A u \in Thread \ {t} : CopyOf(u)' = CopyOf(u)
      /\ Calls(t, "assign") \/ (Calls(t, "copyin") /\ CopyOf(t)' = CopyOf(main))
      /\ pc[t] = "work" /\ at' = [at EXCEPT ![t] = at[t] + 1] /\ pc' = pc
    BY StoreSteps
<1>2. /\ main \in Thread /\ work' = work /\ Members' = Members /\ (InRegion' <=> InRegion)
      /\ Types /\ Shape /\ MasterKeeps /\ OthersHave
    BY ThreadFacts DEF Control, RegionInv, CopyinInv
<1>3. \A u \in Members : u \in Thread /\ InRegion
    BY <1>2, MemberFacts DEF InRegion
<1>4. at[t] \in DOMAIN work /\ at[t] \in Nat /\ at'[t] = at[t] + 1
    BY <1>1, <1>2 DEF Calls, Types
<1>5. \A u \in Thread : Untouched(u)' => Untouched(u)
    BY UntouchedKept
<1>6. CASE Calls(t, "assign")
  <2>1. ~Untouched(t)'
    BY <1>1, <1>2, <1>4, <1>6 DEF Untouched, Past, Calls, InWork
  <2>2. MasterKeeps'
    BY <1>1, <1>2, <1>5, <2>1 DEF MasterKeeps
  <2>3. OthersHave'
    <3> SUFFICES ASSUME NEW u \in Members, NEW i \in DOMAIN work, work[i] = "copyin",
                        Past(u, i)', Untouched(u)'
                 PROVE  CopyOf(u)' = forked'
        BY <1>2 DEF OthersHave
    <3>1. u \in Thread /\ u # t
        BY <1>3, <2>1
    <3>2. Past(u, i) /\ Untouched(u)
        BY <1>5, <3>1, PastFacts
    <3> QED
        BY <1>1, <1>2, <3>1, <3>2 DEF OthersHave
  <2> QED
    BY <2>2, <2>3 DEF CopyinInv
<1>7. CASE Calls(t, "copyin") /\ CopyOf(t)' = CopyOf(main)
  <2>1. Untouched(main) /\ InRegion
    BY <1>7, MasterHasNotStored
  <2>2. CopyOf(main) = forked
    BY <1>2, <1>4, <1>7, <2>1 DEF MasterKeeps, Calls
  <2>3. CopyOf(t)' = forked' /\ CopyOf(main)' = forked'
    BY <1>1, <1>2, <1>7, <2>2
  <2>4. MasterKeeps'
    BY <1>1, <1>2, <2>3 DEF MasterKeeps
  <2>5. OthersHave'
    <3> SUFFICES ASSUME NEW u \in Members, NEW i \in DOMAIN work, work[i] = "copyin",
                        Past(u, i)', Untouched(u)'
                 PROVE  CopyOf(u)' = forked'
        BY <1>2 DEF OthersHave
    <3>1. CASE u = t
        BY <2>3, <3>1
    <3>2. CASE u # t
      <4>1. u \in Thread /\ Past(u, i) /\ Untouched(u)
        BY <1>3, <1>5, <3>2, PastFacts
      <4> QED
        BY <1>1, <1>2, <3>2, <4>1 DEF OthersHave
    <3> QED
        BY <3>1, <3>2
  <2> QED
    BY <2>4, <2>5 DEF CopyinInv
<1> QED
    BY <1>1, <1>6, <1>7

LEMMA NextCopyinInv ==
    ASSUME RegionInv, DataInv, CopyinInv, GetsCopy(program), ClosesCopyin(program), [Next]_vars
    PROVE  CopyinInv'
<1>1. ASSUME NEW t \in Thread, ThreadStep(t), ~Release PROVE CopyinInv'
  <2>1. Control(t)
    BY <1>1, ControlHolds
  <2>2. CASE Elsewhere(t)
    BY <2>1, <2>2, ElsewhereKept, KeepsCopyin
  <2>3. CASE GetThdprv(t) \/ InstallThdprv(t) \/ FillThdprv(t)
    <3>1. Keeps
        BY <2>1, <2>3, GetKept
    <3>2. pc[t] = "work" => work[at[t]] = "thdprv"
        BY <2>3 DEF GetThdprv, InstallThdprv, FillThdprv, Calls
    <3>3. pc[t] # "work" => work[at[t]] = "thdprv"
        BY <2>3 DEF RegionInv, Places, GetThdprv, InstallThdprv, FillThdprv, Calls
    <3> QED
        BY <2>1, <3>1, <3>2, <3>3, KeepsCopyin
  <2>4. CASE Assign(t) \/ CopyinThdprv(t)
    BY <2>1, <2>4, StoreCopyin
  <2> QED
    BY <1>1, <2>2, <2>3, <2>4 DEF Elsewhere
<1>2. CASE Release
    BY <1>2, ReleaseFacts DEF CopyinInv, MasterKeeps, OthersHave
<1>3. ASSUME NEW n \in 1 .. NumThreads, NEW w \in program, Fork(n, w) PROVE CopyinInv'
  <2>1. /\ work' = w /\ Members' \subseteq Thread
        /\ \A u \in Thread : \A i : ~Past(u, i)'
    BY <1>3, ForkFacts
  <2>2. /\ \A u \in Thread : CopyOf(u)' = CopyOf(u)
        /\ forked' = CopyOf(main)
        /\ (\E i \in DOMAIN w : w[i] = "copyin") => forked' # NULL /\ thdprv' # NULL
    BY <1>3, ForkDataKept
  <2> QED
    BY <2>1, <2>2, ThreadFacts DEF CopyinInv, MasterKeeps, OthersHave
<1>4. CASE UNCHANGED vars
  <2>1. UNCHANGED <<pc, at, team, work, joined, thdprv, copies, forked>>
    BY <1>4 DEF vars, threadVars, teamVars, historyVars, thdprvVars
  <2>2. Members' = Members /\ \A u, i : Past(u, i)' <=> Past(u, i)
    BY <2>1 DEF Members, Member, Past
  <2>3. (\A u : Untouched(u)' <=> Untouched(u)) /\ \A u : CopyOf(u)' = CopyOf(u)
    BY <2>1, <2>2 DEF Untouched, CopyOf
  <2> QED
    BY <2>1, <2>2, <2>3 DEF CopyinInv, MasterKeeps, OthersHave, InRegion
<1> QED
    BY <1>1, <1>2, <1>3, <1>4 DEF Next

\* What a region copies in is the value that the main thread had at the fork
\* until the thread that holds it stores again (thread.c:950-977).
THEOREM CopyinInvariant ==
    Spec /\ GetsCopy(program) /\ ClosesCopyin(program) => []CopyinInv
<1>1. Init => CopyinInv
  <2>1. Init => DOMAIN work = {}
    BY DEF Init
  <2> QED
    BY <2>1 DEF CopyinInv, MasterKeeps, OthersHave
<1>2. /\ RegionInv /\ DataInv /\ CopyinInv /\ GetsCopy(program) /\ ClosesCopyin(program)
      /\ [Next]_vars
      => CopyinInv' /\ GetsCopy(program)' /\ ClosesCopyin(program)'
    BY NextCopyinInv, ProgramKept DEF GetsCopy, ClosesCopyin
<1> QED
    BY <1>1, <1>2, RegionInvariant, DataInvariant, PTL DEF Spec

\* After a COPYIN every thread has the value that the main thread had at the
\* fork, although the main thread goes on to change its own copy.
THEOREM CopyinFromMasterHolds ==
    Spec /\ GetsCopy(program) /\ ClosesCopyin(program) => []CopyinFromMaster
<1>1. RegionInv /\ CopyinInv /\ ClosesCopyin(program) => CopyinFromMaster
  <2> SUFFICES ASSUME RegionInv, CopyinInv, ClosesCopyin(program), NEW t \in Thread,
                      Calls(t, "assign"), NEW i \in 1 .. at[t] - 1, work[i] = "copyin"
               PROVE  CopyOf(t) = forked
    BY DEF CopyinFromMaster
  <2>1. pc[t] = "work" /\ at[t] \in DOMAIN work /\ work[at[t]] = "assign" /\ Types
    BY DEF Calls, RegionInv
  <2>2. /\ work \in program /\ at[t] \in Nat /\ at[t] <= Len(work) /\ Len(work) \in Nat
        /\ DOMAIN work = 1 .. Len(work)
    BY <2>1, WorkInProgram
  <2>3. i \in DOMAIN work /\ i \in Nat /\ i < at[t]
    BY <2>2
  <2>4. t \in Members /\ t \notin joined
    BY <2>1, WorkingUnjoined DEF InWork
  <2>5. Past(t, i) /\ ~Past(t, at[t])
    BY <2>1, <2>2, <2>3, <2>4 DEF Past, InWork
  <2>6. Untouched(t)
    BY <2>1, <2>2, <2>3, <2>5 DEF ClosesCopyin, Untouched
  <2> QED
    BY <2>3, <2>4, <2>5, <2>6 DEF CopyinInv, OthersHave
<1>2. GetsCopy(program) /\ ClosesCopyin(program) /\ [Next]_vars =>
          GetsCopy(program)' /\ ClosesCopyin(program)'
    BY ProgramKept DEF GetsCopy, ClosesCopyin
<1> QED
    BY <1>1, <1>2, RegionInvariant, CopyinInvariant, PTL DEF Spec

-----------------------------------------------------------------------------
(***************************************************************************)
(* Singles                                                                 *)
(***************************************************************************)
LEMMA NthFacts ==
    ASSUME NEW w \in Seq(Call)
    PROVE  /\ \A a \in Nat : Nth(w, a) \in Nat
           /\ Nth(w, 1) = 0
           /\ \A a \in DOMAIN w : w[a] = "single" => Nth(w, a + 1) = Nth(w, a) + 1
           /\ \A a \in DOMAIN w : w[a] # "single" => Nth(w, a + 1) = Nth(w, a)
           /\ \A a, b \in Nat : a <= b => Nth(w, a) <= Nth(w, b)
           /\ \A a \in Nat : (\A i \in DOMAIN w : w[i] = "single" => i >= a) => Nth(w, a) = 0
<1>0. DOMAIN w = 1 .. Len(w) /\ Len(w) \in Nat
    OBVIOUS
<1>1. \A a \in Nat : IsFiniteSet(Singles(w, a)) /\ Nth(w, a) \in Nat
  <2> SUFFICES ASSUME NEW a \in Nat
               PROVE  IsFiniteSet(Singles(w, a)) /\ Nth(w, a) \in Nat
    OBVIOUS
  <2>1. IsFiniteSet(1 .. a - 1)
    BY FS_Interval
  <2>2. Singles(w, a) \subseteq 1 .. a - 1
    BY DEF Singles
  <2> QED
    BY <2>1, <2>2, FS_Subset, FS_CardinalityType DEF Nth
<1>2. \A a \in Nat : (\A i \in DOMAIN w : w[i] = "single" => i >= a) => Nth(w, a) = 0
  <2> SUFFICES ASSUME NEW a \in Nat, \A i \in DOMAIN w : w[i] = "single" => i >= a
               PROVE  Nth(w, a) = 0
    OBVIOUS
  <2>1. Singles(w, a) = {}
    BY <1>0 DEF Singles, Is
  <2> QED
    BY <2>1, FS_EmptySet DEF Nth
<1>3. Nth(w, 1) = 0
    BY <1>0, <1>2
<1>4. \A a \in DOMAIN w : w[a] = "single" => Nth(w, a + 1) = Nth(w, a) + 1
  <2> SUFFICES ASSUME NEW a \in DOMAIN w, w[a] = "single"
               PROVE  Nth(w, a + 1) = Nth(w, a) + 1
    OBVIOUS
  <2>1. a \in Nat /\ a >= 1
    BY <1>0
  <2>2. Singles(w, a + 1) = Singles(w, a) \cup {a} /\ a \notin Singles(w, a)
    BY <2>1 DEF Singles, Is
  <2>3. IsFiniteSet(Singles(w, a))
    BY <1>1, <2>1
  <2> QED
    BY <2>2, <2>3, FS_AddElement DEF Nth
<1>5. \A a \in DOMAIN w : w[a] # "single" => Nth(w, a + 1) = Nth(w, a)
  <2> SUFFICES ASSUME NEW a \in DOMAIN w, w[a] # "single"
               PROVE  Nth(w, a + 1) = Nth(w, a)
    OBVIOUS
  <2>1. a \in Nat /\ a >= 1
    BY <1>0
  <2>2. Singles(w, a + 1) = Singles(w, a)
    BY <2>1 DEF Singles, Is
  <2> QED
    BY <2>2 DEF Nth
<1>6. \A a, b \in Nat : a <= b => Nth(w, a) <= Nth(w, b)
  <2> SUFFICES ASSUME NEW a \in Nat, NEW b \in Nat, a <= b
               PROVE  Nth(w, a) <= Nth(w, b)
    OBVIOUS
  <2>1. Singles(w, a) \subseteq Singles(w, b)
    BY DEF Singles
  <2> QED
    BY <1>1, <2>1, FS_Subset DEF Nth
<1> QED
    BY <1>1, <1>2, <1>3, <1>4, <1>5, <1>6

\* The updates of the team keep the fields that single and copyprivate use.
LEMMA UpdatesKeepSingle ==
    ASSUME NEW r \in TeamRecord, NEW c
    PROVE  /\ [r EXCEPT !.working_threads = c].single_count = r.single_count
           /\ [r EXCEPT !.barrier_count = c].single_count = r.single_count
           /\ [r EXCEPT !.copyprivate_src = c].single_count = r.single_count
           /\ [r EXCEPT !.single_count = c].single_count = c
           /\ [r EXCEPT !.working_threads = c].copyprivate_src = r.copyprivate_src
           /\ [r EXCEPT !.barrier_count = c].copyprivate_src = r.copyprivate_src
           /\ [r EXCEPT !.single_count = c].copyprivate_src = r.copyprivate_src
           /\ [r EXCEPT !.copyprivate_src = c].copyprivate_src = c
BY DEF TeamRecord

\* The steps that touch no counter of singles.
Plain(t) ==
    /\ ThreadStep(t) /\ ~Release
    /\ ~Single(t) /\ ~Nested(t) /\ ~(t # main /\ Idle(t))

LEMMA PlainEffect ==
    ASSUME RegionInv, NEW t \in Thread, Plain(t)
    PROVE  /\ UNCHANGED <<winners, single_count, lock>>
           /\ team'.single_count = team.single_count
           /\ Publish(t) \/ team'.copyprivate_src = team.copyprivate_src
           /\ pc'[t] \in {"created", "run"} => pc[t] \in {"created", "run"}
           /\ pc[t] \in InWork /\ at'[t] = at[t] + 1 =>
                /\ at[t] \in DOMAIN work /\ work[at[t]] \notin {"single", "nested"}
                /\ work[at[t]] = "publish" => Publish(t)
<1>0. Types /\ Places(t) /\ team \in TeamRecord /\ at[t] \in Nat /\ pc \in [Thread -> Label]
    BY DEF RegionInv, Types
<1>1. UNCHANGED <<winners, single_count, lock>>
    BY DEF Plain, ThreadStep, WaitWakeStep, CallStep, MasterStep, WorkerStep,
           BarrierArrive, BarrierReset, Rearm, BarrierWake, BarrierLeave, Publish,
           Copy, AssignWake, MasterWork, MasterWorkDone, MasterJoinSpin, JoinWhen,
           MasterJoin, Start, WorkerWork, WorkerJoin, WorkerLeave, WorkerJoinWake,
           GetThdprv, InstallThdprv, FillThdprv, Assign, CopyinThdprv, Store,
           UnchangedButThdprv, threadVars, teamVars, historyVars
<1>2. /\ team'.single_count = team.single_count
      /\ Publish(t) \/ team'.copyprivate_src = team.copyprivate_src
  <2>1. CASE UNCHANGED team
    BY <2>1
  <2>2. CASE \E c : \/ team' = [team EXCEPT !.working_threads = c]
                    \/ team' = [team EXCEPT !.barrier_count = c]
    <3>1. PICK c : \/ team' = [team EXCEPT !.working_threads = c]
                   \/ team' = [team EXCEPT !.barrier_count = c]
        BY <2>2
    <3>2. /\ [team EXCEPT !.working_threads = c].single_count = team.single_count
          /\ [team EXCEPT !.working_threads = c].copyprivate_src = team.copyprivate_src
        BY <1>0, UpdatesKeepSingle
    <3>3. /\ [team EXCEPT !.barrier_count = c].single_count = team.single_count
          /\ [team EXCEPT !.barrier_count = c].copyprivate_src = team.copyprivate_src
        BY <1>0, UpdatesKeepSingle
    <3> QED
        BY <3>1, <3>2, <3>3
  <2>3. CASE Publish(t)
    <3> DEFINE c == [thread |-> t, at |-> at[t]]
    <3>1. UNCHANGED team \/ team' = [team EXCEPT !.copyprivate_src = c]
        BY <2>3 DEF Publish
    <3> HIDE DEF c
    <3>2. [team EXCEPT !.copyprivate_src = c].single_count = team.single_count
        BY <1>0, UpdatesKeepSingle
    <3> QED
        BY <2>3, <3>1, <3>2
  <2>4. CASE BarrierArrive(t) \/ MasterJoin \/ WorkerJoin(t) \/ BarrierReset(t) \/ MasterJoinSpin
    <3>1. \/ UNCHANGED team
          \/ \E c : \/ team' = [team EXCEPT !.working_threads = c]
                    \/ team' = [team EXCEPT !.barrier_count = c]
        BY <2>4 DEF BarrierArrive, MasterJoin, WorkerJoin, WorkerLeave, BarrierReset, Rearm,
                    MasterJoinSpin, JoinWhen
    <3> QED
        BY <2>1, <2>2, <3>1
  <2> QED
    BY <2>1, <2>3, <2>4
       DEF Plain, ThreadStep, WaitWakeStep, CallStep, MasterStep, WorkerStep,
           BarrierWake, BarrierLeave, Copy, AssignWake, MasterWork, MasterWorkDone,
           Start, WorkerWork, WorkerJoinWake, GetThdprv, InstallThdprv, FillThdprv,
           Assign, CopyinThdprv, Store, UnchangedButThdprv, teamVars
<1>3. pc'[t] \in {"created", "run"} => pc[t] \in {"created", "run"}
  <2>1. CASE UNCHANGED pc
    BY <2>1
  <2>2. CASE \E l \in Label \ {"created", "run"} : pc' = [pc EXCEPT ![t] = l]
    BY <1>0, <2>2
  <2>3. CASE Start(t)
    BY <2>3 DEF Start
  <2> QED
    BY <2>1, <2>2, <2>3
       DEF Plain, ThreadStep, WaitWakeStep, CallStep, MasterStep, WorkerStep,
           BarrierArrive, BarrierReset, Rearm, BarrierWake, BarrierLeave, Publish,
           Copy, AssignWake, MasterWork, MasterWorkDone, MasterJoinSpin, JoinWhen,
           MasterJoin, WorkerWork, WorkerJoin, WorkerLeave, WorkerJoinWake,
           GetThdprv, InstallThdprv, FillThdprv, Assign, CopyinThdprv, Store,
           threadVars, Goto, Label
<1>4. ASSUME pc[t] \in InWork, at'[t] = at[t] + 1
      PROVE  /\ at[t] \in DOMAIN work /\ work[at[t]] \notin {"single", "nested"}
             /\ work[at[t]] = "publish" => Publish(t)
  <2>1. CASE \E c \in Call \ {"single", "nested", "publish"} : Calls(t, c)
    BY <2>1 DEF Calls
  <2>6. CASE Publish(t)
    BY <2>6 DEF Publish, Calls
  <2>2. CASE BarrierLeave(t)
    <3>1. Waking(t)
        BY <2>2 DEF BarrierLeave, Waking
    <3> QED
        BY <3>1, WakerFacts DEF IsBarrier
  <2>3. CASE UNCHANGED at
    BY <1>0, <1>4, <2>3
  <2>4. CASE (t = main /\ MasterWork) \/ WorkerWork(t)
    BY <1>0, <1>4, <2>4 DEF MasterWork, WorkerWork, InWork
  <2>5. CASE FillThdprv(t)
    BY <1>0, <2>5 DEF FillThdprv, Places
  <2> QED
    BY <2>1, <2>2, <2>3, <2>4, <2>5, <2>6
       DEF Plain, ThreadStep, WaitWakeStep, CallStep, MasterStep, WorkerStep,
           BarrierArrive, BarrierReset, Rearm, BarrierWake, Copy, AssignWake,
           MasterWorkDone, MasterJoinSpin, JoinWhen, MasterJoin, Start, WorkerJoin,
           WorkerLeave, WorkerJoinWake, GetThdprv, InstallThdprv, Assign, CopyinThdprv,
           threadVars, Call
<1> QED
    BY <1>1, <1>2, <1>3, <1>4

\* The counts of a team after a step of t that wins nothing.
LEMMA CountsKept ==
    ASSUME RegionInv, Counts, NEW t \in Thread, Control(t),
           team'.single_count \in Nat, team'.single_count >= team.single_count,
           \A u \in Thread \ {t} : single_count'[u] = single_count[u],
           InRegion /\ Size > 1 /\ pc'[t] \in InWork =>
               /\ single_count'[t] = Nth(work, at'[t])
               /\ Nth(work, at'[t]) <= team'.single_count
    PROVE  Counts'
<1>1. /\ work' = work /\ Members' = Members /\ Size' = Size /\ (InRegion' <=> InRegion)
      /\ \A u \in Thread \ {t} : pc'[u] = pc[u] /\ at'[u] = at[u]
    BY DEF Control
<1> SUFFICES ASSUME InRegion, Size > 1
             PROVE  /\ \A u \in Members : pc'[u] \in InWork =>
                         /\ single_count'[u] = Nth(work, at'[u])
                         /\ Nth(work, at'[u]) <= team'.single_count
                    /\ \A u \in Members : u \in joined' \/ pc'[u] \in {"join", "release"} =>
                         Nth(work, Len(work) + 1) <= team'.single_count
    BY <1>1 DEF Counts
<1>2. Types /\ Members \subseteq Thread /\ Places(t) /\ team.single_count \in Nat
    BY MemberFacts, TeamFields DEF RegionInv, Types
<1>3. work \in Seq(Call) /\ Len(work) \in Nat /\ at \in [Thread -> Nat]
    BY <1>2 DEF Types
<1>4. \A a \in Nat : Nth(work, a) \in Nat
    BY <1>3, NthFacts
<1> DEFINE Done == Nth(work, Len(work) + 1)
<1>5. Done \in Nat /\ (at[t] = Len(work) + 1 => Nth(work, at[t]) = Done)
  <2>1. Len(work) + 1 \in Nat
    BY <1>3
  <2>2. Done \in Nat
    BY <1>4, <2>1
  <2>3. at[t] = Len(work) + 1 => Nth(work, at[t]) = Done
    OBVIOUS
  <2> QED
    BY <2>2, <2>3
<1>6. ASSUME NEW u \in Members, pc'[u] \in InWork
      PROVE  single_count'[u] = Nth(work, at'[u]) /\ Nth(work, at'[u]) <= team'.single_count
  <2>1. CASE u = t
    BY <1>6, <2>1
  <2>2. CASE u # t
    <3>1. u \in Thread /\ pc[u] \in InWork /\ at'[u] = at[u] /\ Nth(work, at[u]) \in Nat
        BY <1>1, <1>2, <1>3, <1>4, <1>6, <2>2
    <3>2. single_count[u] = Nth(work, at[u]) /\ Nth(work, at[u]) <= team.single_count
        BY <3>1 DEF Counts
    <3> QED
        BY <1>2, <2>2, <3>1, <3>2
  <2> QED
    BY <2>1, <2>2
<1>7. ASSUME NEW u \in Members, u \in joined \/ pc[u] \in {"join", "release"}
      PROVE  Done <= team'.single_count
  <2>1. Done <= team.single_count
    BY <1>7 DEF Counts
  <2> QED
    BY <1>2, <1>5, <2>1
<1>8. ASSUME NEW u \in Members, u \in joined' \/ pc'[u] \in {"join", "release"},
             ~(u \in joined \/ pc[u] \in {"join", "release"})
      PROVE  Done <= team'.single_count
  <2>1. u \in Thread
    BY <1>2
  <2>2. u = t /\ pc[t] = "work" /\ at[t] > Len(work)
    BY <1>1, <1>8, <2>1 DEF Control, Joins, WorksOn, Begins, Stays, Ends, Rests, InWork
  <2>3. at[t] = Len(work) + 1
    BY <1>2, <1>3, <2>2 DEF Places, InWork
  <2>4. Nth(work, at[t]) <= team.single_count
    BY <2>2 DEF Counts, InWork
  <2> QED
    BY <1>2, <1>5, <2>3, <2>4
<1> HIDE DEF Done
<1>9. ASSUME NEW u \in Members, u \in joined' \/ pc'[u] \in {"join", "release"}
      PROVE  Done <= team'.single_count
    BY <1>7, <1>8, <1>9
<1> USE DEF Done
<1> QED
    BY <1>6, <1>9

LEMMA FreshKept ==
    ASSUME RegionInv, Fresh, NEW t \in Thread, Control(t),
           \A u \in Thread \ {t} : single_count'[u] = single_count[u],
           pc'[t] \in {"created", "run", "assign"} => single_count'[t] = 0
    PROVE  Fresh'
<1>1. \A u \in Thread \ {t} : pc'[u] = pc[u]
    BY DEF Control
<1> QED
    BY <1>1, ThreadFacts DEF Fresh

\* The winners after a step that wins nothing and passes no single.
LEMMA WinnersKept ==
    ASSUME RegionInv, SingleInv, NEW t \in Thread, Control(t), winners' = winners,
           team'.single_count = team.single_count,
           pc[t] \in InWork /\ at[t] \in DOMAIN work /\ at'[t] = at[t] + 1 =>
               work[at[t]] # "single"
    PROVE  winners' \in [DOMAIN work' -> SUBSET Thread] /\ AtMostOne' /\ Decided' /\ Alone'
<1>1. /\ work' = work /\ Members' = Members /\ Size' = Size /\ (InRegion' <=> InRegion)
    BY DEF Control
<1>2. winners' \in [DOMAIN work' -> SUBSET Thread] /\ AtMostOne' /\ Decided'
    BY <1>1 DEF SingleInv, AtMostOne, Decided
<1>3. Alone'
  <2> SUFFICES ASSUME InRegion, Size = 1, NEW i \in DOMAIN work, work[i] = "single"
               PROVE  winners[i] # {} <=> Past(main, i)'
    BY <1>1 DEF Alone
  <2>1. main \in Thread /\ i \in Int
    BY ThreadFacts, WorkInProgram
  <2>2. winners[i] # {} <=> Past(main, i)
    BY DEF SingleInv, Alone
  <2>3. Past(main, i)' <=> Past(main, i)
    BY <2>1, PastFacts
  <2> QED
    BY <2>2, <2>3
<1> QED
    BY <1>2, <1>3

LEMMA PlainSingles ==
    ASSUME RegionInv, SingleInv, NEW t \in Thread, Plain(t)
    PROVE  SingleInv'
<1>1. /\ UNCHANGED <<winners, single_count>> /\ team'.single_count = team.single_count
      /\ pc'[t] \in {"created", "run"} => pc[t] \in {"created", "run"}
      /\ pc[t] \in InWork /\ at'[t] = at[t] + 1 =>
           at[t] \in DOMAIN work /\ work[at[t]] # "single"
    BY PlainEffect
<1>2. Control(t) /\ SingleInv
    BY ControlHolds DEF Plain
<1>3. Types /\ team.single_count \in Nat /\ work \in Seq(Call) /\ at[t] \in Nat /\ Places(t)
    BY TeamFields DEF RegionInv, Types
<1>4. winners' \in [DOMAIN work' -> SUBSET Thread] /\ AtMostOne' /\ Decided' /\ Alone'
    BY <1>1, <1>2, WinnersKept
<1>5. Fresh'
  <2>1. pc'[t] = "assign" => t = main /\ pc[t] = "assign"
    BY <1>2, <1>3 DEF Control, WorksOn, Begins, Stays, Ends, Rests, Joins, InWork, Places
  <2>2. pc'[t] \in {"created", "run"} => t \in Workers
    BY <1>1, <1>3 DEF Places, InWork, Workers
  <2>3. pc'[t] \in {"created", "run", "assign"} => single_count[t] = 0
    BY <1>1, <1>2, <2>1, <2>2 DEF SingleInv, Fresh
  <2> QED
    BY <1>1, <1>2, <2>3, FreshKept DEF SingleInv
<1>6. Counts'
  <2>1. ASSUME InRegion, Size > 1, pc'[t] \in InWork
        PROVE  single_count[t] = Nth(work, at'[t]) /\ Nth(work, at'[t]) <= team.single_count
    <3>1. CASE pc[t] \in InWork
      <4>1. t \in Members
        BY <3>1, WorksAsMember
      <4>2. single_count[t] = Nth(work, at[t]) /\ Nth(work, at[t]) <= team.single_count
        BY <1>2, <2>1, <3>1, <4>1 DEF SingleInv, Counts
      <4>3. at'[t] = at[t] \/ at'[t] = at[t] + 1
        BY <1>2, <2>1, <3>1 DEF Control, WorksOn, Begins, Stays, Ends, Rests, Joins, InWork
      <4>4. Nth(work, at'[t]) = Nth(work, at[t])
        BY <1>1, <1>3, <3>1, <4>3, NthFacts
      <4> QED
        BY <4>2, <4>4
    <3>2. CASE pc[t] \notin InWork
      <4>1. Begins(t)
        BY <1>2, <2>1, <3>2 DEF Control, WorksOn, Stays, Ends, Rests, Joins, InWork
      <4>2. single_count[t] = 0
        BY <1>2, <1>3, <4>1 DEF SingleInv, Fresh, Begins, Places, Workers, InWork
      <4>3. Nth(work, at'[t]) = 0
        BY <1>3, <4>1, NthFacts DEF Begins
      <4> QED
        BY <1>3, <4>2, <4>3
    <3> QED
        BY <3>1, <3>2
  <2> QED
    BY <1>1, <1>2, <1>3, <2>1, CountsKept DEF SingleInv
<1> QED
    BY <1>4, <1>5, <1>6 DEF SingleInv

\* A fork by a member of the team sets its count to 0: it had passed no single.
LEMMA NestedSingles ==
    ASSUME RegionInv, SingleInv, ForksFirst(program), NEW t \in Thread, Nested(t), Control(t)
    PROVE  SingleInv'
<1>1. /\ Types /\ team.single_count \in Nat /\ work \in Seq(Call) /\ at \in [Thread -> Nat]
      /\ single_count \in [Thread -> Nat]
    BY TeamFields DEF RegionInv, Types
<1>2. /\ UNCHANGED <<winners, team, pc>> /\ single_count' = [single_count EXCEPT ![t] = 0]
      /\ at' = [at EXCEPT ![t] = @ + 1] /\ pc[t] = "work"
      /\ at[t] \in DOMAIN work /\ work[at[t]] = "nested"
    BY DEF Nested, Calls, Return, teamVars, historyVars
<1>3. at'[t] = at[t] + 1 /\ at[t] \in Nat /\ at'[t] \in Nat
    BY <1>1, <1>2
<1>4. single_count'[t] = 0 /\ \A u \in Thread \ {t} : single_count'[u] = single_count[u]
    BY <1>1, <1>2
<1>5. winners' \in [DOMAIN work' -> SUBSET Thread] /\ AtMostOne' /\ Decided' /\ Alone'
    BY <1>2, WinnersKept
<1>6. Fresh'
    BY <1>4, FreshKept DEF SingleInv
<1>7. Nth(work, at'[t]) = 0
  <2>1. work \in program
    BY <1>2, WorkInProgram
  <2>2. \A i \in DOMAIN work : i \in Nat /\ (work[i] = "single" => at[t] < i)
    BY <1>2, <2>1, WorkInProgram DEF ForksFirst
  <2>3. \A i \in DOMAIN work : work[i] = "single" => i >= at'[t]
    BY <1>3, <2>2
  <2> QED
    BY <1>1, <1>3, <2>3, NthFacts
<1>8. Counts'
    BY <1>1, <1>2, <1>4, <1>7, CountsKept DEF SingleInv
<1> QED
    BY <1>5, <1>6, <1>8 DEF SingleInv

\* A worker that has joined starts again from 0.
LEMMA IdleSingles ==
    ASSUME RegionInv, SingleInv, NEW t \in Thread, Idle(t), Control(t)
    PROVE  SingleInv'
<1>1. /\ Types /\ team.single_count \in Nat /\ single_count \in [Thread -> Nat]
      /\ pc \in [Thread -> Label]
    BY TeamFields DEF RegionInv, Types
<1>2. /\ UNCHANGED <<winners, team>> /\ single_count' = [single_count EXCEPT ![t] = 0]
      /\ pc' = [pc EXCEPT ![t] = "run"] /\ pc[t] = "idle"
    BY DEF Idle, Goto, teamVars, historyVars
<1>3. /\ single_count'[t] = 0 /\ pc'[t] = "run"
      /\ \A u \in Thread \ {t} : single_count'[u] = single_count[u]
    BY <1>1, <1>2
<1>4. pc'[t] \notin InWork /\ pc[t] \notin InWork
    BY <1>2, <1>3 DEF InWork
<1>5. winners' \in [DOMAIN work' -> SUBSET Thread] /\ AtMostOne' /\ Decided' /\ Alone'
    BY <1>2, <1>4, WinnersKept
<1>6. Fresh'
    BY <1>3, FreshKept DEF SingleInv
<1>7. Counts'
    BY <1>1, <1>2, <1>3, <1>4, CountsKept DEF SingleInv
<1> QED
    BY <1>5, <1>6, <1>7 DEF SingleInv

LEMMA AloneMain ==
    ASSUME RegionInv, NEW u \in Members, Size = 1
    PROVE  u = main
<1>1. Types /\ Shape
    BY DEF RegionInv
<1>2. pc[main] # "serial" /\ local_id[u] \in 0 .. Size - 1 /\ Member(local_id[u]) = u
    BY <1>1, MemberFacts
<1>3. local_id[u] = 0 /\ Member(0) = main
    BY <1>1, <1>2 DEF Shape
<1> QED
    BY <1>2, <1>3

\* A single in a team of one.
LEMMA AloneSingle ==
    ASSUME RegionInv, SingleInv, NEW t \in Thread, Single(t), Control(t), Size = 1
    PROVE  SingleInv'
<1>0. /\ Types /\ team.single_count \in Nat /\ single_count \in [Thread -> Nat]
      /\ at \in [Thread -> Nat] /\ main \in Thread
    BY TeamFields, ThreadFacts DEF RegionInv, Types
<1> DEFINE i == at[t]
<1>1. /\ pc[t] = "work" /\ i \in DOMAIN work /\ work[i] = "single"
      /\ at' = [at EXCEPT ![t] = i + 1] /\ pc' = pc
      /\ UNCHANGED <<team, single_count>>
      /\ winners' = [winners EXCEPT ![i] = winners[i] \cup {t}]
    BY DEF Single, Calls, Return, Size
<1>2. t \in Members /\ t \notin joined /\ InRegion
    BY <1>1, WorkingUnjoined, WorksAsMember DEF InWork, InRegion
<1>3. t = main
    BY <1>2, AloneMain
<1>4. at'[t] = i + 1 /\ i \in Nat
    BY <1>0, <1>1
<1>5. /\ work' = work /\ Members' = Members /\ Size' = Size /\ InRegion'
      /\ winners \in [DOMAIN work -> SUBSET Thread] /\ AtMostOne /\ Alone
    BY <1>2 DEF Control, SingleInv
<1> HIDE DEF i
<1>6. ~Past(main, i) /\ winners[i] = {}
  <2>1. ~Past(main, i)
    BY <1>1, <1>2, <1>3, <1>4 DEF Past, InWork, i
  <2> QED
    BY <1>1, <1>2, <1>5, <2>1 DEF Alone
<1>7. /\ winners'[i] = {t} /\ \A j \in DOMAIN work : j # i => winners'[j] = winners[j]
      /\ winners' \in [DOMAIN work' -> SUBSET Thread]
    BY <1>1, <1>5, <1>6
<1>8. AtMostOne'
    BY <1>2, <1>5, <1>7 DEF AtMostOne
<1>9. Alone'
  <2> SUFFICES ASSUME NEW j \in DOMAIN work, work[j] = "single"
               PROVE  winners'[j] # {} <=> Past(main, j)'
    BY <1>5 DEF Alone
  <2>1. CASE j = i
    <3>1. Past(main, j)'
        BY <1>1, <1>3, <1>4, <2>1 DEF Past, InWork
    <3> QED
        BY <1>7, <2>1, <3>1
  <2>2. CASE j # i
    <3>1. j \in Int /\ (Past(main, j)' <=> Past(main, j))
        BY <1>0, <1>3, <1>4, <2>2, PastFacts, WorkInProgram DEF i
    <3> QED
        BY <1>2, <1>5, <1>7, <2>2, <3>1 DEF Alone
  <2> QED
    BY <2>1, <2>2
<1>10. Fresh' /\ Decided' /\ Counts'
  <2>1. ~(Size' > 1)
    BY <1>5
  <2> QED
    BY <1>1, <1>5, <2>1 DEF SingleInv, Fresh, Decided, Counts
<1> QED
    BY <1>7, <1>8, <1>9, <1>10 DEF SingleInv

\* The cmpxchg of a single in a team.
LEMMA TeamSingle ==
    ASSUME RegionInv, SingleInv, NEW t \in Thread, Single(t), Control(t), Size # 1
    PROVE  SingleInv'
<1>0. /\ Types /\ team.single_count \in Nat /\ single_count \in [Thread -> Nat]
      /\ at \in [Thread -> Nat] /\ main \in Thread /\ team \in TeamRecord
      /\ work \in Seq(Call) /\ Members \subseteq Thread
    BY TeamFields, ThreadFacts, MemberFacts DEF RegionInv, Types
<1> DEFINE i == at[t]
           c == team.single_count
           win == single_count[t] = c
<1>1. /\ pc[t] = "work" /\ i \in DOMAIN work /\ work[i] = "single"
      /\ at' = [at EXCEPT ![t] = i + 1] /\ pc' = pc
      /\ single_count' = [single_count EXCEPT ![t] = single_count[t] + 1]
      /\ win => /\ winners' = [winners EXCEPT ![i] = winners[i] \cup {t}]
                /\ team' = [team EXCEPT !.single_count = c + 1]
      /\ ~win => UNCHANGED <<winners, team>>
    BY DEF Single, Calls, Return, Size
<1>2. t \in Members /\ t \notin joined /\ InRegion
    BY <1>1, WorkingUnjoined, WorksAsMember DEF InWork, InRegion
<1>3. Size > 1
  <2>1. Size \in 1 .. NumThreads
    BY <1>2 DEF RegionInv, Shape, InRegion
  <2> QED
    BY <2>1, ThreadFacts
<1>4. at'[t] = i + 1 /\ i \in Nat /\ c \in Nat /\ pc[t] \in InWork
    BY <1>0, <1>1 DEF InWork
<1>5. /\ work' = work /\ Members' = Members /\ Size' = Size /\ InRegion'
      /\ winners \in [DOMAIN work -> SUBSET Thread] /\ AtMostOne /\ Decided /\ Counts /\ Fresh
    BY <1>2 DEF Control, SingleInv
<1>6. /\ Nth(work, i) \in Nat /\ Nth(work, i + 1) = Nth(work, i) + 1
      /\ single_count[t] = Nth(work, i) /\ Nth(work, i) <= c
    BY <1>0, <1>1, <1>2, <1>3, <1>4, <1>5, NthFacts DEF Counts
<1>7. /\ single_count'[t] = Nth(work, i) + 1
      /\ \A u \in Thread \ {t} : single_count'[u] = single_count[u]
    BY <1>0, <1>1, <1>6
<1>8. team'.single_count = IF win THEN c + 1 ELSE c
  <2>1. [team EXCEPT !.single_count = c + 1].single_count = c + 1
    BY <1>0, UpdatesKeepSingle
  <2> QED
    BY <1>1, <2>1
<1> HIDE DEF i, c
<1>9. Fresh'
    BY <1>1, <1>5, <1>7, FreshKept
<1>10. Counts'
  <2>1. Nth(work, at'[t]) = single_count'[t] /\ Nth(work, at'[t]) <= team'.single_count
    BY <1>4, <1>6, <1>7, <1>8
  <2>2. team'.single_count \in Nat /\ team'.single_count >= team.single_count
    BY <1>4, <1>8 DEF c
  <2> QED
    BY <1>5, <1>7, <2>1, <2>2, CountsKept
<1>11. Alone'
    BY <1>3, <1>5 DEF Alone
<1>12. CASE ~win
  <2>1. UNCHANGED <<winners, team>>
    BY <1>1, <1>12
  <2>2. AtMostOne'
    BY <1>2, <1>5, <2>1 DEF AtMostOne
  <2>3. Decided'
    BY <1>2, <1>5, <2>1 DEF Decided
  <2>4. winners' \in [DOMAIN work' -> SUBSET Thread]
    BY <1>5, <2>1
  <2> QED
    BY <1>9, <1>10, <1>11, <2>2, <2>3, <2>4 DEF SingleInv
<1>13. CASE win
  <2>1. Nth(work, i) = c
    BY <1>6, <1>13 DEF c
  <2>2. winners[i] = {}
    BY <1>1, <1>2, <1>3, <1>4, <1>5, <2>1 DEF Decided, c
  <2>3. /\ winners'[i] = {t} /\ \A j \in DOMAIN work : j # i => winners'[j] = winners[j]
        /\ winners' \in [DOMAIN work' -> SUBSET Thread]
    BY <1>1, <1>5, <1>13, <2>2
  <2>4. AtMostOne'
    BY <1>2, <1>5, <2>3 DEF AtMostOne
  <2>5. Decided'
    <3> SUFFICES ASSUME NEW j \in DOMAIN work, work[j] = "single"
                 PROVE  winners'[j] = {} <=> Nth(work, j) >= c + 1
        BY <1>5, <1>8, <1>13 DEF Decided
    <3>0. j \in Nat
        BY WorkInProgram
    <3>1. Nth(work, j) \in Nat /\ Nth(work, j + 1) = Nth(work, j) + 1 /\ j \in Nat
        BY <1>0, <3>0, NthFacts
    <3>2. winners[j] = {} <=> Nth(work, j) >= c
        BY <1>2, <1>3, <1>5 DEF Decided, c
    <3>3. CASE j = i
        BY <1>4, <2>1, <2>3, <3>3
    <3>4. CASE j < i
      <4>1. Nth(work, j + 1) <= Nth(work, i)
        BY <1>0, <1>4, <3>1, <3>4, NthFacts
      <4> QED
        BY <1>4, <1>6, <2>1, <2>3, <3>1, <3>2, <3>4, <4>1
    <3>5. CASE j > i
      <4>1. Nth(work, i + 1) <= Nth(work, j)
        BY <1>0, <1>4, <3>1, <3>5, NthFacts
      <4> QED
        BY <1>4, <1>6, <2>1, <2>3, <3>1, <3>2, <3>5, <4>1
    <3> QED
        BY <1>4, <3>1, <3>3, <3>4, <3>5
  <2> QED
    BY <1>9, <1>10, <1>11, <2>3, <2>4, <2>5 DEF SingleInv
<1> QED
    BY <1>12, <1>13

LEMMA ForkSingles ==
    ASSUME RegionInv, SingleInv, NEW n \in 1 .. NumThreads, NEW w \in program, Fork(n, w)
    PROVE  SingleInv'
<1>0. /\ main \in Thread /\ single_count \in [Thread -> Nat] /\ Fresh
    BY ThreadFacts DEF RegionInv, Types, SingleInv
<1>1. /\ work' = w /\ w \in Seq(Call) /\ joined' = {} /\ pc'[main] = "assign"
      /\ \A u \in Thread \ {main} : pc'[u] = pc[u]
      /\ \A u \in Thread : pc'[u] \notin InWork /\ pc'[u] \notin {"join", "release"}
      /\ \A u \in Thread : \A i : ~Past(u, i)'
      /\ Members' \subseteq Thread
    BY ForkFacts
<1>2. /\ winners' = [i \in 1 .. Len(w) |-> {}] /\ team'.single_count = 0
      /\ single_count' = [single_count EXCEPT ![main] = 0]
    BY DEF Fork
<1>3. /\ winners' \in [DOMAIN work' -> SUBSET Thread]
      /\ \A i \in DOMAIN work' : winners'[i] = {}
    BY <1>1, <1>2
<1>4. AtMostOne'
    BY <1>3 DEF AtMostOne
<1>5. Decided'
  <2>1. \A i \in DOMAIN work' : Nth(work', i) \in Nat
    BY <1>1, NthFacts
  <2> QED
    BY <1>2, <1>3, <2>1 DEF Decided
<1>6. Counts'
    BY <1>1 DEF Counts
<1>7. Fresh'
    BY <1>0, <1>1, <1>2 DEF Fresh, Workers
<1>8. Alone'
    BY <1>0, <1>1, <1>3 DEF Alone
<1> QED
    BY <1>3, <1>4, <1>5, <1>6, <1>7, <1>8 DEF SingleInv

LEMMA ReleaseSingles ==
    ASSUME RegionInv, SingleInv, Release
    PROVE  SingleInv'
<1>1. /\ ~InRegion' /\ work' = work /\ pc'[main] = "serial"
      /\ \A u \in Thread \ {main} : pc'[u] = pc[u]
    BY ReleaseFacts
<1>2. UNCHANGED <<winners, single_count>>
    BY DEF Release, historyVars
<1>3. Fresh'
    BY <1>1, <1>2 DEF SingleInv, Fresh, Workers
<1>4. AtMostOne' /\ Decided' /\ Counts' /\ Alone'
    BY <1>1, <1>2 DEF SingleInv, AtMostOne, Decided, Counts, Alone
<1> QED
    BY <1>1, <1>2, <1>3, <1>4 DEF SingleInv

LEMMA NothingSingles ==
    ASSUME SingleInv, UNCHANGED vars
    PROVE  SingleInv'
<1>1. UNCHANGED <<pc, at, team, work, joined, winners, single_count>>
    BY DEF vars, threadVars, teamVars, historyVars
<1>2. /\ Members' = Members /\ Size' = Size /\ (InRegion' <=> InRegion)
      /\ \A u, i : Past(u, i)' <=> Past(u, i)
    BY <1>1 DEF Members, Member, Past, Size, InRegion
<1> QED
    BY <1>1, <1>2 DEF SingleInv, AtMostOne, Decided, Counts, Fresh, Alone

LEMMA NextSingleInv ==
    ASSUME RegionInv, SingleInv, ForksFirst(program), [Next]_vars
    PROVE  SingleInv'
<1>1. ASSUME NEW t \in Thread, ThreadStep(t), ~Release PROVE SingleInv'
  <2>1. Control(t)
    BY <1>1, ControlHolds
  <2>2. CASE Plain(t)
    BY <2>2, PlainSingles
  <2>3. CASE Single(t)
    BY <2>1, <2>3, AloneSingle, TeamSingle
  <2>4. CASE Nested(t)
    BY <2>1, <2>4, NestedSingles
  <2>5. CASE Idle(t)
    BY <2>1, <2>5, IdleSingles
  <2> QED
    BY <1>1, <2>2, <2>3, <2>4, <2>5 DEF Plain
<1>2. CASE Release
    BY <1>2, ReleaseSingles
<1>3. ASSUME NEW n \in 1 .. NumThreads, NEW w \in program, Fork(n, w) PROVE SingleInv'
    BY <1>3, ForkSingles
<1>4. CASE UNCHANGED vars
    BY <1>4, NothingSingles
<1> QED
    BY <1>1, <1>2, <1>3, <1>4 DEF Next

LEMMA InitSingleInv == Init => SingleInv
<1> SUFFICES ASSUME Init PROVE SingleInv
    OBVIOUS
<1>1. work = <<>> /\ winners = <<>> /\ pc[main] = "serial" /\ ~InRegion
    BY ThreadFacts DEF Init, InRegion
<1>2. DOMAIN work = {} /\ winners \in [DOMAIN work -> SUBSET Thread]
    BY <1>1
<1>3. Fresh
    BY <1>1, ThreadFacts DEF Init, Fresh
<1> QED
    BY <1>1, <1>2, <1>3 DEF SingleInv, AtMostOne, Decided, Counts, Alone

\* The counters of singles agree: the team's is the number of singles that
\* have been won, each thread's the number that it has passed, and both start
\* from 0 in every region (thread.c:210, 671, 738-766), in every program that
\* forks in a region only before its first single.
THEOREM SingleInvariant == Spec /\ ForksFirst(program) => []SingleInv
<1>1. RegionInv /\ SingleInv /\ ForksFirst(program) /\ [Next]_vars =>
          SingleInv' /\ ForksFirst(program)'
    BY NextSingleInv, ProgramKept DEF ForksFirst
<1> QED
    BY <1>1, InitSingleInv, RegionInvariant, PTL DEF Spec

\* Whoever has passed a single has left it to exactly one member.
LEMMA WonWhenPast ==
    ASSUME RegionInv, SingleInv, NEW i \in DOMAIN work, work[i] = "single",
           NEW t \in Members, Past(t, i)
    PROVE  \E x \in Members : winners[i] = {x}
<1>1. Types /\ Shape /\ work \in Seq(Call) /\ at \in [Thread -> Nat] /\ team.single_count \in Nat
    BY TeamFields DEF RegionInv, Types
<1>2. t \in Thread /\ InRegion /\ Size \in Nat
    BY <1>1, MemberFacts DEF InRegion
<1>3. i \in Nat /\ i <= Len(work) /\ Len(work) \in Nat /\ at[t] \in Nat
    BY <1>1, <1>2, WorkInProgram
<1>4. Size >= 1
    BY <1>1, <1>2 DEF Shape, InRegion
<1>5. winners[i] # {}
  <2>1. CASE Size = 1
    <3>1. t = main
        BY <2>1, AloneMain
    <3> QED
        BY <1>2, <2>1, <3>1 DEF SingleInv, Alone
  <2>2. CASE Size > 1
    <3>0. \A a, b \in Nat : a <= b => Nth(work, a) <= Nth(work, b)
        BY <1>1, NthFacts
    <3>1. /\ Nth(work, i) \in Nat /\ Nth(work, i + 1) = Nth(work, i) + 1
          /\ Nth(work, at[t]) \in Nat /\ Nth(work, Len(work) + 1) \in Nat
          /\ Nth(work, i + 1) <= Nth(work, Len(work) + 1)
          /\ i < at[t] => Nth(work, i + 1) <= Nth(work, at[t])
      <4>1. i + 1 \in Nat /\ Len(work) + 1 \in Nat /\ i + 1 <= Len(work) + 1
            /\ (i < at[t] => i + 1 <= at[t])
        BY <1>3
      <4>2. Nth(work, i) \in Nat /\ Nth(work, at[t]) \in Nat /\ Nth(work, Len(work) + 1) \in Nat
        BY <1>1, <1>3, <4>1, NthFacts
      <4>3. Nth(work, i + 1) = Nth(work, i) + 1
        BY <1>1, NthFacts
      <4> QED
        BY <1>3, <3>0, <4>1, <4>2, <4>3
    <3>2. CASE t \in joined \/ pc[t] \in {"join", "release"}
      <4>1. Nth(work, Len(work) + 1) <= team.single_count
        BY <1>2, <2>2, <3>2 DEF SingleInv, Counts
      <4>2. ~(Nth(work, i) >= team.single_count)
        BY <1>1, <3>1, <4>1
      <4> QED
        BY <1>2, <2>2, <4>2 DEF SingleInv, Decided
    <3>3. CASE pc[t] \in InWork /\ at[t] > i
      <4>1. Nth(work, at[t]) <= team.single_count
        BY <1>2, <2>2, <3>3 DEF SingleInv, Counts
      <4>2. ~(Nth(work, i) >= team.single_count)
        BY <1>1, <1>3, <3>1, <3>3, <4>1
      <4> QED
        BY <1>2, <2>2, <4>2 DEF SingleInv, Decided
    <3> QED
        BY <3>2, <3>3 DEF Past
  <2> QED
    BY <1>2, <1>4, <2>1, <2>2
<1> QED
    BY <1>2, <1>5 DEF SingleInv, AtMostOne

\* Every single is executed by exactly one member of the team, whatever
\* barriers are between them, region after region (thread.c:738-766).
THEOREM SingleOnceHolds == Spec /\ ForksFirst(program) => []SingleOnce
<1>1. RegionInv /\ SingleInv => SingleOnce
  <2> SUFFICES ASSUME RegionInv, SingleInv, NEW i \in DOMAIN winners
               PROVE  /\ Cardinality(winners[i]) <= 1
                      /\ work[i] = "single" /\ (\E t \in Members : Passed(t, i)) =>
                           Cardinality(winners[i]) = 1
    BY DEF SingleOnce
  <2>1. i \in DOMAIN work
    BY DEF SingleInv
  <2>2. \A x : Cardinality({x}) = 1
    BY FS_Singleton
  <2>3. Cardinality(winners[i]) <= 1
    <3>1. CASE winners[i] = {}
        BY <3>1, FS_EmptySet
    <3>2. CASE \E t \in Thread : winners[i] = {t}
        BY <2>2, <3>2
    <3> QED
        BY <2>1, <3>1, <3>2 DEF SingleInv, AtMostOne
  <2>4. ASSUME work[i] = "single", NEW t \in Members, Passed(t, i)
        PROVE  Cardinality(winners[i]) = 1
    <3>1. Past(t, i)
        BY <2>4 DEF Passed, Past
    <3>2. PICK x \in Members : winners[i] = {x}
        BY <2>1, <2>4, <3>1, WonWhenPast
    <3> QED
        BY <2>2, <3>2
  <2> QED
    BY <2>3, <2>4
<1> QED
    BY <1>1, SingleInvariant, RegionInvariant, PTL

-----------------------------------------------------------------------------
(***************************************************************************)
(* Copyprivate                                                             *)
(***************************************************************************)
\* A step that wins nothing, publishes nothing and passes no such call.
LEMMA QuietCopy ==
    ASSUME RegionInv, SingleInv, CopyInv, NEW t \in Thread, Control(t), winners' = winners,
           team'.copyprivate_src = team.copyprivate_src,
           \A u \in Thread : pc'[u] \in InWork => lock'[u] = lock[u],
           pc[t] \in InWork /\ at[t] \in DOMAIN work /\ at'[t] = at[t] + 1 =>
               work[at[t]] \notin {"single", "publish"}
    PROVE  CopyInv'
<1>1. /\ work' = work /\ Members' = Members /\ Size' = Size /\ (InRegion' <=> InRegion)
      /\ \A u \in Thread \ {t} : pc'[u] = pc[u] /\ at'[u] = at[u]
    BY DEF Control
<1>2. /\ Members \subseteq Thread /\ at \in [Thread -> Nat]
      /\ winners \in [DOMAIN work -> SUBSET Thread]
      /\ \A i \in DOMAIN work : i \in Nat /\ i >= 1
    BY MemberFacts, WorkInProgram DEF RegionInv, Types, SingleInv
<1>3. LockIsWin'
  <2> SUFFICES ASSUME NEW u \in Members, NEW i \in DOMAIN work, work[i] = "single",
                      pc'[u] \in InWork, at'[u] = i + 1
               PROVE  lock'[u] <=> u \in winners[i]
    BY <1>1 DEF LockIsWin
  <2>1. u \in Thread /\ lock'[u] = lock[u] /\ i \in Nat /\ i >= 1 /\ at[u] \in Nat
    BY <1>2
  <2>2. pc[u] \in InWork /\ at[u] = i + 1
    <3>1. CASE u # t
        BY <1>1, <2>1, <3>1
    <3>2. CASE u = t
      <4>1. pc[t] \in InWork /\ at'[t] \in {at[t], at[t] + 1}
        BY <2>1, <3>2 DEF Control, WorksOn, Begins, Stays, Ends, Rests, Joins, InWork
      <4>2. at'[t] = at[t] + 1 => at[t] = i
        BY <2>1, <3>2
      <4> QED
        BY <3>2, <4>1, <4>2
    <3> QED
        BY <3>1, <3>2
  <2> QED
    BY <2>1, <2>2 DEF CopyInv, LockIsWin
<1>4. WinnerPast'
  <2> SUFFICES ASSUME InRegion, NEW i \in DOMAIN work, NEW x \in winners[i]
               PROVE  Past(x, i)'
    BY <1>1 DEF WinnerPast
  <2>1. Past(x, i) /\ x \in Thread /\ i \in Int
    BY <1>2 DEF CopyInv, WinnerPast
  <2> QED
    BY <2>1, PastFacts
<1>5. Published'
  <2> SUFFICES ASSUME Size > 1, NEW x \in Members, NEW i \in DOMAIN work, work[i] = "publish",
                      winners[i - 1] = {x}, Past(x, i)', \A u \in Members : ~Past(u, i + 4)'
               PROVE  team.copyprivate_src = [thread |-> x, at |-> i]
    BY <1>1 DEF Published
  <2>1. x \in Thread /\ i \in Nat
    BY <1>2
  <2>2. Past(x, i)
    BY <2>1, PastFacts
  <2>3. \A u \in Members : ~Past(u, i + 4)
    BY <1>2, <2>1, PastFacts
  <2> QED
    BY <2>2, <2>3 DEF CopyInv, Published
<1> QED
    BY <1>3, <1>4, <1>5 DEF CopyInv

\* The winner of a single learns that it has won, the others that they have not.
LEMMA SingleCopy ==
    ASSUME RegionInv, SingleInv, CopyInv, NEW t \in Thread, Single(t), Control(t)
    PROVE  CopyInv'
<1>0. /\ Members \subseteq Thread /\ at \in [Thread -> Nat] /\ lock \in [Thread -> BOOLEAN]
      /\ winners \in [DOMAIN work -> SUBSET Thread] /\ team \in TeamRecord
      /\ \A i \in DOMAIN work : i \in Nat /\ i >= 1
    BY MemberFacts, WorkInProgram DEF RegionInv, Types, SingleInv
<1> DEFINE k == at[t]
<1>1. PICK win \in BOOLEAN :
      /\ pc[t] = "work" /\ k \in DOMAIN work /\ work[k] = "single"
      /\ at' = [at EXCEPT ![t] = k + 1] /\ pc' = pc /\ lock' = [lock EXCEPT ![t] = win]
      /\ winners' = IF win THEN [winners EXCEPT ![k] = winners[k] \cup {t}] ELSE winners
      /\ team' = team \/ team' = [team EXCEPT !.single_count = team.single_count + 1]
    BY DEF Single, Calls, Return
<1>2. t \in Members /\ t \notin joined /\ InRegion
    BY <1>1, WorkingUnjoined, WorksAsMember DEF InWork, InRegion
<1>3. /\ at'[t] = k + 1 /\ k \in Nat /\ pc[t] \in InWork /\ lock'[t] = win
      /\ \A u \in Thread \ {t} : at'[u] = at[u] /\ lock'[u] = lock[u]
      /\ \A i \in DOMAIN work : winners'[i] = winners[i] \cup IF win /\ i = k THEN {t} ELSE {}
    BY <1>0, <1>1 DEF InWork
<1>4. work' = work /\ Members' = Members /\ Size' = Size /\ InRegion'
    BY <1>2 DEF Control
<1>5. team'.copyprivate_src = team.copyprivate_src
  <2>1. [team EXCEPT !.single_count = team.single_count + 1].copyprivate_src = team.copyprivate_src
    BY <1>0, UpdatesKeepSingle
  <2> QED
    BY <1>1, <2>1
<1> HIDE DEF k
<1>6. t \notin winners[k]
  <2>1. ~Past(t, k)
    BY <1>1, <1>2, <1>3 DEF Past, InWork, k
  <2> QED
    BY <1>1, <1>2, <2>1 DEF CopyInv, WinnerPast
<1>7. LockIsWin'
  <2> SUFFICES ASSUME NEW u \in Members, NEW i \in DOMAIN work, work[i] = "single",
                      pc[u] \in InWork, at'[u] = i + 1
               PROVE  lock'[u] <=> u \in winners'[i]
    BY <1>1, <1>4 DEF LockIsWin
  <2>1. CASE u = t
    <3>1. i = k
        BY <1>0, <1>3, <2>1
    <3> QED
        BY <1>3, <1>6, <2>1, <3>1
  <2>2. CASE u # t
    <3>1. u \in Thread /\ at[u] = i + 1 /\ lock'[u] = lock[u]
        BY <1>0, <1>3, <2>2
    <3>2. lock[u] <=> u \in winners[i]
        BY <3>1 DEF CopyInv, LockIsWin
    <3> QED
        BY <1>3, <2>2, <3>1, <3>2
  <2> QED
    BY <2>1, <2>2
<1>8. WinnerPast'
  <2> SUFFICES ASSUME NEW i \in DOMAIN work, NEW x \in winners'[i]
               PROVE  Past(x, i)'
    BY <1>4 DEF WinnerPast
  <2>1. CASE x \in winners[i]
    <3>1. Past(x, i) /\ x \in Thread /\ i \in Int
        BY <1>0, <1>2, <2>1 DEF CopyInv, WinnerPast
    <3> QED
        BY <3>1, PastFacts
  <2>2. CASE x = t /\ i = k
    BY <1>1, <1>3, <2>2 DEF Past, InWork
  <2> QED
    BY <1>3, <2>1, <2>2
<1>9. Published'
  <2> SUFFICES ASSUME Size > 1, NEW x \in Members, NEW i \in DOMAIN work, work[i] = "publish",
                      winners'[i - 1] = {x}, Past(x, i)', \A u \in Members : ~Past(u, i + 4)'
               PROVE  team.copyprivate_src = [thread |-> x, at |-> i]
    BY <1>4, <1>5 DEF Published
  <2>1. x \in Thread /\ i \in Nat /\ i - 1 \in Int
    BY <1>0
  <2>2. Past(x, i)
    <3>1. at[t] # i
        BY <1>1 DEF k
    <3> QED
        BY <2>1, <3>1, PastFacts
  <2>3. \A u \in Members : ~Past(u, i + 4)
    BY <1>0, <2>1, PastFacts
  <2>4. winners[i - 1] = {x}
    <3>1. CASE i - 1 \notin DOMAIN work \/ ~win
        BY <1>1, <1>0, <3>1
    <3>2. CASE i - 1 \in DOMAIN work /\ win /\ i - 1 # k
        BY <1>3, <3>2
    <3>3. CASE i - 1 = k /\ win
      <4>1. x = t
        BY <1>1, <1>3, <3>3
      <4>2. ~Past(t, i)
        BY <1>1, <1>2, <1>3, <2>1, <3>3 DEF Past, InWork, k
      <4> QED
        BY <2>2, <4>1, <4>2
    <3> QED
        BY <3>1, <3>2, <3>3
  <2> QED
    BY <2>2, <2>3, <2>4 DEF CopyInv, Published
<1> QED
    BY <1>7, <1>8, <1>9 DEF CopyInv

\* The source of one copyprivate is not overwritten by that of another one
\* while anybody may still copy from it: t is about to publish at k.
LEMMA OtherSources ==
    ASSUME RegionInv, ClosesCopyprivate(program), NEW t \in Thread, Calls(t, "publish"),
           NEW x \in Members, NEW i \in DOMAIN work, work[i] = "publish", i # at[t], Past(x, i)
    PROVE  i + 4 <= at[t]
<1>0. Types /\ Shape /\ ReleasedCalled /\ Members \subseteq Thread
    BY MemberFacts DEF RegionInv, BarrierInv
<1> DEFINE k == at[t]
<1>1. pc[t] = "work" /\ k \in DOMAIN work /\ work[k] = "publish" /\ k \in Nat /\ i \in Nat
    BY WorkInProgram DEF Calls
<1>2. work \in program
    BY WorkInProgram
<1>3. /\ k + 1 \in DOMAIN work /\ work[k + 1] = "barrier"
      /\ work[i + 1] = "barrier" /\ work[i + 2] = "copy" /\ work[i + 3] = "barrier"
    BY <1>1, <1>2 DEF ClosesCopyprivate, Is
<1>4. t \in Members /\ t \notin joined
    BY <1>1, WorkingUnjoined DEF InWork
<1>5. at[x] \in Nat
    BY <1>0 DEF Types
<1> HIDE DEF k
<1>6. CASE i < k
    BY <1>1, <1>3, <1>6 DEF k
<1>7. CASE i > k
  <2> DEFINE b == k + 1
  <2>1. b \in Nat /\ IsBarrier(b) /\ b \in DOMAIN work /\ i > b
    BY <1>1, <1>3, <1>7 DEF IsBarrier
  <2>2. ~Called(t, b)
    BY <1>1, <1>4 DEF Called, k
  <2> HIDE DEF b
  <2>3. Released(x, b)
    BY <1>1, <1>5, <2>1 DEF Past, Released
  <2> QED
    BY <1>0, <1>4, <2>1, <2>2, <2>3 DEF ReleasedCalled
<1> QED
    BY <1>1, <1>6, <1>7 DEF k

LEMMA PublishCopy ==
    ASSUME RegionInv, SingleInv, CopyInv, ClosesCopyprivate(program),
           NEW t \in Thread, Publish(t), Control(t)
    PROVE  CopyInv'
<1>0. /\ Members \subseteq Thread /\ at \in [Thread -> Nat] /\ team \in TeamRecord
      /\ winners \in [DOMAIN work -> SUBSET Thread]
      /\ \A i \in DOMAIN work : i \in Nat /\ i >= 1
    BY MemberFacts, WorkInProgram DEF RegionInv, Types, SingleInv
<1> DEFINE k == at[t]
           src == [thread |-> t, at |-> k]
<1>1. /\ Calls(t, "publish") /\ at' = [at EXCEPT ![t] = k + 1]
      /\ UNCHANGED <<pc, lock, winners>>
      /\ team' = IF Size > 1 /\ lock[t] THEN [team EXCEPT !.copyprivate_src = src] ELSE team
    BY DEF Publish, Return, historyVars, Size
<1>2. pc[t] = "work" /\ k \in DOMAIN work /\ work[k] = "publish"
    BY <1>1 DEF Calls
<1>3. t \in Members /\ t \notin joined /\ InRegion
    BY <1>2, WorkingUnjoined, WorksAsMember DEF InWork, InRegion
<1>4. /\ at'[t] = k + 1 /\ k \in Nat /\ pc[t] \in InWork
      /\ \A u \in Thread \ {t} : at'[u] = at[u]
    BY <1>0, <1>1, <1>2 DEF InWork
<1>5. work' = work /\ Members' = Members /\ Size' = Size /\ InRegion'
    BY <1>3 DEF Control
<1>6. Size > 1 /\ lock[t] => team'.copyprivate_src = src
  <2> HIDE DEF src
  <2>1. [team EXCEPT !.copyprivate_src = src].copyprivate_src = src
    BY <1>0, UpdatesKeepSingle
  <2> QED
    BY <1>1, <2>1
<1>7. lock[t] <=> winners[k - 1] = {t}
  <2>1. k - 1 \in DOMAIN work /\ work[k - 1] = "single"
    BY <1>2, WorkInProgram DEF ClosesCopyprivate, Is
  <2>2. lock[t] <=> t \in winners[k - 1]
    BY <1>0, <1>3, <1>4, <2>1 DEF CopyInv, LockIsWin
  <2>3. winners[k - 1] = {} \/ \E y \in Thread : winners[k - 1] = {y}
    BY <2>1 DEF SingleInv, AtMostOne
  <2> QED
    BY <2>2, <2>3
<1> HIDE DEF k
<1>8. LockIsWin'
  <2> SUFFICES ASSUME NEW u \in Members, NEW i \in DOMAIN work, work[i] = "single",
                      pc[u] \in InWork, at'[u] = i + 1
               PROVE  lock[u] <=> u \in winners[i]
    BY <1>1, <1>5 DEF LockIsWin
  <2>1. u # t
    BY <1>0, <1>2, <1>4
  <2>2. at[u] = i + 1
    BY <1>0, <1>4, <2>1
  <2> QED
    BY <2>2 DEF CopyInv, LockIsWin
<1>9. WinnerPast'
  <2> SUFFICES ASSUME NEW i \in DOMAIN work, NEW x \in winners[i]
               PROVE  Past(x, i)'
    BY <1>1, <1>5 DEF WinnerPast
  <2>1. Past(x, i) /\ x \in Thread /\ i \in Int
    BY <1>0, <1>3 DEF CopyInv, WinnerPast
  <2> QED
    BY <2>1, PastFacts
<1>10. Published'
  <2> SUFFICES ASSUME Size > 1, NEW x \in Members, NEW i \in DOMAIN work, work[i] = "publish",
                      winners[i - 1] = {x}, Past(x, i)', \A u \in Members : ~Past(u, i + 4)'
               PROVE  team'.copyprivate_src = [thread |-> x, at |-> i]
    BY <1>1, <1>5 DEF Published
  <2>1. x \in Thread /\ i \in Nat
    BY <1>0
  <2>2. CASE i = k /\ x = t
    BY <1>6, <1>7, <2>2
  <2>3. CASE ~(i = k /\ x = t)
    <3>1. Past(x, i)
        BY <2>1, <2>3, PastFacts DEF k
    <3>2. \A u \in Members : ~Past(u, i + 4)
        BY <1>0, <2>1, PastFacts
    <3>3. team.copyprivate_src = [thread |-> x, at |-> i]
        BY <3>1, <3>2 DEF CopyInv, Published
    <3>4. CASE ~lock[t]
        BY <1>1, <3>3, <3>4
    <3>5. CASE lock[t]
      <4>1. i # k
        BY <1>7, <2>3, <3>5
      <4>2. i + 4 <= k
        BY <1>1, <3>1, <4>1, OtherSources DEF k
      <4>3. Past(t, i + 4)'
        BY <1>1, <1>4, <2>1, <4>2 DEF Past
      <4> QED
        BY <1>3, <4>3
    <3> QED
        BY <3>4, <3>5
  <2> QED
    BY <2>2, <2>3
<1> QED
    BY <1>8, <1>9, <1>10 DEF CopyInv

LEMMA NextCopyInv ==
    ASSUME RegionInv, SingleInv, CopyInv, ClosesCopyprivate(program), [Next]_vars
    PROVE  CopyInv'
<1>0. Types /\ pc \in [Thread -> Label] /\ lock \in [Thread -> BOOLEAN]
    BY DEF RegionInv, Types
<1>1. ASSUME NEW t \in Thread, ThreadStep(t), ~Release PROVE CopyInv'
  <2>1. Control(t)
    BY <1>1, ControlHolds
  <2>2. CASE Plain(t) /\ ~Publish(t)
    BY <2>1, <2>2, PlainEffect, QuietCopy
  <2>3. CASE Publish(t)
    BY <2>1, <2>3, PublishCopy
  <2>4. CASE Single(t)
    BY <2>1, <2>4, SingleCopy
  <2>5. CASE Nested(t)
    <3>1. /\ UNCHANGED <<winners, team, lock>> /\ work[at[t]] = "nested"
        BY <2>5 DEF Nested, Calls, teamVars, historyVars
    <3> QED
        BY <2>1, <3>1, QuietCopy
  <2>6. CASE Idle(t)
    <3>1. /\ UNCHANGED <<winners, team>> /\ lock' = [lock EXCEPT ![t] = FALSE]
          /\ pc' = [pc EXCEPT ![t] = "run"] /\ pc[t] = "idle"
        BY <2>6 DEF Idle, Goto, teamVars, historyVars
    <3>2. pc'[t] \notin InWork /\ pc[t] \notin InWork
          /\ \A u \in Thread \ {t} : lock'[u] = lock[u]
        BY <1>0, <3>1 DEF InWork
    <3> QED
        BY <2>1, <3>1, <3>2, QuietCopy
  <2> QED
    BY <1>1, <2>2, <2>3, <2>4, <2>5, <2>6 DEF Plain
<1>2. CASE Release
  <2>1. Members' = {} /\ ~InRegion'
    BY <1>2, ReleaseFacts
  <2> QED
    BY <2>1 DEF CopyInv, LockIsWin, WinnerPast, Published
<1>3. ASSUME NEW n \in 1 .. NumThreads, NEW w \in program, Fork(n, w) PROVE CopyInv'
  <2>1. /\ work' = w /\ w \in Seq(Call) /\ Members' \subseteq Thread
        /\ \A u \in Thread : pc'[u] \notin InWork
        /\ \A u \in Thread : \A i : ~Past(u, i)'
    BY <1>3, ForkFacts
  <2>2. \A i \in DOMAIN work' : winners'[i] = {}
    BY <1>3, <2>1 DEF Fork
  <2>3. LockIsWin'
    BY <2>1 DEF LockIsWin
  <2>4. WinnerPast'
    BY <2>2 DEF WinnerPast
  <2>5. Published'
    BY <2>1 DEF Published
  <2> QED
    BY <2>3, <2>4, <2>5 DEF CopyInv
<1>4. CASE UNCHANGED vars
  <2>1. UNCHANGED <<pc, at, team, work, joined, winners, lock>>
    BY <1>4 DEF vars, threadVars, teamVars, historyVars
  <2>2. /\ Members' = Members /\ Size' = Size /\ (InRegion' <=> InRegion)
        /\ \A u, i : Past(u, i)' <=> Past(u, i)
    BY <2>1 DEF Members, Member, Past, Size, InRegion
  <2> QED
    BY <2>1, <2>2 DEF CopyInv, LockIsWin, WinnerPast, Published
<1> QED
    BY <1>1, <1>2, <1>3, <1>4 DEF Next

\* The winner of a single is the one that publishes, and what it has
\* published stays until everybody has arrived at the second barrier of the
\* copyprivate (thread.c:979-1000).
THEOREM CopyInvariant ==
    Spec /\ ForksFirst(program) /\ ClosesCopyprivate(program) => []CopyInv
<1>1. Init => CopyInv
  <2> SUFFICES ASSUME Init PROVE CopyInv
    OBVIOUS
  <2>1. DOMAIN work = {} /\ ~InRegion
    BY ThreadFacts DEF Init, InRegion
  <2> QED
    BY <2>1 DEF CopyInv, LockIsWin, WinnerPast, Published
<1>2. RegionInv /\ SingleInv /\ CopyInv /\ ClosesCopyprivate(program) /\ [Next]_vars =>
          CopyInv' /\ ClosesCopyprivate(program)'
    BY NextCopyInv, ProgramKept DEF ClosesCopyprivate
<1> QED
    BY <1>1, <1>2, RegionInvariant, SingleInvariant, PTL DEF Spec

\* A thread that copies in a copyprivate reads what the winner of the single
\* that belongs to it has published, and not an older or a newer source,
\* although the team has one field for all of them (thread.c:991).
THEOREM CopyFromWinnerHolds ==
    Spec /\ ForksFirst(program) /\ ClosesCopyprivate(program) => []CopyFromWinner
<1>1. RegionInv /\ SingleInv /\ CopyInv /\ ClosesCopyprivate(program) => CopyFromWinner
  <2> SUFFICES ASSUME RegionInv, SingleInv, CopyInv, ClosesCopyprivate(program),
                      NEW t \in Thread, Calls(t, "copy"), Size > 1
               PROVE  /\ team.copyprivate_src.at = at[t] - 2
                      /\ winners[at[t] - 3] = {team.copyprivate_src.thread}
    BY DEF CopyFromWinner, Size
  <2>0. Types /\ Shape /\ ReleasedCalled /\ Members \subseteq Thread
    BY MemberFacts DEF RegionInv, BarrierInv
  <2>1. pc[t] = "work" /\ at[t] \in DOMAIN work /\ work[at[t]] = "copy" /\ ~Waits(t)
    BY DEF Calls, Running, Waits
  <2>2. work \in program /\ at[t] \in Nat /\ DOMAIN work = 1 .. Len(work) /\ Len(work) \in Nat
    BY <2>1, WorkInProgram
  <2>3. t \in Members /\ t \notin joined
    BY <2>1, WorkingUnjoined DEF InWork
  <2> DEFINE i == at[t] - 2
  <2>4. /\ i \in DOMAIN work /\ work[i] = "publish" /\ i - 1 \in DOMAIN work
        /\ work[i - 1] = "single" /\ IsBarrier(i + 1) /\ IsBarrier(i + 3)
        /\ i + 1 \in DOMAIN work /\ i + 3 \in DOMAIN work
    <3>1. i \in DOMAIN work /\ work[i] = "publish"
        BY <2>1, <2>2 DEF ClosesCopyprivate, Is
    <3> HIDE DEF i
    <3> QED
        BY <2>2, <3>1 DEF ClosesCopyprivate, Is, IsBarrier
  <2>5. i \in Nat /\ at[t] = i + 2
    BY <2>2, <2>4
  <2>6. Past(t, i - 1) /\ Released(t, i + 1) /\ ~Called(t, i + 3)
    <3>1. ~Counted(t)
        BY <2>1 DEF Counted, AtBarrier
    <3> QED
        BY <2>1, <2>3, <2>5, <3>1 DEF Past, Released, Called, InWork, Waking
  <2> HIDE DEF i
  <2>7. PICK x \in Members : winners[i - 1] = {x}
    BY <2>3, <2>4, <2>6, WonWhenPast
  <2>8. Past(x, i)
    <3>1. Called(x, i + 1)
        BY <2>0, <2>3, <2>4, <2>6 DEF ReleasedCalled
    <3>2. at[x] \in Nat
        BY <2>0 DEF Types
    <3> QED
        BY <2>5, <3>1, <3>2 DEF Called, Past
  <2>9. ASSUME NEW u \in Members, Past(u, i + 4) PROVE FALSE
    <3>1. at[u] \in Nat
        BY <2>0 DEF Types
    <3>2. Released(u, i + 3)
        BY <2>5, <2>9, <3>1 DEF Past, Released
    <3> QED
        BY <2>0, <2>3, <2>4, <2>6, <3>2 DEF ReleasedCalled
  <2>10. team.copyprivate_src = [thread |-> x, at |-> i]
    BY <2>4, <2>7, <2>8, <2>9 DEF CopyInv, Published
  <2>11. at[t] - 3 = i - 1 /\ at[t] - 2 = i
    BY <2>5
  <2> QED
    BY <2>7, <2>10, <2>11
<1>2. ClosesCopyprivate(program) /\ [Next]_vars => ClosesCopyprivate(program)'
    BY ProgramKept DEF ClosesCopyprivate
<1> QED
    BY <1>1, <1>2, RegionInvariant, SingleInvariant, CopyInvariant, PTL DEF Spec
=============================================================================
