------------------------------ MODULE ForkJoin ------------------------------
(***************************************************************************)
(* A parallel region of the OpenMP runtime, from __ompc_fork to the join:  *)
(* libopenmp/thread.c and team.c.  The main thread allocates a team, hands *)
(* the workers out and wakes them, every member runs the region's work     *)
(* function, the workers join, the master takes the team down and may fork *)
(* again at once, while the workers are still on their way back to their   *)
(* wait.  Inside the region the threads meet in barriers, singles and      *)
(* copyprivates, and use their copies of threadprivate data.               *)
(*                                                                         *)
(* The waits and wakes are those of ThreadSync, step by step.  Only the    *)
(* teams of the main thread are followed here, so the team is always       *)
(* teams[0]; concurrent and nested forks are the subject of Pool, and only *)
(* what a nested fork leaves behind in its master is kept.                 *)
(***************************************************************************)
EXTENDS ThreadSync, Integers, Sequences, FiniteSets

CONSTANTS NumThreads,    \* threads that exist: the main thread and its workers
          Programs       \* sets of work functions: sequences of runtime calls

ASSUME ForkJoinAssumption ==
    /\ NumThreads \in Nat \ {0}
    /\ Thread = 0 .. NumThreads - 1
    /\ \A p \in Programs : p \subseteq Seq({"barrier", "single", "publish", "copy",
                                           "nested", "thdprv", "copyin", "assign"})

main == 0
Workers == Thread \ {main}

(***************************************************************************)
(* __ompc_copyprivate(lock, src, copy), where lock is the result of the    *)
(* single it belongs to, is four steps: the winner publishes its source, a *)
(* barrier, the others copy from it, a barrier.                            *)
(***************************************************************************)
Copyprivate == <<"publish", "barrier", "copy", "barrier">>

\* Mutant: nothing keeps the master from changing its copy too early.
CopyinNoBarrier == <<"copyin">>

(***************************************************************************)
(* A region with a COPYIN clause starts with __ompc_copyin_thdprv, which   *)
(* copies from thdprv[0], and the compiler emits a barrier after it.       *)
(***************************************************************************)
Copyin == <<"copyin", "barrier">>

VARIABLES
    pc,             \* where each thread is in __pmp_thread_fork / __pmp_thread_run
    at,             \* the next runtime call of its work function, an index
    next,           \* the loop variable of a loop that wakes team members
    local_id,       \* thread->local_id
    inTeam,         \* thread->team # NULL
    single_count,   \* thread->single_count
    lock,           \* the result of its last __ompc_single
    idstack,        \* the free thread ids, top last
    team,           \* the fields of teams[0]
    work,           \* team->work
    thdprv,         \* a threadprivate variable: who allocated its array, or NULL
    copies,         \* array[a][g]: the copy of thread g in the array that a allocated
    array,          \* the local variable t of __ompc_get_thdprv
    program,        \* the work functions of the program
    winners,        \* history: who won the single at each index of work
    joined,         \* history: the workers that have joined in this region
    stored,         \* history: what each thread has last stored in its copy
    forked          \* history: the copy of the main thread at the fork

threadVars == <<pc, at, next, local_id, inTeam, single_count, lock>>
thdprvVars == <<thdprv, copies, array, stored, forked>>
historyVars == <<winners, joined, thdprvVars, program>>
teamVars   == <<idstack, team, work, historyVars>>
vars       == <<syncVars, threadVars, teamVars>>

NULL == -1                       \* no array, no copy
Value == 0 .. 2                  \* of the data; 0 is its static initial value
CopyOf(t) == IF thdprv = NULL THEN NULL ELSE copies[thdprv][t]

NoSource == [thread |-> main, at |-> 0]

FreeTeam == [team_size |-> 0, working_threads |-> 0, barrier_count |-> 0,
             single_count |-> 0, copyprivate_src |-> NoSource, members |-> <<main>>]

Init ==
    /\ SyncInit
    /\ pc = [t \in Thread |-> IF t = main THEN "serial" ELSE "created"]
    /\ at = [t \in Thread |-> 0]
    /\ next = [t \in Thread |-> 0]
    /\ local_id = [t \in Thread |-> IF t = main THEN 0 ELSE -1]
    /\ inTeam = [t \in Thread |-> FALSE]
    /\ single_count = [t \in Thread |-> 0]
    /\ lock = [t \in Thread |-> FALSE]
    /\ idstack = [i \in 1 .. NumThreads - 1 |-> NumThreads - i]
    /\ team = FreeTeam
    /\ work = <<>>
    /\ winners = <<>>
    /\ joined = {}
    /\ thdprv = NULL
    /\ copies = [a \in Thread |-> [g \in Thread |-> NULL]]
    /\ array = [t \in Thread |-> NULL]
    /\ stored = [t \in Thread |-> NULL]
    /\ forked = NULL
    /\ program \in Programs

\* team->members[i]; the master is members[0].
Member(i) == team.members[i + 1]
Members == {Member(i) : i \in 0 .. team.team_size - 1}

Goto(t, l) == pc' = [pc EXCEPT ![t] = l]
-----------------------------------------------------------------------------
(***************************************************************************)
(* The master: __pmp_thread_fork with __pmp_team_alloc, __pmp_thread_assign,*)
(* __pmp_thread_master_join, __pmp_thread_release and __pmp_team_free       *)
(***************************************************************************)
\* Allocate the team of n threads and assign the workers from the id stack.
\* Before a region with a COPYIN clause the main thread has its copy: the
\* procedure that holds the region starts with __ompc_get_thdprv.
Fork(n, w) ==
    LET popped == [i \in 1 .. n - 1 |-> idstack[Len(idstack) - i + 1]]
        LocalId(t) == CHOOSE i \in 1 .. n - 1 : popped[i] = t
        chosen == {popped[i] : i \in 1 .. n - 1}
    IN
    /\ pc[main] = "serial"
    /\ (\E i \in DOMAIN w : w[i] = "copyin") => CopyOf(main) # NULL
    /\ idstack' = SubSeq(idstack, 1, Len(idstack) - (n - 1))
    /\ team' = [team_size |-> n, working_threads |-> n, barrier_count |-> n,
                single_count |-> 0, copyprivate_src |-> team.copyprivate_src,
                members |-> <<main>> \o popped]
    /\ work' = w
    /\ winners' = [i \in 1 .. Len(w) |-> {}]
    /\ joined' = {}
    /\ local_id' = [t \in Thread |-> IF t \in chosen THEN LocalId(t) ELSE local_id[t]]
    /\ inTeam' = [t \in Thread |-> t = main \/ t \in chosen \/ inTeam[t]]
    /\ single_count' = [single_count EXCEPT ![main] = 0]
    /\ next' = [next EXCEPT ![main] = 1]
    /\ Goto(main, "assign")
    /\ forked' = CopyOf(main)
    /\ UNCHANGED <<syncVars, at, lock, thdprv, copies, array, stored, program>>

\* Wake the workers one by one, outside the idlock.
AssignWake ==
    /\ pc[main] = "assign" /\ Running(main)
    /\ next[main] < team.team_size
    /\ CallWake(main, Member(next[main]))
    /\ next' = [next EXCEPT ![main] = @ + 1]
    /\ UNCHANGED <<pc, at, local_id, inTeam, single_count, lock, teamVars>>

MasterWork ==
    /\ pc[main] = "assign" /\ Running(main)
    /\ next[main] = team.team_size
    /\ at' = [at EXCEPT ![main] = 1]
    /\ next' = [next EXCEPT ![main] = 0]
    /\ Goto(main, "work")
    /\ UNCHANGED <<syncVars, local_id, inTeam, single_count, lock, teamVars>>

MasterWorkDone ==
    /\ pc[main] = "work" /\ Running(main)
    /\ at[main] > Len(work)
    /\ Goto(main, "join")
    /\ UNCHANGED <<syncVars, at, next, local_id, inTeam, single_count, lock, teamVars>>

JoinWhen(left) ==
    /\ pc[main] = "join"
    /\ team.working_threads = left
    /\ team' = [team EXCEPT !.working_threads = 0]
    /\ Goto(main, "release")
    /\ UNCHANGED <<syncVars, at, next, local_id, inTeam, single_count, lock,
                   idstack, work, historyVars>>

\* Mutant: the spin loop leaves one worker behind.
MasterJoinSpinEarly == JoinWhen(2)

\* The spin loop of __pmp_thread_master_join finds that only the master is left.
MasterJoinSpin == JoinWhen(1)

\* It gives up spinning, counts itself out and waits for the last worker.
MasterJoin ==
    /\ pc[main] = "join"
    /\ team' = [team EXCEPT !.working_threads = @ - 1]
    /\ IF team.working_threads > 1 THEN CallWait(main) ELSE UNCHANGED syncVars
    /\ Goto(main, "release")
    /\ UNCHANGED <<at, next, local_id, inTeam, single_count, lock,
                   idstack, work, historyVars>>

\* Take the workers back, free the team, restore the master's (serial) state.
Release ==
    LET released == [i \in 1 .. team.team_size - 1 |-> Member(team.team_size - i)]
    IN
    /\ pc[main] = "release" /\ Running(main)
    /\ idstack' = idstack \o released
    /\ local_id' = [t \in Thread |-> IF t \in Members \ {main} THEN -1 ELSE local_id[t]]
    /\ inTeam' = [t \in Thread |-> inTeam[t] /\ t \notin Members]
    /\ team' = [team EXCEPT !.team_size = 0]
    /\ at' = [at EXCEPT ![main] = 0]
    /\ lock' = [lock EXCEPT ![main] = FALSE]
    /\ Goto(main, "serial")
    /\ UNCHANGED <<syncVars, next, single_count, work, historyVars>>
-----------------------------------------------------------------------------
(***************************************************************************)
(* A worker: __pmp_thread_run, __pmp_thread_worker_join, __pmp_thread_idle *)
(***************************************************************************)
\* A new thread starts to run and waits for its first assignment.
Start(t) ==
    /\ pc[t] = "created"
    /\ CallWait(t)
    /\ Goto(t, "run")
    /\ UNCHANGED <<at, next, local_id, inTeam, single_count, lock, teamVars>>

\* The wait is over: run the work function of the assigned team.
WorkerWork(t) ==
    /\ pc[t] = "run" /\ Running(t)
    /\ at' = [at EXCEPT ![t] = 1]
    /\ Goto(t, "work")
    /\ UNCHANGED <<syncVars, next, local_id, inTeam, single_count, lock, teamVars>>

WorkerLeave(t, last) ==
    /\ t # main
    /\ pc[t] = "work" /\ Running(t)
    /\ at[t] > Len(work)
    /\ team' = [team EXCEPT !.working_threads = @ - 1]
    /\ Goto(t, IF last THEN "joinwake" ELSE "idle")
    /\ joined' = joined \cup {t}
    /\ UNCHANGED <<syncVars, at, next, local_id, inTeam, single_count, lock,
                   idstack, work, winners, thdprvVars, program>>

\* Mutant: nobody wakes the master that waits in its join.
WorkerJoinSilent(t) == WorkerLeave(t, FALSE)

\* Count out of the team; the last one out wakes the waiting master.
WorkerJoin(t) == WorkerLeave(t, team.working_threads = 1)

WorkerJoinWake(t) ==
    /\ pc[t] = "joinwake"
    /\ CallWake(t, Member(0))
    /\ Goto(t, "idle")
    /\ UNCHANGED <<at, next, local_id, inTeam, single_count, lock, teamVars>>

\* Mutant: a worker keeps its single_count from one region to the next.
IdleNoReset(t) ==
    /\ pc[t] = "idle" /\ Running(t)
    /\ at' = [at EXCEPT ![t] = 0]
    /\ lock' = [lock EXCEPT ![t] = FALSE]
    /\ CallWait(t)
    /\ Goto(t, "run")
    /\ UNCHANGED <<next, local_id, inTeam, single_count, teamVars>>

\* Reset the thread's counters and wait for more work.
Idle(t) ==
    /\ pc[t] = "idle" /\ Running(t)
    /\ single_count' = [single_count EXCEPT ![t] = 0]
    /\ at' = [at EXCEPT ![t] = 0]
    /\ lock' = [lock EXCEPT ![t] = FALSE]
    /\ CallWait(t)
    /\ Goto(t, "run")
    /\ UNCHANGED <<next, local_id, inTeam, teamVars>>
-----------------------------------------------------------------------------
(***************************************************************************)
(* The runtime calls of the work function                                  *)
(***************************************************************************)
Calls(t, call) ==
    /\ pc[t] = "work" /\ Running(t)
    /\ at[t] \in DOMAIN work /\ work[at[t]] = call

Return(t) == at' = [at EXCEPT ![t] = @ + 1]

\* __pmp_thread_barrier: nothing to do alone; otherwise count down and wait,
\* unless this thread is the last to arrive.
BarrierArrive(t) ==
    /\ Calls(t, "barrier")
    /\ IF team.team_size = 1
         THEN UNCHANGED <<team, pc, next, syncVars>> /\ Return(t)
         ELSE /\ team' = [team EXCEPT !.barrier_count = @ - 1]
              /\ IF team.barrier_count > 1
                   THEN CallWait(t) /\ Return(t) /\ UNCHANGED pc
                   ELSE Goto(t, "reset") /\ UNCHANGED <<syncVars, at>>
              /\ UNCHANGED next
    /\ UNCHANGED <<local_id, inTeam, single_count, lock, idstack, work, historyVars>>

Rearm(t, count) ==
    /\ pc[t] = "reset"
    /\ team' = [team EXCEPT !.barrier_count = count]
    /\ Goto(t, "wakeall")
    /\ UNCHANGED <<syncVars, at, next, local_id, inTeam, single_count, lock,
                   idstack, work, historyVars>>

\* Mutant: the barrier is re-armed for the other members only.
BarrierResetShort(t) == Rearm(t, team.team_size - 1)

\* The last to arrive re-arms the barrier before it wakes anybody.
BarrierReset(t) == Rearm(t, team.team_size)

\* Mutant: the last to arrive wakes itself too.
BarrierWakeSelf(t) ==
    /\ pc[t] = "wakeall" /\ Running(t)
    /\ next[t] < team.team_size
    /\ CallWake(t, Member(next[t]))
    /\ next' = [next EXCEPT ![t] = @ + 1]
    /\ UNCHANGED <<pc, at, local_id, inTeam, single_count, lock, teamVars>>

\* It wakes the members in the order of their local ids, itself excepted.
BarrierWake(t) ==
    /\ pc[t] = "wakeall" /\ Running(t)
    /\ next[t] < team.team_size
    /\ IF next[t] = local_id[t] THEN UNCHANGED syncVars
                                ELSE CallWake(t, Member(next[t]))
    /\ next' = [next EXCEPT ![t] = @ + 1]
    /\ UNCHANGED <<pc, at, local_id, inTeam, single_count, lock, teamVars>>

BarrierLeave(t) ==
    /\ pc[t] = "wakeall" /\ Running(t)
    /\ next[t] = team.team_size
    /\ next' = [next EXCEPT ![t] = 0]
    /\ Return(t)
    /\ Goto(t, "work")
    /\ UNCHANGED <<syncVars, local_id, inTeam, single_count, lock, teamVars>>

\* __pmp_thread_single: one cmpxchg on the team's counter decides.
Single(t) ==
    /\ Calls(t, "single")
    /\ LET alone == team.team_size = 1
           win == alone \/ single_count[t] = team.single_count
       IN /\ lock' = [lock EXCEPT ![t] = win]
          /\ winners' = IF win THEN [winners EXCEPT ![at[t]] = @ \cup {t}] ELSE winners
          /\ IF alone THEN UNCHANGED <<single_count, team>>
             ELSE /\ single_count' = [single_count EXCEPT ![t] = @ + 1]
                  /\ team' = IF win THEN [team EXCEPT !.single_count = @ + 1] ELSE team
    /\ Return(t)
    /\ UNCHANGED <<syncVars, pc, next, local_id, inTeam, idstack, work, joined,
                   thdprvVars, program>>

\* Mutant: every thread publishes the address of its copy.
PublishAll(t) ==
    /\ Calls(t, "publish")
    /\ team' = [team EXCEPT !.copyprivate_src = [thread |-> t, at |-> at[t]]]
    /\ Return(t)
    /\ UNCHANGED <<syncVars, pc, next, local_id, inTeam, single_count, lock,
                   idstack, work, historyVars>>

\* __ompc_copyprivate: the winner publishes the address of its copy ...
Publish(t) ==
    /\ Calls(t, "publish")
    /\ team' = IF team.team_size > 1 /\ lock[t]
                 THEN [team EXCEPT !.copyprivate_src = [thread |-> t, at |-> at[t]]]
                 ELSE team
    /\ Return(t)
    /\ UNCHANGED <<syncVars, pc, next, local_id, inTeam, single_count, lock,
                   idstack, work, historyVars>>

\* ... and the others copy from the published address.
Copy(t) ==
    /\ Calls(t, "copy")
    /\ Return(t)
    /\ UNCHANGED <<syncVars, pc, next, local_id, inTeam, single_count, lock, teamVars>>

\* A fork by a member of the team.  The nested region is the subject of Pool;
\* here it matters that local_id and team are restored after it, and that
\* single_count is set to 0 and is not.
Nested(t) ==
    /\ Calls(t, "nested")
    /\ single_count' = [single_count EXCEPT ![t] = 0]
    /\ Return(t)
    /\ UNCHANGED <<syncVars, pc, next, local_id, inTeam, lock, teamVars>>
-----------------------------------------------------------------------------
(***************************************************************************)
(* Threadprivate data: the code the compiler emits before a region's work  *)
(* (thdprv[global_id] is NULL?), __ompc_get_thdprv and                     *)
(* __ompc_copyin_thdprv                                                    *)
(***************************************************************************)
UnchangedButThdprv == UNCHANGED <<syncVars, next, local_id, inTeam, single_count, lock,
                                  idstack, team, work, winners, joined, program>>

\* The test of the emitted code, and the call that reads *thdprv again.
GetThdprv(t) ==
    /\ Calls(t, "thdprv")
    /\ IF CopyOf(t) # NULL
         THEN Return(t) /\ UNCHANGED <<pc, array>>
         ELSE /\ array' = [array EXCEPT ![t] = thdprv]
              /\ Goto(t, IF thdprv = NULL THEN "install" ELSE "fill")
              /\ UNCHANGED at
    /\ UNCHANGED <<thdprv, copies, stored, forked>>
    /\ UnchangedButThdprv

\* Mutant: a store in place of the cmpxchg.
InstallThdprvStore(t) ==
    /\ pc[t] = "install"
    /\ thdprv' = t
    /\ array' = [array EXCEPT ![t] = t]
    /\ Goto(t, "fill")
    /\ UNCHANGED <<at, copies, stored, forked>>
    /\ UnchangedButThdprv

\* The cmpxchg that installs a new array; the loser takes the winner's.
InstallThdprv(t) ==
    /\ pc[t] = "install"
    /\ thdprv' = IF thdprv = NULL THEN t ELSE thdprv
    /\ array' = [array EXCEPT ![t] = thdprv']
    /\ Goto(t, "fill")
    /\ UNCHANGED <<at, copies, stored, forked>>
    /\ UnchangedButThdprv

\* The thread's own copy is allocated and initialised from the static data.
FillThdprv(t) ==
    /\ pc[t] = "fill"
    /\ IF copies[array[t]][t] = NULL
         THEN /\ copies' = [copies EXCEPT ![array[t]][t] = 0]
              /\ stored' = [stored EXCEPT ![t] = 0]
         ELSE UNCHANGED <<copies, stored>>
    /\ array' = [array EXCEPT ![t] = NULL]
    /\ Goto(t, "work")
    /\ Return(t)
    /\ UNCHANGED <<thdprv, forked>>
    /\ UnchangedButThdprv

\* The thread stores v in its copy.
Store(t, v) ==
    /\ copies' = [copies EXCEPT ![thdprv][t] = v]
    /\ stored' = [stored EXCEPT ![t] = v]
    /\ Return(t)
    /\ UNCHANGED <<pc, thdprv, array, forked>>
    /\ UnchangedButThdprv

\* The program changes the copy, always to another value than it had.
Assign(t) == Calls(t, "assign") /\ Store(t, IF CopyOf(t) = 1 THEN 2 ELSE 1)

\* memcpy(dst, src, size), when they are not the same.
CopyinThdprv(t) == Calls(t, "copyin") /\ Store(t, CopyOf(main))
-----------------------------------------------------------------------------
CallStep(t) ==
    \/ BarrierArrive(t)
    \/ BarrierReset(t)
    \/ BarrierWake(t)
    \/ BarrierLeave(t)
    \/ Single(t)
    \/ Publish(t)
    \/ Copy(t)
    \/ Nested(t)
    \/ GetThdprv(t)
    \/ InstallThdprv(t)
    \/ FillThdprv(t)
    \/ Assign(t)
    \/ CopyinThdprv(t)

WorkerStep(t) ==
    \/ Start(t)
    \/ WorkerWork(t)
    \/ WorkerJoin(t)
    \/ WorkerJoinWake(t)
    \/ Idle(t)

MasterStep ==
    \/ AssignWake
    \/ MasterWork
    \/ MasterWorkDone
    \/ MasterJoinSpin
    \/ MasterJoin
    \/ Release

\* A step of t inside __pmp_thread_wait or __pmp_thread_wake.
WaitWakeStep(t) == SyncStep(t) /\ UNCHANGED <<threadVars, teamVars>>

ThreadStep(t) ==
    \/ WaitWakeStep(t)
    \/ CallStep(t)
    \/ t = main /\ MasterStep
    \/ t # main /\ WorkerStep(t)

Next ==
    \/ \E t \in Thread : ThreadStep(t)
    \/ \E n \in 1 .. NumThreads, w \in program : Fork(n, w)

\* Every thread that can take a step eventually takes one: the operating
\* system schedules the threads, and the spin loops yield.  The program may
\* stop forking, so there is no fairness on Fork.
Fairness == \A t \in Thread : WF_vars(ThreadStep(t))

Spec == Init /\ [][Next]_vars /\ Fairness
-----------------------------------------------------------------------------
(***************************************************************************)
(* Properties                                                              *)
(***************************************************************************)
TypeOK ==
    /\ SyncTypeOK
    /\ pc \in [Thread -> {"serial", "assign", "work", "join", "release", "created",
                          "run", "joinwake", "idle", "reset", "wakeall",
                          "install", "fill"}]
    /\ at \in [Thread -> Nat]
    /\ next \in [Thread -> 0 .. NumThreads]
    /\ local_id \in [Thread -> -1 .. NumThreads - 1]
    /\ inTeam \in [Thread -> BOOLEAN]
    /\ single_count \in [Thread -> Nat]
    /\ lock \in [Thread -> BOOLEAN]
    /\ idstack \in Seq(Workers)
    /\ team \in [team_size : 0 .. NumThreads, working_threads : 0 .. NumThreads,
                 barrier_count : 0 .. NumThreads, single_count : Nat,
                 copyprivate_src : [thread : Thread, at : Nat],
                 members : Seq(Thread)]
    /\ program \in Programs /\ work \in program \cup {<<>>}
    /\ thdprv \in Thread \cup {NULL} /\ array \in [Thread -> Thread \cup {NULL}]
    /\ copies \in [Thread -> [Thread -> Value \cup {NULL}]]
    /\ winners \in Seq(SUBSET Thread)
    /\ joined \subseteq Workers

InWork == {"work", "reset", "wakeall", "install", "fill"}

\* t has called the b-th function of the region's work function, and t has
\* returned from it.
Arrived(t, b) ==
    \/ t \in joined
    \/ pc[t] \in InWork /\ at[t] >= b
    \/ pc[t] \in {"join", "release"}

Passed(t, b) ==
    \/ t \in joined
    \/ pc[t] \in InWork /\ at[t] > b /\ waitpc[t] = "out"
    \/ pc[t] \in {"join", "release"}

\* The thread u that the next cmpxchg of a wake by t will hit.
AboutToWake(t, u) ==
    /\ Running(t)
    /\ \/ pc[t] = "assign" /\ next[t] < team.team_size /\ u = Member(next[t])
       \/ pc[t] = "wakeall" /\ next[t] < team.team_size
                            /\ next[t] # local_id[t] /\ u = Member(next[t])
       \/ pc[t] = "joinwake" /\ u = Member(0)

\* The assertion of thread.c:137 holds whenever a thread reaches it: the
\* barrier, the fork and the join never wake a thread that still holds a
\* wake it has not consumed.
NoDoubleWake == \A t, u \in Thread : AboutToWake(t, u) => ~HasPermit(u)

\* A thread leaves a barrier only when every member of the team has arrived
\* at it, also when the barrier is used again while some members have not
\* been woken yet (thread.c:706-736).
BarrierSeparates ==
    \A b \in DOMAIN work : work[b] = "barrier" =>
        \A t, u \in Members : Passed(t, b) => Arrived(u, b)

\* A worker touches the team - runs its work function, or reads members[0]
\* to wake the master - only while it is a member and the team is allocated;
\* a worker that leaves its wait finds a team (the assertion of thread.c:380).
TeamOutlivesWork ==
    \A t \in Workers :
        \/ pc[t] \in InWork \cup {"joinwake"}
        \/ pc[t] = "run" /\ Running(t)
        => inTeam[t] /\ t \in Members

\* Every single is executed by exactly one member of the team, in the order
\* in which the members reach it, whatever barriers are between them.
SingleOnce ==
    \A i \in DOMAIN winners :
        /\ Cardinality(winners[i]) <= 1
        /\ work[i] = "single" /\ (\E t \in Members : Passed(t, i)) =>
             Cardinality(winners[i]) = 1

\* A thread that copies in a copyprivate reads what the winner of the single
\* that belongs to it has published, and not an older or a newer source.
CopyFromWinner ==
    \A t \in Thread :
        Calls(t, "copy") /\ team.team_size > 1 /\ ~lock[t] =>
            /\ team.copyprivate_src.at = at[t] - 2
            /\ winners[at[t] - 3] = {team.copyprivate_src.thread}

\* A thread finds in its copy of a threadprivate variable what it has last
\* stored there itself, in this region or in an earlier one: threads that race
\* to install the array lose no copy (thread.c:910-926).
CopyPersists ==
    \A t \in Thread : stored[t] # NULL /\ pc[t] # "fill" => CopyOf(t) = stored[t]

\* After a COPYIN every thread has the value that the main thread had at the
\* fork, although the main thread goes on to change its own copy.
CopyinFromMaster ==
    \A t \in Thread :
        Calls(t, "assign") /\ (\E i \in 1..at[t] - 1 : work[i] = "copyin")
            => CopyOf(t) = forked

\* Every parallel region ends: the master gets out of the join.
RegionEnds == (pc[main] = "assign") ~> (pc[main] = "serial")
=============================================================================
