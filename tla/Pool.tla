-------------------------------- MODULE Pool --------------------------------
(***************************************************************************)
(* The thread pool behind __ompc_fork when several threads fork at once:   *)
(* __pmp_thread_acquire, __pmp_thread_assign, __pmp_thread_release         *)
(* (libopenmp/thread.c), __pmp_manager_create_more_threads (manager.c),    *)
(* __pmp_team_alloc, __pmp_team_free (team.c) and the id stack             *)
(* (idstack.h).  Inside a region every member may fork a nested region.    *)
(*                                                                         *)
(* The pool has no lock around the counters: each atomic add is one step.  *)
(* The id stack is used under the idlock, so each critical section is one  *)
(* step.  Waits and wakes are those of Permit: woken holds the permits of  *)
(* the workers, and a join is one step, taken when the workers are done.   *)
(***************************************************************************)
EXTENDS Integers, FiniteSets, Sequences

CONSTANTS MaxThreads,     \* PMP_MAX_THREADS
          TeamSize,       \* param->default_team_size
          Programs,       \* records with the fields
                          \*   nested_forks: param->nested_forks,
                          \*   requests: requests[l] are the values of nthreads
                          \*   with which a thread at nesting level l - 1 calls
                          \*   __ompc_fork; 0 stands for "default".  Its length
                          \*   bounds the level.
          MaxForks        \* bound: nested forks of a thread in one region

ASSUME PoolAssumption ==
    /\ MaxThreads \in Nat \ {0}
    /\ TeamSize \in 1 .. MaxThreads
    /\ \A p \in Programs : p.nested_forks \in BOOLEAN /\ p.requests \in Seq(SUBSET Nat)
    /\ MaxForks \in Nat

Thread == 0 .. MaxThreads - 1
main == 0
NoTeam == [master |-> main, depth |-> 0]

VARIABLES
    program,            \* one of Programs
    waiting_threads,    \* __pmp_manager.waiting_threads
    allocated_threads,  \* __pmp_manager.allocated_threads
    cur_numthreads,     \* __ompc_cur_numthreads
    idstack,            \* __pmp_manager.idstack, top last
    created,            \* the ids whose pthread exists
    pc,                 \* where each thread is in fork, acquire, create, release
    acq,                \* the locals of its __pmp_thread_acquire
    local_id,           \* thread->local_id
    team,               \* thread->team
    saved,              \* old_team and old_local_id of its active forks
    teams,              \* the allocated teams
    woken,              \* the workers with an unconsumed wake
    forks               \* nested forks of each thread in its current region

counters   == <<waiting_threads, allocated_threads, cur_numthreads>>
threadVars == <<local_id, team, saved>>
vars == <<program, counters, idstack, created, pc, acq, threadVars, teams, woken,
          forks>>

NoAcq == [nthreads |-> 0, count |-> 0, required |-> 0, made |-> 0, id |-> 0]

\* __pmp_manager_init: the ids are stacked with 0 on top, the main thread
\* takes 0, and the threads of the default team are created in advance.
Init ==
    /\ program \in Programs
    /\ waiting_threads = TeamSize - 1
    /\ allocated_threads = TeamSize
    /\ cur_numthreads = 1
    /\ idstack = [i \in 1 .. MaxThreads - 1 |-> MaxThreads - i]
    /\ created = 0 .. TeamSize - 1
    /\ pc = [t \in Thread |-> IF t = main THEN "work" ELSE "wait"]
    /\ acq = [t \in Thread |-> NoAcq]
    /\ local_id = [t \in Thread |-> IF t = main THEN 0 ELSE -1]
    /\ team = [t \in Thread |-> NoTeam]
    /\ saved = [t \in Thread |-> <<>>]
    /\ teams = <<>>
    /\ woken = {}
    /\ forks = [t \in Thread |-> 0]

Goto(t, l) == pc' = [pc EXCEPT ![t] = l]

Level(x) == IF x = NoTeam THEN 0 ELSE teams[x].level

\* The team of t's innermost fork: teams[t], or a fresh one when t is the
\* master of another region already.
ForkedTeam(t) == [master |-> t, depth |-> Len(saved[t])]
-----------------------------------------------------------------------------
(***************************************************************************)
(* __pmp_thread_fork up to the acquisition, and __pmp_thread_acquire       *)
(***************************************************************************)
\* __pmp_get_new_team_size
NewTeamSize(t) == IF team[t] # NoTeam /\ ~program.nested_forks THEN 1 ELSE TeamSize

\* The fork starts with the thread itself: acquire has count = 1.
Fork(t, n) ==
    /\ pc[t] = "work"
    /\ saved' = [saved EXCEPT ![t] = Append(@, [team |-> team[t], local_id |-> local_id[t]])]
    /\ local_id' = [local_id EXCEPT ![t] = 0]
    /\ acq' = [acq EXCEPT ![t] =
                  [nthreads |-> IF n = 0 THEN NewTeamSize(t) ELSE n, count |-> 1,
                   required |-> 0, made |-> 0, id |-> 0]]
    /\ forks' = [forks EXCEPT ![t] = IF Level(team[t]) = 0 THEN 0 ELSE @ + 1]
    /\ Goto(t, "acquire")
    /\ UNCHANGED <<program, counters, idstack, created, team, teams, woken>>

Take(t, required, enough) ==
    /\ pc[t] = "acquire"
    /\ required > 0
    /\ waiting_threads' = waiting_threads - required
    /\ IF enough
         THEN /\ acq' = [acq EXCEPT ![t].count = @ + required]
              /\ Goto(t, "assign")
         ELSE /\ acq' = [acq EXCEPT ![t].count = @ + waiting_threads,
                                    ![t].required = required - waiting_threads]
              /\ Goto(t, "putback")
    /\ UNCHANGED <<program, allocated_threads, cur_numthreads, idstack, created,
                   threadVars, teams, woken, forks>>

\* Mutant: the result of the xadd is compared with one too few.
AcquireTakeOne(t) ==
    LET required == acq[t].nthreads - acq[t].count
    IN Take(t, required, waiting_threads >= required - 1)

\* The first xadd: take what is required, and see whether it was there.
AcquireTake(t) ==
    LET required == acq[t].nthreads - acq[t].count
    IN Take(t, required, waiting_threads >= required)

PutBack(t, n) ==
    /\ pc[t] = "putback"
    /\ waiting_threads' = waiting_threads + n
    /\ acq' = [acq EXCEPT ![t].made = 0]
    /\ Goto(t, "create")
    /\ UNCHANGED <<program, allocated_threads, cur_numthreads, idstack, created,
                   threadVars, teams, woken, forks>>

\* Mutant: everything is put back, also what was kept.
AcquirePutBackAll(t) == PutBack(t, acq[t].nthreads - 1)

\* The second xadd: put back what was not there.
AcquirePutBack(t) == PutBack(t, acq[t].required)

AcquireDone(t) ==
    /\ pc[t] = "acquire"
    /\ acq[t].count >= acq[t].nthreads
    /\ Goto(t, "assign")
    /\ UNCHANGED <<program, counters, idstack, created, acq, threadVars, teams, woken,
                   forks>>
-----------------------------------------------------------------------------
(***************************************************************************)
(* __pmp_manager_create_more_threads and __pmp_thread_create               *)
(***************************************************************************)
AllocId(t, taken, full) ==
    /\ pc[t] = "create"
    /\ acq[t].made < acq[t].required
    /\ allocated_threads' = allocated_threads + taken
    /\ acq' = [acq EXCEPT ![t].id = allocated_threads]
    /\ Goto(t, IF full THEN "full" ELSE "pthread")
    /\ UNCHANGED <<program, waiting_threads, cur_numthreads, idstack, created,
                   threadVars, teams, woken, forks>>

\* Mutant: the next id is read and not taken.
CreateAllocPeek(t) == AllocId(t, 0, allocated_threads >= MaxThreads)

\* Allocate the next id, unless the table of threads is full.
CreateAlloc(t) == AllocId(t, 1, allocated_threads >= MaxThreads)

GiveUp(t, allocated, giveup) ==
    /\ pc[t] = "full"
    /\ allocated_threads' = allocated
    /\ Goto(t, IF giveup THEN "assign" ELSE "acquire")
    /\ UNCHANGED <<program, waiting_threads, cur_numthreads, idstack, created, acq,
                   threadVars, teams, woken, forks>>

\* Mutant: acquire tries again although no thread could be created.
CreateFullRetry(t) == GiveUp(t, allocated_threads - 1, FALSE)

\* Undo the allocation; acquire tries again only if some thread was created.
CreateFull(t) == GiveUp(t, allocated_threads - 1, acq[t].made = 0)

PthreadCreate(t) ==
    /\ pc[t] = "pthread"
    /\ created' = created \cup {acq[t].id}
    /\ Goto(t, "count")
    /\ UNCHANGED <<program, counters, idstack, acq, threadVars, teams, woken, forks>>

CreateCount(t) ==
    /\ pc[t] = "count"
    /\ waiting_threads' = waiting_threads + 1
    /\ acq' = [acq EXCEPT ![t].made = @ + 1]
    /\ Goto(t, IF acq[t].made + 1 = acq[t].required THEN "acquire" ELSE "create")
    /\ UNCHANGED <<program, allocated_threads, cur_numthreads, idstack, created,
                   threadVars, teams, woken, forks>>
-----------------------------------------------------------------------------
(***************************************************************************)
(* The rest of __pmp_team_alloc, with __pmp_thread_assign.  The assertions *)
(* that the team is not empty and that the id stack does not underflow are *)
(* guards: the process aborts when they fail.                              *)
(***************************************************************************)
Assign(t) ==
    LET n == acq[t].count
        popped == [i \in 1 .. n - 1 |-> idstack[Len(idstack) - i + 1]]
        workers == {popped[i] : i \in 1 .. n - 1}
        LocalId(u) == CHOOSE i \in 1 .. n - 1 : popped[i] = u
        new == [members |-> <<t>> \o popped, working_threads |-> n,
                level |-> Level(team[t]) + 1]
    IN
    /\ pc[t] = "assign"
    /\ n > 0 /\ Len(idstack) >= n - 1
    /\ cur_numthreads' = cur_numthreads + (n - 1)
    /\ idstack' = SubSeq(idstack, 1, Len(idstack) - (n - 1))
    /\ local_id' = [u \in Thread |-> IF u \in workers THEN LocalId(u) ELSE local_id[u]]
    /\ team' = [u \in Thread |->
                  IF u \in workers \cup {t} THEN ForkedTeam(t) ELSE team[u]]
    /\ teams' = [x \in (DOMAIN teams) \cup {ForkedTeam(t)} |->
                   IF x = ForkedTeam(t) THEN new ELSE teams[x]]
    /\ woken' = woken \cup workers
    /\ acq' = [acq EXCEPT ![t] = NoAcq]
    /\ Goto(t, "work")
    /\ UNCHANGED <<program, waiting_threads, allocated_threads, created, saved, forks>>
-----------------------------------------------------------------------------
(***************************************************************************)
(* __pmp_thread_run of the workers                                         *)
(***************************************************************************)
WorkerWork(t) ==
    /\ pc[t] = "wait"
    /\ t \in created \cap woken
    /\ woken' = woken \ {t}
    /\ forks' = [forks EXCEPT ![t] = 0]
    /\ Goto(t, "work")
    /\ UNCHANGED <<program, counters, idstack, created, acq, threadVars, teams>>

WorkerJoin(t) ==
    /\ pc[t] = "work"
    /\ t # main /\ saved[t] = <<>>
    /\ teams' = [teams EXCEPT ![team[t]].working_threads = @ - 1]
    /\ Goto(t, "wait")
    /\ UNCHANGED <<program, counters, idstack, created, acq, threadVars, woken, forks>>
-----------------------------------------------------------------------------
(***************************************************************************)
(* The end of a region: __pmp_thread_master_join, __pmp_thread_release and *)
(* __pmp_team_free                                                         *)
(***************************************************************************)
\* Mutant: a released worker keeps its team.
ReleaseKeepTeam(t) ==
    LET m == teams[team[t]].members
        n == Len(m)
        workers == {m[i] : i \in 2 .. n}
    IN
    /\ pc[t] = "work"
    /\ saved[t] # <<>>
    /\ teams[team[t]].working_threads = 1
    /\ teams' = [teams EXCEPT ![team[t]].working_threads = 0]
    /\ idstack' = idstack \o [i \in 1 .. n - 1 |-> m[n - i + 1]]
    /\ local_id' = [u \in Thread |-> IF u \in workers THEN -1 ELSE local_id[u]]
    /\ cur_numthreads' = cur_numthreads - (n - 1)
    /\ Goto(t, "release")
    /\ UNCHANGED <<program, waiting_threads, allocated_threads, created, acq, saved, team,
                   woken, forks>>

\* Under the idlock, the workers go back on the id stack, last one first.
Release(t) ==
    LET m == teams[team[t]].members
        n == Len(m)
        workers == {m[i] : i \in 2 .. n}
    IN
    /\ pc[t] = "work"
    /\ saved[t] # <<>>
    /\ teams[team[t]].working_threads = 1
    /\ teams' = [teams EXCEPT ![team[t]].working_threads = 0]
    /\ idstack' = idstack \o [i \in 1 .. n - 1 |-> m[n - i + 1]]
    /\ local_id' = [u \in Thread |-> IF u \in workers THEN -1 ELSE local_id[u]]
    /\ team' = [u \in Thread |-> IF u \in workers THEN NoTeam ELSE team[u]]
    /\ cur_numthreads' = cur_numthreads - (n - 1)
    /\ Goto(t, "release")
    /\ UNCHANGED <<program, waiting_threads, allocated_threads, created, acq, saved,
                   woken, forks>>

\* Then they are counted as waiting, the team is freed, and the master is
\* back in the team and with the local id it had before the fork.
ReleaseCount(t) ==
    LET old == saved[t][Len(saved[t])]
    IN
    /\ pc[t] = "release"
    /\ waiting_threads' = waiting_threads + (Len(teams[team[t]].members) - 1)
    /\ teams' = [x \in (DOMAIN teams) \ {team[t]} |-> teams[x]]
    /\ team' = [team EXCEPT ![t] = old.team]
    /\ local_id' = [local_id EXCEPT ![t] = old.local_id]
    /\ saved' = [saved EXCEPT ![t] = SubSeq(@, 1, Len(@) - 1)]
    /\ Goto(t, "work")
    /\ UNCHANGED <<program, allocated_threads, cur_numthreads, idstack, created, acq,
                   woken, forks>>
-----------------------------------------------------------------------------
ThreadStep(t) ==
    \/ AcquireTake(t)
    \/ AcquirePutBack(t)
    \/ AcquireDone(t)
    \/ CreateAlloc(t)
    \/ CreateFull(t)
    \/ PthreadCreate(t)
    \/ CreateCount(t)
    \/ Assign(t)
    \/ WorkerWork(t)
    \/ WorkerJoin(t)
    \/ Release(t)
    \/ ReleaseCount(t)

\* The program forks: it may at any time outside a region, and inside one as
\* long as the bounds allow.
ForkStep(t) ==
    LET level == Level(team[t])
    IN /\ level < Len(program.requests)
       /\ level > 0 => forks[t] < MaxForks
       /\ \E n \in program.requests[level + 1] : Fork(t, n)

Next == \E t \in Thread : ThreadStep(t) \/ ForkStep(t)

\* Every thread is scheduled, and every work function ends.
Fairness == \A t \in Thread : WF_vars(ThreadStep(t))

Spec == Init /\ [][Next]_vars /\ Fairness
-----------------------------------------------------------------------------
(***************************************************************************)
(* Properties                                                              *)
(***************************************************************************)
TypeOK ==
    /\ waiting_threads \in Int
    /\ allocated_threads \in Nat
    /\ cur_numthreads \in Int
    /\ idstack \in Seq(Thread)
    /\ created \subseteq Thread
    /\ pc \in [Thread -> {"work", "wait", "acquire", "putback", "create", "full",
                          "pthread", "count", "assign", "release"}]
    /\ acq \in [Thread -> [nthreads : Nat, count : Int, required : Int,
                           made : Nat, id : Nat]]
    /\ local_id \in [Thread -> -1 .. MaxThreads - 1]
    /\ woken \subseteq Thread

\* Where a thread is in __pmp_thread_acquire, on its way to a team.
Acquiring == {"acquire", "putback", "create", "full", "pthread", "count", "assign"}

\* Threads that t's fork has acquired and not yet turned into a team, or that
\* it has released and not yet counted as waiting.  After the first xadd of
\* a failed attempt t has also taken what it is going to put back.
Held(t) ==
    CASE pc[t] \in Acquiring \ {"putback"} -> acq[t].count - 1
      [] pc[t] = "putback" -> acq[t].count - 1 + acq[t].required
      [] pc[t] = "release" -> Len(teams[team[t]].members) - 1
      [] OTHER -> 0

InTeams == {x \in DOMAIN teams : teams[x].working_threads > 0}

\* The workers of the teams.
Working == UNION {{teams[x].members[i] : i \in 2 .. Len(teams[x].members)} : x \in InTeams}

\* A pair for every thread in the hands of a fork, and one for every thread
\* that a fork counts less than none.
InHand == UNION {{t} \X (1 .. Held(t)) : t \in Thread}
Owed == UNION {{t} \X (1 .. -Held(t)) : t \in Thread}

\* The pool loses and invents no thread: the created workers are the ones
\* counted as waiting, the ones in teams and the ones in the hands of a fork.
\* Reservations that an unlucky reader of waiting_threads has seen as a
\* negative number of threads are included (thread.c:562-578).
Conservation ==
    waiting_threads + Cardinality(Working) + Cardinality(InHand) - Cardinality(Owed)
    = Cardinality(created) - 1 - Cardinality({t \in Thread : pc[t] = "count"})

\* The team that t works for, under the regions it has forked itself.
WorksFor(t) == IF saved[t] = <<>> THEN team[t] ELSE saved[t][1].team

\* No thread is in two teams, or in a team and free: the ids on the stack
\* and the workers of the teams are all different, a free id belongs to no
\* team (the assertions of thread.c:605-606), and a worker works for the team
\* that lists it.
OneOwner ==
    /\ \A i, j \in DOMAIN idstack : idstack[i] = idstack[j] => i = j
    /\ \A i \in DOMAIN idstack : local_id[idstack[i]] = -1 /\ team[idstack[i]] = NoTeam
    /\ \A x \in InTeams : \A i \in 2 .. Len(teams[x].members) :
         LET u == teams[x].members[i]
         IN /\ WorksFor(u) = x
            /\ saved[u] = <<>> => local_id[u] = i - 1
            /\ \A j \in DOMAIN idstack : idstack[j] # u

\* The ids that are being turned into threads are new, different from each
\* other, and covered by allocated_threads (the assertion of thread.h:124),
\* also when another fork overshoots the table of threads and steps back.
FreshIds ==
    LET creators == {t \in Thread : pc[t] = "pthread"}
    IN /\ \A t \in creators : acq[t].id \notin created /\ acq[t].id < MaxThreads
       /\ \A t, u \in creators : acq[t].id = acq[u].id => t = u
       /\ \A i \in created \cup {acq[t].id : t \in creators} : i < allocated_threads

\* __pmp_team_alloc gets at least its own master (the assertion of
\* team.c:105).
TeamNotEmpty == \A t \in Thread : pc[t] = "assign" => acq[t].count > 0

\* A fork has seen the overdraft of another one and counts fewer threads than
\* it has: none at all, or less than none (TeamNotEmpty is violated next when
\* no thread can be created).
Overdrawn == \E t \in Thread : pc[t] \in Acquiring /\ acq[t].count < 1

\* The id stack holds an id for every acquired worker (the assertion of
\* idstack.h:41) unless a fork is overdrawn, whose missing threads are then
\* counted as waiting and taken by others; and a fork never gets more threads
\* than it asked for.
IdsSuffice ==
    \A t \in Thread : pc[t] = "assign" =>
        /\ Overdrawn \/ Len(idstack) >= acq[t].count - 1
        /\ acq[t].count <= acq[t].nthreads

\* Every fork gets its team and every region ends, although an id may be
\* assigned before its thread exists (thread.c:355-358).
RegionEnds == (saved[main] # <<>>) ~> (saved[main] = <<>>)
=============================================================================
