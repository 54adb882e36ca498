----------------------------- MODULE PoolProofs -----------------------------
(***************************************************************************)
(* Proofs about Pool for every number of threads, every default team size  *)
(* and every program.                                                      *)
(***************************************************************************)
EXTENDS Pool, FiniteSetTheorems, TLAPS

(***************************************************************************)
(* The inductive invariant                                                 *)
(***************************************************************************)
TeamId == [master : Thread, depth : Nat]
TeamRecord == [members : Seq(Thread), working_threads : Int, level : Nat]
SavedRecord == [team : TeamId, local_id : Int]
AcqRecord == [nthreads : Int, count : Int, required : Int, made : Int, id : Int]

PoolTypes ==
    /\ program \in Programs
    /\ waiting_threads \in Int
    /\ allocated_threads \in Int
    /\ cur_numthreads \in Int
    /\ idstack \in Seq(Thread)
    /\ created \subseteq Thread
    /\ pc \in [Thread -> Acquiring \cup {"work", "wait", "release"}]
    /\ acq \in [Thread -> AcqRecord]
    /\ local_id \in [Thread -> Int]
    /\ team \in [Thread -> TeamId]
    /\ saved \in [Thread -> Seq(SavedRecord)]
    /\ DOMAIN teams \subseteq TeamId \ {NoTeam}
    /\ teams \in [DOMAIN teams -> TeamRecord]
    /\ woken \subseteq Thread
-----------------------------------------------------------------------------
(***************************************************************************)
(* Creating threads.  A fork that finds the table full has incremented     *)
(* allocated_threads in vain and is going to decrement it: the ids that    *)
(* have really been given out are the ones below Settled.                  *)
(***************************************************************************)
Full == {t \in Thread : pc[t] = "full"}
Settled == allocated_threads - Cardinality(Full)

SettledBound == Settled <= MaxThreads /\ (Full # {} => Settled = MaxThreads)

IdsSettled ==
    /\ main \in created
    /\ \A i \in created : i < Settled
    /\ \A t \in Thread : pc[t] = "pthread" =>
         /\ acq[t].id \in Nat /\ acq[t].id < Settled /\ acq[t].id \notin created
         /\ \A u \in Thread : pc[u] = "pthread" /\ acq[u].id = acq[t].id => u = t
-----------------------------------------------------------------------------
(***************************************************************************)
(* Teams.  The stack saved[t] of a thread tells which regions it is in the *)
(* middle of forking or executing as a master.                             *)
(***************************************************************************)
\* A master works in the team of its innermost region; while it acquires the
\* threads of the next one, that team is the last it has saved.
MasterAt(t) ==
    /\ pc[t] = "wait" => saved[t] = <<>> /\ t # main /\ WorksFor(t) = team[t]
    /\ pc[t] \in Acquiring \cup {"release"} => saved[t] # <<>>
    /\ pc[t] \in {"work", "release"} /\ saved[t] # <<>> =>
         team[t] = ForkedTeam(t) /\ team[t] \in DOMAIN teams
    /\ pc[t] = "release" => team[t] \notin InTeams
    /\ pc[t] \in Acquiring => team[t] = saved[t][Len(saved[t])].team
    /\ \A k \in 2 .. Len(saved[t]) :
         /\ saved[t][k].team = [master |-> t, depth |-> k - 1]
         /\ saved[t][k].team \in DOMAIN teams

\* The teams of a master belong to the regions it has not left.
TeamDepths ==
    \A x \in DOMAIN teams :
        /\ 1 <= x.depth /\ x.depth <= Len(saved[x.master])
        /\ pc[x.master] \in Acquiring => x.depth < Len(saved[x.master])

\* An id on the stack is the id of a thread that waits and is not woken.
StackFree ==
    /\ \A i, j \in DOMAIN idstack : idstack[i] = idstack[j] => i = j
    /\ \A i \in DOMAIN idstack :
         /\ pc[idstack[i]] = "wait" /\ idstack[i] \notin woken
         /\ local_id[idstack[i]] = -1 /\ team[idstack[i]] = NoTeam

\* The i-th member of team x, a worker.
WorkerOf(x, i) ==
    LET u == teams[x].members[i]
    IN /\ u # main
       /\ WorksFor(u) = x
       /\ saved[u] = <<>> => local_id[u] = i - 1
       /\ saved[u] # <<>> => saved[u][1].local_id = i - 1
       /\ \A j \in DOMAIN idstack : idstack[j] # u

Workers(x) == {teams[x].members[i] : i \in 2 .. Len(teams[x].members)}

WorkersRight ==
    \A x \in InTeams :
        Len(teams[x].members) > 0 /\ \A i \in 2 .. Len(teams[x].members) : WorkerOf(x, i)

\* A thread has been woken for its region and has not joined yet.
Busy(u) == pc[u] # "wait" \/ u \in woken

Employed ==
    /\ WorksFor(main) = NoTeam
    /\ \A u \in Thread :
         /\ pc[u] # "wait" => u \notin woken
         /\ u # main /\ Busy(u) => WorksFor(u) \in InTeams /\ u \in Workers(WorksFor(u))

BusyIn(x) == {u \in Workers(x) : Busy(u)}

\* working_threads counts the master and the workers that have not joined.
WorkCounted == \A x \in InTeams : teams[x].working_threads = 1 + Cardinality(BusyIn(x))

TeamInv ==
    /\ \A t \in Thread : MasterAt(t)
    /\ TeamDepths
    /\ StackFree
    /\ WorkersRight
    /\ Employed
    /\ WorkCounted

CreateInv == SettledBound /\ IdsSettled

PoolInv == PoolTypes /\ CreateInv /\ TeamInv
-----------------------------------------------------------------------------
LEMMA ThreadsFinite == IsFiniteSet(Thread)
BY PoolAssumption, FS_Interval DEF Thread

LEMMA FullFinite == IsFiniteSet(Full) /\ Cardinality(Full) \in Nat
BY ThreadsFinite, FS_Subset, FS_CardinalityType DEF Full

\* B has n threads more than A.
Grows(A, B, n) == \E W \in SUBSET Thread : B = A \cup W /\ W \cap A = {} /\ Cardinality(W) = n

LEMMA WorkingIs == Working = UNION {Workers(x) : x \in InTeams}
BY DEF Working, Workers

LEMMA WorkersType ==
    ASSUME PoolTypes, NEW x \in DOMAIN teams
    PROVE  /\ teams[x].members \in Seq(Thread)
           /\ \A i \in 1 .. Len(teams[x].members) : teams[x].members[i] \in Thread
           /\ Workers(x) \subseteq Thread
           /\ IsFiniteSet(Workers(x)) /\ IsFiniteSet(BusyIn(x))
<1>1. teams[x] \in TeamRecord
    BY DEF PoolTypes
<1>2. teams[x].members \in Seq(Thread)
    BY <1>1 DEF TeamRecord
<1>3. \A i \in 1 .. Len(teams[x].members) : teams[x].members[i] \in Thread
    BY <1>2
<1>4. Workers(x) \subseteq Thread
    BY <1>2, <1>3 DEF Workers
<1> QED
    BY <1>2, <1>3, <1>4, ThreadsFinite, FS_Subset DEF BusyIn

LEMMA InitPoolInv == Init => PoolInv
<1> SUFFICES ASSUME Init PROVE PoolInv
    OBVIOUS
<1> USE PoolAssumption DEF Init, Thread, main
<1>1. DOMAIN teams = {} /\ InTeams = {}
    BY DEF InTeams
<1>2. PoolTypes
  <2>1. idstack \in Seq(Thread)
    OBVIOUS
  <2>2. team \in [Thread -> TeamId] /\ teams \in [DOMAIN teams -> TeamRecord]
    BY <1>1 DEF TeamId, NoTeam
  <2>3. saved \in [Thread -> Seq(SavedRecord)]
    OBVIOUS
  <2>4. /\ acq \in [Thread -> AcqRecord]
        /\ local_id \in [Thread -> Int]
    BY DEF NoAcq, AcqRecord
  <2>5. /\ pc \in [Thread -> Acquiring \cup {"work", "wait", "release"}]
        /\ created \subseteq Thread /\ woken \subseteq Thread
    BY DEF Acquiring
  <2>6. /\ program \in Programs /\ waiting_threads \in Int /\ allocated_threads \in Int
        /\ cur_numthreads \in Int
    OBVIOUS
  <2> HIDE DEF Init, Thread, main
  <2> QED
    BY <1>1, <2>1, <2>2, <2>3, <2>4, <2>5, <2>6 DEF PoolTypes
<1>3. CreateInv
  <2>1. Full = {} /\ Cardinality(Full) = 0
    BY FS_EmptySet DEF Full
  <2> QED
    BY <2>1 DEF CreateInv, SettledBound, IdsSettled, Settled
<1>4. (\A t \in Thread : MasterAt(t)) /\ TeamDepths
    BY <1>1 DEF MasterAt, TeamDepths, WorksFor, Acquiring
<1>5. StackFree
    BY DEF StackFree
<1>6. Employed /\ WorkersRight /\ WorkCounted
    BY <1>1 DEF Employed, Busy, WorksFor, WorkersRight, WorkCounted
<1> QED
    BY <1>2, <1>3, <1>4, <1>5, <1>6 DEF PoolInv, TeamInv
-----------------------------------------------------------------------------
\* The work in progress is the same when the teams that work, the threads that
\* are busy and the teams they work for are.
LEMMA StableWork ==
    ASSUME PoolInv, InTeams' = InTeams,
           \A x \in InTeams : teams'[x] = teams[x],
           \A u \in Thread : /\ Busy(u)' <=> Busy(u)
                             /\ WorksFor(u)' = WorksFor(u)
                             /\ pc'[u] # "wait" => u \notin woken'
    PROVE  Employed' /\ WorkCounted'
<1>1. \A x \in InTeams : Workers(x)' = Workers(x)
    BY DEF Workers
<1>2. Employed'
  <2>1. WorksFor(main)' = NoTeam
    BY PoolAssumption DEF PoolInv, TeamInv, Employed, Thread, main
  <2>2. ASSUME NEW u \in Thread, u # main, Busy(u)'
        PROVE  WorksFor(u)' \in InTeams' /\ u \in Workers(WorksFor(u))'
    <3>1. WorksFor(u) \in InTeams /\ u \in Workers(WorksFor(u)) /\ WorksFor(u)' = WorksFor(u)
        BY <2>2 DEF PoolInv, TeamInv, Employed
    <3>2. Workers(WorksFor(u))' = Workers(WorksFor(u))
        BY <3>1 DEF Workers
    <3> QED
        BY <3>1, <3>2
  <2> QED
    BY <2>1, <2>2 DEF Employed
<1>3. \A x \in InTeams : BusyIn(x)' = BusyIn(x)
  <2>1. ASSUME NEW x \in InTeams PROVE BusyIn(x)' = BusyIn(x)
    <3>1. Workers(x) \subseteq Thread /\ Workers(x)' = Workers(x)
        BY <1>1, WorkersType DEF InTeams, PoolInv
    <3> QED
        BY <3>1 DEF BusyIn
  <2> QED
    BY <2>1
<1>4. WorkCounted'
    BY <1>3 DEF PoolInv, TeamInv, WorkCounted
<1> QED
    BY <1>2, <1>4

\* A thread whose own place is the same has the teams it had.
LEMMA MasterKeep ==
    ASSUME PoolInv, NEW u \in Thread,
           pc'[u] = pc[u], team'[u] = team[u], saved'[u] = saved[u],
           \A y \in DOMAIN teams : y.master = u =>
               y \in DOMAIN teams' /\ (y \in InTeams' => y \in InTeams)
    PROVE  MasterAt(u)'
<1>1. MasterAt(u)
    BY DEF PoolInv, TeamInv
<1>2. WorksFor(u)' = WorksFor(u) /\ ForkedTeam(u)' = ForkedTeam(u) /\ ForkedTeam(u).master = u
    BY DEF WorksFor, ForkedTeam
<1>3. \A k \in 2 .. Len(saved[u]) :
        /\ saved[u][k].team = [master |-> u, depth |-> k - 1]
        /\ saved[u][k].team \in DOMAIN teams /\ saved[u][k].team \in DOMAIN teams'
    BY <1>1 DEF MasterAt
<1> QED
    BY <1>1, <1>2, <1>3 DEF MasterAt

\* A step inside __pmp_thread_acquire does not concern the teams.
LEMMA QuietTeams ==
    ASSUME PoolInv, NEW t \in Thread, NEW l \in Acquiring, pc[t] \in Acquiring,
           pc' = [pc EXCEPT ![t] = l],
           UNCHANGED <<idstack, local_id, team, saved, teams, woken>>
    PROVE  TeamInv'
<1>1. \A u \in Thread : /\ pc'[u] = "wait" <=> pc[u] = "wait"
                        /\ pc'[u] \in Acquiring <=> pc[u] \in Acquiring
                        /\ u # t => pc'[u] = pc[u]
    BY DEF Acquiring, PoolInv, PoolTypes
<1>2. InTeams' = InTeams /\ \A x \in DOMAIN teams : Workers(x)' = Workers(x)
    BY DEF InTeams, Workers
<1>3. \A u \in Thread : (Busy(u)' <=> Busy(u)) /\ WorksFor(u)' = WorksFor(u)
    BY <1>1 DEF Busy, WorksFor
<1>4. ASSUME NEW u \in Thread PROVE MasterAt(u)'
  <2>1. MasterAt(u) /\ WorksFor(u)' = WorksFor(u) /\ ForkedTeam(u)' = ForkedTeam(u)
    BY <1>3 DEF PoolInv, TeamInv, ForkedTeam
  <2>2. pc'[u] \in {"work", "release"} => pc'[u] = pc[u]
    BY <1>1 DEF PoolInv, PoolTypes, Acquiring
  <2> QED
    BY <1>1, <1>2, <2>1, <2>2 DEF MasterAt
<1>5. TeamDepths' /\ StackFree'
    BY <1>1 DEF TeamDepths, StackFree, TeamId, PoolInv, PoolTypes, TeamInv
<1>6. WorkersRight'
  <2>1. ASSUME NEW x \in InTeams, NEW i \in 2 .. Len(teams[x].members) PROVE WorkerOf(x, i)'
    BY DEF PoolInv, TeamInv, WorkersRight, WorkerOf, WorksFor
  <2> QED
    BY <1>2, <2>1 DEF PoolInv, TeamInv, WorkersRight
<1>7. Employed' /\ WorkCounted'
    BY <1>1, <1>2, <1>3, StableWork DEF PoolInv, TeamInv, Employed
<1> QED
    BY <1>4, <1>5, <1>6, <1>7 DEF TeamInv
-----------------------------------------------------------------------------
(***************************************************************************)
(* The creation of threads                                                 *)
(***************************************************************************)
LEMMA CreateKeep ==
    ASSUME PoolInv, Full' = Full, UNCHANGED <<allocated_threads, created>>,
           \A u \in Thread : pc'[u] = "pthread" => pc[u] = "pthread" /\ acq'[u].id = acq[u].id
    PROVE  CreateInv'
<1>1. Settled' = Settled
    BY DEF Settled
<1> QED
    BY <1>1 DEF PoolInv, CreateInv, SettledBound, IdsSettled

LEMMA CreateAllocInv == ASSUME PoolInv, NEW t \in Thread, CreateAlloc(t) PROVE CreateInv'
<1>1. /\ PoolTypes /\ SettledBound /\ IdsSettled
      /\ acq' = [acq EXCEPT ![t].id = allocated_threads]
      /\ created' = created /\ allocated_threads' = allocated_threads + 1
      /\ pc[t] = "create"
    BY DEF PoolInv, CreateInv, CreateAlloc, AllocId
<1>2. Cardinality(Full) \in Nat /\ IsFiniteSet(Full) /\ MaxThreads \in Nat /\ allocated_threads \in Int
    BY <1>1, FullFinite, PoolAssumption DEF PoolTypes
<1>3. CASE allocated_threads >= MaxThreads
  <2>1. pc' = [pc EXCEPT ![t] = "full"]
    BY <1>3 DEF CreateAlloc, AllocId, Goto
  <2>2. Full' = Full \cup {t} /\ t \notin Full
    BY <1>1, <2>1 DEF Full, PoolTypes
  <2>3. Cardinality(Full') = Cardinality(Full) + 1
    BY <1>2, <2>2, FS_AddElement
  <2>4. Settled' = Settled
    BY <1>1, <1>2, <2>3 DEF Settled
  <2>5. Full = {} => Cardinality(Full) = 0
    BY FS_EmptySet
  <2>6. Settled = MaxThreads
    BY <1>1, <1>2, <1>3, <2>5 DEF SettledBound, Settled
  <2>7. IdsSettled'
    BY <1>1, <2>1, <2>4 DEF IdsSettled, PoolTypes
  <2> QED
    BY <1>2, <2>4, <2>6, <2>7 DEF CreateInv, SettledBound
<1>4. CASE ~(allocated_threads >= MaxThreads)
  <2>1. pc' = [pc EXCEPT ![t] = "pthread"]
    BY <1>4 DEF CreateAlloc, AllocId, Goto
  <2>2. Full = {}
    BY <1>1, <1>2, <1>4 DEF SettledBound, Settled
  <2>3. Full' = {}
    BY <1>1, <2>1, <2>2 DEF Full, PoolTypes
  <2>4. Settled = allocated_threads /\ Settled' = allocated_threads + 1
    BY <1>1, <1>2, <2>2, <2>3, FS_EmptySet DEF Settled
  <2>5. SettledBound'
    BY <1>2, <1>4, <2>3, <2>4 DEF SettledBound
  <2>6. allocated_threads \in Nat
    BY <1>1, <1>2, <2>4 DEF IdsSettled, main
  <2>7. \A u \in Thread : /\ u # t => pc'[u] = pc[u] /\ acq'[u].id = acq[u].id
                          /\ acq'[t].id = allocated_threads
    BY <1>1, <2>1 DEF PoolTypes
  <2>8. IdsSettled'
    <3>1. \A i \in created : i \in Int /\ i < Settled /\ i < Settled'
        BY <1>1, <1>2, <2>4 DEF IdsSettled, PoolTypes, Thread
    <3>2. \A u \in Thread : pc[u] = "pthread" =>
            acq[u].id \in Nat /\ acq[u].id < Settled' /\ acq[u].id # allocated_threads
        BY <1>1, <1>2, <2>4 DEF IdsSettled
    <3>3. allocated_threads \notin created
        BY <1>2, <2>4, <3>1
    <3>4. ASSUME NEW u \in Thread, pc'[u] = "pthread"
          PROVE  /\ acq'[u].id \in Nat /\ acq'[u].id < Settled' /\ acq'[u].id \notin created
                 /\ \A v \in Thread : pc'[v] = "pthread" /\ acq'[v].id = acq'[u].id => v = u
      <4>1. CASE u = t
        BY <1>2, <2>4, <2>6, <2>7, <3>2, <3>3, <4>1
      <4>2. CASE u # t
        BY <1>1, <2>7, <3>2, <3>4, <4>2 DEF IdsSettled
      <4> QED
        BY <4>1, <4>2
    <3> QED
        BY <1>1, <3>1, <3>4 DEF IdsSettled
  <2> QED
    BY <2>5, <2>8 DEF CreateInv
<1> QED
    BY <1>3, <1>4

LEMMA CreateFullInv == ASSUME PoolInv, NEW t \in Thread, CreateFull(t) PROVE CreateInv'
<1>1. /\ PoolTypes /\ SettledBound /\ IdsSettled
      /\ UNCHANGED <<created, acq>> /\ allocated_threads' = allocated_threads - 1
      /\ pc[t] = "full"
    BY DEF PoolInv, CreateInv, CreateFull, GiveUp
<1>2. pc' = [pc EXCEPT ![t] = pc'[t]] /\ pc'[t] \in {"assign", "acquire"}
    BY <1>1 DEF CreateFull, GiveUp, Goto, PoolTypes
<1>3. Full' = Full \ {t} /\ t \in Full
    BY <1>1, <1>2 DEF Full, PoolTypes
<1>4. Cardinality(Full') = Cardinality(Full) - 1 /\ Cardinality(Full) \in Nat
    BY <1>3, FullFinite, FS_RemoveElement
<1>5. Settled' = Settled
    BY <1>1, <1>4 DEF Settled, PoolTypes
<1>6. SettledBound'
    BY <1>1, <1>3, <1>5 DEF SettledBound
<1>7. \A u \in Thread : pc'[u] = "pthread" => pc[u] = "pthread"
    BY <1>1, <1>2 DEF PoolTypes
<1> QED
    BY <1>1, <1>5, <1>6, <1>7 DEF CreateInv, IdsSettled

LEMMA PthreadCreateInv == ASSUME PoolInv, NEW t \in Thread, PthreadCreate(t) PROVE CreateInv'
<1>1. /\ PoolTypes /\ SettledBound /\ IdsSettled
      /\ UNCHANGED <<allocated_threads, acq>> /\ created' = created \cup {acq[t].id}
      /\ pc[t] = "pthread" /\ pc' = [pc EXCEPT ![t] = "count"]
    BY DEF PoolInv, CreateInv, PthreadCreate, Goto, counters
<1>2. Full' = Full
    BY <1>1 DEF Full, PoolTypes
<1>3. Settled' = Settled
    BY <1>1, <1>2 DEF Settled
<1> QED
    BY <1>1, <1>2, <1>3 DEF CreateInv, SettledBound, IdsSettled, PoolTypes
-----------------------------------------------------------------------------
(***************************************************************************)
(* The types                                                               *)
(***************************************************************************)
\* A thread that forks is in a team that is allocated, or in none.
LEMMA LevelType ==
    ASSUME PoolInv, NEW t \in Thread, pc[t] \in Acquiring \cup {"work"}
    PROVE  /\ team[t] = NoTeam \/ team[t] \in DOMAIN teams
           /\ Level(team[t]) \in Nat
<1>1. PoolTypes /\ MasterAt(t) /\ Employed
    BY DEF PoolInv, TeamInv
<1>2. saved[t] \in Seq(SavedRecord) /\ Len(saved[t]) \in Nat
    BY <1>1 DEF PoolTypes
<1>3. WorksFor(t) = NoTeam \/ WorksFor(t) \in DOMAIN teams
    BY <1>1 DEF Employed, Busy, InTeams, Acquiring
<1>4. team[t] = NoTeam \/ team[t] \in DOMAIN teams
  <2>1. CASE saved[t] = <<>>
    BY <1>3, <2>1 DEF WorksFor
  <2>2. CASE saved[t] # <<>> /\ pc[t] = "work"
    BY <1>1, <2>2 DEF MasterAt
  <2>3. CASE saved[t] # <<>> /\ pc[t] \in Acquiring
    <3>1. team[t] = saved[t][Len(saved[t])].team
        BY <1>1, <2>3 DEF MasterAt
    <3>2. Len(saved[t]) # 0
        BY <1>2, <2>3
    <3>3. CASE Len(saved[t]) = 1
      <4>1. WorksFor(t) = saved[t][1].team
        BY <2>3 DEF WorksFor
      <4> QED
        BY <1>3, <3>1, <3>3, <4>1
    <3>4. CASE Len(saved[t]) \in 2 .. Len(saved[t])
        BY <1>1, <3>1, <3>4 DEF MasterAt
    <3>5. \A n \in Nat : n # 0 => n = 1 \/ n \in 2 .. n
        OBVIOUS
    <3> QED
        BY <1>2, <3>2, <3>3, <3>4, <3>5
  <2> QED
    BY <2>1, <2>2, <2>3
<1>5. ASSUME team[t] \in DOMAIN teams PROVE teams[team[t]].level \in Nat
    BY <1>1, <1>5 DEF PoolTypes, TeamRecord
<1> QED
    BY <1>4, <1>5 DEF Level

LEMMA ForkTypes == ASSUME PoolInv, NEW t \in Thread, ForkStep(t) PROVE PoolTypes'
<1>1. PICK n \in program.requests[Level(team[t]) + 1] : Fork(t, n)
    BY DEF ForkStep
<1>2. PoolTypes /\ pc[t] = "work"
    BY <1>1 DEF PoolInv, Fork
<1>3. n \in Nat
  <2>1. Level(team[t]) \in Nat /\ Level(team[t]) < Len(program.requests)
    BY <1>2, LevelType DEF ForkStep
  <2>2. program.requests \in Seq(SUBSET Nat)
    BY <1>2, PoolAssumption DEF PoolTypes
  <2> QED
    BY <1>1, <2>1, <2>2
<1>4. NewTeamSize(t) \in Int
    BY PoolAssumption DEF NewTeamSize
<1>5. acq' \in [Thread -> AcqRecord]
  <2> DEFINE k == IF n = 0 THEN NewTeamSize(t) ELSE n
             r == [nthreads |-> k, count |-> 1, required |-> 0, made |-> 0, id |-> 0]
  <2>1. acq' = [acq EXCEPT ![t] = r]
    BY <1>1 DEF Fork
  <2>2. k \in Int
    BY <1>3, <1>4
  <2> HIDE DEF k
  <2>3. r \in AcqRecord
    BY <2>2 DEF AcqRecord
  <2> HIDE DEF r
  <2> QED
    BY <1>2, <2>1, <2>3 DEF PoolTypes
<1>6. saved' \in [Thread -> Seq(SavedRecord)]
  <2>1. [team |-> team[t], local_id |-> local_id[t]] \in SavedRecord
    BY <1>2 DEF PoolTypes, SavedRecord
  <2>2. saved' = [saved EXCEPT ![t] = Append(@, [team |-> team[t], local_id |-> local_id[t]])]
    BY <1>1 DEF Fork
  <2> QED
    BY <1>2, <2>1, <2>2 DEF PoolTypes
<1> QED
    BY <1>1, <1>2, <1>5, <1>6 DEF Fork, Goto, PoolTypes, counters, Acquiring

LEMMA QuietTypes ==
    ASSUME PoolTypes, NEW t \in Thread,
           \/ AcquireTake(t) \/ AcquirePutBack(t) \/ AcquireDone(t) \/ CreateAlloc(t)
           \/ CreateFull(t) \/ CreateCount(t)
    PROVE  PoolTypes' /\ pc[t] \in Acquiring /\ pc'[t] \in Acquiring /\ pc' = [pc EXCEPT ![t] = pc'[t]]
<1> USE DEF Goto, counters, threadVars
<1>1. acq' \in [Thread -> AcqRecord]
  <2>1. acq[t] \in AcqRecord /\ waiting_threads \in Int /\ allocated_threads \in Int
    BY DEF PoolTypes
  <2>2. \E r \in AcqRecord : acq' = [acq EXCEPT ![t] = r]
    <3>1. CASE AcquireTake(t)
        BY <2>1, <3>1 DEF AcquireTake, Take, AcqRecord
    <3>2. CASE AcquirePutBack(t)
      <4>1. [acq[t] EXCEPT !.made = 0] \in AcqRecord
        BY <2>1 DEF AcqRecord
      <4> QED
        BY <3>2, <4>1 DEF AcquirePutBack, PutBack
    <3>3. CASE AcquireDone(t) \/ CreateFull(t)
        BY <2>1, <3>3 DEF AcquireDone, CreateFull, GiveUp, PoolTypes
    <3>4. CASE CreateAlloc(t)
        BY <2>1, <3>4 DEF CreateAlloc, AllocId, AcqRecord
    <3>5. CASE CreateCount(t)
      <4>1. [acq[t] EXCEPT !.made = @ + 1] \in AcqRecord
        BY <2>1 DEF AcqRecord
      <4> QED
        BY <3>5, <4>1 DEF CreateCount
    <3> QED
        BY <3>1, <3>2, <3>3, <3>4, <3>5
  <2> QED
    BY <2>2 DEF PoolTypes
<1>2. /\ pc[t] \in Acquiring /\ pc'[t] \in Acquiring /\ pc' = [pc EXCEPT ![t] = pc'[t]]
      /\ UNCHANGED <<program, cur_numthreads, idstack, created, local_id, team, saved, teams, woken>>
    BY DEF PoolTypes, Acquiring, AcquireTake, Take, AcquirePutBack, PutBack, AcquireDone, CreateAlloc,
        AllocId, CreateFull, GiveUp, CreateCount
<1>3. waiting_threads' \in Int /\ allocated_threads' \in Int
  <2>1. acq[t].nthreads \in Int /\ acq[t].count \in Int /\ acq[t].required \in Int
    BY DEF PoolTypes, AcqRecord
  <2> QED
    BY <2>1 DEF PoolTypes, AcquireTake, Take, AcquirePutBack, PutBack, AcquireDone, CreateAlloc,
        AllocId, CreateFull, GiveUp, CreateCount
<1> QED
    BY <1>1, <1>2, <1>3 DEF PoolTypes
-----------------------------------------------------------------------------
(***************************************************************************)
(* The teams, action by action                                             *)
(***************************************************************************)
LEMMA ForkTeams == ASSUME PoolInv, NEW t \in Thread, ForkStep(t) PROVE TeamInv'
<1>1. /\ pc[t] = "work" /\ pc' = [pc EXCEPT ![t] = "acquire"]
      /\ saved' = [saved EXCEPT ![t] = Append(@, [team |-> team[t], local_id |-> local_id[t]])]
      /\ local_id' = [local_id EXCEPT ![t] = 0]
      /\ UNCHANGED <<idstack, team, teams, woken>>
    BY DEF ForkStep, Fork, Goto
<1>2. PoolTypes /\ TeamInv /\ MasterAt(t) /\ saved[t] \in Seq(SavedRecord) /\ Len(saved[t]) \in Nat
    BY DEF PoolInv, TeamInv, PoolTypes
<1> DEFINE s == [team |-> team[t], local_id |-> local_id[t]]
<1>3. /\ saved'[t] = Append(saved[t], s) /\ Len(saved'[t]) = Len(saved[t]) + 1
      /\ saved'[t][Len(saved[t]) + 1] = s
      /\ \A k \in 1 .. Len(saved[t]) : saved'[t][k] = saved[t][k]
      /\ saved'[t] # <<>>
  <2>1. s \in SavedRecord
    BY <1>2 DEF SavedRecord, PoolTypes
  <2>2. saved'[t] = Append(saved[t], s)
    BY <1>1, <1>2 DEF PoolTypes
  <2> HIDE DEF s
  <2> QED
    BY <1>2, <2>1, <2>2
<1>4. \A u \in Thread : u # t =>
        pc'[u] = pc[u] /\ saved'[u] = saved[u] /\ local_id'[u] = local_id[u]
    BY <1>1, <1>2 DEF PoolTypes
<1>5. saved[t] # <<>> => Len(saved[t]) >= 1 /\ saved'[t][1] = saved[t][1]
    BY <1>2, <1>3
<1>6. saved[t] = <<>> => saved'[t][1] = s /\ Len(saved[t]) = 0
    BY <1>2, <1>3
<1>7. InTeams' = InTeams
    BY <1>1 DEF InTeams
<1>8. \A u \in Thread : /\ WorksFor(u)' = WorksFor(u)
                        /\ Busy(u)' <=> Busy(u)
                        /\ pc'[u] # "wait" => u \notin woken'
  <2>1. WorksFor(t)' = WorksFor(t)
    BY <1>1, <1>3, <1>5, <1>6 DEF WorksFor
  <2>2. pc'[t] = "acquire"
    BY <1>1, <1>2 DEF PoolTypes
  <2> QED
    BY <1>1, <1>2, <1>4, <2>1, <2>2 DEF WorksFor, Busy, TeamInv, Employed
<1>9. MasterAt(t)'
  <2>1. pc'[t] = "acquire" /\ team'[t] = team[t] /\ saved'[t][Len(saved'[t])].team = team[t]
    BY <1>1, <1>2, <1>3 DEF PoolTypes
  <2>2. ASSUME NEW k \in 2 .. Len(saved'[t])
        PROVE  saved'[t][k].team = [master |-> t, depth |-> k - 1] /\ saved'[t][k].team \in DOMAIN teams
    <3>1. CASE k = Len(saved[t]) + 1
      <4>1. saved[t] # <<>> /\ saved'[t][k].team = team[t] /\ k - 1 = Len(saved[t])
        BY <1>2, <1>3, <1>6, <3>1
      <4> QED
        BY <1>1, <1>2, <4>1 DEF MasterAt, ForkedTeam
    <3>2. CASE k \in 2 .. Len(saved[t])
      <4>1. saved'[t][k] = saved[t][k]
        BY <1>2, <1>3, <3>2
      <4> QED
        BY <1>2, <3>2, <4>1 DEF MasterAt
    <3> QED
        BY <1>2, <1>3, <3>1, <3>2
  <2> QED
    BY <1>1, <1>3, <2>1, <2>2 DEF MasterAt, Acquiring
<1>10. \A u \in Thread : MasterAt(u)'
    BY <1>1, <1>4, <1>7, <1>9, MasterKeep
<1>11. TeamDepths'
  <2>1. ASSUME NEW x \in DOMAIN teams
        PROVE  /\ 1 <= x.depth /\ x.depth <= Len(saved'[x.master])
               /\ pc'[x.master] \in Acquiring => x.depth < Len(saved'[x.master])
    <3>1. x.master \in Thread /\ x.depth \in Nat
        BY <1>2 DEF PoolTypes, TeamId
    <3>2. /\ 1 <= x.depth /\ x.depth <= Len(saved[x.master])
          /\ pc[x.master] \in Acquiring => x.depth < Len(saved[x.master])
        BY <1>2 DEF TeamInv, TeamDepths
    <3>3. CASE x.master = t
        BY <1>2, <1>3, <3>1, <3>2, <3>3
    <3>4. CASE x.master # t
        BY <1>4, <3>1, <3>2, <3>4
    <3> QED
        BY <3>3, <3>4
  <2> QED
    BY <1>1, <2>1 DEF TeamDepths
<1>12. \A i \in DOMAIN idstack : idstack[i] \in Thread /\ idstack[i] # t
    BY <1>1, <1>2 DEF PoolTypes, TeamInv, StackFree
<1>13. StackFree'
    BY <1>1, <1>2, <1>4, <1>12 DEF TeamInv, StackFree
<1>14. WorkersRight'
  <2>1. ASSUME NEW x \in InTeams, NEW i \in 2 .. Len(teams[x].members) PROVE WorkerOf(x, i)'
    <3> DEFINE u == teams[x].members[i]
    <3>1. u \in Thread
        BY WorkersType, <1>2 DEF InTeams
    <3>2. WorkerOf(x, i)
        BY <1>2 DEF TeamInv, WorkersRight
    <3>3. CASE u = t
        BY <1>1, <1>2, <1>3, <1>5, <1>6, <1>8, <3>1, <3>2, <3>3 DEF WorkerOf
    <3>4. CASE u # t
        BY <1>1, <1>4, <1>8, <3>1, <3>2, <3>4 DEF WorkerOf
    <3> QED
        BY <3>3, <3>4
  <2> QED
    BY <1>1, <1>2, <1>7, <2>1 DEF TeamInv, WorkersRight
<1>15. Employed' /\ WorkCounted'
    BY <1>1, <1>7, <1>8, StableWork
<1> QED
    BY <1>10, <1>11, <1>13, <1>14, <1>15 DEF TeamInv

LEMMA WorkerWorkTeams == ASSUME PoolInv, NEW t \in Thread, WorkerWork(t) PROVE TeamInv' /\ PoolTypes'
<1>1. /\ pc[t] = "wait" /\ pc' = [pc EXCEPT ![t] = "work"] /\ t \in woken
      /\ woken' = woken \ {t}
      /\ UNCHANGED <<program, waiting_threads, allocated_threads, cur_numthreads, idstack, created, acq,
                     local_id, team, saved, teams>>
    BY DEF WorkerWork, Goto, counters, threadVars
<1>2. PoolTypes /\ TeamInv /\ MasterAt(t)
    BY DEF PoolInv, TeamInv
<1>3. PoolTypes'
    BY <1>1, <1>2 DEF PoolTypes
<1>4. pc'[t] = "work" /\ \A u \in Thread : u # t => pc'[u] = pc[u]
    BY <1>1, <1>2 DEF PoolTypes
<1>5. InTeams' = InTeams
    BY <1>1 DEF InTeams
<1>6. \A u \in Thread : /\ WorksFor(u)' = WorksFor(u)
                        /\ Busy(u)' <=> Busy(u)
                        /\ pc'[u] # "wait" => u \notin woken'
    BY <1>1, <1>2, <1>4 DEF WorksFor, Busy, TeamInv, Employed
<1>7. MasterAt(t)'
  <2>1. saved'[t] = <<>>
    BY <1>1, <1>2 DEF MasterAt
  <2> QED
    BY <1>4, <2>1 DEF MasterAt, Acquiring
<1>8. \A u \in Thread : MasterAt(u)'
    BY <1>1, <1>4, <1>5, <1>7, MasterKeep
<1>9. TeamDepths'
    BY <1>1, <1>2, <1>4 DEF TeamInv, TeamDepths, PoolTypes, TeamId, Acquiring
<1>10. \A i \in DOMAIN idstack : idstack[i] \in Thread /\ idstack[i] # t
    BY <1>1, <1>2 DEF PoolTypes, TeamInv, StackFree
<1>11. StackFree'
    BY <1>1, <1>2, <1>4, <1>10 DEF TeamInv, StackFree
<1>12. WorkersRight'
    BY <1>1, <1>2, <1>5 DEF TeamInv, WorkersRight, WorkerOf, WorksFor
<1>13. Employed' /\ WorkCounted'
    BY <1>1, <1>5, <1>6, StableWork
<1> QED
    BY <1>3, <1>8, <1>9, <1>11, <1>12, <1>13 DEF TeamInv

LEMMA WorkerJoinTeams ==
    ASSUME PoolInv, NEW t \in Thread, WorkerJoin(t)
    PROVE  TeamInv' /\ PoolTypes' /\ Working' = Working
<1> DEFINE x == team[t]
<1>1. /\ pc[t] = "work" /\ pc' = [pc EXCEPT ![t] = "wait"] /\ t # main /\ saved[t] = <<>>
      /\ teams' = [teams EXCEPT ![x].working_threads = @ - 1]
      /\ UNCHANGED <<program, waiting_threads, allocated_threads, cur_numthreads, idstack, created, acq,
                     local_id, team, saved, woken>>
    BY DEF WorkerJoin, Goto, counters, threadVars
<1>2. PoolTypes /\ TeamInv /\ MasterAt(t)
    BY DEF PoolInv, TeamInv
<1>3. WorksFor(t) = x /\ x \in InTeams /\ t \in Workers(x) /\ t \notin woken /\ t \in BusyIn(x)
    BY <1>1, <1>2 DEF TeamInv, Employed, WorksFor, Busy, BusyIn
<1>4. x \in DOMAIN teams /\ teams[x] \in TeamRecord
    BY <1>2, <1>3 DEF InTeams, PoolTypes
<1>5. /\ teams[x].working_threads = 1 + Cardinality(BusyIn(x))
      /\ IsFiniteSet(BusyIn(x)) /\ Cardinality(BusyIn(x)) \in Nat
      /\ Cardinality(BusyIn(x) \ {t}) = Cardinality(BusyIn(x)) - 1
      /\ Cardinality(BusyIn(x) \ {t}) \in Nat
    BY <1>2, <1>3, <1>4, WorkersType, FS_CardinalityType, FS_RemoveElement DEF TeamInv, WorkCounted
<1>6. /\ DOMAIN teams' = DOMAIN teams
      /\ \A y \in DOMAIN teams : y # x => teams'[y] = teams[y]
      /\ teams'[x] = [teams[x] EXCEPT !.working_threads = @ - 1]
    BY <1>1, <1>4
<1>7. /\ teams'[x] \in TeamRecord /\ teams'[x].members = teams[x].members
      /\ teams'[x].working_threads = teams[x].working_threads - 1
    BY <1>4, <1>6 DEF TeamRecord
<1>8. PoolTypes'
  <2>1. teams' \in [DOMAIN teams' -> TeamRecord]
    BY <1>1, <1>2, <1>4, <1>7 DEF PoolTypes
  <2> QED
    BY <1>1, <1>2, <1>6, <2>1 DEF PoolTypes
<1>9. pc'[t] = "wait" /\ \A u \in Thread : u # t => pc'[u] = pc[u]
    BY <1>1, <1>2 DEF PoolTypes
<1>10. InTeams' = InTeams
  <2>1. teams'[x].working_threads > 0
    BY <1>5, <1>7
  <2>2. InTeams' = {y \in DOMAIN teams : teams'[y].working_threads > 0}
    BY <1>6 DEF InTeams
  <2>3. \A y \in DOMAIN teams : teams'[y].working_threads > 0 <=> y \in InTeams
    BY <1>3, <1>6, <2>1 DEF InTeams
  <2>4. InTeams \subseteq DOMAIN teams
    BY DEF InTeams
  <2> QED
    BY <2>2, <2>3, <2>4
<1>11. \A y \in InTeams : Workers(y)' = Workers(y) /\ teams'[y].members = teams[y].members
  <2>1. \A y \in InTeams : teams'[y].members = teams[y].members
    BY <1>6, <1>7 DEF InTeams
  <2> QED
    BY <2>1 DEF Workers
<1>12. \A u \in Thread : WorksFor(u)' = WorksFor(u)
    BY <1>1 DEF WorksFor
<1>13. \A u \in Thread : /\ Busy(u)' <=> (Busy(u) /\ u # t)
                         /\ pc'[u] # "wait" => u \notin woken'
    BY <1>1, <1>2, <1>3, <1>9 DEF Busy, TeamInv, Employed
<1>14. MasterAt(t)'
    BY <1>1, <1>2, <1>9 DEF MasterAt, Acquiring, WorksFor
<1>15. \A u \in Thread : MasterAt(u)'
    BY <1>1, <1>6, <1>9, <1>10, <1>14, MasterKeep
<1>16. TeamDepths'
    BY <1>1, <1>2, <1>6, <1>9 DEF TeamInv, TeamDepths, PoolTypes, TeamId, Acquiring
<1>17. StackFree'
    BY <1>1, <1>2, <1>9 DEF TeamInv, StackFree, PoolTypes
<1>18. WorkersRight'
    BY <1>1, <1>2, <1>10, <1>11 DEF TeamInv, WorkersRight, WorkerOf, WorksFor
<1>19. Employed'
  <2>1. WorksFor(main)' = NoTeam
    BY <1>1, <1>2 DEF TeamInv, Employed, WorksFor
  <2>2. ASSUME NEW u \in Thread, u # main, Busy(u)'
        PROVE  WorksFor(u)' \in InTeams' /\ u \in Workers(WorksFor(u))'
    <3>1. WorksFor(u) \in InTeams /\ u \in Workers(WorksFor(u)) /\ WorksFor(u)' = WorksFor(u)
        BY <1>2, <1>12, <1>13, <2>2 DEF TeamInv, Employed
    <3>2. Workers(WorksFor(u))' = Workers(WorksFor(u))
        BY <1>11, <3>1 DEF Workers
    <3> QED
        BY <1>10, <3>1, <3>2
  <2> QED
    BY <1>13, <2>1, <2>2 DEF Employed
<1>20. WorkCounted'
  <2>1. ASSUME NEW y \in InTeams PROVE teams'[y].working_threads = 1 + Cardinality(BusyIn(y)')
    <3>1. Workers(y) \subseteq Thread /\ Workers(y)' = Workers(y)
        BY <1>2, <1>11, WorkersType DEF InTeams
    <3>2. BusyIn(y)' = BusyIn(y) \ {t}
        BY <1>13, <3>1 DEF BusyIn
    <3>3. CASE y = x
        BY <1>5, <1>7, <3>2, <3>3
    <3>4. CASE y # x
      <4>1. t \notin Workers(y)
        BY <1>2, <1>3, <3>4 DEF TeamInv, WorkersRight, WorkerOf, Workers
      <4>2. BusyIn(y)' = BusyIn(y)
        BY <3>2, <4>1 DEF BusyIn
      <4> QED
        BY <1>2, <1>6, <3>4, <4>2 DEF TeamInv, WorkCounted, InTeams
    <3> QED
        BY <3>3, <3>4
  <2> QED
    BY <1>10, <2>1 DEF WorkCounted
<1>21. Working' = Working
    BY <1>10, <1>11 DEF Working
<1> QED
    BY <1>8, <1>15, <1>16, <1>17, <1>18, <1>19, <1>20, <1>21 DEF TeamInv

LEMMA ReleaseCountTeams ==
    ASSUME PoolInv, NEW t \in Thread, ReleaseCount(t)
    PROVE  TeamInv' /\ PoolTypes' /\ Working' = Working
<1> DEFINE x == team[t]
           L == Len(saved[t])
           old == saved[t][L]
<1>1. /\ pc[t] = "release" /\ pc' = [pc EXCEPT ![t] = "work"]
      /\ waiting_threads' = waiting_threads + (Len(teams[x].members) - 1)
      /\ teams' = [y \in (DOMAIN teams) \ {x} |-> teams[y]]
      /\ team' = [team EXCEPT ![t] = old.team]
      /\ local_id' = [local_id EXCEPT ![t] = old.local_id]
      /\ saved' = [saved EXCEPT ![t] = SubSeq(@, 1, Len(@) - 1)]
      /\ UNCHANGED <<program, allocated_threads, cur_numthreads, idstack, created, acq, woken>>
    BY DEF ReleaseCount, Goto
<1>2. PoolTypes /\ TeamInv /\ MasterAt(t)
    BY DEF PoolInv, TeamInv
<1>3. /\ saved[t] \in Seq(SavedRecord) /\ saved[t] # <<>>
      /\ x = [master |-> t, depth |-> L] /\ x \in DOMAIN teams /\ x \notin InTeams
    BY <1>1, <1>2 DEF MasterAt, PoolTypes, ForkedTeam
<1>4. L \in Nat /\ L >= 1 /\ old \in SavedRecord
    BY <1>3
<1>5. old.team \in TeamId /\ old.local_id \in Int
    BY <1>4 DEF SavedRecord
<1>6. /\ saved'[t] = SubSeq(saved[t], 1, L - 1) /\ saved'[t] \in Seq(SavedRecord)
      /\ Len(saved'[t]) = L - 1
      /\ \A k \in 1 .. L - 1 : saved'[t][k] = saved[t][k]
  <2>1. saved'[t] = SubSeq(saved[t], 1, L - 1)
    BY <1>1, <1>2 DEF PoolTypes
  <2> QED
    BY <1>3, <1>4, <2>1
<1>7. pc'[t] = "work" /\ team'[t] = old.team /\ local_id'[t] = old.local_id
    BY <1>1, <1>2 DEF PoolTypes
<1>8. \A u \in Thread : u # t => /\ pc'[u] = pc[u] /\ saved'[u] = saved[u]
                                 /\ local_id'[u] = local_id[u] /\ team'[u] = team[u]
    BY <1>1, <1>2 DEF PoolTypes
<1> HIDE DEF old
<1>9. DOMAIN teams' = (DOMAIN teams) \ {x} /\ \A y \in DOMAIN teams' : teams'[y] = teams[y]
    BY <1>1
<1>10. InTeams' = InTeams
    BY <1>3, <1>9 DEF InTeams
<1>11. \A y \in InTeams : teams'[y] = teams[y]
    BY <1>3, <1>9 DEF InTeams
<1>12. PoolTypes'
  <2>1. teams' \in [DOMAIN teams' -> TeamRecord] /\ DOMAIN teams' \subseteq TeamId \ {NoTeam}
    BY <1>2, <1>9, <1>1 DEF PoolTypes
  <2>2. saved' \in [Thread -> Seq(SavedRecord)]
    BY <1>1, <1>2, <1>6 DEF PoolTypes
  <2>3. waiting_threads' \in Int
    BY <1>1, <1>2, <1>3, WorkersType DEF PoolTypes
  <2>4. team' \in [Thread -> TeamId] /\ local_id' \in [Thread -> Int]
    BY <1>1, <1>2, <1>5 DEF PoolTypes
  <2> QED
    BY <1>1, <1>2, <2>1, <2>2, <2>3, <2>4 DEF PoolTypes
<1>13. /\ saved'[t] = <<>> => L = 1 /\ old = saved[t][1]
       /\ saved'[t] # <<>> => L >= 2 /\ saved'[t][1] = saved[t][1]
  <2>1. \A s \in Seq(SavedRecord) : s = <<>> <=> Len(s) = 0
    OBVIOUS
  <2>2. saved'[t] = <<>> <=> Len(saved'[t]) = 0
    BY <1>6, <2>1
  <2> HIDE DEF L
  <2>3. saved'[t] = <<>> <=> L = 1
    BY <1>4, <1>6, <2>2
  <2>4. L = 1 \/ (L >= 2 /\ 1 \in 1 .. L - 1)
    BY <1>4
  <2> QED
    BY <1>6, <2>3, <2>4 DEF old
<1>14. \A u \in Thread : /\ WorksFor(u)' = WorksFor(u)
                         /\ Busy(u)' <=> Busy(u)
                         /\ pc'[u] # "wait" => u \notin woken'
  <2>1. WorksFor(t)' = WorksFor(t)
    BY <1>3, <1>7, <1>13 DEF WorksFor
  <2> QED
    BY <1>1, <1>2, <1>7, <1>8, <2>1 DEF WorksFor, Busy, TeamInv, Employed
<1>15. MasterAt(t)'
  <2>1. \A k \in 2 .. L : /\ saved[t][k].team = [master |-> t, depth |-> k - 1]
                          /\ saved[t][k].team \in DOMAIN teams /\ k - 1 # L
    BY <1>2, <1>4 DEF MasterAt
  <2>2. \A k \in 2 .. L : saved[t][k].team \in DOMAIN teams'
    <3> HIDE DEF L
    <3>1. ASSUME NEW k \in 2 .. L PROVE saved[t][k].team # x
      <4>1. x.depth = L
        BY <1>3
      <4>2. saved[t][k].team = [master |-> t, depth |-> k - 1] /\ k - 1 # L
        BY <2>1
      <4>3. saved[t][k].team.depth = k - 1
        BY <4>2
      <4> QED
        BY <4>1, <4>2, <4>3
    <3> QED
        BY <1>9, <2>1, <3>1
  <2>3. saved'[t] # <<>> => team'[t] = ForkedTeam(t)' /\ team'[t] \in DOMAIN teams'
    <3>1. saved'[t] # <<>> => L \in 2 .. L
        BY <1>4, <1>13
    <3>2. ForkedTeam(t)' = [master |-> t, depth |-> L - 1]
        BY <1>6 DEF ForkedTeam
    <3> HIDE DEF L
    <3> QED
        BY <1>7, <2>1, <2>2, <3>1, <3>2 DEF old
  <2>4. \A k \in 2 .. Len(saved'[t]) :
          /\ saved'[t][k].team = [master |-> t, depth |-> k - 1]
          /\ saved'[t][k].team \in DOMAIN teams'
    BY <1>4, <1>6, <2>1, <2>2
  <2> QED
    BY <1>7, <2>3, <2>4 DEF MasterAt, Acquiring
<1>16. \A u \in Thread : MasterAt(u)'
  <2>1. x.master = t
    BY <1>3
  <2> QED
    BY <1>8, <1>9, <1>10, <1>15, <2>1, MasterKeep
<1>17. TeamDepths'
  <2>1. ASSUME NEW y \in DOMAIN teams'
        PROVE  /\ 1 <= y.depth /\ y.depth <= Len(saved'[y.master])
               /\ pc'[y.master] \in Acquiring => y.depth < Len(saved'[y.master])
    <3>1. y \in TeamId /\ y.master \in Thread /\ y.depth \in Nat /\ y # x
        BY <1>2, <1>9 DEF PoolTypes, TeamId
    <3>2. /\ 1 <= y.depth /\ y.depth <= Len(saved[y.master])
          /\ pc[y.master] \in Acquiring => y.depth < Len(saved[y.master])
        BY <1>2, <1>9 DEF TeamInv, TeamDepths
    <3>3. CASE y.master = t
      <4>1. y.depth # L
        BY <1>3, <3>1, <3>3 DEF TeamId
      <4>2. y.depth <= L - 1
        BY <1>4, <3>1, <3>2, <3>3, <4>1
      <4> QED
        BY <1>6, <1>7, <3>2, <3>3, <4>2 DEF Acquiring
    <3>4. CASE y.master # t
        BY <1>8, <3>1, <3>2, <3>4
    <3> QED
        BY <3>3, <3>4
  <2> QED
    BY <2>1 DEF TeamDepths
<1>18. \A i \in DOMAIN idstack : idstack[i] \in Thread /\ idstack[i] # t
    BY <1>1, <1>2 DEF PoolTypes, TeamInv, StackFree
<1>19. StackFree'
    BY <1>1, <1>2, <1>8, <1>18 DEF TeamInv, StackFree
<1>20. WorkersRight'
  <2>1. ASSUME NEW y \in InTeams, NEW i \in 2 .. Len(teams[y].members) PROVE WorkerOf(y, i)'
    <3> DEFINE u == teams[y].members[i]
    <3>1. u \in Thread
        BY WorkersType, <1>2 DEF InTeams
    <3>2. WorkerOf(y, i) /\ teams'[y] = teams[y]
        BY <1>2, <1>11 DEF TeamInv, WorkersRight
    <3>3. CASE u = t
        BY <1>1, <1>3, <1>7, <1>13, <1>14, <3>1, <3>2, <3>3 DEF WorkerOf
    <3>4. CASE u # t
        BY <1>1, <1>8, <1>14, <3>1, <3>2, <3>4 DEF WorkerOf
    <3> QED
        BY <3>3, <3>4
  <2> QED
    BY <1>2, <1>10, <1>11, <2>1 DEF TeamInv, WorkersRight
<1>21. Employed' /\ WorkCounted'
    BY <1>10, <1>11, <1>14, StableWork
<1>22. Working' = Working
    BY <1>10, <1>11 DEF Working
<1> QED
    BY <1>12, <1>16, <1>17, <1>19, <1>20, <1>21, <1>22 DEF TeamInv

\* q is s followed by r, element by element.
Concatenated(q, s, r) ==
    /\ Len(q) = Len(s) + Len(r)
    /\ \A i \in 1 .. Len(s) : q[i] = s[i]
    /\ \A i \in 1 .. Len(r) : q[Len(s) + i] = r[i]
    /\ \A i \in 1 .. Len(q) :
         i \in 1 .. Len(s) \/ (i - Len(s) \in 1 .. Len(r) /\ i = Len(s) + (i - Len(s)))

LEMMA ConcatFacts ==
    ASSUME NEW S, NEW s \in Seq(S), NEW r \in Seq(S)
    PROVE  s \o r \in Seq(S) /\ Concatenated(s \o r, s, r)
BY DEF Concatenated

LEMMA ReleaseTeams ==
    ASSUME PoolInv, NEW t \in Thread, Release(t)
    PROVE  /\ TeamInv' /\ PoolTypes'
           /\ Grows(Working', Working, Len(teams[team[t]].members) - 1)
           /\ Len(idstack') = Len(idstack) + (Len(teams[team[t]].members) - 1)
<1> DEFINE x == team[t]
           m == teams[x].members
           n == Len(m)
           W == Workers(x)
           pushed == [i \in 1 .. n - 1 |-> m[n - i + 1]]
<1>1. /\ pc[t] = "work" /\ pc' = [pc EXCEPT ![t] = "release"]
      /\ saved[t] # <<>> /\ teams[x].working_threads = 1
      /\ teams' = [teams EXCEPT ![x].working_threads = 0]
      /\ idstack' = idstack \o pushed
      /\ local_id' = [u \in Thread |-> IF u \in W THEN -1 ELSE local_id[u]]
      /\ team' = [u \in Thread |-> IF u \in W THEN NoTeam ELSE team[u]]
      /\ cur_numthreads' = cur_numthreads - (n - 1)
      /\ UNCHANGED <<program, waiting_threads, allocated_threads, created, acq, saved, woken>>
    BY DEF Release, Goto, Workers
<1>2. PoolTypes /\ TeamInv /\ MasterAt(t)
    BY DEF PoolInv, TeamInv
<1>3. x \in DOMAIN teams /\ x \in InTeams /\ teams[x] \in TeamRecord /\ x = ForkedTeam(t)
    BY <1>1, <1>2 DEF MasterAt, InTeams, PoolTypes
<1>4. /\ m \in Seq(Thread) /\ n \in Nat /\ n > 0
      /\ \A i \in 1 .. n : m[i] \in Thread
      /\ W \subseteq Thread /\ IsFiniteSet(BusyIn(x))
    BY <1>2, <1>3, WorkersType DEF TeamInv, WorkersRight
<1>5. BusyIn(x) = {}
  <2>1. Cardinality(BusyIn(x)) = 0
    BY <1>1, <1>2, <1>3, <1>4, FS_CardinalityType DEF TeamInv, WorkCounted
  <2> QED
    BY <1>4, <2>1, FS_EmptySet
<1>6. \A u \in W : pc[u] = "wait" /\ u \notin woken /\ saved[u] = <<>> /\ u # t
    BY <1>1, <1>2, <1>4, <1>5 DEF BusyIn, Busy, TeamInv, MasterAt
<1>7. \A i \in 2 .. n : /\ m[i] \in W /\ local_id[m[i]] = i - 1 /\ WorksFor(m[i]) = x /\ m[i] # main
                        /\ \A j \in DOMAIN idstack : idstack[j] # m[i]
  <2>1. \A i \in 2 .. n : WorkerOf(x, i) /\ m[i] \in W
    BY <1>2, <1>3 DEF TeamInv, WorkersRight, Workers
  <2> QED
    BY <1>6, <2>1 DEF WorkerOf
<1>8. \A i, j \in 2 .. n : m[i] = m[j] => i = j
    BY <1>7
<1>9. W = {m[i] : i \in 2 .. n}
    BY DEF Workers
<1> HIDE DEF m, W
<1>10. /\ pushed \in Seq(Thread) /\ Len(pushed) = n - 1
       /\ \A i \in 1 .. n - 1 : n - i + 1 \in 2 .. n /\ pushed[i] = m[n - i + 1] /\ pushed[i] \in W
  <2>1. \A i \in 1 .. n - 1 : n - i + 1 \in 2 .. n /\ n - i + 1 \in 1 .. n
    BY <1>4
  <2>2. n - 1 \in Nat
    BY <1>4
  <2> QED
    BY <1>4, <1>7, <2>1, <2>2
<1>11. /\ DOMAIN teams' = DOMAIN teams
       /\ \A y \in DOMAIN teams : y # x => teams'[y] = teams[y]
       /\ teams'[x] = [teams[x] EXCEPT !.working_threads = 0]
    BY <1>1, <1>3
<1>12. /\ teams'[x] \in TeamRecord /\ teams'[x].working_threads = 0
    BY <1>3, <1>11 DEF TeamRecord
<1>13. InTeams' = InTeams \ {x}
  <2>1. InTeams' = {y \in DOMAIN teams : teams'[y].working_threads > 0}
    BY <1>11 DEF InTeams
  <2>2. ~(teams'[x].working_threads > 0)
    BY <1>12
  <2>3. \A y \in DOMAIN teams : teams'[y].working_threads > 0 <=> y \in InTeams /\ y # x
    BY <1>3, <1>11, <2>2 DEF InTeams
  <2>4. InTeams \subseteq DOMAIN teams
    BY DEF InTeams
  <2> QED
    BY <2>1, <2>3, <2>4
<1>14. /\ idstack \in Seq(Thread) /\ idstack' \in Seq(Thread)
       /\ Len(idstack') = Len(idstack) + (n - 1)
       /\ \A i \in 1 .. Len(idstack) : idstack'[i] = idstack[i]
       /\ \A i \in 1 .. n - 1 : idstack'[Len(idstack) + i] = pushed[i]
       /\ \A i \in DOMAIN idstack' : i \notin 1 .. Len(idstack) =>
            i - Len(idstack) \in 1 .. n - 1 /\ i = Len(idstack) + (i - Len(idstack))
       /\ DOMAIN idstack = 1 .. Len(idstack)
  <2>1. idstack \in Seq(Thread) /\ idstack' = idstack \o pushed
    BY <1>1, <1>2 DEF PoolTypes
  <2>2. Len(pushed) = n - 1 /\ pushed \in Seq(Thread)
    BY <1>10
  <2> HIDE DEF pushed, n
  <2>3. idstack' \in Seq(Thread) /\ Concatenated(idstack', idstack, pushed)
    BY <2>1, <2>2, ConcatFacts
  <2>4. DOMAIN idstack' = 1 .. Len(idstack') /\ DOMAIN idstack = 1 .. Len(idstack)
    BY <2>1, <2>3
  <2> QED
    BY <2>1, <2>2, <2>3, <2>4, Zenon DEF Concatenated
<1> HIDE DEF pushed
<1>15. PoolTypes'
  <2>1. teams' \in [DOMAIN teams' -> TeamRecord]
    BY <1>1, <1>2, <1>3, <1>12 DEF PoolTypes
  <2>2. team' \in [Thread -> TeamId] /\ local_id' \in [Thread -> Int]
    <3>1. NoTeam \in TeamId
        BY PoolAssumption DEF NoTeam, TeamId, main, Thread
    <3> QED
        BY <1>1, <1>2, <3>1 DEF PoolTypes
  <2>3. cur_numthreads' \in Int /\ pc' \in [Thread -> Acquiring \cup {"work", "wait", "release"}]
    BY <1>1, <1>2, <1>4 DEF PoolTypes
  <2> QED
    BY <1>1, <1>2, <1>11, <1>14, <2>1, <2>2, <2>3 DEF PoolTypes
<1>16. pc'[t] = "release" /\ \A u \in Thread : u # t => pc'[u] = pc[u]
    BY <1>1, <1>2 DEF PoolTypes
<1>17. /\ \A u \in Thread \ W : team'[u] = team[u] /\ local_id'[u] = local_id[u]
       /\ \A u \in W : team'[u] = NoTeam /\ local_id'[u] = -1
       /\ t \notin W
    BY <1>1, <1>4, <1>6
<1>18. \A y \in InTeams' : /\ Workers(y)' = Workers(y) /\ teams'[y] = teams[y]
                           /\ y # x /\ y \in InTeams /\ Workers(y) \subseteq Thread
                           /\ \A u \in Workers(y) : u \notin W
  <2>1. ASSUME NEW y \in InTeams' PROVE y # x /\ y \in InTeams /\ teams'[y] = teams[y]
    BY <1>11, <1>13 DEF InTeams
  <2>2. ASSUME NEW y \in InTeams', NEW u \in Workers(y) PROVE u \notin W
    <3>1. WorksFor(u) = y
        BY <1>2, <2>1 DEF TeamInv, WorkersRight, WorkerOf, Workers
    <3> QED
        BY <1>7, <1>9, <2>1, <3>1
  <2>3. ASSUME NEW y \in InTeams' PROVE Workers(y)' = Workers(y) /\ Workers(y) \subseteq Thread
    <3>1. y \in DOMAIN teams /\ teams'[y] = teams[y]
        BY <2>1 DEF InTeams
    <3> QED
        BY <1>2, <3>1, WorkersType DEF Workers
  <2> QED
    BY <2>1, <2>2, <2>3
<1>19. \A u \in Thread : /\ u \notin W => WorksFor(u)' = WorksFor(u)
                         /\ u \in W => WorksFor(u)' = NoTeam
                         /\ Busy(u)' <=> Busy(u)
                         /\ Busy(u) => u \notin W
                         /\ pc'[u] # "wait" => u \notin woken'
    BY <1>1, <1>2, <1>6, <1>16, <1>17 DEF WorksFor, Busy, TeamInv, Employed
<1>20. ASSUME NEW u \in Thread PROVE MasterAt(u)'
  <2>1. CASE u = t
    <3>1. team'[t] = x /\ ForkedTeam(t)' = ForkedTeam(t)
        BY <1>1, <1>17 DEF ForkedTeam
    <3>2. \A k \in 2 .. Len(saved[t]) :
            /\ saved[t][k].team = [master |-> t, depth |-> k - 1]
            /\ saved[t][k].team \in DOMAIN teams
        BY <1>2 DEF MasterAt
    <3> QED
        BY <1>1, <1>3, <1>11, <1>13, <1>16, <2>1, <3>1, <3>2 DEF MasterAt, Acquiring
  <2>2. CASE u \in W
    <3>1. pc'[u] = "wait" /\ saved'[u] = <<>> /\ u # main
        BY <1>1, <1>2, <1>6, <1>16, <2>2 DEF TeamInv, MasterAt
    <3> QED
        BY <3>1 DEF MasterAt, Acquiring, WorksFor
  <2>3. CASE u # t /\ u \notin W
    BY <1>1, <1>11, <1>13, <1>16, <1>17, <2>3, MasterKeep
  <2> QED
    BY <2>1, <2>2, <2>3
<1>21. TeamDepths'
    BY <1>1, <1>2, <1>11, <1>16 DEF TeamInv, TeamDepths, PoolTypes, TeamId, Acquiring
<1>22. WorkersRight'
  <2>1. ASSUME NEW y \in InTeams', NEW i \in 2 .. Len(teams[y].members) PROVE WorkerOf(y, i)'
    <3> DEFINE u == teams[y].members[i]
    <3>1. u \in Workers(y) /\ u \in Thread /\ u \notin W /\ WorkerOf(y, i) /\ teams'[y] = teams[y]
        BY <1>2, <1>18 DEF TeamInv, WorkersRight, Workers
    <3>2. \A j \in DOMAIN idstack' : idstack'[j] # u
      <4>1. ASSUME NEW j \in DOMAIN idstack' PROVE idstack'[j] # u
        <5>1. CASE j \in 1 .. Len(idstack)
            BY <1>14, <3>1, <5>1 DEF WorkerOf
        <5>2. CASE j \notin 1 .. Len(idstack)
          <6>1. j - Len(idstack) \in 1 .. n - 1 /\ j = Len(idstack) + (j - Len(idstack))
            BY <1>14, <5>2
          <6>2. idstack'[j] = pushed[j - Len(idstack)] /\ pushed[j - Len(idstack)] \in W
            BY <1>10, <1>14, <6>1, Zenon
          <6> QED
            BY <3>1, <6>2
        <5> QED
            BY <5>1, <5>2
      <4> QED
        BY <4>1
    <3> QED
        BY <1>1, <1>17, <1>19, <3>1, <3>2 DEF WorkerOf
  <2> QED
    BY <1>2, <1>18, <2>1 DEF TeamInv, WorkersRight
<1>23. Employed'
  <2>1. WorksFor(main)' = NoTeam
    <3>1. main \in Thread
        BY PoolAssumption DEF main, Thread
    <3> QED
        BY <1>2, <1>19, <3>1 DEF TeamInv, Employed
  <2>2. ASSUME NEW u \in Thread, u # main, Busy(u)'
        PROVE  WorksFor(u)' \in InTeams' /\ u \in Workers(WorksFor(u))'
    <3>1. WorksFor(u) \in InTeams /\ u \in Workers(WorksFor(u)) /\ WorksFor(u)' = WorksFor(u) /\ u \notin W
        BY <1>2, <1>19, <2>2 DEF TeamInv, Employed
    <3>2. WorksFor(u) # x
        BY <3>1 DEF W
    <3>3. WorksFor(u) \in InTeams' /\ teams'[WorksFor(u)] = teams[WorksFor(u)]
        BY <1>13, <1>18, <3>1, <3>2
    <3>4. Workers(WorksFor(u))' = Workers(WorksFor(u))
        BY <3>1, <3>3 DEF Workers
    <3> QED
        BY <3>1, <3>3, <3>4
  <2> QED
    BY <1>19, <2>1, <2>2 DEF Employed
<1>24. WorkCounted'
  <2>1. ASSUME NEW y \in InTeams' PROVE teams'[y].working_threads = 1 + Cardinality(BusyIn(y)')
    <3>1. BusyIn(y)' = BusyIn(y)
        BY <1>18, <1>19 DEF BusyIn
    <3> QED
        BY <1>2, <1>18, <3>1 DEF TeamInv, WorkCounted
  <2> QED
    BY <2>1 DEF WorkCounted
<1>25. StackFree'
  <2>1. \A i \in DOMAIN idstack' : \/ i \in DOMAIN idstack /\ idstack'[i] = idstack[i]
                                   \/ /\ i - Len(idstack) \in 1 .. n - 1
                                      /\ idstack'[i] = pushed[i - Len(idstack)]
                                      /\ idstack'[i] \in W
    <3>1. ASSUME NEW i \in DOMAIN idstack', i \notin DOMAIN idstack
          PROVE  /\ i - Len(idstack) \in 1 .. n - 1
                 /\ idstack'[i] = pushed[i - Len(idstack)]
                 /\ idstack'[i] \in W
      <4>1. i - Len(idstack) \in 1 .. n - 1 /\ i = Len(idstack) + (i - Len(idstack))
        BY <1>14, <3>1
      <4> QED
        BY <1>10, <1>14, <4>1
    <3>2. ASSUME NEW i \in DOMAIN idstack PROVE idstack'[i] = idstack[i]
        BY <1>14
    <3> QED
        BY <3>1, <3>2
  <2>2. \A i \in DOMAIN idstack : /\ idstack[i] \in Thread /\ idstack[i] # t /\ idstack[i] \notin W
                                  /\ pc[idstack[i]] = "wait" /\ idstack[i] \notin woken
                                  /\ local_id[idstack[i]] = -1 /\ team[idstack[i]] = NoTeam
    BY <1>1, <1>2, <1>7, <1>9, <1>14 DEF TeamInv, StackFree
  <2>3. ASSUME NEW i \in DOMAIN idstack'
        PROVE  /\ pc'[idstack'[i]] = "wait" /\ idstack'[i] \notin woken'
               /\ local_id'[idstack'[i]] = -1 /\ team'[idstack'[i]] = NoTeam
    BY <1>1, <1>4, <1>6, <1>16, <1>17, <2>1, <2>2
  <2>4. ASSUME NEW i \in DOMAIN idstack', NEW j \in DOMAIN idstack', idstack'[i] = idstack'[j]
        PROVE  i = j
    <3>1. CASE i \in DOMAIN idstack /\ j \in DOMAIN idstack
        BY <1>2, <1>14, <2>4, <3>1 DEF TeamInv, StackFree
    <3>2. CASE i \notin DOMAIN idstack /\ j \notin DOMAIN idstack
      <4>1. m[n - (i - Len(idstack)) + 1] = m[n - (j - Len(idstack)) + 1]
        BY <1>10, <2>1, <2>4, <3>2
      <4>2. n - (i - Len(idstack)) + 1 = n - (j - Len(idstack)) + 1
        BY <1>8, <1>10, <2>1, <3>2, <4>1
      <4>3. i \in Int /\ j \in Int /\ Len(idstack) \in Nat
        BY <1>14
      <4> QED
        BY <1>4, <4>2, <4>3
    <3> QED
        BY <2>1, <2>2, <2>4, <3>1, <3>2
  <2> QED
    BY <2>3, <2>4 DEF StackFree
<1>26. Grows(Working', Working, n - 1)
  <2>1. Working' = UNION {Workers(y)' : y \in InTeams'}
    BY DEF Working, Workers
  <2>2. Working' = UNION {Workers(y) : y \in InTeams'}
    BY <1>18, <2>1
  <2>3. Working = Working' \cup W /\ W \cap Working' = {}
    BY <1>3, <1>13, <1>18, <2>2, WorkingIs DEF W
  <2>4. Cardinality(W) = n - 1
    <3> DEFINE f == [i \in 2 .. n |-> m[i]]
    <3>1. f \in Bijection(2 .. n, W)
        BY <1>8, <1>9 DEF Bijection, Injection, IsInjective, Surjection
    <3>2. IsFiniteSet(2 .. n) /\ Cardinality(2 .. n) = n - 1
        BY <1>4, FS_Interval
    <3> HIDE DEF f, n
    <3> QED
        BY <3>1, <3>2, FS_Bijection DEF ExistsBijection
  <2> QED
    BY <1>4, <2>3, <2>4 DEF Grows
<1> QED
    BY <1>14, <1>15, <1>20, <1>21, <1>22, <1>23, <1>24, <1>25, <1>26 DEF TeamInv, m

LEMMA AssignTeams ==
    ASSUME PoolInv, NEW t \in Thread, Assign(t)
    PROVE  /\ TeamInv' /\ PoolTypes'
           /\ Grows(Working, Working', acq[t].count - 1)
           /\ Len(idstack') = Len(idstack) - (acq[t].count - 1)
<1> DEFINE x == ForkedTeam(t)
           n == acq[t].count
           d == Len(idstack)
           popped == [i \in 1 .. n - 1 |-> idstack[d - i + 1]]
           W == {popped[i] : i \in 1 .. n - 1}
           Id(u) == CHOOSE i \in 1 .. n - 1 : popped[i] = u
           new == [members |-> <<t>> \o popped, working_threads |-> n,
                   level |-> Level(team[t]) + 1]
<1>1. /\ pc[t] = "assign" /\ pc' = [pc EXCEPT ![t] = "work"]
      /\ n > 0 /\ d >= n - 1
      /\ cur_numthreads' = cur_numthreads + (n - 1)
      /\ idstack' = SubSeq(idstack, 1, d - (n - 1))
      /\ local_id' = [u \in Thread |-> IF u \in W THEN Id(u) ELSE local_id[u]]
      /\ team' = [u \in Thread |-> IF u \in W \cup {t} THEN x ELSE team[u]]
      /\ teams' = [y \in (DOMAIN teams) \cup {x} |-> IF y = x THEN new ELSE teams[y]]
      /\ woken' = woken \cup W
      /\ acq' = [acq EXCEPT ![t] = NoAcq]
      /\ UNCHANGED <<program, waiting_threads, allocated_threads, created, saved>>
    BY DEF Assign, Goto
<1>2. PoolTypes /\ TeamInv /\ MasterAt(t)
    BY DEF PoolInv, TeamInv
<1>3. n \in Int /\ n - 1 \in Nat /\ d \in Nat /\ idstack \in Seq(Thread) /\ DOMAIN idstack = 1 .. d
  <2>1. acq[t] \in AcqRecord
    BY <1>2 DEF PoolTypes
  <2>2. n \in Int
    BY <2>1 DEF AcqRecord
  <2> QED
    BY <1>1, <1>2, <2>2 DEF PoolTypes
<1>4. /\ saved[t] # <<>> /\ saved[t] \in Seq(SavedRecord) /\ Len(saved[t]) \in Nat
      /\ Len(saved[t]) >= 1
    BY <1>1, <1>2 DEF MasterAt, PoolTypes, Acquiring
<1>5. x = [master |-> t, depth |-> Len(saved[t])] /\ x \in TeamId \ {NoTeam} /\ x \notin DOMAIN teams
  <2>1. x = [master |-> t, depth |-> Len(saved[t])]
    BY DEF ForkedTeam
  <2>2. x.master = t /\ x.depth = Len(saved[t])
    BY <2>1
  <2>3. x \in TeamId
    BY <1>4, <2>1 DEF TeamId
  <2>4. x # NoTeam
    <3>1. NoTeam.depth = 0
        BY DEF NoTeam
    <3> QED
        BY <1>4, <2>2, <3>1
  <2>5. x \notin DOMAIN teams
    BY <1>1, <1>2, <1>4, <2>2 DEF TeamInv, TeamDepths, Acquiring
  <2> QED
    BY <2>1, <2>3, <2>4, <2>5
<1> HIDE DEF x
<1>6. /\ popped \in Seq(Thread) /\ Len(popped) = n - 1
      /\ \A i \in 1 .. n - 1 : /\ d - i + 1 \in 1 .. d /\ d - i + 1 \notin 1 .. d - (n - 1)
                               /\ popped[i] = idstack[d - i + 1] /\ popped[i] \in Thread
                               /\ popped[i] \in W
  <2> HIDE DEF d, n
  <2>1. \A i \in 1 .. n - 1 : d - i + 1 \in 1 .. d /\ d - i + 1 \notin 1 .. d - (n - 1)
    BY <1>1, <1>3
  <2>2. \A i \in 1 .. n - 1 : idstack[d - i + 1] \in Thread
    BY <1>3, <2>1
  <2>3. popped \in [1 .. n - 1 -> Thread] /\ \A i \in 1 .. n - 1 : popped[i] = idstack[d - i + 1]
    BY <2>2
  <2> HIDE DEF popped
  <2>4. \A k \in Nat : \A f \in [1 .. k -> Thread] : f \in Seq(Thread) /\ Len(f) = k
    OBVIOUS
  <2>5. popped \in Seq(Thread) /\ Len(popped) = n - 1
    BY <1>3, <2>3, <2>4
  <2> QED
    BY <2>1, <2>2, <2>3, <2>5
<1>7. \A i, j \in 1 .. n - 1 : popped[i] = popped[j] => i = j
  <2>1. \A i, j \in 1 .. d : idstack[i] = idstack[j] => i = j
    BY <1>2, <1>3 DEF TeamInv, StackFree
  <2>2. ASSUME NEW i \in 1 .. n - 1, NEW j \in 1 .. n - 1, popped[i] = popped[j] PROVE i = j
    <3>1. d - i + 1 = d - j + 1
        BY <1>6, <2>1, <2>2, Zenon
    <3> QED
        BY <1>3, <3>1
  <2> QED
    BY <2>2
<1>8. /\ W \subseteq Thread
      /\ \A u \in W : /\ pc[u] = "wait" /\ u \notin woken /\ local_id[u] = -1 /\ team[u] = NoTeam
                      /\ saved[u] = <<>> /\ u # t /\ u # main
  <2>1. \A i \in 1 .. n - 1 : /\ popped[i] \in Thread
                              /\ pc[popped[i]] = "wait" /\ popped[i] \notin woken
                              /\ local_id[popped[i]] = -1 /\ team[popped[i]] = NoTeam
    BY <1>2, <1>3, <1>6, Zenon DEF TeamInv, StackFree
  <2>2. \A u \in W : \E i \in 1 .. n - 1 : u = popped[i]
    OBVIOUS
  <2> HIDE DEF W, popped
  <2>3. \A u \in W : /\ u \in Thread /\ pc[u] = "wait" /\ u \notin woken /\ local_id[u] = -1
                     /\ team[u] = NoTeam
    BY <2>1, <2>2
  <2> QED
    BY <1>1, <1>2, <2>3 DEF TeamInv, MasterAt
<1>9. \A i \in 1 .. n - 1 : Id(popped[i]) = i
    BY <1>7, Zenon
<1>10. /\ idstack' \in Seq(Thread) /\ Len(idstack') = d - (n - 1)
       /\ DOMAIN idstack' = 1 .. d - (n - 1) /\ DOMAIN idstack' \subseteq DOMAIN idstack
       /\ \A i \in DOMAIN idstack' : idstack'[i] = idstack[i]
  <2>1. d - (n - 1) \in 0 .. d
    BY <1>1, <1>3
  <2>2. \A k \in 0 .. d : /\ SubSeq(idstack, 1, k) \in Seq(Thread) /\ Len(SubSeq(idstack, 1, k)) = k
                          /\ \A i \in 1 .. k : SubSeq(idstack, 1, k)[i] = idstack[i]
    BY <1>3
  <2> HIDE DEF d, n
  <2>3. /\ idstack' \in Seq(Thread) /\ Len(idstack') = d - (n - 1)
        /\ \A i \in 1 .. d - (n - 1) : idstack'[i] = idstack[i]
    BY <1>1, <2>1, <2>2, Zenon
  <2>4. DOMAIN idstack' = 1 .. d - (n - 1)
    BY <2>3
  <2> QED
    BY <1>3, <2>1, <2>3, <2>4
<1>11. \A j \in DOMAIN idstack' : idstack'[j] \in Thread /\ idstack'[j] \notin W /\ idstack'[j] # t
  <2>1. ASSUME NEW j \in DOMAIN idstack', NEW i \in 1 .. n - 1, idstack'[j] = popped[i] PROVE FALSE
    <3>1. idstack[j] = idstack[d - i + 1] /\ j \in 1 .. d
        BY <1>3, <1>6, <1>10, <2>1
    <3>2. j = d - i + 1
        BY <1>2, <1>3, <1>6, <3>1 DEF TeamInv, StackFree
    <3> QED
        BY <1>6, <1>10, <3>2
  <2>2. \A j \in DOMAIN idstack' : idstack'[j] \in Thread /\ pc[idstack'[j]] = "wait"
    BY <1>2, <1>10 DEF TeamInv, StackFree
  <2> QED
    BY <1>1, <2>1, <2>2
<1>12. /\ new.members \in Seq(Thread) /\ Len(new.members) = n
       /\ \A i \in 2 .. n : i - 1 \in 1 .. n - 1 /\ new.members[i] = popped[i - 1]
       /\ new.working_threads = n /\ new \in TeamRecord
  <2> DEFINE q == <<t>> \o popped
  <2>1. <<t>> \in Seq(Thread) /\ Len(<<t>>) = 1
    OBVIOUS
  <2>2. popped \in Seq(Thread) /\ Len(popped) = n - 1
    BY <1>6
  <2> HIDE DEF n, popped
  <2>3. q \in Seq(Thread) /\ Concatenated(q, <<t>>, popped)
    BY <2>1, <2>2, ConcatFacts
  <2> HIDE DEF q
  <2>4. Len(q) = n
    BY <1>3, <2>1, <2>2, <2>3 DEF Concatenated
  <2>5. ASSUME NEW i \in 2 .. n PROVE i - 1 \in 1 .. n - 1 /\ q[i] = popped[i - 1]
    <3>1. i - 1 \in 1 .. n - 1 /\ i = 1 + (i - 1)
        BY <1>3
    <3>2. q[1 + (i - 1)] = popped[i - 1]
        BY <2>1, <2>2, <2>3, <3>1, Zenon DEF Concatenated
    <3> QED
        BY <3>1, <3>2
  <2>6. Level(team[t]) + 1 \in Nat
    BY <1>1, LevelType DEF Acquiring
  <2>7. new = [members |-> q, working_threads |-> n, level |-> Level(team[t]) + 1]
    BY DEF q
  <2> HIDE DEF new
  <2> QED
    BY <1>3, <2>3, <2>4, <2>5, <2>6, <2>7 DEF TeamRecord
<1> HIDE DEF new
<1>13. /\ DOMAIN teams' = (DOMAIN teams) \cup {x}
       /\ \A y \in DOMAIN teams : y # x /\ teams'[y] = teams[y]
       /\ teams'[x] = new
    BY <1>1, <1>5
<1>14. InTeams' = InTeams \cup {x} /\ x \notin InTeams
    BY <1>1, <1>5, <1>12, <1>13 DEF InTeams
<1>15. Workers(x)' = W /\ x' = x
  <2>1. x' = x
    BY <1>1 DEF x, ForkedTeam
  <2>2. \A i \in 1 .. n - 1 : i + 1 \in 2 .. n /\ i = (i + 1) - 1
    BY <1>3
  <2>3. teams'[x].members = new.members /\ Len(new.members) = n
    BY <1>12, <1>13
  <2>4. Workers(x)' = {new.members[i] : i \in 2 .. n}
    BY <2>1, <2>3 DEF Workers
  <2> HIDE DEF popped, n
  <2>5. {new.members[i] : i \in 2 .. n} = W
    <3>1. \A i \in 2 .. n : new.members[i] \in W
        BY <1>12
    <3>2. \A i \in 1 .. n - 1 : popped[i] = new.members[i + 1] /\ i + 1 \in 2 .. n
        BY <1>12, <2>2
    <3> QED
        BY <3>1, <3>2
  <2> QED
    BY <2>1, <2>4, <2>5
<1> HIDE DEF Id, popped, W, n, d
<1>16. PoolTypes'
  <2>1. teams' \in [DOMAIN teams' -> TeamRecord] /\ DOMAIN teams' \subseteq TeamId \ {NoTeam}
    BY <1>1, <1>2, <1>5, <1>12 DEF PoolTypes
  <2>2. team' \in [Thread -> TeamId]
    BY <1>1, <1>2, <1>5 DEF PoolTypes
  <2>3. local_id' \in [Thread -> Int]
    <3>1. \A u \in W : Id(u) \in Int
        BY <1>9 DEF W
    <3> QED
        BY <1>1, <1>2, <3>1 DEF PoolTypes
  <2>4. acq' \in [Thread -> AcqRecord]
    <3>1. NoAcq \in AcqRecord
        BY DEF NoAcq, AcqRecord
    <3> QED
        BY <1>1, <1>2, <3>1 DEF PoolTypes
  <2>5. /\ cur_numthreads' \in Int /\ woken' \subseteq Thread
        /\ pc' \in [Thread -> Acquiring \cup {"work", "wait", "release"}]
    BY <1>1, <1>2, <1>3, <1>8 DEF PoolTypes
  <2> QED
    BY <1>1, <1>2, <1>10, <2>1, <2>2, <2>3, <2>4, <2>5 DEF PoolTypes
<1>17. pc'[t] = "work" /\ \A u \in Thread : u # t => pc'[u] = pc[u]
    BY <1>1, <1>2 DEF PoolTypes
<1>18. /\ \A u \in Thread : u \notin W /\ u # t => team'[u] = team[u]
       /\ \A u \in Thread : u \notin W => local_id'[u] = local_id[u]
       /\ \A u \in W : team'[u] = x /\ local_id'[u] = Id(u)
       /\ team'[t] = x
    BY <1>1, <1>8
<1>19. \A u \in Thread : /\ u \notin W => WorksFor(u)' = WorksFor(u) /\ (Busy(u)' <=> Busy(u))
                         /\ u \in W => WorksFor(u)' = x /\ Busy(u)'
                         /\ pc'[u] # "wait" => u \notin woken'
    BY <1>1, <1>2, <1>4, <1>8, <1>17, <1>18 DEF WorksFor, Busy, TeamInv, Employed
<1>20. ASSUME NEW u \in Thread PROVE MasterAt(u)'
  <2>1. CASE u = t
    <3>1. team'[t] = ForkedTeam(t)' /\ team'[t] \in DOMAIN teams'
        BY <1>1, <1>13, <1>18 DEF ForkedTeam, x
    <3>2. \A k \in 2 .. Len(saved[t]) :
            /\ saved[t][k].team = [master |-> t, depth |-> k - 1]
            /\ saved[t][k].team \in DOMAIN teams'
        BY <1>2, <1>13 DEF MasterAt
    <3> QED
        BY <1>1, <1>17, <2>1, <3>1, <3>2 DEF MasterAt, Acquiring
  <2>2. CASE u \in W
    <3>1. pc'[u] = "wait" /\ saved'[u] = <<>> /\ u # main
        BY <1>1, <1>8, <1>17, <2>2
    <3> QED
        BY <3>1 DEF MasterAt, Acquiring, WorksFor
  <2>3. CASE u # t /\ u \notin W
    BY <1>1, <1>13, <1>14, <1>17, <1>18, <2>3, MasterKeep
  <2> QED
    BY <2>1, <2>2, <2>3
<1>21. TeamDepths'
  <2>1. ASSUME NEW y \in DOMAIN teams'
        PROVE  /\ 1 <= y.depth /\ y.depth <= Len(saved'[y.master])
               /\ pc'[y.master] \in Acquiring => y.depth < Len(saved'[y.master])
    <3>1. CASE y = x
      <4>1. y.master = t /\ y.depth = Len(saved[t])
        BY <1>5, <3>1
      <4> QED
        BY <1>1, <1>4, <1>17, <4>1 DEF Acquiring
    <3>2. CASE y \in DOMAIN teams
      <4>1. y.master \in Thread
        BY <1>2, <3>2 DEF PoolTypes, TeamId
      <4>2. /\ 1 <= y.depth /\ y.depth <= Len(saved[y.master])
            /\ pc[y.master] \in Acquiring => y.depth < Len(saved[y.master])
        BY <1>2, <3>2 DEF TeamInv, TeamDepths
      <4> QED
        BY <1>1, <1>17, <4>1, <4>2 DEF Acquiring
    <3> QED
        BY <1>13, <3>1, <3>2
  <2> QED
    BY <2>1 DEF TeamDepths
<1>22. StackFree'
  <2>1. ASSUME NEW i \in DOMAIN idstack'
        PROVE  /\ pc'[idstack'[i]] = "wait" /\ idstack'[i] \notin woken'
               /\ local_id'[idstack'[i]] = -1 /\ team'[idstack'[i]] = NoTeam
    <3>1. /\ pc[idstack'[i]] = "wait" /\ idstack'[i] \notin woken
          /\ local_id[idstack'[i]] = -1 /\ team[idstack'[i]] = NoTeam
        BY <1>2, <1>10 DEF TeamInv, StackFree
    <3> QED
        BY <1>1, <1>11, <1>17, <1>18, <3>1
  <2>2. ASSUME NEW i \in DOMAIN idstack', NEW j \in DOMAIN idstack', idstack'[i] = idstack'[j]
        PROVE  i = j
    BY <1>2, <1>10, <2>2 DEF TeamInv, StackFree
  <2> QED
    BY <2>1, <2>2 DEF StackFree
<1>23. \A y \in InTeams : /\ Workers(y)' = Workers(y) /\ teams'[y] = teams[y]
                          /\ Workers(y) \subseteq Thread
                          /\ \A u \in Workers(y) : u \notin W
  <2>1. ASSUME NEW y \in InTeams
        PROVE  Workers(y)' = Workers(y) /\ teams'[y] = teams[y] /\ Workers(y) \subseteq Thread
    <3>1. y \in DOMAIN teams /\ teams'[y] = teams[y]
        BY <1>13 DEF InTeams
    <3> QED
        BY <1>2, <3>1, WorkersType DEF Workers
  <2>2. ASSUME NEW y \in InTeams, NEW u \in Workers(y), u \in W PROVE FALSE
    <3>1. \A j \in DOMAIN idstack : idstack[j] # u
        BY <1>2 DEF TeamInv, WorkersRight, WorkerOf, Workers
    <3>2. PICK i \in 1 .. n - 1 : u = popped[i]
        BY <2>2 DEF W
    <3> QED
        BY <1>3, <1>6, <3>1, <3>2
  <2> QED
    BY <2>1, <2>2
<1>24. WorkersRight'
  <2>1. ASSUME NEW y \in InTeams, NEW i \in 2 .. Len(teams[y].members) PROVE WorkerOf(y, i)'
    <3> DEFINE u == teams[y].members[i]
    <3>1. u \in Workers(y) /\ u \in Thread /\ u \notin W /\ WorkerOf(y, i) /\ teams'[y] = teams[y]
        BY <1>2, <1>23 DEF TeamInv, WorkersRight, Workers
    <3>2. \A j \in DOMAIN idstack' : idstack'[j] # u
        BY <1>10, <3>1 DEF WorkerOf
    <3> QED
        BY <1>1, <1>18, <1>19, <3>1, <3>2 DEF WorkerOf
  <2>2. ASSUME NEW y, y = x, NEW i \in 2 .. n PROVE WorkerOf(y, i)'
    <3>1. PICK u \in W : teams'[y].members[i] = u /\ Id(u) = i - 1
        BY <1>6, <1>9, <1>12, <1>13, <2>2
    <3>2. u # main /\ WorksFor(u)' = x /\ saved'[u] = <<>> /\ local_id'[u] = i - 1
        BY <1>1, <1>8, <1>18, <1>19, <3>1
    <3>3. \A j \in DOMAIN idstack' : idstack'[j] # u
        BY <1>11
    <3> QED
        BY <2>2, <3>1, <3>2, <3>3 DEF WorkerOf
  <2>3. ASSUME NEW y \in InTeams', NEW i \in 2 .. Len(teams'[y].members)
        PROVE  Len(teams'[y].members) > 0 /\ WorkerOf(y, i)'
    <3>1. CASE y = x
        BY <1>1, <1>12, <1>13, <2>2, <3>1
    <3>2. CASE y \in InTeams
        BY <1>2, <1>23, <2>1, <3>2 DEF TeamInv, WorkersRight
    <3> QED
        BY <1>14, <3>1, <3>2
  <2>4. ASSUME NEW y \in InTeams' PROVE Len(teams'[y].members) > 0
    <3>1. CASE y = x
        BY <1>1, <1>12, <1>13, <3>1
    <3>2. CASE y \in InTeams
        BY <1>2, <1>23, <3>2 DEF TeamInv, WorkersRight
    <3> QED
        BY <1>14, <3>1, <3>2
  <2> QED
    BY <2>3, <2>4 DEF WorkersRight
<1>25. Employed'
  <2>1. WorksFor(main)' = NoTeam
    <3>1. main \in Thread
        BY PoolAssumption DEF main, Thread
    <3> QED
        BY <1>2, <1>8, <1>19, <3>1 DEF TeamInv, Employed
  <2>2. ASSUME NEW u \in Thread, u # main, Busy(u)'
        PROVE  WorksFor(u)' \in InTeams' /\ u \in Workers(WorksFor(u))'
    <3>1. CASE u \in W
      <4>1. WorksFor(u)' = x
        BY <1>19, <3>1
      <4>2. Workers(WorksFor(u))' = Workers(x)'
        BY <1>15, <4>1 DEF Workers
      <4> QED
        BY <1>14, <1>15, <3>1, <4>1, <4>2
    <3>2. CASE u \notin W
      <4>1. WorksFor(u) \in InTeams /\ u \in Workers(WorksFor(u)) /\ WorksFor(u)' = WorksFor(u)
        BY <1>2, <1>19, <2>2, <3>2 DEF TeamInv, Employed
      <4>2. Workers(WorksFor(u))' = Workers(WorksFor(u))
        BY <1>23, <4>1 DEF Workers
      <4> QED
        BY <1>14, <4>1, <4>2
    <3> QED
        BY <3>1, <3>2
  <2> QED
    BY <1>19, <2>1, <2>2 DEF Employed
<1>26. Cardinality(W) = n - 1
  <2>1. popped \in [1 .. n - 1 -> W]
    BY <1>6 DEF popped
  <2>2. popped \in Bijection(1 .. n - 1, W)
    BY <1>7, <2>1 DEF Bijection, Injection, IsInjective, Surjection, W
  <2>3. IsFiniteSet(1 .. n - 1) /\ Cardinality(1 .. n - 1) = n - 1
    BY <1>3, FS_Interval
  <2> QED
    BY <2>2, <2>3, FS_Bijection DEF ExistsBijection
<1>27. WorkCounted'
  <2>1. ASSUME NEW y \in InTeams PROVE teams'[y].working_threads = 1 + Cardinality(BusyIn(y)')
    <3>1. BusyIn(y)' = BusyIn(y)
        BY <1>19, <1>23 DEF BusyIn
    <3> QED
        BY <1>2, <1>23, <3>1 DEF TeamInv, WorkCounted
  <2>2. BusyIn(x)' = W
    BY <1>8, <1>15, <1>19 DEF BusyIn
  <2>3. teams'[x].working_threads = 1 + Cardinality(BusyIn(x)')
    BY <1>3, <1>12, <1>13, <1>26, <2>2
  <2>4. ASSUME NEW y \in InTeams', y = x PROVE BusyIn(y)' = BusyIn(x)'
    BY <1>15, <2>4 DEF BusyIn, Workers
  <2>5. ASSUME NEW y \in InTeams' PROVE teams'[y].working_threads = 1 + Cardinality(BusyIn(y)')
    BY <1>14, <2>1, <2>3, <2>4
  <2> QED
    BY <2>5 DEF WorkCounted
<1>28. Grows(Working, Working', n - 1)
  <2>1. Working' = UNION {Workers(y)' : y \in InTeams'}
    BY DEF Working, Workers
  <2>2. \A y \in InTeams' : y \in InTeams \/ y = x
    BY <1>14
  <2>3. ASSUME NEW u \in Working' PROVE u \in Working \cup W
    <3>1. PICK y \in InTeams' : u \in Workers(y)'
        BY <2>1, <2>3
    <3>2. CASE y \in InTeams
        BY <1>23, <3>1, <3>2, WorkingIs
    <3>3. CASE y = x
      <4>1. Workers(y)' = Workers(x)'
        BY <1>15, <3>3 DEF Workers
      <4> QED
        BY <1>15, <3>1, <4>1
    <3> QED
        BY <2>2, <3>2, <3>3
  <2>4. W \subseteq Working'
    <3>1. Workers(x)' \in {Workers(y)' : y \in InTeams'}
        BY <1>14, <1>15 DEF Workers
    <3> QED
        BY <1>15, <2>1, <3>1
  <2>5. Working \subseteq Working'
    BY <1>14, <1>23, <2>1, WorkingIs
  <2>6. W \cap Working = {}
    BY <1>23, WorkingIs
  <2> QED
    BY <1>8, <1>26, <2>3, <2>4, <2>5, <2>6 DEF Grows
<1> QED
    BY <1>10, <1>16, <1>20, <1>21, <1>22, <1>24, <1>25, <1>27, <1>28 DEF TeamInv, n, d
-----------------------------------------------------------------------------
(***************************************************************************)
(* The theorems                                                            *)
(***************************************************************************)
LEMMA PthreadCreateTypes ==
    ASSUME PoolInv, NEW t \in Thread, PthreadCreate(t) PROVE PoolTypes' /\ TeamInv'
<1>1. /\ pc[t] = "pthread" /\ pc' = [pc EXCEPT ![t] = "count"] /\ created' = created \cup {acq[t].id}
      /\ UNCHANGED <<program, waiting_threads, allocated_threads, cur_numthreads, idstack, acq,
                     local_id, team, saved, teams, woken>>
    BY DEF PthreadCreate, Goto, counters, threadVars
<1>2. PoolTypes /\ SettledBound /\ IdsSettled
    BY DEF PoolInv, CreateInv
<1>3. acq[t].id \in Thread
  <2>1. acq[t].id \in Nat /\ acq[t].id < Settled /\ Settled \in Int /\ Settled <= MaxThreads
    BY <1>1, <1>2, FullFinite DEF IdsSettled, SettledBound, Settled, PoolTypes
  <2> QED
    BY <2>1, PoolAssumption DEF Thread
<1>4. PoolTypes'
    BY <1>1, <1>2, <1>3 DEF PoolTypes, Acquiring
<1>5. TeamInv'
    BY <1>1, QuietTeams DEF Acquiring
<1> QED
    BY <1>4, <1>5

LEMMA NextPoolInv == PoolInv /\ [Next]_vars => PoolInv'
<1> SUFFICES ASSUME PoolInv, [Next]_vars PROVE PoolInv'
    OBVIOUS
<1>1. ASSUME NEW t \in Thread, ForkStep(t) PROVE PoolInv'
  <2>1. CreateInv'
    <3>1. PICK n \in program.requests[Level(team[t]) + 1] : Fork(t, n)
        BY <1>1 DEF ForkStep
    <3>2. /\ pc[t] = "work" /\ pc' = [pc EXCEPT ![t] = "acquire"]
          /\ UNCHANGED <<allocated_threads, created>>
          /\ \A u \in Thread : u # t => acq'[u] = acq[u]
        BY <3>1 DEF Fork, Goto, counters, PoolInv, PoolTypes
    <3>3. Full' = Full /\ \A u \in Thread : pc'[u] = "pthread" => pc[u] = "pthread" /\ acq'[u].id = acq[u].id
        BY <3>2 DEF Full, PoolInv, PoolTypes
    <3> QED
        BY <3>2, <3>3, CreateKeep
  <2> QED
    BY <1>1, <2>1, ForkTypes, ForkTeams DEF PoolInv
<1>2. ASSUME NEW t \in Thread,
             \/ AcquireTake(t) \/ AcquirePutBack(t) \/ AcquireDone(t) \/ CreateAlloc(t)
             \/ CreateFull(t) \/ CreateCount(t)
      PROVE  PoolInv'
  <2>1. /\ PoolTypes' /\ pc[t] \in Acquiring /\ pc'[t] \in Acquiring
        /\ pc' = [pc EXCEPT ![t] = pc'[t]]
    BY <1>2, QuietTypes DEF PoolInv
  <2>2. TeamInv'
    <3>1. UNCHANGED <<idstack, local_id, team, saved, teams, woken>>
        BY <1>2 DEF AcquireTake, Take, AcquirePutBack, PutBack, AcquireDone, CreateAlloc, AllocId,
            CreateFull, GiveUp, CreateCount, threadVars
    <3> QED
        BY <2>1, <3>1, QuietTeams
  <2>3. CreateInv'
    <3>1. CASE CreateAlloc(t) \/ CreateFull(t)
        BY <3>1, CreateAllocInv, CreateFullInv
    <3>2. CASE AcquireTake(t) \/ AcquirePutBack(t) \/ AcquireDone(t) \/ CreateCount(t)
      <4>1. /\ UNCHANGED <<allocated_threads, created>>
            /\ pc[t] \notin {"full", "pthread"} /\ pc'[t] \notin {"full", "pthread"}
        BY <2>1, <3>2 DEF AcquireTake, Take, AcquirePutBack, PutBack, AcquireDone, CreateCount,
            counters, Goto, PoolInv, PoolTypes
      <4>2. \A u \in Thread : u # t => acq'[u] = acq[u] /\ pc'[u] = pc[u]
        BY <2>1, <3>2 DEF AcquireTake, Take, AcquirePutBack, PutBack, AcquireDone, CreateCount,
            PoolInv, PoolTypes
      <4>3. Full' = Full /\ \A u \in Thread : pc'[u] = "pthread" => pc[u] = "pthread" /\ acq'[u].id = acq[u].id
        BY <4>1, <4>2 DEF Full
      <4> QED
        BY <4>1, <4>3, CreateKeep
    <3> QED
        BY <1>2, <3>1, <3>2
  <2> QED
    BY <2>1, <2>2, <2>3 DEF PoolInv
<1>3. ASSUME NEW t \in Thread, PthreadCreate(t) PROVE PoolInv'
    BY <1>3, PthreadCreateInv, PthreadCreateTypes DEF PoolInv
<1>4. ASSUME NEW t \in Thread,
             Assign(t) \/ WorkerWork(t) \/ WorkerJoin(t) \/ Release(t) \/ ReleaseCount(t)
      PROVE  PoolInv'
  <2>1. /\ UNCHANGED <<allocated_threads, created>>
        /\ pc[t] \notin {"full", "pthread"} /\ pc'[t] \notin {"full", "pthread"}
        /\ \A u \in Thread : u # t => acq'[u] = acq[u] /\ pc'[u] = pc[u]
    BY <1>4 DEF Assign, WorkerWork, WorkerJoin, Release, ReleaseCount, counters, Goto, PoolInv, PoolTypes
  <2>2. Full' = Full /\ \A u \in Thread : pc'[u] = "pthread" => pc[u] = "pthread" /\ acq'[u].id = acq[u].id
    BY <2>1 DEF Full
  <2>3. CreateInv'
    BY <2>1, <2>2, CreateKeep
  <2>4. TeamInv' /\ PoolTypes'
    BY <1>4, AssignTeams, WorkerWorkTeams, WorkerJoinTeams, ReleaseTeams, ReleaseCountTeams
  <2> QED
    BY <2>3, <2>4 DEF PoolInv
<1>5. CASE UNCHANGED vars
  <2>1. UNCHANGED <<program, waiting_threads, allocated_threads, cur_numthreads, idstack, created, pc,
                    acq, local_id, team, saved, teams, woken>>
    BY <1>5 DEF vars, counters, threadVars
  <2>2. PoolTypes'
    BY <2>1 DEF PoolInv, PoolTypes
  <2>3. CreateInv'
    BY <2>1, CreateKeep DEF Full
  <2>4. InTeams' = InTeams
    BY <2>1 DEF InTeams
  <2>5. Employed' /\ WorkCounted'
    BY <2>1, <2>4, StableWork DEF PoolInv, TeamInv, Employed, Busy, WorksFor
  <2>6. (\A u \in Thread : MasterAt(u)') /\ TeamDepths' /\ StackFree'
    BY <2>1, <2>4, MasterKeep DEF PoolInv, TeamInv, TeamDepths, StackFree
  <2>7. WorkersRight'
    BY <2>1, <2>4 DEF PoolInv, TeamInv, WorkersRight, WorkerOf, WorksFor
  <2> QED
    BY <2>2, <2>3, <2>5, <2>6, <2>7 DEF PoolInv, TeamInv
<1> QED
    BY <1>1, <1>2, <1>3, <1>4, <1>5 DEF Next, ThreadStep

\* The invariant of the pool: no thread is owned twice and no id is given out
\* twice, whatever the forks of the members of a region do at the same time.
THEOREM PoolInvariant == Spec => []PoolInv
BY InitPoolInv, NextPoolInv, PTL DEF Spec

\* No thread is in two teams, or in a team and free (the assertions of
\* __pmp_thread_assign), for every number of threads, every depth of nesting and
\* every number of forks at once.
THEOREM OneOwnerHolds == Spec => []OneOwner
<1>1. PoolInv => OneOwner
  <2> SUFFICES ASSUME PoolInv PROVE OneOwner
    OBVIOUS
  <2>1. StackFree /\ WorkersRight
    BY DEF PoolInv, TeamInv
  <2> QED
    BY <2>1 DEF OneOwner, StackFree, WorkersRight, WorkerOf
<1> QED
    BY <1>1, PoolInvariant, PTL

\* Two forks never create a thread with the same id, and no fork creates one
\* beyond the table of threads, although each of them allocates an id with an
\* increment that it may have to take back (__pmp_manager_create_more_threads).
THEOREM FreshIdsHolds == Spec => []FreshIds
<1>1. PoolInv => FreshIds
  <2> SUFFICES ASSUME PoolInv PROVE FreshIds
    OBVIOUS
  <2>1. PoolTypes /\ SettledBound /\ IdsSettled /\ Cardinality(Full) \in Nat
    BY FullFinite DEF PoolInv, CreateInv
  <2>2. /\ Settled \in Int /\ Settled <= MaxThreads /\ Settled <= allocated_threads
        /\ allocated_threads \in Int /\ MaxThreads \in Int
    BY <2>1, PoolAssumption DEF SettledBound, Settled, PoolTypes
  <2>3. \A i \in created : i \in Int /\ i < Settled
    BY <2>1 DEF IdsSettled, PoolTypes, Thread
  <2>4. \A t \in Thread : pc[t] = "pthread" =>
          /\ acq[t].id \in Nat /\ acq[t].id < Settled /\ acq[t].id \notin created
          /\ \A u \in Thread : pc[u] = "pthread" /\ acq[u].id = acq[t].id => u = t
    BY <2>1 DEF IdsSettled
  <2> HIDE DEF Settled
  <2> QED
    BY <2>2, <2>3, <2>4 DEF FreshIds
<1> QED
    BY <1>1, PoolInvariant, PTL
-----------------------------------------------------------------------------
(***************************************************************************)
(* Sums over the threads.  The sum of F[t] is counted in pairs: one for    *)
(* each unit of a positive F[t], less one for each unit of a negative one. *)
(***************************************************************************)
Rows(F) == UNION {{t} \X (1 .. F[t]) : t \in Thread}

Positive(n) == IF n > 0 THEN n ELSE 0

LEMMA RowFacts ==
    ASSUME NEW t, NEW n \in Int
    PROVE  IsFiniteSet({t} \X (1 .. n)) /\ Cardinality({t} \X (1 .. n)) = Positive(n)
<1>1. IsFiniteSet({t}) /\ Cardinality({t}) = 1
    BY FS_Singleton
<1>2. IsFiniteSet(1 .. n) /\ Cardinality(1 .. n) = Positive(n) /\ Positive(n) \in Int
    BY FS_Interval DEF Positive
<1> QED
    BY <1>1, <1>2, FS_Product

LEMMA RowsFinite ==
    ASSUME NEW F \in [Thread -> Int], NEW T \in SUBSET Thread
    PROVE  IsFiniteSet(UNION {{t} \X (1 .. F[t]) : t \in T})
<1> DEFINE row == [t \in T |-> {t} \X (1 .. F[t])]
           R == {{t} \X (1 .. F[t]) : t \in T}
<1>1. row \in Surjection(T, R)
    BY DEF Surjection
<1>2. IsFiniteSet(T)
    BY ThreadsFinite, FS_Subset
<1>3. IsFiniteSet(R)
    BY <1>1, <1>2, FS_Surjection
<1>4. \A r \in R : IsFiniteSet(r)
  <2>1. ASSUME NEW t \in T PROVE IsFiniteSet({t} \X (1 .. F[t]))
    BY RowFacts
  <2> QED
    BY <2>1
<1> QED
    BY <1>3, <1>4, FS_UNION

\* The rows of one thread and the rows of the others.
LEMMA RowsSplit ==
    ASSUME NEW F \in [Thread -> Int], NEW t \in Thread
    PROVE  LET R == UNION {{u} \X (1 .. F[u]) : u \in Thread \ {t}}
           IN /\ IsFiniteSet(Rows(F)) /\ IsFiniteSet(R)
              /\ Cardinality(Rows(F)) \in Nat /\ Cardinality(R) \in Nat
              /\ Cardinality(Rows(F)) = Cardinality(R) + Positive(F[t])
<1> DEFINE R == UNION {{u} \X (1 .. F[u]) : u \in Thread \ {t}}
           r == {t} \X (1 .. F[t])
<1>1. IsFiniteSet(R) /\ IsFiniteSet(Rows(F))
  <2>1. IsFiniteSet(R)
    BY RowsFinite
  <2>2. IsFiniteSet(Rows(F))
    BY RowsFinite DEF Rows
  <2> QED
    BY <2>1, <2>2
<1>2. IsFiniteSet(r) /\ Cardinality(r) = Positive(F[t]) /\ Positive(F[t]) \in Nat
  <2>1. F[t] \in Int
    OBVIOUS
  <2>2. IsFiniteSet(r) /\ Cardinality(r) = Positive(F[t])
    BY <2>1, RowFacts
  <2>3. Positive(F[t]) \in Nat
    BY <2>1 DEF Positive
  <2> QED
    BY <2>2, <2>3
<1>3. Rows(F) = R \cup r
    BY DEF Rows
<1>4. R \cap r = {}
    OBVIOUS
<1>5. Cardinality(R) \in Nat /\ Cardinality(Rows(F)) \in Nat
    BY <1>1, FS_CardinalityType
<1> HIDE DEF R, r
<1>6. Cardinality(R \cup r) = Cardinality(R) + Cardinality(r) - Cardinality(R \cap r)
    BY <1>1, <1>2, FS_Union
<1>7. Cardinality(Rows(F)) = Cardinality(R) + Positive(F[t])
    BY <1>2, <1>3, <1>4, <1>5, <1>6, FS_EmptySet
<1> QED
    BY <1>1, <1>5, <1>7 DEF R

LEMMA RowsChange ==
    ASSUME NEW F \in [Thread -> Int], NEW G \in [Thread -> Int], NEW t \in Thread,
           \A u \in Thread \ {t} : G[u] = F[u]
    PROVE  /\ Cardinality(Rows(F)) \in Nat /\ Cardinality(Rows(G)) \in Nat
           /\ Cardinality(Rows(G)) - Cardinality(Rows(F)) = Positive(G[t]) - Positive(F[t])
<1> DEFINE R == UNION {{u} \X (1 .. F[u]) : u \in Thread \ {t}}
           S == UNION {{u} \X (1 .. G[u]) : u \in Thread \ {t}}
<1>1. R = S
    OBVIOUS
<1>2. /\ Cardinality(Rows(F)) \in Nat /\ Cardinality(R) \in Nat
      /\ Cardinality(Rows(F)) = Cardinality(R) + Positive(F[t])
    BY RowsSplit
<1>3. /\ Cardinality(Rows(G)) \in Nat /\ Cardinality(S) \in Nat
      /\ Cardinality(Rows(G)) = Cardinality(S) + Positive(G[t])
    BY RowsSplit
<1>4. Positive(F[t]) \in Nat /\ Positive(G[t]) \in Nat
    BY DEF Positive
<1> HIDE DEF R, S
<1> QED
    BY <1>1, <1>2, <1>3, <1>4

\* The sum changes by what is changed at one thread.
LEMMA TotalChange ==
    ASSUME NEW F \in [Thread -> Int], NEW G \in [Thread -> Int], NEW t \in Thread,
           \A u \in Thread \ {t} : G[u] = F[u]
    PROVE  LET minus(H) == [u \in Thread |-> -H[u]]
               Total(H) == Cardinality(Rows(H)) - Cardinality(Rows(minus(H)))
           IN Total(F) \in Int /\ Total(G) \in Int /\ Total(G) = Total(F) + (G[t] - F[t])
<1> DEFINE A == [u \in Thread |-> -F[u]]
           B == [u \in Thread |-> -G[u]]
<1>1. A \in [Thread -> Int] /\ B \in [Thread -> Int] /\ \A u \in Thread \ {t} : B[u] = A[u]
    OBVIOUS
<1>2. A[t] = -F[t] /\ B[t] = -G[t] /\ F[t] \in Int /\ G[t] \in Int
    OBVIOUS
<1> HIDE DEF A, B
<1>3. /\ Cardinality(Rows(F)) \in Nat /\ Cardinality(Rows(G)) \in Nat
      /\ Cardinality(Rows(G)) - Cardinality(Rows(F)) = Positive(G[t]) - Positive(F[t])
    BY RowsChange
<1>4. /\ Cardinality(Rows(A)) \in Nat /\ Cardinality(Rows(B)) \in Nat
      /\ Cardinality(Rows(B)) - Cardinality(Rows(A)) = Positive(B[t]) - Positive(A[t])
    BY <1>1, RowsChange
<1>5. Positive(G[t]) - Positive(B[t]) = G[t] /\ Positive(F[t]) - Positive(A[t]) = F[t]
    BY <1>2 DEF Positive
<1>6. Positive(G[t]) \in Int /\ Positive(B[t]) \in Int /\ Positive(F[t]) \in Int /\ Positive(A[t]) \in Int
    BY <1>2 DEF Positive
<1>7. /\ Cardinality(Rows(F)) - Cardinality(Rows(A)) \in Int
      /\ Cardinality(Rows(G)) - Cardinality(Rows(B)) \in Int
      /\ Cardinality(Rows(G)) - Cardinality(Rows(B))
           = (Cardinality(Rows(F)) - Cardinality(Rows(A))) + (G[t] - F[t])
    BY <1>2, <1>3, <1>4, <1>5, <1>6
<1> QED
    BY <1>7 DEF A, B
-----------------------------------------------------------------------------
(***************************************************************************)
(* The threads that the forks hold                                         *)
(***************************************************************************)
HeldInt == \A u \in Thread : Held(u) \in Int

LEMMA HeldType == PoolInv => HeldInt
<1> SUFFICES ASSUME PoolInv, NEW u \in Thread PROVE Held(u) \in Int
    BY DEF HeldInt
<1>1. acq[u].count \in Int /\ acq[u].required \in Int
  <2>1. acq[u] \in AcqRecord
    BY DEF PoolInv, PoolTypes
  <2> QED
    BY <2>1 DEF AcqRecord
<1>2. pc[u] = "release" => Len(teams[team[u]].members) \in Int
  <2>1. pc[u] = "release" => team[u] \in DOMAIN teams
    BY DEF PoolInv, TeamInv, MasterAt
  <2> QED
    BY <2>1, WorkersType DEF PoolInv
<1> QED
    BY <1>1, <1>2 DEF Held, Acquiring

LEMMA HeldTypeNext == PoolInv' => HeldInt'
BY HeldType, PTL

Carried == Cardinality(InHand) - Cardinality(Owed)

\* What the forks hold together changes by what one of them does.
LEMMA CarriedChange ==
    ASSUME PoolInv, PoolInv', NEW t \in Thread, \A u \in Thread \ {t} : Held(u)' = Held(u)
    PROVE  /\ Carried \in Int /\ Carried' \in Int /\ Held(t) \in Int /\ Held(t)' \in Int
           /\ Carried' = Carried + (Held(t)' - Held(t))
<1> DEFINE F == [u \in Thread |-> Held(u)]
           G == [u \in Thread |-> Held(u)']
           A == [u \in Thread |-> -F[u]]
           B == [u \in Thread |-> -G[u]]
<1>1. \A u \in Thread : Held(u) \in Int
    BY HeldType DEF HeldInt
<1>2. \A u \in Thread : Held(u)' \in Int
    BY HeldTypeNext DEF HeldInt
<1>3. F \in [Thread -> Int] /\ G \in [Thread -> Int] /\ \A u \in Thread \ {t} : G[u] = F[u]
    BY <1>1, <1>2
<1>4. InHand = Rows(F) /\ Owed = Rows(A)
    BY DEF InHand, Owed, Rows
<1>5. InHand' = Rows(G) /\ Owed' = Rows(B)
    BY DEF InHand, Owed, Rows
<1>6. F[t] = Held(t) /\ G[t] = Held(t)'
    OBVIOUS
<1> HIDE DEF F, G
<1>7. /\ Cardinality(Rows(F)) - Cardinality(Rows(A)) \in Int
      /\ Cardinality(Rows(G)) - Cardinality(Rows(B)) \in Int
      /\ Cardinality(Rows(G)) - Cardinality(Rows(B))
           = (Cardinality(Rows(F)) - Cardinality(Rows(A))) + (G[t] - F[t])
    BY <1>3, TotalChange
<1> HIDE DEF A, B
<1> QED
    BY <1>1, <1>2, <1>4, <1>5, <1>6, <1>7 DEF Carried

\* A fork whose place and locals are the same holds what it held.
LEMMA HeldKept ==
    ASSUME NEW u \in Thread, pc'[u] = pc[u], acq'[u] = acq[u],
           pc[u] = "release" => teams'[team'[u]].members = teams[team[u]].members
    PROVE  Held(u)' = Held(u)
BY DEF Held

Counting == {t \in Thread : pc[t] = "count"}

LEMMA SetFacts ==
    ASSUME PoolInv
    PROVE  /\ Working \subseteq Thread /\ IsFiniteSet(Working) /\ Cardinality(Working) \in Nat
           /\ IsFiniteSet(created) /\ Cardinality(created) \in Nat
           /\ Cardinality(created) <= MaxThreads
           /\ IsFiniteSet(Counting) /\ Cardinality(Counting) \in Nat
<1>1. Working \subseteq Thread
  <2>1. \A x \in InTeams : Workers(x) \subseteq Thread
    BY WorkersType DEF InTeams, PoolInv
  <2> QED
    BY <2>1, WorkingIs
<1>2. created \subseteq Thread
    BY DEF PoolInv, PoolTypes
<1>3. Counting \subseteq Thread
    BY DEF Counting
<1>4. Cardinality(Thread) = MaxThreads
    BY PoolAssumption, FS_Interval DEF Thread
<1> QED
    BY <1>1, <1>2, <1>3, <1>4, ThreadsFinite, FS_Subset, FS_CardinalityType

LEMMA ConservationIs ==
    Conservation <=> waiting_threads + Cardinality(Working) + Carried
                       = Cardinality(created) - 1 - Cardinality(Counting)
BY DEF Conservation, Carried, Counting

\* The workers of the teams grow by n.
LEMMA GrowsBy ==
    ASSUME NEW A \in SUBSET Thread, NEW B, NEW n, Grows(A, B, n)
    PROVE  Cardinality(A) \in Nat /\ n \in Nat /\ Cardinality(B) = Cardinality(A) + n
<1>1. PICK W \in SUBSET Thread : B = A \cup W /\ W \cap A = {} /\ Cardinality(W) = n
    BY DEF Grows
<1>2. IsFiniteSet(A) /\ IsFiniteSet(W)
    BY ThreadsFinite, FS_Subset
<1>3. Cardinality(A) \in Nat /\ Cardinality(W) \in Nat
    BY <1>2, FS_CardinalityType
<1>4. Cardinality(A \cap W) = 0
  <2>1. A \cap W = {} /\ Cardinality({}) = 0
    BY <1>1, FS_EmptySet
  <2> QED
    BY <2>1, Zenon
<1>5. Cardinality(A \cup W) = Cardinality(A) + Cardinality(W) - Cardinality(A \cap W)
    BY <1>2, FS_Union
<1>6. Cardinality(A \cup W) = Cardinality(A) + Cardinality(W)
    BY <1>3, <1>4, <1>5
<1>7. B = A \cup W /\ n = Cardinality(W)
    BY <1>1
<1>8. Cardinality(B) = Cardinality(A) + n
    BY <1>6, <1>7, Zenon
<1> QED
    BY <1>3, <1>7, <1>8

\* The account is in balance when the changes of a step are.
LEMMA Balance ==
    ASSUME PoolInv, PoolInv', Conservation, NEW t \in Thread,
           \A u \in Thread \ {t} : Held(u)' = Held(u),
           NEW w \in Int, NEW k \in Int, NEW c \in Int, NEW n \in Int,
           waiting_threads' = waiting_threads + w,
           Cardinality(Working)' = Cardinality(Working) + k,
           Cardinality(created)' = Cardinality(created) + c,
           Cardinality(Counting)' = Cardinality(Counting) + n,
           w + k + (Held(t)' - Held(t)) = c - n
    PROVE  Conservation'
<1>1. /\ waiting_threads \in Int
      /\ Cardinality(Working) \in Nat /\ Cardinality(created) \in Nat /\ Cardinality(Counting) \in Nat
    BY SetFacts DEF PoolInv, PoolTypes
<1>2. /\ Carried \in Int /\ Carried' \in Int /\ Held(t) \in Int /\ Held(t)' \in Int
      /\ Carried' = Carried + (Held(t)' - Held(t))
    BY CarriedChange
<1>3. waiting_threads + Cardinality(Working) + Carried
        = Cardinality(created) - 1 - Cardinality(Counting)
    BY ConservationIs
<1>4. waiting_threads' + Cardinality(Working)' + Carried'
        = Cardinality(created)' - 1 - Cardinality(Counting)'
    BY <1>1, <1>2, <1>3
<1> QED
    BY <1>4 DEF Conservation, Carried, Counting

(***************************************************************************)
(* The ids.  What a fork has taken and is going to put back is reserved: a *)
(* negative number of waiting threads is due to that alone.                *)
(***************************************************************************)
Reserves(t) == IF pc[t] = "putback" THEN acq[t].required ELSE 0
Reserved == UNION {{t} \X (1 .. Reserves(t)) : t \in Thread}

AcqRight(t) ==
    /\ pc[t] \in Acquiring => acq[t].count <= acq[t].nthreads
    /\ pc[t] = "putback" => acq[t].required > 0
    /\ pc[t] = "release" => Held(t) >= 0

IdsInv ==
    /\ \A t \in Thread : AcqRight(t)
    /\ Len(idstack) + Cardinality(Working) = MaxThreads - 1
    /\ waiting_threads + Cardinality(Reserved) >= 0

ReservesInt == \A u \in Thread : Reserves(u) \in Int

LEMMA ReservesType == PoolInv => ReservesInt
<1> SUFFICES ASSUME PoolInv, NEW u \in Thread PROVE Reserves(u) \in Int
    BY DEF ReservesInt
<1>1. acq[u] \in AcqRecord
    BY DEF PoolInv, PoolTypes
<1> QED
    BY <1>1 DEF Reserves, AcqRecord

LEMMA ReservesTypeNext == PoolInv' => ReservesInt'
BY ReservesType, PTL

LEMMA ReservedChange ==
    ASSUME PoolInv, PoolInv', NEW t \in Thread,
           \A u \in Thread \ {t} : Reserves(u)' = Reserves(u)
    PROVE  /\ Cardinality(Reserved) \in Nat /\ Cardinality(Reserved)' \in Nat
           /\ Positive(Reserves(t)) \in Nat /\ Positive(Reserves(t)') \in Nat
           /\ Cardinality(Reserved)' - Cardinality(Reserved)
                = Positive(Reserves(t)') - Positive(Reserves(t))
<1> DEFINE F == [u \in Thread |-> Reserves(u)]
           G == [u \in Thread |-> Reserves(u)']
<1>1. \A u \in Thread : Reserves(u) \in Int
    BY ReservesType DEF ReservesInt
<1>2. \A u \in Thread : Reserves(u)' \in Int
    BY ReservesTypeNext DEF ReservesInt
<1>3. F \in [Thread -> Int] /\ G \in [Thread -> Int] /\ \A u \in Thread \ {t} : G[u] = F[u]
    BY <1>1, <1>2
<1>4. Reserved = Rows(F) /\ Reserved' = Rows(G)
    BY DEF Reserved, Rows
<1>5. F[t] = Reserves(t) /\ G[t] = Reserves(t)'
    OBVIOUS
<1> HIDE DEF F, G
<1>6. /\ Cardinality(Rows(F)) \in Nat /\ Cardinality(Rows(G)) \in Nat
      /\ Cardinality(Rows(G)) - Cardinality(Rows(F)) = Positive(G[t]) - Positive(F[t])
    BY <1>3, RowsChange
<1>7. Positive(Reserves(t)) \in Nat /\ Positive(Reserves(t)') \in Nat
    BY <1>1, <1>2 DEF Positive
<1> QED
    BY <1>4, <1>5, <1>6, <1>7

\* What one thread does about its own fork, the ids and the counter.
LEMMA IdsKept ==
    ASSUME PoolInv, PoolInv', IdsInv, NEW t \in Thread,
           \A u \in Thread \ {t} : pc'[u] = pc[u] /\ acq'[u] = acq[u] /\ Held(u)' = Held(u),
           AcqRight(t)',
           Len(idstack)' + Cardinality(Working)' = Len(idstack) + Cardinality(Working),
           \/ Reserves(t) = 0 /\ waiting_threads' + Positive(Reserves(t)') >= 0
           \/ waiting_threads' + Positive(Reserves(t)')
                >= waiting_threads + Positive(Reserves(t))
    PROVE  IdsInv'
<1>1. \A u \in Thread \ {t} : Reserves(u)' = Reserves(u)
    BY DEF Reserves
<1>2. /\ Cardinality(Reserved) \in Nat /\ Cardinality(Reserved)' \in Nat
      /\ Positive(Reserves(t)) \in Nat /\ Positive(Reserves(t)') \in Nat
      /\ Cardinality(Reserved)' - Cardinality(Reserved)
           = Positive(Reserves(t)') - Positive(Reserves(t))
    BY <1>1, ReservedChange
<1>3. waiting_threads \in Int /\ waiting_threads' \in Int
    BY DEF PoolInv, PoolTypes
<1>4. waiting_threads + Cardinality(Reserved) >= 0
    BY DEF IdsInv
<1>5. waiting_threads' + Cardinality(Reserved)' >= 0
  <2>1. Reserves(t) = 0 => Positive(Reserves(t)) = 0
    BY DEF Positive
  <2> QED
    BY <1>2, <1>3, <1>4, <2>1
<1>6. ASSUME NEW u \in Thread PROVE AcqRight(u)'
  <2>1. CASE u = t
    BY <2>1
  <2>2. CASE u # t
    BY <2>2 DEF IdsInv, AcqRight
  <2> QED
    BY <2>1, <2>2
<1> QED
    BY <1>5, <1>6 DEF IdsInv
-----------------------------------------------------------------------------
(***************************************************************************)
(* The account of the threads                                              *)
(***************************************************************************)
\* A step of __pmp_thread_acquire and what it calls concerns the thread, its
\* locals and the counters.
LEMMA AcquireFrame ==
    ASSUME PoolInv, NEW t \in Thread,
           \/ AcquireTake(t) \/ AcquirePutBack(t) \/ AcquireDone(t) \/ CreateAlloc(t)
           \/ CreateFull(t) \/ CreateCount(t)
    PROVE  /\ \A u \in Thread \ {t} : pc'[u] = pc[u] /\ acq'[u] = acq[u] /\ Held(u)' = Held(u)
           /\ Working' = Working /\ UNCHANGED <<created, idstack>>
<1>1. /\ \A u \in Thread \ {t} : pc'[u] = pc[u] /\ acq'[u] = acq[u]
      /\ UNCHANGED <<created, idstack, team, teams>>
    BY DEF AcquireTake, Take, AcquirePutBack, PutBack, AcquireDone, CreateAlloc, AllocId,
           CreateFull, GiveUp, CreateCount, Goto, threadVars, PoolInv, PoolTypes
<1>2. \A u \in Thread \ {t} : Held(u)' = Held(u)
    BY <1>1, HeldKept
<1> QED
    BY <1>1, <1>2 DEF Working, InTeams

LEMMA AcqTypes ==
    ASSUME PoolInv, NEW t \in Thread
    PROVE  /\ acq[t] \in AcqRecord /\ acq \in [Thread -> AcqRecord]
           /\ pc \in [Thread -> Acquiring \cup {"work", "wait", "release"}]
           /\ acq[t].count \in Int /\ acq[t].required \in Int /\ acq[t].nthreads \in Int
           /\ waiting_threads \in Int
<1>1. acq[t] \in AcqRecord /\ acq \in [Thread -> AcqRecord] /\ waiting_threads \in Int
    BY DEF PoolInv, PoolTypes
<1>2. pc \in [Thread -> Acquiring \cup {"work", "wait", "release"}]
    BY DEF PoolInv, PoolTypes
<1> QED
    BY <1>1, <1>2 DEF AcqRecord

\* What the two xadds do to the locals.
LEMMA TakeEffect ==
    ASSUME PoolInv, NEW t \in Thread, AcquireTake(t)
    PROVE  LET required == acq[t].nthreads - acq[t].count
           IN /\ pc[t] = "acquire" /\ required > 0
              /\ waiting_threads' = waiting_threads - required
              /\ acq'[t].nthreads = acq[t].nthreads
              /\ \/ /\ waiting_threads >= required /\ pc'[t] = "assign"
                    /\ acq'[t].count = acq[t].count + required
                 \/ /\ waiting_threads < required /\ pc'[t] = "putback"
                    /\ acq'[t].count = acq[t].count + waiting_threads
                    /\ acq'[t].required = required - waiting_threads
<1> DEFINE required == acq[t].nthreads - acq[t].count
<1>1. required \in Int /\ waiting_threads \in Int /\ acq[t] \in AcqRecord
    BY AcqTypes
<1>2. Take(t, required, waiting_threads >= required)
    BY DEF AcquireTake
<1> HIDE DEF required
<1>3. /\ pc[t] = "acquire" /\ required > 0
      /\ waiting_threads' = waiting_threads - required
    BY <1>2 DEF Take
<1>4. CASE waiting_threads >= required
  <2>1. acq' = [acq EXCEPT ![t].count = @ + required] /\ pc' = [pc EXCEPT ![t] = "assign"]
    BY <1>2, <1>4 DEF Take, Goto
  <2>2. acq'[t] = [acq[t] EXCEPT !.count = @ + required] /\ pc'[t] = "assign"
    BY <2>1, AcqTypes
  <2>3. acq'[t].count = acq[t].count + required /\ acq'[t].nthreads = acq[t].nthreads
    BY <1>1, <2>2 DEF AcqRecord
  <2> QED
    BY <1>3, <1>4, <2>2, <2>3 DEF required
<1>5. CASE ~(waiting_threads >= required)
  <2>1. /\ acq' = [acq EXCEPT ![t].count = @ + waiting_threads,
                              ![t].required = required - waiting_threads]
        /\ pc' = [pc EXCEPT ![t] = "putback"]
    BY <1>2, <1>5 DEF Take, Goto
  <2>2. /\ acq'[t] = [acq[t] EXCEPT !.count = @ + waiting_threads,
                                    !.required = required - waiting_threads]
        /\ pc'[t] = "putback"
    BY <2>1, AcqTypes
  <2>3. /\ acq'[t].count = acq[t].count + waiting_threads
        /\ acq'[t].required = required - waiting_threads
        /\ acq'[t].nthreads = acq[t].nthreads
    BY <1>1, <2>2 DEF AcqRecord
  <2>4. waiting_threads < required
    BY <1>1, <1>5
  <2> QED
    BY <1>3, <2>2, <2>3, <2>4 DEF required
<1> QED
    BY <1>4, <1>5

LEMMA PutBackEffect ==
    ASSUME PoolInv, NEW t \in Thread, AcquirePutBack(t)
    PROVE  /\ pc[t] = "putback" /\ pc'[t] = "create"
           /\ waiting_threads' = waiting_threads + acq[t].required
           /\ acq'[t].nthreads = acq[t].nthreads /\ acq'[t].count = acq[t].count
<1>1. /\ pc[t] = "putback" /\ waiting_threads' = waiting_threads + acq[t].required
      /\ acq' = [acq EXCEPT ![t].made = 0] /\ pc' = [pc EXCEPT ![t] = "create"]
    BY DEF AcquirePutBack, PutBack, Goto
<1>2. acq'[t] = [acq[t] EXCEPT !.made = 0] /\ pc'[t] = "create"
    BY <1>1, AcqTypes
<1> QED
    BY <1>1, <1>2, AcqTypes DEF AcqRecord

\* The other steps do not change what has been counted.
LEMMA OtherEffect ==
    ASSUME PoolInv, NEW t \in Thread,
           AcquireDone(t) \/ CreateAlloc(t) \/ CreateFull(t) \/ CreateCount(t)
    PROVE  /\ pc[t] \in Acquiring \ {"putback"} /\ pc'[t] \in Acquiring \ {"putback"}
           /\ acq'[t].nthreads = acq[t].nthreads /\ acq'[t].count = acq[t].count
           /\ pc'[t] # "count"
           /\ CreateCount(t) => pc[t] = "count" /\ waiting_threads' = waiting_threads + 1
           /\ ~CreateCount(t) => pc[t] # "count" /\ waiting_threads' = waiting_threads
<1>1. CASE AcquireDone(t)
    BY <1>1, AcqTypes DEF AcquireDone, CreateCount, Goto, counters, Acquiring
<1>2. CASE CreateAlloc(t)
  <2>1. /\ pc[t] = "create" /\ acq' = [acq EXCEPT ![t].id = allocated_threads]
        /\ waiting_threads' = waiting_threads
    BY <1>2 DEF CreateAlloc, AllocId
  <2>2. acq'[t] = [acq[t] EXCEPT !.id = allocated_threads]
    BY <2>1, AcqTypes
  <2>3. acq'[t].nthreads = acq[t].nthreads /\ acq'[t].count = acq[t].count
    BY <2>2, AcqTypes DEF AcqRecord
  <2>4. pc'[t] \in {"full", "pthread"}
    BY <1>2, AcqTypes DEF CreateAlloc, AllocId, Goto
  <2> QED
    BY <2>1, <2>3, <2>4 DEF CreateCount, Acquiring
<1>3. CASE CreateFull(t)
    BY <1>3, AcqTypes DEF CreateFull, GiveUp, CreateCount, Goto, Acquiring
<1>4. CASE CreateCount(t)
  <2>1. /\ pc[t] = "count" /\ acq' = [acq EXCEPT ![t].made = @ + 1]
        /\ waiting_threads' = waiting_threads + 1
    BY <1>4 DEF CreateCount
  <2>2. acq'[t] = [acq[t] EXCEPT !.made = @ + 1]
    BY <2>1, AcqTypes
  <2>3. acq'[t].nthreads = acq[t].nthreads /\ acq'[t].count = acq[t].count
    BY <2>2, AcqTypes DEF AcqRecord
  <2>4. pc'[t] \in {"acquire", "create"}
    BY <1>4, AcqTypes DEF CreateCount, Goto
  <2> QED
    BY <1>4, <2>1, <2>3, <2>4 DEF Acquiring
<1> QED
    BY <1>1, <1>2, <1>3, <1>4
\* In __pmp_thread_acquire what is taken from waiting_threads is held.
LEMMA AcquireBalance ==
    ASSUME PoolInv, PoolInv', Conservation, IdsInv, NEW t \in Thread,
           \/ AcquireTake(t) \/ AcquirePutBack(t) \/ AcquireDone(t) \/ CreateAlloc(t)
           \/ CreateFull(t) \/ CreateCount(t)
    PROVE  Conservation' /\ IdsInv'
<1>1. /\ acq[t].count \in Int /\ acq[t].required \in Int /\ acq[t].nthreads \in Int
      /\ waiting_threads \in Int
    BY AcqTypes
<1>2. /\ \A u \in Thread \ {t} : pc'[u] = pc[u] /\ acq'[u] = acq[u] /\ Held(u)' = Held(u)
      /\ Working' = Working /\ UNCHANGED <<created, idstack>>
    BY AcquireFrame
<1>3. /\ Cardinality(Working) \in Nat /\ Cardinality(created) \in Nat
      /\ IsFiniteSet(Counting) /\ Cardinality(Counting) \in Nat
    BY SetFacts
<1>4. /\ Cardinality(Working)' = Cardinality(Working) + 0
      /\ Cardinality(created)' = Cardinality(created) + 0
    BY <1>2, <1>3
<1>5. pc[t] # "count" /\ pc'[t] # "count" => Cardinality(Counting)' = Cardinality(Counting) + 0
  <2>1. pc[t] # "count" /\ pc'[t] # "count" => Counting' = Counting
    BY <1>2 DEF Counting
  <2> QED
    BY <1>3, <2>1
<1>ids. /\ Len(idstack)' + Cardinality(Working)' = Len(idstack) + Cardinality(Working)
       /\ AcqRight(t)
    BY <1>2 DEF IdsInv
<1>6. CASE AcquireTake(t)
  <2> DEFINE required == acq[t].nthreads - acq[t].count
             w == -required
  <2>1. /\ pc[t] = "acquire" /\ waiting_threads' = waiting_threads - required
        /\ acq'[t].nthreads = acq[t].nthreads
        /\ \/ /\ waiting_threads >= required /\ pc'[t] = "assign"
              /\ acq'[t].count = acq[t].count + required
           \/ /\ waiting_threads < required /\ pc'[t] = "putback"
              /\ acq'[t].count = acq[t].count + waiting_threads
              /\ acq'[t].required = required - waiting_threads
    BY <1>6, TakeEffect
  <2>2. required \in Int /\ w \in Int /\ waiting_threads' = waiting_threads + w
    BY <1>1, <2>1
  <2>3. Held(t) = acq[t].count - 1
    BY <2>1 DEF Held, Acquiring
  <2>4. Held(t)' = Held(t) + required
    <3> HIDE DEF required
    <3>1. CASE pc'[t] = "assign" /\ acq'[t].count = acq[t].count + required
      <4>1. Held(t)' = acq'[t].count - 1
        BY <3>1 DEF Held, Acquiring
      <4> QED
        BY <1>1, <2>2, <2>3, <3>1, <4>1
    <3>2. CASE /\ pc'[t] = "putback" /\ acq'[t].count = acq[t].count + waiting_threads
               /\ acq'[t].required = required - waiting_threads
      <4>1. Held(t)' = acq'[t].count - 1 + acq'[t].required
        BY <3>2 DEF Held, Acquiring
      <4> QED
        BY <1>1, <2>2, <2>3, <3>2, <4>1
    <3> QED
        BY <2>1, <3>1, <3>2
  <2>5. Cardinality(Counting)' = Cardinality(Counting) + 0
    BY <1>5, <2>1
  <2>6. w + 0 + (Held(t)' - Held(t)) = 0 - 0
    BY <1>1, <2>2, <2>3, <2>4
  <2>7. AcqRight(t)'
    <3>1. acq'[t].count <= acq'[t].nthreads
        BY <1>1, <2>1
    <3>2. pc'[t] # "release" /\ (pc'[t] = "putback" => acq'[t].required > 0)
        BY <1>1, <2>1
    <3> QED
        BY <3>1, <3>2 DEF AcqRight
  <2>8. Reserves(t) = 0 /\ waiting_threads' + Positive(Reserves(t)') >= 0
    <3>1. Reserves(t) = 0
        BY <2>1 DEF Reserves
    <3>2. waiting_threads < required => Reserves(t)' = required - waiting_threads
        BY <1>1, <2>1 DEF Reserves
    <3>3. waiting_threads >= required => Reserves(t)' = 0
        BY <1>1, <2>1 DEF Reserves
    <3>4. waiting_threads' = waiting_threads - required
        BY <2>1
    <3> HIDE DEF required
    <3> QED
        BY <1>1, <2>2, <3>1, <3>2, <3>3, <3>4 DEF Positive
  <2>9. IdsInv'
    BY <1>2, <1>ids, <2>7, <2>8, IdsKept
  <2> HIDE DEF w, required
  <2> QED
    BY <1>2, <1>4, <2>2, <2>5, <2>6, <2>9, Balance
<1>7. CASE AcquirePutBack(t)
  <2>1. /\ pc[t] = "putback" /\ pc'[t] = "create"
        /\ waiting_threads' = waiting_threads + acq[t].required
        /\ acq'[t].count = acq[t].count /\ acq'[t].nthreads = acq[t].nthreads
    BY <1>7, PutBackEffect
  <2>2. Held(t) = acq[t].count - 1 + acq[t].required /\ Held(t)' = acq[t].count - 1
    BY <2>1 DEF Held, Acquiring
  <2>3. acq[t].required + 0 + (Held(t)' - Held(t)) = 0 - 0
    BY <1>1, <2>2
  <2>4. Cardinality(Counting)' = Cardinality(Counting) + 0
    BY <1>5, <2>1
  <2>5. AcqRight(t)'
    BY <1>ids, <2>1 DEF AcqRight, Acquiring
  <2>6. waiting_threads' + Positive(Reserves(t)') >= waiting_threads + Positive(Reserves(t))
    <3>1. Reserves(t) = acq[t].required /\ Reserves(t)' = 0
        BY <2>1 DEF Reserves
    <3> QED
        BY <1>1, <1>ids, <2>1, <3>1 DEF Positive, AcqRight
  <2>7. IdsInv'
    BY <1>2, <1>ids, <2>5, <2>6, IdsKept
  <2> QED
    BY <1>1, <1>2, <1>4, <2>1, <2>3, <2>4, <2>7, Balance
<1>8. CASE AcquireDone(t) \/ CreateAlloc(t) \/ CreateFull(t) \/ CreateCount(t)
  <2>1. /\ pc[t] \in Acquiring \ {"putback"} /\ pc'[t] \in Acquiring \ {"putback"}
        /\ acq'[t].count = acq[t].count /\ pc'[t] # "count"
        /\ acq'[t].nthreads = acq[t].nthreads
        /\ CreateCount(t) => pc[t] = "count" /\ waiting_threads' = waiting_threads + 1
        /\ ~CreateCount(t) => pc[t] # "count" /\ waiting_threads' = waiting_threads
    BY <1>8, OtherEffect
  <2>2. Held(t) = acq[t].count - 1 /\ Held(t)' = acq[t].count - 1
    <3>1. Held(t) = acq[t].count - 1
        BY <2>1 DEF Held, Acquiring
    <3>2. Held(t)' = acq'[t].count - 1
        BY <2>1 DEF Held, Acquiring
    <3> QED
        BY <2>1, <3>1, <3>2
  <2>ids. IdsInv'
    <3>1. AcqRight(t)'
        BY <1>ids, <2>1 DEF AcqRight, Acquiring
    <3>2. Reserves(t) = 0 /\ Reserves(t)' = 0
        BY <2>1 DEF Reserves
    <3>3. waiting_threads' + Positive(Reserves(t)') >= waiting_threads + Positive(Reserves(t))
        BY <1>1, <2>1, <3>2 DEF Positive
    <3> QED
        BY <1>2, <1>ids, <3>1, <3>3, IdsKept
  <2>3. CASE CreateCount(t)
    <3>1. Counting' = Counting \ {t} /\ t \in Counting
        BY <1>2, <2>1, <2>3 DEF Counting
    <3>2. Cardinality(Counting \ {t}) = Cardinality(Counting) - 1
        BY <1>3, <3>1, FS_RemoveElement
    <3>3. Cardinality(Counting)' = Cardinality(Counting) + (-1)
        BY <1>3, <3>1, <3>2
    <3>4. 1 + 0 + (Held(t)' - Held(t)) = 0 - (-1)
        BY <1>1, <2>2
    <3> QED
        BY <1>2, <1>4, <2>1, <2>3, <2>ids, <3>3, <3>4, Balance
  <2>4. CASE ~CreateCount(t)
    <3>1. Cardinality(Counting)' = Cardinality(Counting) + 0
        BY <1>5, <2>1, <2>4
    <3>2. 0 + 0 + (Held(t)' - Held(t)) = 0 - 0
        BY <1>1, <2>2
    <3>3. waiting_threads' = waiting_threads + 0
        BY <1>1, <2>1, <2>4
    <3> QED
        BY <1>2, <1>4, <2>ids, <3>1, <3>2, <3>3, Balance
  <2> QED
    BY <2>3, <2>4
<1> QED
    BY <1>6, <1>7, <1>8

\* A thread that has been created and not yet counted is in neither.
LEMMA PthreadBalance ==
    ASSUME PoolInv, PoolInv', Conservation, IdsInv, NEW t \in Thread, PthreadCreate(t)
    PROVE  Conservation' /\ IdsInv'
<1>1. /\ pc[t] = "pthread" /\ pc' = [pc EXCEPT ![t] = "count"]
      /\ created' = created \cup {acq[t].id}
      /\ UNCHANGED <<waiting_threads, acq, team, teams, idstack>>
    BY DEF PthreadCreate, Goto, counters, threadVars
<1>2. pc'[t] = "count" /\ \A u \in Thread \ {t} : pc'[u] = pc[u]
    BY <1>1, AcqTypes
<1>3. \A u \in Thread \ {t} : Held(u)' = Held(u)
    BY <1>1, <1>2, HeldKept
<1>4. Held(t)' = Held(t) /\ Held(t) \in Int
  <2>1. Held(t) = acq[t].count - 1 /\ Held(t)' = acq[t].count - 1
    BY <1>1, <1>2 DEF Held, Acquiring
  <2> QED
    BY <2>1, AcqTypes
<1>5. acq[t].id \notin created
    BY <1>1 DEF PoolInv, CreateInv, IdsSettled
<1>6. /\ Cardinality(Working) \in Nat /\ IsFiniteSet(created)
      /\ IsFiniteSet(Counting) /\ Cardinality(Counting) \in Nat /\ Cardinality(created) \in Nat
    BY SetFacts
<1>7. Cardinality(created)' = Cardinality(created) + 1
    BY <1>1, <1>5, <1>6, FS_AddElement
<1>8. Cardinality(Counting)' = Cardinality(Counting) + 1
  <2>1. Counting' = Counting \cup {t} /\ t \notin Counting
    BY <1>1, <1>2 DEF Counting
  <2> QED
    BY <1>6, <2>1, FS_AddElement
<1>9. Cardinality(Working)' = Cardinality(Working) + 0
  <2>1. Working' = Working
    BY <1>1 DEF Working, InTeams
  <2> QED
    BY <1>6, <2>1
<1>10. waiting_threads' = waiting_threads + 0 /\ 0 + 0 + (Held(t)' - Held(t)) = 1 - 1
    BY <1>1, <1>4, AcqTypes
<1>11. IdsInv'
  <2>1. AcqRight(t)'
    BY <1>1, <1>2 DEF IdsInv, AcqRight, Acquiring
  <2>2. Reserves(t) = 0 /\ Reserves(t)' = 0
    BY <1>1, <1>2 DEF Reserves
  <2>3. Len(idstack)' + Cardinality(Working)' = Len(idstack) + Cardinality(Working)
    BY <1>1, <1>6, <1>9
  <2>4. waiting_threads' + Positive(Reserves(t)') >= waiting_threads + Positive(Reserves(t))
    BY <1>10, <2>2, AcqTypes DEF Positive
  <2> QED
    BY <1>1, <1>2, <1>3, <2>1, <2>3, <2>4, IdsKept
<1> QED
    BY <1>3, <1>7, <1>8, <1>9, <1>10, <1>11, Balance

\* A fork starts with its own thread and holds no other.
LEMMA ForkBalance ==
    ASSUME PoolInv, PoolInv', Conservation, IdsInv, NEW t \in Thread, ForkStep(t)
    PROVE  Conservation' /\ IdsInv'
<1>1. /\ pc[t] = "work" /\ pc' = [pc EXCEPT ![t] = "acquire"] /\ acq'[t].count = 1
      /\ acq'[t].nthreads >= 1 /\ \A u \in Thread \ {t} : acq'[u] = acq[u]
      /\ UNCHANGED <<waiting_threads, created, team, teams, idstack>>
  <2>1. PICK n \in program.requests[Level(team[t]) + 1] : Fork(t, n)
    BY DEF ForkStep
  <2> DEFINE k == IF n = 0 THEN NewTeamSize(t) ELSE n
             r == [nthreads |-> k, count |-> 1, required |-> 0, made |-> 0, id |-> 0]
  <2>2. /\ pc[t] = "work" /\ pc' = [pc EXCEPT ![t] = "acquire"] /\ acq' = [acq EXCEPT ![t] = r]
        /\ UNCHANGED <<waiting_threads, created, team, teams, idstack>>
    BY <2>1 DEF Fork, Goto, counters
  <2>3. r.count = 1 /\ r.nthreads = k
    OBVIOUS
  <2>4. k >= 1
    <3>1. n \in Nat
      <4>1. Level(team[t]) \in Nat /\ Level(team[t]) < Len(program.requests)
        BY <2>2, LevelType DEF ForkStep
      <4>2. program.requests \in Seq(SUBSET Nat)
        BY PoolAssumption DEF PoolInv, PoolTypes
      <4> QED
        BY <2>1, <4>1, <4>2
    <3>2. NewTeamSize(t) >= 1
        BY PoolAssumption DEF NewTeamSize
    <3> QED
        BY <3>1, <3>2
  <2> HIDE DEF r, k
  <2> QED
    BY <2>2, <2>3, <2>4, AcqTypes
<1>2. pc'[t] = "acquire" /\ \A u \in Thread \ {t} : pc'[u] = pc[u]
    BY <1>1, AcqTypes
<1>3. \A u \in Thread \ {t} : Held(u)' = Held(u)
    BY <1>1, <1>2, HeldKept
<1>4. Held(t) = 0
    BY <1>1 DEF Held, Acquiring
<1>5. Held(t)' = 0
  <2>1. Held(t)' = acq'[t].count - 1
    BY <1>2 DEF Held, Acquiring
  <2> QED
    BY <1>1, <2>1
<1>6. Counting' = Counting /\ Working' = Working
    BY <1>1, <1>2 DEF Counting, Working, InTeams
<1>7. /\ Cardinality(Working) \in Nat /\ Cardinality(created) \in Nat
      /\ Cardinality(Counting) \in Nat
    BY SetFacts
<1>8. /\ Cardinality(Working)' = Cardinality(Working) + 0
      /\ Cardinality(created)' = Cardinality(created) + 0
      /\ Cardinality(Counting)' = Cardinality(Counting) + 0
    BY <1>1, <1>6, <1>7
<1>9. waiting_threads' = waiting_threads + 0 /\ 0 + 0 + (Held(t)' - Held(t)) = 0 - 0
    BY <1>1, <1>4, <1>5, AcqTypes
<1>10. IdsInv'
  <2>1. AcqRight(t)'
    BY <1>1, <1>2 DEF AcqRight
  <2>2. Reserves(t) = 0 /\ Reserves(t)' = 0
    BY <1>1, <1>2 DEF Reserves
  <2>3. Len(idstack)' + Cardinality(Working)' = Len(idstack) + Cardinality(Working)
    BY <1>1, <1>6
  <2>4. waiting_threads' + Positive(Reserves(t)') >= waiting_threads + Positive(Reserves(t))
    BY <1>1, <2>2, AcqTypes DEF Positive
  <2> QED
    BY <1>1, <1>2, <1>3, <2>1, <2>3, <2>4, IdsKept
<1> QED
    BY <1>3, <1>8, <1>9, <1>10, Balance

\* A worker that starts or ends its part of a region stays in its team.
LEMMA WorkerBalance ==
    ASSUME PoolInv, PoolInv', Conservation, IdsInv, NEW t \in Thread, WorkerWork(t) \/ WorkerJoin(t)
    PROVE  Conservation' /\ IdsInv'
<1>1. /\ pc[t] \in {"work", "wait"} /\ pc'[t] \in {"work", "wait"}
      /\ \A u \in Thread \ {t} : pc'[u] = pc[u]
      /\ UNCHANGED <<waiting_threads, created, team, acq, idstack>>
    BY AcqTypes DEF WorkerWork, WorkerJoin, Goto, counters, threadVars
<1>2. \A x \in DOMAIN teams : teams'[x].members = teams[x].members
  <2>1. CASE WorkerWork(t)
    BY <2>1 DEF WorkerWork
  <2>2. CASE WorkerJoin(t)
    <3>1. teams' = [teams EXCEPT ![team[t]].working_threads = @ - 1]
        BY <2>2 DEF WorkerJoin
    <3>2. ASSUME NEW x \in DOMAIN teams PROVE teams'[x].members = teams[x].members
      <4>1. teams[x] \in TeamRecord
        BY DEF PoolInv, PoolTypes
      <4>2. CASE x = team[t]
        <5>1. teams'[x] = [teams[x] EXCEPT !.working_threads = @ - 1]
            BY <3>1, <4>2
        <5> QED
            BY <4>1, <5>1 DEF TeamRecord
      <4>3. CASE x # team[t]
        BY <3>1, <4>3
      <4> QED
        BY <4>2, <4>3
    <3> QED
        BY <3>2
  <2> QED
    BY <2>1, <2>2
<1>3. \A u \in Thread : pc[u] = "release" => team[u] \in DOMAIN teams
    BY DEF PoolInv, TeamInv, MasterAt
<1>4. \A u \in Thread \ {t} : Held(u)' = Held(u)
    BY <1>1, <1>2, <1>3, HeldKept
<1>5. Held(t) = 0 /\ Held(t)' = 0
  <2>1. Held(t) = 0
    BY <1>1 DEF Held, Acquiring
  <2>2. Held(t)' = 0
    BY <1>1 DEF Held, Acquiring
  <2> QED
    BY <2>1, <2>2
<1>6. Working' = Working
  <2>1. CASE WorkerWork(t)
    BY <2>1 DEF WorkerWork, Working, InTeams
  <2>2. CASE WorkerJoin(t)
    BY <2>2, WorkerJoinTeams
  <2> QED
    BY <2>1, <2>2
<1>7. Counting' = Counting
    BY <1>1 DEF Counting
<1>8. /\ Cardinality(Working) \in Nat /\ Cardinality(created) \in Nat
      /\ Cardinality(Counting) \in Nat
    BY SetFacts
<1>9. /\ Cardinality(Working)' = Cardinality(Working) + 0
      /\ Cardinality(created)' = Cardinality(created) + 0
      /\ Cardinality(Counting)' = Cardinality(Counting) + 0
    BY <1>1, <1>6, <1>7, <1>8
<1>10. waiting_threads' = waiting_threads + 0 /\ 0 + 0 + (Held(t)' - Held(t)) = 0 - 0
    BY <1>1, <1>5, AcqTypes
<1>11. IdsInv'
  <2>1. AcqRight(t)'
    BY <1>1 DEF AcqRight, Acquiring
  <2>2. Reserves(t) = 0 /\ Reserves(t)' = 0
    BY <1>1 DEF Reserves
  <2>3. Len(idstack)' + Cardinality(Working)' = Len(idstack) + Cardinality(Working)
    BY <1>1, <1>6
  <2>4. waiting_threads' + Positive(Reserves(t)') >= waiting_threads + Positive(Reserves(t))
    BY <1>1, <2>2, AcqTypes DEF Positive
  <2> QED
    BY <1>1, <1>4, <2>1, <2>3, <2>4, IdsKept
<1> QED
    BY <1>4, <1>9, <1>10, <1>11, Balance

\* The workers that a fork holds become the workers of its team.
LEMMA AssignBalance ==
    ASSUME PoolInv, PoolInv', Conservation, IdsInv, NEW t \in Thread, Assign(t)
    PROVE  Conservation' /\ IdsInv'
<1> DEFINE k == acq[t].count - 1
<1>1. /\ pc[t] = "assign" /\ pc' = [pc EXCEPT ![t] = "work"]
      /\ acq' = [acq EXCEPT ![t] = NoAcq]
      /\ UNCHANGED <<waiting_threads, created>>
    BY DEF Assign, Goto
<1>2. pc'[t] = "work" /\ \A u \in Thread \ {t} : pc'[u] = pc[u] /\ acq'[u] = acq[u]
    BY <1>1, AcqTypes
<1>3. ASSUME NEW u \in Thread \ {t} PROVE Held(u)' = Held(u)
  <2>1. ASSUME pc[u] = "release" PROVE teams'[team'[u]].members = teams[team[u]].members
    <3>1. team[u] \in DOMAIN teams /\ team[u] = ForkedTeam(u) /\ team[u] # ForkedTeam(t)
        BY <2>1 DEF PoolInv, TeamInv, MasterAt, ForkedTeam
    <3>2. team'[u] = ForkedTeam(u) /\ ForkedTeam(u) = team[u]
      <4>1. MasterAt(u)' /\ saved' = saved /\ pc'[u] = "release"
        BY <1>2, <2>1 DEF PoolInv, TeamInv, Assign
      <4>2. ForkedTeam(u)' = ForkedTeam(u)
        BY <4>1 DEF ForkedTeam
      <4>3. team'[u] = ForkedTeam(u)'
        BY <4>1 DEF MasterAt
      <4> QED
        BY <3>1, <4>2, <4>3
    <3>3. \A x \in DOMAIN teams : x # ForkedTeam(t) => teams'[x] = teams[x]
        BY DEF Assign
    <3> QED
        BY <3>1, <3>2, <3>3
  <2> QED
    BY <1>2, <2>1, HeldKept
<1>4. Held(t) = k
    BY <1>1 DEF Held, Acquiring
<1>5. Held(t)' = 0
    BY <1>2 DEF Held, Acquiring
<1>6. Counting' = Counting
    BY <1>1, <1>2 DEF Counting
<1>7. /\ Cardinality(Working) \in Nat /\ Cardinality(created) \in Nat
      /\ Cardinality(Counting) \in Nat /\ Working \in SUBSET Thread
    BY SetFacts
<1>8. Grows(Working, Working', k)
    BY AssignTeams
<1> HIDE DEF k
<1>9. k \in Nat /\ Cardinality(Working)' = Cardinality(Working) + k
    BY <1>7, <1>8, GrowsBy
<1>10. /\ Cardinality(created)' = Cardinality(created) + 0
       /\ Cardinality(Counting)' = Cardinality(Counting) + 0
       /\ waiting_threads' = waiting_threads + 0
    BY <1>1, <1>6, <1>7, AcqTypes
<1>11. 0 + k + (Held(t)' - Held(t)) = 0 - 0
    BY <1>4, <1>5, <1>9
<1>12. IdsInv'
  <2>1. AcqRight(t)'
    BY <1>2 DEF AcqRight, Acquiring
  <2>2. Reserves(t) = 0 /\ Reserves(t)' = 0
    BY <1>1, <1>2 DEF Reserves
  <2>3. Len(idstack') = Len(idstack) - k /\ Len(idstack) \in Nat
    BY AssignTeams DEF k, PoolInv, PoolTypes
  <2>4. Len(idstack)' + Cardinality(Working)' = Len(idstack) + Cardinality(Working)
    BY <1>7, <1>9, <2>3
  <2>5. waiting_threads' + Positive(Reserves(t)') >= waiting_threads + Positive(Reserves(t))
    BY <1>1, <2>2, AcqTypes DEF Positive
  <2> QED
    BY <1>2, <1>3, <2>1, <2>4, <2>5, IdsKept
<1> QED
    BY <1>3, <1>9, <1>10, <1>11, <1>12, Balance

\* The workers of a team that is dissolved are in the hands of its master.
LEMMA ReleaseBalance ==
    ASSUME PoolInv, PoolInv', Conservation, IdsInv, NEW t \in Thread, Release(t)
    PROVE  Conservation' /\ IdsInv'
<1> DEFINE k == Len(teams[team[t]].members) - 1
<1>1. /\ pc[t] = "work" /\ pc' = [pc EXCEPT ![t] = "release"] /\ saved[t] # <<>>
      /\ teams' = [teams EXCEPT ![team[t]].working_threads = 0]
      /\ UNCHANGED <<waiting_threads, created, acq, saved>>
    BY DEF Release, Goto
<1>2. pc'[t] = "release" /\ \A u \in Thread \ {t} : pc'[u] = pc[u]
    BY <1>1, AcqTypes
<1>3. \A x \in DOMAIN teams : teams'[x].members = teams[x].members
  <2>1. ASSUME NEW x \in DOMAIN teams PROVE teams'[x].members = teams[x].members
    <3>1. teams[x] \in TeamRecord
        BY DEF PoolInv, PoolTypes
    <3>2. CASE x = team[t]
      <4>1. teams'[x] = [teams[x] EXCEPT !.working_threads = 0]
        BY <1>1, <3>2
      <4> QED
        BY <3>1, <4>1 DEF TeamRecord
    <3>3. CASE x # team[t]
        BY <1>1, <3>3
    <3> QED
        BY <3>2, <3>3
  <2> QED
    BY <2>1
<1>4. ASSUME NEW u \in Thread, pc'[u] = "release", pc[u] \in {"work", "release"}, saved[u] # <<>>
      PROVE  team'[u] = team[u] /\ team[u] \in DOMAIN teams
  <2>1. team[u] = ForkedTeam(u) /\ team[u] \in DOMAIN teams
    BY <1>4 DEF PoolInv, TeamInv, MasterAt
  <2>2. MasterAt(u)' /\ saved'[u] # <<>>
    BY <1>1, <1>4 DEF PoolInv, TeamInv
  <2>3. team'[u] = ForkedTeam(u)'
    BY <1>4, <2>2 DEF MasterAt
  <2>4. ForkedTeam(u)' = ForkedTeam(u)
    BY <1>1 DEF ForkedTeam
  <2> QED
    BY <2>1, <2>3, <2>4
<1>5. ASSUME NEW u \in Thread \ {t} PROVE Held(u)' = Held(u)
  <2>1. pc[u] = "release" => saved[u] # <<>>
    BY DEF PoolInv, TeamInv, MasterAt
  <2> QED
    BY <1>1, <1>2, <1>3, <1>4, <2>1, HeldKept
<1>6. Held(t) = 0
    BY <1>1 DEF Held, Acquiring
<1>7. Held(t)' = k
  <2>1. Held(t)' = Len(teams'[team'[t]].members) - 1
    BY <1>2 DEF Held, Acquiring
  <2> QED
    BY <1>1, <1>2, <1>3, <1>4, <2>1
<1>8. Counting' = Counting
    BY <1>1, <1>2 DEF Counting
<1>9. /\ Cardinality(Working) \in Nat /\ Cardinality(created) \in Nat
      /\ Cardinality(Counting) \in Nat /\ Working \in SUBSET Thread
    BY SetFacts
<1>10. Grows(Working', Working, k)
    BY ReleaseTeams
<1> HIDE DEF k
<1>11. k \in Nat /\ Cardinality(Working)' = Cardinality(Working) + (-k)
  <2>1. Working' \in SUBSET Thread
    BY <1>9, <1>10 DEF Grows
  <2>2. /\ k \in Nat /\ Cardinality(Working') \in Nat
        /\ Cardinality(Working) = Cardinality(Working') + k
    BY <1>10, <2>1, GrowsBy
  <2> QED
    BY <2>2
<1>12. /\ Cardinality(created)' = Cardinality(created) + 0
       /\ Cardinality(Counting)' = Cardinality(Counting) + 0
       /\ waiting_threads' = waiting_threads + 0
    BY <1>1, <1>8, <1>9, AcqTypes
<1>13. -k \in Int /\ 0 + (-k) + (Held(t)' - Held(t)) = 0 - 0
    BY <1>6, <1>7, <1>11
<1>14. IdsInv'
  <2>1. AcqRight(t)'
    BY <1>2, <1>7, <1>11 DEF AcqRight, Acquiring
  <2>2. Reserves(t) = 0 /\ Reserves(t)' = 0
    BY <1>1, <1>2 DEF Reserves
  <2>3. Len(idstack') = Len(idstack) + k /\ Len(idstack) \in Nat
    BY ReleaseTeams DEF k, PoolInv, PoolTypes
  <2>4. Len(idstack)' + Cardinality(Working)' = Len(idstack) + Cardinality(Working)
    BY <1>9, <1>11, <2>3
  <2>5. waiting_threads' + Positive(Reserves(t)') >= waiting_threads + Positive(Reserves(t))
    BY <1>1, <2>2, AcqTypes DEF Positive
  <2> QED
    BY <1>1, <1>2, <1>5, <2>1, <2>4, <2>5, IdsKept
<1> QED
    BY <1>5, <1>11, <1>12, <1>13, <1>14, Balance

\* Its master counts them as waiting.
LEMMA ReleaseCountBalance ==
    ASSUME PoolInv, PoolInv', Conservation, IdsInv, NEW t \in Thread, ReleaseCount(t)
    PROVE  Conservation' /\ IdsInv'
<1> DEFINE k == Len(teams[team[t]].members) - 1
<1>1. /\ pc[t] = "release" /\ pc' = [pc EXCEPT ![t] = "work"]
      /\ waiting_threads' = waiting_threads + k
      /\ teams' = [x \in (DOMAIN teams) \ {team[t]} |-> teams[x]]
      /\ \A u \in Thread \ {t} : team'[u] = team[u]
      /\ UNCHANGED <<created, acq, idstack>>
    BY DEF ReleaseCount, Goto, PoolInv, PoolTypes
<1>2. pc'[t] = "work" /\ \A u \in Thread \ {t} : pc'[u] = pc[u]
    BY <1>1, AcqTypes
<1>3. ASSUME NEW u \in Thread \ {t} PROVE Held(u)' = Held(u)
  <2>1. ASSUME pc[u] = "release" PROVE teams'[team'[u]].members = teams[team[u]].members
    <3>1. /\ saved[u] # <<>> /\ saved[t] # <<>>
          /\ team[u] \in DOMAIN teams /\ team[u] = ForkedTeam(u) /\ team[t] = ForkedTeam(t)
        BY <1>1, <2>1 DEF PoolInv, TeamInv, MasterAt
    <3>2. ForkedTeam(u).master = u /\ ForkedTeam(t).master = t
        BY DEF ForkedTeam
    <3>3. team[u] # team[t]
        BY <3>1, <3>2
    <3> QED
        BY <1>1, <3>1, <3>3
  <2> QED
    BY <1>1, <1>2, <2>1, HeldKept
<1>4. Held(t) = k
    BY <1>1 DEF Held, Acquiring
<1>5. Held(t)' = 0
    BY <1>2 DEF Held, Acquiring
<1>6. Counting' = Counting /\ Working' = Working
    BY <1>1, <1>2, ReleaseCountTeams DEF Counting
<1>7. k \in Int
  <2>1. Held(t) \in Int
    BY HeldType DEF HeldInt
  <2> QED
    BY <1>4, <2>1
<1> HIDE DEF k
<1>8. /\ Cardinality(Working) \in Nat /\ Cardinality(created) \in Nat
      /\ Cardinality(Counting) \in Nat
    BY SetFacts
<1>9. /\ Cardinality(Working)' = Cardinality(Working) + 0
      /\ Cardinality(created)' = Cardinality(created) + 0
      /\ Cardinality(Counting)' = Cardinality(Counting) + 0
    BY <1>1, <1>6, <1>8
<1>10. k + 0 + (Held(t)' - Held(t)) = 0 - 0
    BY <1>4, <1>5, <1>7
<1>11. IdsInv'
  <2>1. AcqRight(t)'
    BY <1>2 DEF AcqRight, Acquiring
  <2>2. Reserves(t) = 0 /\ Reserves(t)' = 0
    BY <1>1, <1>2 DEF Reserves
  <2>3. k >= 0
    BY <1>1, <1>4 DEF IdsInv, AcqRight
  <2>4. Len(idstack)' + Cardinality(Working)' = Len(idstack) + Cardinality(Working)
    BY <1>1, <1>6
  <2>5. waiting_threads' + Positive(Reserves(t)') >= waiting_threads + Positive(Reserves(t))
    BY <1>1, <1>7, <2>2, <2>3, AcqTypes DEF Positive
  <2> QED
    BY <1>1, <1>2, <1>3, <2>1, <2>4, <2>5, IdsKept
<1> QED
    BY <1>1, <1>3, <1>7, <1>9, <1>10, <1>11, Balance

LEMMA AccountStep ==
    ASSUME PoolInv, PoolInv', Conservation, IdsInv, [Next]_vars
    PROVE  Conservation' /\ IdsInv'
<1>1. ASSUME NEW t \in Thread, ThreadStep(t) PROVE Conservation' /\ IdsInv'
    BY <1>1, AcquireBalance, PthreadBalance, AssignBalance, WorkerBalance, ReleaseBalance,
       ReleaseCountBalance DEF ThreadStep
<1>2. ASSUME NEW t \in Thread, ForkStep(t) PROVE Conservation' /\ IdsInv'
    BY <1>2, ForkBalance
<1>3. CASE UNCHANGED vars
  <2>1. /\ InHand' = InHand /\ Owed' = Owed /\ Working' = Working /\ Reserved' = Reserved
        /\ \A t \in Thread : AcqRight(t)' <=> AcqRight(t)
    BY <1>3 DEF vars, counters, threadVars, Working, InTeams, InHand, Owed, Held, Reserved,
                Reserves, AcqRight
  <2> QED
    BY <1>3, <2>1 DEF vars, counters, Conservation, IdsInv
<1> QED
    BY <1>1, <1>2, <1>3 DEF Next

LEMMA AccountInit == ASSUME Init PROVE Conservation /\ IdsInv
<1>1. \A t \in Thread : pc[t] \in {"work", "wait"}
    BY DEF Init
<1>2. \A t \in Thread : Held(t) = 0
    BY <1>1 DEF Held, Acquiring
<1>3. InHand = {} /\ Owed = {}
  <2>1. \A t \in Thread : (1 .. Held(t)) = {} /\ (1 .. -Held(t)) = {}
    BY <1>2
  <2> QED
    BY <2>1 DEF InHand, Owed
<1>4. Working = {} /\ {t \in Thread : pc[t] = "count"} = {}
    BY <1>1 DEF Init, Working, InTeams
<1>5. Cardinality(created) = TeamSize
    BY PoolAssumption, FS_Interval DEF Init
<1>6. Cardinality({}) = 0
    BY FS_EmptySet
<1>7. /\ Cardinality(InHand) = 0 /\ Cardinality(Owed) = 0 /\ Cardinality(Working) = 0
      /\ Cardinality({t \in Thread : pc[t] = "count"}) = 0
    BY <1>3, <1>4, <1>6, Zenon
<1>8. waiting_threads = TeamSize - 1 /\ TeamSize \in Int
    BY PoolAssumption DEF Init
<1>9. Conservation
    BY <1>5, <1>7, <1>8 DEF Conservation
<1>10. IdsInv
  <2>1. \A t \in Thread : AcqRight(t) /\ Reserves(t) = 0
    BY <1>1 DEF AcqRight, Acquiring, Reserves
  <2>2. Reserved = {}
    BY <2>1 DEF Reserved
  <2>3. Cardinality(Reserved) = 0
    BY <1>6, <2>2, Zenon
  <2>4. Len(idstack) = MaxThreads - 1
    BY PoolAssumption DEF Init
  <2>5. waiting_threads >= 0
    BY <1>8, PoolAssumption
  <2> QED
    BY <1>7, <1>8, <2>1, <2>3, <2>4, <2>5, PoolAssumption DEF IdsInv
<1> QED
    BY <1>9, <1>10

(***************************************************************************)
(* A fork that is about to pop its ids                                     *)
(***************************************************************************)
LEMMA IdsEnough ==
    ASSUME PoolInv, Conservation, IdsInv, ~Overdrawn, NEW t \in Thread, pc[t] = "assign"
    PROVE  Len(idstack) >= acq[t].count - 1
<1> DEFINE k == acq[t].count - 1
           F == [u \in Thread |-> Held(u)]
           G == [u \in Thread |-> Reserves(u)]
           H == [u \in Thread |-> IF u = t THEN k ELSE Reserves(u)]
<1>1. \A u \in Thread : /\ Held(u) \in Int /\ Reserves(u) \in Int
                        /\ acq[u].count \in Int /\ acq[u].required \in Int
    BY HeldType, ReservesType, AcqTypes DEF HeldInt, ReservesInt
<1>2. \A u \in Thread : pc[u] \in Acquiring => acq[u].count >= 1
    BY <1>1 DEF Overdrawn
<1>3. ASSUME NEW u \in Thread PROVE Held(u) >= 0 /\ Reserves(u) <= Held(u)
  <2>1. AcqRight(u)
    BY DEF IdsInv
  <2>2. CASE pc[u] = "putback"
    <3>1. /\ Held(u) = acq[u].count - 1 + acq[u].required /\ Reserves(u) = acq[u].required
          /\ acq[u].count >= 1 /\ acq[u].required > 0
        BY <1>2, <2>1, <2>2 DEF Held, Reserves, AcqRight, Acquiring
    <3> QED
        BY <1>1, <3>1
  <2>3. CASE pc[u] \in Acquiring \ {"putback"}
    <3>1. Held(u) = acq[u].count - 1 /\ Reserves(u) = 0 /\ acq[u].count >= 1
        BY <1>2, <2>3 DEF Held, Reserves, Acquiring
    <3> QED
        BY <1>1, <3>1
  <2>4. CASE pc[u] = "release"
    BY <2>1, <2>4 DEF Reserves, AcqRight
  <2>5. CASE pc[u] \in {"work", "wait"}
    <3>1. Held(u) = 0 /\ Reserves(u) = 0
        BY <2>5 DEF Held, Reserves, Acquiring
    <3> QED
        BY <3>1
  <2>6. pc[u] \in Acquiring \cup {"work", "wait", "release"}
    BY AcqTypes
  <2> QED
    BY <2>2, <2>3, <2>4, <2>5, <2>6
<1>4. Held(t) = k /\ Reserves(t) = 0 /\ k \in Nat
  <2>1. Held(t) = k /\ Reserves(t) = 0
    BY DEF Held, Reserves, Acquiring
  <2>2. acq[t].count >= 1
    BY <1>2 DEF Acquiring
  <2> QED
    BY <1>1, <2>1, <2>2
<1> HIDE DEF k
<1>5. /\ F \in [Thread -> Int] /\ G \in [Thread -> Int] /\ H \in [Thread -> Int]
      /\ \A u \in Thread \ {t} : H[u] = G[u]
      /\ H[t] = k /\ G[t] = 0
    BY <1>1, <1>4
<1>6. Rows(H) \subseteq Rows(F)
  <2>1. \A u \in Thread : H[u] \in Int /\ F[u] \in Int /\ H[u] <= F[u]
    BY <1>1, <1>3, <1>4
  <2> HIDE DEF H, F
  <2>2. \A u \in Thread : (1 .. H[u]) \subseteq (1 .. F[u])
    BY <2>1
  <2> QED
    BY <2>2 DEF Rows
<1>7. InHand = Rows(F) /\ Reserved = Rows(G)
    BY DEF InHand, Reserved, Rows
<1>8. Owed = {}
  <2>1. \A u \in Thread : (1 .. -Held(u)) = {}
    BY <1>1, <1>3
  <2> QED
    BY <2>1 DEF Owed
<1> HIDE DEF F, G, H
<1>9. /\ Cardinality(Rows(G)) \in Nat /\ Cardinality(Rows(H)) \in Nat
      /\ Cardinality(Rows(H)) - Cardinality(Rows(G)) = k
  <2>1. Positive(H[t]) - Positive(G[t]) = k
    BY <1>4, <1>5 DEF Positive
  <2> QED
    BY <1>5, <2>1, RowsChange
<1>10. Cardinality(Rows(H)) <= Cardinality(Rows(F)) /\ Cardinality(Rows(F)) \in Nat
  <2>1. IsFiniteSet(Rows(F))
    BY <1>5, RowsSplit
  <2> QED
    BY <1>6, <2>1, FS_Subset, FS_CardinalityType
<1>11. Cardinality(Owed) = 0
  <2>1. Cardinality({}) = 0
    BY FS_EmptySet
  <2> QED
    BY <1>8, <2>1, Zenon
<1>12. /\ Cardinality(Working) \in Nat /\ Cardinality(created) \in Nat
       /\ Cardinality(created) <= MaxThreads /\ Cardinality(Counting) \in Nat
    BY SetFacts
<1>13. waiting_threads \in Int /\ MaxThreads \in Nat /\ Len(idstack) \in Nat
    BY PoolAssumption DEF PoolInv, PoolTypes
<1>14. waiting_threads + Cardinality(Working) + Cardinality(InHand) - Cardinality(Owed)
        = Cardinality(created) - 1 - Cardinality(Counting)
    BY DEF Conservation, Counting
<1>15. /\ Len(idstack) + Cardinality(Working) = MaxThreads - 1
       /\ waiting_threads + Cardinality(Reserved) >= 0
    BY DEF IdsInv
<1>16. Len(idstack) >= k
    BY <1>4, <1>7, <1>9, <1>10, <1>11, <1>12, <1>13, <1>14, <1>15
<1> QED
    BY <1>16 DEF k

LEMMA AccountHolds == Spec => [](Conservation /\ IdsInv)
<1> DEFINE Inv == PoolInv /\ Conservation /\ IdsInv
<1>1. Init => Inv
    BY InitPoolInv, AccountInit
<1>2. Inv /\ [Next]_vars => Inv'
    BY NextPoolInv, AccountStep
<1>3. Inv => Conservation /\ IdsInv
    OBVIOUS
<1> HIDE DEF Inv
<1> QED
    BY <1>1, <1>2, <1>3, PTL DEF Spec

\* The pool loses and invents no thread, whatever the forks that acquire,
\* create and release threads at the same time see of each other's xadds
\* on waiting_threads (__pmp_thread_acquire, __pmp_thread_release).
THEOREM ConservationHolds == Spec => []Conservation
BY AccountHolds, PTL

\* The id stack does not underflow in __pmp_thread_assign, as long as no fork
\* has taken an overdraft of waiting_threads for a number of threads, and no
\* fork gets more threads than it asked for.
THEOREM IdsSufficeHolds == Spec => []IdsSuffice
<1>1. PoolInv /\ Conservation /\ IdsInv => IdsSuffice
  <2> SUFFICES ASSUME PoolInv, Conservation, IdsInv, NEW t \in Thread, pc[t] = "assign"
               PROVE  /\ Overdrawn \/ Len(idstack) >= acq[t].count - 1
                      /\ acq[t].count <= acq[t].nthreads
    BY DEF IdsSuffice
  <2>1. Overdrawn \/ Len(idstack) >= acq[t].count - 1
    BY IdsEnough
  <2>2. acq[t].count <= acq[t].nthreads
    BY DEF IdsInv, AcqRight, Acquiring
  <2> QED
    BY <2>1, <2>2
<1> QED
    BY <1>1, PoolInvariant, AccountHolds, PTL
=============================================================================
