------------------------- MODULE FortranUnitsProofs -------------------------
(***************************************************************************)
(* Proofs about FortranUnits for every set of threads, units and files.    *)
(* What the locks protect depends on what the program does, since some     *)
(* ways through the library unlock a mutex twice or not at all; the        *)
(* theorems say for which programs they hold.                              *)
(***************************************************************************)
EXTENDS FortranUnits, WellFoundedInduction, TLAPS

(***************************************************************************)
(* Programs                                                                *)
(***************************************************************************)
\* No OPEN fails between the close of a reopen and _alloc_unit, which would
\* release the unit twice (opn.c:446).
ReleasesOnce(p) == \A s \in p.stmts : ~(s.op = "open" /\ s.fault = "name")

\* The files the program may connect unit u to.
FilesOf(p, u) ==
    {p.conn[v] : v \in DOMAIN p.conn \cap {u}}
      \cup {IF s.file = NoFile THEN Default[u] ELSE s.file :
              s \in {x \in p.stmts : x.unit = u /\ x.op \in {"open", "write"}}}

OnStdFile(p, u) == FilesOf(p, u) \cap StdFile # {}

\* A unit that the program connects to a standard file is connected to no
\* other one, is no AQ or WA file, and no statement on it fails.
StdUnitsApart(p) ==
    \A u \in Unit : OnStdFile(p, u) =>
        /\ \A f, g \in FilesOf(p, u) : f = g
        /\ \A s \in p.stmts : s.unit = u => s.op # "aqopen" /\ s.fault = "none"

Careful(p) == ReleasesOnce(p) /\ StdUnitsApart(p)

\* No INQUIRE by unit, which takes the locks in the wrong order.
NoInquireUnit(p) == \A s \in p.stmts : s.op # "inquire_unit"

\* No AQ or WA file, whose connection is not checked, and no two units that
\* are connected to the same regular file to begin with.
ChecksFiles(p) ==
    /\ \A s \in p.stmts : s.op # "aqopen"
    /\ \A u, v \in DOMAIN p.conn :
         p.conn[u] = p.conn[v] /\ p.conn[u] \notin StdFile => u = v
-----------------------------------------------------------------------------
(***************************************************************************)
(* The inductive invariant                                                 *)
(***************************************************************************)
Labels == {"idle", "openlock", "get", "test", "io", "release", "release2", "openunlock",
           "opn", "name", "alloc", "connect", "check", "close", "closeunlock",
           "scan", "scanaux", "clear"}

UnitsTypeOK ==
    /\ program \in Programs
    /\ owner \in [Lock -> Thread \cup {Nobody}]
    /\ linked \subseteq Unit
    /\ ufs \in [Unit -> {"closed", "text", "aux"}]
    /\ auxlockp \in [Unit -> {NoLock} \cup {Aux(s) : s \in StdFile}]
    /\ conn \in [Unit -> File \cup StdFile \cup {NoFile}]
    /\ pc \in [Thread -> Labels]
    /\ stmt \in [Thread -> Stmt \cup {NoStmt}]
    /\ cup \in [Thread -> Unit \cup {NoUnit}]
    /\ ret \in [Thread -> {"idle", "openunlock", "name", "scan"}]

\* A thread is in a statement of the program, at a label of that statement.
AtLabel(t) ==
    pc[t] # "idle" =>
        /\ t \in program.threads
        /\ stmt[t] \in program.stmts
        /\ pc[t] = "opn" => Op(t) = "open"
        /\ pc[t] \in {"name", "check"} => Op(t) \in {"open", "write"}
        /\ pc[t] \in {"alloc", "connect"} => Op(t) \in {"open", "write", "aqopen"}
        /\ pc[t] \in {"close", "closeunlock"} => Op(t) = "close"
        /\ pc[t] \in {"scan", "scanaux"} => Op(t) = "inquire_file"
        /\ pc[t] = "clear" => Op(t) = "aqclose"
        /\ pc[t] = "io" => Op(t) \in {"write", "flush"}
        /\ pc[t] \in {"openlock", "openunlock"} => Op(t) # "flush"
        /\ pc[t] \in {"get", "test"} => Op(t) # "inquire_file"
        /\ pc[t] \in {"release", "release2"} => Op(t) # "close"

\* Where a thread has a unit pointer, and that it is the unit of its
\* statement, or one in the table that a scan has found.
CupAt(t) ==
    /\ pc[t] \in {"idle", "get", "test"} => cup[t] = NoUnit
    /\ pc[t] = "openlock" /\ Op(t) # "inquire_unit" => cup[t] = NoUnit
    /\ pc[t] = "name" /\ Op(t) = "write" => cup[t] = NoUnit
    /\ pc[t] = "name" /\ Fault(t) = "spec" => cup[t] = NoUnit
    /\ pc[t] = "openunlock" /\ Op(t) \in {"open", "aqopen", "close"} => cup[t] = NoUnit
    /\ pc[t] \in {"opn", "connect", "check", "close", "closeunlock", "clear", "io",
                  "scanaux", "release", "release2"} => cup[t] # NoUnit
    /\ pc[t] # "idle" /\ cup[t] # NoUnit /\ Op(t) # "inquire_file" => cup[t] = stmt[t].unit

\* Where a thread returns to from _release_cup.
RetAt(t) ==
    pc[t] # "idle" =>
        /\ Op(t) \in {"open", "aqopen"} => ret[t] \in {"openunlock", "name"}
        /\ ret[t] = "name" =>
            pc[t] \in {"release", "release2"} /\ Op(t) = "open" /\ Fault(t) # "spec"
        /\ Op(t) = "inquire_file" => ret[t] \in {"idle", "scan"}
        /\ Op(t) \in {"write", "flush", "inquire_unit", "close"} => ret[t] = "idle"
        /\ Op(t) = "aqclose" => ret[t] \in {"idle", "openunlock"}
        /\ Op(t) = "aqclose" /\ pc[t] \notin {"release", "release2"} => ret[t] = "openunlock"

\* Where a thread holds _openlock: always or never, but in the search for the
\* unit of a data transfer, which is made without it and then with it.
UnderOpenLock(t) ==
    \/ pc[t] \in {"opn", "name", "alloc", "connect", "check", "close", "closeunlock",
                  "scan", "scanaux", "clear", "openunlock"}
    \/ pc[t] \in {"get", "test"} /\ Op(t) \in {"open", "close", "aqopen", "aqclose"}
    \/ pc[t] \in {"release", "release2"} /\ ret[t] # "idle"

OpenLockAt(t) ==
    /\ UnderOpenLock(t) => owner[OpenLock] = t
    /\ owner[OpenLock] = t =>
        UnderOpenLock(t) \/ (pc[t] \in {"get", "test"} /\ Op(t) = "write")

\* What a thread knows of its unit under _openlock: nobody has connected the
\* unit it is about to connect, or closed the one it has found.
UnitAt(t) ==
    /\ pc[t] \in {"name", "alloc", "connect"} => ~Opened(stmt[t].unit)
    /\ pc[t] \in {"release", "release2"} /\ ret[t] = "name" => ~Opened(stmt[t].unit)
    /\ pc[t] = "connect" => cup[t] \in linked
    /\ pc[t] = "clear" => ufs[cup[t]] = "aux"
    /\ pc[t] = "check" => ufs[cup[t]] = "text"
    /\ pc[t] \in {"opn", "close", "scanaux"} => Opened(cup[t])

\* A unit that is not in the table is not connected.
LinkedOpen == \A u \in Unit : Opened(u) => u \in linked

ThreadInv(t) == AtLabel(t) /\ CupAt(t) /\ RetAt(t) /\ OpenLockAt(t) /\ UnitAt(t)

TableInv ==
    /\ UnitsTypeOK
    /\ LinkedOpen
    /\ \A t \in Thread : ThreadInv(t)
-----------------------------------------------------------------------------
\* Where a thread has its unit locked.
HoldsUnit(t, u) ==
    \/ pc[t] = "test" /\ u = stmt[t].unit
    \/ /\ u = cup[t]
       /\ pc[t] \in {"io", "opn", "connect", "check", "close", "closeunlock", "scanaux",
                     "clear", "release", "openunlock", "openlock"}

UnitOwnerAt(t) == \A u \in Unit : owner[Uio(u)] = t <=> HoldsUnit(t, u)

UnitOwner == \A t \in Thread : UnitOwnerAt(t)

\* Where a thread has the standard file of its unit locked, too.
HoldsAux(t) ==
    /\ pc[t] \in {"io", "opn", "close", "release", "release2", "openunlock", "openlock"}
    /\ cup[t] # NoUnit

AuxOwnerAt(t) ==
    /\ HoldsAux(t) /\ OnStdFile(program, cup[t]) =>
        ufs[cup[t]] = "text" /\ owner[auxlockp[cup[t]]] = t
    /\ \A s \in StdFile : owner[Aux(s)] = t => HoldsAux(t) /\ auxlockp[cup[t]] = Aux(s)

AuxOwner == \A t \in Thread : AuxOwnerAt(t)

\* The lock of a unit is the one of the standard file the program uses it for.
AuxRight ==
    \A u \in Unit :
        /\ auxlockp[u] # NoLock => OnStdFile(program, u)
        /\ conn[u] \in StdFile => OnStdFile(program, u)
        /\ ufs[u] = "text" => conn[u] \in FilesOf(program, u) /\ auxlockp[u] = LockOf(conn[u])
        /\ ufs[u] = "aux" => ~OnStdFile(program, u)
-----------------------------------------------------------------------------
(***************************************************************************)
(* Facts about the constants                                               *)
(***************************************************************************)
\* A set of natural numbers has a least element, the one that Min chooses.
LEMMA MinOfNats ==
    ASSUME NEW S \in SUBSET Nat, S # {}
    PROVE  Min(S) \in S /\ \A x \in S : Min(S) <= x
<1>1. \E x \in S : \A y \in S : ~(<<y, x>> \in OpToRel(<, Nat))
    BY WFMin, NatLessThanWellFounded
<1>2. ASSUME NEW x \in Nat, NEW y \in Nat, ~(<<y, x>> \in OpToRel(<, Nat))
      PROVE x <= y
    BY <1>2 DEF OpToRel
<1>3. \E x \in S : \A y \in S : x <= y
    BY <1>1, <1>2
<1> QED
    BY <1>3 DEF Min

\* The mutexes are different from each other.
LEMMA LocksDiffer ==
    /\ OpenLock \in Lock /\ OpenLock # NoLock /\ NoLock \notin Lock
    /\ \A u \in Unit : Uio(u) \in Lock /\ Uio(u) # OpenLock /\ Uio(u) # NoLock
    /\ \A s \in StdFile : Aux(s) \in Lock /\ Aux(s) # OpenLock /\ Aux(s) # NoLock
    /\ \A u, v \in Unit : Uio(u) = Uio(v) => u = v
    /\ \A s, r \in StdFile : Aux(s) = Aux(r) => s = r
    /\ \A u \in Unit, s \in StdFile : Uio(u) # Aux(s)
BY DEF Lock, OpenLock, NoLock, Uio, Aux

-----------------------------------------------------------------------------
(***************************************************************************)
(* The table: _openlock, and what is done under it                         *)
(***************************************************************************)
LEMMA InitTableInv == Init => TableInv
BY UnitsAssumption, LocksDiffer
DEF Init, TableInv, UnitsTypeOK, LinkedOpen, ThreadInv, AtLabel, CupAt, RetAt, OpenLockAt,
    UnderOpenLock, UnitAt, Labels, NoStmt, LockOf, Opened

\* What the statement of a thread consists of.
LEMMA StmtFacts ==
    ASSUME TableInv, NEW t \in Thread, pc[t] # "idle"
    PROVE  /\ stmt[t].unit \in Unit /\ stmt[t].unit # NoUnit
           /\ stmt[t].file \in File \cup {NoFile}
           /\ stmt[t].op \in Ops
           /\ stmt[t] # NoStmt
BY UnitsAssumption DEF TableInv, UnitsTypeOK, ThreadInv, AtLabel, Stmt, NoStmt, Ops, NoUnit

\* An auxiliary lock is none of the others.
LEMMA AuxFacts ==
    ASSUME TableInv, NEW u \in Unit
    PROVE  /\ auxlockp[u] = NoLock \/ \E s \in StdFile : auxlockp[u] = Aux(s)
           /\ auxlockp[u] # NoLock => auxlockp[u] \in Lock
           /\ auxlockp[u] # OpenLock
           /\ \A v \in Unit : auxlockp[u] # Uio(v)
BY LocksDiffer DEF TableInv, UnitsTypeOK

\* A scan goes on with a unit of the table that is open.
LEMMA ScanFacts ==
    ASSUME TableInv, NEW t \in Thread, RestOfScan(t) # {}
    PROVE  /\ Min(RestOfScan(t)) \in linked /\ Opened(Min(RestOfScan(t)))
           /\ Min(RestOfScan(t)) \in Unit \ {NoUnit}
<1>1. RestOfScan(t) \in SUBSET Nat /\ RestOfScan(t) \subseteq Unit
    BY UnitsAssumption DEF RestOfScan, TableInv, UnitsTypeOK
<1>2. Min(RestOfScan(t)) \in RestOfScan(t)
    BY <1>1, MinOfNats
<1> QED
    BY <1>1, <1>2, UnitsAssumption DEF RestOfScan

\* A step of t leaves the statements of the other threads alone.
OthersKeep(t) ==
    \A r \in Thread \ {t} :
        pc'[r] = pc[r] /\ stmt'[r] = stmt[r] /\ cup'[r] = cup[r] /\ ret'[r] = ret[r]

\* What a step of t has to keep for the invariant to hold of all threads: the
\* table changes only under _openlock.
LEMMA TableStep ==
    ASSUME TableInv, NEW t \in Thread, UnitsTypeOK', LinkedOpen', ThreadInv(t)',
           program' = program, OthersKeep(t),
           \/ owner'[OpenLock] = owner[OpenLock]
           \/ owner[OpenLock] \in {t, Nobody} /\ owner'[OpenLock] \in {t, Nobody},
           ufs' = ufs \/ UnderOpenLock(t), linked \subseteq linked'
    PROVE  TableInv'
<1> SUFFICES ASSUME NEW r \in Thread, r # t PROVE ThreadInv(r)'
    BY DEF TableInv
<1>1. pc'[r] = pc[r] /\ stmt'[r] = stmt[r] /\ cup'[r] = cup[r] /\ ret'[r] = ret[r]
    BY DEF OthersKeep
<1>2. ThreadInv(r)
    BY DEF TableInv
<1>3. AtLabel(r)' /\ CupAt(r)' /\ RetAt(r)'
    BY <1>1, <1>2 DEF ThreadInv, AtLabel, CupAt, RetAt, Op, Fault
<1>4. OpenLockAt(r)'
    BY <1>1, <1>2, UnitsAssumption DEF ThreadInv, OpenLockAt, UnderOpenLock, Op
<1>5. UnitAt(r)'
  <2>1. CASE ufs' = ufs
    BY <1>1, <1>2, <2>1 DEF ThreadInv, UnitAt, Opened
  <2>2. CASE UnderOpenLock(t)
    <3>1. owner[OpenLock] = t
        BY <2>2 DEF TableInv, ThreadInv, OpenLockAt
    <3>2. ~UnderOpenLock(r)
        BY <1>2, <3>1 DEF ThreadInv, OpenLockAt
    <3> QED
        BY <1>1, <3>2 DEF UnitAt, UnderOpenLock
  <2> QED
    BY <2>1, <2>2
<1> QED
    BY <1>3, <1>4, <1>5 DEF ThreadInv

LEMMA StepOthers ==
    ASSUME TableInv, NEW t \in Thread, StmtStep(t)
    PROVE  program' = program /\ OthersKeep(t)
BY DEF TableInv, UnitsTypeOK, StmtStep, OthersKeep, OpenLockStep, GetCup, TestCup, Transfer,
    ReleaseUnit, ReleaseAux, OpenUnlockStep, OpenConnected, Reopen, OpenName, AllocUnit,
    Connect, CheckOpen, Close, CloseUnlock, ScanNext, ScanUnit, SetUptr, ClrUptr, Return,
    Goto, Continue, SetCup

LEMMA StepTableInv ==
    ASSUME TableInv, NEW t \in Thread, t \in program.threads, StmtStep(t)
    PROVE  TableInv'
<1> USE UnitsAssumption, LocksDiffer DEF UnitsTypeOK, Goto, Continue, SetCup, MEM_LOCK, MEM_UNLOCK, MEM_LOCK_IF, tableVars
<1>0. program' = program /\ OthersKeep(t)
    BY StepOthers
<1>1. UnitsTypeOK /\ LinkedOpen /\ ThreadInv(t)
    BY DEF TableInv
<1>2. pc[t] # "idle" => /\ stmt[t].unit \in Unit /\ stmt[t].unit # NoUnit
           /\ stmt[t].file \in File \cup {NoFile}
           /\ stmt[t].op \in Ops
           /\ stmt[t] # NoStmt
    BY StmtFacts
<1>3. \A u \in Unit :
           /\ auxlockp[u] # NoLock => auxlockp[u] \in Lock
           /\ auxlockp[u] # OpenLock
    BY AuxFacts
<1>4. CASE OpenLockStep(t)
  <2>1. UnitsTypeOK'
    BY <1>1, <1>2, <1>3, <1>4 DEF OpenLockStep, Labels, ThreadInv, CupAt
  <2>2. /\ \/ owner'[OpenLock] = owner[OpenLock]
           \/ owner[OpenLock] \in {t, Nobody} /\ owner'[OpenLock] \in {t, Nobody}
        /\ ufs' = ufs \/ UnderOpenLock(t)
        /\ linked \subseteq linked'
    BY <1>1, <1>2, <1>3, <1>4 DEF OpenLockStep, ThreadInv, CupAt, OpenLockAt, UnderOpenLock
  <2>3. LinkedOpen'
    BY <1>1, <1>2, <1>3, <1>4 DEF OpenLockStep, LinkedOpen, Opened
  <2>4. ThreadInv(t)'
    BY <1>1, <1>2, <1>3, <1>4 DEF OpenLockStep, ThreadInv, AtLabel, CupAt, RetAt, OpenLockAt, UnderOpenLock, UnitAt, Op, Fault, Opened, Ops, LinkedOpen
  <2> QED
    BY <1>0, <2>1, <2>2, <2>3, <2>4, TableStep
<1>5. CASE GetCup(t)
  <2>0. Connected(t) \in Labels /\ Unconnected(t) \in Labels
    BY DEF Connected, Unconnected, Labels
  <2>1. UnitsTypeOK'
    BY <1>1, <1>2, <1>3, <1>5, <2>0 DEF GetCup, Labels, ThreadInv, CupAt
  <2>2. /\ \/ owner'[OpenLock] = owner[OpenLock]
           \/ owner[OpenLock] \in {t, Nobody} /\ owner'[OpenLock] \in {t, Nobody}
        /\ ufs' = ufs \/ UnderOpenLock(t)
        /\ linked \subseteq linked'
    BY <1>1, <1>2, <1>3, <1>5 DEF GetCup, Unconnected, ThreadInv, CupAt, OpenLockAt, UnderOpenLock
  <2>3. LinkedOpen'
    BY <1>1, <1>2, <1>3, <1>5 DEF GetCup, Unconnected, LinkedOpen, Opened
  <2>4. ThreadInv(t)'
    BY <1>1, <1>2, <1>3, <1>5 DEF GetCup, Unconnected, ThreadInv, AtLabel, CupAt, RetAt, OpenLockAt, UnderOpenLock, UnitAt, Op, Fault, Opened, Ops, LinkedOpen
  <2> QED
    BY <1>0, <2>1, <2>2, <2>3, <2>4, TableStep
<1>6. CASE TestCup(t)
  <2>0. Connected(t) \in Labels /\ Unconnected(t) \in Labels
    BY DEF Connected, Unconnected, Labels
  <2>1. UnitsTypeOK'
    BY <1>1, <1>2, <1>3, <1>6, <2>0 DEF TestCup, Labels, ThreadInv, CupAt
  <2>2. /\ \/ owner'[OpenLock] = owner[OpenLock]
           \/ owner[OpenLock] \in {t, Nobody} /\ owner'[OpenLock] \in {t, Nobody}
        /\ ufs' = ufs \/ UnderOpenLock(t)
        /\ linked \subseteq linked'
    BY <1>1, <1>2, <1>3, <1>6 DEF TestCup, Connected, Unconnected, ThreadInv, CupAt, OpenLockAt, UnderOpenLock
  <2>3. LinkedOpen'
    BY <1>1, <1>2, <1>3, <1>6 DEF TestCup, Connected, Unconnected, LinkedOpen, Opened
  <2>4. ThreadInv(t)'
    BY <1>1, <1>2, <1>3, <1>6 DEF TestCup, Connected, Unconnected, ThreadInv, AtLabel, CupAt, RetAt, OpenLockAt, UnderOpenLock, UnitAt, Op, Fault, Opened, Ops, LinkedOpen
  <2> QED
    BY <1>0, <2>1, <2>2, <2>3, <2>4, TableStep
<1>7. CASE Transfer(t)
  <2>1. UnitsTypeOK'
    BY <1>1, <1>2, <1>3, <1>7 DEF Transfer, Labels, ThreadInv, CupAt
  <2>2. /\ \/ owner'[OpenLock] = owner[OpenLock]
           \/ owner[OpenLock] \in {t, Nobody} /\ owner'[OpenLock] \in {t, Nobody}
        /\ ufs' = ufs \/ UnderOpenLock(t)
        /\ linked \subseteq linked'
    BY <1>1, <1>2, <1>3, <1>7 DEF Transfer, ThreadInv, CupAt, OpenLockAt, UnderOpenLock
  <2>3. LinkedOpen'
    BY <1>1, <1>2, <1>3, <1>7 DEF Transfer, LinkedOpen, Opened
  <2>4. ThreadInv(t)'
    BY <1>1, <1>2, <1>3, <1>7 DEF Transfer, ThreadInv, AtLabel, CupAt, RetAt, OpenLockAt, UnderOpenLock, UnitAt, Op, Fault, Opened, Ops, LinkedOpen
  <2> QED
    BY <1>0, <2>1, <2>2, <2>3, <2>4, TableStep
<1>8. CASE ReleaseUnit(t)
  <2>1. UnitsTypeOK'
    BY <1>1, <1>2, <1>3, <1>8 DEF ReleaseUnit, Labels, ThreadInv, CupAt
  <2>2. /\ \/ owner'[OpenLock] = owner[OpenLock]
           \/ owner[OpenLock] \in {t, Nobody} /\ owner'[OpenLock] \in {t, Nobody}
        /\ ufs' = ufs \/ UnderOpenLock(t)
        /\ linked \subseteq linked'
    BY <1>1, <1>2, <1>3, <1>8 DEF ReleaseUnit, ThreadInv, CupAt, OpenLockAt, UnderOpenLock
  <2>3. LinkedOpen'
    BY <1>1, <1>2, <1>3, <1>8 DEF ReleaseUnit, LinkedOpen, Opened
  <2>4. ThreadInv(t)'
    BY <1>1, <1>2, <1>3, <1>8 DEF ReleaseUnit, ThreadInv, AtLabel, CupAt, RetAt, OpenLockAt, UnderOpenLock, UnitAt, Op, Fault, Opened, Ops, LinkedOpen
  <2> QED
    BY <1>0, <2>1, <2>2, <2>3, <2>4, TableStep
<1>9. CASE ReleaseAux(t)
  <2>1. UnitsTypeOK'
    BY <1>1, <1>2, <1>3, <1>9 DEF ReleaseAux, Labels, ThreadInv, CupAt
  <2>2. /\ \/ owner'[OpenLock] = owner[OpenLock]
           \/ owner[OpenLock] \in {t, Nobody} /\ owner'[OpenLock] \in {t, Nobody}
        /\ ufs' = ufs \/ UnderOpenLock(t)
        /\ linked \subseteq linked'
    BY <1>1, <1>2, <1>3, <1>9 DEF ReleaseAux, ThreadInv, CupAt, OpenLockAt, UnderOpenLock
  <2>3. LinkedOpen'
    BY <1>1, <1>2, <1>3, <1>9 DEF ReleaseAux, LinkedOpen, Opened
  <2>4. ThreadInv(t)'
    BY <1>1, <1>2, <1>3, <1>9 DEF ReleaseAux, ThreadInv, AtLabel, CupAt, RetAt, OpenLockAt, UnderOpenLock, UnitAt, Op, Fault, Opened, Ops, LinkedOpen
  <2> QED
    BY <1>0, <2>1, <2>2, <2>3, <2>4, TableStep
<1>10. CASE OpenUnlockStep(t)
  <2>1. UnitsTypeOK'
    BY <1>1, <1>2, <1>3, <1>10 DEF OpenUnlockStep, Labels, ThreadInv, CupAt
  <2>2. /\ \/ owner'[OpenLock] = owner[OpenLock]
           \/ owner[OpenLock] \in {t, Nobody} /\ owner'[OpenLock] \in {t, Nobody}
        /\ ufs' = ufs \/ UnderOpenLock(t)
        /\ linked \subseteq linked'
    BY <1>1, <1>2, <1>3, <1>10 DEF OpenUnlockStep, ThreadInv, CupAt, OpenLockAt, UnderOpenLock
  <2>3. LinkedOpen'
    BY <1>1, <1>2, <1>3, <1>10 DEF OpenUnlockStep, LinkedOpen, Opened
  <2>4. ThreadInv(t)'
    BY <1>1, <1>2, <1>3, <1>10 DEF OpenUnlockStep, ThreadInv, AtLabel, CupAt, RetAt, OpenLockAt, UnderOpenLock, UnitAt, Op, Fault, Opened, Ops, LinkedOpen
  <2> QED
    BY <1>0, <2>1, <2>2, <2>3, <2>4, TableStep
<1>11. CASE OpenConnected(t)
  <2>1. UnitsTypeOK'
    BY <1>1, <1>2, <1>3, <1>11 DEF OpenConnected, Stays, Labels, ThreadInv, CupAt
  <2>2. /\ \/ owner'[OpenLock] = owner[OpenLock]
           \/ owner[OpenLock] \in {t, Nobody} /\ owner'[OpenLock] \in {t, Nobody}
        /\ ufs' = ufs \/ UnderOpenLock(t)
        /\ linked \subseteq linked'
    BY <1>1, <1>2, <1>3, <1>11 DEF OpenConnected, Stays, ThreadInv, CupAt, OpenLockAt, UnderOpenLock
  <2>3. LinkedOpen'
    BY <1>1, <1>2, <1>3, <1>11 DEF OpenConnected, Stays, LinkedOpen, Opened
  <2>4. ThreadInv(t)'
    BY <1>1, <1>2, <1>3, <1>11 DEF OpenConnected, Stays, ThreadInv, AtLabel, CupAt, RetAt, OpenLockAt, UnderOpenLock, UnitAt, Op, Fault, Opened, Ops, LinkedOpen
  <2> QED
    BY <1>0, <2>1, <2>2, <2>3, <2>4, TableStep
<1>12. CASE Reopen(t)
  <2>1. UnitsTypeOK'
    BY <1>1, <1>2, <1>3, <1>12 DEF Reopen, UnitClose, Stays, Labels, ThreadInv, CupAt
  <2>2. /\ \/ owner'[OpenLock] = owner[OpenLock]
           \/ owner[OpenLock] \in {t, Nobody} /\ owner'[OpenLock] \in {t, Nobody}
        /\ ufs' = ufs \/ UnderOpenLock(t)
        /\ linked \subseteq linked'
    BY <1>1, <1>2, <1>3, <1>12 DEF Reopen, UnitClose, Stays, ThreadInv, CupAt, OpenLockAt, UnderOpenLock
  <2>3. LinkedOpen'
    BY <1>1, <1>2, <1>3, <1>12 DEF Reopen, UnitClose, Stays, LinkedOpen, Opened
  <2>4. ThreadInv(t)'
    BY <1>1, <1>2, <1>3, <1>12 DEF Reopen, UnitClose, Stays, ThreadInv, AtLabel, CupAt, RetAt, OpenLockAt, UnderOpenLock, UnitAt, Op, Fault, Opened, Ops, LinkedOpen
  <2> QED
    BY <1>0, <2>1, <2>2, <2>3, <2>4, TableStep
<1>13. CASE OpenName(t)
  <2>1. UnitsTypeOK'
    BY <1>1, <1>2, <1>3, <1>13 DEF OpenName, Return, Labels, ThreadInv, CupAt
  <2>2. /\ \/ owner'[OpenLock] = owner[OpenLock]
           \/ owner[OpenLock] \in {t, Nobody} /\ owner'[OpenLock] \in {t, Nobody}
        /\ ufs' = ufs \/ UnderOpenLock(t)
        /\ linked \subseteq linked'
    BY <1>1, <1>2, <1>3, <1>13 DEF OpenName, Return, ThreadInv, CupAt, OpenLockAt, UnderOpenLock
  <2>3. LinkedOpen'
    BY <1>1, <1>2, <1>3, <1>13 DEF OpenName, Return, LinkedOpen, Opened
  <2>4. ThreadInv(t)'
    BY <1>1, <1>2, <1>3, <1>13 DEF OpenName, Return, ThreadInv, AtLabel, CupAt, RetAt, OpenLockAt, UnderOpenLock, UnitAt, Op, Fault, Opened, Ops, LinkedOpen
  <2> QED
    BY <1>0, <2>1, <2>2, <2>3, <2>4, TableStep
<1>14. CASE AllocUnit(t)
  <2>1. UnitsTypeOK'
    BY <1>1, <1>2, <1>3, <1>14 DEF AllocUnit, Labels, ThreadInv, CupAt
  <2>2. /\ \/ owner'[OpenLock] = owner[OpenLock]
           \/ owner[OpenLock] \in {t, Nobody} /\ owner'[OpenLock] \in {t, Nobody}
        /\ ufs' = ufs \/ UnderOpenLock(t)
        /\ linked \subseteq linked'
    BY <1>1, <1>2, <1>3, <1>14 DEF AllocUnit, ThreadInv, CupAt, OpenLockAt, UnderOpenLock
  <2>3. LinkedOpen'
    BY <1>1, <1>2, <1>3, <1>14 DEF AllocUnit, LinkedOpen, Opened
  <2>4. ThreadInv(t)'
    BY <1>1, <1>2, <1>3, <1>14 DEF AllocUnit, ThreadInv, AtLabel, CupAt, RetAt, OpenLockAt, UnderOpenLock, UnitAt, Op, Fault, Opened, Ops, LinkedOpen
  <2> QED
    BY <1>0, <2>1, <2>2, <2>3, <2>4, TableStep
<1>15. CASE Connect(t)
  <2>0. /\ Target(t) \in File \cup StdFile
        /\ LockOf(Target(t)) \in {NoLock} \cup {Aux(s) : s \in StdFile}
    BY <1>2, <1>15 DEF Connect, Target, LockOf
  <2>1. UnitsTypeOK'
    <3>1. cup[t] \in Unit /\ pc' \in [Thread -> Labels] /\ cup' \in [Thread -> Unit \cup {NoUnit}]
        BY <1>1, <1>15 DEF Connect, Return, Labels, ThreadInv, CupAt
    <3>2. CASE Fault(t) = "stat"
        BY <1>1, <1>15, <3>1, <3>2 DEF Connect
    <3>3. CASE Fault(t) # "stat"
      <4>1. /\ auxlockp' = [auxlockp EXCEPT ![cup[t]] = LockOf(Target(t))]
            /\ conn' = [conn EXCEPT ![cup[t]] = Target(t)]
            /\ ufs' = [ufs EXCEPT ![cup[t]] = "text"]
        BY <1>15, <3>3 DEF Connect
      <4>2. auxlockp' \in [Unit -> {NoLock} \cup {Aux(s) : s \in StdFile}]
        BY <1>1, <2>0, <3>1, <4>1
      <4>3. conn' \in [Unit -> File \cup StdFile \cup {NoFile}]
        BY <1>1, <2>0, <3>1, <4>1
      <4> QED
        BY <1>1, <1>15, <3>1, <3>3, <4>1, <4>2, <4>3 DEF Connect
    <3> QED
        BY <3>2, <3>3
  <2>2. /\ \/ owner'[OpenLock] = owner[OpenLock]
           \/ owner[OpenLock] \in {t, Nobody} /\ owner'[OpenLock] \in {t, Nobody}
        /\ ufs' = ufs \/ UnderOpenLock(t)
        /\ linked \subseteq linked'
    BY <1>1, <1>2, <1>3, <1>15 DEF Connect, Return, Target, LockOf, ThreadInv, CupAt, OpenLockAt, UnderOpenLock
  <2>3. LinkedOpen'
    BY <1>1, <1>2, <1>3, <1>15 DEF Connect, Return, Target, LockOf, LinkedOpen, Opened, ThreadInv, UnitAt
  <2>4. ThreadInv(t)'
    BY <1>1, <1>2, <1>3, <1>15 DEF Connect, Return, Target, LockOf, ThreadInv, AtLabel, CupAt, RetAt, OpenLockAt, UnderOpenLock, UnitAt, Op, Fault, Opened, Ops, LinkedOpen
  <2> QED
    BY <1>0, <2>1, <2>2, <2>3, <2>4, TableStep
<1>16. CASE CheckOpen(t)
  <2>0. cup[t] \in Unit
    BY <1>1, <1>16 DEF CheckOpen, ThreadInv, CupAt
  <2>1. CASE MEM_LOCK_IF(t, auxlockp[cup[t]]) /\ Return(t, cup[t], FALSE) /\ UNCHANGED tableVars
    <3>1. UnitsTypeOK'
        BY <1>1, <1>3, <1>16, <2>0, <2>1 DEF CheckOpen, Return, Labels
    <3>2. owner'[OpenLock] = owner[OpenLock]
        BY <1>1, <1>3, <1>16, <2>0, <2>1 DEF CheckOpen, Return
    <3>3. ThreadInv(t)'
        BY <1>1, <1>2, <1>3, <1>16, <2>0, <2>1, <3>2
        DEF CheckOpen, Return, ThreadInv, AtLabel, CupAt, RetAt, OpenLockAt, UnderOpenLock, UnitAt, Op, Fault
    <3> QED
        BY <1>0, <1>1, <2>1, <3>1, <3>2, <3>3, TableStep DEF LinkedOpen, Opened
  <2>2. CASE UnitClose(cup[t]) /\ Return(t, cup[t], TRUE)
    <3>1. UnitsTypeOK'
        BY <1>1, <1>3, <1>16, <2>0, <2>2 DEF CheckOpen, Return, UnitClose, Labels
    <3>2. owner'[OpenLock] = owner[OpenLock]
        BY <1>1, <1>3, <1>16, <2>0, <2>2 DEF CheckOpen, Return, UnitClose
    <3>3. ThreadInv(t)'
        BY <1>1, <1>2, <1>3, <1>16, <2>0, <2>2, <3>2
        DEF CheckOpen, Return, UnitClose, ThreadInv, AtLabel, CupAt, RetAt, OpenLockAt, UnderOpenLock,
            UnitAt, Op, Fault
    <3>4. LinkedOpen' /\ UnderOpenLock(t) /\ linked' = linked
        BY <1>1, <1>16, <2>0, <2>2 DEF CheckOpen, UnitClose, LinkedOpen, Opened, UnderOpenLock
    <3> QED
        BY <1>0, <1>1, <3>1, <3>2, <3>3, <3>4, TableStep
  <2> QED
    BY <1>16, <2>1, <2>2 DEF CheckOpen
<1>17. CASE Close(t)
  <2>0. cup[t] \in Unit
    BY <1>1, <1>17 DEF Close, ThreadInv, CupAt
  <2>1. CASE UNCHANGED <<owner, tableVars>>
    <3>1. UnitsTypeOK' /\ LinkedOpen'
        BY <1>1, <1>17, <2>1 DEF Close, Labels, LinkedOpen, Opened
    <3>2. ThreadInv(t)'
        BY <1>1, <1>2, <1>17, <2>0, <2>1
        DEF Close, ThreadInv, AtLabel, CupAt, RetAt, OpenLockAt, UnderOpenLock, UnitAt, Op, Fault
    <3> QED
        BY <1>0, <1>1, <2>1, <3>1, <3>2, TableStep
  <2>2. CASE UnitClose(cup[t])
    <3>1. UnitsTypeOK'
        BY <1>1, <1>3, <1>17, <2>0, <2>2 DEF Close, UnitClose, Labels
    <3>2. owner'[OpenLock] = owner[OpenLock]
        BY <1>1, <1>3, <1>17, <2>0, <2>2 DEF Close, UnitClose
    <3>3. ThreadInv(t)'
        BY <1>1, <1>2, <1>17, <2>0, <2>2, <3>2
        DEF Close, UnitClose, ThreadInv, AtLabel, CupAt, RetAt, OpenLockAt, UnderOpenLock, UnitAt, Op, Fault
    <3>4. LinkedOpen' /\ UnderOpenLock(t) /\ linked' = linked
        BY <1>1, <1>17, <2>0, <2>2 DEF Close, UnitClose, LinkedOpen, Opened, UnderOpenLock
    <3> QED
        BY <1>0, <1>1, <3>1, <3>2, <3>3, <3>4, TableStep
  <2> QED
    BY <1>17, <2>1, <2>2 DEF Close
<1>18. CASE CloseUnlock(t)
  <2>1. UnitsTypeOK'
    BY <1>1, <1>2, <1>3, <1>18 DEF CloseUnlock, Labels, ThreadInv, CupAt
  <2>2. /\ \/ owner'[OpenLock] = owner[OpenLock]
           \/ owner[OpenLock] \in {t, Nobody} /\ owner'[OpenLock] \in {t, Nobody}
        /\ ufs' = ufs \/ UnderOpenLock(t)
        /\ linked \subseteq linked'
    BY <1>1, <1>2, <1>3, <1>18 DEF CloseUnlock, ThreadInv, CupAt, OpenLockAt, UnderOpenLock
  <2>3. LinkedOpen'
    BY <1>1, <1>2, <1>3, <1>18 DEF CloseUnlock, LinkedOpen, Opened
  <2>4. ThreadInv(t)'
    BY <1>1, <1>2, <1>3, <1>18 DEF CloseUnlock, ThreadInv, AtLabel, CupAt, RetAt, OpenLockAt, UnderOpenLock, UnitAt, Op, Fault, Opened, Ops, LinkedOpen
  <2> QED
    BY <1>0, <2>1, <2>2, <2>3, <2>4, TableStep
<1>19. CASE ScanNext(t)
  <2>1. CASE RestOfScan(t) = {}
    <3>1. UnitsTypeOK' /\ LinkedOpen'
        BY <1>1, <1>19, <2>1 DEF ScanNext, Labels, LinkedOpen, Opened
    <3>2. ThreadInv(t)'
        BY <1>1, <1>2, <1>19, <2>1
        DEF ScanNext, ThreadInv, AtLabel, CupAt, RetAt, OpenLockAt, UnderOpenLock, UnitAt, Op, Fault
    <3> QED
        BY <1>0, <1>1, <1>19, <2>1, <3>1, <3>2, TableStep DEF ScanNext
  <2>2. CASE RestOfScan(t) # {}
    <3> DEFINE u == Min(RestOfScan(t))
    <3>0. u \in linked /\ Opened(u) /\ u \in Unit \ {NoUnit}
        BY <2>2, ScanFacts
    <3>1. SetCup(t, u) /\ MEM_LOCK(t, Uio(u)) /\ Goto(t, "scanaux")
        BY <1>19, <2>2 DEF ScanNext
    <3>2. UNCHANGED <<program, tableVars, stmt, err, ret>> /\ pc[t] = "scan"
        BY <1>19 DEF ScanNext
    <3> HIDE DEF u
    <3>3. UnitsTypeOK' /\ LinkedOpen'
        BY <1>1, <3>0, <3>1, <3>2 DEF Labels, LinkedOpen, Opened
    <3>4. owner'[OpenLock] = owner[OpenLock]
        BY <1>1, <3>0, <3>1, <3>2
    <3>5. ThreadInv(t)'
        BY <1>1, <1>2, <3>0, <3>1, <3>2, <3>4
        DEF ThreadInv, AtLabel, CupAt, RetAt, OpenLockAt, UnderOpenLock, UnitAt, Op, Fault, Opened
    <3> QED
        BY <1>0, <1>1, <3>2, <3>3, <3>4, <3>5, TableStep
  <2> QED
    BY <2>1, <2>2
<1>20. CASE ScanUnit(t)
  <2>1. UnitsTypeOK'
    BY <1>1, <1>2, <1>3, <1>20 DEF ScanUnit, Labels, ThreadInv, CupAt
  <2>2. /\ \/ owner'[OpenLock] = owner[OpenLock]
           \/ owner[OpenLock] \in {t, Nobody} /\ owner'[OpenLock] \in {t, Nobody}
        /\ ufs' = ufs \/ UnderOpenLock(t)
        /\ linked \subseteq linked'
    BY <1>1, <1>2, <1>3, <1>20 DEF ScanUnit, ThreadInv, CupAt, OpenLockAt, UnderOpenLock
  <2>3. LinkedOpen'
    BY <1>1, <1>2, <1>3, <1>20 DEF ScanUnit, LinkedOpen, Opened
  <2>4. ThreadInv(t)'
    BY <1>1, <1>2, <1>3, <1>20 DEF ScanUnit, ThreadInv, AtLabel, CupAt, RetAt, OpenLockAt, UnderOpenLock, UnitAt, Op, Fault, Opened, Ops, LinkedOpen
  <2> QED
    BY <1>0, <2>1, <2>2, <2>3, <2>4, TableStep
<1>21. CASE SetUptr(t)
  <2>1. UnitsTypeOK'
    BY <1>1, <1>2, <1>3, <1>21 DEF SetUptr, Labels, ThreadInv, CupAt
  <2>2. /\ \/ owner'[OpenLock] = owner[OpenLock]
           \/ owner[OpenLock] \in {t, Nobody} /\ owner'[OpenLock] \in {t, Nobody}
        /\ ufs' = ufs \/ UnderOpenLock(t)
        /\ linked \subseteq linked'
    BY <1>1, <1>2, <1>3, <1>21 DEF SetUptr, ThreadInv, CupAt, OpenLockAt, UnderOpenLock
  <2>3. LinkedOpen'
    BY <1>1, <1>2, <1>3, <1>21 DEF SetUptr, LinkedOpen, Opened, ThreadInv, UnitAt
  <2>4. ThreadInv(t)'
    BY <1>1, <1>2, <1>3, <1>21 DEF SetUptr, ThreadInv, AtLabel, CupAt, RetAt, OpenLockAt, UnderOpenLock, UnitAt, Op, Fault, Opened, Ops, LinkedOpen
  <2> QED
    BY <1>0, <2>1, <2>2, <2>3, <2>4, TableStep
<1>22. CASE ClrUptr(t)
  <2>1. UnitsTypeOK'
    BY <1>1, <1>2, <1>3, <1>22 DEF ClrUptr, Labels, ThreadInv, CupAt
  <2>2. /\ \/ owner'[OpenLock] = owner[OpenLock]
           \/ owner[OpenLock] \in {t, Nobody} /\ owner'[OpenLock] \in {t, Nobody}
        /\ ufs' = ufs \/ UnderOpenLock(t)
        /\ linked \subseteq linked'
    BY <1>1, <1>2, <1>3, <1>22 DEF ClrUptr, ThreadInv, CupAt, OpenLockAt, UnderOpenLock
  <2>3. LinkedOpen'
    BY <1>1, <1>2, <1>3, <1>22 DEF ClrUptr, LinkedOpen, Opened
  <2>4. ThreadInv(t)'
    BY <1>1, <1>2, <1>3, <1>22 DEF ClrUptr, ThreadInv, AtLabel, CupAt, RetAt, OpenLockAt, UnderOpenLock, UnitAt, Op, Fault, Opened, Ops, LinkedOpen
  <2> QED
    BY <1>0, <2>1, <2>2, <2>3, <2>4, TableStep
<1> QED
    BY <1>4, <1>5, <1>6, <1>7, <1>8, <1>9, <1>10, <1>11, <1>12, <1>13, <1>14, <1>15, <1>16, <1>17, <1>18, <1>19, <1>20, <1>21, <1>22 DEF StmtStep

LEMMA NextTableInv == TableInv /\ [Next]_vars => TableInv'
<1> SUFFICES ASSUME TableInv, [Next]_vars PROVE TableInv'
    OBVIOUS
<1>1. program \in Programs
    BY DEF TableInv, UnitsTypeOK
<1>2. ASSUME NEW t \in program.threads, StmtStep(t) PROVE TableInv'
    BY <1>1, <1>2, StepTableInv, UnitsAssumption
<1>3. ASSUME NEW t \in program.threads, NEW s \in program.stmts, Begin(t, s) PROVE TableInv'
  <2>1. t \in Thread /\ s \in Stmt /\ UnitsTypeOK /\ ThreadInv(t) /\ LinkedOpen
    BY <1>1, UnitsAssumption DEF TableInv
  <2>2. UnitsTypeOK' /\ OthersKeep(t) /\ LinkedOpen'
    BY <1>3, <2>1 DEF Begin, Goto, UnitsTypeOK, OthersKeep, LinkedOpen, Opened, tableVars, Labels
  <2>3. ThreadInv(t)'
    BY <1>3, <2>1
    DEF Begin, Goto, UnitsTypeOK, tableVars, ThreadInv, AtLabel, CupAt, RetAt, OpenLockAt,
        UnderOpenLock, UnitAt, Op, Fault, Stmt, Ops
  <2> QED
    BY <1>3, <2>1, <2>2, <2>3, TableStep DEF Begin, tableVars
<1>4. CASE UNCHANGED vars
    BY <1>4
    DEF vars, tableVars, TableInv, UnitsTypeOK, LinkedOpen, ThreadInv, AtLabel, CupAt, RetAt,
        OpenLockAt, UnderOpenLock, UnitAt, Op, Fault, Opened
<1> QED
    BY <1>2, <1>3, <1>4 DEF Next

\* The invariant of the table holds of every program.
THEOREM TableInvariant == Spec => []TableInv
BY InitTableInv, NextTableInv, PTL DEF Spec

LEMMA TableInvAlloc == TableInv => AllocFindsClosed
BY DEF TableInv, ThreadInv, UnitAt, AllocFindsClosed

\* The assertion of _alloc_unit cannot fail, whatever the program does and
\* wherever its statements fail.
THEOREM AllocFindsClosedHolds == Spec => []AllocFindsClosed
BY TableInvariant, TableInvAlloc, PTL
-----------------------------------------------------------------------------
(***************************************************************************)
(* The units' locks                                                        *)
(***************************************************************************)
\* A step of t takes a mutex that is free, or frees one that t holds.
OwnerStep(t, l) ==
    \/ owner'[l] = owner[l]
    \/ owner[l] \in {t, Nobody} /\ owner'[l] \in {t, Nobody}

\* The auxiliary locks are taken and freed without touching the other locks.
LEMMA AuxApart ==
    ASSUME TableInv, NEW t \in Thread, NEW u \in Unit,
           MEM_UNLOCK(auxlockp[u]) \/ MEM_LOCK_IF(t, auxlockp[u])
    PROVE  \A v \in Unit : owner'[Uio(v)] = owner[Uio(v)]
BY AuxFacts, LocksDiffer DEF TableInv, UnitsTypeOK, MEM_UNLOCK, MEM_LOCK_IF, MEM_LOCK

LEMMA UnitStep ==
    ASSUME TableInv, UnitOwner, NEW t \in Thread, OthersKeep(t), UnitOwnerAt(t)',
           \A u \in Unit : OwnerStep(t, Uio(u))
    PROVE  UnitOwner'
<1> SUFFICES ASSUME NEW r \in Thread, r # t, NEW u \in Unit
             PROVE  (owner[Uio(u)] = r <=> HoldsUnit(r, u))'
    BY DEF UnitOwner, UnitOwnerAt
<1>1. owner'[Uio(u)] = r <=> owner[Uio(u)] = r
    BY UnitsAssumption DEF OwnerStep
<1>2. HoldsUnit(r, u)' <=> HoldsUnit(r, u)
    BY DEF OthersKeep, HoldsUnit
<1> QED
    BY <1>1, <1>2 DEF UnitOwner, UnitOwnerAt

LEMMA StepUnitOwner ==
    ASSUME TableInv, ReleasesOnce(program), UnitOwner, NEW t \in Thread, StmtStep(t)
    PROVE  UnitOwner'
<1> USE UnitsAssumption, LocksDiffer
    DEF UnitsTypeOK, Goto, Continue, SetCup, MEM_LOCK, MEM_UNLOCK, MEM_LOCK_IF, tableVars,
        UnitOwnerAt, HoldsUnit, OwnerStep
<1>1. UnitsTypeOK /\ LinkedOpen /\ ThreadInv(t) /\ UnitOwnerAt(t)
    BY DEF TableInv, UnitOwner
<1>2. pc[t] # "idle" => /\ stmt[t].unit \in Unit
                        /\ stmt[t].op \in Ops
                        /\ stmt[t] # NoStmt
                        /\ ~(Op(t) = "open" /\ Fault(t) = "name")
    BY StmtFacts DEF TableInv, ThreadInv, AtLabel, ReleasesOnce, Op, Fault
<1>3. \A u \in Unit :
           /\ auxlockp[u] # NoLock => auxlockp[u] \in Lock
           /\ \A v \in Unit : auxlockp[u] # Uio(v)
    BY AuxFacts
<1> SUFFICES UnitOwnerAt(t)' /\ \A u \in Unit : OwnerStep(t, Uio(u))
    BY StepOthers, UnitStep
<1>4. CASE OpenLockStep(t)
    BY <1>1, <1>2, <1>3, <1>4
    DEF OpenLockStep, ThreadInv, AtLabel, CupAt, Ops, Op
<1>5. CASE GetCup(t)
    BY <1>1, <1>2, <1>3, <1>5
    DEF GetCup, Unconnected, ThreadInv, AtLabel, CupAt, Ops, Op
<1>6. CASE TestCup(t)
    BY <1>1, <1>2, <1>3, <1>6
    DEF TestCup, Connected, Unconnected, Opened, ThreadInv, AtLabel, CupAt, Ops, Op
<1>7. CASE Transfer(t)
    BY <1>1, <1>2, <1>3, <1>7
    DEF Transfer, ThreadInv, AtLabel, CupAt, Ops, Op
<1>8. CASE ReleaseUnit(t)
    BY <1>1, <1>2, <1>3, <1>8
    DEF ReleaseUnit, ThreadInv, AtLabel, CupAt, Ops, Op
<1>9. CASE ReleaseAux(t)
    BY <1>1, <1>2, <1>3, <1>9
    DEF ReleaseAux, ThreadInv, AtLabel, CupAt, Ops, Op
<1>10. CASE OpenUnlockStep(t)
    BY <1>1, <1>2, <1>3, <1>10
    DEF OpenUnlockStep, ThreadInv, AtLabel, CupAt, Ops, Op
<1>11. CASE OpenConnected(t)
    BY <1>1, <1>2, <1>3, <1>11
    DEF OpenConnected, Stays, ThreadInv, AtLabel, CupAt, Ops, Op
<1>12. CASE Reopen(t)
  <2>1. cup[t] \in Unit
    BY <1>1, <1>12 DEF Reopen, ThreadInv, CupAt
  <2>2. \A v \in Unit : owner'[Uio(v)] = owner[Uio(v)]
    BY <1>12, <2>1, AuxApart DEF Reopen, UnitClose
  <2> QED
    BY <1>1, <1>2, <1>12, <2>1, <2>2 DEF Reopen, UnitClose, ThreadInv, AtLabel, CupAt, Op
<1>13. CASE OpenName(t)
    BY <1>1, <1>2, <1>3, <1>13
    DEF OpenName, Return, ThreadInv, AtLabel, CupAt, Ops, Op
<1>14. CASE AllocUnit(t)
    BY <1>1, <1>2, <1>3, <1>14
    DEF AllocUnit, ThreadInv, AtLabel, CupAt, Ops, Op
<1>15. CASE Connect(t)
    BY <1>1, <1>2, <1>3, <1>15
    DEF Connect, Return, ThreadInv, AtLabel, CupAt, Ops, Op
<1>16. CASE CheckOpen(t)
  <2>1. cup[t] \in Unit
    BY <1>1, <1>16 DEF CheckOpen, ThreadInv, CupAt
  <2>2. \A v \in Unit : owner'[Uio(v)] = owner[Uio(v)]
    BY <1>16, <2>1, AuxApart DEF CheckOpen, UnitClose, Return
  <2> QED
    BY <1>1, <1>2, <1>16, <2>1, <2>2 DEF CheckOpen, UnitClose, Return, ThreadInv, AtLabel, CupAt, Op
<1>17. CASE Close(t)
  <2>1. cup[t] \in Unit
    BY <1>1, <1>17 DEF Close, ThreadInv, CupAt
  <2>2. \A v \in Unit : owner'[Uio(v)] = owner[Uio(v)]
    BY <1>17, <2>1, AuxApart DEF Close, UnitClose
  <2> QED
    BY <1>1, <1>2, <1>17, <2>1, <2>2 DEF Close, UnitClose, ThreadInv, AtLabel, CupAt, Op
<1>18. CASE CloseUnlock(t)
    BY <1>1, <1>2, <1>3, <1>18
    DEF CloseUnlock, ThreadInv, AtLabel, CupAt, Ops, Op
<1>19. CASE ScanNext(t)
  <2>1. CASE RestOfScan(t) = {}
    BY <1>1, <1>19, <2>1 DEF ScanNext
  <2>2. CASE RestOfScan(t) # {}
    <3> DEFINE u == Min(RestOfScan(t))
    <3>1. u \in Unit
        BY <2>2, ScanFacts
    <3>2. SetCup(t, u) /\ MEM_LOCK(t, Uio(u)) /\ Goto(t, "scanaux") /\ pc[t] = "scan"
        BY <1>19, <2>2 DEF ScanNext
    <3> HIDE DEF u
    <3> QED
        BY <1>1, <3>1, <3>2
  <2> QED
    BY <2>1, <2>2
<1>20. CASE ScanUnit(t)
  <2>1. cup[t] \in Unit
    BY <1>1, <1>20 DEF ScanUnit, ThreadInv, CupAt
  <2>2. \A v \in Unit : owner'[Uio(v)] = owner[Uio(v)]
    BY <1>20, <2>1, AuxApart DEF ScanUnit
  <2> QED
    BY <1>1, <1>2, <1>20, <2>1, <2>2 DEF ScanUnit, ThreadInv, AtLabel, CupAt, Op
<1>21. CASE SetUptr(t)
    BY <1>1, <1>2, <1>3, <1>21
    DEF SetUptr, ThreadInv, AtLabel, CupAt, Ops, Op
<1>22. CASE ClrUptr(t)
    BY <1>1, <1>2, <1>3, <1>22
    DEF ClrUptr, ThreadInv, AtLabel, CupAt, Ops, Op
<1> QED
    BY <1>4, <1>5, <1>6, <1>7, <1>8, <1>9, <1>10, <1>11, <1>12, <1>13, <1>14, <1>15, <1>16, <1>17, <1>18, <1>19, <1>20, <1>21, <1>22 DEF StmtStep
-----------------------------------------------------------------------------
(***************************************************************************)
(* The standard files' locks                                               *)
(***************************************************************************)
\* The steps that change the connection of a unit.
LEMMA TableChanges ==
    ASSUME NEW t \in Thread, StmtStep(t)
    PROVE  \/ UNCHANGED <<linked, ufs, auxlockp, conn>>
           \/ AllocUnit(t) \/ Connect(t) \/ SetUptr(t) \/ ClrUptr(t)
           \/ Closing(t) /\ UnitClose(cup[t])
BY DEF StmtStep, OpenLockStep, GetCup, TestCup, Transfer, ReleaseUnit, ReleaseAux,
    OpenUnlockStep, OpenConnected, Reopen, OpenName, CheckOpen, Close, CloseUnlock, ScanNext,
    ScanUnit, Closing, tableVars

\* All files of a unit on a standard file are that file.
LEMMA StdFileOnly ==
    ASSUME Careful(program), NEW u \in Unit, OnStdFile(program, u),
           NEW f \in FilesOf(program, u)
    PROVE  f \in StdFile
<1>1. PICK g \in FilesOf(program, u) : g \in StdFile
    BY DEF OnStdFile
<1>2. f = g
    BY DEF Careful, StdUnitsApart
<1> QED
    BY <1>1, <1>2

\* No statement fails on a unit on a standard file.
LEMMA StdStmt ==
    ASSUME TableInv, Careful(program), NEW t \in Thread, pc[t] # "idle",
           OnStdFile(program, stmt[t].unit)
    PROVE  Op(t) # "aqopen" /\ Fault(t) = "none"
BY StmtFacts DEF Careful, StdUnitsApart, TableInv, ThreadInv, AtLabel, Op, Fault

\* The file of a statement is one of those of its unit.
LEMMA StmtFile ==
    ASSUME TableInv, NEW t \in Thread, pc[t] # "idle", Op(t) \in {"open", "write"}
    PROVE  /\ Target(t) \in FilesOf(program, stmt[t].unit)
           /\ stmt[t].file = NoFile \/ stmt[t].file \in FilesOf(program, stmt[t].unit)
<1>1. stmt[t] \in program.stmts
    BY DEF TableInv, ThreadInv, AtLabel
<1> QED
    BY <1>1 DEF Target, FilesOf, Op

LEMMA StepAuxRight ==
    ASSUME TableInv, Careful(program), AuxRight, NEW t \in Thread, StmtStep(t)
    PROVE  AuxRight'
<1>1. UnitsTypeOK /\ ThreadInv(t) /\ program' = program
    BY StepOthers DEF TableInv
<1>2. \A u \in Unit : /\ FilesOf(program', u) = FilesOf(program, u)
                      /\ OnStdFile(program', u) = OnStdFile(program, u)
    BY <1>1
<1>3. CASE UNCHANGED <<linked, ufs, auxlockp, conn>>
    BY <1>2, <1>3 DEF AuxRight, LockOf
<1>4. CASE AllocUnit(t)
    BY <1>1, <1>2, <1>4, UnitsAssumption DEF AllocUnit, AuxRight, UnitsTypeOK, LockOf
<1>5. CASE Connect(t)
  <2>1. cup[t] = stmt[t].unit /\ cup[t] \in Unit /\ Op(t) \in {"open", "write"} /\ pc[t] # "idle"
    BY <1>1, <1>5 DEF Connect, ThreadInv, AtLabel, CupAt, UnitsTypeOK
  <2>2. Target(t) \in FilesOf(program, cup[t])
    BY <2>1, StmtFile
  <2>3. CASE Fault(t) = "stat"
    BY <1>2, <1>5, <2>3 DEF Connect, tableVars, AuxRight, LockOf
  <2>4. CASE Fault(t) # "stat"
    <3>1. /\ auxlockp' = [auxlockp EXCEPT ![cup[t]] = LockOf(Target(t))]
          /\ conn' = [conn EXCEPT ![cup[t]] = Target(t)]
          /\ ufs' = [ufs EXCEPT ![cup[t]] = "text"]
        BY <1>5, <2>4 DEF Connect
    <3>2. Target(t) \in StdFile => OnStdFile(program, cup[t])
        BY <2>2 DEF OnStdFile
    <3> QED
        BY <1>1, <1>2, <2>1, <2>2, <3>1, <3>2 DEF AuxRight, UnitsTypeOK, LockOf
  <2> QED
    BY <2>3, <2>4
<1>6. CASE SetUptr(t)
  <2>1. cup[t] = stmt[t].unit /\ cup[t] \in Unit /\ Op(t) = "aqopen" /\ pc[t] # "idle"
    BY <1>1, <1>6 DEF SetUptr, ThreadInv, CupAt, UnitsTypeOK
  <2>2. ~OnStdFile(program, cup[t]) /\ stmt[t].file \notin StdFile
    BY <2>1, StdStmt, StmtFacts, UnitsAssumption
  <2> QED
    BY <1>1, <1>2, <1>6, <2>1, <2>2 DEF SetUptr, AuxRight, UnitsTypeOK, LockOf
<1>7. CASE ClrUptr(t)
    BY <1>1, <1>2, <1>7 DEF ClrUptr, AuxRight, UnitsTypeOK, LockOf
<1>8. CASE UnitClose(cup[t])
    BY <1>1, <1>2, <1>8 DEF UnitClose, AuxRight, UnitsTypeOK, LockOf
<1> QED
    BY <1>3, <1>4, <1>5, <1>6, <1>7, <1>8, TableChanges

\* A standard file stays locked for the other threads if t only takes and
\* frees its own locks, and closes only the unit it holds.
LEMMA AuxStep ==
    ASSUME TableInv, Careful(program), AuxRight, AuxOwner, NEW t \in Thread, OthersKeep(t),
           program' = program, AuxOwnerAt(t)',
           \A s \in StdFile : OwnerStep(t, Aux(s)),
           \A u \in Unit :
              ufs[u] = "text" /\ OnStdFile(program, u) =>
                \/ ufs'[u] = "text" /\ auxlockp'[u] = auxlockp[u]
                \/ HoldsAux(t) /\ cup[t] = u
    PROVE  AuxOwner'
<1> SUFFICES ASSUME NEW r \in Thread, r # t PROVE AuxOwnerAt(r)'
    BY DEF AuxOwner
<1>1. \A s \in StdFile : owner'[Aux(s)] = r <=> owner[Aux(s)] = r
    BY UnitsAssumption DEF OwnerStep
<1>2. /\ HoldsAux(r)' <=> HoldsAux(r)
      /\ cup'[r] = cup[r] /\ OnStdFile(program', cup[r]) = OnStdFile(program, cup[r])
    BY DEF OthersKeep, HoldsAux
<1>3. AuxOwnerAt(r) /\ AuxOwnerAt(t) /\ UnitsTypeOK
    BY DEF AuxOwner, TableInv
<1>4. ASSUME HoldsAux(r), OnStdFile(program, cup[r])
      PROVE  /\ ufs'[cup[r]] = "text" /\ auxlockp'[cup[r]] = auxlockp[cup[r]]
             /\ \E s \in StdFile : auxlockp[cup[r]] = Aux(s)
             /\ owner[auxlockp[cup[r]]] = r
  <2>1. cup[r] \in Unit
    BY <1>3, <1>4 DEF HoldsAux, UnitsTypeOK
  <2>2. ufs[cup[r]] = "text" /\ owner[auxlockp[cup[r]]] = r
    BY <1>3, <1>4 DEF AuxOwnerAt
  <2>3. ~(HoldsAux(t) /\ cup[t] = cup[r])
    BY <1>3, <1>4, <2>2 DEF AuxOwnerAt
  <2>4. ufs'[cup[r]] = "text" /\ auxlockp'[cup[r]] = auxlockp[cup[r]]
    BY <1>4, <2>1, <2>2, <2>3
  <2>5. \E s \in StdFile : auxlockp[cup[r]] = Aux(s)
    BY <1>4, <2>1, <2>2, StdFileOnly DEF AuxRight, LockOf
  <2> QED
    BY <2>2, <2>4, <2>5
<1>5. ASSUME HoldsAux(r)', OnStdFile(program', cup'[r])
      PROVE  ufs'[cup'[r]] = "text" /\ owner'[auxlockp'[cup'[r]]] = r
    BY <1>1, <1>2, <1>4, <1>5
<1>6. ASSUME NEW s \in StdFile, owner'[Aux(s)] = r
      PROVE  HoldsAux(r)' /\ auxlockp'[cup'[r]] = Aux(s)
  <2>1. HoldsAux(r) /\ auxlockp[cup[r]] = Aux(s)
    BY <1>1, <1>3, <1>6 DEF AuxOwnerAt
  <2>2. OnStdFile(program, cup[r])
    BY <1>3, <2>1, LocksDiffer DEF AuxRight, HoldsAux, UnitsTypeOK
  <2> QED
    BY <1>2, <1>4, <2>1, <2>2
<1> QED
    BY <1>5, <1>6 DEF AuxOwnerAt
\* An open unit on a standard file has the lock of that file.
LEMMA StdUnit ==
    ASSUME TableInv, Careful(program), AuxRight, NEW u \in Unit, OnStdFile(program, u), Opened(u)
    PROVE  /\ ufs[u] = "text" /\ conn[u] \in StdFile /\ conn[u] \in FilesOf(program, u)
           /\ auxlockp[u] = Aux(conn[u]) /\ auxlockp[u] # NoLock
<1>1. ufs[u] = "text"
    BY DEF TableInv, UnitsTypeOK, AuxRight, Opened
<1>2. conn[u] \in FilesOf(program, u) /\ auxlockp[u] = LockOf(conn[u])
    BY <1>1 DEF AuxRight
<1>3. conn[u] \in StdFile
    BY <1>2, StdFileOnly
<1> QED
    BY <1>1, <1>2, <1>3, LocksDiffer DEF LockOf

\* Only CLOSE closes a unit on a standard file: OPEN finds the same file, and
\* the checks of _f_open succeed.
LEMMA StdCloses ==
    ASSUME TableInv, Careful(program), AuxRight, NEW t \in Thread, Closing(t),
           OnStdFile(program, cup[t])
    PROVE  pc[t] = "close"
<1>1. UnitsTypeOK /\ ThreadInv(t) /\ pc[t] # "idle"
    BY DEF TableInv, Closing
<1>2. cup[t] \in Unit /\ cup[t] = stmt[t].unit /\ Opened(cup[t])
    BY <1>1 DEF Closing, UnitsTypeOK, ThreadInv, AtLabel, CupAt, UnitAt, Opened
<1>3. Fault(t) = "none" /\ ufs[cup[t]] = "text" /\ conn[cup[t]] \in StdFile
      /\ conn[cup[t]] \in FilesOf(program, cup[t])
    BY <1>1, <1>2, StdStmt, StdUnit
<1>4. pc[t] # "check"
    BY <1>3 DEF Closing, UniqInode
<1>5. ASSUME pc[t] = "opn" PROVE FALSE
  <2>1. stmt[t].file = NoFile \/ stmt[t].file \in FilesOf(program, cup[t])
    BY <1>1, <1>2, <1>5, StmtFile DEF ThreadInv, AtLabel
  <2>2. stmt[t].file = NoFile \/ conn[cup[t]] = stmt[t].file
    BY <1>2, <1>3, <2>1 DEF Careful, StdUnitsApart
  <2> QED
    BY <1>4, <1>5, <2>2 DEF Closing, Stays, SameFile
<1> QED
    BY <1>4, <1>5 DEF Closing

\* A thread at work on a standard file holds the lock of that file.
LEMMA HoldsStd ==
    ASSUME TableInv, Careful(program), AuxRight, AuxOwner, NEW t \in Thread, HoldsAux(t),
           OnStdFile(program, cup[t])
    PROVE  /\ ufs[cup[t]] = "text"
           /\ \E s \in StdFile : auxlockp[cup[t]] = Aux(s) /\ owner[Aux(s)] = t
<1>1. cup[t] \in Unit
    BY DEF HoldsAux, TableInv, UnitsTypeOK
<1>2. ufs[cup[t]] = "text" /\ owner[auxlockp[cup[t]]] = t
    BY DEF AuxOwner, AuxOwnerAt
<1>3. conn[cup[t]] \in StdFile /\ auxlockp[cup[t]] = Aux(conn[cup[t]])
    BY <1>1, <1>2, StdUnit DEF Opened
<1> QED
    BY <1>2, <1>3

LEMMA StepAuxOwner ==
    ASSUME TableInv, Careful(program), AuxRight, AuxOwner, NEW t \in Thread, StmtStep(t)
    PROVE  AuxOwner'
<1>1. UnitsTypeOK /\ ThreadInv(t) /\ AuxOwnerAt(t) /\ program' = program
    BY StepOthers DEF TableInv, AuxOwner
<1>2. pc[t] # "idle" => /\ stmt[t].unit \in Unit
                        /\ stmt[t].op \in Ops
                        /\ stmt[t] # NoStmt
                        /\ ~(Op(t) = "open" /\ Fault(t) = "name")
                        /\ OnStdFile(program, stmt[t].unit) => Op(t) # "aqopen" /\ Fault(t) = "none"
    BY StmtFacts, StdStmt DEF TableInv, ThreadInv, AtLabel, Careful, ReleasesOnce, Op, Fault
<1>3. \A u \in Unit :
        /\ auxlockp[u] = NoLock \/ \E s \in StdFile : auxlockp[u] = Aux(s)
        /\ auxlockp[u] # NoLock => OnStdFile(program, u) /\ auxlockp[u] \in Lock
        /\ OnStdFile(program, u) /\ Opened(u) => ufs[u] = "text" /\ auxlockp[u] # NoLock
    BY AuxFacts, StdUnit DEF AuxRight
<1>4. Closing(t) /\ OnStdFile(program, cup[t]) => pc[t] = "close"
    BY StdCloses
<1>5. \A u \in Unit : OnStdFile(program', u) = OnStdFile(program, u)
    BY <1>1
<1>6. ASSUME NEW u \in Unit, ufs[u] = "text", OnStdFile(program, u)
      PROVE  \/ ufs'[u] = "text" /\ auxlockp'[u] = auxlockp[u]
             \/ HoldsAux(t) /\ cup[t] = u
  <2>1. CASE AllocUnit(t) \/ Connect(t) \/ SetUptr(t)
    BY <1>1, <1>2, <1>6, <2>1
    DEF AllocUnit, Connect, SetUptr, UnitsTypeOK, ThreadInv, UnitAt, CupAt, AtLabel, Opened, tableVars
  <2>2. CASE ClrUptr(t)
    BY <1>1, <1>6, <2>2 DEF ClrUptr, UnitsTypeOK, ThreadInv, UnitAt
  <2>3. CASE Closing(t) /\ UnitClose(cup[t])
    BY <1>1, <1>4, <1>6, <2>3 DEF UnitClose, UnitsTypeOK, ThreadInv, CupAt, HoldsAux
  <2> QED
    BY <1>6, <2>1, <2>2, <2>3, TableChanges
<1> USE UnitsAssumption, LocksDiffer
    DEF UnitsTypeOK, Goto, Continue, SetCup, MEM_LOCK, MEM_UNLOCK, MEM_LOCK_IF, tableVars,
        AuxOwnerAt, HoldsAux, OwnerStep
<1> SUFFICES AuxOwnerAt(t)' /\ \A s \in StdFile : OwnerStep(t, Aux(s))
    BY <1>1, <1>6, StepOthers, AuxStep
<1>7. CASE OpenLockStep(t)
    BY <1>1, <1>2, <1>3, <1>4, <1>5, <1>7
    DEF OpenLockStep, ThreadInv, AtLabel, CupAt, UnitAt, Ops, Op
<1>8. CASE GetCup(t)
    BY <1>1, <1>2, <1>3, <1>4, <1>5, <1>8
    DEF GetCup, Unconnected, ThreadInv, AtLabel, CupAt, UnitAt, Ops, Op
<1>9. CASE TestCup(t)
    BY <1>1, <1>2, <1>3, <1>4, <1>5, <1>9
    DEF TestCup, Connected, Unconnected, Opened, ThreadInv, AtLabel, CupAt, UnitAt, Ops, Op
<1>10. CASE Transfer(t)
    BY <1>1, <1>2, <1>3, <1>4, <1>5, <1>10
    DEF Transfer, ThreadInv, AtLabel, CupAt, UnitAt, Ops, Op
<1>11. CASE ReleaseUnit(t)
  <2>1. \A s \in StdFile : owner'[Aux(s)] = owner[Aux(s)]
    BY <1>1, <1>2, <1>11 DEF ReleaseUnit, ThreadInv, CupAt
  <2>2. HoldsAux(t) /\ OnStdFile(program, cup[t]) =>
            owner'[auxlockp[cup[t]]] = t /\ ufs[cup[t]] = "text"
    BY <2>1, HoldsStd
  <2>3. HoldsAux(t)' => HoldsAux(t)
    BY <1>1, <1>2, <1>11 DEF ReleaseUnit, ThreadInv, CupAt
  <2>4. \A s \in StdFile : owner[Aux(s)] = t => HoldsAux(t)'
    BY <1>1, <1>2, <1>11 DEF ReleaseUnit, ThreadInv, CupAt, Op
  <2>5. cup' = cup /\ auxlockp' = auxlockp /\ ufs' = ufs
    BY <1>11 DEF ReleaseUnit
  <2> QED
    BY <1>1, <2>1, <2>2, <2>3, <2>4, <2>5
<1>12. CASE ReleaseAux(t)
  <2>1. cup[t] \in Unit /\ HoldsAux(t)
    BY <1>1, <1>12 DEF ReleaseAux, ThreadInv, CupAt
  <2>2. CASE auxlockp[cup[t]] = NoLock
    BY <1>1, <1>2, <1>3, <1>5, <1>12, <2>1, <2>2 DEF ReleaseAux, ThreadInv, AtLabel, CupAt, RetAt, Op, Ops
  <2>3. CASE auxlockp[cup[t]] # NoLock
    BY <1>1, <1>2, <1>3, <1>5, <1>12, <2>1, <2>3 DEF ReleaseAux, ThreadInv, AtLabel, CupAt, RetAt, Op, Ops
  <2> QED
    BY <2>2, <2>3
<1>13. CASE OpenUnlockStep(t)
  <2>1. \A s \in StdFile : owner'[Aux(s)] = owner[Aux(s)]
    BY <1>1, <1>2, <1>13 DEF OpenUnlockStep, ThreadInv, CupAt
  <2>2. HoldsAux(t) /\ OnStdFile(program, cup[t]) =>
            owner'[auxlockp[cup[t]]] = t /\ ufs[cup[t]] = "text"
    BY <2>1, HoldsStd
  <2>3. HoldsAux(t)' => HoldsAux(t)
    BY <1>1, <1>2, <1>13 DEF OpenUnlockStep, ThreadInv, CupAt
  <2>4. \A s \in StdFile : owner[Aux(s)] = t => HoldsAux(t)'
    BY <1>1, <1>2, <1>13 DEF OpenUnlockStep, ThreadInv, CupAt, Op
  <2>5. cup' = cup /\ auxlockp' = auxlockp /\ ufs' = ufs
    BY <1>13 DEF OpenUnlockStep
  <2> QED
    BY <1>1, <2>1, <2>2, <2>3, <2>4, <2>5
<1>14. CASE OpenConnected(t)
    BY <1>1, <1>2, <1>3, <1>4, <1>5, <1>14
    DEF OpenConnected, ThreadInv, AtLabel, CupAt, UnitAt, Ops, Op
<1>15. CASE Reopen(t)
    BY <1>1, <1>2, <1>3, <1>4, <1>5, <1>15
    DEF Reopen, UnitClose, Closing, ThreadInv, AtLabel, CupAt, UnitAt, Ops, Op
<1>16. CASE OpenName(t)
    BY <1>1, <1>2, <1>3, <1>4, <1>5, <1>16
    DEF OpenName, Return, ThreadInv, AtLabel, CupAt, UnitAt, Ops, Op
<1>17. CASE AllocUnit(t)
  <2>1. \A s \in StdFile : owner'[Aux(s)] = owner[Aux(s)]
    BY <1>1, <1>2, <1>17 DEF AllocUnit, ThreadInv, CupAt
  <2> QED
    BY <1>1, <1>2, <1>3, <1>5, <1>17, <2>1 DEF AllocUnit, ThreadInv, AtLabel, CupAt, UnitAt, Op
<1>18. CASE Connect(t)
    BY <1>1, <1>2, <1>3, <1>4, <1>5, <1>18
    DEF Connect, Return, ThreadInv, AtLabel, CupAt, UnitAt, Ops, Op
<1>19. CASE CheckOpen(t)
  <2>1. cup[t] \in Unit /\ Opened(cup[t]) /\ ~HoldsAux(t)
    BY <1>1, <1>19 DEF CheckOpen, ThreadInv, CupAt, UnitAt, Opened
  <2>2. CASE Closing(t) /\ UnitClose(cup[t]) /\ Return(t, cup[t], TRUE)
    <3>1. ~OnStdFile(program, cup[t]) /\ auxlockp[cup[t]] = NoLock
        BY <1>3, <1>4, <1>19, <2>1, <2>2 DEF CheckOpen
    <3> QED
        BY <1>1, <1>5, <2>1, <2>2, <3>1 DEF UnitClose, Return
  <2>3. CASE MEM_LOCK_IF(t, auxlockp[cup[t]]) /\ Return(t, cup[t], FALSE) /\ UNCHANGED tableVars
    BY <1>1, <1>3, <1>5, <2>1, <2>3 DEF Return
  <2> QED
    BY <1>19, <2>2, <2>3 DEF CheckOpen, Closing
<1>20. CASE Close(t)
  <2>1. cup[t] \in Unit /\ HoldsAux(t)
    BY <1>1, <1>20 DEF Close, ThreadInv, CupAt
  <2>2. CASE auxlockp[cup[t]] = NoLock
    BY <1>1, <1>2, <1>3, <1>5, <1>20, <2>1, <2>2 DEF Close, UnitClose, Closing, ThreadInv, AtLabel, CupAt, RetAt, Op, Ops
  <2>3. CASE auxlockp[cup[t]] # NoLock
    BY <1>1, <1>2, <1>3, <1>5, <1>20, <2>1, <2>3 DEF Close, UnitClose, Closing, ThreadInv, AtLabel, CupAt, RetAt, Op, Ops
  <2> QED
    BY <2>2, <2>3
<1>21. CASE CloseUnlock(t)
  <2>1. \A s \in StdFile : owner'[Aux(s)] = owner[Aux(s)]
    BY <1>1, <1>2, <1>21 DEF CloseUnlock, ThreadInv, CupAt
  <2> QED
    BY <1>1, <1>2, <1>3, <1>5, <1>21, <2>1 DEF CloseUnlock, ThreadInv, AtLabel, CupAt, UnitAt, Op
<1>22. CASE ScanNext(t)
  <2>1. \A s \in StdFile : owner'[Aux(s)] = owner[Aux(s)]
    <3>1. CASE RestOfScan(t) = {}
        BY <1>22, <3>1 DEF ScanNext
    <3>2. CASE RestOfScan(t) # {}
      <4> DEFINE u == Min(RestOfScan(t))
      <4>1. u \in Unit /\ MEM_LOCK(t, Uio(u))
        BY <1>22, <3>2, ScanFacts DEF ScanNext
      <4> HIDE DEF u
      <4> QED
        BY <1>1, <4>1
    <3> QED
        BY <3>1, <3>2
  <2> QED
    BY <1>1, <1>2, <1>3, <1>5, <1>22, <2>1 DEF ScanNext, ThreadInv, AtLabel, CupAt, UnitAt, Op
<1>23. CASE ScanUnit(t)
    BY <1>1, <1>2, <1>3, <1>4, <1>5, <1>23
    DEF ScanUnit, ThreadInv, AtLabel, CupAt, UnitAt, Ops, Op
<1>24. CASE SetUptr(t)
    BY <1>1, <1>2, <1>3, <1>4, <1>5, <1>24
    DEF SetUptr, ThreadInv, AtLabel, CupAt, UnitAt, Ops, Op
<1>25. CASE ClrUptr(t)
    BY <1>1, <1>2, <1>3, <1>5, <1>25 DEF ClrUptr, ThreadInv, AtLabel, CupAt, UnitAt, Opened
<1> QED
    BY <1>7, <1>8, <1>9, <1>10, <1>11, <1>12, <1>13, <1>14, <1>15, <1>16, <1>17, <1>18, <1>19, <1>20, <1>21, <1>22, <1>23, <1>24, <1>25 DEF StmtStep

\* A thread that begins a statement takes no lock and has no unit.
LEMMA BeginKeeps ==
    ASSUME TableInv, NEW t \in Thread, NEW s \in program.stmts, Begin(t, s)
    PROVE  /\ program' = program /\ owner' = owner
           /\ UNCHANGED <<linked, ufs, auxlockp, conn>>
           /\ \A r \in Thread : /\ HoldsAux(r)' <=> HoldsAux(r)
                                /\ cup'[r] = cup[r]
                                /\ \A u \in Unit : HoldsUnit(r, u)' <=> HoldsUnit(r, u)
<1>1. \A r \in Thread \ {t} : pc'[r] = pc[r] /\ stmt'[r] = stmt[r]
    BY DEF Begin, Goto, TableInv, UnitsTypeOK
<1>2. cup[t] = NoUnit /\ pc'[t] \in {"get", "openlock"} /\ cup' = cup
    BY DEF Begin, Goto, TableInv, UnitsTypeOK, ThreadInv, CupAt
<1> QED
    BY <1>1, <1>2, UnitsAssumption DEF Begin, tableVars, HoldsAux, HoldsUnit

LEMMA NextUnitOwner ==
    TableInv /\ (ReleasesOnce(program) => UnitOwner) /\ [Next]_vars
        => (ReleasesOnce(program) => UnitOwner)'
<1> SUFFICES ASSUME TableInv, ReleasesOnce(program) => UnitOwner, [Next]_vars,
                    ReleasesOnce(program)'
             PROVE  UnitOwner'
    OBVIOUS
<1>1. ASSUME NEW t \in program.threads PROVE t \in Thread
    BY UnitsAssumption DEF TableInv, UnitsTypeOK
<1>2. ASSUME NEW t \in program.threads, StmtStep(t) PROVE UnitOwner'
    BY <1>1, <1>2, StepOthers, StepUnitOwner
<1>3. ASSUME NEW t \in program.threads, NEW s \in program.stmts, Begin(t, s) PROVE UnitOwner'
    BY <1>1, <1>3, BeginKeeps DEF UnitOwner, UnitOwnerAt
<1>4. CASE UNCHANGED vars
    BY <1>4 DEF vars, UnitOwner, UnitOwnerAt, HoldsUnit
<1> QED
    BY <1>2, <1>3, <1>4 DEF Next

\* Who holds the lock of a unit can be told from where the threads are, for
\* every program in which no OPEN releases a unit twice.
THEOREM UnitOwnerInvariant == Spec => [](ReleasesOnce(program) => UnitOwner)
<1>1. Init => (ReleasesOnce(program) => UnitOwner)
    BY UnitsAssumption, LocksDiffer DEF Init, UnitOwner, UnitOwnerAt, HoldsUnit
<1> QED
    BY <1>1, NextUnitOwner, TableInvariant, PTL DEF Spec

StdInv == Careful(program) => AuxRight /\ AuxOwner

LEMMA NextStdInv == TableInv /\ StdInv /\ [Next]_vars => StdInv'
<1> SUFFICES ASSUME TableInv, StdInv, [Next]_vars, Careful(program)'
             PROVE  AuxRight' /\ AuxOwner'
    BY DEF StdInv
<1>1. ASSUME NEW t \in program.threads PROVE t \in Thread
    BY UnitsAssumption DEF TableInv, UnitsTypeOK
<1>2. ASSUME NEW t \in program.threads, StmtStep(t) PROVE AuxRight' /\ AuxOwner'
  <2>1. program' = program
    BY <1>1, <1>2, StepOthers
  <2>2. Careful(program) /\ AuxRight /\ AuxOwner
    BY <2>1 DEF StdInv
  <2> QED
    BY <1>1, <1>2, <2>2, StepAuxRight, StepAuxOwner
<1>3. ASSUME NEW t \in program.threads, NEW s \in program.stmts, Begin(t, s)
      PROVE  AuxRight' /\ AuxOwner'
    BY <1>1, <1>3, BeginKeeps DEF StdInv, AuxRight, AuxOwner, AuxOwnerAt, LockOf
<1>4. CASE UNCHANGED vars
    BY <1>4 DEF vars, tableVars, StdInv, AuxRight, AuxOwner, AuxOwnerAt, HoldsAux, LockOf
<1> QED
    BY <1>2, <1>3, <1>4 DEF Next

\* So can who holds the lock of a standard file, for careful programs.
THEOREM StdInvariant == Spec => []StdInv
<1>1. Init => StdInv
  <2> SUFFICES ASSUME Init PROVE AuxRight /\ AuxOwner
    BY DEF StdInv
  <2>1. AuxOwner
    BY UnitsAssumption, LocksDiffer DEF Init, AuxOwner, AuxOwnerAt, HoldsAux
  <2>2. ASSUME NEW u \in Unit, u \in linked PROVE conn[u] \in FilesOf(program, u)
    BY <2>2 DEF Init, FilesOf
  <2>3. AuxRight
    BY <2>2, UnitsAssumption DEF Init, AuxRight, OnStdFile, LockOf
  <2> QED
    BY <2>1, <2>3
<1> QED
    BY <1>1, NextStdInv, TableInvariant, PTL DEF Spec
-----------------------------------------------------------------------------
(***************************************************************************)
(* What follows for the program                                            *)
(***************************************************************************)
LEMMA ProgramStays ==
    TableInv /\ [Next]_vars => program' = program
<1> SUFFICES ASSUME TableInv, [Next]_vars PROVE program' = program
    OBVIOUS
<1>1. ASSUME NEW t \in program.threads, StmtStep(t) PROVE program' = program
    BY <1>1, StepOthers, UnitsAssumption DEF TableInv, UnitsTypeOK
<1> QED
    BY <1>1 DEF Next, Begin, vars

CarefulInv == Careful(program) /\ TableInv /\ UnitOwner /\ AuxRight /\ AuxOwner

\* In a careful program each unit's lock and each standard file's lock is held
\* by exactly the thread whose place in its statement says so.
THEOREM CarefulInvariant == Spec /\ Careful(program) => []CarefulInv
<1>1. Careful(program) /\ TableInv /\ [Next]_vars => Careful(program)'
    BY ProgramStays
<1>2. Careful(program) /\ TableInv /\ (ReleasesOnce(program) => UnitOwner) /\ StdInv => CarefulInv
    BY DEF CarefulInv, StdInv, Careful
<1> QED
    BY <1>1, <1>2, TableInvariant, UnitOwnerInvariant, StdInvariant, PTL DEF Spec

LEMMA NothingHeld == CarefulInv => NoLockLeft
<1> SUFFICES ASSUME CarefulInv, NEW t \in Thread, pc[t] = "idle", NEW l \in Lock, owner[l] = t
             PROVE  FALSE
    BY DEF NoLockLeft
<1>1. l # OpenLock
    BY DEF CarefulInv, TableInv, ThreadInv, OpenLockAt, UnderOpenLock
<1>2. \A u \in Unit : l # Uio(u)
    BY UnitsAssumption DEF CarefulInv, TableInv, ThreadInv, CupAt, UnitOwner, UnitOwnerAt, HoldsUnit
<1>3. \A s \in StdFile : l # Aux(s)
    BY DEF CarefulInv, AuxOwner, AuxOwnerAt, HoldsAux
<1> QED
    BY <1>1, <1>2, <1>3 DEF Lock

\* A statement of a careful program leaves no mutex locked, however it ends.
THEOREM NoLockLeftHolds == Spec /\ Careful(program) => []NoLockLeft
BY CarefulInvariant, NothingHeld, PTL

LEMMA OwnLocks == CarefulInv => UnlocksOwn
<1> SUFFICES ASSUME CarefulInv, NEW t \in Thread, NEW l \in Unlocks(t) PROVE owner[l] = t
    BY DEF UnlocksOwn
<1>1. UnitsTypeOK /\ ThreadInv(t) /\ AuxOwnerAt(t) /\ UnitOwnerAt(t)
    BY DEF CarefulInv, TableInv, UnitOwner, AuxOwner
<1>2. ASSUME HoldsAux(t), l = auxlockp[cup[t]], l # NoLock PROVE owner[l] = t
  <2>1. cup[t] \in Unit /\ OnStdFile(program, cup[t])
    BY <1>1, <1>2 DEF HoldsAux, UnitsTypeOK, CarefulInv, AuxRight
  <2> QED
    BY <1>2, <2>1, HoldsStd DEF CarefulInv
<1>3. CASE Closing(t)
  <2>1. l = auxlockp[cup[t]] /\ l # NoLock
    BY <1>3 DEF Unlocks, Closing
  <2>2. cup[t] \in Unit
    BY <1>1, <1>3 DEF Closing, UnitsTypeOK, ThreadInv, CupAt
  <2>3. OnStdFile(program, cup[t])
    BY <2>1, <2>2 DEF CarefulInv, AuxRight
  <2>4. pc[t] = "close"
    BY <1>3, <2>3, StdCloses DEF CarefulInv
  <2> QED
    BY <1>1, <1>2, <2>1, <2>4 DEF HoldsAux, ThreadInv, CupAt
<1>4. CASE ~Closing(t) /\ pc[t] = "openunlock"
    BY <1>1, <1>4 DEF Unlocks, ThreadInv, OpenLockAt, UnderOpenLock
<1>5. CASE ~Closing(t) /\ pc[t] \in {"release", "closeunlock"}
    BY <1>1, <1>5 DEF Unlocks, UnitsTypeOK, ThreadInv, CupAt, UnitOwnerAt, HoldsUnit
<1>6. CASE ~Closing(t) /\ pc[t] = "release2"
    BY <1>1, <1>2, <1>6 DEF Unlocks, HoldsAux, ThreadInv, CupAt
<1>7. CASE ~Closing(t) /\ pc[t] = "test" /\ ~Opened(stmt[t].unit)
    BY <1>1, <1>7, StmtFacts DEF Unlocks, UnitOwnerAt, HoldsUnit, CarefulInv
<1> QED
    BY <1>3, <1>4, <1>5, <1>6, <1>7 DEF Unlocks

\* A thread of a careful program unlocks only what it has locked; the second
\* look of _release_cup at auxlockp, after the unit is unlocked, still finds
\* the lock that was taken.
THEOREM UnlocksOwnHolds == Spec /\ Careful(program) => []UnlocksOwn
BY CarefulInvariant, OwnLocks, PTL

LEMMA Exclusion == CarefulInv => TransfersExclude
<1> SUFFICES ASSUME CarefulInv, NEW t \in Thread, NEW v \in Thread,
                    pc[t] = "io", pc[v] = "io", t # v
             PROVE  /\ cup[t] # cup[v]
                    /\ conn[cup[t]] \in StdFile => conn[cup[t]] # conn[cup[v]]
    BY DEF TransfersExclude
<1>1. cup[t] \in Unit /\ cup[v] \in Unit /\ HoldsAux(t) /\ HoldsAux(v)
    BY DEF CarefulInv, TableInv, UnitsTypeOK, ThreadInv, CupAt, HoldsAux
<1>2. cup[t] # cup[v]
    BY <1>1 DEF CarefulInv, UnitOwner, UnitOwnerAt, HoldsUnit
<1>3. ASSUME NEW r \in Thread, HoldsAux(r), cup[r] \in Unit, conn[cup[r]] \in StdFile
      PROVE  owner[Aux(conn[cup[r]])] = r
  <2>1. OnStdFile(program, cup[r])
    BY <1>3 DEF CarefulInv, AuxRight
  <2>2. ufs[cup[r]] = "text" /\ owner[auxlockp[cup[r]]] = r
    BY <1>3, <2>1 DEF CarefulInv, AuxOwner, AuxOwnerAt
  <2> QED
    BY <1>3, <2>2 DEF CarefulInv, AuxRight, LockOf
<1> QED
    BY <1>1, <1>2, <1>3

\* No two threads of a careful program transfer data on the same unit or the
\* same standard file.
THEOREM TransfersExcludeHolds == Spec /\ Careful(program) => []TransfersExclude
BY CarefulInvariant, Exclusion, PTL

\* What a thread waits for when it holds a lock: with a standard file it waits
\* for nothing, with a unit for a standard file, with _openlock for a unit or a
\* standard file.
LEMMA LockOrder ==
    ASSUME CarefulInv, NoInquireUnit(program), NEW t \in Thread, Wants(t) # NoLock
    PROVE  /\ \A s \in StdFile : owner[Aux(s)] # t
           /\ \A u \in Unit : owner[Uio(u)] = t => \E s \in StdFile : Wants(t) = Aux(s)
           /\ owner[OpenLock] = t => Wants(t) # OpenLock
           /\ \/ Wants(t) = OpenLock
              \/ \E u \in Unit : Wants(t) = Uio(u)
              \/ \E s \in StdFile : Wants(t) = Aux(s)
<1>1. UnitsTypeOK /\ ThreadInv(t) /\ AuxOwnerAt(t) /\ UnitOwnerAt(t)
    BY DEF CarefulInv, TableInv, UnitOwner, AuxOwner
<1>2. pc[t] \in {"openlock", "get", "test", "alloc", "check", "scan", "scanaux"}
    BY DEF Wants
<1>3. stmt[t].unit \in Unit /\ Op(t) # "inquire_unit"
    BY <1>1, <1>2, StmtFacts DEF CarefulInv, NoInquireUnit, ThreadInv, AtLabel, Op
<1>4. ~HoldsAux(t)
    BY <1>1, <1>2, <1>3 DEF HoldsAux, ThreadInv, CupAt
<1>5. ASSUME NEW u \in Unit, Wants(t) = auxlockp[u] PROVE \E s \in StdFile : Wants(t) = Aux(s)
    BY <1>5, AuxFacts DEF CarefulInv
<1>6. CASE pc[t] = "openlock"
  <2>1. Wants(t) = OpenLock
    BY <1>6 DEF Wants
  <2>2. \A u \in Unit : owner[Uio(u)] # t
    BY <1>1, <1>3, <1>6, UnitsAssumption DEF UnitOwnerAt, HoldsUnit, ThreadInv, CupAt
  <2>3. owner[OpenLock] # t
    BY <1>1, <1>6 DEF ThreadInv, OpenLockAt, UnderOpenLock
  <2> QED
    BY <1>1, <1>4, <2>1, <2>2, <2>3 DEF AuxOwnerAt
<1>7. CASE pc[t] \in {"get", "alloc", "scan"}
  <2>1. \E u \in Unit : Wants(t) = Uio(u)
    BY <1>3, <1>7, ScanFacts DEF Wants, CarefulInv
  <2>2. \A u \in Unit : owner[Uio(u)] # t
    BY <1>1, <1>7 DEF UnitOwnerAt, HoldsUnit
  <2> QED
    BY <1>1, <1>4, <2>1, <2>2, LocksDiffer DEF AuxOwnerAt
<1>8. CASE pc[t] \in {"test", "check", "scanaux"}
  <2>1. \E u \in Unit : Wants(t) = auxlockp[u]
    BY <1>1, <1>3, <1>8 DEF Wants, UnitsTypeOK, ThreadInv, CupAt
  <2> QED
    BY <1>1, <1>4, <1>5, <2>1, LocksDiffer DEF AuxOwnerAt
<1> QED
    BY <1>2, <1>6, <1>7, <1>8

LEMMA NoCircle == CarefulInv /\ NoInquireUnit(program) => NoCircularWait
<1> SUFFICES ASSUME CarefulInv, NoInquireUnit(program), NEW S \in (SUBSET Thread) \ {{}},
                    \A t \in S : Blocked(t) /\ owner[Wants(t)] \in S
             PROVE  FALSE
    BY DEF NoCircularWait
<1>1. ASSUME NEW t \in S, NEW s \in StdFile PROVE Wants(t) # Aux(s)
    BY LockOrder DEF Blocked
<1>2. ASSUME NEW t \in S, NEW u \in Unit PROVE Wants(t) # Uio(u)
    BY <1>1, LockOrder DEF Blocked
<1>3. ASSUME NEW t \in S PROVE Wants(t) # OpenLock
    BY <1>1, <1>2, <1>3, LockOrder DEF Blocked
<1>4. PICK t \in S : Blocked(t)
    OBVIOUS
<1>5. t \in Thread /\ Wants(t) # NoLock
    BY <1>4 DEF Blocked
<1> QED
    BY <1>1, <1>2, <1>3, <1>5, LockOrder

\* The threads of a careful program without INQUIRE by unit never wait for
\* each other in a circle: _openlock comes before a unit's lock, that before
\* the lock of a standard file.
THEOREM NoCircularWaitHolds ==
    Spec /\ Careful(program) /\ NoInquireUnit(program) => []NoCircularWait
<1>1. NoInquireUnit(program) /\ TableInv /\ [Next]_vars => NoInquireUnit(program)'
    BY ProgramStays
<1> QED
    BY <1>1, NoCircle, CarefulInvariant, TableInvariant, PTL DEF Spec

LEMMA StableStep ==
    ASSUME TableInv, UnitOwner, ReleasesOnce(program), [Next]_vars, NEW t \in Thread,
           pc[t] \in {"io", "scanaux"}
    PROVE  ufs'[cup[t]] = ufs[cup[t]] /\ conn'[cup[t]] = conn[cup[t]]
<1>1. cup[t] \in Unit /\ owner[Uio(cup[t])] = t /\ UnitsTypeOK
    BY DEF TableInv, UnitsTypeOK, ThreadInv, CupAt, UnitOwner, UnitOwnerAt, HoldsUnit
<1>2. CASE UNCHANGED vars
    BY <1>2 DEF vars, tableVars
<1>3. ASSUME NEW r \in program.threads, NEW s \in program.stmts, Begin(r, s)
      PROVE  UNCHANGED <<ufs, conn>>
    BY <1>3 DEF Begin, tableVars
<1>4. ASSUME NEW r \in program.threads, StmtStep(r)
      PROVE  ufs'[cup[t]] = ufs[cup[t]] /\ conn'[cup[t]] = conn[cup[t]]
  <2>1. r \in Thread /\ ThreadInv(r) /\ UnitOwnerAt(r)
    BY UnitsAssumption DEF TableInv, UnitsTypeOK, UnitOwner
  <2>2. CASE AllocUnit(r)
    BY <1>1, <2>1, <2>2, StmtFacts, LocksDiffer, UnitsAssumption DEF AllocUnit, MEM_LOCK, UnitsTypeOK
  <2>3. CASE Connect(r) \/ SetUptr(r) \/ ClrUptr(r)
    <3>1. r # t /\ cup[r] # cup[t]
        BY <1>1, <2>1, <2>3 DEF Connect, SetUptr, ClrUptr, UnitOwnerAt, HoldsUnit
    <3> QED
        BY <1>1, <2>3, <3>1 DEF Connect, SetUptr, ClrUptr, UnitsTypeOK, tableVars
  <2>4. CASE Closing(r) /\ UnitClose(cup[r])
    <3>1. r # t /\ cup[r] # cup[t]
        BY <1>1, <2>1, <2>4 DEF Closing, UnitOwnerAt, HoldsUnit
    <3> QED
        BY <1>1, <2>4, <3>1 DEF UnitClose, UnitsTypeOK
  <2> QED
    BY <1>4, <2>1, <2>2, <2>3, <2>4, TableChanges
<1> QED
    BY <1>2, <1>3, <1>4 DEF Next

\* A unit is neither closed nor connected to another file while a thread
\* transfers data on it or inquires about it.
THEOREM ConnectionStableHolds == Spec /\ ReleasesOnce(program) => ConnectionStable
<1>1. ReleasesOnce(program) /\ TableInv /\ [Next]_vars => ReleasesOnce(program)'
    BY ProgramStays
<1>2. TableInv /\ UnitOwner /\ ReleasesOnce(program) /\ [Next]_vars =>
        [\A t \in Thread :
           pc[t] \in {"io", "scanaux"} =>
              ufs'[cup[t]] = ufs[cup[t]] /\ conn'[cup[t]] = conn[cup[t]]]_vars
    BY StableStep
<1> QED
    BY <1>1, <1>2, TableInvariant, UnitOwnerInvariant, PTL DEF Spec, ConnectionStable

\* At most one thread is between the opening of a file and the check of it.
LEMMA OneChecks ==
    ASSUME TableInv, NEW t \in Thread, NEW r \in Thread,
           pc[t] \in {"connect", "check"}, pc[r] \in {"connect", "check"}
    PROVE  t = r
BY DEF TableInv, ThreadInv, OpenLockAt, UnderOpenLock

\* Two units are connected to the same regular file.
Clash(u, v) == Opened(u) /\ Opened(v) /\ u # v /\ conn[u] = conn[v] /\ conn[u] \notin StdFile

LEMMA StepUniqueFile ==
    ASSUME TableInv, TableInv', ChecksFiles(program), UniqueFile, NEW t \in Thread, StmtStep(t)
    PROVE  UniqueFile'
<1> SUFFICES ASSUME NEW u \in Unit, NEW v \in Unit, Clash(u, v)'
             PROVE  \E r \in Thread : pc'[r] = "check" /\ cup'[r] \in {u, v}
    BY DEF UniqueFile, Clash, TableInv, UnitsTypeOK
<1>1. UnitsTypeOK /\ ThreadInv(t)
    BY DEF TableInv
<1>2. ASSUME NEW r \in Thread, r # t PROVE pc'[r] = pc[r] /\ cup'[r] = cup[r]
    BY <1>2, StepOthers DEF OthersKeep
<1>3. ASSUME Clash(u, v), ~CheckOpen(t)
      PROVE  \E r \in Thread : pc'[r] = "check" /\ cup'[r] \in {u, v}
  <2>1. PICK r \in Thread : pc[r] = "check" /\ cup[r] \in {u, v}
    BY <1>3 DEF UniqueFile, Clash, TableInv, LinkedOpen
  <2>2. r # t
    BY <1>3, <2>1
    DEF StmtStep, OpenLockStep, GetCup, TestCup, Transfer, ReleaseUnit, ReleaseAux, OpenUnlockStep,
        OpenConnected, Reopen, OpenName, AllocUnit, Connect, Close, CloseUnlock, ScanNext, ScanUnit,
        SetUptr, ClrUptr
  <2> QED
    BY <1>2, <2>1, <2>2
<1>4. CASE CheckOpen(t)
  <2>1. cup[t] \in Unit /\ cup[t] \in linked
    BY <1>1, <1>4 DEF CheckOpen, UnitsTypeOK, ThreadInv, CupAt, UnitAt, TableInv, LinkedOpen, Opened
  <2>2. Clash(u, v)
    BY <1>1, <1>4, <2>1 DEF CheckOpen, UnitClose, UnitsTypeOK, Clash, Opened, tableVars
  <2>3. cup[t] \in {u, v}
    <3>1. PICK r \in Thread : pc[r] = "check" /\ cup[r] \in {u, v}
        BY <2>2 DEF UniqueFile, Clash, TableInv, LinkedOpen
    <3> QED
        BY <1>4, <3>1, OneChecks DEF CheckOpen
  <2>4. ~UniqInode(cup[t])
    BY <2>2, <2>3 DEF Clash, UniqInode, TableInv, LinkedOpen
  <2>5. ufs'[cup[t]] = "closed"
    BY <1>1, <1>4, <2>1, <2>4 DEF CheckOpen, UnitClose, UnitsTypeOK, Opened
  <2> QED
    BY <2>3, <2>5 DEF Clash, Opened
<1>5. CASE Connect(t)
  <2>1. cup[t] \in Unit /\ ~CheckOpen(t)
    BY <1>1, <1>5 DEF Connect, CheckOpen, UnitsTypeOK, ThreadInv, CupAt
  <2>2. CASE Fault(t) = "stat"
    BY <1>3, <1>5, <2>1, <2>2 DEF Connect, tableVars, Clash, Opened
  <2>3. CASE Fault(t) # "stat" /\ cup[t] \in {u, v}
    BY <1>1, <1>5, <2>3 DEF Connect, Goto, UnitsTypeOK
  <2>4. CASE Fault(t) # "stat" /\ cup[t] \notin {u, v}
    BY <1>1, <1>3, <1>5, <2>1, <2>4 DEF Connect, UnitsTypeOK, Clash, Opened
  <2> QED
    BY <2>2, <2>3, <2>4
<1>6. CASE AllocUnit(t)
  <2>1. stmt[t].unit \in Unit /\ ~CheckOpen(t)
    BY <1>6, StmtFacts DEF AllocUnit, CheckOpen
  <2> QED
    BY <1>1, <1>3, <1>6, <2>1 DEF AllocUnit, UnitsTypeOK, Clash, Opened
<1>7. CASE ClrUptr(t)
    BY <1>1, <1>3, <1>7 DEF ClrUptr, CheckOpen, UnitsTypeOK, Clash, Opened
<1>8. CASE UnitClose(cup[t]) /\ ~CheckOpen(t)
    BY <1>1, <1>3, <1>8 DEF UnitClose, UnitsTypeOK, Clash, Opened
<1>9. CASE UNCHANGED <<linked, ufs, auxlockp, conn>> /\ ~CheckOpen(t)
    BY <1>3, <1>9 DEF Clash, Opened
<1>10. ~SetUptr(t)
    BY <1>1 DEF SetUptr, ThreadInv, AtLabel, ChecksFiles, Op
<1> QED
    BY <1>4, <1>5, <1>6, <1>7, <1>8, <1>9, <1>10, TableChanges

\* No two units are connected to the same regular file, once the one that is
\* being opened has been checked: for every program that uses no AQ or WA file.
THEOREM UniqueFileHolds == Spec /\ ChecksFiles(program) => []UniqueFile
<1>1. Init /\ ChecksFiles(program) => UniqueFile
    BY UnitsAssumption DEF Init, ChecksFiles, UniqueFile, Opened
<1>2. ChecksFiles(program) /\ TableInv /\ [Next]_vars => ChecksFiles(program)'
    BY ProgramStays
<1>3. TableInv /\ TableInv' /\ ChecksFiles(program) /\ UniqueFile /\ [Next]_vars => UniqueFile'
  <2> SUFFICES ASSUME TableInv, TableInv', ChecksFiles(program), UniqueFile, [Next]_vars
               PROVE  UniqueFile'
    OBVIOUS
  <2>1. ASSUME NEW t \in program.threads, StmtStep(t) PROVE UniqueFile'
    BY <2>1, StepUniqueFile, UnitsAssumption DEF TableInv, UnitsTypeOK
  <2>2. ASSUME NEW t \in program.threads, NEW s \in program.stmts, Begin(t, s) PROVE UniqueFile'
    BY <2>2 DEF Begin, Goto, UniqueFile, Opened, tableVars, TableInv, UnitsTypeOK
  <2>3. CASE UNCHANGED vars
    BY <2>3 DEF vars, tableVars, UniqueFile, Opened
  <2> QED
    BY <2>1, <2>2, <2>3 DEF Next
<1> QED
    BY <1>1, <1>2, <1>3, TableInvariant, PTL DEF Spec
=============================================================================
