---------------------------- MODULE FortranUnits ----------------------------
(***************************************************************************)
(* The unit table of the Fortran run-time library under several threads:   *)
(* libf/fio and libf/include/fio.h.  An I/O statement finds its unit,      *)
(* locks it, connects it implicitly when it is not connected, transfers    *)
(* data and releases it; OPEN, CLOSE and INQUIRE, and the AQ/WA routines,  *)
(* change or search the table under _openlock.                             *)
(*                                                                         *)
(* Three kinds of pthread mutexes are involved: _openlock, the uiolock of  *)
(* each unit and, for the units on standard input, output or error, one    *)
(* auxiliary lock per standard file.  A step of the model is what a thread *)
(* does between two operations on a mutex.                                 *)
(***************************************************************************)
EXTENDS Naturals, FiniteSets, FiniteSetsExt

CONSTANTS Thread, Nobody,
          Unit,          \* the unit numbers, in the order of the hash table
          File,          \* regular files
          StdFile,       \* stdin, stdout, stderr
          NoFile,        \* no FILE= specifier
          Default,       \* the file a unit connects to without FILE=
          Programs       \* what the threads of a program may do

NoUnit == 0              \* the NULL unit pointer

Ops == {"write", "flush", "open", "close", "inquire_unit", "inquire_file",
        "aqopen", "aqclose"}

\* Where a statement fails, with IOSTAT= given: an invalid specifier; the
\* close of a reopen; before, or after, the unit is allocated; once the file
\* has been opened.
Faults == {"none", "spec", "fclose", "name", "stat", "late"}

NoStmt == [op |-> "none", unit |-> NoUnit, file |-> NoFile, fault |-> "none"]

Stmt == [op : Ops, unit : Unit, file : File \cup {NoFile}, fault : Faults]

\* A program: its threads, the units it has already connected, and the I/O
\* statements the threads execute, in any order and as often as they like.
ASSUME UnitsAssumption ==
    /\ Unit \subseteq Nat \ {NoUnit}
    /\ Nobody \notin Thread
    /\ File \cap StdFile = {} /\ NoFile \notin File \cup StdFile
    /\ Default \in [Unit -> File \cup StdFile]
    /\ \A p \in Programs :
        /\ p.threads \subseteq Thread /\ p.stmts \subseteq Stmt
        /\ DOMAIN p.conn \subseteq Unit
        /\ \A u \in DOMAIN p.conn : p.conn[u] \in File \cup StdFile

\* The mutexes.
OpenLock == <<"_openlock">>
Uio(u) == <<"uiolock", u>>
Aux(s) == <<"std", s>>
NoLock == <<"NULL">>
Lock == {OpenLock} \cup {Uio(u) : u \in Unit} \cup {Aux(s) : s \in StdFile}

VARIABLES
    program,     \* the program that runs
    owner,       \* who holds each mutex
    linked,      \* the units in the hash table
    ufs,         \* cup->ufs: "closed", "text" for any connection by OPEN, "aux"
    auxlockp,    \* cup->auxlockp
    conn,        \* the file that (udevice, uinode) of the unit identify
    pc, stmt,    \* where each thread is, and in which statement
    cup,         \* its unit pointer
    err,         \* errn # 0 from _f_open
    ret          \* where it goes on after _release_cup

tableVars == <<linked, ufs, auxlockp, conn>>
vars == <<program, owner, tableVars, pc, stmt, cup, err, ret>>

LockOf(f) == IF f \in StdFile THEN Aux(f) ELSE NoLock

Init ==
    /\ program \in Programs
    /\ owner = [l \in Lock |-> Nobody]
    /\ linked = DOMAIN program.conn
    /\ ufs = [u \in Unit |-> IF u \in linked THEN "text" ELSE "closed"]
    /\ conn = [u \in Unit |-> IF u \in linked THEN program.conn[u] ELSE NoFile]
    /\ auxlockp = [u \in Unit |-> LockOf(conn[u])]
    /\ pc = [t \in Thread |-> "idle"]
    /\ stmt = [t \in Thread |-> NoStmt]
    /\ cup = [t \in Thread |-> NoUnit]
    /\ err = [t \in Thread |-> FALSE]
    /\ ret = [t \in Thread |-> "idle"]

Goto(t, l) == pc' = [pc EXCEPT ![t] = l]

\* On to l, which may be the end of the statement.
Continue(t, l) ==
    /\ Goto(t, l)
    /\ stmt' = IF l = "idle" THEN [stmt EXCEPT ![t] = NoStmt] ELSE stmt
    /\ err' = [err EXCEPT ![t] = @ /\ l # "idle"]

SetCup(t, u) == cup' = [cup EXCEPT ![t] = u]
MEM_LOCK(t, l) == owner[l] = Nobody /\ owner' = [owner EXCEPT ![l] = t]

\* pthread_mutex_unlock on a default mutex frees it, whoever holds it.
MEM_UNLOCK(l) == owner' = IF l = NoLock THEN owner ELSE [owner EXCEPT ![l] = Nobody]

MEM_LOCK_IF(t, l) == IF l = NoLock THEN UNCHANGED owner ELSE MEM_LOCK(t, l)

Op(t) == stmt[t].op
Fault(t) == stmt[t].fault
Opened(u) == ufs[u] # "closed"
-----------------------------------------------------------------------------
\* A thread executes an I/O statement.  INQUIRE by unit and the data transfer
\* statements start with _get_cup, the others with OPENLOCK.
Begin(t, s) ==
    /\ pc[t] = "idle"
    /\ stmt' = [stmt EXCEPT ![t] = s]
    /\ ret' = [ret EXCEPT ![t] =
                IF s.op \in {"open", "aqopen", "aqclose"} THEN "openunlock" ELSE "idle"]
    /\ Goto(t, IF s.op \in {"write", "flush", "inquire_unit"} THEN "get" ELSE "openlock")
    /\ UNCHANGED <<program, owner, tableVars, cup, err>>

\* Mutant: the implicit open does not look again whether another thread has
\* connected the unit in the meantime.
OpenLockStepNoLook(t) ==
    /\ pc[t] = "openlock"
    /\ MEM_LOCK(t, OpenLock)
    /\ err' = [err EXCEPT ![t] = Op(t) = "write" /\ Fault(t) = "spec"]
    /\ \/ Op(t) = "inquire_unit" /\ Goto(t, "openunlock")
       \/ Op(t) = "inquire_file" /\ \E l \in {"scan", "openunlock"} : Goto(t, l)
       \/ Op(t) = "write" /\ Goto(t, IF Fault(t) = "spec" THEN "openunlock" ELSE "name")
       \/ Op(t) \notin {"inquire_unit", "inquire_file", "write"} /\ Goto(t, "get")
    /\ UNCHANGED <<program, tableVars, stmt, cup, ret>>

\* OPENLOCK; an implicit open of a direct access unit fails at once.
OpenLockStep(t) ==
    /\ pc[t] = "openlock"
    /\ MEM_LOCK(t, OpenLock)
    /\ err' = [err EXCEPT ![t] = Op(t) = "write" /\ Fault(t) = "spec"]
    /\ \/ Op(t) = "inquire_unit" /\ Goto(t, "openunlock")
       \/ Op(t) = "inquire_file" /\ \E l \in {"scan", "openunlock"} : Goto(t, l)
       \/ Op(t) = "write" /\ Goto(t, IF Fault(t) = "spec" THEN "openunlock" ELSE "get")
       \/ Op(t) \notin {"inquire_unit", "inquire_file", "write"} /\ Goto(t, "get")
    /\ UNCHANGED <<program, tableVars, stmt, cup, ret>>

(***************************************************************************)
(* _get_cup, and where each statement goes on with its result              *)
(***************************************************************************)
Unconnected(t) ==
    CASE Op(t) = "write" -> IF owner[OpenLock] = t THEN "name" ELSE "openlock"
      [] Op(t) = "flush" -> "idle"
      [] Op(t) = "inquire_unit" -> "openlock"
      [] Op(t) = "open" -> "name"
      [] Op(t) = "aqopen" -> "alloc"
      [] OTHER -> "openunlock"

Connected(t) ==
    CASE Op(t) = "write" -> IF owner[OpenLock] = t THEN "openunlock" ELSE "io"
      [] Op(t) = "flush" -> "io"
      [] Op(t) = "inquire_unit" -> "openlock"
      [] Op(t) = "open" -> "opn"
      [] Op(t) = "aqopen" -> "release"
      [] Op(t) = "aqclose" -> IF ufs[stmt[t].unit] = "aux" THEN "clear" ELSE "openunlock"
      [] OTHER -> "close"

\* The search of the hash chain, and the wait for the unit's lock.
GetCup(t) ==
    LET u == stmt[t].unit IN
    /\ pc[t] = "get"
    /\ IF u \in linked THEN MEM_LOCK(t, Uio(u)) /\ Continue(t, "test")
                       ELSE Continue(t, Unconnected(t)) /\ UNCHANGED owner
    /\ UNCHANGED <<program, tableVars, cup, ret>>

\* Mutant: the auxiliary lock of a standard file is not taken.
TestCupNoAux(t) ==
    LET u == stmt[t].unit IN
    /\ pc[t] = "test"
    /\ IF Opened(u)
         THEN SetCup(t, u) /\ Continue(t, Connected(t)) /\ UNCHANGED owner
         ELSE MEM_UNLOCK(Uio(u)) /\ Continue(t, Unconnected(t)) /\ UNCHANGED cup
    /\ UNCHANGED <<program, tableVars, ret>>

\* The unit is tested once it is locked: a closed unit is unlocked again, a
\* unit on a standard file needs the lock of that file too.
TestCup(t) ==
    LET u == stmt[t].unit IN
    /\ pc[t] = "test"
    /\ IF Opened(u)
         THEN MEM_LOCK_IF(t, auxlockp[u]) /\ SetCup(t, u) /\ Continue(t, Connected(t))
         ELSE MEM_UNLOCK(Uio(u)) /\ Continue(t, Unconnected(t)) /\ UNCHANGED cup
    /\ UNCHANGED <<program, tableVars, ret>>

(***************************************************************************)
(* _release_cup                                                            *)
(***************************************************************************)
ReleaseUnit(t) ==
    /\ pc[t] = "release"
    /\ MEM_UNLOCK(Uio(cup[t]))
    /\ Goto(t, "release2")
    /\ UNCHANGED <<program, tableVars, stmt, cup, err, ret>>

\* auxlockp is read again after the unit has been unlocked.
ReleaseAux(t) ==
    /\ pc[t] = "release2"
    /\ MEM_UNLOCK(auxlockp[cup[t]])
    /\ Continue(t, ret[t])
    /\ SetCup(t, IF ret[t] \in {"name", "scan"} THEN cup[t] ELSE NoUnit)
    /\ ret' = [ret EXCEPT ![t] = IF @ = "name" THEN "openunlock" ELSE @]
    /\ UNCHANGED <<program, tableVars>>

\* Mutant: an implicit open that fails does not release the unit.
OpenUnlockForget(t) ==
    /\ pc[t] = "openunlock"
    /\ MEM_UNLOCK(OpenLock)
    /\ Continue(t, IF cup[t] = NoUnit \/ err[t] THEN "idle"
                   ELSE IF Op(t) = "write" THEN "io" ELSE "release")
    /\ ret' = [ret EXCEPT ![t] = "idle"]
    /\ UNCHANGED <<program, tableVars, cup>>

\* OPENUNLOCK.  _ll_implicit_open releases the unit when it fails, INQUIRE
\* and _clruptr release the unit they hold, the others have released it.
OpenUnlockStep(t) ==
    /\ pc[t] = "openunlock"
    /\ MEM_UNLOCK(OpenLock)
    /\ Continue(t, IF cup[t] = NoUnit THEN "idle"
                   ELSE IF Op(t) = "write" /\ ~err[t] THEN "io" ELSE "release")
    /\ ret' = [ret EXCEPT ![t] = "idle"]
    /\ UNCHANGED <<program, tableVars, cup>>

\* The data transfer, or the flush, ends.
Transfer(t) ==
    /\ pc[t] = "io"
    /\ Goto(t, "release")
    /\ UNCHANGED <<program, owner, tableVars, stmt, cup, err, ret>>
-----------------------------------------------------------------------------
(***************************************************************************)
(* OPEN and the implicit open: __OPN, _f_open, _unit_close, _alloc_unit    *)
(***************************************************************************)
SameFile(t) ==
    \/ stmt[t].file = NoFile
    \/ conn[cup[t]] = stmt[t].file

Target(t) == IF stmt[t].file = NoFile THEN Default[stmt[t].unit] ELSE stmt[t].file

\* _unit_close: the auxiliary lock is unlocked, its pointer stays.
UnitClose(u) ==
    /\ MEM_UNLOCK(auxlockp[u])
    /\ ufs' = [ufs EXCEPT ![u] = "closed"]
    /\ UNCHANGED <<linked, auxlockp, conn>>

\* A connected unit stays as it is: an error, or new modes for the same file.
Stays(t) == Fault(t) = "spec" \/ ufs[cup[t]] = "aux" \/ SameFile(t)

OpenConnected(t) ==
    /\ pc[t] = "opn" /\ Stays(t)
    /\ Goto(t, "release")
    /\ UNCHANGED <<program, owner, tableVars, stmt, cup, err, ret>>

\* OPEN with another file: close the unit and unlock it for _alloc_unit.
Reopen(t) ==
    /\ pc[t] = "opn" /\ ~Stays(t)
    /\ UnitClose(cup[t])
    /\ err' = [err EXCEPT ![t] = Fault(t) = "fclose"]
    /\ ret' = IF Fault(t) = "fclose" THEN ret ELSE [ret EXCEPT ![t] = "name"]
    /\ Goto(t, "release")
    /\ UNCHANGED <<program, stmt, cup>>

\* The way out of _f_open: _ll_implicit_open unlocks _openlock first, __OPN
\* releases the unit it has first.
Return(t, u, e) ==
    /\ err' = [err EXCEPT ![t] = e]
    /\ SetCup(t, u)
    /\ Goto(t, IF Op(t) = "open" /\ u # NoUnit THEN "release" ELSE "openunlock")

OpenName(t) ==
    /\ pc[t] = "name"
    /\ IF Fault(t) \in {"spec", "name"}
         THEN Return(t, cup[t], TRUE)
         ELSE Goto(t, "alloc") /\ UNCHANGED <<cup, err>>
    /\ UNCHANGED <<program, owner, tableVars, stmt, ret>>

\* Mutant: a new unit is linked into the hash table before it is locked.
AllocUnitUnlocked(t) ==
    LET u == stmt[t].unit IN
    /\ pc[t] = "alloc"
    /\ IF u \in linked THEN MEM_LOCK(t, Uio(u)) ELSE UNCHANGED owner
    /\ linked' = linked \cup {u}
    /\ ufs' = [ufs EXCEPT ![u] = "closed"]
    /\ auxlockp' = [auxlockp EXCEPT ![u] = NoLock]
    /\ conn' = [conn EXCEPT ![u] = NoFile]
    /\ SetCup(t, u)
    /\ Goto(t, "connect")
    /\ UNCHANGED <<program, stmt, err, ret>>

\* _alloc_unit locks a new unit before it links it, and waits for the lock of
\* a unit it finds; _init_unit clears both.  That a unit it finds is not
\* connected is its assertion, stated below and not a guard.
AllocUnit(t) ==
    LET u == stmt[t].unit IN
    /\ pc[t] = "alloc"
    /\ MEM_LOCK(t, Uio(u))
    /\ linked' = linked \cup {u}
    /\ ufs' = [ufs EXCEPT ![u] = "closed"]
    /\ auxlockp' = [auxlockp EXCEPT ![u] = NoLock]
    /\ conn' = [conn EXCEPT ![u] = NoFile]
    /\ SetCup(t, u)
    /\ Goto(t, "connect")
    /\ UNCHANGED <<program, stmt, err, ret>>

\* The file is opened, or an error is found before that.
Connect(t) ==
    LET u == cup[t] IN
    /\ pc[t] = "connect" /\ Op(t) # "aqopen"
    /\ IF Fault(t) = "stat"
         THEN Return(t, u, TRUE) /\ UNCHANGED tableVars
         ELSE /\ auxlockp' = [auxlockp EXCEPT ![u] = LockOf(Target(t))]
              /\ conn' = [conn EXCEPT ![u] = Target(t)]
              /\ ufs' = [ufs EXCEPT ![u] = "text"]
              /\ Goto(t, "check")
              /\ UNCHANGED <<linked, cup, err>>
    /\ UNCHANGED <<program, owner, stmt, ret>>

\* _uniqinod: no other unit is connected to the file; a standard file may be
\* connected to any number of units.
UniqInode(u) ==
    \/ conn[u] \in StdFile
    \/ \A v \in linked \ {u} : Opened(v) => conn[v] # conn[u]

\* Mutant: no check that another unit is connected to the file.
CheckOpenAny(t) ==
    LET u == cup[t] IN
    /\ pc[t] = "check"
    /\ IF Fault(t) = "late"
         THEN UnitClose(u) /\ Return(t, u, TRUE)
         ELSE MEM_LOCK_IF(t, auxlockp[u]) /\ Return(t, u, FALSE) /\ UNCHANGED tableVars
    /\ UNCHANGED <<program, stmt, ret>>

\* The checks once the file is open; at last the auxiliary lock is taken.
CheckOpen(t) ==
    LET u == cup[t] IN
    /\ pc[t] = "check"
    /\ IF Fault(t) = "late" \/ ~UniqInode(u)
         THEN UnitClose(u) /\ Return(t, u, TRUE)
         ELSE MEM_LOCK_IF(t, auxlockp[u]) /\ Return(t, u, FALSE) /\ UNCHANGED tableVars
    /\ UNCHANGED <<program, stmt, ret>>
-----------------------------------------------------------------------------
(***************************************************************************)
(* CLOSE, INQUIRE by file, and the routines of AQ and WA files             *)
(***************************************************************************)
\* Mutant: CLOSE ends with _release_cup, which unlocks the auxiliary lock too.
CloseRelease(t) ==
    /\ pc[t] = "close"
    /\ IF Fault(t) = "spec" THEN UNCHANGED <<owner, tableVars>> ELSE UnitClose(cup[t])
    /\ ret' = [ret EXCEPT ![t] = "openunlock"]
    /\ Goto(t, "release")
    /\ UNCHANGED <<program, stmt, cup, err>>

\* __CLS with an invalid STATUS= only unlocks the unit.
Close(t) ==
    /\ pc[t] = "close"
    /\ IF Fault(t) = "spec" THEN UNCHANGED <<owner, tableVars>> ELSE UnitClose(cup[t])
    /\ Goto(t, "closeunlock")
    /\ UNCHANGED <<program, stmt, cup, err, ret>>

\* Mutant: CLOSE leaves the unit locked.
CloseUnlockKeep(t) ==
    /\ pc[t] = "closeunlock"
    /\ SetCup(t, NoUnit)
    /\ Goto(t, "openunlock")
    /\ UNCHANGED <<program, owner, tableVars, stmt, err, ret>>

CloseUnlock(t) ==
    /\ pc[t] = "closeunlock"
    /\ MEM_UNLOCK(Uio(cup[t]))
    /\ SetCup(t, NoUnit)
    /\ Goto(t, "openunlock")
    /\ UNCHANGED <<program, tableVars, stmt, err, ret>>

\* The open units not yet looked at; _get_next_unit returns the first.
RestOfScan(t) == {u \in linked : Opened(u) /\ u > cup[t]}

\* _get_next_unit finds the unit open and waits for its lock.
ScanNext(t) ==
    /\ pc[t] = "scan"
    /\ IF RestOfScan(t) = {}
         THEN SetCup(t, NoUnit) /\ Goto(t, "openunlock") /\ UNCHANGED owner
         ELSE /\ SetCup(t, Min(RestOfScan(t)))
              /\ MEM_LOCK(t, Uio(Min(RestOfScan(t))))
              /\ Goto(t, "scanaux")
    /\ UNCHANGED <<program, tableVars, stmt, err, ret>>

\* Mutant: the scan goes on without releasing a unit that does not match.
ScanUnitKeep(t) ==
    LET found == conn[cup[t]] = stmt[t].file IN
    /\ pc[t] = "scanaux"
    /\ MEM_LOCK_IF(t, auxlockp[cup[t]])
    /\ Goto(t, IF found THEN "openunlock" ELSE "scan")
    /\ UNCHANGED <<program, tableVars, stmt, cup, err, ret>>

\* It is compared with the file, and released when it is another one.
ScanUnit(t) ==
    LET found == conn[cup[t]] = stmt[t].file IN
    /\ pc[t] = "scanaux"
    /\ MEM_LOCK_IF(t, auxlockp[cup[t]])
    /\ Goto(t, IF found THEN "openunlock" ELSE "release")
    /\ ret' = [ret EXCEPT ![t] = IF found THEN "idle" ELSE "scan"]
    /\ UNCHANGED <<program, tableVars, stmt, cup, err>>

\* _setuptr; its test of the result of _uniqinod, == -1, never succeeds.
SetUptr(t) ==
    /\ pc[t] = "connect" /\ Op(t) = "aqopen"
    /\ ufs' = [ufs EXCEPT ![cup[t]] = "aux"]
    /\ conn' = [conn EXCEPT ![cup[t]] = stmt[t].file]
    /\ Goto(t, "release")
    /\ UNCHANGED <<program, owner, linked, auxlockp, stmt, cup, err, ret>>

\* _clruptr
ClrUptr(t) ==
    /\ pc[t] = "clear"
    /\ ufs' = [ufs EXCEPT ![cup[t]] = "closed"]
    /\ Goto(t, "release")
    /\ UNCHANGED <<program, owner, linked, auxlockp, conn, stmt, cup, err, ret>>
-----------------------------------------------------------------------------
StmtStep(t) ==
    \/ OpenLockStep(t)
    \/ GetCup(t)
    \/ TestCup(t)
    \/ Transfer(t)
    \/ ReleaseUnit(t)
    \/ ReleaseAux(t)
    \/ OpenUnlockStep(t)
    \/ OpenConnected(t)
    \/ Reopen(t)
    \/ OpenName(t)
    \/ AllocUnit(t)
    \/ Connect(t)
    \/ CheckOpen(t)
    \/ Close(t)
    \/ CloseUnlock(t)
    \/ ScanNext(t)
    \/ ScanUnit(t)
    \/ SetUptr(t)
    \/ ClrUptr(t)

Next == \E t \in program.threads : StmtStep(t) \/ \E s \in program.stmts : Begin(t, s)

\* A thread in a statement goes on when it can; nothing makes a thread begin
\* another statement, and a mutex may starve a thread that waits for it.
Fairness == \A t \in Thread : WF_vars(StmtStep(t))

Spec == Init /\ [][Next]_vars /\ Fairness
-----------------------------------------------------------------------------
(***************************************************************************)
(* Properties                                                              *)
(***************************************************************************)
\* The mutex that the next step of t takes, if any.
Wants(t) ==
    CASE pc[t] = "openlock" -> OpenLock
      [] pc[t] = "get" /\ stmt[t].unit \in linked -> Uio(stmt[t].unit)
      [] pc[t] = "test" /\ Opened(stmt[t].unit) -> auxlockp[stmt[t].unit]
      [] pc[t] = "alloc" -> Uio(stmt[t].unit)
      [] pc[t] = "check" /\ Fault(t) # "late" /\ UniqInode(cup[t]) -> auxlockp[cup[t]]
      [] pc[t] = "scan" /\ RestOfScan(t) # {} -> Uio(Min(RestOfScan(t)))
      [] pc[t] = "scanaux" -> auxlockp[cup[t]]
      [] OTHER -> NoLock

Blocked(t) == Wants(t) # NoLock /\ owner[Wants(t)] # Nobody

\* No threads wait for each other in a circle, nor for themselves: _openlock
\* is always taken before a unit's lock (globals.c:42), a unit's lock before
\* the auxiliary lock.
NoCircularWait ==
    ~\E S \in (SUBSET Thread) \ {{}} :
        \A t \in S : Blocked(t) /\ owner[Wants(t)] \in S

\* A thread that has finished its statement, successfully or not, has left no
\* mutex locked that would block every later statement on the unit.
NoLockLeft == \A t \in Thread : pc[t] = "idle" => \A l \in Lock : owner[l] # t

\* The next step of t calls _unit_close.
Closing(t) ==
    \/ pc[t] = "close" /\ Fault(t) # "spec"
    \/ pc[t] = "opn" /\ ~Stays(t)
    \/ pc[t] = "check" /\ (Fault(t) = "late" \/ ~UniqInode(cup[t]))

\* The mutexes the next step of t unlocks.
Unlocks(t) ==
    CASE Closing(t) -> {auxlockp[cup[t]]} \ {NoLock}
      [] pc[t] = "openunlock" -> {OpenLock}
      [] pc[t] \in {"release", "closeunlock"} -> {Uio(cup[t])}
      [] pc[t] = "release2" -> {auxlockp[cup[t]]} \ {NoLock}
      [] pc[t] = "test" /\ ~Opened(stmt[t].unit) -> {Uio(stmt[t].unit)}
      [] OTHER -> {}

\* A thread unlocks only what it has locked: nobody's unit or standard file
\* is given away under it, in particular not by _release_cup, which reads
\* auxlockp when it has already given up the unit.
UnlocksOwn == \A t \in Thread : \A l \in Unlocks(t) : owner[l] = t

\* No two threads transfer data on the same unit, or on two units that are
\* connected to the same standard file.
TransfersExclude ==
    \A t, v \in Thread : pc[t] = "io" /\ pc[v] = "io" /\ t # v =>
        /\ cup[t] # cup[v]
        /\ conn[cup[t]] \in StdFile => conn[cup[t]] # conn[cup[v]]

\* Two units are connected to the same file only when it is a standard file.
UniqueFile ==
    \A u, v \in linked : Opened(u) /\ Opened(v) /\ u # v /\ conn[u] = conn[v] =>
        \/ conn[u] \in StdFile
        \/ \E t \in Thread : pc[t] = "check" /\ cup[t] \in {u, v}

\* A unit stays connected to its file while a thread transfers data on it or
\* inquires about it, whatever the other threads open and close.
ConnectionStable ==
    [][\A t \in Thread :
         pc[t] \in {"io", "scanaux"} =>
            ufs'[cup[t]] = ufs[cup[t]] /\ conn'[cup[t]] = conn[cup[t]]]_vars

\* The assertion of _alloc_unit: it never finds the unit connected, although
\* the caller found it unconnected, or closed it, some steps before.
AllocFindsClosed == \A t \in Thread : pc[t] = "alloc" => ~Opened(stmt[t].unit)

\* Some statement always ends: the threads are never all stuck.
StatementsEnd ==
    (\A t \in program.threads : pc[t] # "idle") ~> (\E t \in program.threads : pc[t] = "idle")
=============================================================================
