------------------------------ MODULE DBWrapper ------------------------------
(***************************************************************************)
(* DBWrapper2 (chives/util/db_wrapper.py): one write connection behind a   *)
(* lock, nested write blocks as SQLite savepoints, and a pool of read      *)
(* connections.  Every task of a full node reads and writes its database   *)
(* through it.                                                             *)
(*                                                                         *)
(* The write connection runs the statements it is given in order, also     *)
(* those whose caller was cancelled while it waited for the answer.  The   *)
(* database is a counter; a block increments it by reading and writing     *)
(* back, as the tests do.                                                  *)
(***************************************************************************)
EXTENDS Integers, Sequences, FiniteSets, SequencesExt

CONSTANTS
    Task, Nobody,
    Conns,          \* read connections added
    MaxDepth,       \* bound: nesting of blocks in one task
    MaxOpens,       \* bound: blocks entered by one task
    MaxWrites       \* bound: increments

ASSUME DBAssumption ==
    /\ Nobody \notin Task
    /\ Conns \in Nat \ {0}
    /\ MaxDepth \in Nat /\ MaxOpens \in Nat /\ MaxWrites \in Nat

VARIABLES
    lock,       \* holder of _lock
    waiters,    \* tasks waiting for _lock, in order
    curWriter,  \* _current_writer
    free,       \* connections in _read_connections
    savepoints, \* open savepoints of the write connection: name and counter
    names,      \* _savepoint_name
    cur,        \* the counter as the write connection sees it
    disk,       \* the committed counter
    place,      \* where each task is
    blocks,     \* blocks[t]: the write_db and read_db blocks t is in
    local,      \* the value t read, or -1
    opens,      \* blocks t entered
    pending,    \* increments of t's outermost write block that are to stay
    done        \* increments of the write blocks that ended normally

sqlite == <<savepoints, names, cur, disk>>
dbVars == <<lock, waiters, curWriter, free, sqlite, place, blocks, local, opens, pending, done>>

DbInit ==
    /\ lock = Nobody /\ waiters = <<>> /\ curWriter = Nobody /\ free = Conns
    /\ savepoints = <<>> /\ names = 0 /\ cur = 0 /\ disk = 0
    /\ place = [t \in Task |-> "run"] /\ blocks = [t \in Task |-> <<>>]
    /\ local = [t \in Task |-> -1] /\ opens = [t \in Task |-> 0]
    /\ pending = [t \in Task |-> 0] /\ done = 0

-----------------------------------------------------------------------------
(* SAVEPOINT name, ROLLBACK TO name and RELEASE name of SQLite.            *)
Savepoint ==
    /\ savepoints' = Append(savepoints, [name |-> names, value |-> cur])
    /\ names' = names + 1
    /\ UNCHANGED <<cur, disk>>

Position(n) == SelectLastInSeq(savepoints, LAMBDA s : s.name = n)

RollbackTo(n) ==
    /\ cur' = savepoints[Position(n)].value
    /\ savepoints' = SubSeq(savepoints, 1, Position(n))
    /\ UNCHANGED <<names, disk>>

ReleaseTo(n) ==
    /\ savepoints' = SubSeq(savepoints, 1, Position(n) - 1)
    /\ disk' = IF savepoints' = <<>> THEN cur ELSE disk
    /\ UNCHANGED <<names, cur>>

-----------------------------------------------------------------------------
Top(t) == Last(blocks[t])
InWrite(t) == \E i \in DOMAIN blocks[t] : blocks[t][i].kind = "write"
Outermost(t) == Cardinality({i \in DOMAIN blocks[t] : blocks[t][i].kind = "write"}) = 1
InUse(t) == \E i \in DOMAIN blocks[t] : blocks[t][i].kind = "pool"

EnterBlock(t, k, n) ==
    blocks' = [blocks EXCEPT ![t] = Append(@, [kind |-> k, name |-> n, mark |-> pending[t]])]
LeaveBlock(t) == blocks' = [blocks EXCEPT ![t] = Front(@)]
Go(t, l) == place' = [place EXCEPT ![t] = l]

CanOpen(t) == place[t] = "run" /\ Len(blocks[t]) < MaxDepth /\ opens[t] < MaxOpens
Open(t) == opens' = [opens EXCEPT ![t] = @ + 1]

(* write_db by the task that already writes: another savepoint.            *)
NestedWriteDb(t) ==
    /\ CanOpen(t) /\ Open(t)
    /\ curWriter = t
    /\ Savepoint
    /\ Go(t, "opening")
    /\ UNCHANGED <<lock, waiters, curWriter, free, blocks, local, pending, done>>

(* write_db by any other task waits for the lock.                          *)
WriteDb(t) ==
    /\ CanOpen(t) /\ Open(t)
    /\ curWriter # t
    /\ waiters' = Append(waiters, t)
    /\ Go(t, "lock")
    /\ UNCHANGED <<lock, curWriter, free, sqlite, blocks, local, pending, done>>

AcquireLock(t) ==
    /\ place[t] = "lock"
    /\ lock = Nobody /\ Head(waiters) = t
    /\ lock' = t
    /\ waiters' = Tail(waiters)
    /\ Savepoint
    /\ Go(t, "opening")
    /\ UNCHANGED <<curWriter, free, blocks, local, opens, pending, done>>

(* The SAVEPOINT is done and the body starts.                              *)
Opened(t) ==
    /\ place[t] = "opening"
    /\ EnterBlock(t, "write", names - 1)
    /\ curWriter' = t
    /\ Go(t, "run")
    /\ UNCHANGED <<lock, waiters, free, sqlite, local, opens, pending, done>>

(* The body reads the counter, and later writes it back.                   *)
ReadCounter(t) ==
    /\ place[t] = "run" /\ InWrite(t) /\ local[t] = -1
    /\ local' = [local EXCEPT ![t] = cur]
    /\ UNCHANGED <<lock, waiters, curWriter, free, sqlite, place, blocks, opens, pending, done>>

WriteCounter(t) ==
    /\ place[t] = "run" /\ InWrite(t) /\ local[t] # -1 /\ cur < MaxWrites
    /\ cur' = local[t] + 1
    /\ local' = [local EXCEPT ![t] = -1]
    /\ pending' = [pending EXCEPT ![t] = @ + 1]
    /\ UNCHANGED <<lock, waiters, curWriter, free, savepoints, names, disk, place, blocks, opens, done>>

(* The value read is only used inside the block in which it was read.      *)
Forget(t) == local' = [local EXCEPT ![t] = -1]

(* The body ends: the `finally` of write_db starts the RELEASE.            *)
EndWrite(t) ==
    /\ place[t] = "run" /\ blocks[t] # <<>> /\ Top(t).kind = "write"
    /\ ReleaseTo(Top(t).name)
    /\ curWriter' = IF Outermost(t) THEN Nobody ELSE curWriter
    /\ done' = IF Outermost(t) THEN done + pending[t] ELSE done
    /\ pending' = IF Outermost(t) THEN [pending EXCEPT ![t] = 0] ELSE pending
    /\ Forget(t)
    /\ Go(t, "closing")
    /\ UNCHANGED <<lock, waiters, free, blocks, opens>>

(* RELEASE is done, or the task was cancelled while it waited for it; an   *)
(* outermost block gives the lock back.                                    *)
Closed(t) ==
    /\ place[t] \in {"closing", "closingRaise"}
    /\ LeaveBlock(t)
    /\ lock' = IF Outermost(t) THEN Nobody ELSE lock
    /\ IF place[t] = "closing" THEN Go(t, "run") \/ Go(t, "raise") ELSE Go(t, "raise")
    /\ UNCHANGED <<waiters, curWriter, free, sqlite, local, opens, pending, done>>

-----------------------------------------------------------------------------
(* Mutant: a writer takes a connection of the pool to read.                *)
ReadDbOwnConnection(t) ==
    /\ CanOpen(t) /\ Open(t)
    /\ \/ InUse(t) /\ EnterBlock(t, "read", 0) /\ UNCHANGED <<free, place>>
       \/ ~InUse(t) /\ free > 0 /\ free' = free - 1 /\ EnterBlock(t, "pool", 0) /\ UNCHANGED place
       \/ ~InUse(t) /\ free = 0 /\ Go(t, "conn") /\ UNCHANGED <<free, blocks>>
    /\ UNCHANGED <<lock, waiters, curWriter, sqlite, local, pending, done>>

(* read_db: the writer reads through the write connection, a nested read   *)
(* through the connection the task has.                                    *)
ReadDb(t) ==
    /\ CanOpen(t) /\ Open(t)
    /\ \/ (curWriter = t \/ InUse(t)) /\ EnterBlock(t, "read", 0) /\ UNCHANGED <<free, place>>
       \/ /\ curWriter # t /\ ~InUse(t) /\ free > 0
          /\ free' = free - 1
          /\ EnterBlock(t, "pool", 0) /\ UNCHANGED place
       \/ /\ curWriter # t /\ ~InUse(t) /\ free = 0
          /\ Go(t, "conn") /\ UNCHANGED <<free, blocks>>
    /\ UNCHANGED <<lock, waiters, curWriter, sqlite, local, pending, done>>

GetConnection(t) ==
    /\ place[t] = "conn" /\ free > 0
    /\ free' = free - 1
    /\ EnterBlock(t, "pool", 0)
    /\ Go(t, "run")
    /\ UNCHANGED <<lock, waiters, curWriter, sqlite, local, opens, pending, done>>

(* A read block ends, normally or not.                                     *)
EndRead(t) ==
    /\ place[t] \in {"run", "raise"} /\ blocks[t] # <<>> /\ Top(t).kind # "write"
    /\ free' = IF Top(t).kind = "pool" THEN free + 1 ELSE free
    /\ LeaveBlock(t)
    /\ UNCHANGED <<lock, waiters, curWriter, sqlite, place, local, opens, pending, done>>

-----------------------------------------------------------------------------
(* The body raises or is cancelled; a cancelled task also stops waiting.   *)
Raise(t) ==
    /\ \/ place[t] = "run" /\ blocks[t] # <<>>
       \/ place[t] \in {"lock", "conn"}
    /\ Go(t, "raise")
    /\ Forget(t)
    /\ waiters' = SelectSeq(waiters, LAMBDA w : w # t)
    /\ UNCHANGED <<lock, curWriter, free, sqlite, blocks, opens, pending, done>>

(* The code around a block catches the exception, or the task ends.        *)
Catch(t) ==
    /\ place[t] = "raise"
    /\ Go(t, "run")
    /\ UNCHANGED <<lock, waiters, curWriter, free, sqlite, blocks, local, opens, pending, done>>

(* Mutant: a failed block is released without ROLLBACK TO.                 *)
UndoNothing(t) ==
    /\ place[t] = "raise" /\ blocks[t] # <<>> /\ Top(t).kind = "write"
    /\ pending' = [pending EXCEPT ![t] = Top(t).mark]
    /\ Go(t, "undoing")
    /\ UNCHANGED <<lock, waiters, curWriter, free, sqlite, blocks, local, opens, done>>

(* The exception leaves a write block: ROLLBACK TO, then RELEASE, each     *)
(* also when the task is cancelled while it waits for the other.           *)
Undo(t) ==
    /\ place[t] = "raise" /\ blocks[t] # <<>> /\ Top(t).kind = "write"
    /\ RollbackTo(Top(t).name)
    /\ pending' = [pending EXCEPT ![t] = Top(t).mark]
    /\ Go(t, "undoing")
    /\ UNCHANGED <<lock, waiters, curWriter, free, blocks, local, opens, done>>

Undone(t) ==
    /\ place[t] = "undoing"
    /\ ReleaseTo(Top(t).name)
    /\ curWriter' = IF Outermost(t) THEN Nobody ELSE curWriter
    /\ Go(t, "closingRaise")
    /\ UNCHANGED <<lock, waiters, free, blocks, local, opens, pending, done>>

(* The task is cancelled while it waits for the SAVEPOINT, which is before *)
(* the `try`: nothing releases it.                                         *)
CancelOpening(t) ==
    /\ place[t] = "opening"
    /\ lock' = IF curWriter = t THEN lock ELSE Nobody
    /\ Go(t, "raise")
    /\ UNCHANGED <<waiters, curWriter, free, sqlite, blocks, local, opens, pending, done>>

-----------------------------------------------------------------------------
Finish(t) ==
    AcquireLock(t) \/ Opened(t) \/ EndWrite(t) \/ Closed(t) \/ EndRead(t) \/ Undo(t) \/ Undone(t)

DbStep(t) ==
    \/ Finish(t) \/ GetConnection(t)
    \/ NestedWriteDb(t) \/ WriteDb(t) \/ ReadDb(t)
    \/ ReadCounter(t) \/ WriteCounter(t)
    \/ Raise(t) \/ Catch(t)

DbNext == \E t \in Task : DbStep(t) \/ CancelOpening(t)

DbSpec == DbInit /\ [][DbNext]_dbVars

(* Blocks end, the connection answers and a free lock or connection goes   *)
(* to who waits longest (asyncio.Lock and asyncio.Queue are fair).         *)
DbFairness == \A t \in Task : WF_dbVars(Finish(t)) /\ SF_dbVars(GetConnection(t))

(* The executions in which no task is cancelled at a SAVEPOINT.            *)
DbFairSpec == DbInit /\ [][\E t \in Task : DbStep(t)]_dbVars /\ DbFairness

-----------------------------------------------------------------------------
DbTypeOK ==
    /\ lock \in Task \cup {Nobody} /\ curWriter \in {lock, Nobody}
    /\ Range(waiters) = {t \in Task : place[t] = "lock"}
    /\ free \in 0..Conns
    /\ cur \in 0..MaxWrites /\ disk \in 0..MaxWrites
    /\ pending \in [Task -> 0..MaxWrites]

(* Write blocks are serialised and a failed block leaves no trace, nested  *)
(* or not: what the write connection sees is what ended normally plus what *)
(* the block in progress has done.                                         *)
NoUpdateLost == cur = done + (IF lock = Nobody THEN 0 ELSE pending[lock])

(* Once a write block has ended normally its changes are committed, and    *)
(* nothing of a block that failed or is still running ever is.             *)
CommittedIsDone == disk = done

(* Every read connection is in the pool or with one task, also after       *)
(* failures and cancellations.                                             *)
PoolConserved == free + Cardinality({t \in Task : InUse(t)}) = Conns

(* Readers that wait for the lock and writers that read cannot wait for    *)
(* each other: again and again nobody waits for a lock or a connection, so *)
(* that everyone who waits gets on.                                        *)
NobodyStuck == []<>(\A t \in Task : place[t] \notin {"lock", "conn"})

(* The database has what the blocks that ended well wrote, and connections *)
(* are returned.                                                           *)
DbConsistent == DbTypeOK /\ NoUpdateLost /\ CommittedIsDone /\ PoolConserved
=============================================================================
