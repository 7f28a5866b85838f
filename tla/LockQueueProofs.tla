--------------------------- MODULE LockQueueProofs ---------------------------
(* Safety of the priority lock, for any set of requests and priorities.    *)
EXTENDS LockQueue, TLAPS

(* The inductive invariant: a client owns the lock only while the runner   *)
(* has taken it and has not been told of its release.                      *)
LockInv ==
    /\ TypeOK
    /\ MutualExclusion
    /\ FreeWhenIdle
    /\ locked => ~releaseEvent
    /\ runner = "wait" /\ ~locked => releaseEvent
    /\ \A r \in Request : pc[r] = "waiting" => r \in queue

(* A new LockQueue is idle, its lock free and its queue empty.             *)
LEMMA LockInvInit == Init => LockInv
  BY DEF Init, LockInv, TypeOK, Stage, MutualExclusion, FreeWhenIdle, Owner

(* Every step of _run, of a client and of a cancellation keeps LockInv.    *)
LEMMA LockInvStep == LockInv /\ [Next]_vars => LockInv'
<1> SUFFICES ASSUME LockInv, [Next]_vars PROVE LockInv'
  OBVIOUS
<1> USE DEF LockInv, TypeOK, Stage, MutualExclusion, FreeWhenIdle, Owner
<1>1. ASSUME NEW r \in Request, Enqueue(r) PROVE LockInv'
  BY <1>1 DEF Enqueue
<1>2. ASSUME NEW r \in Request, Serve(r) PROVE LockInv'
  BY <1>2 DEF Serve, First
<1>3. ASSUME NEW r \in Request, Enter(r) PROVE LockInv'
  BY <1>3 DEF Enter
<1>4. ASSUME NEW r \in Request, Exit(r) PROVE LockInv'
  <2>1. locked /\ runner # "get"
    BY <1>4 DEF Exit
  <2>2. Owner' = {}
    BY <1>4 DEF Exit
  <2>3. QED
    BY <1>4, <2>1, <2>2 DEF Exit
<1>5. ASSUME NEW r \in Request, Cancel(r) PROVE LockInv'
  BY <1>5 DEF Cancel
<1>6. CASE Wake
  BY <1>6 DEF Wake
<1>7. CASE Close
  BY <1>7 DEF Close
<1>8. CASE UNCHANGED vars
  BY <1>8 DEF vars
<1>9. QED
  BY <1>1, <1>2, <1>3, <1>4, <1>5, <1>6, <1>7, <1>8 DEF Next, Step

(* Type correctness, and the bodies of `async with client` exclude one     *)
(* another, also when requests are cancelled while they wait and when the  *)
(* queue is closed.                                                        *)
THEOREM LockMutualExclusion == Spec => []LockConsistent
<1>1. LockInv => LockConsistent
  BY DEF LockInv, LockConsistent
<1>2. QED
  BY <1>1, LockInvInit, LockInvStep, PTL DEF Spec

(* A request that waits is never passed by one of a larger number:         *)
(* PriorityQueue.get chooses among every waiting request, because a        *)
(* waiting request is still queued.                                        *)
THEOREM LockPriority == Spec => HigherPriorityFirst
<1> DEFINE Passed == \A r, s \in Request :
               /\ pc[r] = "waiting" /\ pc'[r] = "granted"
               /\ pc[s] = "waiting"
               => Priority[r] <= Priority[s]
<1>1. ASSUME LockInv, Next PROVE Passed
  <2> USE <1>1 DEF LockInv, TypeOK
  <2>1. ASSUME NEW q \in Request, Serve(q) PROVE Passed
    BY <2>1 DEF Serve, First
  <2>2. ASSUME NEW q \in Request, Enqueue(q) \/ Enter(q) \/ Exit(q) \/ Cancel(q)
        PROVE  Passed
    BY <2>2 DEF Enqueue, Enter, Exit, Cancel
  <2>3. CASE Wake \/ Close
    BY <2>3 DEF Wake, Close
  <2>4. QED
    BY <2>1, <2>2, <2>3 DEF Next, Step
<1>2. LockInv /\ [Next]_vars => [Passed]_vars
  BY <1>1
<1>3. QED
  BY <1>2, LockInvInit, LockInvStep, PTL DEF Spec, HigherPriorityFirst
=============================================================================
