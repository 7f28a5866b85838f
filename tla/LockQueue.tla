------------------------------ MODULE LockQueue ------------------------------
(***************************************************************************)
(* The priority lock of the full node: LockQueue and LockClient in         *)
(* chives/full_node/lock_queue.py.  Every writer of the chain and of the   *)
(* mempool runs inside `async with client:` of one of three LockClients    *)
(* that share one LockQueue around Blockchain.lock.                        *)
(*                                                                         *)
(* Definitions marked "Mutant" are plausible bugs of the definition that   *)
(* follows; they are not part of the specification.                        *)
(*                                                                         *)
(* A request is one execution of `async with client: body`.  The grain of  *)
(* atomicity is asyncio's: what runs between two suspension points is one  *)
(* action.  The inner lock has no user besides the runner, so the runner's *)
(* `await self.acquire()` never suspends (FreeWhenIdle below), and popping *)
(* a callback, taking the lock and setting its event are one action.       *)
(***************************************************************************)
EXTENDS Integers, FiniteSets

CONSTANTS
    Request,    \* executions of `async with client`
    Priority    \* Priority[r]: the LockClient's number; lower goes first

ASSUME PriorityAssumption == Priority \in [Request -> Nat]

VARIABLES
    pc,             \* where each request is: see Stage
    queue,          \* _task_queue: requests whose callback is still queued
    runner,         \* where _run() is suspended
    locked,         \* _inner_lock.locked()
    releaseEvent    \* _release_event.is_set()

vars == <<pc, queue, runner, locked, releaseEvent>>

(***************************************************************************)
(* "waiting": suspended in called.wait(); "granted": `called` is set but   *)
(* the coroutine has not resumed; "holding": inside the body;              *)
(* "cancelled": __aenter__ raised CancelledError, so __aexit__ never runs. *)
(***************************************************************************)
Stage == {"new", "waiting", "granted", "holding", "done", "cancelled"}

Init ==
    /\ pc = [r \in Request |-> "new"]
    /\ queue = {}
    /\ runner = "get"
    /\ locked = FALSE
    /\ releaseEvent = FALSE

-----------------------------------------------------------------------------
(* LockClient.__aenter__ up to `await called.wait()`.                      *)
Enqueue(r) ==
    /\ pc[r] = "new"
    /\ pc' = [pc EXCEPT ![r] = "waiting"]
    /\ queue' = queue \cup {r}
    /\ UNCHANGED <<runner, locked, releaseEvent>>

(* Mutant: a queue that ignores priorities.                                *)
FirstAnyOrder(q) == q

(* PriorityQueue.get: some entry of the smallest number.  PrioritizedCallable *)
(* compares priorities only, so the heap promises no order among equals.      *)
First(q) == {r \in q : \A s \in q : Priority[r] <= Priority[s]}

(* Mutant: _run() without the acquire().                                   *)
ServeNoAcquire(r) ==
    /\ runner = "get"
    /\ r \in First(queue)
    /\ queue' = queue \ {r}
    /\ releaseEvent' = FALSE
    /\ pc' = IF pc[r] = "waiting" THEN [pc EXCEPT ![r] = "granted"] ELSE pc
    /\ runner' = "wait"
    /\ UNCHANGED locked

(* One turn of _run(): get, a fresh release event, acquire, af().          *)
Serve(r) ==
    /\ runner = "get"
    /\ ~locked
    /\ r \in First(queue)
    /\ queue' = queue \ {r}
    /\ locked' = TRUE
    /\ releaseEvent' = FALSE
    /\ pc' = IF pc[r] = "waiting" THEN [pc EXCEPT ![r] = "granted"] ELSE pc
    /\ runner' = "wait"

(* The client's coroutine resumes after called.wait() and enters its body. *)
Enter(r) ==
    /\ pc[r] = "granted"
    /\ pc' = [pc EXCEPT ![r] = "holding"]
    /\ UNCHANGED <<queue, runner, locked, releaseEvent>>

(* LockClient.__aexit__, also when the body raised or was cancelled.       *)
Exit(r) ==
    /\ pc[r] = "holding"
    /\ pc' = [pc EXCEPT ![r] = "done"]
    /\ locked' = FALSE
    /\ releaseEvent' = TRUE
    /\ UNCHANGED <<queue, runner>>

(* _run() resumes after _release_event.wait().                             *)
Wake ==
    /\ runner = "wait"
    /\ releaseEvent
    /\ runner' = "get"
    /\ UNCHANGED <<pc, queue, locked, releaseEvent>>

(* LockQueue.close: the runner's task is cancelled wherever it waits.      *)
Close ==
    /\ runner # "closed"
    /\ runner' = "closed"
    /\ UNCHANGED <<pc, queue, locked, releaseEvent>>

(* The task that runs the request is cancelled inside __aenter__, as       *)
(* ChivesServer does for the handlers of a peer that disconnects and for a *)
(* handler that exceeds its timeout.  The queued callback stays queued.    *)
Cancel(r) ==
    /\ pc[r] \in {"waiting", "granted"}
    /\ pc' = [pc EXCEPT ![r] = "cancelled"]
    /\ UNCHANGED <<queue, runner, locked, releaseEvent>>

-----------------------------------------------------------------------------
(* Every step but a cancellation inside __aenter__.                        *)
Step ==
    \/ \E r \in Request : Enqueue(r) \/ Serve(r) \/ Enter(r) \/ Exit(r)
    \/ Wake
    \/ Close

Next == Step \/ \E r \in Request : Cancel(r)

Spec == Init /\ [][Next]_vars

(* The event loop runs every ready coroutine, and bodies terminate; no     *)
(* request has to arrive and nobody has to close the queue.                *)
Fairness ==
    /\ WF_vars(Wake)
    /\ WF_vars(\E r \in Request : Serve(r))
    /\ \A r \in Request : WF_vars(Enter(r)) /\ WF_vars(Exit(r))

FairSpec == Spec /\ Fairness

(* The executions in which no request is cancelled inside __aenter__.      *)
NoCancelSpec == Init /\ [][Step]_vars /\ Fairness

-----------------------------------------------------------------------------
TypeOK ==
    /\ pc \in [Request -> Stage]
    /\ queue \in SUBSET Request
    /\ runner \in {"get", "wait", "closed"}
    /\ locked \in BOOLEAN
    /\ releaseEvent \in BOOLEAN

Owner == {r \in Request : pc[r] \in {"granted", "holding"}}

(* At most one coroutine is between the grant and __aexit__, and while one *)
(* is, the inner lock is held: the body of `async with client` is a        *)
(* critical section.                                                       *)
MutualExclusion ==
    /\ \A r, s \in Owner : r = s
    /\ Owner # {} => locked

(* The lock is free whenever _run() waits in _task_queue.get(), which is   *)
(* why its acquire() never suspends between choosing a client and serving  *)
(* it.                                                                     *)
FreeWhenIdle == runner = "get" => ~locked

(* A held lock belongs to a request that will release it.                  *)
LockHasOwner == locked => Owner # {}

(* "the higher priority (lower number) will always go first": a request    *)
(* is never granted the lock while one of a smaller number waits for it.   *)
HigherPriorityFirst ==
    [][\A r, s \in Request :
          /\ pc[r] = "waiting" /\ pc'[r] = "granted"
          /\ pc[s] = "waiting"
          => Priority[r] <= Priority[s]]_vars

(* Again and again nobody waits, or the queue is closed: as each request   *)
(* enters once, every waiting request is eventually granted the lock.      *)
WaitersServed == []<>(runner = "closed" \/ \A r \in Request : pc[r] # "waiting")

(* The lock excludes, and what _run and its clients know of it agrees.     *)
LockConsistent == TypeOK /\ MutualExclusion /\ FreeWhenIdle
=============================================================================
