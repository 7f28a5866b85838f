------------------------------- MODULE TxRelay ------------------------------
(***************************************************************************)
(* How a full node fetches transactions that peers announce                *)
(* (new_transaction and its tx_request_and_timeout task,                   *)
(* respond_transaction) and works through the queue of those it received   *)
(* (_handle_transactions, _handle_one_transaction).                        *)
(***************************************************************************)
EXTENDS Integers, FiniteSets

CONSTANTS Tx, RPeer, MaxAsks, QueueSize, Workers, MaxOffers

TaskId == 1..MaxOffers

VARIABLES
    pendingTx,   \* keys of pending_tx_request
    peersWithTx, \* peers_with_tx; a missing key is an empty set
    fetch,       \* tx_request_and_timeout tasks: id -> transaction, requests made, state
    inbox,       \* transaction_queue, without order
    handling,    \* transactions that _handle_one_transaction works on
    permits,     \* respond_transaction_semaphore, and whether _handle_transactions holds a permit
    taken,
    seenTx,      \* seen_bundle_hashes or in the mempool
    requested,   \* requests on their way
    offers       \* announcements so far (bounded)

relayVars == <<pendingTx, peersWithTx, fetch, inbox, handling, permits, taken, seenTx, requested, offers>>

NoTask == [tx |-> "none", asks |-> 0, at |-> "free"]

RelayInit ==
    /\ pendingTx = {} /\ peersWithTx = [x \in Tx |-> {}]
    /\ fetch = [i \in TaskId |-> NoTask] /\ inbox = {} /\ handling = {} /\ permits = Workers /\ taken = FALSE
    /\ seenTx = {} /\ requested = {} /\ offers = 0

queueVars == <<inbox, handling, permits, taken, seenTx>>

(* new_transaction: a peer joins the set of a pending request, or a task   *)
(* is started.                                                             *)
NewTransaction(x, p) ==
    /\ offers < MaxOffers /\ offers' = offers + 1
    /\ x \notin seenTx
    /\ IF x \in pendingTx
       THEN /\ peersWithTx' = [peersWithTx EXCEPT ![x] = @ \cup {p}]
            /\ UNCHANGED <<pendingTx, fetch>>
       ELSE /\ peersWithTx' = [peersWithTx EXCEPT ![x] = {p}]
            /\ pendingTx' = pendingTx \cup {x}
            /\ fetch' = [fetch EXCEPT ![offers'] = [tx |-> x, asks |-> 0, at |-> "loop"]]
    /\ UNCHANGED <<queueVars, requested>>

(* The task asks the next peer and sleeps.                                 *)
AskNext(i) ==
    LET x == fetch[i].tx IN
    /\ fetch[i].at = "loop" /\ fetch[i].asks < MaxAsks /\ peersWithTx[x] # {}
    /\ \E p \in peersWithTx[x] :
        /\ peersWithTx' = [peersWithTx EXCEPT ![x] = @ \ {p}]
        /\ requested' = requested \cup {<<x, p>>}
    /\ fetch' = [fetch EXCEPT ![i].at = "sleep", ![i].asks = @ + 1]
    /\ UNCHANGED <<pendingTx, queueVars, offers>>

(* A peer that has gone is skipped, without counting.                      *)
SkipPeer(i) ==
    LET x == fetch[i].tx IN
    /\ fetch[i].at = "loop" /\ fetch[i].asks < MaxAsks
    /\ \E p \in peersWithTx[x] : peersWithTx' = [peersWithTx EXCEPT ![x] = @ \ {p}]
    /\ UNCHANGED <<pendingTx, fetch, queueVars, requested, offers>>

(* Mutant: what is pending is only cleaned up when an answer came.         *)
CleanUpSeen(x) ==
    IF x \in seenTx
    THEN /\ pendingTx' = pendingTx \ {x}
         /\ peersWithTx' = [peersWithTx EXCEPT ![x] = {}]
    ELSE UNCHANGED <<pendingTx, peersWithTx>>

CleanUp(x) ==
    /\ pendingTx' = pendingTx \ {x}
    /\ peersWithTx' = [peersWithTx EXCEPT ![x] = {}]

(* The sleep ends: another round, unless the transaction was seen.         *)
TimeOut(i) ==
    /\ fetch[i].at = "sleep" /\ fetch[i].tx \notin seenTx
    /\ fetch' = [fetch EXCEPT ![i].at = "loop"]
    /\ UNCHANGED <<pendingTx, peersWithTx, queueVars, requested, offers>>

EndFetch(i) ==
    LET x == fetch[i].tx IN
    /\ \/ fetch[i].at = "sleep" /\ x \in seenTx
       \/ fetch[i].at = "loop" /\ (fetch[i].asks = MaxAsks \/ peersWithTx[x] = {})
    /\ CleanUp(x) /\ fetch' = [fetch EXCEPT ![i] = NoTask]
    /\ UNCHANGED <<queueVars, requested, offers>>

(* respond_transaction of the API: dropped when the queue is full.         *)
ReceiveTransaction(x, p) ==
    /\ <<x, p>> \in requested /\ requested' = requested \ {<<x, p>>}
    /\ pendingTx' = pendingTx \ {x}
    /\ peersWithTx' = [peersWithTx EXCEPT ![x] = {}]
    /\ inbox' = IF Cardinality(inbox) = QueueSize THEN inbox ELSE inbox \cup {<<x, p>>}
    /\ UNCHANGED <<fetch, handling, permits, taken, seenTx, offers>>

(* The peer does not answer.                                               *)
NoAnswer(x, p) ==
    /\ <<x, p>> \in requested /\ requested' = requested \ {<<x, p>>}
    /\ UNCHANGED <<pendingTx, peersWithTx, fetch, queueVars, offers>>

(* _handle_transactions takes a permit, then waits for an entry.           *)
Acquire ==
    /\ ~taken /\ permits > 0 /\ permits' = permits - 1 /\ taken' = TRUE
    /\ UNCHANGED <<pendingTx, peersWithTx, fetch, inbox, handling, seenTx, requested, offers>>

(* Another task for the same transaction finds it seen and has no effect.  *)
HandleTransactions(e) ==
    /\ taken /\ e \in inbox /\ taken' = FALSE
    /\ inbox' = inbox \ {e}
    /\ IF e[1] \in seenTx THEN permits' = permits + 1 /\ UNCHANGED <<handling, seenTx>>
       ELSE handling' = handling \cup {e} /\ seenTx' = seenTx \cup {e[1]} /\ UNCHANGED permits
    /\ UNCHANGED <<pendingTx, peersWithTx, fetch, requested, offers>>

Release(ok) == permits + 1

(* _handle_one_transaction ends: in the mempool, or not seen any more.     *)
HandledOne(e, ok) ==
    /\ e \in handling /\ handling' = handling \ {e}
    /\ seenTx' = IF ok THEN seenTx ELSE seenTx \ {e[1]}
    /\ permits' = Release(ok)
    /\ UNCHANGED <<pendingTx, peersWithTx, fetch, inbox, taken, requested, offers>>

RelayNext ==
    \/ \E x \in Tx, p \in RPeer : NewTransaction(x, p) \/ ReceiveTransaction(x, p) \/ NoAnswer(x, p)
    \/ \E i \in TaskId : AskNext(i) \/ SkipPeer(i) \/ TimeOut(i) \/ EndFetch(i)
    \/ Acquire
    \/ \E e \in inbox : HandleTransactions(e)
    \/ \E e \in handling, ok \in BOOLEAN : HandledOne(e, ok)

RelayFair ==
    /\ \A i \in TaskId : WF_relayVars(AskNext(i) \/ SkipPeer(i) \/ TimeOut(i) \/ EndFetch(i))
    /\ WF_relayVars(Acquire) /\ WF_relayVars(\E e \in inbox : HandleTransactions(e))
    /\ WF_relayVars(\E e \in handling, ok \in BOOLEAN : HandledOne(e, ok))

RelaySpec == RelayInit /\ [][RelayNext]_relayVars /\ RelayFair
-----------------------------------------------------------------------------
RelayTypeOK ==
    /\ pendingTx \subseteq Tx /\ peersWithTx \in [Tx -> SUBSET RPeer]
    /\ permits \in 0..Workers /\ Cardinality(inbox) <= QueueSize

(* A pending request has a task that works on it: otherwise announcements  *)
(* of this transaction would only be collected, and it never fetched.      *)
PendingHasTask == \A x \in pendingTx : \E i \in TaskId : fetch[i].tx = x

(* Each permit is there, held for the next entry, or held by a call.       *)
PermitsConserved == permits + Cardinality(handling) + (IF taken THEN 1 ELSE 0) = Workers

(* Every received transaction is worked on.                                *)
QueueDrains == []<>(inbox = {})
=============================================================================
