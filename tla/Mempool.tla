------------------------------- MODULE Mempool -------------------------------
(***************************************************************************)
(* The mempool as a data structure (chives/full_node/mempool.py and        *)
(* pending_tx_cache.py) and what MempoolManager.add_spendbundle            *)
(* (mempool_manager.py) does to it.  A pool is the sequence of its         *)
(* transactions in the order in which they were added; the other           *)
(* dictionaries of Mempool are indexes of it.                              *)
(***************************************************************************)
EXTENDS CoinStore, Sequences, SequencesExt, FiniteSetsExt

CONSTANTS
    Tx,
    Removals, Additions,    \* the coins a transaction spends and creates
    Cost, Fee,
    HeightLock, SecondsLock,    \* conditions, with the height as the clock
    HeightRelative, \* for the transactions that have such a condition
    MaxCost,        \* mempool_max_total_cost
    PendingCost,    \* _cache_max_total_cost
    BlockCost,      \* limit_factor * MAX_BLOCK_COST_CLVM
    MinRate,        \* nonzero_fee_minimum_fpc
    MinIncrease     \* get_min_fee_increase

(* What pre-validation and the checks of the bundle alone guarantee.       *)
ASSUME TxAssumption ==
    /\ Removals \in [Tx -> SUBSET Coin] /\ Additions \in [Tx -> SUBSET Coin]
    /\ \A x \in Tx : Removals[x] # {}
    /\ Cost \in [Tx -> 1..BlockCost] /\ Fee \in [Tx -> Nat]
    /\ HeightLock \in [Tx -> Nat] /\ SecondsLock \in [Tx -> Nat]
    /\ DOMAIN HeightRelative \subseteq Tx
    /\ \A x \in DOMAIN HeightRelative : HeightRelative[x] \in Nat
    /\ BlockCost \in Nat /\ MaxCost \in Nat /\ BlockCost <= MaxCost
    /\ PendingCost \in Nat /\ MinRate \in Nat /\ MinIncrease \in Nat

(* fees_per_cost, compared as fractions.                                   *)
Cheaper(x, y) == Fee[x] * Cost[y] < Fee[y] * Cost[x]

CostOf(S) == MapThenSumSet(LAMBDA x : Cost[x], S)
FeeOf(S) == MapThenSumSet(LAMBDA x : Fee[x], S)

IndexIn(pool, x) == SelectInSeq(pool, LAMBDA y : y = x)
Without(pool, S) == SelectSeq(pool, LAMBDA x : x \notin S)

AtFullCapacity(pool, c) == CostOf(Range(pool)) + c > MaxCost

(* The order of sorted_spends: cheaper first, then as added.               *)
KickedBefore(pool, x) ==
    {y \in Range(pool) : Cheaper(y, x) \/ (~Cheaper(x, y) /\ IndexIn(pool, y) < IndexIn(pool, x))}

(* What add_to_pool kicks out, and get_min_fee_rate counts up to, to make  *)
(* room for c.                                                             *)
Kicked(pool, c) ==
    {x \in Range(pool) : CostOf(Range(pool) \ KickedBefore(pool, x)) + c > MaxCost}

AddToPool(pool, x) == Append(Without(pool, Kicked(pool, Cost[x])), x)

(* PendingTxCache.add: the oldest go first.                                *)
AddPending(pending, x) ==
    IF x \in Range(pending) THEN pending
    ELSE LET q == Append(pending, x)
             fits == {i \in 1..(Len(q) + 1) :
                         CostOf(Range(SubSeq(q, i, Len(q)))) <= PendingCost}
         IN  SubSeq(q, CHOOSE i \in fits : \A j \in fits : i <= j, Len(q))

Conflicts(pool, x) == {y \in Range(pool) : Removals[y] \cap Removals[x] # {}}

(* Mutant: without the superset rule and the fee increase.                 *)
CanReplaceAny(C, x) == FeeOf(C) * Cost[x] < Fee[x] * CostOf(C)

CanReplace(C, x) ==
    /\ \A y \in C : Removals[y] \subseteq Removals[x]
    /\ FeeOf(C) * Cost[x] < Fee[x] * CostOf(C)
    /\ Fee[x] >= FeeOf(C) + MinIncrease

(* If the pool is full, the fee has to be worth it.                        *)
FeeEnough(pool, x) ==
    AtFullCapacity(pool, Cost[x]) =>
        /\ Fee[x] >= MinRate * Cost[x]
        /\ \A y \in Kicked(pool, Cost[x]) : Cheaper(y, x)

Replaced(pool, x) == Without(pool, Conflicts(pool, x))

(* ASSERT_HEIGHT_RELATIVE: counted from where the coin is confirmed now; a *)
(* coin of the transaction itself counts as confirmed in the next block.   *)
TooYoung(store, height, x) ==
    /\ x \in DOMAIN HeightRelative
    /\ \E c \in Removals[x] :
          height < HeightRelative[x] + (IF c \in Additions[x] THEN height + 1 ELSE store.confirmed[c])

(***************************************************************************)
(* add_spendbundle.  pools has the mempool, the pending cache and the      *)
(* answer; store is the coin store of the chain and height that of the     *)
(* mempool's peak.                                                         *)
(***************************************************************************)
AddSpendbundle(pools, store, height, x) ==
    LET C == Conflicts(pools.pool, x)
        failed == [pools EXCEPT !.status = "failed"]
        later == [pools EXCEPT !.pending = AddPending(@, x), !.status = "pending"]
    IN  IF x \in Range(pools.pool) THEN [pools EXCEPT !.status = "success"]
        ELSE IF \/ \E c \in Removals[x] : c \notin Additions[x] /\ ~HasRow(store, c)
                \/ ~FeeEnough(pools.pool, x)
                \/ \E c \in Removals[x] : c \notin Additions[x] /\ ~IsUnspent(store, c)
        THEN failed
        ELSE IF C # {} /\ ~CanReplace(C, x) THEN later
        ELSE IF height < HeightLock[x] THEN later
        ELSE IF height < SecondsLock[x] THEN failed
        ELSE IF TooYoung(store, height, x) THEN later
        ELSE [pools EXCEPT !.pool = AddToPool(Replaced(@, x), x), !.status = "success"]

(* create_bundle_from_mempool: the best-paying first, up to the limit.     *)
TakenBefore(pool, x) ==
    {y \in Range(pool) : Cheaper(x, y) \/ (~Cheaper(y, x) /\ IndexIn(pool, y) <= IndexIn(pool, x))}

CreateBundle(pool) == {x \in Range(pool) : CostOf(TakenBefore(pool, x)) <= BlockCost}
-----------------------------------------------------------------------------
(***************************************************************************)
(* MempoolManager and FullNode.respond_transaction: transactions arrive,   *)
(* are pre-validated in another process and added under the blockchain     *)
(* lock, while the chain moves, also back and forth between branches.      *)
(*                                                                         *)
(* The coin store of the chain is the one of its peak (proved for          *)
(* Blockchain as CoinStoreMatchesPeak).  receive_block, of one block or of *)
(* a batch, and the mempool's new_peak run under one hold of the lock and  *)
(* are one action; only a long sync lets go of the lock in between.        *)
(***************************************************************************)

CONSTANTS
    IsTx,           \* transaction blocks
    SeenSize,       \* seen_cache_size
    MaxChecking     \* bound: transactions that are pre-validated at a time

ASSUME ManagerAssumption ==
    /\ IsTx \in [Block -> BOOLEAN]
    /\ \A b \in Block : Height[b] = 0 => IsTx[b]
    /\ SeenSize \in Nat \ {0}

VARIABLES
    chain,      \* the peak of the blockchain
    peak,       \* MempoolManager.peak
    pool,       \* mempool.spends
    pending,    \* potential_cache
    seen,       \* seen_bundle_hashes, oldest first
    checking,   \* transactions between pre-validation and the lock
    announced,  \* what new_peak returned and the peers were not yet told
    syncing,    \* a long sync moved the chain, _finish_sync has yet to run
    strayed     \* a transaction was added while peak was not the chain's

vars == <<chain, peak, pool, pending, seen, checking, announced, syncing, strayed>>

(* The node starts with the chain of its database; new_peak ignores a peak *)
(* that is no transaction block.                                           *)
Init ==
    /\ chain \in Block \cup {NoBlock}
    /\ peak = IF chain \in Block /\ IsTx[chain] THEN chain ELSE NoBlock
    /\ pool = <<>> /\ pending = <<>> /\ seen = <<>>
    /\ checking = {} /\ announced = {}
    /\ syncing = FALSE /\ strayed = FALSE

(* The last transaction block at or below b.                               *)
LastTx(b) ==
    IF b = NoBlock THEN NoBlock
    ELSE CHOOSE a \in Anc[b] : IsTx[a] /\ \A c \in Anc[b] : IsTx[c] => Height[c] <= Height[a]

PrevTx(b) == LastTx(Parent[b])

(* The coin stores that represent the chains.                              *)
Stores ==
    [b \in Block \cup {NoBlock} |->
        [confirmed |-> [c \in Coin |->
            IF \E a \in Path(b) : c \in Adds(a)
            THEN Height[CHOOSE a \in Path(b) : c \in Adds(a)] ELSE NoRow],
         spent |-> [c \in Coin |->
            IF \E a \in Path(b) : c \in Spends[a]
            THEN Height[CHOOSE a \in Path(b) : c \in Spends[a]] ELSE 0]]]

StoreOf(b) == Stores[b]

RemoveSeen(s, S) == SelectSeq(s, LAMBDA x : x \notin S)

AddSeen(s, x) ==
    LET q == Append(s, x)
    IN  IF Len(q) > SeenSize THEN Tail(q) ELSE q

-----------------------------------------------------------------------------
(* respond_transaction up to the pre-validation.                           *)
Receive(x) ==
    /\ x \notin checking /\ Cardinality(checking) < MaxChecking
    /\ IF x \in Range(pool)
       THEN seen' = RemoveSeen(seen, {x}) /\ UNCHANGED checking
       ELSE /\ x \notin Range(seen)
            /\ seen' = AddSeen(seen, x)
            /\ checking' = checking \cup {x}
    /\ UNCHANGED <<chain, peak, pool, pending, announced, syncing, strayed>>

(* The pre-validation fails.                                               *)
Reject(x) ==
    /\ x \in checking
    /\ checking' = checking \ {x}
    /\ seen' = RemoveSeen(seen, {x})
    /\ UNCHANGED <<chain, peak, pool, pending, announced, syncing, strayed>>

(* The rest of respond_transaction, under the lock.                        *)
Add(x) ==
    /\ x \in checking
    /\ checking' = checking \ {x}
    /\ IF x \in Range(pool)
       THEN seen' = RemoveSeen(seen, {x}) /\ UNCHANGED <<pool, pending, strayed>>
       ELSE IF peak = NoBlock
       THEN seen' = RemoveSeen(seen, {x}) /\ UNCHANGED <<pool, pending, strayed>>
       ELSE LET after == AddSpendbundle([pool |-> pool, pending |-> pending, status |-> "none"],
                                        StoreOf(chain), Height[peak], x)
            IN  /\ pool' = after.pool
                /\ pending' = after.pending
                /\ seen' = IF after.status = "success" THEN seen ELSE RemoveSeen(seen, {x})
                /\ strayed' = (strayed \/ (after.status = "success" /\ peak # LastTx(chain)))
    /\ UNCHANGED <<chain, peak, announced, syncing>>

-----------------------------------------------------------------------------
(* The generators of the blocks that a new peak b adds to the chain.       *)
LastSpends(b) ==
    LET new == {a \in Path(b) \ Path(chain) : Spends[a] # {}}
    IN  IF new = {} THEN {}
        ELSE Spends[CHOOSE a \in new : \A c \in new : Height[c] <= Height[a]]

(* Adds the transactions of q in turn; notes which of them were taken.     *)
AddAll(pools, store, height, q) ==
    FoldLeft(LAMBDA r, x :
                LET after == AddSpendbundle(r.pools, store, height, x)
                IN  [pools |-> after,
                     added |-> IF after.status = "success" THEN r.added \cup {x} ELSE r.added],
             [pools |-> pools, added |-> {}], q)

(* Mutant: the optimisation is also used when the new block is a reorg.    *)
UseOptimizationAlways(b, spends) == peak # NoBlock /\ spends # {}

UseOptimization(b, spends) == peak # NoBlock /\ PrevTx(b) = peak /\ spends # {}

(* MempoolManager.new_peak: kick what the block spent, or build a new      *)
(* mempool; then try the pending transactions again.  spends is            *)
(* last_npc_result, later whether the answer is announced after the lock.  *)
MempoolNewPeak(b, spends, later) ==
    LET quick == UseOptimization(b, spends)
        store == StoreOf(b)
        gone == {x \in Range(pool) : Removals[x] \cap spends # {}}
        rebuilt == AddAll([pool |-> <<>>, pending |-> pending, status |-> "none"],
                          store, Height[b], pool)
        kept == IF quick THEN [pool |-> Without(pool, gone), pending |-> pending]
                ELSE [pool |-> rebuilt.pools.pool, pending |-> rebuilt.pools.pending]
        retried == AddAll([pool |-> kept.pool, pending |-> <<>>, status |-> "none"],
                          store, Height[b], kept.pending)
    IN  /\ peak' = b
        /\ pool' = retried.pools.pool
        /\ pending' = retried.pools.pending
        /\ seen' = RemoveSeen(seen, IF quick THEN gone
                                    ELSE Range(pool) \ rebuilt.added)
        /\ announced' = IF later THEN announced \cup retried.added ELSE announced
        /\ strayed' = (strayed /\ quick)

(* respond_block: b's parent is stored, so it is not heavier than the peak. *)
(* Otherwise b ends a batch, and the peers are told under the lock.        *)
OneBlock(b) == Height[b] = 0 \/ (chain # NoBlock /\ Weight[Parent[b]] <= Weight[chain])

(* receive_block makes b the peak; only transaction blocks reach the pool. *)
NewPeak(b) ==
    /\ IF chain = NoBlock THEN Height[b] = 0
       ELSE Height[b] # 0 /\ Weight[b] > Weight[chain]
    /\ chain' = b
    /\ IF IsTx[b] THEN MempoolNewPeak(b, LastSpends(b), OneBlock(b))
       ELSE UNCHANGED <<peak, pool, pending, seen, announced, strayed>>
    /\ UNCHANGED <<checking, syncing>>

(* _sync: sync_from_fork_point moves the chain to b, under the lock, and   *)
(* does not tell the mempool.                                              *)
LongSync(b) ==
    /\ ~syncing
    /\ chain # NoBlock => Height[b] # 0 /\ Weight[b] > Weight[chain]
    /\ chain' = b
    /\ syncing' = TRUE
    /\ UNCHANGED <<peak, pool, pending, seen, checking, announced, strayed>>

(* _finish_sync takes the lock again, behind whoever waited for it.        *)
FinishSync ==
    /\ syncing
    /\ syncing' = FALSE
    /\ IF IsTx[chain] /\ peak # chain THEN MempoolNewPeak(chain, {}, FALSE)
       ELSE UNCHANGED <<peak, pool, pending, seen, announced, strayed>>
    /\ UNCHANGED <<chain, checking>>

(* peak_post_processing_2, without the lock: tells the peers about a       *)
(* transaction that new_peak returned.                                     *)
Announce(x) ==
    /\ x \in announced
    /\ announced' = announced \ {x}
    /\ UNCHANGED <<chain, peak, pool, pending, seen, checking, syncing, strayed>>

Next ==
    \/ \E x \in Tx : Receive(x) \/ Reject(x) \/ Add(x) \/ Announce(x)
    \/ \E b \in Block : NewPeak(b) \/ LongSync(b)
    \/ FinishSync

Spec == Init /\ [][Next]_vars

-----------------------------------------------------------------------------
TypeOK ==
    /\ chain \in Block \cup {NoBlock} /\ peak \in Block \cup {NoBlock}
    /\ IsInjective(pool) /\ Range(pool) \subseteq Tx
    /\ IsInjective(pending) /\ Range(pending) \subseteq Tx
    /\ IsInjective(seen) /\ Len(seen) <= SeenSize

(* The pool stays within its cost and no coin is spent by two of its       *)
(* transactions, whatever was replaced, kicked out, rebuilt or retried.    *)
PoolIsConsistent ==
    /\ CostOf(Range(pool)) <= MaxCost
    /\ \A x, y \in Range(pool) : x # y => Removals[x] \cap Removals[y] = {}

Spendable(x) == \A c \in Removals[x] : c \in Additions[x] \/ IsUnspent(StoreOf(chain), c)

(* A block built from the mempool on the chain's last transaction block    *)
(* spends only coins that chain has, as long as no transaction was added   *)
(* while the mempool stood on another block.                               *)
BundleIsValid ==
    peak # NoBlock /\ peak = LastTx(chain) /\ ~strayed =>
        \A x \in Range(pool) : Spendable(x)

(* What is aggregated into a block fits into it and leaves out no better-  *)
(* paying transaction for a worse one.                                     *)
BundleFits ==
    /\ CostOf(CreateBundle(pool)) <= BlockCost
    /\ \A x \in CreateBundle(pool), y \in Range(pool) \ CreateBundle(pool) : ~Cheaper(x, y)

(* While chain and mempool stay at their peaks, a transaction leaves the pool only for   *)
(* one that pays a better rate or, if they conflict, that spends all its   *)
(* coins and raises the fee by the required amount.                        *)
OnlyLeavesForBetter ==
    [][chain' = chain /\ peak' = peak =>
         \A x \in Range(pool) \ Range(pool') : \E y \in Range(pool') \ Range(pool) :
             IF Removals[x] \cap Removals[y] = {} THEN Cheaper(x, y)
             ELSE Removals[x] \subseteq Removals[y] /\ Fee[y] >= Fee[x] + MinIncrease]_vars

(* A block can be made of the pool at any time.                            *)
PoolIsUsable == TypeOK /\ PoolIsConsistent /\ BundleIsValid /\ BundleFits
=============================================================================
