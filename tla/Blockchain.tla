----------------------------- MODULE Blockchain -----------------------------
(***************************************************************************)
(* Blockchain (chives/consensus/blockchain.py) with its stores: adding a   *)
(* block to the database and to the caches in memory, changing the peak,   *)
(* reorganising to a heavier chain, and starting again from the database   *)
(* after the process was killed.                                           *)
(*                                                                         *)
(* receive_block runs under the blockchain lock (LockQueue), so at most    *)
(* one is in progress.  It suspends at every database call, where its task *)
(* may be cancelled, a call may raise, other coroutines may read, or the   *)
(* process may stop; the actions end at those points.  What it writes is   *)
(* visible to its own connection (txn) and reaches the database (db) when  *)
(* the outer write_db() releases its savepoint.                            *)
(***************************************************************************)
EXTENDS BodyValidation

CONSTANTS
    CacheSize,      \* BLOCKS_CACHE_SIZE
    MaxRestarts     \* bound: how often the process may be killed

ASSUME CacheAssumption == CacheSize \in Nat \ {0} /\ MaxRestarts \in Nat

VARIABLES
    db,             \* committed: [blocks, main, peak, coins]
    txn,            \* the writer's view of the same tables
    blockCache,     \* BlockStore.block_cache, less the copies of committed blocks
    blockRecords,   \* __block_records
    heightMap,      \* __height_map: heights to hashes of the peak's chain
    peakHeight,     \* _peak_height, NoHeight for None
    pc,             \* where the one receive_block in progress is suspended
    cur,            \* its block
    fork,           \* its fork_point_with_peak, then its fork height
    applied,        \* the block up to which it replayed the coin store
    restarts

disk == <<db, txn>>
memory == <<blockCache, blockRecords, heightMap, peakHeight>>
call == <<cur, fork, applied>>
vars == <<db, txn, blockCache, blockRecords, heightMap, peakHeight, pc, cur, fork, applied, restarts>>

NoHeight == -1

Database == [blocks : SUBSET Block, main : SUBSET Block,
             peak : Block \cup {NoBlock}, coins : Store]

EmptyDatabase ==
    [blocks |-> {}, main |-> {}, peak |-> NoBlock, coins |-> EmptyStore]

(* get_peak                                                                *)
Peak == IF peakHeight = NoHeight THEN NoBlock ELSE heightMap[peakHeight]

Init ==
    /\ db = EmptyDatabase
    /\ txn = EmptyDatabase
    /\ blockCache = {}
    /\ blockRecords = {}
    /\ heightMap = MapOf(NoBlock)
    /\ peakHeight = NoHeight
    /\ pc = "idle"
    /\ cur = NoBlock
    /\ fork = NoHeight
    /\ applied = NoBlock
    /\ restarts = 0

-----------------------------------------------------------------------------
(* fork_point_with_peak: absent, or a height up to which the peak's chain  *)
(* and the block's are the same (a sync's fork point).                     *)
NoHint == -2
Hints(b) ==
    {NoHint} \cup
    (IF Peak = NoBlock \/ Height[b] = 0 THEN {} ELSE 0..ForkHeight(Peak, Parent[b]))

ForkOf(b, hint) ==
    IF Peak = NoBlock \/ Height[b] = 0 THEN -1
    ELSE IF hint # NoHint THEN hint
    ELSE ForkHeight(Peak, Parent[b])

(* What validate_block_body needs in the cache.                            *)
Lookups(b, hint) ==
    IF ~IsTx[b] THEN {a \in Path(Parent[b]) : Height[a] >= Height[PrevTx(b)]}
    ELSE RewardLookups(b) \cup
         (IF Peak = NoBlock \/ Height[b] = 0 \/ hint # NoHint THEN {}
          ELSE ForkLookups(Peak, Parent[b]))

(* receive_block up to the start of its transaction.  Every early return   *)
(* (known, disconnected or invalid block) and a KeyError leave the state   *)
(* as it is.                                                               *)
ReceiveBlock(b, hint) ==
    /\ pc = "idle"
    /\ b \notin blockRecords
    /\ Height[b] = 0 \/ Parent[b] \in blockRecords
    /\ Lookups(b, hint) \subseteq blockRecords
    /\ ValidateBlockBody(db.coins, ForkOf(b, hint), b)
    /\ pc' = "write"
    /\ cur' = b
    /\ fork' = hint
    /\ UNCHANGED <<disk, memory, applied, restarts>>

(* BlockStore.add_full_block: INSERT OR IGNORE, and the block cache.       *)
AddFullBlock ==
    /\ pc = "write"
    /\ blockCache' = blockCache \cup ({cur} \ db.blocks)
    /\ txn' = [txn EXCEPT !.blocks = @ \cup {cur}]
    /\ pc' = "reconsider"
    /\ UNCHANGED <<db, blockRecords, heightMap, peakHeight, call, restarts>>

(* Mutant: the newest of equally heavy blocks wins.                        *)
IsHeavierOrEqual(b) ==
    IF Height[b] = 0 THEN Peak = NoBlock
    ELSE Peak # NoBlock /\ Weight[b] >= Weight[Peak]

IsHeavier(b) ==
    IF Height[b] = 0 THEN Peak = NoBlock
    ELSE Peak # NoBlock /\ Weight[b] > Weight[Peak]

(* _reconsider_peak when the block does not become the peak.               *)
KeepPeak ==
    /\ pc = "reconsider"
    /\ ~IsHeavier(cur)
    /\ pc' = "orphan"
    /\ UNCHANGED <<disk, memory, call, restarts>>

(* _reconsider_peak up to the replay: the fork point, and the coin store   *)
(* goes back to it.                                                        *)
RollbackCoins ==
    /\ pc = "reconsider"
    /\ IsHeavier(cur)
    /\ IF Height[cur] = 0
       THEN fork' = -1 /\ txn' = txn
       ELSE IF Parent[cur] = Peak
       THEN fork' = peakHeight /\ txn' = txn
       ELSE /\ fork = NoHint => ForkLookups(cur, Peak) \subseteq blockRecords
            /\ fork' = IF fork # NoHint THEN fork ELSE ForkHeight(cur, Peak)
            /\ txn' = [txn EXCEPT !.coins = RollbackToBlock(@, fork')]
    /\ applied' = IF fork' < 0 THEN NoBlock ELSE heightMap[fork']
    /\ pc' = "replay"
    /\ UNCHANGED <<db, memory, cur, restarts>>

(* The blocks from the fork point to the new peak: blocks_to_add.          *)
RecordsToAdd == {a \in Anc[cur] : Height[a] > fork}

(* One turn of the replay loop: the next block above the last one applied. *)
ReplayBlock(a) ==
    /\ pc = "replay"
    /\ a \in RecordsToAdd
    /\ Parent[a] = applied
    /\ IF IsTx[a]
       THEN /\ NewBlockSucceeds(txn.coins, a)
            /\ txn' = [txn EXCEPT !.coins = NewBlock(@, a)]
       ELSE UNCHANGED txn
    /\ applied' = a
    /\ UNCHANGED <<db, memory, pc, cur, fork, restarts>>

(* BlockStore.rollback, set_in_chain and set_peak.                         *)
SetPeak ==
    /\ pc = "replay"
    /\ applied = cur
    /\ txn' = [txn EXCEPT !.main = {a \in @ : Height[a] <= fork} \cup RecordsToAdd,
                          !.peak = cur]
    /\ pc' = "newpeak"
    /\ UNCHANGED <<db, memory, call, restarts>>

(* BlockHeightMap.rollback and update_height for each of the new records.  *)
NewHeightMap ==
    [h \in {k \in DOMAIN heightMap : k <= (IF fork < 0 THEN 0 ELSE fork)}
           \cup {Height[a] : a \in RecordsToAdd} |->
        IF \E a \in RecordsToAdd : Height[a] = h
        THEN CHOOSE a \in RecordsToAdd : Height[a] = h
        ELSE heightMap[h]]

(* The memory caches change in one go, after every call that may fail.     *)
UpdateMemory ==
    /\ pc \in {"orphan", "newpeak"}
    /\ blockRecords' = blockRecords \cup {cur}
    /\ IF pc = "newpeak"
       THEN heightMap' = NewHeightMap /\ peakHeight' = Height[cur]
       ELSE UNCHANGED <<heightMap, peakHeight>>
    /\ pc' = "commit"
    /\ UNCHANGED <<disk, blockCache, call, restarts>>

(* The outer write_db() releases its savepoint.  Cancelling the task here  *)
(* does not stop the RELEASE the database thread was given.                *)
Commit ==
    /\ pc = "commit"
    /\ db' = txn
    /\ blockCache' = blockCache \ txn.blocks
    /\ pc' = "idle"
    /\ cur' = NoBlock /\ fork' = NoHeight /\ applied' = NoBlock
    /\ UNCHANGED <<txn, blockRecords, heightMap, peakHeight, restarts>>

(* Mutant: the failed block stays in the block cache.                      *)
AbortKeepsCache ==
    /\ pc \in {"write", "reconsider", "replay", "orphan", "newpeak"}
    /\ txn' = db
    /\ pc' = "idle"
    /\ cur' = NoBlock /\ fork' = NoHeight /\ applied' = NoBlock
    /\ UNCHANGED <<db, memory, restarts>>

(* A database call raises or the task is cancelled in it: the block leaves *)
(* the cache and the savepoint is rolled back.                             *)
Abort ==
    /\ pc \in {"write", "reconsider", "replay", "orphan", "newpeak"}
    /\ txn' = db
    /\ blockCache' = blockCache \ {cur}
    /\ pc' = "idle"
    /\ cur' = NoBlock /\ fork' = NoHeight /\ applied' = NoBlock
    /\ UNCHANGED <<db, blockRecords, heightMap, peakHeight, restarts>>

-----------------------------------------------------------------------------
(* clean_block_record(h): every record at h, at h - 1 and so on, down to   *)
(* the first height without one.                                           *)
Cleaned(h) ==
    {b \in blockRecords :
        /\ Height[b] <= h
        /\ \A k \in Height[b]..h : \E a \in blockRecords : Height[a] = k}

(* clean_block_records, called by peak_post_processing under the lock.     *)
CleanBlockRecords ==
    /\ pc = "idle"
    /\ Cardinality(blockRecords) >= CacheSize
    /\ peakHeight - CacheSize >= 0
    /\ blockRecords' = blockRecords \ Cleaned(peakHeight - CacheSize)
    /\ UNCHANGED <<disk, blockCache, heightMap, peakHeight, pc, call, restarts>>

(* warmup, called by a sync under the lock.                                *)
Warmup(h) ==
    /\ pc = "idle"
    /\ peakHeight # NoHeight
    /\ blockRecords' = blockRecords \cup
           {b \in db.blocks : h - CacheSize <= Height[b] /\ Height[b] <= h}
    /\ UNCHANGED <<disk, blockCache, heightMap, peakHeight, pc, call, restarts>>

(* The process is killed: the open transaction and the memory are lost.    *)
Crash ==
    /\ pc # "down"
    /\ restarts < MaxRestarts
    /\ restarts' = restarts + 1
    /\ pc' = "down"
    /\ txn' = db
    /\ blockCache' = {} /\ blockRecords' = {}
    /\ heightMap' = MapOf(NoBlock) /\ peakHeight' = NoHeight
    /\ cur' = NoBlock /\ fork' = NoHeight /\ applied' = NoBlock
    /\ UNCHANGED db

(* _load_chain_from_store.  BlockHeightMap.create yields the map of the    *)
(* stored peak's chain (module BlockHeightMap).                            *)
Restart ==
    /\ pc = "down"
    /\ pc' = "idle"
    /\ IF db.peak = NoBlock
       THEN UNCHANGED <<blockRecords, heightMap, peakHeight>>
       ELSE /\ blockRecords' = {b \in db.blocks : Height[b] >= Height[db.peak] - CacheSize}
            /\ heightMap' = MapOf(db.peak)
            /\ peakHeight' = Height[db.peak]
    /\ UNCHANGED <<disk, blockCache, call, restarts>>

-----------------------------------------------------------------------------
Next ==
    \/ \E b \in Block : \E hint \in Hints(b) : ReceiveBlock(b, hint)
    \/ AddFullBlock \/ KeepPeak \/ RollbackCoins
    \/ \E a \in Block : ReplayBlock(a)
    \/ SetPeak \/ UpdateMemory \/ Commit \/ Abort
    \/ CleanBlockRecords
    \/ \E h \in DOMAIN heightMap : Warmup(h)
    \/ Crash \/ Restart

Spec == Init /\ [][Next]_vars

-----------------------------------------------------------------------------
TypeOK ==
    /\ db \in Database
    /\ txn \in Database
    /\ blockCache \in SUBSET Block
    /\ blockRecords \in SUBSET Block
    /\ peakHeight \in Nat \cup {NoHeight}
    /\ pc \in {"idle", "write", "reconsider", "replay", "orphan", "newpeak", "commit", "down"}
    /\ cur \in Block \cup {NoBlock}
    /\ fork \in Nat \cup {NoHeight, NoHint}
    /\ applied \in Block \cup {NoBlock}
    /\ restarts \in 0..MaxRestarts

(* The committed coin records are what replaying the peak's chain from     *)
(* nothing gives, after any sequence of blocks, reorgs, failures and       *)
(* restarts.                                                               *)
CoinStoreMatchesPeak == Represents(db.coins, db.peak)

(* in_main_chain marks exactly the peak's chain, and everything stored is  *)
(* connected to a stored genesis.                                          *)
MainChainIsPath ==
    /\ db.main = Path(db.peak)
    /\ \A b \in db.blocks : Path(b) \subseteq db.blocks
    /\ db.peak # NoBlock => db.peak \in db.blocks

(* The height map, the peak height and the peak in the database agree      *)
(* whenever no receive_block is between its memory update and its commit,  *)
(* and in that window memory agrees with what is about to be committed.    *)
MemoryMatchesDatabase ==
    pc # "down" =>
        LET stored == IF pc = "commit" THEN txn ELSE db
        IN  /\ Peak = stored.peak
            /\ heightMap = MapOf(stored.peak)
            /\ blockRecords \subseteq stored.blocks
            /\ stored.peak # NoBlock => stored.peak \in blockRecords

(* A reader that looks up a height in memory finds the block itself, also  *)
(* in the window before the commit: it is committed or in the block cache. *)
PeakChainReadable ==
    \A h \in DOMAIN heightMap : heightMap[h] \in db.blocks \cup blockCache

(* Outside of a transaction the block cache has no block that the database *)
(* does not have.                                                          *)
CachedIsStored == pc = "idle" => blockCache = {}

(* "if the block is valid": for every candidate that is connected, the     *)
(* answer computed from the peak's coin store and a fork point is the      *)
(* answer of the block's own chain.                                        *)
ValidationIsExact ==
    pc = "idle" =>
        \A b \in Block : (Height[b] = 0 \/ Parent[b] \in blockRecords) =>
            \A hint \in Hints(b) :
                ValidateBlockBody(db.coins, ForkOf(b, hint), b) <=> ValidOnPath(b)

(* A block that passed validation never fails to be applied: no addition   *)
(* is already a row and no removal is missing or spent.                    *)
ReplayNeverFails ==
    pc = "replay" /\ applied # cur =>
        \E a \in RecordsToAdd :
            Parent[a] = applied /\ (IsTx[a] => NewBlockSucceeds(txn.coins, a))

(* The peak is the heaviest block the node has stored.                     *)
PeakIsHeaviest == \A b \in db.blocks : Weight[b] <= Weight[db.peak]

(* No coin value appears or disappears: what can be spent is what the      *)
(* claimed blocks earned, less the fees not claimed yet.                   *)
SupplyConserved ==
    LET claimed == UNION {RewardBlocks(a) : a \in {x \in Path(db.peak) : IsTx[x]}}
        pending == Path(db.peak) \ claimed
    IN  Value({c \in Coin : IsUnspent(db.coins, c)})
            + MapThenSumSet(Fee, pending)
          = MapThenSumSet(LAMBDA a : Value(Rewards[a]) - Fee(a), claimed)

(* The peak in the database only moves to a strictly heavier block.        *)
PeakWeightGrows ==
    [][db.peak' # db.peak /\ db.peak # NoBlock => Weight[db.peak'] > Weight[db.peak]]_vars

Heavier(b, c) == Weight[b] > Weight[c]

LedgerView ==
    INSTANCE Ledger WITH tip <- db.peak, utxo <- {c \in Coin : IsUnspent(db.coins, c)}

(* receive_block's database implements the ledger: its peak is the tip and *)
(* its unspent rows are the coins that can be spent.                       *)
ImplementsLedger == LedgerView!LedgerSpec

(* The committed tables are those of the heaviest chain.                   *)
DatabaseMatchesPeak ==
    /\ TypeOK
    /\ CoinStoreMatchesPeak
    /\ MainChainIsPath
    /\ PeakIsHeaviest

(* Memory and caches agree with the tables, and the chain of the peak can  *)
(* be read.                                                                *)
MemoryConsistent == MemoryMatchesDatabase /\ PeakChainReadable /\ CachedIsStored

(* A reorg neither makes nor loses coins, nor does it stop half-way.       *)
CoinsConserved == SupplyConserved /\ ReplayNeverFails
=============================================================================
