-------------------------- MODULE BlockchainProofs --------------------------
(***************************************************************************)
(* The safety properties of Blockchain, for every tree of blocks, every    *)
(* assignment of coins and every cache size.                               *)
(***************************************************************************)
EXTENDS Blockchain, CoinStoreProofs

Active == {"write", "reconsider", "replay", "orphan", "newpeak", "commit"}

(* What a committed database satisfies.                                    *)
Sound(d) ==
    /\ Represents(d.coins, d.peak)
    /\ d.main = Path(d.peak)
    /\ \A b \in d.blocks : /\ Path(b) \subseteq d.blocks
                           /\ ValidOnPath(b)
                           /\ Weight[b] <= Weight[d.peak]
    /\ IF d.peak = NoBlock THEN d.blocks = {} ELSE d.peak \in d.blocks

Wins == IF db.peak = NoBlock THEN Height[cur] = 0
        ELSE Height[cur] # 0 /\ Weight[cur] > Weight[db.peak]

(* The call in progress works on a valid block on top of a stored one,     *)
(* with a fork point that its chain and the peak's share.                  *)
CallInv ==
    /\ pc \in Active =>
          /\ cur \in Block
          /\ ValidOnPath(cur)
          /\ Path(Parent[cur]) \subseteq db.blocks
    /\ pc \in {"write", "reconsider"} /\ fork # NoHint =>
          ForkUsable(fork, db.peak, Parent[cur]) /\ fork # -1
    /\ pc \in {"replay", "newpeak"} => Wins /\ ForkUsable(fork, db.peak, cur)
    /\ pc = "replay" => applied \in Path(cur) \cup {NoBlock}
    /\ pc = "orphan" => ~Wins

(* What the writer's view of the tables is at each suspension point.       *)
TxnInv ==
    /\ pc \in {"idle", "down", "write"} => txn = db
    /\ pc \in {"reconsider", "replay", "orphan", "newpeak", "commit"} =>
          txn.blocks = db.blocks \cup {cur}
    /\ pc \in {"reconsider", "replay", "orphan"} =>
          txn.main = db.main /\ txn.peak = db.peak
    /\ pc \in {"reconsider", "orphan"} => txn.coins = db.coins
    /\ pc = "replay" => Represents(txn.coins, applied)
    /\ pc = "newpeak" =>
          /\ txn.main = Path(cur) /\ txn.peak = cur
          /\ Represents(txn.coins, cur)
    /\ pc = "commit" =>
          /\ Sound(txn)
          /\ \/ txn.peak = db.peak /\ txn.coins = db.coins
             \/ Wins /\ txn.peak = cur

(* The database that memory describes.                                     *)
Stored == IF pc = "commit" THEN txn ELSE db

MemInv ==
    /\ pc = "down" => blockRecords = {} /\ heightMap = MapOf(NoBlock) /\ peakHeight = NoHeight
    /\ pc # "down" =>
          /\ heightMap = MapOf(Stored.peak)
          /\ peakHeight = IF Stored.peak = NoBlock THEN NoHeight ELSE Height[Stored.peak]
          /\ blockRecords \subseteq Stored.blocks
          /\ Stored.peak # NoBlock => Stored.peak \in blockRecords

CacheInv ==
    /\ pc \in {"idle", "down", "write"} => blockCache = {}
    /\ blockCache \subseteq {cur}
    /\ pc \in {"reconsider", "replay", "orphan", "newpeak", "commit"} =>
          cur \in db.blocks \cup blockCache

Inv == TypeOK /\ Sound(db) /\ CallInv /\ TxnInv /\ MemInv /\ CacheInv

-----------------------------------------------------------------------------
(* get_peak gives the peak of the database that memory describes.          *)
LEMMA PeakIs == TypeOK /\ MemInv /\ pc # "down" => Peak = Stored.peak
<1> SUFFICES ASSUME TypeOK, MemInv, pc # "down" PROVE Peak = Stored.peak
  OBVIOUS
<1>1. Stored.peak \in Block \cup {NoBlock}
  BY DEF TypeOK, Stored, Database
<1>2. CASE Stored.peak = NoBlock
  BY <1>2 DEF MemInv, Peak
<1>3. CASE Stored.peak # NoBlock
  <2>1. Stored.peak \in Path(Stored.peak) /\ Height[Stored.peak] \in Nat
    BY <1>1, <1>3, PathFacts
  <2>2. heightMap = MapOf(Stored.peak) /\ peakHeight = Height[Stored.peak]
    BY <1>3 DEF MemInv
  <2>3. Peak = MapOf(Stored.peak)[Height[Stored.peak]]
    BY <2>1, <2>2 DEF Peak, NoHeight
  <2>4. QED BY <2>1, <2>3, <1>1, MapOfAt
<1>4. QED BY <1>2, <1>3

(* A fork point is usable between chains that the longer one extends.      *)
LEMMA ForkUsableUp ==
    ASSUME NEW fork_, NEW p \in Block \cup {NoBlock}, NEW b \in Block,
           ForkUsable(fork_, p, Parent[b])
    PROVE  ForkUsable(fork_, p, b)
BY PathFacts DEF ForkUsable

(* The initial state satisfies the invariant.                              *)
LEMMA InvInit == Init => Inv
<1> SUFFICES ASSUME Init PROVE Inv
  OBVIOUS
<1>1. TypeOK
  BY EmptyRepresents, CacheAssumption DEF Init, TypeOK, EmptyDatabase, Database, NoHeight
<1>2. Sound(db)
  BY EmptyRepresents DEF Init, Sound, EmptyDatabase, Path
<1>3. CallInv
  BY DEF Init, CallInv, Active
<1>4. TxnInv
  BY DEF Init, TxnInv
<1>5. MemInv
  BY DEF Init, MemInv, Stored, EmptyDatabase
<1>6. CacheInv
  BY DEF Init, CacheInv
<1>7. QED BY <1>1, <1>2, <1>3, <1>4, <1>5, <1>6 DEF Inv

-----------------------------------------------------------------------------
(* The fork point receive_block works with is one that both chains share.  *)
LEMMA ForkOfUsable ==
    ASSUME Inv, pc = "idle", NEW b \in Block,
           Height[b] = 0 \/ Parent[b] \in blockRecords, NEW hint \in Hints(b)
    PROVE  /\ ForkUsable(ForkOf(b, hint), db.peak, Parent[b])
           /\ hint # NoHint => hint \in Nat /\ ForkUsable(hint, db.peak, Parent[b])
           /\ Path(Parent[b]) \subseteq db.blocks
<1>1. Peak = db.peak /\ db.peak \in Block \cup {NoBlock}
  BY PeakIs DEF Inv, Stored, TypeOK, Database
<1>2. Path(Parent[b]) \subseteq db.blocks
  <2>1. CASE Height[b] = 0
    BY <2>1, PathFacts
  <2>2. CASE Parent[b] \in blockRecords
    BY <2>2 DEF Inv, MemInv, Stored, Sound
  <2>3. QED BY <2>1, <2>2
<1>3. CASE Peak = NoBlock \/ Height[b] = 0
  BY <1>2, <1>3 DEF Hints, ForkOf, ForkUsable
<1>4. CASE ~(Peak = NoBlock \/ Height[b] = 0)
  <2> DEFINE f == ForkHeight(Peak, Parent[b])
  <2>1. /\ Peak \in Block /\ Path(Peak) = Anc[Peak]
        /\ Parent[b] \in Block /\ Path(Parent[b]) = Anc[Parent[b]]
    BY <1>1, <1>4, PathFacts, NoBlockAssumption DEF Path
  <2>2. \/ f = -1
        \/ f \in Nat /\ \E a \in Anc[Peak] \cap Anc[Parent[b]] : Height[a] = f
    BY <2>1, ForkHeightShared
  <2>3. ForkUsable(f, db.peak, Parent[b])
    BY <2>1, <2>2, <1>1 DEF ForkUsable
  <2>4. ASSUME hint # NoHint
        PROVE  hint \in Nat /\ ForkUsable(hint, db.peak, Parent[b])
    <3>1. hint \in 0..f
      BY <2>4, <1>4 DEF Hints
    <3>2. f \in Nat /\ hint \in Nat /\ hint <= f
      BY <3>1, <2>2
    <3>3. PICK a \in Anc[Peak] \cap Anc[Parent[b]] : Height[a] = f
      BY <2>2, <3>2
    <3>4. a \in Block
      BY <2>1, AncBelow
    <3>5. PICK x \in Anc[a] : Height[x] = hint
      BY <3>1, <3>3, <3>4, AncDense
    <3>6. x \in Anc[Peak] \cap Anc[Parent[b]]
      BY <3>3, <3>5, <2>1, AncBelow
    <3>7. QED BY <3>2, <3>5, <3>6, <2>1, <1>1 DEF ForkUsable
  <2>5. ForkOf(b, hint) = IF hint # NoHint THEN hint ELSE f
    BY <1>4 DEF ForkOf
  <2>6. QED BY <2>3, <2>4, <2>5, <1>2
<1>5. QED BY <1>3, <1>4

(* validate_block_body answers for the block's own chain.                  *)
LEMMA InvValidationIsExact == Inv => ValidationIsExact
<1> SUFFICES ASSUME Inv, pc = "idle", NEW b \in Block,
                    Height[b] = 0 \/ Parent[b] \in blockRecords, NEW hint \in Hints(b)
    PROVE  ValidateBlockBody(db.coins, ForkOf(b, hint), b) <=> ValidOnPath(b)
  BY DEF ValidationIsExact
<1>1. ForkUsable(ForkOf(b, hint), db.peak, Parent[b])
  BY ForkOfUsable
<1>2. db.coins \in Store /\ db.peak \in Block \cup {NoBlock} /\ Represents(db.coins, db.peak)
  BY DEF Inv, TypeOK, Database, Sound
<1>3. QED BY <1>1, <1>2, ValidateExact

(* The first part of receive_block keeps the invariant.                    *)
LEMMA ReceiveStep ==
    ASSUME Inv, NEW b \in Block, NEW hint \in Hints(b), ReceiveBlock(b, hint)
    PROVE  Inv'
<1>1. /\ pc = "idle" /\ pc' = "write" /\ cur' = b /\ fork' = hint
      /\ db' = db /\ txn' = txn /\ applied' = applied /\ restarts' = restarts
      /\ blockCache' = blockCache /\ blockRecords' = blockRecords
      /\ heightMap' = heightMap /\ peakHeight' = peakHeight
  BY DEF ReceiveBlock, disk, memory
<1>2. /\ hint # NoHint => hint \in Nat /\ ForkUsable(hint, db.peak, Parent[b])
      /\ Path(Parent[b]) \subseteq db.blocks
  BY <1>1, ForkOfUsable DEF ReceiveBlock
<1>3. ValidOnPath(b)
  BY <1>1, InvValidationIsExact DEF ReceiveBlock, ValidationIsExact
<1>4. TypeOK'
  BY <1>1, <1>2 DEF Inv, TypeOK
<1>5. Sound(db')
  BY <1>1 DEF Inv
<1>6. CallInv'
  BY <1>1, <1>2, <1>3 DEF CallInv, Active
<1>7. TxnInv'
  BY <1>1 DEF Inv, TxnInv
<1>8. MemInv'
  BY <1>1 DEF Inv, MemInv, Stored
<1>9. CacheInv'
  BY <1>1 DEF Inv, CacheInv
<1>10. QED BY <1>4, <1>5, <1>6, <1>7, <1>8, <1>9 DEF Inv

(* add_full_block keeps the invariant.                                     *)
LEMMA AddFullBlockStep == Inv /\ AddFullBlock => Inv'
<1> SUFFICES ASSUME Inv, AddFullBlock PROVE Inv'
  OBVIOUS
<1>1. /\ pc = "write" /\ pc' = "reconsider"
      /\ blockCache' = blockCache \cup ({cur} \ db.blocks)
      /\ txn' = [txn EXCEPT !.blocks = @ \cup {cur}]
      /\ db' = db /\ blockRecords' = blockRecords /\ heightMap' = heightMap
      /\ peakHeight' = peakHeight /\ cur' = cur /\ fork' = fork /\ applied' = applied
      /\ restarts' = restarts
  BY DEF AddFullBlock, call
<1>2. cur \in Block
  BY <1>1 DEF Inv, CallInv, Active
<1>3. /\ txn \in Database /\ txn = db
      /\ txn'.blocks = db.blocks \cup {cur} /\ txn'.main = db.main
      /\ txn'.peak = db.peak /\ txn'.coins = db.coins
  BY <1>1 DEF Inv, TypeOK, TxnInv, Database
<1>4. TypeOK'
  BY <1>1, <1>2 DEF Inv, TypeOK, Database
<1>5. Sound(db')
  BY <1>1 DEF Inv
<1>6. CallInv'
  BY <1>1 DEF Inv, CallInv, Active
<1>7. TxnInv'
  BY <1>1, <1>3 DEF TxnInv
<1>8. MemInv'
  BY <1>1 DEF Inv, MemInv, Stored
<1>9. CacheInv'
  BY <1>1 DEF Inv, CacheInv
<1>10. QED BY <1>4, <1>5, <1>6, <1>7, <1>8, <1>9 DEF Inv

(* IsHeavier compares with the committed peak.                             *)
LEMMA HeavierWins ==
    ASSUME Inv, pc = "reconsider"
    PROVE  /\ Peak = db.peak
           /\ IsHeavier(cur) <=> Wins
<1>1. Peak = db.peak
  BY PeakIs DEF Inv, Stored
<1>2. cur \in Block /\ Path(Parent[cur]) \subseteq db.blocks
  BY DEF Inv, CallInv, Active
<1>3. db.peak = NoBlock => Height[cur] = 0
  <2>1. ASSUME db.peak = NoBlock, Height[cur] # 0 PROVE FALSE
    <3>1. Parent[cur] \in Block /\ Parent[cur] \in Path(Parent[cur])
      BY <1>2, <2>1, PathFacts
    <3>2. db.blocks = {}
      BY <2>1 DEF Inv, Sound
    <3>3. QED BY <1>2, <3>1, <3>2
  <2>2. QED BY <2>1
<1>4. QED BY <1>1, <1>3 DEF IsHeavier, Wins

(* A block that does not become the peak keeps the invariant.              *)
LEMMA KeepPeakStep == Inv /\ KeepPeak => Inv'
<1> SUFFICES ASSUME Inv, KeepPeak PROVE Inv'
  OBVIOUS
<1>1. /\ pc = "reconsider" /\ pc' = "orphan"
      /\ db' = db /\ txn' = txn /\ blockCache' = blockCache
      /\ blockRecords' = blockRecords /\ heightMap' = heightMap
      /\ peakHeight' = peakHeight /\ cur' = cur /\ fork' = fork /\ applied' = applied
      /\ restarts' = restarts
  BY DEF KeepPeak, call, memory, disk
<1>2. ~Wins
  BY <1>1, HeavierWins DEF KeepPeak
<1>4. TypeOK'
  BY <1>1 DEF Inv, TypeOK
<1>5. Sound(db')
  BY <1>1 DEF Inv
<1>6. CallInv'
  BY <1>1, <1>2 DEF Inv, CallInv, Active, Wins
<1>7. TxnInv'
  BY <1>1 DEF Inv, TxnInv
<1>8. MemInv'
  BY <1>1 DEF Inv, MemInv, Stored
<1>9. CacheInv'
  BY <1>1 DEF Inv, CacheInv
<1>10. QED BY <1>4, <1>5, <1>6, <1>7, <1>8, <1>9 DEF Inv

(* The start of the replay: the coin store stands for the fork block.      *)
LEMMA RollbackStep == Inv /\ RollbackCoins => Inv'
<1> SUFFICES ASSUME Inv, RollbackCoins PROVE Inv'
  OBVIOUS
<1>1. /\ pc = "reconsider" /\ pc' = "replay"
      /\ db' = db /\ blockCache' = blockCache
      /\ blockRecords' = blockRecords /\ heightMap' = heightMap
      /\ peakHeight' = peakHeight /\ cur' = cur /\ restarts' = restarts
      /\ applied' = IF fork' < 0 THEN NoBlock ELSE heightMap[fork']
  BY DEF RollbackCoins, memory
<1>2. Wins /\ Peak = db.peak
  BY <1>1, HeavierWins DEF RollbackCoins
<1>3. /\ cur \in Block /\ db.peak \in Block \cup {NoBlock}
      /\ db.coins \in Store /\ Represents(db.coins, db.peak)
      /\ txn \in Database /\ txn.blocks = db.blocks \cup {cur}
      /\ txn.main = db.main /\ txn.peak = db.peak /\ txn.coins = db.coins
  BY <1>1 DEF Inv, CallInv, Active, TypeOK, Database, Sound, TxnInv
<1>4. \A a \in Path(db.peak) : heightMap[Height[a]] = a
  <2>1. heightMap = MapOf(db.peak)
    BY <1>1 DEF Inv, MemInv, Stored
  <2>2. QED BY <2>1, <1>3, MapOfAt
<1>5. /\ fork' \in Nat \cup {-1}
      /\ ForkUsable(fork', db.peak, cur)
      /\ applied' \in Path(cur) \cup {NoBlock}
      /\ txn' \in Database /\ txn'.blocks = db.blocks \cup {cur}
      /\ txn'.main = db.main /\ txn'.peak = db.peak
      /\ Represents(txn'.coins, applied')
  <2>1. CASE Height[cur] = 0
    <3>1. fork' = -1 /\ txn' = txn /\ db.peak = NoBlock
      BY <2>1, <1>2 DEF RollbackCoins, Wins
    <3>2. QED BY <3>1, <1>1, <1>3 DEF ForkUsable
  <2>2. CASE Height[cur] # 0 /\ Parent[cur] = Peak
    <3>1. fork' = peakHeight /\ txn' = txn
      BY <2>2 DEF RollbackCoins
    <3>2. Peak \in Block /\ peakHeight = Height[Peak] /\ Height[Peak] \in Nat
      BY <1>1, <1>2, <2>2, <1>3, PathFacts DEF Inv, MemInv, Stored
    <3>3. Peak \in Path(cur) /\ Peak \in Path(db.peak)
      BY <3>2, <2>2, <1>2, <1>3, PathFacts
    <3>4. applied' = Peak
      <4>1. applied' = heightMap[Height[Peak]]
        BY <3>1, <3>2, <1>1
      <4>2. QED BY <4>1, <3>3, <1>4
    <3>5. QED BY <3>1, <3>2, <3>3, <3>4, <1>2, <1>3 DEF ForkUsable
  <2>3. CASE Height[cur] # 0 /\ Parent[cur] # Peak
    <3>1. /\ fork' = IF fork # NoHint THEN fork ELSE ForkHeight(cur, Peak)
          /\ txn' = [txn EXCEPT !.coins = RollbackToBlock(@, fork')]
      BY <2>3 DEF RollbackCoins
    <3>2. db.peak \in Block /\ Path(db.peak) = Anc[db.peak] /\ Path(cur) = Anc[cur]
      BY <1>2, <1>3, <2>3, NoBlockAssumption DEF Wins, Path
    <3>3. ForkUsable(fork', db.peak, cur)
      <4>1. CASE fork # NoHint
        BY <4>1, <3>1, <1>1, <1>3, ForkUsableUp DEF Inv, CallInv
      <4>2. CASE fork = NoHint
        BY <4>2, <3>1, <3>2, <1>2, <1>3, ForkHeightShared DEF ForkUsable
      <4>3. QED BY <4>1, <4>2
    <3>4. fork' \in Nat \cup {-1}
      BY <3>3, <3>2, PathFacts, <1>3 DEF ForkUsable
    <3>5. /\ RollbackToBlock(db.coins, fork') \in Store
      BY <3>4, <1>3, StoreTypes
    <3>6. /\ txn' \in Database /\ txn'.blocks = db.blocks \cup {cur}
          /\ txn'.main = db.main /\ txn'.peak = db.peak
          /\ txn'.coins = RollbackToBlock(db.coins, fork')
      BY <3>1, <3>5, <1>3 DEF Database
    <3>7. CASE fork' = -1
      <4>1. applied' = NoBlock
        BY <3>7, <1>1
      <4>2. QED BY <4>1, <3>3, <3>4, <3>6, <3>7, <3>2, <1>3, RollbackAll
    <3>8. CASE fork' # -1
      <4>1. PICK a \in Path(db.peak) \cap Path(cur) : Height[a] = fork'
        BY <3>8, <3>3 DEF ForkUsable
      <4>2. applied' = a
        <5>1. applied' = heightMap[Height[a]]
          BY <4>1, <3>4, <3>8, <1>1
        <5>2. QED BY <5>1, <4>1, <1>4
      <4>3. QED BY <4>1, <4>2, <3>2, <3>3, <3>4, <3>6, <1>3, RollbackRepresents
    <3>9. QED BY <3>7, <3>8
  <2>4. QED BY <2>1, <2>2, <2>3
<1>6. applied' \in Block \cup {NoBlock}
  BY <1>5, <1>3, PathFacts
<1>7. TypeOK'
  BY <1>1, <1>5, <1>6 DEF Inv, TypeOK, NoHeight
<1>8. Sound(db')
  BY <1>1 DEF Inv
<1>9. CallInv'
  BY <1>1, <1>2, <1>5 DEF Inv, CallInv, Active, Wins
<1>10. TxnInv'
  BY <1>1, <1>5 DEF TxnInv
<1>11. MemInv'
  BY <1>1 DEF Inv, MemInv, Stored
<1>12. CacheInv'
  BY <1>1 DEF Inv, CacheInv
<1>13. QED BY <1>7, <1>8, <1>9, <1>10, <1>11, <1>12 DEF Inv

(* A block whose body is valid and that is no transaction block has no     *)
(* coins.                                                                  *)
LEMMA ValidNonTx ==
    ASSUME NEW b \in Block, ValidOnPath(b), ~IsTx[b]
    PROVE  Spends[b] = {} /\ Adds(b) = {}
BY DEF ValidOnPath, BodyAloneOK, Adds

(* One turn of the replay loop moves the store up by one block.            *)
LEMMA ReplayStep ==
    ASSUME Inv, NEW a \in Block, ReplayBlock(a)
    PROVE  Inv'
<1>1. /\ pc = "replay" /\ pc' = "replay"
      /\ db' = db /\ blockCache' = blockCache
      /\ blockRecords' = blockRecords /\ heightMap' = heightMap
      /\ peakHeight' = peakHeight /\ cur' = cur /\ fork' = fork /\ restarts' = restarts
      /\ applied' = a /\ Parent[a] = applied /\ a \in Anc[cur]
  BY DEF ReplayBlock, memory, RecordsToAdd
<1>2. /\ cur \in Block /\ ValidOnPath(cur) /\ txn \in Database /\ txn.coins \in Store
      /\ Path(Parent[cur]) \subseteq db.blocks
      /\ txn.blocks = db.blocks \cup {cur} /\ txn.main = db.main /\ txn.peak = db.peak
      /\ Represents(txn.coins, applied)
  BY <1>1 DEF Inv, CallInv, Active, TypeOK, Database, TxnInv
<1>3. a \in Path(cur) /\ ValidOnPath(a)
  <2>1. a \in Path(cur) /\ Path(cur) = {cur} \cup Path(Parent[cur])
    BY <1>1, <1>2, PathFacts, NoBlockAssumption DEF Path
  <2>2. QED BY <2>1, <1>2 DEF Inv, Sound
<1>4. /\ txn' \in Database /\ txn'.blocks = txn.blocks
      /\ txn'.main = txn.main /\ txn'.peak = txn.peak
      /\ Represents(txn'.coins, a)
  <2>1. CASE IsTx[a]
    <3>1. NewBlockSucceeds(txn.coins, a) /\ txn' = [txn EXCEPT !.coins = NewBlock(@, a)]
      BY <2>1 DEF ReplayBlock
    <3>2. NewBlock(txn.coins, a) \in Store /\ Represents(NewBlock(txn.coins, a), a)
      BY <3>1, <1>1, <1>2, StoreTypes, NewBlockRepresents
    <3>3. QED BY <3>1, <3>2, <1>2 DEF Database
  <2>2. CASE ~IsTx[a]
    <3>1. txn' = txn
      BY <2>2 DEF ReplayBlock
    <3>2. Represents(txn.coins, a)
      BY <2>2, <1>1, <1>2, <1>3, ValidNonTx, NoCoinsRepresents
    <3>3. QED BY <3>1, <3>2, <1>2
  <2>3. QED BY <2>1, <2>2
<1>5. TypeOK'
  BY <1>1, <1>4 DEF Inv, TypeOK
<1>6. Sound(db')
  BY <1>1 DEF Inv
<1>7. CallInv'
  BY <1>1, <1>3 DEF Inv, CallInv, Active, Wins
<1>8. TxnInv'
  BY <1>1, <1>2, <1>4 DEF TxnInv
<1>9. MemInv'
  BY <1>1 DEF Inv, MemInv, Stored
<1>10. CacheInv'
  BY <1>1 DEF Inv, CacheInv
<1>11. QED BY <1>5, <1>6, <1>7, <1>8, <1>9, <1>10 DEF Inv

(* The in_main_chain flags after the rollback and set_in_chain.            *)
LEMMA SetPeakStep == Inv /\ SetPeak => Inv'
<1> SUFFICES ASSUME Inv, SetPeak PROVE Inv'
  OBVIOUS
<1>1. /\ pc = "replay" /\ pc' = "newpeak" /\ applied = cur
      /\ db' = db /\ blockCache' = blockCache
      /\ blockRecords' = blockRecords /\ heightMap' = heightMap
      /\ peakHeight' = peakHeight /\ cur' = cur /\ fork' = fork
      /\ applied' = applied /\ restarts' = restarts
      /\ txn' = [txn EXCEPT !.main = {a \in @ : Height[a] <= fork} \cup RecordsToAdd,
                            !.peak = cur]
  BY DEF SetPeak, memory, call
<1>2. /\ cur \in Block /\ txn \in Database /\ db.peak \in Block \cup {NoBlock}
      /\ txn.blocks = db.blocks \cup {cur} /\ txn.main = Path(db.peak)
      /\ Represents(txn.coins, cur) /\ Wins /\ ForkUsable(fork, db.peak, cur)
  BY <1>1 DEF Inv, CallInv, Active, TypeOK, Database, TxnInv, Sound
<1>3. {a \in Path(db.peak) : Height[a] <= fork} \cup RecordsToAdd = Path(cur)
  <2>1. Path(cur) = Anc[cur] /\ RecordsToAdd = {a \in Path(cur) : Height[a] > fork}
    BY <1>2, NoBlockAssumption DEF RecordsToAdd, Path
  <2>2. /\ \A a \in Path(db.peak) : Height[a] \in Nat
        /\ \A a \in Path(cur) : Height[a] \in Nat
    BY <1>2, PathFacts
  <2>3. CASE fork = -1
    BY <2>1, <2>2, <2>3
  <2>4. CASE fork # -1
    <3>1. PICK a \in Path(db.peak) \cap Path(cur) : Height[a] = fork
      BY <2>4, <1>2 DEF ForkUsable
    <3>2. /\ \A x \in Path(db.peak) : Height[x] <= fork => x \in Path(cur)
          /\ \A x \in Path(cur) : Height[x] <= fork => x \in Path(db.peak)
      BY <3>1, <1>2, SharedBelow
    <3>3. fork \in Nat
      BY <3>1, <2>2
    <3>4. QED BY <3>2, <3>3, <2>1, <2>2
  <2>5. QED BY <2>3, <2>4
<1>4. Path(cur) \subseteq Block
  BY <1>2, PathFacts
<1>5. /\ txn' \in Database /\ txn'.blocks = txn.blocks /\ txn'.coins = txn.coins
      /\ txn'.main = Path(cur) /\ txn'.peak = cur
  BY <1>1, <1>2, <1>3, <1>4 DEF Database
<1>6. TypeOK'
  BY <1>1, <1>5 DEF Inv, TypeOK
<1>7. Sound(db')
  BY <1>1 DEF Inv
<1>8. CallInv'
  BY <1>1, <1>2 DEF Inv, CallInv, Active, Wins
<1>9. TxnInv'
  BY <1>1, <1>2, <1>5 DEF TxnInv
<1>10. MemInv'
  BY <1>1 DEF Inv, MemInv, Stored
<1>11. CacheInv'
  BY <1>1 DEF Inv, CacheInv
<1>12. QED BY <1>6, <1>7, <1>8, <1>9, <1>10, <1>11 DEF Inv

(* With nothing stored only a block of height 0 is connected.              *)
LEMMA FirstIsGenesis ==
    ASSUME Inv, pc \in Active, db.peak = NoBlock
    PROVE  Height[cur] = 0
<1>1. cur \in Block /\ Path(Parent[cur]) \subseteq db.blocks
  BY DEF Inv, CallInv
<1>2. db.blocks = {}
  BY DEF Inv, Sound
<1>3. Height[cur] # 0 => Parent[cur] \in Path(Parent[cur])
  BY <1>1, PathFacts
<1>4. QED BY <1>1, <1>2, <1>3

(* A block that does not win is not heavier than the peak.                 *)
LEMMA LoserIsLighter ==
    ASSUME Inv, pc = "orphan"
    PROVE  db.peak # NoBlock /\ Weight[cur] <= Weight[db.peak]
<1>1. cur \in Block /\ ~Wins /\ db.peak \in Block \cup {NoBlock}
  BY DEF Inv, CallInv, Active, TypeOK, Database
<1>2. db.peak # NoBlock
  BY <1>1, FirstIsGenesis DEF Wins, Active
<1>3. Weight[cur] \in Nat /\ Weight[db.peak] \in Nat
  BY <1>1, <1>2, BlockAssumption
<1>4. CASE Height[cur] = 0
  <2>1. 0 \in 0..Height[db.peak]
    BY <1>1, <1>2, BlockAssumption
  <2>2. PICK x \in Anc[db.peak] : Height[x] = 0
    BY <1>1, <1>2, <2>1, AncDense
  <2>3. x \in Block /\ x \in db.blocks
    BY <2>2, <1>1, <1>2, AncBelow DEF Inv, Sound, Path
  <2>4. Weight[x] <= Weight[db.peak]
    BY <2>3 DEF Inv, Sound
  <2>5. Weight[x] = Weight[cur]
    BY <1>1, <1>4, <2>2, <2>3, GenesisAssumption
  <2>6. QED BY <1>2, <2>4, <2>5
<1>5. CASE Height[cur] # 0
  BY <1>1, <1>2, <1>3, <1>5 DEF Wins
<1>6. QED BY <1>4, <1>5

(* The rolled back and extended height map is the new chain's.             *)
LEMMA NewHeightMapIs ==
    ASSUME Inv, pc = "newpeak"
    PROVE  NewHeightMap = MapOf(cur)
<1> DEFINE f == IF fork < 0 THEN 0 ELSE fork
<1>1. /\ cur \in Block /\ db.peak \in Block \cup {NoBlock}
      /\ ForkUsable(fork, db.peak, cur) /\ fork \in Nat \cup {-1, NoHint}
      /\ heightMap = MapOf(db.peak)
  BY DEF Inv, CallInv, Active, TypeOK, Database, MemInv, Stored, NoHeight
<1>2. /\ Path(cur) = Anc[cur]
      /\ RecordsToAdd = {a \in Path(cur) : Height[a] > fork}
      /\ \A a \in Path(db.peak) : Height[a] \in Nat
      /\ \A a \in Path(cur) : Height[a] \in Nat
  BY <1>1, PathFacts, NoBlockAssumption DEF RecordsToAdd, Path
<1>3. /\ DOMAIN heightMap = {Height[a] : a \in Path(db.peak)}
      /\ \A a \in Path(db.peak) : heightMap[Height[a]] = a
      /\ DOMAIN MapOf(cur) = {Height[a] : a \in Path(cur)}
      /\ \A a \in Path(cur) : MapOf(cur)[Height[a]] = a
  BY <1>1, MapOfAt
<1>4. \A a, x \in Path(cur) : Height[a] = Height[x] => a = x
  BY <1>1, <1>2, AncLinear
<1>5. \A x \in Path(db.peak) : Height[x] <= fork => x \in Path(cur)
  <2>1. CASE fork = -1
    BY <2>1, <1>2
  <2>2. CASE fork # -1
    <3>1. PICK a \in Path(db.peak) \cap Path(cur) : Height[a] = fork
      BY <2>2, <1>1 DEF ForkUsable
    <3>2. QED BY <3>1, <1>1, SharedBelow
  <2>3. QED BY <2>1, <2>2
<1>6. \A x \in Path(cur) : Height[x] <= fork => x \in Path(db.peak)
  <2>1. CASE fork = -1
    BY <2>1, <1>2
  <2>2. CASE fork # -1
    <3>1. PICK a \in Path(db.peak) \cap Path(cur) : Height[a] = fork
      BY <2>2, <1>1 DEF ForkUsable
    <3>2. QED BY <3>1, <1>1, SharedBelow
  <2>3. QED BY <2>1, <2>2
<1>7. fork = -1 \/ fork \in Nat
  BY <1>1, <1>2 DEF ForkUsable
<1>8. DOMAIN NewHeightMap = {Height[a] : a \in Path(cur)}
  <2>1. DOMAIN NewHeightMap = {k \in DOMAIN heightMap : k <= f} \cup {Height[a] : a \in RecordsToAdd}
    BY DEF NewHeightMap
  <2>2. CASE fork = -1
    <3>1. \E a \in Path(cur) : Height[a] = 0
      <4>1. 0 \in 0..Height[cur]
        BY <1>1, BlockAssumption
      <4>2. QED BY <4>1, <1>1, <1>2, AncDense
    <3>2. QED BY <2>1, <2>2, <3>1, <1>2, <1>3
  <2>3. CASE fork \in Nat
    BY <2>1, <2>3, <1>2, <1>3, <1>5, <1>6
  <2>4. QED BY <2>2, <2>3, <1>7
<1>9. ASSUME NEW x \in Path(cur)
      PROVE  NewHeightMap[Height[x]] = x
  <2>1. Height[x] \in DOMAIN NewHeightMap
    BY <1>8
  <2>2. NewHeightMap[Height[x]] =
            IF \E a \in RecordsToAdd : Height[a] = Height[x]
            THEN CHOOSE a \in RecordsToAdd : Height[a] = Height[x]
            ELSE heightMap[Height[x]]
    BY <2>1 DEF NewHeightMap
  <2>3. CASE x \in RecordsToAdd
    <3>1. \A a \in RecordsToAdd : Height[a] = Height[x] => a = x
      BY <1>2, <1>4
    <3>2. QED BY <2>2, <2>3, <3>1
  <2>4. CASE x \notin RecordsToAdd
    <3>1. Height[x] <= fork
      BY <2>4, <1>2, <1>7
    <3>2. ~\E a \in RecordsToAdd : Height[a] = Height[x]
      BY <3>1, <1>2, <1>7
    <3>3. x \in Path(db.peak)
      BY <3>1, <1>6
    <3>4. QED BY <2>2, <3>2, <3>3, <1>3
  <2>5. QED BY <2>3, <2>4
<1>10. QED
  <2>1. NewHeightMap = [h \in DOMAIN NewHeightMap |-> NewHeightMap[h]]
    BY DEF NewHeightMap
  <2>2. MapOf(cur) = [h \in DOMAIN MapOf(cur) |-> MapOf(cur)[h]]
    BY DEF MapOf
  <2>3. DOMAIN NewHeightMap = DOMAIN MapOf(cur)
    BY <1>3, <1>8
  <2>4. \A h \in DOMAIN MapOf(cur) : NewHeightMap[h] = MapOf(cur)[h]
    BY <1>3, <1>9
  <2>5. QED BY <2>1, <2>2, <2>3, <2>4

(* The memory update keeps the invariant.                                  *)
LEMMA UpdateMemoryStep == Inv /\ UpdateMemory => Inv'
<1> SUFFICES ASSUME Inv, UpdateMemory PROVE Inv'
  OBVIOUS
<1>1. /\ pc \in {"orphan", "newpeak"} /\ pc' = "commit"
      /\ db' = db /\ txn' = txn /\ blockCache' = blockCache
      /\ blockRecords' = blockRecords \cup {cur}
      /\ cur' = cur /\ fork' = fork /\ applied' = applied /\ restarts' = restarts
  BY DEF UpdateMemory, call, disk
<1>2. /\ cur \in Block /\ ValidOnPath(cur) /\ Path(Parent[cur]) \subseteq db.blocks
      /\ db \in Database /\ txn \in Database /\ txn.blocks = db.blocks \cup {cur}
      /\ db.peak \in Block \cup {NoBlock} /\ db.blocks \subseteq Block
      /\ blockRecords \subseteq db.blocks
  BY <1>1 DEF Inv, CallInv, Active, TypeOK, Database, TxnInv, MemInv, Stored
<1>3. \A b \in txn.blocks : Path(b) \subseteq txn.blocks /\ ValidOnPath(b)
  <2>1. Path(cur) \subseteq txn.blocks
    BY <1>2, PathFacts
  <2>2. QED BY <2>1, <1>2 DEF Inv, Sound
<1>4. CASE pc = "orphan"
  <2>1. /\ heightMap' = heightMap /\ peakHeight' = peakHeight
        /\ txn.main = db.main /\ txn.peak = db.peak /\ txn.coins = db.coins
    BY <1>4 DEF UpdateMemory, Inv, TxnInv
  <2>2. db.peak # NoBlock /\ Weight[cur] <= Weight[db.peak]
    BY <1>4, LoserIsLighter
  <2>3. Sound(txn)
    BY <1>2, <1>3, <2>1, <2>2 DEF Inv, Sound
  <2>4. TypeOK'
    BY <1>1, <1>2, <2>1 DEF Inv, TypeOK
  <2>5. CallInv'
    BY <1>1, <1>2 DEF CallInv, Active
  <2>6. TxnInv'
    BY <1>1, <1>2, <2>1, <2>3 DEF TxnInv
  <2>7. MemInv'
    BY <1>1, <1>2, <1>4, <2>1 DEF Inv, MemInv, Stored
  <2>8. CacheInv'
    BY <1>1 DEF Inv, CacheInv
  <2>9. Sound(db')
    BY <1>1 DEF Inv
  <2>10. QED BY <2>4, <2>5, <2>6, <2>7, <2>8, <2>9 DEF Inv
<1>5. CASE pc = "newpeak"
  <2>1. /\ heightMap' = MapOf(cur) /\ peakHeight' = Height[cur]
        /\ txn.main = Path(cur) /\ txn.peak = cur /\ Represents(txn.coins, cur)
        /\ Wins
    BY <1>5, NewHeightMapIs DEF UpdateMemory, Inv, TxnInv, CallInv
  <2>2. \A b \in txn.blocks : Weight[b] <= Weight[cur]
    <3>1. \A b \in Block : Weight[b] \in Nat
      BY BlockAssumption
    <3>2. CASE db.peak = NoBlock
      <4>1. db.blocks = {}
        BY <3>2 DEF Inv, Sound
      <4>2. \A b \in txn.blocks : b = cur
        BY <4>1, <1>2, Zenon
      <4>3. Weight[cur] <= Weight[cur]
        BY <3>1, <1>2
      <4>4. QED BY <4>2, <4>3
    <3>3. CASE db.peak # NoBlock
      <4>1. Weight[cur] > Weight[db.peak] /\ \A b \in db.blocks : Weight[b] <= Weight[db.peak]
        BY <3>3, <2>1 DEF Wins, Inv, Sound
      <4>2. db.peak \in Block
        BY <3>3, <1>2
      <4>3. ASSUME NEW b \in txn.blocks PROVE Weight[b] <= Weight[cur]
        <5>1. CASE b = cur
          BY <5>1, <3>1, <1>2
        <5>2. CASE b \in db.blocks
          <6>1. b \in Block /\ Weight[b] <= Weight[db.peak]
            BY <5>2, <4>1, <1>2
          <6>2. QED BY <6>1, <3>1, <4>1, <4>2, <1>2
        <5>3. QED BY <5>1, <5>2, <1>2
      <4>4. QED BY <4>3
    <3>4. QED BY <3>2, <3>3
  <2>3. Sound(txn)
    BY <1>2, <1>3, <2>1, <2>2, NoBlockAssumption DEF Sound
  <2>4. TypeOK'
    BY <1>1, <1>2, <2>1, BlockAssumption DEF Inv, TypeOK
  <2>5. CallInv'
    BY <1>1, <1>2 DEF CallInv, Active
  <2>6. TxnInv'
    BY <1>1, <1>2, <2>1, <2>3 DEF TxnInv, Wins
  <2>7. MemInv'
    BY <1>1, <1>2, <2>1, NoBlockAssumption DEF MemInv, Stored
  <2>8. CacheInv'
    BY <1>1 DEF Inv, CacheInv
  <2>9. Sound(db')
    BY <1>1 DEF Inv
  <2>10. QED BY <2>4, <2>5, <2>6, <2>7, <2>8, <2>9 DEF Inv
<1>6. QED BY <1>1, <1>4, <1>5

(* The commit keeps the invariant.                                         *)
LEMMA CommitStep == Inv /\ Commit => Inv'
<1> SUFFICES ASSUME Inv, Commit PROVE Inv'
  OBVIOUS
<1>1. /\ pc = "commit" /\ pc' = "idle" /\ db' = txn /\ txn' = txn
      /\ blockCache' = blockCache \ txn.blocks
      /\ cur' = NoBlock /\ fork' = NoHeight /\ applied' = NoBlock
      /\ blockRecords' = blockRecords /\ heightMap' = heightMap
      /\ peakHeight' = peakHeight /\ restarts' = restarts
  BY DEF Commit
<1>2. Sound(txn) /\ txn.blocks = db.blocks \cup {cur} /\ blockCache \subseteq {cur}
  BY <1>1 DEF Inv, TxnInv, CacheInv
<1>3. TypeOK'
  BY <1>1 DEF Inv, TypeOK, NoHeight
<1>4. Sound(db')
  BY <1>1, <1>2
<1>5. CallInv'
  BY <1>1 DEF CallInv, Active
<1>6. TxnInv'
  BY <1>1 DEF TxnInv
<1>7. MemInv'
  BY <1>1 DEF Inv, MemInv, Stored
<1>8. CacheInv'
  BY <1>1, <1>2 DEF CacheInv
<1>9. QED BY <1>3, <1>4, <1>5, <1>6, <1>7, <1>8 DEF Inv

(* A failed or cancelled call leaves no trace.                             *)
LEMMA AbortStep == Inv /\ Abort => Inv'
<1> SUFFICES ASSUME Inv, Abort PROVE Inv'
  OBVIOUS
<1>1. /\ pc \in {"write", "reconsider", "replay", "orphan", "newpeak"} /\ pc' = "idle"
      /\ db' = db /\ txn' = db /\ blockCache' = blockCache \ {cur}
      /\ cur' = NoBlock /\ fork' = NoHeight /\ applied' = NoBlock
      /\ blockRecords' = blockRecords /\ heightMap' = heightMap
      /\ peakHeight' = peakHeight /\ restarts' = restarts
  BY DEF Abort
<1>2. TypeOK'
  BY <1>1 DEF Inv, TypeOK, NoHeight
<1>3. Sound(db')
  BY <1>1 DEF Inv
<1>4. CallInv'
  BY <1>1 DEF CallInv, Active
<1>5. TxnInv'
  BY <1>1 DEF TxnInv
<1>6. MemInv'
  BY <1>1 DEF Inv, MemInv, Stored
<1>7. CacheInv'
  BY <1>1 DEF Inv, CacheInv
<1>8. QED BY <1>2, <1>3, <1>4, <1>5, <1>6, <1>7 DEF Inv

(* clean_block_records keeps the peak's record.                            *)
LEMMA CleanStep == Inv /\ CleanBlockRecords => Inv'
<1> SUFFICES ASSUME Inv, CleanBlockRecords PROVE Inv'
  OBVIOUS
<1>1. /\ pc = "idle" /\ pc' = pc /\ db' = db /\ txn' = txn /\ blockCache' = blockCache
      /\ cur' = cur /\ fork' = fork /\ applied' = applied
      /\ blockRecords' = blockRecords \ Cleaned(peakHeight - CacheSize)
      /\ heightMap' = heightMap /\ peakHeight' = peakHeight /\ restarts' = restarts
  BY DEF CleanBlockRecords, disk, call
<1>2. ASSUME db.peak # NoBlock PROVE db.peak \notin Cleaned(peakHeight - CacheSize)
  <2>1. peakHeight = Height[db.peak] /\ Height[db.peak] \in Nat
    BY <1>1, <1>2, BlockAssumption DEF Inv, MemInv, Stored, TypeOK, Database
  <2>2. QED BY <2>1, CacheAssumption DEF Cleaned
<1>3. TypeOK'
  BY <1>1 DEF Inv, TypeOK
<1>4. Sound(db')
  BY <1>1 DEF Inv
<1>5. CallInv'
  BY <1>1 DEF CallInv, Active
<1>6. TxnInv'
  BY <1>1 DEF Inv, TxnInv
<1>7. MemInv'
  BY <1>1, <1>2 DEF Inv, MemInv, Stored
<1>8. CacheInv'
  BY <1>1 DEF Inv, CacheInv
<1>9. QED BY <1>3, <1>4, <1>5, <1>6, <1>7, <1>8 DEF Inv

(* warmup only loads records of stored blocks.                             *)
LEMMA WarmupStep == ASSUME Inv, NEW h, Warmup(h) PROVE Inv'
<1>1. /\ pc = "idle" /\ pc' = pc /\ db' = db /\ txn' = txn /\ blockCache' = blockCache
      /\ cur' = cur /\ fork' = fork /\ applied' = applied
      /\ blockRecords \subseteq blockRecords'
      /\ blockRecords' \subseteq blockRecords \cup db.blocks
      /\ heightMap' = heightMap /\ peakHeight' = peakHeight /\ restarts' = restarts
  BY DEF Warmup, disk, call
<1>2. db.blocks \subseteq Block
  BY DEF Inv, TypeOK, Database
<1>3. TypeOK'
  BY <1>1, <1>2 DEF Inv, TypeOK
<1>4. Sound(db')
  BY <1>1 DEF Inv
<1>5. CallInv'
  BY <1>1 DEF CallInv, Active
<1>6. TxnInv'
  BY <1>1 DEF Inv, TxnInv
<1>7. MemInv'
  BY <1>1 DEF Inv, MemInv, Stored
<1>8. CacheInv'
  BY <1>1 DEF Inv, CacheInv
<1>9. QED BY <1>3, <1>4, <1>5, <1>6, <1>7, <1>8 DEF Inv

(* A crash keeps what is committed.                                        *)
LEMMA CrashStep == Inv /\ Crash => Inv'
<1> SUFFICES ASSUME Inv, Crash PROVE Inv'
  OBVIOUS
<1>1. /\ pc' = "down" /\ db' = db /\ txn' = db /\ blockCache' = {} /\ blockRecords' = {}
      /\ heightMap' = MapOf(NoBlock) /\ peakHeight' = NoHeight
      /\ cur' = NoBlock /\ fork' = NoHeight /\ applied' = NoBlock
      /\ restarts' = restarts + 1 /\ restarts < MaxRestarts
  BY DEF Crash
<1>2. TypeOK'
  BY <1>1, CacheAssumption DEF Inv, TypeOK, NoHeight
<1>3. Sound(db')
  BY <1>1 DEF Inv
<1>4. CallInv'
  BY <1>1 DEF CallInv, Active
<1>5. TxnInv'
  BY <1>1 DEF TxnInv
<1>6. MemInv'
  BY <1>1 DEF MemInv
<1>7. CacheInv'
  BY <1>1 DEF CacheInv
<1>8. QED BY <1>2, <1>3, <1>4, <1>5, <1>6, <1>7 DEF Inv

(* Loading the chain from the store gives memory that describes it.        *)
LEMMA RestartStep == Inv /\ Restart => Inv'
<1> SUFFICES ASSUME Inv, Restart PROVE Inv'
  OBVIOUS
<1>1. /\ pc = "down" /\ pc' = "idle" /\ db' = db /\ txn' = txn /\ blockCache' = blockCache
      /\ cur' = cur /\ fork' = fork /\ applied' = applied /\ restarts' = restarts
  BY DEF Restart, disk, call
<1>2. db.blocks \subseteq Block /\ db.peak \in Block \cup {NoBlock}
  BY DEF Inv, TypeOK, Database
<1>3. /\ heightMap' = MapOf(db.peak)
      /\ peakHeight' = IF db.peak = NoBlock THEN NoHeight ELSE Height[db.peak]
      /\ blockRecords' \subseteq db.blocks
      /\ db.peak # NoBlock => db.peak \in blockRecords'
  <2>1. CASE db.peak = NoBlock
    BY <1>1, <2>1 DEF Restart, Inv, MemInv
  <2>2. CASE db.peak # NoBlock
    <3>1. db.peak \in db.blocks /\ Height[db.peak] \in Nat
      BY <2>2, <1>2, BlockAssumption DEF Inv, Sound
    <3>2. QED BY <2>2, <3>1, CacheAssumption DEF Restart
  <2>3. QED BY <2>1, <2>2
<1>4. TypeOK'
  BY <1>1, <1>2, <1>3, BlockAssumption DEF Inv, TypeOK
<1>5. Sound(db')
  BY <1>1 DEF Inv
<1>6. CallInv'
  BY <1>1 DEF CallInv, Active
<1>7. TxnInv'
  BY <1>1 DEF Inv, TxnInv
<1>8. MemInv'
  BY <1>1, <1>3 DEF MemInv, Stored
<1>9. CacheInv'
  BY <1>1 DEF Inv, CacheInv
<1>10. QED BY <1>4, <1>5, <1>6, <1>7, <1>8, <1>9 DEF Inv

-----------------------------------------------------------------------------
(* Every step of Blockchain keeps the invariant.                           *)
LEMMA InvStep == Inv /\ [Next]_vars => Inv'
<1> SUFFICES ASSUME Inv, [Next]_vars PROVE Inv'
  OBVIOUS
<1>1. CASE \E b \in Block : \E hint \in Hints(b) : ReceiveBlock(b, hint)
  BY <1>1, ReceiveStep
<1>2. CASE AddFullBlock
  BY <1>2, AddFullBlockStep
<1>3. CASE KeepPeak
  BY <1>3, KeepPeakStep
<1>4. CASE RollbackCoins
  BY <1>4, RollbackStep
<1>5. CASE \E a \in Block : ReplayBlock(a)
  BY <1>5, ReplayStep
<1>6. CASE SetPeak
  BY <1>6, SetPeakStep
<1>7. CASE UpdateMemory
  BY <1>7, UpdateMemoryStep
<1>8. CASE Commit
  BY <1>8, CommitStep
<1>9. CASE Abort
  BY <1>9, AbortStep
<1>10. CASE CleanBlockRecords
  BY <1>10, CleanStep
<1>11. CASE \E h \in DOMAIN heightMap : Warmup(h)
  BY <1>11, WarmupStep
<1>12. CASE Crash
  BY <1>12, CrashStep
<1>13. CASE Restart
  BY <1>13, RestartStep
<1>14. CASE UNCHANGED vars
  <2>1. /\ db' = db /\ txn' = txn /\ blockCache' = blockCache /\ blockRecords' = blockRecords
        /\ heightMap' = heightMap /\ peakHeight' = peakHeight /\ pc' = pc /\ cur' = cur
        /\ fork' = fork /\ applied' = applied /\ restarts' = restarts
    BY <1>14 DEF vars
  <2>2. TypeOK'
    BY <2>1 DEF Inv, TypeOK
  <2>3. Sound(db')
    BY <2>1 DEF Inv
  <2>4. CallInv' /\ TxnInv'
    BY <2>1 DEF Inv, CallInv, TxnInv, Active, Wins
  <2>5. MemInv' /\ CacheInv'
    BY <2>1 DEF Inv, MemInv, CacheInv, Stored
  <2>6. QED BY <2>2, <2>3, <2>4, <2>5 DEF Inv
<1>15. QED
  BY <1>1, <1>2, <1>3, <1>4, <1>5, <1>6, <1>7, <1>8, <1>9, <1>10, <1>11, <1>12, <1>13,
     <1>14 DEF Next

(* The invariant holds in every reachable state.                           *)
LEMMA SpecInv == Spec => []Inv
BY InvInit, InvStep, PTL DEF Spec

(* The committed coin records are those of the peak's chain, in_main_chain *)
(* marks exactly that chain, and the peak is the heaviest stored block,    *)
(* after any sequence of blocks, reorgs, failures and restarts.            *)
THEOREM DatabaseCorrect == Spec => []DatabaseMatchesPeak
<1>1. Inv => TypeOK /\ CoinStoreMatchesPeak
  BY DEF Inv, Sound, CoinStoreMatchesPeak
<1>2. Inv => MainChainIsPath /\ PeakIsHeaviest
  BY DEF Inv, Sound, MainChainIsPath, PeakIsHeaviest
<1>3. Inv => DatabaseMatchesPeak
  BY <1>1, <1>2 DEF DatabaseMatchesPeak
<1>4. QED BY <1>3, SpecInv, PTL

(* Memory describes the committed database, or the one about to be         *)
(* committed, and every block it points to can be read.                    *)
THEOREM MemoryCorrect == Spec => []MemoryConsistent
<1>1. Inv => MemoryMatchesDatabase
  <2>1. SUFFICES ASSUME Inv, pc # "down"
        PROVE  /\ Peak = Stored.peak
               /\ heightMap = MapOf(Stored.peak)
               /\ blockRecords \subseteq Stored.blocks
               /\ Stored.peak # NoBlock => Stored.peak \in blockRecords
    BY DEF MemoryMatchesDatabase, Stored
  <2>2. Peak = Stored.peak
    BY <2>1, PeakIs DEF Inv
  <2>3. QED BY <2>1, <2>2 DEF Inv, MemInv
<1>2. Inv => PeakChainReadable
  <2>1. SUFFICES ASSUME Inv, NEW h \in DOMAIN heightMap
        PROVE  heightMap[h] \in db.blocks \cup blockCache
    BY DEF PeakChainReadable
  <2> DEFINE p == IF pc = "down" THEN NoBlock ELSE Stored.peak
  <2>2. p \in Block \cup {NoBlock} /\ heightMap = MapOf(p)
    <3>1. Stored.peak \in Block \cup {NoBlock}
      BY <2>1 DEF Inv, TypeOK, Database, Stored
    <3>2. QED BY <2>1, <3>1 DEF Inv, MemInv
  <2> HIDE DEF p
  <2>3. PICK a \in Path(p) : h = Height[a]
    <3>1. DOMAIN heightMap = {Height[a] : a \in Path(p)}
      BY <2>2, MapOfAt
    <3>2. QED BY <2>1, <3>1
  <2>4. heightMap[h] = a
    BY <2>2, <2>3, MapOfAt
  <2>5. p = Stored.peak /\ p # NoBlock
    BY <2>3, PathFacts DEF p
  <2>6. Sound(Stored)
    BY <2>1 DEF Inv, TxnInv, Stored
  <2>7. a \in Stored.blocks
    BY <2>3, <2>5, <2>6 DEF Sound
  <2>8. Stored.blocks \subseteq db.blocks \cup blockCache
    BY <2>1 DEF Inv, TxnInv, CacheInv, Stored
  <2>9. QED BY <2>4, <2>7, <2>8
<1>3. Inv => CachedIsStored
  BY DEF Inv, CacheInv, CachedIsStored
<1>4. Inv => MemoryConsistent
  BY <1>1, <1>2, <1>3 DEF MemoryConsistent
<1>5. QED BY <1>4, SpecInv, PTL

(* For every connected candidate, checking it against the peak's coin      *)
(* store and a fork point gives the answer of its own chain.               *)
THEOREM ValidationCorrect == Spec => []ValidationIsExact
BY InvValidationIsExact, SpecInv, PTL

(* What a step can do to the committed database: nothing, keep the peak    *)
(* and its coins, or move to a block that wins.                            *)
LEMMA DbStep ==
    ASSUME Inv, [Next]_vars
    PROVE  \/ db'.peak = db.peak /\ db'.coins = db.coins
           \/ Wins /\ cur \in Block /\ db'.peak = cur
<1>1. CASE Commit
  BY <1>1 DEF Commit, Inv, TxnInv, CallInv, Active
<1>2. CASE ~Commit
  <2>1. db' = db
    BY <1>2 DEF Next, ReceiveBlock, AddFullBlock, KeepPeak, RollbackCoins, ReplayBlock, SetPeak,
                UpdateMemory, Abort, CleanBlockRecords, Warmup, Crash, Restart, disk, vars
  <2>2. QED BY <2>1
<1>3. QED BY <1>1, <1>2

(* The peak in the database only moves to a strictly heavier block.        *)
THEOREM PeakOnlyGetsHeavier == Spec => PeakWeightGrows
<1>1. Inv /\ [Next]_vars =>
        [db.peak' # db.peak /\ db.peak # NoBlock => Weight[db.peak'] > Weight[db.peak]]_vars
  BY DbStep DEF Wins
<1>2. QED BY <1>1, SpecInv, PTL DEF Spec, PeakWeightGrows

(* The database implements the ledger: every commit either leaves the      *)
(* ledger alone or adopts a heavier, valid chain with exactly its coins.   *)
THEOREM RefinesLedger == Spec => ImplementsLedger
<1> DEFINE U == {c \in Coin : IsUnspent(db.coins, c)}
<1>1. Init => LedgerView!LedgerInit
  BY DEF Init, EmptyDatabase, EmptyStore, IsUnspent, HasRow, LedgerView!LedgerInit
<1>2. ASSUME Inv, Inv', [Next]_vars
      PROVE  [\E b \in Block : LedgerView!Adopt(b)]_LedgerView!ledgerVars
  <2>1. CASE db'.peak = db.peak /\ db'.coins = db.coins
    BY <2>1 DEF LedgerView!ledgerVars
  <2>2. CASE Wins /\ cur \in Block /\ db'.peak = cur
    <3>1. /\ db' \in Database /\ db'.coins \in Store /\ Represents(db'.coins, cur)
      BY <2>2, <1>2 DEF Inv, TypeOK, Database, Sound
    <3>2. U' = Unspent(cur)
      BY <2>2, <3>1, UnspentRows
    <3>3. \A a \in Path(cur) : ValidOnPath(a)
      BY <2>2, <1>2, NoBlockAssumption DEF Inv, Sound
    <3>4. IF db.peak = NoBlock THEN Height[cur] = 0 ELSE Weight[cur] > Weight[db.peak]
      BY <2>2 DEF Wins
    <3>5. LedgerView!Adopt(cur)
      BY <2>2, <3>2, <3>3, <3>4 DEF LedgerView!Adopt, ValidChain, Heavier
    <3>6. QED BY <3>5, <2>2
  <2>3. QED BY <2>1, <2>2, <1>2, DbStep
<1>3. QED BY <1>1, <1>2, SpecInv, PTL DEF Spec, ImplementsLedger, LedgerView!LedgerSpec
=============================================================================
