-------------------------- MODULE CoinStoreProofs --------------------------
(***************************************************************************)
(* What the operations on the coin_record table do to the chain a store    *)
(* stands for, and why checking a body against the peak's store and a fork *)
(* point is checking it against the block's own chain.                     *)
(***************************************************************************)
EXTENDS BodyValidation, BlockTreeProofs

(* The empty table stands for the chain without blocks.                    *)
LEMMA EmptyRepresents == Represents(EmptyStore, NoBlock) /\ EmptyStore \in Store
BY DEF Represents, EmptyStore, Store, Path, HasRow, NoRow

(* The operations on the table keep its type.                              *)
LEMMA StoreTypes ==
    ASSUME NEW s \in Store
    PROVE  /\ \A b \in Block : NewBlock(s, b) \in Store
           /\ \A h \in Int : RollbackToBlock(s, h) \in Store
BY BlockAssumption DEF Store, NewBlock, RollbackToBlock, NoRow

(* CoinStore.rollback_to_block at the height of a block on the chain gives *)
(* that block's store.                                                     *)
LEMMA RollbackRepresents ==
    ASSUME NEW s \in Store, NEW p \in Block, NEW a \in Anc[p], Represents(s, p)
    PROVE  Represents(RollbackToBlock(s, Height[a]), a)
<1> DEFINE h == Height[a]
           t == RollbackToBlock(s, h)
<1>1. a \in Block /\ h \in Nat /\ Anc[a] = {x \in Anc[p] : Height[x] <= h}
  BY AncBelow, PathBelow, BlockAssumption
<1>2. Path(p) = Anc[p] /\ Path(a) = Anc[a]
  BY <1>1, NoBlockAssumption DEF Path
<1>3. SUFFICES ASSUME NEW c \in Coin
      PROVE  /\ HasRow(t, c) => \E x \in Anc[a] : c \in Adds(x)
             /\ \A x \in Anc[a] : c \in Adds(x) => t.confirmed[c] = Height[x]
             /\ t.spent[c] # 0 => \E x \in Anc[a] : c \in Spends[x] /\ t.spent[c] = Height[x]
             /\ \A x \in Anc[a] : c \in Spends[x] => t.spent[c] = Height[x]
             /\ t.spent[c] # 0 => HasRow(t, c) /\ t.confirmed[c] <= t.spent[c]
  BY <1>2 DEF Represents
<1>4. /\ s.confirmed[c] \in Nat \cup {NoRow} /\ s.spent[c] \in Nat
      /\ t.confirmed[c] = IF s.confirmed[c] > h THEN NoRow ELSE s.confirmed[c]
      /\ t.spent[c] = IF s.confirmed[c] > h \/ s.spent[c] > h THEN 0 ELSE s.spent[c]
  BY <1>1 DEF RollbackToBlock, Store
<1>5. /\ s.confirmed[c] # NoRow => \E x \in Anc[p] : c \in Adds(x)
      /\ \A x \in Anc[p] : c \in Adds(x) => s.confirmed[c] = Height[x]
      /\ s.spent[c] # 0 => \E x \in Anc[p] : c \in Spends[x] /\ s.spent[c] = Height[x]
      /\ \A x \in Anc[p] : c \in Spends[x] => s.spent[c] = Height[x]
      /\ s.spent[c] # 0 => s.confirmed[c] # NoRow /\ s.confirmed[c] <= s.spent[c]
  BY <1>2 DEF Represents, HasRow
<1>6. \A x \in Anc[p] : x \in Block /\ Height[x] \in Nat /\ (Height[x] = 0 => Spends[x] = {})
  BY AncBelow, BlockAssumption, CoinAssumption
<1> HIDE DEF t, h
<1>7. HasRow(t, c) => \E x \in Anc[a] : c \in Adds(x)
  BY <1>1, <1>4, <1>5, <1>6 DEF HasRow, NoRow
<1>8. \A x \in Anc[a] : c \in Adds(x) => t.confirmed[c] = Height[x]
  BY <1>1, <1>4, <1>5, <1>6
<1>9. t.spent[c] # 0 => \E x \in Anc[a] : c \in Spends[x] /\ t.spent[c] = Height[x]
  BY <1>1, <1>4, <1>5, <1>6
<1>10. \A x \in Anc[a] : c \in Spends[x] => t.spent[c] = Height[x]
  BY <1>1, <1>4, <1>5, <1>6 DEF NoRow
<1>11. t.spent[c] # 0 => HasRow(t, c) /\ t.confirmed[c] <= t.spent[c]
  BY <1>1, <1>4, <1>5 DEF HasRow, NoRow
<1>12. QED BY <1>7, <1>8, <1>9, <1>10, <1>11

(* rollback_to_block(-1) empties the table.                                *)
LEMMA RollbackAll ==
    ASSUME NEW s \in Store, NEW p \in Block, Represents(s, p)
    PROVE  Represents(RollbackToBlock(s, -1), NoBlock)
BY DEF RollbackToBlock, Represents, Path, HasRow, NoRow, Store

(* CoinStore.new_block moves the store from the parent's chain to the      *)
(* block's, when it does not raise.                                        *)
LEMMA NewBlockRepresents ==
    ASSUME NEW s \in Store, NEW b \in Block,
           Represents(s, Parent[b]), NewBlockSucceeds(s, b)
    PROVE  Represents(NewBlock(s, b), b)
<1> DEFINE t == NewBlock(s, b)
           P == Path(Parent[b])
<1>1. /\ Path(b) = {b} \cup P
      /\ \A x \in P : x \in Block /\ Height[x] \in Nat /\ Height[x] < Height[b]
                      /\ (Height[x] = 0 => Spends[x] = {})
      /\ Height[b] \in Nat /\ (Height[b] = 0 => Spends[b] = {})
  <2>1. Path(b) = {b} \cup P /\ Height[b] \in Nat /\ (Height[b] = 0 => Spends[b] = {})
    BY NoBlockAssumption, BlockAssumption, TreeAssumption, CoinAssumption DEF Path
  <2>2. ASSUME NEW x \in P
        PROVE  x \in Block /\ Height[x] \in Nat /\ Height[x] < Height[b]
               /\ (Height[x] = 0 => Spends[x] = {})
    <3>1. Parent[b] \in Block /\ x \in Anc[Parent[b]] /\ Height[b] = Height[Parent[b]] + 1
      BY BlockAssumption, TreeAssumption DEF Path
    <3>2. QED BY <3>1, AncBelow, BlockAssumption, CoinAssumption
  <2>3. QED BY <2>1, <2>2
<1>2. SUFFICES ASSUME NEW c \in Coin
      PROVE  /\ HasRow(t, c) => \E x \in Path(b) : c \in Adds(x)
             /\ \A x \in Path(b) : c \in Adds(x) => t.confirmed[c] = Height[x]
             /\ t.spent[c] # 0 => \E x \in Path(b) : c \in Spends[x] /\ t.spent[c] = Height[x]
             /\ \A x \in Path(b) : c \in Spends[x] => t.spent[c] = Height[x]
             /\ t.spent[c] # 0 => HasRow(t, c) /\ t.confirmed[c] <= t.spent[c]
  BY DEF Represents
<1>3. /\ s.confirmed[c] \in Nat \cup {NoRow} /\ s.spent[c] \in Nat
      /\ t.confirmed[c] = IF c \in Adds(b) THEN Height[b] ELSE s.confirmed[c]
      /\ t.spent[c] = IF c \in Spends[b] THEN Height[b]
                      ELSE IF c \in Adds(b) THEN 0 ELSE s.spent[c]
  BY DEF NewBlock, Store
<1>4. /\ s.confirmed[c] # NoRow => \E x \in P : c \in Adds(x)
      /\ \A x \in P : c \in Adds(x) => s.confirmed[c] = Height[x]
      /\ s.spent[c] # 0 => \E x \in P : c \in Spends[x] /\ s.spent[c] = Height[x]
      /\ \A x \in P : c \in Spends[x] => s.spent[c] = Height[x]
      /\ s.spent[c] # 0 => s.confirmed[c] # NoRow /\ s.confirmed[c] <= s.spent[c]
  BY DEF Represents, HasRow
<1>5. /\ c \in Adds(b) => s.confirmed[c] = NoRow
      /\ c \in Spends[b] => c \in Adds(b) \/ (s.confirmed[c] # NoRow /\ s.spent[c] = 0)
  BY DEF NewBlockSucceeds, HasRow, IsUnspent
<1> HIDE DEF t, P
<1>6. HasRow(t, c) => \E x \in Path(b) : c \in Adds(x)
  BY <1>1, <1>3, <1>4 DEF HasRow
<1>7. \A x \in Path(b) : c \in Adds(x) => t.confirmed[c] = Height[x]
  BY <1>1, <1>3, <1>4, <1>5 DEF NoRow
<1>8. t.spent[c] # 0 => \E x \in Path(b) : c \in Spends[x] /\ t.spent[c] = Height[x]
  BY <1>1, <1>3, <1>4
<1>9. \A x \in Path(b) : c \in Spends[x] => t.spent[c] = Height[x]
  BY <1>1, <1>3, <1>4, <1>5
<1>10. t.spent[c] # 0 => HasRow(t, c) /\ t.confirmed[c] <= t.spent[c]
  BY <1>1, <1>3, <1>4, <1>5 DEF HasRow, NoRow
<1>11. QED BY <1>6, <1>7, <1>8, <1>9, <1>10

(* A block without coins leaves the store as it is.                        *)
LEMMA NoCoinsRepresents ==
    ASSUME NEW s \in Store, NEW b \in Block,
           Represents(s, Parent[b]), Spends[b] = {}, Adds(b) = {}
    PROVE  Represents(s, b)
<1>1. Path(b) = {b} \cup Path(Parent[b])
  BY NoBlockAssumption, BlockAssumption, TreeAssumption DEF Path
<1>2. QED BY <1>1 DEF Represents

(* The unspent rows of a store are the coins its chain leaves to spend.    *)
LEMMA UnspentRows ==
    ASSUME NEW s \in Store, NEW p \in Block \cup {NoBlock}, Represents(s, p)
    PROVE  {c \in Coin : IsUnspent(s, c)} = Unspent(p)
<1>1. \A x \in Path(p) : /\ x \in Block /\ Height[x] \in Nat
                         /\ (Height[x] = 0 => Spends[x] = {})
                         /\ Adds(x) \subseteq Coin
  BY AncBelow, BlockAssumption, CoinAssumption DEF Path, Adds
<1>2. \A c \in Coin : IsUnspent(s, c) <=>
          (\E x \in Path(p) : c \in Adds(x)) /\ (\A x \in Path(p) : c \notin Spends[x])
  BY <1>1 DEF Represents, IsUnspent, HasRow, NoRow, Store
<1>3. \A c : c \in Unspent(p) <=>
          (\E x \in Path(p) : c \in Adds(x)) /\ (\A x \in Path(p) : c \notin Spends[x])
  BY DEF Unspent
<1>4. \A c : c \in Unspent(p) => c \in Coin
  BY <1>1, <1>3
<1>5. QED BY <1>2, <1>3, <1>4

-----------------------------------------------------------------------------
(* A fork point is usable for a store of p and a block above q when it is  *)
(* -1 or the height of a block that both chains have.                      *)
ForkUsable(fork, p, q) ==
    \/ fork = -1
    \/ \E a \in Path(p) \cap Path(q) : Height[a] = fork

(* Check 15 of validate_block_body against the peak's store and a usable   *)
(* fork point accepts a spend exactly when the block's own chain does.     *)
LEMMA SpendAllowedExact ==
    ASSUME NEW s \in Store, NEW p \in Block \cup {NoBlock}, Represents(s, p),
           NEW b \in Block, NEW fork, ForkUsable(fork, p, Parent[b]), NEW c \in Coin
    PROVE  SpendAllowed(s, fork, b, c) <=>
             \/ c \in Adds(b)
             \/ /\ \E a \in Path(Parent[b]) : c \in Adds(a)
                /\ \A a \in Path(Parent[b]) : c \notin Spends[a]
<1> DEFINE P == Path(p)
           Q == Path(Parent[b])
<1>1. /\ \A x \in P : x \in Block /\ Height[x] \in Nat /\ (Height[x] = 0 => Spends[x] = {})
      /\ \A x \in Q : x \in Block /\ Height[x] \in Nat /\ (Height[x] = 0 => Spends[x] = {})
  BY AncBelow, BlockAssumption, CoinAssumption DEF Path
<1>2. /\ s.confirmed[c] \in Nat \cup {NoRow} /\ s.spent[c] \in Nat
      /\ HasRow(s, c) <=> s.confirmed[c] # NoRow
  BY DEF Store, HasRow
<1>3. /\ s.confirmed[c] # NoRow => \E x \in P : c \in Adds(x)
      /\ \A x \in P : c \in Adds(x) => s.confirmed[c] = Height[x]
      /\ s.spent[c] # 0 => \E x \in P : c \in Spends[x] /\ s.spent[c] = Height[x]
      /\ \A x \in P : c \in Spends[x] => s.spent[c] = Height[x]
      /\ s.spent[c] # 0 => s.confirmed[c] # NoRow /\ s.confirmed[c] <= s.spent[c]
  BY DEF Represents, HasRow
<1>4. CASE fork = -1
  <2>1. Since(b, fork) = Q
    BY <1>1, <1>4 DEF Since
  <2>2. ~(HasRow(s, c) /\ s.confirmed[c] <= fork)
    BY <1>2, <1>4 DEF NoRow
  <2>3. QED BY <2>1, <2>2 DEF SpendAllowed
<1>5. CASE fork # -1
  <2>1. PICK a \in P \cap Q : Height[a] = fork
    BY <1>5 DEF ForkUsable
  <2>2. /\ \A x \in P : Height[x] <= fork => x \in Q
        /\ \A x \in Q : Height[x] <= fork => x \in P
    <3>1. p \in Block /\ P = Anc[p] /\ Parent[b] \in Block /\ Q = Anc[Parent[b]]
      BY <2>1, BlockAssumption DEF Path
    <3>2. /\ Anc[a] = {x \in P : Height[x] <= fork}
          /\ Anc[a] = {x \in Q : Height[x] <= fork}
      BY <3>1, <2>1, PathBelow
    <3>3. QED BY <3>2
  <2>3. fork \in Nat
    BY <2>1, <1>1
  <2>4. Since(b, fork) = {x \in Q : Height[x] > fork}
    BY DEF Since
  <2> HIDE DEF P, Q
  <2>5. ASSUME c \notin Adds(b), \A x \in Since(b, fork) : c \notin Spends[x],
               HasRow(s, c), s.confirmed[c] <= fork
        PROVE  ~(s.spent[c] # 0 /\ s.spent[c] <= fork)
               <=> (\E x \in Q : c \in Adds(x)) /\ (\A x \in Q : c \notin Spends[x])
    <3>1. \E x \in Q : c \in Adds(x)
      BY <2>5, <2>2, <1>1, <1>2, <1>3
    <3>2. ASSUME NEW x \in Q, c \in Spends[x]
          PROVE  s.spent[c] # 0 /\ s.spent[c] <= fork
      BY <3>2, <2>5, <2>4, <2>3, <2>2, <1>1, <1>3
    <3>3. ASSUME s.spent[c] # 0, s.spent[c] <= fork
          PROVE  \E x \in Q : c \in Spends[x]
      BY <3>3, <2>2, <1>3
    <3>4. QED BY <3>1, <3>2, <3>3
  <2>6. ASSUME c \notin Adds(b), \A x \in Since(b, fork) : c \notin Spends[x],
               ~(HasRow(s, c) /\ s.confirmed[c] <= fork)
        PROVE  (\E x \in Since(b, fork) : c \in Adds(x))
               <=> (\E x \in Q : c \in Adds(x)) /\ (\A x \in Q : c \notin Spends[x])
    <3>1. ASSUME NEW x \in Q, c \in Adds(x)
          PROVE  x \in Since(b, fork)
      BY <3>1, <2>6, <2>4, <2>3, <2>2, <1>1, <1>2, <1>3 DEF NoRow
    <3>2. ASSUME NEW x \in Q, c \in Spends[x]
          PROVE  FALSE
      BY <3>2, <2>6, <2>4, <2>3, <2>2, <1>1, <1>2, <1>3 DEF NoRow
    <3>3. QED BY <3>1, <3>2, <2>4
  <2>7. CASE c \in Adds(b)
    BY <2>7 DEF SpendAllowed
  <2>8. CASE c \notin Adds(b) /\ \A x \in Since(b, fork) : c \notin Spends[x]
    <3>1. CASE HasRow(s, c) /\ s.confirmed[c] <= fork
      BY <2>8, <3>1, <2>5 DEF SpendAllowed, Q
    <3>2. CASE ~(HasRow(s, c) /\ s.confirmed[c] <= fork)
      BY <2>8, <3>2, <2>6 DEF SpendAllowed, Q
    <3>3. QED BY <3>1, <3>2
  <2>9. CASE c \notin Adds(b) /\ \E x \in Since(b, fork) : c \in Spends[x]
    BY <2>9, <2>4 DEF SpendAllowed, Q
  <2>10. QED BY <2>7, <2>8, <2>9
<1>6. QED BY <1>4, <1>5

(* validate_block_body against the peak's store gives the answer of the    *)
(* block's own chain.                                                      *)
LEMMA ValidateExact ==
    ASSUME NEW s \in Store, NEW p \in Block \cup {NoBlock}, Represents(s, p),
           NEW b \in Block, NEW fork, ForkUsable(fork, p, Parent[b])
    PROVE  ValidateBlockBody(s, fork, b) <=> ValidOnPath(b)
<1>1. Spends[b] \subseteq Coin
  BY CoinAssumption
<1>2. \A c \in Spends[b] : SpendAllowed(s, fork, b, c) <=>
             \/ c \in Adds(b)
             \/ /\ \E a \in Path(Parent[b]) : c \in Adds(a)
                /\ \A a \in Path(Parent[b]) : c \notin Spends[a]
  BY <1>1, SpendAllowedExact
<1>3. QED BY <1>2 DEF ValidateBlockBody, SpendsAllowed, ValidOnPath
=============================================================================
