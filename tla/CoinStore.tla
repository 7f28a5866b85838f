------------------------------ MODULE CoinStore ------------------------------
(***************************************************************************)
(* The coin_record table (chives/full_node/coin_store.py): what a block    *)
(* does to it, how it is rolled back, and the reference it must agree with.*)
(*                                                                         *)
(* A coin store is a record of two functions: confirmed[c] is              *)
(* confirmed_index of c's row, NoRow if there is none, and spent[c] is     *)
(* spent_index, 0 while c is unspent.                                      *)
(***************************************************************************)
EXTENDS BlockTree, FiniteSets

CONSTANTS
    Coin,       \* coin names
    Spends,     \* Spends[b]: tx_removals of b's generator
    Creates,    \* Creates[b]: tx_additions of b's generator
    Claims      \* Claims[b]: reward coins b incorporates

Adds(b) == Creates[b] \cup Claims[b]

(* Only transaction blocks have coins, and the genesis block neither       *)
(* spends (_set_spent asserts a height above 0) nor claims rewards.        *)
ASSUME CoinAssumption ==
    /\ Spends \in [Block -> SUBSET Coin]
    /\ Creates \in [Block -> SUBSET Coin]
    /\ Claims \in [Block -> SUBSET Coin]
    /\ \A b \in Block : Height[b] = 0 => Spends[b] = {}

NoRow == -1

EmptyStore ==
    [confirmed |-> [c \in Coin |-> NoRow], spent |-> [c \in Coin |-> 0]]

Store == [confirmed : [Coin -> Nat \cup {NoRow}], spent : [Coin -> Nat]]

HasRow(s, c) == s.confirmed[c] # NoRow
IsUnspent(s, c) == HasRow(s, c) /\ s.spent[c] = 0

-----------------------------------------------------------------------------
(* CoinStore.new_block raises unless every addition is a new row           *)
(* (_add_coin_records inserts on a primary key) and every removal updates  *)
(* exactly one unspent row (_set_spent compares the row count).            *)
NewBlockSucceeds(s, b) ==
    /\ IF Height[b] = 0 THEN Claims[b] = {} ELSE Cardinality(Claims[b]) >= 2
    /\ \A c \in Adds(b) : ~HasRow(s, c)
    /\ \A c \in Spends[b] : c \in Adds(b) \/ IsUnspent(s, c)

(* Mutants: spends not recorded; spends recorded before additions, so that *)
(* an ephemeral coin stays unspent.                                        *)
NewBlockNoSpent(s, b) ==
    [confirmed |-> [c \in Coin |-> IF c \in Adds(b) THEN Height[b] ELSE s.confirmed[c]],
     spent     |-> s.spent]

NewBlockSpendFirst(s, b) ==
    [confirmed |-> [c \in Coin |-> IF c \in Adds(b) THEN Height[b] ELSE s.confirmed[c]],
     spent     |-> [c \in Coin |-> IF c \in Adds(b) THEN 0
                                   ELSE IF c \in Spends[b] THEN Height[b] ELSE s.spent[c]]]

(* _add_coin_records, then _set_spent.                                     *)
NewBlock(s, b) ==
    [confirmed |-> [c \in Coin |-> IF c \in Adds(b) THEN Height[b] ELSE s.confirmed[c]],
     spent     |-> [c \in Coin |-> IF c \in Spends[b] THEN Height[b]
                                   ELSE IF c \in Adds(b) THEN 0 ELSE s.spent[c]]]

(* Mutant: rows are deleted but coins spent above h are not unspent.       *)
RollbackKeepsSpent(s, h) ==
    [confirmed |-> [c \in Coin |-> IF s.confirmed[c] > h THEN NoRow ELSE s.confirmed[c]],
     spent     |-> [c \in Coin |-> IF s.confirmed[c] > h THEN 0 ELSE s.spent[c]]]

(* rollback_to_block: deletes the rows confirmed above h, then unspends    *)
(* what was spent above h.  h is -1 when nothing is kept.                  *)
RollbackToBlock(s, h) ==
    [confirmed |-> [c \in Coin |-> IF s.confirmed[c] > h THEN NoRow ELSE s.confirmed[c]],
     spent     |-> [c \in Coin |-> IF s.confirmed[c] > h \/ s.spent[c] > h
                                   THEN 0 ELSE s.spent[c]]]

-----------------------------------------------------------------------------
(* The reference.  A store stands for the chain that ends in p when the    *)
(* rows are the coins added on the way to p, each at the height that added *)
(* it, and a row is spent at the height on the way to p that spends it.    *)
Represents(s, p) ==
    \A c \in Coin :
        /\ HasRow(s, c) => \E a \in Path(p) : c \in Adds(a)
        /\ \A a \in Path(p) : c \in Adds(a) => s.confirmed[c] = Height[a]
        /\ s.spent[c] # 0 => \E a \in Path(p) : c \in Spends[a] /\ s.spent[c] = Height[a]
        /\ \A a \in Path(p) : c \in Spends[a] => s.spent[c] = Height[a]
        /\ s.spent[c] # 0 => HasRow(s, c) /\ s.confirmed[c] <= s.spent[c]

(* The coins a chain leaves to spend.                                      *)
Unspent(p) ==
    (UNION {Adds(a) : a \in Path(p)}) \ (UNION {Spends[a] : a \in Path(p)})
=============================================================================
