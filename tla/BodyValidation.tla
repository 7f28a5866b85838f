--------------------------- MODULE BodyValidation ---------------------------
(***************************************************************************)
(* validate_block_body (chives/consensus/block_body_validation.py): the    *)
(* checks of a block's body against the coin store of the current peak,    *)
(* for a block that may extend any stored block, and the reference they    *)
(* must agree with, which looks at the block's own chain only.             *)
(*                                                                         *)
(* The checks that depend on the block alone (hashes, roots, filter, cost, *)
(* signature, time locks, duplicates inside the block) are WellFormed.     *)
(***************************************************************************)
EXTENDS CoinStore, FiniteSetsExt

CONSTANTS
    IsTx,           \* IsTx[b]: b is a transaction block
    WellFormed,     \* b's header and the checks of its body alone pass
    Rewards,        \* Rewards[b]: the pool, farmer and community coins b earns
    Amount          \* Amount[c]

ASSUME BodyAssumption ==
    /\ IsTx \in [Block -> BOOLEAN]
    /\ WellFormed \in [Block -> BOOLEAN]
    /\ Rewards \in [Block -> SUBSET Coin]
    /\ Amount \in [Coin -> Nat]
    /\ \A b \in Block : Height[b] = 0 => IsTx[b]

Value(S) == MapThenSumSet(LAMBDA c : Amount[c], S)

(* The last transaction block strictly below b: prev_transaction_block_hash, *)
(* which the header checks tie to b's chain.                                 *)
PrevTx(b) ==
    CHOOSE t \in Path(Parent[b]) :
        /\ IsTx[t]
        /\ \A a \in Path(Parent[b]) : IsTx[a] => Height[a] <= Height[t]

(* The blocks between PrevTx(b) and the transaction block before it.       *)
Between(t) ==
    {a \in Path(Parent[t]) :
        \A x \in Path(Parent[t]) : IsTx[x] => Height[x] < Height[a]}

(* Check 5: the blocks whose rewards b has to incorporate.                 *)
RewardBlocks(b) ==
    IF Height[b] = 0 THEN {} ELSE {PrevTx(b)} \cup Between(PrevTx(b))

(* The block records check 5 looks up.                                     *)
RewardLookups(b) ==
    IF Height[b] = 0 THEN {}
    ELSE LET t == PrevTx(b)
         IN  RewardBlocks(b) \cup (IF Height[t] = 0 THEN {} ELSE {PrevTx(t)})

ClaimsOK(b) == Claims[b] = UNION {Rewards[a] : a \in RewardBlocks(b)}

(* Check 16, and with the fee of the header check 19.                      *)
NoMinting(b) == Value(Creates[b]) <= Value(Spends[b])
Fee(b) == Value(Spends[b]) - Value(Creates[b])

-----------------------------------------------------------------------------
Since(b, fork) == {a \in Path(Parent[b]) : Height[a] > fork}

(* Mutant: coins spent in the current chain above the fork count as spent. *)
SpendAllowedIgnoresFork(s, fork, b, c) ==
    \/ c \in Adds(b)
    \/ /\ \A a \in Since(b, fork) : c \notin Spends[a]
       /\ IF HasRow(s, c) /\ s.confirmed[c] <= fork
          THEN s.spent[c] = 0
          ELSE \E a \in Since(b, fork) : c \in Adds(a)

(* Check 15: an ephemeral coin, or one not spent in the fork that is       *)
(* either confirmed up to the fork point and not spent up to it, or        *)
(* created in the fork.                                                    *)
SpendAllowed(s, fork, b, c) ==
    \/ c \in Adds(b)
    \/ /\ \A a \in Since(b, fork) : c \notin Spends[a]
       /\ IF HasRow(s, c) /\ s.confirmed[c] <= fork
          THEN ~(s.spent[c] # 0 /\ s.spent[c] <= fork)
          ELSE \E a \in Since(b, fork) : c \in Adds(a)

SpendsAllowed(s, fork, b) == \A c \in Spends[b] : SpendAllowed(s, fork, b, c)

(* What a body says by itself: nothing for a block that is no transaction  *)
(* block, right rewards and no minting for one that is.                    *)
BodyAloneOK(b) ==
    IF IsTx[b]
    THEN WellFormed[b] /\ ClaimsOK(b) /\ NoMinting(b)
    ELSE WellFormed[b] /\ Spends[b] = {} /\ Creates[b] = {} /\ Claims[b] = {}

(* validate_block_body against a store s and a fork point.                 *)
ValidateBlockBody(s, fork, b) == BodyAloneOK(b) /\ SpendsAllowed(s, fork, b)

-----------------------------------------------------------------------------
(* The reference: every coin b spends is created by b or on the way to b,  *)
(* and spent by no block on the way to b.                                  *)
ValidOnPath(b) ==
    /\ BodyAloneOK(b)
    /\ \A c \in Spends[b] :
          \/ c \in Adds(b)
          \/ /\ \E a \in Path(Parent[b]) : c \in Adds(a)
             /\ \A a \in Path(Parent[b]) : c \notin Spends[a]

ValidChain(p) == \A a \in Path(p) : ValidOnPath(a)
=============================================================================
