------------------------------- MODULE Ledger -------------------------------
(***************************************************************************)
(* What the chain promises: a tip that only moves to heavier valid chains, *)
(* and a set of unspent coins that is always the tip's.                    *)
(***************************************************************************)
CONSTANTS
    Block, NoBlock, Height,
    Heavier(_, _),  \* Heavier(b, c): b has more weight than c
    ValidChain(_),  \* every block on the way to b is valid on its own chain
    Unspent(_)      \* the coins the chain that ends in b leaves to spend

VARIABLES
    tip,    \* NoBlock before the first block
    utxo    \* the coins that can be spent

ledgerVars == <<tip, utxo>>

LedgerInit == tip = NoBlock /\ utxo = {}

(* The chain of b replaces the one of the tip, at any distance.            *)
Adopt(b) ==
    /\ tip' = b
    /\ IF tip = NoBlock THEN Height[b] = 0 ELSE Heavier(b, tip)
    /\ ValidChain(b)
    /\ utxo' = Unspent(b)

LedgerSpec == LedgerInit /\ [][\E b \in Block : Adopt(b)]_ledgerVars
=============================================================================
