------------------------------ MODULE BlockTree ------------------------------
(***************************************************************************)
(* The blocks a node may ever see, as a tree over hash pointers, with the  *)
(* coins each one spends and creates.  A block is its header hash; what    *)
(* the code reads from a FullBlock or a BlockRecord is a function of it.   *)
(***************************************************************************)
EXTENDS Integers

CONSTANTS
    Block,      \* header hashes
    NoBlock,    \* None; also the prev_hash of a block of height 0
    Parent,     \* prev_header_hash
    Height,     \* height
    Weight,     \* cumulative weight, as validated by the header checks
    Anc         \* Anc[b]: b and every block below it

ASSUME NoBlockAssumption == NoBlock \notin Block

ASSUME BlockAssumption ==
    /\ Parent \in [Block -> Block \cup {NoBlock}]
    /\ Height \in [Block -> Nat]
    /\ Weight \in [Block -> Nat]
    /\ Anc \in [Block -> SUBSET Block]

(* Height validation (blockchain.py) and hash pointers: a child is one     *)
(* above its parent, and only blocks of height 0 have none.                *)
ASSUME TreeAssumption ==
    \A b \in Block :
        IF Parent[b] = NoBlock
        THEN Height[b] = 0 /\ Anc[b] = {b}
        ELSE Height[b] = Height[Parent[b]] + 1 /\ Anc[b] = {b} \cup Anc[Parent[b]]

(* The header checks give every block of height 0 the starting difficulty. *)
ASSUME GenesisAssumption ==
    \A b, c \in Block : Height[b] = 0 /\ Height[c] = 0 => Weight[b] = Weight[c]

(* The blocks on the way from genesis to p; none without a peak.           *)
Path(p) == IF p = NoBlock THEN {} ELSE Anc[p]

(* The height map of the chain that ends in p.                             *)
MapOf(p) ==
    [h \in {Height[a] : a \in Path(p)} |-> CHOOSE a \in Path(p) : Height[a] = h]

(* The heights of the blocks that two paths have in common.                *)
SharedHeights(p, q) == {Height[a] : a \in Path(p) \cap Path(q)}

(* find_fork_point_in_chain: the height of the last common block, or -1.   *)
ForkHeight(p, q) ==
    IF SharedHeights(p, q) = {} THEN -1
    ELSE CHOOSE h \in SharedHeights(p, q) : \A k \in SharedHeights(p, q) : k <= h

(* The records it looks up on the way down; a missing one is a KeyError.   *)
ForkLookups(p, q) ==
    {a \in (Path(p) \cup Path(q)) \ {p, q} : Height[a] >= ForkHeight(p, q)}
=============================================================================
