-------------------------- MODULE MCMempool --------------------------
(***************************************************************************)
(*   g (creates c1, c2, c3) --- a1 (spends c1, creates d1) --- a2 (spends c3) *)
(*                         \--- b1 (no transactions) --- b2 (spends c2)   *)
(* The weights let the chain go a1, b1, a2, b2: back and forth.            *)
(***************************************************************************)
EXTENDS Mempool

CONSTANTS g, a1, a2, b1, b2, c1, c2, c3, d1, x1, x2, x3, x4, x5

Table(f) == CHOOSE t \in {f} : TRUE

MCBlock == {g, a1, a2, b1, b2}
MCParent == Table([b \in MCBlock |->
    CASE b = g -> NoBlock [] b \in {a1, b1} -> g [] b = a2 -> a1 [] b = b2 -> b1])
MCHeight == Table([b \in MCBlock |-> CASE b = g -> 0 [] b \in {a1, b1} -> 1 [] OTHER -> 2])
MCWeight == Table([b \in MCBlock |->
    CASE b = g -> 1 [] b = a1 -> 2 [] b = b1 -> 3 [] b = a2 -> 4 [] b = b2 -> 5])
MCAnc == Table([b \in MCBlock |->
    CASE b = g -> {g} [] b \in {a1, b1} -> {g, b} [] b = a2 -> {g, a1, a2} [] b = b2 -> {g, b1, b2}])
MCIsTx == Table([b \in MCBlock |-> b # b1])

MCCoin == {c1, c2, c3, d1}
MCSpends == Table([b \in MCBlock |->
    CASE b = a1 -> {c1} [] b = a2 -> {c3} [] b = b2 -> {c2} [] OTHER -> {}])
MCCreates == Table([b \in MCBlock |->
    CASE b = g -> {c1, c2, c3} [] b = a1 -> {d1} [] OTHER -> {}])
MCClaims == Table([b \in MCBlock |-> {}])

(* x2 may replace x3, and x1 pays a better rate than x2 but spends less;   *)
(* x2 and x3 wait for a height, x4 for a1's coin to age; x5 pays nothing   *)
(* and is kicked out first.                                                *)
MCTx == {x1, x2, x3, x4, x5}
MCRemovals == Table([x \in MCTx |->
    CASE x = x1 -> {c1} [] x = x2 -> {c1, c2} [] x = x3 -> {c2} [] x = x4 -> {d1} [] x = x5 -> {c3}])
MCAdditions == Table([x \in MCTx |-> {}])
MCCost == Table([x \in MCTx |-> IF x \in {x2, x3} THEN 2 ELSE 1])
MCFee == Table([x \in MCTx |->
    CASE x = x1 -> 4 [] x = x2 -> 5 [] x = x3 -> 2 [] x = x4 -> 2 [] x = x5 -> 0])
MCHeightLock == Table([x \in MCTx |-> IF x \in {x2, x3} THEN 1 ELSE 0])
MCHeightRelative == Table([x \in {x4} |-> 1])
MCSecondsLock == Table([x \in MCTx |-> IF x = x5 THEN 1 ELSE 0])
=============================================================================
