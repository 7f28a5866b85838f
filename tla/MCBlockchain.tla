---------------------------- MODULE MCBlockchain ----------------------------
(***************************************************************************)
(* A block tree for TLC.  Two chains fork after g, a third starts from     *)
(* another genesis; x4, y3 and z4 are blocks that must be rejected.        *)
(*                                                                         *)
(*                 /-- c3               heavier than a4, not so high       *)
(*   g --- a1 --- a2 --- a3 --- a4      a2 and c3 have no transactions     *)
(*    \                    \-- x4       spends again what a3 spent         *)
(*     \-- b1 --- b2 --- b3 --- z4      z4 spends again what b3 spent      *)
(*                   \-- y3             spends a coin of the other chain   *)
(*   h --- h1                           h1 is heavier than all             *)
(***************************************************************************)
EXTENDS Blockchain

CONSTANTS g, a1, a2, a3, a4, x4, b1, b2, b3, y3, z4, c3, h, h1

MCBlock == {g, a1, a2, a3, a4, x4, b1, b2, b3, y3, z4, c3, h, h1}

(* TLC evaluates a function once when it is chosen from a set.             *)
Table(f) == CHOOSE t \in {f} : TRUE

MCParent == Table(
    [b \in MCBlock |->
        CASE b = a1 -> g  [] b = a2 -> a1 [] b = a3 -> a2 [] b = a4 -> a3
          [] b = x4 -> a3 [] b = b1 -> g  [] b = b2 -> b1 [] b = b3 -> b2
          [] b = y3 -> b2 [] b = z4 -> b3 [] b = h1 -> h [] b = c3 -> a2
          [] OTHER -> NoBlock])

HeightFrom[b \in MCBlock] ==
    IF MCParent[b] = NoBlock THEN 0 ELSE HeightFrom[MCParent[b]] + 1
MCHeight == Table(HeightFrom)

AncFrom[b \in MCBlock] ==
    {b} \cup IF MCParent[b] = NoBlock THEN {} ELSE AncFrom[MCParent[b]]
MCAnc == Table(AncFrom)

(* a3 and b3 weigh the same, b2 outweighs a2, h1 outweighs everything.     *)
MCWeight == Table(
    [b \in MCBlock |->
        CASE b \in {g, h} -> 1 [] b \in {a1, b1} -> 2 [] b = a2 -> 3
          [] b = b2 -> 4 [] b \in {a3, b3, y3} -> 5 [] b \in {a4, x4} -> 6
          [] b \in {z4, c3} -> 7 [] b = h1 -> 8])

MCIsTx == Table([b \in MCBlock |-> b \notin {a2, b1, c3}])
MCWellFormed == [b \in MCBlock |-> TRUE]

(* Pool and farmer coins are named by height and farmer, so a1 and b1,     *)
(* farmed by the same farmer, earn the same coins.                         *)
MCFarmer ==
    [b \in MCBlock |-> CASE b \in {h, h1} -> 2 [] b \in {a1, b1} -> 3
                         [] b \in {b2, b3} -> 1 [] OTHER -> 0]
MCRewards == Table(
    [b \in MCBlock |-> {<<"pool", MCHeight[b], MCFarmer[b]>>, <<"farmer", MCHeight[b], MCFarmer[b]>>}])

gp == <<"pool", 0, 0>>      \* the pool coin of g
tx1 == <<"tx", 1, 0>>       \* created when gp is spent
tx2 == <<"tx", 2, 0>>       \* created when tx1 is spent
a1p == <<"pool", 1, 3>>     \* the pool coin of a1 and of b1

MCCoin == UNION {MCRewards[b] : b \in MCBlock} \cup {tx1, tx2}

(* b3 spends tx1 in the block that creates it.                             *)
MCSpends == Table(
    [b \in MCBlock |->
        CASE b \in {a3, x4} -> {gp} [] b = a4 -> {tx1}
          [] b \in {b3} -> {gp, tx1} [] b = z4 -> {tx1} [] b = y3 -> {a1p}
          [] OTHER -> {}])
MCCreates == Table(
    [b \in MCBlock |->
        CASE b = a3 -> {tx1} [] b = a4 -> {tx2} [] b = b3 -> {tx1, tx2}
          [] OTHER -> {}])

(* gp is worth 4, tx1 3 (a3 pays a fee of 1) and tx2 3.                    *)
MCAmount == Table(
    [c \in MCCoin |->
        IF c = gp THEN 4 ELSE IF c \in {tx1, tx2} THEN 3
        ELSE IF c = <<"farmer", 3, 0>> THEN 3 ELSE 2])

MCClaims == Table(
    [b \in MCBlock |->
        CASE b \in {g, h, a2, b1, c3} -> {}
          [] b \in {a1, b2} -> MCRewards[g]
          [] b = a3 -> MCRewards[a1]
          [] b \in {a4, x4} -> MCRewards[a3] \cup MCRewards[a2]
          [] b \in {b3, y3} -> MCRewards[b2] \cup MCRewards[b1]
          [] b = z4 -> MCRewards[b3]
          [] b = h1 -> MCRewards[h]])
=============================================================================
