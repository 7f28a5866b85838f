---------------------------- MODULE MCConsensus -----------------------------
(***************************************************************************)
(* The chain as it is produced and validated, and the store of what is not *)
(* yet in it.  They share no state here, so one moves and the other rests. *)
(***************************************************************************)
EXTENDS ChainGrowth, FullNodeStore

MCRequired == {1, 3}
MCPauses == {2, 5, 80}
MCSchedules ==
    {[blocks |-> <<<<0, 1>>, <<2, 1>>>>, pause |-> 2], [blocks |-> <<<<3, 1>>, <<1, 1>>>>, pause |-> 5],
     [blocks |-> <<<<3, 1>>, <<3, 3>>>>, pause |-> 2]}

-----------------------------------------------------------------------------
(***************************************************************************)
(* A genesis block, then in the second sub-slot a block b1 and a branch    *)
(* c1, c2 which is heavier; c2 is an overflow block in the third sub-slot. *)
(* Empty sub-slots exist beside those with blocks; the infusion of c1      *)
(* changes the challenge chain, that of b1 does not.                       *)
(***************************************************************************)

MCBlk ==
    [b0 |-> [prev |-> NoBlock, iters |-> 3, weight |-> 1, slot |-> GENESIS, spSlot |-> GENESIS,
             spIndex |-> 1, spRc |-> GENESIS, first |-> FALSE, newSlots |-> <<>>],
     b1 |-> [prev |-> "b0", iters |-> 11, weight |-> 2, slot |-> "e1", spSlot |-> "e1",
             spIndex |-> 1, spRc |-> "e1", first |-> TRUE, newSlots |-> <<"e1">>],
     c1 |-> [prev |-> "b0", iters |-> 13, weight |-> 2, slot |-> "e1", spSlot |-> "e1",
             spIndex |-> 1, spRc |-> "e1", first |-> TRUE, newSlots |-> <<"e1">>],
     c2 |-> [prev |-> "c1", iters |-> 17, weight |-> 3, slot |-> "e2c", spSlot |-> "e1",
             spIndex |-> 3, spRc |-> "c1", first |-> TRUE, newSlots |-> <<"e2c">>]]
MCEos ==
    [e1  |-> [cc |-> "s1", ccPrev |-> GENESIS, rcPrev |-> "b0", end |-> 8],
     x1  |-> [cc |-> "s1", ccPrev |-> GENESIS, rcPrev |-> GENESIS, end |-> 8],
     e2  |-> [cc |-> "s2", ccPrev |-> "s1", rcPrev |-> "e1", end |-> 16],
     e2b |-> [cc |-> "s2", ccPrev |-> "s1", rcPrev |-> "b1", end |-> 16],
     e2c |-> [cc |-> "t2", ccPrev |-> "s1", rcPrev |-> "c1", end |-> 16]]
MCSps ==
    {[cc |-> "s1", index |-> 1, rc |-> "e1"], [cc |-> "s1", index |-> 3, rc |-> "e1"],
     [cc |-> "s1", index |-> 3, rc |-> "c1"]}
MCBlock == DOMAIN MCBlk
MCBundle == DOMAIN MCEos

-----------------------------------------------------------------------------
VARIABLE part

GrowthMove(A) == part = "growth" /\ A /\ UNCHANGED <<part, storeVars>>
StoreMove(A) == part = "store" /\ A /\ UNCHANGED <<part, growthVars>>

ConsensusInit ==
    /\ part \in {"growth", "store"}
    /\ GrowthInit /\ StoreInit
    /\ part # "growth" => usual.pause = 5

ConsensusNext ==
    \/ GrowthMove(GrowthNext)
    \/ StoreMove(StoreNext)

consensusVars == <<part, growthVars, storeVars>>

ConsensusSpec == ConsensusInit /\ [][ConsensusNext]_consensusVars

-----------------------------------------------------------------------------
(* Farmer, node and timelord make the blocks that validation accepts, the  *)
(* timelord knows its place in the chain, and summaries and epochs come    *)
(* where they should.                                                      *)
GrowthIsRight == part = "growth" => BlocksAreValid /\ TimelordIsRight /\ EpochsAreRight

(* The full node store follows the peak, in whatever order things arrive.  *)
StoreIsRight == part = "store" => StoreFollowsPeak
=============================================================================
