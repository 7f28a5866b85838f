------------------------------- MODULE MCSync -------------------------------
(***************************************************************************)
(* Synchronisation of the chain between nodes, and of the list of plots    *)
(* between harvester and farmer.  They share no state, so one of them is   *)
(* chosen to move and the other rests.                                     *)
(*                                                                         *)
(* The node has t0..t5 as its chain and u2..u5 beside it.                  *)
(*                                                                         *)
(*   t0 - t1 - t2 - t3 - t4 - t5 - t6 - t7     the target of a long sync   *)
(*          \                \-- w5                                        *)
(*           \          \-- w4                 w5 needs a batch from 0     *)
(*            \-- u2 - u3 - u4 - u5 - u6       u6 outweighs t5 and t6      *)
(*                                                                         *)
(* w4 is a child of t3 and w5 of w4.  Every block from t1 to t7 and from   *)
(* u2 on includes a summary, so that a proof has enough of them.           *)
(***************************************************************************)
EXTENDS FullNodeSync, PlotSync

CONSTANTS t0, t1, t2, t3, t4, t5, t6, t7, u2, u3, u4, u5, u6, w4, w5, peerP, peerQ

MCBlock == {t0, t1, t2, t3, t4, t5, t6, t7, u2, u3, u4, u5, u6, w4, w5}

Table(f) == CHOOSE t \in {f} : TRUE

MCParent == Table(
    [b \in MCBlock |->
        CASE b = t0 -> NoBlock [] b = t1 -> t0 [] b = t2 -> t1 [] b = t3 -> t2 [] b = t4 -> t3
          [] b = t5 -> t4 [] b = t6 -> t5 [] b = t7 -> t6 [] b = u2 -> t1 [] b = u3 -> u2
          [] b = u4 -> u3 [] b = u5 -> u4 [] b = u6 -> u5 [] b = w4 -> t3 [] b = w5 -> w4])

HeightFrom[b \in MCBlock] == IF MCParent[b] = NoBlock THEN 0 ELSE HeightFrom[MCParent[b]] + 1
MCHeight == Table(HeightFrom)
AncFrom[b \in MCBlock] == {b} \cup IF MCParent[b] = NoBlock THEN {} ELSE AncFrom[MCParent[b]]
MCAnc == Table(AncFrom)

MCWeight == Table(
    [b \in MCBlock |->
        CASE b = u5 -> 9 [] b = u6 -> 13 [] b = w4 -> 8 [] b = w5 -> 11 [] OTHER -> 2 * MCHeight[b] + 1])

(* Summaries of the two chains differ from the fork on.                    *)
MCSes == Table(
    [b \in MCBlock |->
        CASE b = t0 \/ b \in {w4, w5} -> NoSes
          [] b \in {u2, u3, u4, u5, u6} -> <<"u", MCHeight[b]>>
          [] OTHER -> <<"t", MCHeight[b]>>])

MCInitStored == {t0, t1, t2, t3, t4, t5, u2, u3, u4, u5}
MCInitTip == [x \in {peerP, peerQ} |-> IF x = peerP THEN t5 ELSE u5]
MCTips == [x \in {peerP, peerQ} |-> IF x = peerP THEN {t7} ELSE {u6, w5}]

-----------------------------------------------------------------------------
CONSTANTS diskA, diskB, bad

MCFile == {diskA, diskB, bad}
MCName == [f \in MCFile |-> IF f = bad THEN "z" ELSE "n"]
MCKind == [f \in MCFile |-> IF f = bad THEN "invalid" ELSE "plot"]
MCDisk == {diskA, diskB}

-----------------------------------------------------------------------------
VARIABLE part

ChainMove(A) == part = "chain" /\ A /\ UNCHANGED <<part, psVars>>
PlotsMove(A) == part = "plots" /\ A /\ UNCHANGED <<part, vars>>

SyncInit == part \in {"chain", "plots"} /\ Init /\ PlotSyncInit
SyncNext == ChainMove(Next) \/ PlotsMove(PlotSyncNext)
syncVars == <<part, vars, psVars>>

(* Weak fairness of the steps of the node and of the plot sync's threads   *)
(* and tasks.  As only one part moves, one conjunct serves a step of each. *)
SyncSpec ==
    /\ SyncInit /\ [][SyncNext]_syncVars
    /\ WF_syncVars(ChainMove(Work) \/ PlotsMove(ThreadStep))
    /\ WF_syncVars(PlotsMove(LoopStep)) /\ WF_syncVars(PlotsMove(ReceiverProcess))

(* Every synchronisation ends, and a long sync keeps its target until      *)
(* then.                                                                   *)
SyncsEnd ==
    /\ TargetOnlyCleared
    /\ LongSyncEnds
    /\ HandlersReturn
    /\ JoinReturns
    /\ PlotSyncEnds
=============================================================================
