------------------------------- MODULE MCNode -------------------------------
(***************************************************************************)
(* Parts of a full node that wait for one another: the priority lock, the  *)
(* database, the cached height map, transactions and unfinished blocks on  *)
(* their way in, and compact proofs.  They share no state here, so one of  *)
(* them is chosen to move and the others rest.  The lock is there twice:   *)
(* with requests that are cancelled while they wait, and without.          *)
(***************************************************************************)
EXTENDS LockQueue, DBWrapper, BlockHeightMap, TxRelay, UnfinishedBlocks, CompactProofs

CONSTANTS ultra, high1, high2, low, t1, t2, k1, eos, ip

MCRequest == {ultra, high1, high2, low}

MCPriority == [r \in MCRequest |-> CASE r = ultra -> 0
                                     [] r \in {high1, high2} -> 1
                                     [] r = low -> 2]

-----------------------------------------------------------------------------
(* Two branches on a1, one of them heavier and shorter, and another chain: *)
(*                                                                         *)
(*   g --- a1* --- a2 --- a3* --- a4       * includes a summary            *)
(*           \-- b2* --- b3                b3 is heavier than a4           *)
(*   h --- h1* --- h2*                     h2 is the heaviest              *)
CONSTANTS g, a1, a2, a3, a4, b2, b3, h, h1, h2, s1, s2

Table(f) == CHOOSE t \in {f} : TRUE

MCBlock == {g, a1, a2, a3, a4, b2, b3, h, h1, h2}

MCParent == Table([b \in MCBlock |->
    CASE b \in {g, h} -> NoBlock [] b = a1 -> g [] b = a2 -> a1 [] b = a3 -> a2
      [] b = a4 -> a3 [] b = b2 -> a1 [] b = b3 -> b2 [] b = h1 -> h [] b = h2 -> h1])

MCHeight == Table([b \in MCBlock |->
    CASE b \in {g, h} -> 0 [] b \in {a1, h1} -> 1 [] b \in {a2, b2, h2} -> 2
      [] b \in {a3, b3} -> 3 [] b = a4 -> 4])

MCWeight == Table([b \in MCBlock |->
    CASE b = b2 -> 4 [] b = b3 -> 7 [] b = h1 -> 3 [] b = h2 -> 8 [] OTHER -> MCHeight[b] + 1])

MCAnc == Table([b \in MCBlock |->
    CASE b \in {g, h} -> {b} [] b = a1 -> {g, a1} [] b = a2 -> {g, a1, a2}
      [] b = a3 -> {g, a1, a2, a3} [] b = a4 -> {g, a1, a2, a3, a4}
      [] b = b2 -> {g, a1, b2} [] b = b3 -> {g, a1, b2, b3}
      [] b = h1 -> {h, h1} [] b = h2 -> {h, h1, h2}])

(* Different blocks of one height include the same summary (a1 and h1) or  *)
(* different ones (b2 and h2).                                             *)
MCSes == Table([b \in MCBlock |->
    CASE b \in {a1, h1, h2} -> s1 [] b \in {a3, b2} -> s2 [] OTHER -> NoSes])

MCOther == MCBlock \cup {NoBlock}

-----------------------------------------------------------------------------
MCPeerFoliage == [p1 |-> "other", p2 |-> "bad"]
MCUPeer == DOMAIN MCPeerFoliage
MCTrunkHeight == [t1 |-> 1]
MCTrunk == DOMAIN MCTrunkHeight

-----------------------------------------------------------------------------
VARIABLE part

LockMove(A) == /\ part = "lock" /\ A
               /\ UNCHANGED <<part, dbVars, mapVars, relayVars, unfVars, compVars>>
CancelMove(A) == /\ part = "cancel" /\ A
                 /\ UNCHANGED <<part, dbVars, mapVars, relayVars, unfVars, compVars>>
DbMove(A) == /\ part = "db" /\ A
             /\ UNCHANGED <<part, vars, mapVars, relayVars, unfVars, compVars>>
MapMove(A) == /\ part = "map" /\ A
              /\ UNCHANGED <<part, vars, dbVars, relayVars, unfVars, compVars>>
RelayMove(A) == /\ part = "relay" /\ A
                /\ UNCHANGED <<part, vars, dbVars, mapVars, unfVars, compVars>>
UnfMove(A) == /\ part = "unfinished" /\ A
              /\ UNCHANGED <<part, vars, dbVars, mapVars, relayVars, compVars>>
CompMove(A) == /\ part = "compact" /\ A
               /\ UNCHANGED <<part, vars, dbVars, mapVars, relayVars, unfVars>>

NodeInit ==
    /\ part \in {"lock", "cancel", "db", "map", "relay", "unfinished", "compact"}
    /\ Init /\ DbInit /\ MapInit /\ RelayInit /\ UnfInit /\ CompInit

NodeNext ==
    \/ LockMove(Step) \/ CancelMove(Next)
    \/ DbMove(\E t \in Task : DbStep(t))
    \/ MapMove(MapNext)
    \/ RelayMove(RelayNext)
    \/ UnfMove(UnfNext)
    \/ CompMove(CompNext)

nodeVars == <<part, vars, dbVars, mapVars, relayVars, unfVars, compVars>>

(* The fairness of the parts.  As only one of them moves, one conjunct can *)
(* serve a step of each; the steps of the lock are never enabled together, *)
(* so that for them one conjunct is enough.                                *)
LockStep == Wake \/ \E r \in Request : Serve(r) \/ Enter(r) \/ Exit(r)
FetchStep(i) == AskNext(i) \/ SkipPeer(i) \/ TimeOut(i) \/ EndFetch(i)
Answer(f) == RespondCompactProofOfTime(k1, f)
Lock(f) == TakeLock(<<k1, f, "timelord">>)

NodeFairness ==
    /\ WF_nodeVars(LockMove(LockStep) \/ RelayMove(Acquire) \/ DbMove(Finish(t1))
                   \/ UnfMove(FarmerSigns("t1", "tx")) \/ CompMove(Answer(eos)))
    /\ WF_nodeVars(RelayMove(\E e \in inbox : HandleTransactions(e)) \/ DbMove(Finish(t2))
                   \/ UnfMove(FarmerSigns("t1", "empty")) \/ CompMove(Answer(ip)))
    /\ WF_nodeVars(RelayMove(\E e \in handling, ok \in BOOLEAN : HandledOne(e, ok))
                   \/ UnfMove(SignedValues("t1", "tx")) \/ CompMove(CacheRow))
    /\ WF_nodeVars(RelayMove(FetchStep(1)) \/ UnfMove(SignedValues("t1", "empty"))
                   \/ CompMove(\E ok \in BOOLEAN : ReplaceProof(ok)))
    /\ WF_nodeVars(RelayMove(FetchStep(2)) \/ UnfMove(OwnValidated("t1", "tx")))
    /\ WF_nodeVars(RelayMove(FetchStep(3)) \/ UnfMove(OwnValidated("t1", "empty")))
    /\ SF_nodeVars(DbMove(GetConnection(t1)) \/ CompMove(BroadcastUncompact(k1, eos)))
    /\ SF_nodeVars(DbMove(GetConnection(t2)) \/ CompMove(BroadcastUncompact(k1, ip)))
    /\ SF_nodeVars(CompMove(Lock(eos))) /\ SF_nodeVars(CompMove(Lock(ip)))
    /\ SF_nodeVars(CompMove(Evict(k1)))

NodeSpec == NodeInit /\ [][NodeNext]_nodeVars /\ NodeFairness

-----------------------------------------------------------------------------
(* Without cancellations inside __aenter__, a held lock belongs to a       *)
(* request that will release it ...                                        *)
HeldHasOwner == part = "lock" => LockHasOwner

(* ... and every request gets the lock unless the queue is closed.         *)
RequestsServed == part = "lock" => WaitersServed

(* Every stored block becomes compact, whatever races and failures happen  *)
(* on the way.                                                             *)
BlocksCompacted == part = "compact" => AllCompacted

(* What the tables say is in progress has a task, an owner or a row to     *)
(* show for it.                                                            *)
TasksMatchState == HeldHasOwner /\ PendingHasTask /\ PermitsConserved /\ FlagIsExact

(* Whoever waits in the node is served: for the lock, for the database, in *)
(* the transaction queue, a farmer for their block, a block for its        *)
(* compact proofs.                                                         *)
NodeLive ==
    /\ RequestsServed
    /\ NobodyStuck
    /\ QueueDrains
    /\ FarmedIsKept
    /\ BlocksCompacted
=============================================================================
