---------------------------- MODULE FullNodeSync ----------------------------
(***************************************************************************)
(* How a full node follows its peers: SyncStore (sync_store.py) and the    *)
(* new_peak, short sync and long sync coroutines of full_node.py.          *)
(*                                                                         *)
(* The chain is what contains_block and get_peak tell: the blocks stored   *)
(* and the peak.  Blocks are valid; the record cache is taken to reach     *)
(* back far enough.  A hold of the blockchain lock is one step, except the *)
(* long sync's, which fetches while it holds it.                           *)
(***************************************************************************)
EXTENDS BlockTree, FiniteSets, Sequences, SequencesExt

CONSTANTS
    Peer,
    Slot,               \* the permits of new_peak_sem
    Syncer,             \* bound: _sync tasks alive at the same time
    NoPeer,
    Ses, NoSes,         \* sub_epoch_summary_included of a block, or None
    InitStored, InitPeak, InitTip,
    Tips,               \* the peaks a peer may come to have
    MaxPeaks,           \* 256
    ShortThreshold,     \* short_sync_blocks_behind_threshold
    LongThreshold,      \* sync_blocks_behind_threshold
    RecentBlocks,       \* WEIGHT_PROOF_RECENT_BLOCKS
    BackDepth,          \* 5, and 6 for a batch
    BatchSize,          \* MAX_BLOCK_COUNT_PER_REQUESTS
    BufferSize,         \* 4
    ClearEvery,         \* 1000
    MaxConnects, MaxFaults  \* bounds: reconnections, wrong or missing answers

VARIABLES
    stored, peak,       \* the blockchain
    lock,               \* the long sync that holds the blockchain lock, or NoPeer
    tip, connected,     \* each peer's own peak; the peers connected
    peakToPeer,         \* peak_to_peer: <<hash, peers>> in order of insertion
    peerToPeak,         \* peer_to_peak
    batchSyncing, backtrackSyncing,
    syncMode, longSync, target, peersChanged,
    h,                  \* the new_peak handlers
    s,                  \* the _sync tasks
    connects, faults

chain == <<stored, peak>>
store == <<peakToPeer, peerToPeak, peersChanged>>
modes == <<syncMode, longSync, target>>
guards == <<batchSyncing, backtrackSyncing>>
env == <<tip, connected, connects, faults>>
vars == <<stored, peak, lock, tip, connected, peakToPeer, peerToPeak, batchSyncing,
          backtrackSyncing, syncMode, longSync, target, peersChanged, h, s, connects, faults>>

IdleHandler == [pc |-> "idle", peer |-> NoPeer, blk |-> NoBlock, from |-> 0, pos |-> 0, got |-> <<>>]
IdleSync == [pc |-> "idle", fork |-> 0, peer |-> NoPeer, peers |-> {}, pos |-> 0,
             queue |-> <<>>, advanced |-> FALSE]

Init ==
    /\ stored = InitStored /\ peak = InitPeak
    /\ lock = NoPeer
    /\ tip = InitTip /\ connected = Peer
    /\ peakToPeer = <<>> /\ peerToPeak = [p \in Peer |-> NoBlock] /\ peersChanged = FALSE
    /\ batchSyncing = {} /\ backtrackSyncing = [p \in Peer |-> 0]
    /\ syncMode = FALSE /\ longSync = FALSE /\ target = NoBlock
    /\ h = [i \in Slot |-> IdleHandler]
    /\ s = [j \in Syncer |-> IdleSync]
    /\ connects = 0 /\ faults = 0

-----------------------------------------------------------------------------
(* SyncStore.                                                              *)

Known(hash) == \E k \in DOMAIN peakToPeer : peakToPeer[k][1] = hash

(* get_peers_that_have_peak for one hash.                                  *)
PeersThatHave(hash) ==
    UNION {peakToPeer[k][2] : k \in {n \in DOMAIN peakToPeer : peakToPeer[n][1] = hash}}

(* peer_has_block on peak_to_peer: the oldest entry goes when there are    *)
(* too many, unless it is the sync target.                                 *)
Evicted(ptp) ==
    IF Len(ptp) <= MaxPeaks THEN ptp
    ELSE IF ptp[1][1] = target THEN SubSeq(ptp, 3, Len(ptp)) \o <<ptp[1]>>
    ELSE Tail(ptp)

PeersHaveBlock(hash, ps) ==
    IF ps = {} THEN peakToPeer
    ELSE IF Known(hash)
    THEN [k \in DOMAIN peakToPeer |->
            IF peakToPeer[k][1] = hash THEN <<hash, peakToPeer[k][2] \cup ps>> ELSE peakToPeer[k]]
    ELSE Evicted(Append(peakToPeer, <<hash, ps>>))

(* get_heaviest_peak, without its assertion: the heaviest among the peers' *)
(* peaks that peak_to_peer still knows.                                    *)
KnownPeaks == {peerToPeak[p] : p \in Peer} \cap {peakToPeer[k][1] : k \in DOMAIN peakToPeer}
HeaviestPeaks == {b \in KnownPeaks : \A c \in KnownPeaks : Weight[c] <= Weight[b]}

(* peer_disconnected, with the closing of the connections to ps.           *)
Dropped(ps) ==
    /\ connected' = connected \ ps
    /\ peerToPeak' = [p \in Peer |-> IF p \in ps THEN NoBlock ELSE peerToPeak[p]]
    /\ peakToPeer' = [k \in DOMAIN peakToPeer |-> <<peakToPeer[k][1], peakToPeer[k][2] \ ps>>]

Disconnected(ps) == Dropped(ps) /\ peersChanged' = (peersChanged \/ ps # {})

-----------------------------------------------------------------------------
(* Peers connect, disconnect, extend their chains.                         *)

Connect(p) ==
    /\ p \notin connected
    /\ connects < MaxConnects
    /\ connected' = connected \cup {p}
    /\ connects' = connects + 1
    /\ UNCHANGED <<chain, lock, store, guards, modes, h, s, tip, faults>>

Disconnect(p) ==
    /\ p \in connected
    /\ faults < MaxFaults
    /\ faults' = faults + 1
    /\ Disconnected({p})
    /\ UNCHANGED <<chain, lock, guards, modes, h, s, tip, connects>>

PeerTip(p, b) ==
    /\ p \in connected
    /\ b \in Tips[p]
    /\ Weight[b] > Weight[tip[p]]
    /\ tip' = [tip EXCEPT ![p] = b]
    /\ UNCHANGED <<chain, lock, store, guards, modes, h, s, connected, connects, faults>>

(* What a peer answers to a request for the block at a height.             *)
Answers(p, n) == IF p \in connected THEN {b \in Path(tip[p]) : Height[b] = n} ELSE {}

(* A request for blocks asks from one height to another; a peer whose      *)
(* chain ends before that rejects it.                                      *)
BatchEnd(m, b) == IF m + BatchSize < Height[b] THEN m + BatchSize ELSE Height[b]
Serves(p, m, b) == p \in connected /\ Height[tip[p]] >= BatchEnd(m, b)

(* The blocks from one height to another, in order.                        *)
Run(b, m, n) == [k \in 1..(n - m + 1) |-> CHOOSE a \in Path(b) : Height[a] = m + k - 1]

-----------------------------------------------------------------------------
(* The chain.                                                              *)

PeakHeight == IF peak = NoBlock THEN 0 ELSE Height[peak]
Heavier(b, p) == p = NoBlock \/ Weight[b] > Weight[p]

(* receive_block_batch: from the first block that is not known on.  It     *)
(* fails when that one is not connected.                                   *)
Fresh(bs) == SelectInSeq(bs, LAMBDA b : b \notin stored)
BatchConnects(bs) ==
    IF Fresh(bs) = 0 THEN TRUE
    ELSE LET b == bs[Fresh(bs)] IN Height[b] = 0 \/ Parent[b] \in stored

AddBatch(bs) ==
    LET better == {b \in ToSet(bs) \ stored : Heavier(b, peak)}
    IN  /\ stored' = stored \cup ToSet(bs)
        /\ peak' = IF better = {} THEN peak
                   ELSE CHOOSE b \in better : \A c \in better : Weight[c] <= Weight[b]

-----------------------------------------------------------------------------
(* new_peak and the short syncs.                                           *)

Done(i) == h' = [h EXCEPT ![i] = IdleHandler]
Goto(i, r) == h' = [h EXCEPT ![i] = r]

(* A _sync task is created.  It returns at once when one is running.       *)
StartSync ==
    IF syncMode \/ longSync THEN UNCHANGED <<s, longSync>>
    ELSE /\ \E j \in Syncer : s[j].pc = "idle"
         /\ s' = [s EXCEPT ![CHOOSE j \in Syncer : s[j].pc = "idle"].pc = "peaks"]
         /\ longSync' = TRUE

(* short_sync_batch up to its first request.                               *)
StartBatch(i, r, start, back) ==
    IF back[r.peer] > 0 \/ r.peer \in batchSyncing
    THEN Done(i) /\ UNCHANGED batchSyncing
    ELSE /\ batchSyncing' = batchSyncing \cup {r.peer}
         /\ Goto(i, [r EXCEPT !.pc = IF start > 0 THEN "first" ELSE "batch",
                              !.pos = start, !.got = <<>>])

(* The end of new_peak, once the backtrack is not tried or has failed.     *)
BatchOrSync(i, r, back) ==
    IF Height[r.blk] < RecentBlocks
    THEN StartBatch(i, r, 0, back) /\ UNCHANGED <<s, longSync>>
    ELSE IF Height[r.blk] < r.from + LongThreshold
    THEN /\ StartBatch(i, r, IF r.from > BackDepth + 1 THEN r.from - BackDepth - 1 ELSE 0, back)
         /\ UNCHANGED <<s, longSync>>
    ELSE StartSync /\ Done(i) /\ UNCHANGED batchSyncing

(* new_peak up to its first request.                                       *)
NewPeak(i, p) ==
    LET b == tip[p]
        r == [IdleHandler EXCEPT !.peer = p, !.blk = b, !.from = PeakHeight]
    IN  /\ h[i].pc = "idle" /\ i = CHOOSE k \in Slot : h[k].pc = "idle"
        /\ p \in connected
        /\ peerToPeak[p] # b
        /\ peakToPeer' = PeersHaveBlock(b, {p})
        /\ peersChanged' = (peersChanged \/ b = target)
        /\ peerToPeak' = [peerToPeak EXCEPT ![p] = b]
        /\ IF b \in stored \/ (peak # NoBlock /\ Weight[peak] > Weight[b])
           THEN UNCHANGED <<guards, h, s, longSync>>
           ELSE IF syncMode
           THEN /\ IF target # NoBlock /\ b # target /\ p \notin PeersThatHave(target)
                   THEN Goto(i, [r EXCEPT !.pc = "ask", !.got = <<target>>]) ELSE UNCHANGED h
                /\ UNCHANGED <<guards, s, longSync>>
           ELSE IF Height[b] <= PeakHeight + ShortThreshold /\ Height[b] > PeakHeight - BackDepth
           THEN /\ backtrackSyncing' = [backtrackSyncing EXCEPT ![p] = @ + 1]
                /\ Goto(i, [r EXCEPT !.pc = "backtrack", !.pos = Height[b]])
                /\ UNCHANGED <<batchSyncing, s, longSync>>
           ELSE BatchOrSync(i, r, backtrackSyncing) /\ UNCHANGED backtrackSyncing
        /\ UNCHANGED <<chain, lock, syncMode, target, env>>

(* The answer to the question for the sync target; its hash is not         *)
(* compared.                                                               *)
AskedTarget(i) ==
    /\ h[i].pc = "ask"
    /\ LET asked == Head(h[i].got)
           has == Answers(h[i].peer, Height[asked]) # {}
       IN  /\ peakToPeer' = PeersHaveBlock(asked, IF has THEN {h[i].peer} ELSE {})
           /\ peersChanged' = (peersChanged \/ (has /\ asked = target))
    /\ Done(i)
    /\ UNCHANGED <<chain, lock, peerToPeak, guards, modes, s, env>>

(* One block of short_sync_backtrack.                                      *)
BacktrackFetch(i) ==
    LET r == h[i]
        down == [backtrackSyncing EXCEPT ![r.peer] = @ - 1]
    IN  /\ r.pc = "backtrack"
        /\ \E b \in Answers(r.peer, r.pos) :
            IF Parent[b] \in stored \/ r.pos = 0
            THEN /\ Goto(i, [r EXCEPT !.pc = "respond", !.got = Append(@, b)])
                 /\ UNCHANGED <<guards, s, longSync>>
            ELSE IF r.pos - 1 > r.from - BackDepth
            THEN /\ Goto(i, [r EXCEPT !.pos = @ - 1, !.got = Append(@, b)])
                 /\ UNCHANGED <<guards, s, longSync>>
            ELSE /\ backtrackSyncing' = down
                 /\ BatchOrSync(i, r, down)
        /\ UNCHANGED <<chain, lock, store, syncMode, target, env>>

(* Mutant: an exception leaves the count of backtracks as it was.          *)
UncountNever(i) == UNCHANGED backtrackSyncing

(* The except branch of short_sync_backtrack.                              *)
Uncount(i) == backtrackSyncing' = [backtrackSyncing EXCEPT ![h[i].peer] = @ - 1]

(* respond_block for the oldest of the responses, and, when all are        *)
(* handled, the end of the backtrack.                                      *)
RespondBlock(i) ==
    LET r == h[i] b == Last(r.got) IN
    /\ r.pc = "respond"
    /\ IF r.got = <<>>
       THEN /\ Uncount(i) /\ Done(i)
            /\ UNCHANGED <<chain, peakToPeer>>
       ELSE /\ Goto(i, [r EXCEPT !.got = Front(@)])
            /\ UNCHANGED backtrackSyncing
            /\ IF syncMode \/ b \in stored \/ (Height[b] > 0 /\ Parent[b] \notin stored)
               THEN UNCHANGED <<chain, peakToPeer>>
               ELSE /\ lock = NoPeer
                    /\ AddBatch(<<b>>)
                    /\ peakToPeer' = IF Height[peak'] % ClearEvery = 0 THEN <<>> ELSE peakToPeer
    /\ UNCHANGED <<lock, peerToPeak, peersChanged, batchSyncing, modes, s, env>>

(* The first request of short_sync_batch.                                  *)
BatchFirst(i) ==
    /\ h[i].pc = "first"
    /\ \E b \in Answers(h[i].peer, h[i].pos) :
        IF Parent[b] \in stored
        THEN Goto(i, [h[i] EXCEPT !.pc = "batch"]) /\ UNCHANGED <<batchSyncing, s, longSync>>
        ELSE /\ batchSyncing' = batchSyncing \ {h[i].peer}
             /\ StartSync
             /\ Done(i)
    /\ UNCHANGED <<chain, lock, store, backtrackSyncing, syncMode, target, env>>

(* The loop of short_sync_batch: a request, then the batch under the lock. *)
BatchFetch(i) ==
    LET r == h[i] IN
    /\ r.pc = "batch"
    /\ IF r.pos >= Height[r.blk]
       THEN /\ batchSyncing' = batchSyncing \ {r.peer}
            /\ Done(i)
       ELSE /\ Serves(r.peer, r.pos, r.blk)
            /\ Goto(i, [r EXCEPT !.pc = "add", !.got = Run(tip[r.peer], r.pos, BatchEnd(r.pos, r.blk))])
            /\ UNCHANGED batchSyncing
    /\ UNCHANGED <<chain, lock, store, backtrackSyncing, modes, s, env>>

BatchAdd(i) ==
    LET r == h[i] IN
    /\ r.pc = "add"
    /\ lock = NoPeer
    /\ BatchConnects(r.got)
    /\ AddBatch(r.got)
    /\ Goto(i, [r EXCEPT !.pc = "batch", !.pos = @ + BatchSize, !.got = <<>>])
    /\ UNCHANGED <<lock, store, guards, modes, s, env>>

(* What an exception in the handler leaves behind.  The guards are taken   *)
(* back, except when the first request of a batch raises (an answer of the *)
(* wrong type) instead of returning nothing.                               *)
Unguard(i, raised) ==
    CASE h[i].pc \in {"backtrack", "respond"} -> Uncount(i) /\ UNCHANGED batchSyncing
      [] h[i].pc \in {"batch", "add"} \/ (h[i].pc = "first" /\ ~raised) ->
            batchSyncing' = batchSyncing \ {h[i].peer} /\ UNCHANGED backtrackSyncing
      [] OTHER -> UNCHANGED guards

(* A request fails: the peer is gone, does not have the block, answers too *)
(* late or wrongly; or the blocks of a batch do not connect.  The          *)
(* exception closes the connection.                                        *)
HandlerFails(i, raised) ==
    LET r == h[i]
        gone == r.peer \notin connected
        short == \/ r.pc \in {"backtrack", "first"} /\ Answers(r.peer, r.pos) = {}
                 \/ r.pc = "batch" /\ ~Serves(r.peer, r.pos, r.blk)
                 \/ r.pc = "add" /\ ~BatchConnects(r.got)
    IN  /\ r.pc \in {"backtrack", "first", "batch", "add"}
        /\ r.pc = "batch" => r.pos < Height[r.blk]
        /\ IF (gone /\ r.pc # "add") \/ short THEN ~raised /\ UNCHANGED faults
           ELSE r.pc # "add" /\ faults < MaxFaults /\ faults' = faults + 1
        /\ Unguard(i, raised)
        /\ Done(i)
        /\ Disconnected({r.peer})
        /\ UNCHANGED <<chain, lock, modes, s, tip, connects>>

-----------------------------------------------------------------------------
(* The long sync.                                                          *)

(* The except and finally of _sync: the modes are reset, and the rest of   *)
(* _finish_sync waits for the lock.                                        *)
Finish(j) ==
    /\ s' = [s EXCEPT ![j] = [IdleSync EXCEPT !.pc = "clear"]]
    /\ longSync' = FALSE
    /\ syncMode' = FALSE

(* _sync, once it has waited for peaks.  No peak, or the assertion of      *)
(* get_heaviest_peak, ends it.                                             *)
SelectPeak(j) ==
    /\ s[j].pc = "peaks"
    /\ IF KnownPeaks = {}
       THEN Finish(j) /\ UNCHANGED target
       ELSE /\ \E b \in HeaviestPeaks : target' = b
            /\ s' = [s EXCEPT ![j].pc = "collect"]
            /\ UNCHANGED <<syncMode, longSync>>
    /\ UNCHANGED <<chain, lock, store, guards, h, env>>

(* Every peer is asked for the block at the target's height; who answers   *)
(* counts as having the target.  A peer is chosen, unless there is none or *)
(* the node has caught up.                                                 *)
CollectPeers(j, who) ==
    LET ptp == PeersHaveBlock(target, who)
        have == (UNION {ptp[k][2] : k \in {n \in DOMAIN ptp : ptp[n][1] = target}}) \cap connected
    IN  /\ s[j].pc = "collect"
        /\ who \subseteq {p \in connected : Answers(p, Height[target]) # {}}
        /\ peakToPeer' = ptp
        /\ peersChanged' = (peersChanged \/ who # {})
        /\ IF have = {} \/ ~Heavier(target, peak)
           THEN Finish(j)
           ELSE /\ \E p \in have : s' = [s EXCEPT ![j].pc = "proof", ![j].peer = p]
                /\ UNCHANGED <<syncMode, longSync>>
        /\ UNCHANGED <<chain, lock, peerToPeak, guards, target, h, env>>

(* The weight proof does not arrive, or is not accepted.                   *)
ProofFails(j) ==
    /\ s[j].pc = "proof"
    /\ IF s[j].peer \in connected /\ target \in Path(tip[s[j].peer])
       THEN faults < MaxFaults /\ faults' = faults + 1 ELSE UNCHANGED faults
    /\ Disconnected({s[j].peer})
    /\ Finish(j)
    /\ UNCHANGED <<chain, lock, guards, target, h, tip, connects>>

(* get_ses_heights of a chain.                                             *)
SesHeights ==
    [b \in Block |->
        LET hs == {Height[a] : a \in {x \in Path(b) : Ses[x] # NoSes}}
        IN  [k \in 1..Cardinality(hs) |-> CHOOSE n \in hs : Cardinality({m \in hs : m <= n}) = k]]

SesAt(b, n) == Ses[CHOOSE a \in Path(b) : Height[a] = n]

(* WeightProofHandler.get_fork_point compares the summaries of the proof   *)
(* with ours and goes back two from the last one they share.               *)
GetForkPoint ==
    [own \in Block, received \in Block |->
        LET mine == SesHeights[own]
            theirs == SesHeights[received]
            same == {k \in DOMAIN mine : k < Len(theirs)
                        /\ \A n \in 1..k : SesAt(own, mine[n]) = SesAt(received, theirs[n])}
            last == IF same = {} THEN 1 ELSE CHOOSE k \in same : \A n \in same : n <= k
        IN  IF last > 3 THEN mine[last - 2] ELSE 0]

(* The proof was validated while other handlers went on.                   *)
ProofAccepted(j) ==
    /\ s[j].pc = "proof"
    /\ s[j].peer \in connected /\ target \in Path(tip[s[j].peer])
    /\ IF Heavier(target, peak)
       THEN /\ s' = [s EXCEPT ![j].pc = "lock", ![j].fork = IF peak = NoBlock THEN 0 ELSE GetForkPoint[peak, target]]
            /\ syncMode' = TRUE
            /\ UNCHANGED longSync
       ELSE Finish(j)
    /\ UNCHANGED <<chain, lock, store, guards, target, h, env>>

(* The lock, and check_fork_next_block: when the fork point is the one of  *)
(* a proof without a fork, and a peer's next block is on top of our peak,  *)
(* the sync starts there.                                                  *)
LockedForkPoint(f, ps) ==
    LET mine == IF peak = NoBlock THEN <<>> ELSE SesHeights[peak] IN
    IF /\ Len(mine) > 2 /\ f = mine[Len(mine) - 2]
       /\ \E p \in ps \cap connected : \E b \in Answers(p, PeakHeight + 1) : Parent[b] = peak
    THEN PeakHeight ELSE f

SyncLock(j) ==
    LET ps == PeersThatHave(target) \cap connected IN
    /\ s[j].pc = "lock"
    /\ lock = NoPeer
    /\ lock' = j
    /\ LET f == LockedForkPoint(s[j].fork, ps) IN
       s' = [s EXCEPT ![j].pc = "run", ![j].fork = f, ![j].pos = f, ![j].peers = ps]
    /\ UNCHANGED <<chain, store, guards, modes, h, env>>

Ended == <<NoPeer, <<>>>>    \* the None that ends the queue

(* Mutant: a batch that no peer serves is tried again.                     *)
FetchRetries(j) == s' = s

(* No peer serves a batch: the queue is ended.                             *)
FetchFails(j) == s' = [s EXCEPT ![j].queue = Append(@, Ended), ![j].pos = Height[target]]

(* fetch_block_batches: the next batch from a peer that has it; peers that *)
(* do not answer (bad) are dropped on the way.                             *)
SyncFetch(j, bad) ==
    LET t == s[j]
        usable == {p \in t.peers \ bad : Serves(p, t.pos, target)}
        changed == peersChanged \/ bad # {}
    IN  /\ t.pc = "run"
        /\ t.pos < Height[target]
        /\ Len(t.queue) < BufferSize
        /\ bad \subseteq t.peers \cap connected
        /\ bad # {} => faults < MaxFaults
        /\ faults' = faults + (IF bad # {} THEN 1 ELSE 0)
        /\ Dropped(bad)
        /\ IF usable = {}
           THEN /\ FetchFails(j)
                /\ peersChanged' = changed
           ELSE /\ \E p \in usable :
                    s' = [s EXCEPT ![j].queue = Append(@, <<p, Run(tip[p], t.pos, BatchEnd(t.pos, target))>>),
                                   ![j].pos = @ + BatchSize,
                                   ![j].peers = IF changed THEN (PeersThatHave(target) \cap connected) \ bad
                                                ELSE @ \ bad]
                /\ peersChanged' = FALSE
        /\ UNCHANGED <<chain, lock, guards, modes, h, tip, connects>>

(* validate_block_batches: the next batch is added, with the fork point as *)
(* long as the peak has not advanced.                                      *)
SyncValidate(j) ==
    LET t == s[j] IN
    /\ t.pc = "run"
    /\ t.queue # <<>>
    /\ Head(t.queue) # Ended
    /\ BatchConnects(Head(t.queue)[2])
    /\ AddBatch(Head(t.queue)[2])
    /\ s' = [s EXCEPT ![j].queue = Tail(@), ![j].advanced = @ \/ peak' # peak]
    /\ UNCHANGED <<lock, store, guards, modes, h, env>>

(* The end of sync_from_fork_point: everything is validated, nothing more  *)
(* can be fetched, or a batch was refused and its peer is closed.          *)
SyncEnds(j) ==
    LET t == s[j] IN
    /\ t.pc = "run"
    /\ \/ t.queue = <<>> /\ t.pos >= Height[target] /\ Disconnected({})
       \/ t.queue # <<>> /\ Head(t.queue) = Ended /\ Disconnected({})
       \/ /\ t.queue # <<>> /\ Head(t.queue) # Ended
          /\ ~BatchConnects(Head(t.queue)[2])
          /\ Disconnected({Head(t.queue)[1]})
    /\ lock' = NoPeer
    /\ Finish(j)
    /\ UNCHANGED <<chain, guards, target, h, tip, connects, faults>>

(* The rest of _finish_sync, under the lock: clear_sync_info.              *)
FinishClear(j) ==
    /\ s[j].pc = "clear"
    /\ lock = NoPeer
    /\ peakToPeer' = <<>>
    /\ s' = [s EXCEPT ![j] = IdleSync]
    /\ UNCHANGED <<chain, lock, peerToPeak, peersChanged, guards, modes, h, env>>

-----------------------------------------------------------------------------
HandlerStep(i) ==
    AskedTarget(i) \/ BacktrackFetch(i) \/ RespondBlock(i) \/ BatchFirst(i)
        \/ BatchFetch(i) \/ BatchAdd(i) \/ \E raised \in BOOLEAN : HandlerFails(i, raised)

SyncStep(j) ==
    \/ SelectPeak(j) \/ ProofFails(j) \/ ProofAccepted(j) \/ SyncLock(j)
    \/ SyncValidate(j) \/ SyncEnds(j) \/ FinishClear(j)
    \/ \E ps \in SUBSET Peer : CollectPeers(j, ps) \/ SyncFetch(j, ps)

Work == (\E i \in Slot : HandlerStep(i)) \/ \E j \in Syncer : SyncStep(j)

Next ==
    \/ Work
    \/ \E p \in Peer : Connect(p) \/ Disconnect(p) \/ \E b \in Block : PeerTip(p, b)
    \/ \E i \in Slot, p \in Peer : NewPeak(i, p)

(* The event loop runs what is ready, and every request has a timeout.     *)
Spec == Init /\ [][Next]_vars
FairSpec == Spec /\ WF_vars(Work)

-----------------------------------------------------------------------------
TypeOK ==
    /\ stored \subseteq Block /\ peak \in stored \cup {NoBlock}
    /\ lock \in Syncer \cup {NoPeer}
    /\ connected \subseteq Peer /\ tip \in [Peer -> Block]
    /\ \A k \in DOMAIN peakToPeer : peakToPeer[k][1] \in Block /\ peakToPeer[k][2] \subseteq Peer
    /\ peerToPeak \in [Peer -> Block \cup {NoBlock}]
    /\ batchSyncing \subseteq Peer /\ backtrackSyncing \in [Peer -> Nat]
    /\ {syncMode, longSync, peersChanged} \subseteq BOOLEAN
    /\ target \in Block \cup {NoBlock}

(* "Ensure we are only syncing once and not double calling this method"    *)
(* (full_node.py:815): at most one long sync is between its start and      *)
(* _finish_sync, the modes say so, and it alone holds the lock.            *)
OneLongSync ==
    LET running == {j \in Syncer : s[j].pc \notin {"idle", "clear"}} IN
    /\ \A j, k \in running : j = k
    /\ longSync <=> running # {}
    /\ syncMode <=> \E j \in running : s[j].pc \in {"lock", "run"}
    /\ \A j \in Syncer : s[j].pc = "run" <=> lock = j

(* backtrack_syncing counts exactly the backtracks in progress, through    *)
(* failed requests and disconnects: a count left behind would stop batch   *)
(* syncs from that peer for good.                                          *)
BacktracksCounted ==
    \A p \in Peer :
        backtrackSyncing[p] = Cardinality({i \in Slot : h[i].peer = p /\ h[i].pc \in {"backtrack", "respond"}})

(* "Don't trigger multiple batch syncs to the same peer"                   *)
(* (full_node.py:410), and each one in progress is registered.             *)
OneBatchPerPeer ==
    LET batch == {i \in Slot : h[i].pc \in {"first", "batch", "add"}} IN
    /\ \A i, j \in batch : h[i].peer = h[j].peer => i = j
    /\ \A i \in batch : h[i].peer \in batchSyncing

(* "sync target hash is used throughout the sync process and should not be *)
(* deleted" (sync_store.py:79): while a long sync runs its target is only  *)
(* lost when everything is cleared.                                        *)
TargetOnlyCleared ==
    [][longSync /\ target' = target /\ target # NoBlock /\ Known(target) /\ peakToPeer' # <<>>
            => Known(target)']_vars

(* The fork point that a long sync passes to receive_block is a height     *)
(* that our chain and the target share ("Ensures that the fork point does  *)
(* not change", full_node.py:923).                                         *)
ForkPointIsShared ==
    \A j \in Syncer :
        s[j].pc = "run" /\ ~s[j].advanced /\ s[j].queue # <<>> /\ Fresh(Head(s[j].queue)[2]) # 0
            => s[j].fork <= ForkHeight(peak, target)

(* A long sync ends: no wait for a peer, for the lock or on the batch      *)
(* queue is for ever.                                                      *)
LongSyncEnds == longSync ~> ~longSync

(* The handlers of the peaks (finitely many here) return, and give their   *)
(* permits back.                                                           *)
HandlersReturn == []<>(\A i \in Slot : h[i].pc = "idle")

(* The guards against double syncs are exactly the syncs in progress.      *)
SyncGuarded == TypeOK /\ OneLongSync /\ BacktracksCounted /\ OneBatchPerPeer
=============================================================================
