----------------------------- MODULE WalletSync -----------------------------
(***************************************************************************)
(* How the wallet follows full nodes: wallet_node.py, wallet_blockchain.py *)
(* and util/ of wallet/ (the caches of answers, the queue, validation).    *)
(*                                                                         *)
(* Blocks form a tree; each full node is at a block of it, answers from    *)
(* there, and is honest.  The handlers of the queue run one at a time and  *)
(* are one action each; only the sync with a second node runs beside them, *)
(* in the steps of SecondarySync.  All full nodes count as synced, and     *)
(* weight proofs as valid.                                                 *)
(***************************************************************************)
EXTENDS Integers, FiniteSets, Sequences, SequencesExt, FiniteSetsExt, Functions

CONSTANTS Blocks, ParentOf, HeightOf, WeightOf,
          Creates, Spends,      \* coins of the wallet, per block
          SyncPeers,
          TrustChoices,         \* what trusted_peers of the config may be
          MaxRestarts,
          MaxWaiting,           \* a node moves only when no more messages wait
          StartBlock,           \* where the nodes start
          WEIGHT_PROOF_RECENT_BLOCKS, LONG_SYNC_THRESHOLD,
          TrustedDepth,         \* 256 in new_peak_wallet
          UntrustedDepth        \* 16 there

VARIABLES trusted,   \* trusted_peers of the config
          at,        \* the block each full node is at
          inbox,     \* new_peak_queue
          w,         \* the wallet, see below
          causes,    \* what happened that the properties exclude, see there
          second,    \* _secondary_peer_sync_task, if there is one
          restarts

syncVars == <<trusted, at, inbox, w, causes, second, restarts>>

NoBlock == "none"
Path[b \in Blocks] == IF HeightOf[b] = 0 THEN {b} ELSE Path[ParentOf[b]] \cup {b}
BlockAt(b, h) == {x \in Path[b] : HeightOf[x] = h}
AllCoins == UNION {Creates[b] : b \in Blocks}

Heights(b, F) == {HeightOf[x] : x \in {y \in Path[b] : F[y]}}
HeightOr0(S) == IF S = {} THEN 0 ELSE CHOOSE h \in S : TRUE

(* A coin's state on the chain of b, with 0 for None.                      *)
CoinState(b, c) ==
    [coin |-> c,
     conf |-> HeightOr0(Heights(b, [x \in Blocks |-> c \in Creates[x]])),
     spent |-> HeightOr0(Heights(b, [x \in Blocks |-> c \in Spends[x]]))]

last_change_height_cs(s) == IF s.spent # 0 THEN s.spent ELSE s.conf

(* w: recs (the coin store), fin (finished_sync_up_to), peak, blocks       *)
(* (_block_records), hash (_height_to_hash), wp (the last block of         *)
(* synced_weight_proof), synced (synced_peers), conn (connections), subs   *)
(* (the nodes that were asked for updates), local (local_node_synced),     *)
(* valid and cached (PeerRequestCache: _states_validated and _blocks),     *)
(* race (race_cache), ready (_sub_slot_iters and _difficulty have values), *)
(* ok (the last result), failed (an exception).                            *)
NewWallet ==
    [recs |-> <<>>, fin |-> 0, peak |-> NoBlock, blocks |-> {}, hash |-> <<>>, wp |-> NoBlock,
     synced |-> {}, conn |-> {}, subs |-> {}, local |-> FALSE,
     valid |-> [p \in SyncPeers |-> {}], cached |-> [p \in SyncPeers |-> <<>>],
     race |-> {}, ready |-> TRUE, ok |-> TRUE, failed |-> FALSE]

With(f, x, v) == [y \in DOMAIN f \cup {x} |-> IF y = x THEN v ELSE f[y]]
Least(a, b) == IF a < b THEN a ELSE b
Most(a, b) == IF a < b THEN b ELSE a

(* on_disconnect.                                                          *)
Closed(W, p) ==
    [W EXCEPT !.conn = @ \ {p}, !.subs = @ \ {p}, !.synced = @ \ {p}, !.valid[p] = {}, !.cached[p] = <<>>,
              !.local = @ /\ p \notin trusted]

-----------------------------------------------------------------------------
(* peer_request_cache.py.                                                  *)

clear_after_height(W, ps, h) ==
    LET states(p) == {s \in W.valid[p] : s.conf # 0 /\ last_change_height_cs(s) <= h}
        headers(p) == Restrict(W.cached[p], {k \in DOMAIN W.cached[p] : k <= h}) IN
    [W EXCEPT !.valid = [p \in SyncPeers |-> IF p \in ps THEN states(p) ELSE @[p]],
              !.cached = [p \in SyncPeers |-> IF p \in ps THEN headers(p) ELSE @[p]]]

can_use_peer_request_cache(W, p, s, fork) ==
    s \in W.valid[p] /\ s.conf # 0 /\ (fork >= 0 => s.conf <= fork /\ s.spent <= fork)

-----------------------------------------------------------------------------
(* wallet_blockchain.py.                                                   *)

set_finished_sync_up_to(W, h) == [W EXCEPT !.fin = Most(@, h)]

PeakHeight(W) == IF W.peak = NoBlock THEN 0 ELSE HeightOf[W.peak]

RecentChain(b) == {x \in Path[b] : HeightOf[x] > HeightOf[b] - WEIGHT_PROOF_RECENT_BLOCKS}

new_weight_proof(W, b) ==
    LET recent == RecentChain(b) IN
    IF W.peak # NoBlock /\ WeightOf[b] <= WeightOf[W.peak] THEN W
    ELSE [W EXCEPT !.wp = b, !.peak = b, !.ready = TRUE, !.blocks = @ \cup recent,
                   !.hash = [h \in DOMAIN W.hash \cup {HeightOf[x] : x \in recent} |->
                                IF BlockAt(b, h) \cap recent # {} THEN CHOOSE x \in BlockAt(b, h) : TRUE ELSE W.hash[h]]]

(* receive_block for a block that extends a known one; find_fork_point_in_ *)
(* chain is the last height of both chains.                                *)
receive_block(W, b) ==
    LET common == Max({0} \cup {HeightOf[x] : x \in Path[b] \cap Path[W.peak]})
        gone == (common + 1)..HeightOf[W.peak]
        news == {x \in Path[b] : HeightOf[x] > common}
        V == [W EXCEPT !.blocks = @ \cup {b}] IN
    IF W.failed \/ b \in W.blocks \/ (HeightOf[b] > 0 /\ ParentOf[b] \notin W.blocks) THEN W
    ELSE IF ~W.ready THEN [W EXCEPT !.failed = TRUE]
    ELSE IF W.peak = NoBlock THEN [V EXCEPT !.peak = b, !.hash = With(@, HeightOf[b], b)]
    ELSE IF WeightOf[b] <= WeightOf[W.peak] THEN V
    ELSE IF ~ gone \subseteq DOMAIN W.hash \/ ~ news \subseteq V.blocks THEN [V EXCEPT !.failed = TRUE]
    ELSE [V EXCEPT !.peak = b,
                   !.hash = [h \in (DOMAIN W.hash \ gone) \cup {HeightOf[x] : x \in news} |->
                                IF h > common THEN CHOOSE x \in BlockAt(b, h) : TRUE ELSE W.hash[h]]]

-----------------------------------------------------------------------------
(* The coin store, see WalletStores.                                       *)

(* new_coin_state.                                                         *)
ApplyCoinState(W, s) ==
    IF s.conf = 0 THEN W
    ELSE IF s.coin \notin DOMAIN W.recs
         THEN [W EXCEPT !.recs = With(@, s.coin, [conf |-> s.conf, spent |-> s.spent])]
    ELSE IF s.spent # 0 THEN [W EXCEPT !.recs[s.coin].spent = s.spent]
    ELSE W

(* perform_atomic_rollback.                                                *)
perform_atomic_rollback(W, h, ps) ==
    LET kept == {c \in DOMAIN W.recs : W.recs[c].conf <= h} IN
    clear_after_height([W EXCEPT !.fin = IF h >= 0 THEN h ELSE @,
                                 !.recs = [c \in kept |-> IF W.recs[c].spent > h THEN [W.recs[c] EXCEPT !.spent = 0]
                                                          ELSE W.recs[c]]], ps, h)

-----------------------------------------------------------------------------
(* Validation of what an untrusted node says.                              *)

(* A block is in the chain that the wallet holds to be the best one.  What *)
(* lies before the recent blocks is fetched and connected to them.         *)
validate_block_inclusion(W, b) ==
    \/ HeightOf[b] \in DOMAIN W.hash /\ W.hash[HeightOf[b]] = b /\ b \in W.blocks
    \/ W.wp # NoBlock /\ b \in Path[W.wp]

(* The header at height h: from the cache, or from the node.               *)
Header(W, p, h, fresh) == IF ~fresh /\ h \in DOMAIN W.cached[p] THEN {W.cached[p][h]} ELSE BlockAt(at[p], h)

(* The verdict, and the headers that are in the cache afterwards.  A node  *)
(* gives no proofs for a block that is not in its chain.                   *)
Verdict(v, cached) == [v |-> v, cached |-> cached]

(* The coin was spent, as far as the node says, at height h.               *)
JudgeSpent(W, p, h, cached) ==
    LET gone == IF h \in DOMAIN cached THEN {cached[h]} ELSE BlockAt(at[p], h) IN
    IF gone = {} THEN Verdict("raise", cached)
    ELSE LET g == CHOOSE x \in gone : TRUE IN
         Verdict(IF g \notin Path[at[p]] THEN "close" ELSE IF validate_block_inclusion(W, g) THEN "valid" ELSE "no",
                 With(cached, h, g))

(* The coin is not spent; the wallet may have seen it spent at height h.   *)
JudgeUnspent(W, m, h, was, cached) ==
    IF ~validate_block_inclusion(W, m) THEN Verdict("no", cached)
    ELSE IF h = 0 THEN Verdict("valid", cached)
    ELSE IF was = {} THEN Verdict("raise", cached)
    ELSE LET x == CHOOSE y \in was : TRUE IN
         Verdict(IF validate_block_inclusion(W, x) THEN "valid" ELSE "no", With(cached, h, x))

(* The coin was made in block m.                                           *)
JudgeMade(W, p, s, m, cached) ==
    IF m \notin Path[at[p]] THEN Verdict("close", cached)
    ELSE IF s.spent # 0 THEN JudgeSpent(W, p, s.spent, cached)
    ELSE LET h == IF s.coin \in DOMAIN W.recs THEN W.recs[s.coin].spent ELSE 0 IN
         JudgeUnspent(W, m, h, BlockAt(at[p], h), cached)

validate_received_state_from_peer(W, p, s, fork) ==
    LET known == s.coin \in DOMAIN W.recs
        cur == W.recs[s.coin]
        made == Header(W, p, IF s.conf = 0 THEN cur.conf ELSE s.conf, s.conf = 0)
        judge(m) == JudgeMade(W, p, s, m, With(W.cached[p], HeightOf[m], m)) IN
    IF can_use_peer_request_cache(W, p, s, fork) THEN Verdict("valid", W.cached[p])
    ELSE IF known /\ cur.conf = s.conf /\ cur.spent = s.spent THEN Verdict("valid", W.cached[p])
    ELSE IF s.conf = 0 /\ ~known THEN Verdict("no", W.cached[p])
    ELSE IF made = {} THEN Verdict("raise", W.cached[p])
    ELSE judge(CHOOSE x \in made : TRUE)

(* The states of a chunk one after the other; an exception drops them all. *)
Note(r, W, p, s, verdict) ==
    [W |-> IF verdict = "valid" THEN [W EXCEPT !.valid[p] = @ \cup {s}]
           ELSE IF verdict = "close" THEN Closed(W, p) ELSE W,
     good |-> IF verdict = "valid" THEN Append(r.good, s) ELSE r.good,
     raised |-> verdict = "raise"]

NoteVerdict(r, p, s, v) == Note(r, [r.W EXCEPT !.cached[p] = v.cached], p, s, v.v)

Validated(W, p, states, fork) ==
    FoldLeft(LAMBDA r, s :
                 IF r.raised \/ p \notin r.W.conn THEN r
                 ELSE NoteVerdict(r, p, s, validate_received_state_from_peer(r.W, p, s, fork)),
             [W |-> W, good |-> <<>>, raised |-> FALSE], states)

ByChange(S) == SetToSortSeq(S, LAMBDA a, b : last_change_height_cs(a) < last_change_height_cs(b))

FinishUpTo(W, good, finish) ==
    IF finish /\ good # <<>> THEN set_finished_sync_up_to(W, last_change_height_cs(Last(good)) - 1) ELSE W

Apply(W, good, finish) == FinishUpTo(FoldLeft(ApplyCoinState, W, good), good, finish)

(* What comes before the states are looked at: rollback or cache.          *)
Forked(W, p, fork, height) ==
    IF p \in trusted /\ fork >= 0 /\ fork # height - 1 THEN perform_atomic_rollback(W, fork, {p})
    ELSE IF fork >= 0 THEN clear_after_height(W, {p}, fork) ELSE W

Raced(W, S, hash) == IF hash = NoBlock THEN W ELSE [W EXCEPT !.race = @ \cup ({hash} \X S)]

ApplyValidated(r, finish) == IF r.raised THEN r.W ELSE Apply(r.W, r.good, finish)

(* receive_state_from_peer after rollback or cache.                        *)
TakeStates(W, p, S, fork, hash, finish) ==
    IF S = {} \/ p \notin W.conn THEN W
    ELSE IF p \in trusted THEN Apply(W, ByChange(S), TRUE)
    ELSE ApplyValidated(Validated(Raced(W, S, hash), p, ByChange(S), fork), finish)

Answered(W, p) == [W EXCEPT !.ok = p \in W.conn]

receive_state_from_peer(W, p, S, fork, height, hash, finish) ==
    Answered(TakeStates(Forked(W, p, fork, height), p, S, fork, hash, finish), p)

-----------------------------------------------------------------------------
(* Synchronisation with one node.                                          *)

(* What a node answers to subscriptions to all puzzle hashes.              *)
Answer(p) == {s \in {CoinState(at[p], c) : c \in AllCoins} : s.conf # 0}

is_new_state_update(s, fork) == s.spent >= fork \/ s.conf >= fork

FinishLongSync(W, p, target) ==
    IF ~W.ok THEN W
    ELSE [set_finished_sync_up_to(W, target) EXCEPT !.synced = @ \cup {p}, !.local = @ \/ p \in trusted]

(* long_sync with rollback.  Coins are found by puzzle hash and once more  *)
(* by their ids.                                                           *)
SyncById(W, p, target) ==
    IF ~W.ok THEN W
    ELSE FinishLongSync(receive_state_from_peer(W, p, {s \in Answer(p) : s.coin \in DOMAIN W.recs},
                                                -1, -1, NoBlock, FALSE), p, target)

long_sync(W, p, target, fork) ==
    SyncById(receive_state_from_peer([perform_atomic_rollback(W, fork, SyncPeers) EXCEPT !.subs = @ \cup {p}],
                                     p, {s \in Answer(p) : is_new_state_update(s, fork)}, -1, -1, NoBlock, TRUE),
             p, target)

(* wallet_short_sync_backtrack: the blocks from the first unknown one on.  *)
wallet_short_sync_backtrack(W, hb) ==
    LET known == {HeightOf[x] : x \in {y \in Path[hb] : y # hb /\ y \in W.blocks}}
        fork == IF known # {} THEN Max(known) ELSE IF HeightOf[hb] = 0 THEN 0 ELSE -1
        new == SetToSortSeq({x \in Path[hb] : HeightOf[x] > fork \/ x = hb}, LAMBDA a, b : HeightOf[a] < HeightOf[b])
        V == IF fork < PeakHeight(W) THEN perform_atomic_rollback(W, fork, SyncPeers) ELSE W IN
    [fork |-> fork,
     W |-> IF W.peak # NoBlock /\ WeightOf[hb] < WeightOf[W.peak] THEN [V EXCEPT !.failed = TRUE]
           ELSE FoldLeft(receive_block, V, new)]

(* Mutant: the last height is left out.                                    *)
ApplyRaceCacheShort(W, p, from, to) ==
    FoldLeft(LAMBDA V, h :
                 LET S == {r[2] : r \in {x \in V.race : h \in DOMAIN V.hash /\ x[1] = V.hash[h]}} IN
                 IF S = {} THEN V ELSE receive_state_from_peer(V, p, S, -1, -1, NoBlock, FALSE),
             W, [i \in 1..Most(to - from - 1, 0) |-> from + i])

(* For every new height, the states that came before its block.            *)
ApplyRaceCache(W, p, from, to) ==
    FoldLeft(LAMBDA V, h :
                 IF V.failed THEN V
                 ELSE IF h \notin DOMAIN V.hash THEN [V EXCEPT !.failed = TRUE]
                 ELSE LET S == {r[2] : r \in {x \in V.race : x[1] = V.hash[h]}} IN
                      IF S = {} THEN V ELSE receive_state_from_peer(V, p, S, -1, -1, NoBlock, FALSE),
             W, [i \in 1..Most(to - from, 0) |-> from + i])

(* The end of new_peak_wallet.                                             *)
Finished(W, p, np) == IF ~W.failed /\ p \in W.synced THEN set_finished_sync_up_to(W, np.height) ELSE W

(* The first short sync with a node asks it for everything.                *)
Subscribed(W, p) == [W EXCEPT !.synced = IF W.ok THEN @ \cup {p} ELSE @]
Subscribe(W, p) ==
    Subscribed(receive_state_from_peer([W EXCEPT !.subs = @ \cup {p}], p, Answer(p), -1, HeightOf[at[p]], at[p], FALSE), p)

CatchUp(W, p, fork, np) == Finished(ApplyRaceCache(W, p, fork, np.height), p, np)

FollowPeak(W, p, np, fork, heavier) ==
    IF W.failed \/ (p \in W.synced /\ ~heavier) THEN W
    ELSE CatchUp(IF p \in W.synced THEN W ELSE Subscribe(W, p), p, fork, np)

ShortSync(W, p, np, hb) ==
    LET back == wallet_short_sync_backtrack(W, hb) IN
    IF W.peak = NoBlock \/ np.weight > WeightOf[W.peak] THEN FollowPeak(back.W, p, np, back.fork, TRUE)
    ELSE FollowPeak(W, p, np, np.height - 1, FALSE)

TrustedPeak(W, p, np, hb) ==
    LET others == IF Cardinality(W.conn) > 1 THEN W.conn \ trusted ELSE {}
        V == FoldSet(LAMBDA q, acc : Closed(acc, q), [W EXCEPT !.peak = hb], others) IN
    Finished(IF p \in W.synced THEN V ELSE long_sync(V, p, np.height, Most(0, W.fin - TrustedDepth)), p, np)

(* get_fork_point of the weight proof handler.                             *)
get_fork_point(old, new) ==
    LET first(b) == Max({0, HeightOf[b] + 1 - WEIGHT_PROOF_RECENT_BLOCKS})
        right == IF first(new) >= first(old) THEN new ELSE old
        common == RecentChain(old) \cap RecentChain(new) IN
    IF BlockAt(right, first(right)) \subseteq common THEN Max({HeightOf[x] : x \in common}) ELSE 0

far_behind(W, np) == np.height - PeakHeight(W) > LONG_SYNC_THRESHOLD

ForkPoint(W, hb, from) == IF W.wp = NoBlock THEN from ELSE Least(from, get_fork_point(W.wp, hb))

AgainWithProof(W, hb) == IF W.wp = NoBlock \/ WeightOf[hb] > WeightOf[W.wp] THEN new_weight_proof(W, hb) ELSE W

(* The first sync, or one after a gap.                                     *)
PrimarySync(W, p, np, hb) ==
    Finished(AgainWithProof(long_sync(new_weight_proof(W, hb), p, np.height,
                                      ForkPoint(W, hb, Most(0, W.fin - UntrustedDepth))), hb), p, np)

Settled(W, p) == IF W.failed THEN Closed([W EXCEPT !.failed = FALSE], p) ELSE W

-----------------------------------------------------------------------------
(* Actions.                                                                *)

NewPeak(p, b) == [type |-> "peak", peer |-> p, height |-> HeightOf[b], weight |-> WeightOf[b], hash |-> b,
                  fork |-> -1, items |-> {}]
Update(p, b, fork, S) == [type |-> "update", peer |-> p, height |-> HeightOf[b], weight |-> WeightOf[b], hash |-> b,
                          fork |-> fork, items |-> S]

SyncInit ==
    /\ at = [p \in SyncPeers |-> StartBlock]
    /\ inbox = {}
    /\ w = NewWallet
    /\ causes = {}
    /\ second = {}
    /\ trusted \in TrustChoices
    /\ restarts = 0

(* on_connect, and the peak the node sends then.                           *)
Connect(p) ==
    /\ p \notin w.conn
    /\ p \in trusted \/ ~w.local
    /\ w' = [w EXCEPT !.conn = @ \cup {p}]
    /\ inbox' = inbox \cup {NewPeak(p, at[p])}
    /\ UNCHANGED <<trusted, at, causes, second, restarts>>

(* What the wallet is told when a node goes from one block to another:     *)
(* the coins it rolled back, and those that the new blocks touch.          *)
Changes(old, new) ==
    LET fork == Max({HeightOf[x] : x \in Path[old] \cap Path[new]})
        before(c) == CoinState(old, c)
        undone == {c \in AllCoins : before(c).conf > fork \/ before(c).spent > fork}
        touched == UNION {Creates[x] \cup Spends[x] : x \in Path[new] \ Path[old]} IN
    {IF before(c).conf > fork THEN [coin |-> c, conf |-> 0, spent |-> 0] ELSE [before(c) EXCEPT !.spent = 0] : c \in undone}
        \cup {CoinState(new, c) : c \in touched}

(* The node's new peak: update_wallets first, then new_peak_wallet.        *)
NodeMoves(p, b) ==
    LET S == Changes(at[p], b)
        fork == Max({HeightOf[x] : x \in Path[at[p]] \cap Path[b]}) IN
    /\ WeightOf[b] > WeightOf[at[p]]
    /\ Cardinality(inbox) <= MaxWaiting
    /\ at' = [at EXCEPT ![p] = b]
    /\ inbox' = IF p \notin w.conn THEN inbox
                ELSE inbox \cup {NewPeak(p, b)} \cup (IF p \in w.subs /\ S # {} THEN {Update(p, b, fork, S)} ELSE {})
    /\ UNCHANGED <<trusted, w, causes, second, restarts>>

(* NewPeakItem.__lt__: updates before peaks, then by height.               *)
Precedes(m, n) == IF m.type # n.type THEN m.type = "update" ELSE m.height < n.height

IsNext(m) == m \in inbox /\ \A n \in inbox : ~Precedes(n, m)

state_update_received(m) ==
    /\ IsNext(m) /\ m.type = "update"
    /\ w' = receive_state_from_peer(w, m.peer, m.items, m.fork, m.height, m.hash, FALSE)
    /\ inbox' = inbox \ {m}
    /\ causes' = causes \cup (IF m.hash \in Path[at[m.peer]] THEN {} ELSE {"stale"})
    /\ UNCHANGED <<trusted, at, second, restarts>>

(* The start of new_peak_wallet, for message m.  The header is the one the *)
(* node has at that height now.                                            *)
Lighter(m) == w.peak # NoBlock /\ m.weight < WeightOf[w.peak]
HeaderNow(m) == IF m.peer \in w.conn THEN BlockAt(at[m.peer], m.height) ELSE {}
NeedsProof(m) == (m.peer \notin w.synced \/ far_behind(w, m)) /\ m.height >= WEIGHT_PROOF_RECENT_BLOCKS
HasTrusted == w.conn \cap trusted # {}
IsPrimary(m) == far_behind(w, m) \/ w.synced = {}

Take(m) == IsNext(m) /\ m.type = "peak" /\ inbox' = inbox \ {m} /\ UNCHANGED <<trusted, at, restarts>>

(* A lighter peak, or one that a trusted node makes unimportant.           *)
DiscardPeak(m) ==
    /\ Take(m)
    /\ Lighter(m) \/ (HeaderNow(m) # {} /\ m.peer \notin trusted /\ NeedsProof(m) /\ HasTrusted)
    /\ UNCHANGED <<w, causes, second>>

(* No answer to the request for the header.                                *)
CloseSilent(m) ==
    /\ Take(m)
    /\ ~Lighter(m) /\ HeaderNow(m) = {}
    /\ w' = Closed(w, m.peer)
    /\ UNCHANGED <<causes, second>>

PeakOfTrusted(m) ==
    /\ Take(m)
    /\ ~Lighter(m) /\ m.peer \in trusted
    /\ \E hb \in HeaderNow(m) : w' = Settled(TrustedPeak(w, m.peer, m, hb), m.peer)
    /\ UNCHANGED <<causes, second>>

PeakFirst(m) ==
    /\ Take(m)
    /\ ~Lighter(m) /\ m.peer \notin trusted /\ NeedsProof(m) /\ ~HasTrusted /\ IsPrimary(m)
    /\ \E hb \in HeaderNow(m) : w' = Settled(PrimarySync(w, m.peer, m, hb), m.peer)
    /\ causes' = causes \cup (IF at[m.peer] # m.hash THEN {"overtaken"} ELSE {})
                       \cup (IF w'.blocks = {} THEN {"blank"} ELSE {})
    /\ UNCHANGED second

(* One more node is asked beside: the task starts, if there is none.       *)
PeakSecond(m) ==
    /\ Take(m)
    /\ ~Lighter(m) /\ m.peer \notin trusted /\ NeedsProof(m) /\ ~HasTrusted /\ ~IsPrimary(m)
    /\ \E hb \in HeaderNow(m) :
          /\ w' = new_weight_proof(w, hb)
          /\ second' = IF second # {} THEN second
                       ELSE {[peer |-> m.peer, tip |-> hb, target |-> m.height, fork |-> ForkPoint(w, hb, 0),
                              step |-> "ask", states |-> <<>>]}
          /\ causes' = causes \cup (IF at[m.peer] # m.hash THEN {"overtaken"} ELSE {})
                             \cup (IF w.peak \notin Path[hb] THEN {"switched"} ELSE {})

PeakShort(m) ==
    /\ Take(m)
    /\ ~Lighter(m) /\ m.peer \notin trusted /\ ~NeedsProof(m)
    /\ \E hb \in HeaderNow(m) :
          /\ w' = Settled(ShortSync(w, m.peer, m, hb), m.peer)
          /\ causes' = causes
                \cup (IF w.peak # NoBlock /\ w'.peak # w.peak
                            /\ wallet_short_sync_backtrack(w, hb).fork > Max({HeightOf[x] : x \in Path[hb] \cap Path[w.peak]})
                      THEN {"revisited"} ELSE {})
                \cup (IF w.peak # NoBlock /\ w.blocks = {} THEN {"blank"} ELSE {})
                \cup (IF w'.wp # NoBlock /\ w'.wp \notin Path[w'.peak] THEN {"abandoned"} ELSE {})
    /\ UNCHANGED second

(* The secondary sync: long_sync without rollback, beside the handlers.    *)
(* It asks, validates, and applies.                                        *)
SecondAsks ==
    \E t \in second :
        /\ t.step = "ask"
        /\ IF t.peer \in w.conn
           THEN /\ second' = {[t EXCEPT !.step = "validate", !.tip = at[t.peer],
                               !.states = ByChange({s \in Answer(t.peer) : is_new_state_update(s, t.fork)})]}
                /\ w' = [w EXCEPT !.subs = @ \cup {t.peer}]
           ELSE second' = {} /\ w' = w
        /\ causes' = causes \cup (IF at[t.peer] # t.tip THEN {"overtaken"} ELSE {})
        /\ UNCHANGED <<trusted, at, inbox, restarts>>

SecondValidates ==
    \E t \in second :
        /\ t.step = "validate"
        /\ LET r == Validated(w, t.peer, t.states, -1) IN
           /\ w' = r.W
           /\ second' = IF t.peer \notin r.W.conn THEN {}
                        ELSE {[t EXCEPT !.step = "apply", !.tip = w.peak, !.states = IF r.raised THEN <<>> ELSE r.good]}
        /\ causes' = causes \cup (IF t.tip \notin Path[at[t.peer]] THEN {"stale"} ELSE {})
        /\ UNCHANGED <<trusted, at, inbox, restarts>>

SecondApplies ==
    \E t \in second :
        /\ t.step = "apply"
        /\ w' = FinishLongSync([Apply(w, t.states, TRUE) EXCEPT !.ok = t.peer \in w.conn], t.peer, t.target)
        /\ second' = {}
        /\ causes' = causes \cup (IF t.tip \notin Path[w.peak] THEN {"interleaved"} ELSE {})
        /\ UNCHANGED <<trusted, at, inbox, restarts>>

(* The wallet stops and starts: coins, peak, proof and finished height are *)
(* in the database.  WalletBlockchain.create gives the proof to            *)
(* new_weight_proof, which has records only for a proof above the peak.    *)
RestartSync ==
    /\ restarts < MaxRestarts
    /\ restarts' = restarts + 1
    /\ w' = [NewWallet EXCEPT !.recs = w.recs, !.fin = w.fin, !.peak = w.peak, !.wp = w.wp, !.ready = w.wp = NoBlock]
    /\ inbox' = {} /\ second' = {}
    /\ UNCHANGED <<trusted, at, causes>>

SyncNext ==
    \/ RestartSync
    \/ \E p \in SyncPeers : Connect(p)
    \/ \E p \in SyncPeers, b \in Blocks : NodeMoves(p, b)
    \/ \E m \in inbox : state_update_received(m)
    \/ \E m \in inbox : DiscardPeak(m)
    \/ \E m \in inbox : CloseSilent(m)
    \/ \E m \in inbox : PeakOfTrusted(m)
    \/ \E m \in inbox : PeakFirst(m)
    \/ \E m \in inbox : PeakSecond(m)
    \/ \E m \in inbox : PeakShort(m)
    \/ SecondAsks
    \/ SecondValidates
    \/ SecondApplies

SyncSpec == SyncInit /\ [][SyncNext]_syncVars

-----------------------------------------------------------------------------
(* Properties.  They leave out histories in which one of these happened,   *)
(* after each of which the wallet does hold wrong coins:                   *)
(*   "overtaken"    the node moved on between the weight proof and the     *)
(*                  subscription, and its newest states were refused;      *)
(*   "stale"        an answer was about a branch the node has left;        *)
(*   "blank"        a peak came before the first blocks after a restart;   *)
(*   "revisited"    a reorg back to blocks the wallet has records of;      *)
(*   "abandoned"    the weight proof is of a branch that was left;         *)
(*   "switched"     a second node's proof moved the peak to its branch;    *)
(*   "interleaved"  states of a second node were applied after a rollback. *)

Quiet(p) == p \in w.synced /\ second = {} /\ \A m \in inbox : m.peer # p
CoinsOf(b) == [c \in {x \in AllCoins : CoinState(b, x).conf # 0} |->
                 [conf |-> CoinState(b, c).conf, spent |-> CoinState(b, c).spent]]

Matches(c) == /\ w.recs[c].conf = CoinState(w.peak, c).conf
              /\ w.recs[c].spent # 0 => w.recs[c].spent = CoinState(w.peak, c).spent

(* A wallet whose only node is trusted has exactly the coins of that       *)
(* node's chain once all its messages are handled, through reorgs and      *)
(* restarts.                                                               *)
FollowsTrusted ==
    causes = {} => \A p \in trusted : Quiet(p) /\ w.conn = {p} => w.recs = CoinsOf(at[p])

(* A wallet without a trusted node that has nothing left to do has exactly *)
(* the coins of its peak, if a node it is synced with is there too: no     *)
(* update was refused for good because it overtook its block.              *)
FollowsPeak ==
    trusted = {} /\ causes = {} /\ inbox = {} /\ second = {} /\ (\E p \in w.synced : at[p] = w.peak)
        => w.recs = CoinsOf(w.peak)

(* At any time, a wallet without a trusted node has only coins and spends  *)
(* that are in the chain of its peak, whatever nodes on other branches and *)
(* late updates say.                                                       *)
NoPhantoms == trusted = {} /\ causes = {} /\ w.peak # NoBlock => \A c \in DOMAIN w.recs : Matches(c)

(* "Rollback is handled in wallet_short_sync_backtrack for untrusted       *)
(* peers" (receive_state_from_peer): also after a reorg back to blocks     *)
(* that were followed before, no coin of the other branch is left.         *)
RollbackIsHandled ==
    trusted = {} /\ causes \subseteq {"revisited"} /\ w.peak # NoBlock => \A c \in DOMAIN w.recs : Matches(c)

(* The wallet has the coins of the chain it follows, and no others.        *)
WalletFollows == FollowsTrusted /\ FollowsPeak /\ NoPhantoms
=============================================================================
