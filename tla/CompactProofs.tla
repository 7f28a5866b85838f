---------------------------- MODULE CompactProofs ---------------------------
(***************************************************************************)
(* Replacing the VDF proofs of stored blocks by compact ones: a full node  *)
(* asks timelords for them (broadcast_uncompact_blocks), takes them from   *)
(* timelords (respond_compact_proof_of_time) and peers (new_compact_vdf,   *)
(* respond_compact_vdf), and rewrites the block in the block store.        *)
(*                                                                         *)
(* A stored block is the set of its fields that are compact.               *)
(***************************************************************************)
EXTENDS Integers, FiniteSets

CONSTANTS CBlock, Field, MaxPeerOffers, MaxReads, MaxFailures

VARIABLES
    db, flag,      \* block column and is_fully_compactified column
    blockCache,    \* block_cache: the version in it, if there is one
    wanted,        \* pending_bluebox_info of the timelord
    accepted,      \* handlers that passed _can_accept_compact_proof
    writer,        \* the holder of compact_proof_lock, if any: handler and the block it read
    seenCompact,   \* seen_compact_proofs
    reader,        \* a get_full_block that waits for the database, if any: block and row
    reads, peerOffers, failures

compVars == <<db, flag, blockCache, wanted, accepted, writer, seenCompact, reader, reads, peerOffers, failures>>

CompInit ==
    /\ db = [b \in CBlock |-> {}] /\ flag = [b \in CBlock |-> FALSE] /\ blockCache = [b \in CBlock |-> {}]
    /\ wanted = {} /\ accepted = {} /\ writer = {} /\ seenCompact = {} /\ reader = {}
    /\ reads = 0 /\ peerOffers = 0 /\ failures = 0

(* What get_full_block or get_header_block_by_height returns.              *)
Version(b) == IF blockCache[b] = {} THEN db[b] ELSE UNION blockCache[b]

(* _needs_compact_proof and _can_accept_compact_proof.                     *)
NeedsCompactProof(b, f) == f \notin Version(b)
CanAccept(b, f) == ~flag[b] /\ NeedsCompactProof(b, f)

(* broadcast_uncompact_blocks: heights that are not compact, and of these  *)
(* the fields whose proof is not.                                          *)
BroadcastUncompact(b, f) ==
    /\ ~flag[b] /\ NeedsCompactProof(b, f) /\ <<b, f>> \notin wanted
    /\ wanted' = wanted \cup {<<b, f>>}
    /\ UNCHANGED <<db, flag, blockCache, accepted, writer, seenCompact, reader, reads, peerOffers, failures>>

(* The timelord picks one (_manage_discriminant_queue_sanitizer) and the   *)
(* node takes its answer: respond_compact_proof_of_time up to the lock.    *)
RespondCompactProofOfTime(b, f) ==
    /\ <<b, f>> \in wanted /\ wanted' = wanted \ {<<b, f>>}
    /\ accepted' = IF CanAccept(b, f) THEN accepted \cup {<<b, f, "timelord">>} ELSE accepted
    /\ UNCHANGED <<db, flag, blockCache, writer, seenCompact, reader, reads, peerOffers, failures>>

(* new_compact_vdf asks the peer that announced it, and                    *)
(* respond_compact_vdf goes up to the lock.                                *)
RespondCompactVdf(b, f) ==
    /\ peerOffers < MaxPeerOffers /\ peerOffers' = peerOffers + 1
    /\ CanAccept(b, f) /\ accepted' = accepted \cup {<<b, f, "peer">>}
    /\ UNCHANGED <<db, flag, blockCache, wanted, writer, seenCompact, reader, reads, failures>>

(* seen_compact_proofs is asked only for what a peer sent.                 *)
DropSeen(h) == h[3] = "peer" /\ <<h[1], h[2]>> \in seenCompact

(* Under compact_proof_lock: the check of seen proofs, and the block is    *)
(* read (and so cached).                                                   *)
TakeLock(h) ==
    /\ writer = {} /\ h \in accepted /\ accepted' = accepted \ {h}
    /\ seenCompact' = IF h[3] = "peer" THEN seenCompact \cup {<<h[1], h[2]>>} ELSE seenCompact
    /\ IF DropSeen(h) THEN UNCHANGED <<writer, blockCache>>
       ELSE /\ writer' = {[h |-> h, read |-> Version(h[1])]}
            /\ blockCache' = [blockCache EXCEPT ![h[1]] = {Version(h[1])}]
    /\ UNCHANGED <<db, flag, wanted, reader, reads, peerOffers, failures>>

IsFullyCompactified(v) == v = Field

(* _replace_proof and replace_proof: the cache first, then the row.  The   *)
(* database may fail.                                                      *)
ReplaceProof(ok) ==
    /\ writer' = {} /\ \E w \in writer :
       LET b == w.h[1]
           v == w.read \cup {w.h[2]} IN
       /\ blockCache' = [blockCache EXCEPT ![b] = {v}]
       /\ db' = IF ok THEN [db EXCEPT ![b] = v] ELSE db
       /\ flag' = IF ok THEN [flag EXCEPT ![b] = IsFullyCompactified(v)] ELSE flag
    /\ failures' = IF ok THEN failures ELSE failures + 1
    /\ failures' <= MaxFailures
    /\ UNCHANGED <<wanted, accepted, seenCompact, reader, reads, peerOffers>>

(* Another get_full_block: a miss reads the row, then caches it.           *)
ReadRow(b) ==
    /\ reads < MaxReads /\ reads' = reads + 1
    /\ reader = {} /\ blockCache[b] = {}
    /\ reader' = {[b |-> b, row |-> db[b]]}
    /\ UNCHANGED <<db, flag, blockCache, wanted, accepted, writer, seenCompact, peerOffers, failures>>

CacheRow ==
    /\ reader' = {}
    /\ \E r \in reader : blockCache' = [blockCache EXCEPT ![r.b] = {r.row}]
    /\ UNCHANGED <<db, flag, wanted, accepted, writer, seenCompact, reads, peerOffers, failures>>

(* The LRU cache drops a block.                                            *)
Evict(b) ==
    /\ blockCache[b] # {} /\ writer = {}
    /\ blockCache' = [blockCache EXCEPT ![b] = {}]
    /\ UNCHANGED <<db, flag, wanted, accepted, writer, seenCompact, reader, reads, peerOffers, failures>>

CompNext ==
    \/ \E b \in CBlock : ReadRow(b) \/ Evict(b)
    \/ \E b \in CBlock, f \in Field :
        BroadcastUncompact(b, f) \/ RespondCompactProofOfTime(b, f) \/ RespondCompactVdf(b, f)
    \/ \E h \in accepted : TakeLock(h)
    \/ \E ok \in BOOLEAN : ReplaceProof(ok)
    \/ CacheRow

(* The scan picks every height sooner or later (ORDER BY RANDOM), the      *)
(* timelord answers, handlers end, and blocks leave the cache.             *)
CompFair ==
    /\ \A b \in CBlock, f \in Field :
        /\ SF_compVars(BroadcastUncompact(b, f)) /\ WF_compVars(RespondCompactProofOfTime(b, f))
        /\ SF_compVars(TakeLock(<<b, f, "timelord">>))
    /\ WF_compVars(\E ok \in BOOLEAN : ReplaceProof(ok))
    /\ WF_compVars(CacheRow) /\ \A b \in CBlock : SF_compVars(Evict(b))

CompSpec == CompInit /\ [][CompNext]_compVars /\ CompFair
-----------------------------------------------------------------------------
CompTypeOK ==
    /\ db \in [CBlock -> SUBSET Field] /\ blockCache \in [CBlock -> SUBSET SUBSET Field]
    /\ wanted \subseteq CBlock \X Field

(* The column by which blocks are chosen for compaction is exact.          *)
FlagIsExact == \A b \in CBlock : flag[b] = (db[b] = Field)

(* Every stored block becomes compact, whatever races and failures happen  *)
(* on the way.                                                             *)
AllCompacted == \A b \in CBlock : <>[](db[b] = Field)
=============================================================================
