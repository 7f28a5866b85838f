------------------------------ MODULE Consensus ------------------------------
(***************************************************************************)
(* The functions of consensus/ on a chain of block records: sub-epochs and *)
(* their summaries, the adjustment of difficulty and sub-slot iterations,  *)
(* the challenge of a block and the start of its signage point's VDF.      *)
(*                                                                         *)
(* A chain is the sequence of its records, the one of height h at h + 1.   *)
(* A hash is a pair that names what was hashed: <<"blk", h>> the reward    *)
(* chain block or challenge block of height h, <<"slot", n>> and           *)
(* <<"icc", n>> the reward and infused chain's end of the n-th sub-slot of *)
(* the chain.  On the challenge chain a sub-slot is just n.  An element of *)
(* a VDF is where it was output.  "while not P(curr): curr = prev" is the  *)
(* last block with P.                                                      *)
(***************************************************************************)
EXTENDS PotIterations, Sequences, SequencesExt, FiniteSets, FiniteSetsExt

CONSTANTS
    MAX_SUB_SLOT_BLOCKS, SUB_EPOCH_BLOCKS, EPOCH_BLOCKS, SUB_SLOT_ITERS_STARTING, DIFFICULTY_STARTING,
    DIFFICULTY_CHANGE_MAX_FACTOR, SIGNIFICANT_BITS, SUB_SLOT_TIME_TARGET, SLOT_BLOCKS_TARGET

(* What default_constants.py says of them, and the room that               *)
(* SecondToLastTxBlock needs between two epochs.                           *)
ASSUME ChainConstants ==
    /\ 2 * MAX_SUB_SLOT_BLOCKS < SUB_EPOCH_BLOCKS /\ EPOCH_BLOCKS % SUB_EPOCH_BLOCKS = 0
    /\ 4 * MAX_SUB_SLOT_BLOCKS + 2 * MIN_BLOCKS_PER_CHALLENGE_BLOCK < EPOCH_BLOCKS

Default == <<"default", 0>>     \* ClassgroupElement.get_default_element()
NoHash == <<"none", 0>>         \* None, where a hash or a VDF's challenge may be
NoVdf == [ch |-> NoHash, it |-> 0, len |-> 0, from |-> NoHash]

LastWith(c, P(_)) == LET at[i \in DOMAIN c] == IF P(c[i]) THEN c[i] ELSE at[i - 1] IN at[Len(c)]
Upto(c, h) == SubSeq(c, 1, h + 1)

(* finished_challenge_slot_hashes; the genesis block has GENESIS_CHALLENGE.*)
SlotIds(b) == IF b.height = 0 THEN <<0>> ELSE [i \in DOMAIN b.fss |-> b.fss[i].id]
first_in_sub_slot(b) == b.height = 0 \/ b.fss # <<>>
SlotStart(c) == LastWith(c, first_in_sub_slot)
CurrentSlot(c) == Last(SlotIds(SlotStart(c)))
SlotBefore(c) ==
    LET ids == UNION {Range(SlotIds(c[i])) : i \in DOMAIN c} IN Max(ids \ {Max(ids)})

(* finished_infused_challenge_slot_hashes.                                 *)
IccIds(b) == LET with == SelectSeq(b.fss, LAMBDA s : s.icc # NoVdf) IN [i \in DOMAIN with |-> with[i].id]
-----------------------------------------------------------------------------
height_can_be_first_in_epoch(h) == (h - (h % SUB_EPOCH_BLOCKS)) % EPOCH_BLOCKS = 0

(* Whether a block of c at heights from..to includes a summary.            *)
SummaryIn(c, from, to) == \E h \in from..to : c[h + 1].ses # {}

(* can_finish_sub_and_full_epoch, for a block of height h on chain c;      *)
(* its second result is CanFinishEpoch.                                    *)
can_finish_sub_epoch(c, h, deficit, included) ==
    /\ h >= SUB_EPOCH_BLOCKS - 1
    /\ deficit = 0 /\ ~included
    /\ (h + 1) % SUB_EPOCH_BLOCKS > 1 => ~SummaryIn(c, (h - 1) - ((h - 1) % SUB_EPOCH_BLOCKS), h - 1)

CanFinishEpoch(c, h, deficit, included) ==
    can_finish_sub_epoch(c, h, deficit, included) /\ height_can_be_first_in_epoch(h + 1)

(* _get_second_to_last_transaction_block_in_previous_epoch.                *)
SecondToLastTxBlock(c) ==
    LET ahead == Last(c).height + 2 * MAX_SUB_SLOT_BLOCKS + MIN_BLOCKS_PER_CHALLENGE_BLOCK + 5
        surpassed == ahead - (ahead % EPOCH_BLOCKS) - EPOCH_BLOCKS
        started == Min({h \in surpassed..Last(c).height : c[h + 1].ses # {}})
        txs == {h \in 0..(started - 1) : c[h + 1].tx} IN
    IF surpassed = 0 THEN c[1] ELSE c[Max(txs \ {Max(txs)}) + 1]

(* The last transaction block before the signage point.                    *)
LastTxBlockBefore(c, sp_total) == LastWith(c, LAMBDA b : b.tx /\ b.ti <= sp_total)

BitLength(x) == CHOOSE n \in 0..31 : x < 2 ^ n /\ (n = 0 \/ 2 ^ (n - 1) <= x)

RoundDown(x, n) == x - (x % n)

truncate_to_significant_bits(x) ==
    LET bits == BitLength(x) IN IF SIGNIFICANT_BITS > bits THEN x ELSE RoundDown(x, 2 ^ (bits - SIGNIFICANT_BITS))

(* The bounds on a change, the same for both adjustments.                  *)
Clamp(new, old, least) ==
    IF new >= old THEN Min({new, DIFFICULTY_CHANGE_MAX_FACTOR * old})
    ELSE Max({least, new, old \div DIFFICULTY_CHANGE_MAX_FACTOR})

(* _get_next_sub_slot_iters where the epoch changes.  c ends before the    *)
(* last block of the epoch, whose signage point is at sp_total.            *)
AdjustedIters(before, now) ==
    LET precise == (SUB_SLOT_TIME_TARGET * (now.ti - before.ti)) \div (now.time - before.time) IN
    RoundDown(truncate_to_significant_bits(Clamp(precise, now.ssi, NUM_SPS_SUB_SLOT)), NUM_SPS_SUB_SLOT)

NewSubSlotIters(c, sp_total) ==
    IF Len(c) + 1 < EPOCH_BLOCKS THEN SUB_SLOT_ITERS_STARTING
    ELSE AdjustedIters(SecondToLastTxBlock(c), LastTxBlockBefore(c, sp_total))

DifficultyOf(c, h) == c[h + 1].weight - (IF h = 0 THEN 0 ELSE c[h].weight)

(* _get_next_difficulty where the epoch changes.                           *)
AdjustedDifficulty(before, now, old) ==
    LET precise == ((now.weight - before.weight) * SUB_SLOT_TIME_TARGET)
                        \div (SLOT_BLOCKS_TARGET * (now.time - before.time)) IN
    truncate_to_significant_bits(Clamp(precise, old, 1))

NewDifficulty(c, sp_total) ==
    IF Len(c) + 1 < EPOCH_BLOCKS - 3 * MAX_SUB_SLOT_BLOCKS THEN DIFFICULTY_STARTING
    ELSE AdjustedDifficulty(SecondToLastTxBlock(c), LastTxBlockBefore(c, sp_total), DifficultyOf(c, Last(c).height))

(* get_next_sub_slot_iters_and_difficulty for the block after c.           *)
NextParameters(c, first) ==
    LET prev == Last(c)
        before == Front(c)
        adjust == first /\ CanFinishEpoch(before, prev.height, prev.deficit, FALSE) IN
    IF prev.ses # {} THEN [ssi |-> prev.ssi, difficulty |-> DifficultyOf(c, prev.height)]
    ELSE [ssi |-> IF prev.height + 1 < EPOCH_BLOCKS THEN SUB_SLOT_ITERS_STARTING
                  ELSE IF adjust THEN NewSubSlotIters(before, sp_total_iters(prev)) ELSE prev.ssi,
          difficulty |-> IF prev.height + 1 < EPOCH_BLOCKS - 3 * MAX_SUB_SLOT_BLOCKS THEN DIFFICULTY_STARTING
                         ELSE IF adjust THEN NewDifficulty(before, sp_total_iters(prev))
                         ELSE DifficultyOf(c, prev.height)]
-----------------------------------------------------------------------------
(* A summary: of the previous sub-epoch the height that included its       *)
(* summary (0 if there is none) and the reward chain's slot there, and     *)
(* what changes with a new epoch, 0 if nothing does.                       *)
FirstSummary == [prev |-> 0, rc |-> 0, overflow |-> 0, difficulty |-> 0, ssi |-> 0]

(* make_sub_epoch_summary, to be included at height h; c has h - 2.        *)
make_sub_epoch_summary(c, h, difficulty, ssi) ==
    LET curr == LastWith(Upto(c, h - 2), LAMBDA b : b.ses # {}) IN
    IF (h + MAX_SUB_SLOT_BLOCKS) \div SUB_EPOCH_BLOCKS <= 1 THEN FirstSummary
    ELSE [prev |-> curr.height, rc |-> Last(SlotIds(curr)), overflow |-> curr.height % SUB_EPOCH_BLOCKS,
          difficulty |-> difficulty, ssi |-> ssi]

(* next_sub_epoch_summary with can_finish_soon, as every caller has it:    *)
(* what the sub-slot after block b, which extends c, would include.  A set *)
(* of at most one summary.                                                 *)
FinishesEpochSoon(c) ==
    LET h == Last(c).height IN
    IF height_can_be_first_in_epoch(h + 2)
    THEN ~((h + 2) % SUB_EPOCH_BLOCKS > 1
           /\ \E i \in (h - (h % SUB_EPOCH_BLOCKS))..h : \E s \in c[i + 1].ses : s.difficulty # 0)
    ELSE height_can_be_first_in_epoch(h + MAX_SUB_SLOT_BLOCKS + 2)

next_sub_epoch_summary(c, b) ==
    LET prev == Last(c)
        ssi == NextParameters(c, b.fss # <<>>).ssi
        sp_total == b.ti - calculate_ip_iters(ssi, b.sp, b.req) + calculate_sp_iters(ssi, b.sp)
                        - (IF is_overflow_block(b.sp) THEN ssi ELSE 0)
        epoch == FinishesEpochSoon(c) IN
    IF c = <<>> \/ Len(c) = 1 THEN {}
    ELSE IF b.fss # <<>> /\ b.fss[1].ses # {} THEN {}
    ELSE {make_sub_epoch_summary(c, prev.height + 2, IF epoch THEN NewDifficulty(c, sp_total) ELSE 0,
                                 IF epoch THEN NewSubSlotIters(c, sp_total) ELSE 0)}
-----------------------------------------------------------------------------
(* final_eos_is_already_included, for an overflow block b on c.            *)
final_eos_is_already_included(c, b, ssi) ==
    LET start == SlotStart(c).height
        close == {x \in (start + 1)..Last(c).height \cup {Last(c).height} :
                      is_overflow_block(c[x + 1].sp) /\ b.ti - c[x + 1].ti < ssi \div 2} IN
    b.fss = <<>> /\ close # {}

(* get_block_challenge; skip: the end of an overflow block's sub-slot is   *)
(* not known yet.                                                          *)
get_block_challenge(c, b, skip) ==
    LET overflow == is_overflow_block(b.sp) IN
    IF b.fss # <<>> THEN IF overflow /\ ~skip THEN Last(b.fss).cc.ch ELSE Last(b.fss).id
    ELSE IF overflow /\ ~skip THEN SlotBefore(c)
    ELSE CurrentSlot(c)

(* get_signage_point_vdf_info.  ids: the sub-slots finished since the last *)
(* block of c.  Cases 4 and 6 start in the sub-slot of that block, case 5  *)
(* in the one before.                                                      *)
StartInSlotOfPrev(c, sp_total, sp_its) ==
    LET curr == LastWith(c, LAMBDA b : first_in_sub_slot(b) \/ b.ti <= sp_total)
        slot == CurrentSlot(Upto(c, curr.height)) IN
    IF curr.ti < sp_total
    THEN [cc |-> slot, rc |-> <<"blk", curr.height>>, from |-> <<"out", curr.height>>, it |-> sp_total - curr.ti]
    ELSE [cc |-> slot, rc |-> <<"slot", Last(SlotIds(curr))>>, from |-> Default, it |-> sp_its]

StartInSlotBefore(c, sp_total, sp_its) ==
    LET slot == SlotBefore(c)
        seen(h) == MapThenSumSet(LAMBDA i : Len(SlotIds(c[i + 1])), h..Last(c).height)
        stop == Max({h \in 0..Last(c).height : seen(h) >= 2} \cup {0})
        pre == {h \in stop..Last(c).height : c[h + 1].ti < sp_total} IN
    IF pre # {}
    THEN [cc |-> slot, rc |-> <<"blk", Max(pre)>>, from |-> <<"out", Max(pre)>>, it |-> sp_total - c[Max(pre) + 1].ti]
    ELSE [cc |-> slot, rc |-> <<"slot", slot>>, from |-> Default, it |-> sp_its]

get_signage_point_vdf_info(c, ids, overflow, sp_total, sp_its) ==
    LET at(slot) == [cc |-> slot, rc |-> <<"slot", slot>>, from |-> Default, it |-> sp_its] IN
    IF ids # <<>> /\ ~overflow THEN at(Last(ids))
    ELSE IF overflow /\ Len(ids) > 1 THEN at(ids[Len(ids) - 1])
    ELSE IF overflow /\ ids = <<>> THEN StartInSlotBefore(c, sp_total, sp_its)
    ELSE StartInSlotOfPrev(c, sp_total, sp_its)
-----------------------------------------------------------------------------
(***************************************************************************)
(* validate_unfinished_header_block and validate_finished_header_block     *)
(* (consensus/block_header_validation.py) for a block that extends chain   *)
(* c, whose first block is the genesis block.  The numbers are those of    *)
(* the comments there.                                                     *)
(*                                                                         *)
(* A VDF is [ch: its challenge, it: the iterations it states, len, from:   *)
(* those its proof is for, and their start].  Proofs of space, signatures, *)
(* hashes of a block's own parts and pool targets are not in the model:    *)
(* checks 5b, 12, 14, 16 to 21, 23, 25, 32.  e is the expected difficulty  *)
(* and sub-slot iterations.                                                *)
(***************************************************************************)

(* The infused chain's VDF that must be in the n-th of the sub-slots.      *)
ExpectedIcc(c, fss, n) ==
    LET prev == Last(c)
        curr == LastWith(c, LAMBDA b : is_challenge_block(b) \/ first_in_sub_slot(b)) IN
    IF prev.deficit = MIN_BLOCKS_PER_CHALLENGE_BLOCK THEN NoVdf
    ELSE IF n = 1
         THEN [ch |-> IF is_challenge_block(curr) THEN <<"blk", curr.height>> ELSE <<"icc", Last(IccIds(curr))>>,
               it |-> prev.ssi - (IF is_challenge_block(curr) THEN ip_iters(curr) ELSE 0),
               len |-> prev.ssi - ip_iters(prev),
               from |-> IF is_challenge_block(prev) THEN Default ELSE prev.iccOut]
    ELSE IF fss[n - 1].deficit < MIN_BLOCKS_PER_CHALLENGE_BLOCK
         THEN [ch |-> <<"icc", fss[n - 1].id>>, it |-> prev.ssi, len |-> prev.ssi, from |-> Default]
    ELSE NoVdf

(* Mutant: the deficit is carried over into the next slot.                 *)
ExpectedDeficitKept(c) == Last(c).deficit

(* 2s, 2t.                                                                 *)
ExpectedDeficit(c) == IF Last(c).deficit = 0 THEN MIN_BLOCKS_PER_CHALLENGE_BLOCK ELSE Last(c).deficit

(* 2b, 2c, and 2e to 2k: challenges and the infused chain.                 *)
SlotIsChained(c, fss, n) ==
    LET slot == fss[n] IN
    /\ slot.cc.ch = IF n = 1 THEN CurrentSlot(c) ELSE fss[n - 1].id
    /\ slot.icc = ExpectedIcc(c, fss, n)
    /\ slot.iccInCc = (slot.icc # NoVdf /\ slot.deficit = MIN_BLOCKS_PER_CHALLENGE_BLOCK)

(* 2l to 2n: summaries only in the first, parameters only with an epoch.   *)
SlotParameters(slot, n, e, epoch) ==
    /\ n # 1 => slot.ses = {}
    /\ IF epoch /\ slot.ses # {} THEN slot.ssi = e.ssi /\ slot.difficulty = e.difficulty
       ELSE slot.ssi = 0 /\ slot.difficulty = 0

(* 2p to 2t: the VDFs of reward and challenge chain, and the deficit.      *)
SlotVdfs(c, fss, n, e) ==
    LET slot == fss[n]
        prev == Last(c)
        len == IF n = 1 THEN prev.ssi - ip_iters(prev) ELSE e.ssi IN
    /\ slot.rc = [ch |-> IF n = 1 THEN <<"blk", prev.height>> ELSE <<"slot", fss[n - 1].id>>,
                  it |-> len, len |-> len, from |-> Default]
    /\ slot.cc.it = IF n = 1 THEN prev.ssi ELSE e.ssi
    /\ slot.cc.len = len /\ slot.cc.from = IF n = 1 THEN <<"out", prev.height>> ELSE Default
    /\ slot.deficit = ExpectedDeficit(c)

(* 3: a summary exactly where a sub-epoch ends, and the right one.         *)
SummaryIsRight(c, fss, e, finishes, epoch) ==
    LET ses == UNION {fss[n].ses : n \in DOMAIN fss} IN
    ses = IF finishes
          THEN {make_sub_epoch_summary(c, Last(c).height + 1, IF epoch THEN e.difficulty ELSE 0,
                                       IF epoch THEN e.ssi ELSE 0)}
          ELSE {}

(* 4: at most MAX_SUB_SLOT_BLOCKS in a sub-slot.                           *)
RoomInSlot(c, new) == new \/ (Last(c).height - SlotStart(c).height) + 2 <= MAX_SUB_SLOT_BLOCKS

(* 10: total_iters of the block, n sub-slots after the last of c.          *)
TotalIters(c, b, n, e) ==
    LET prev == Last(c)
        start == IF n = 0 THEN prev.ti - ip_iters(prev)
                 ELSE prev.ti + prev.ssi - ip_iters(prev) + e.ssi * (n - 1) IN
    start + calculate_ip_iters(e.ssi, b.sp, b.req)

SpTotalIters(b, e) ==
    b.ti - calculate_ip_iters(e.ssi, b.sp, b.req) + calculate_sp_iters(e.ssi, b.sp)
        - (IF is_overflow_block(b.sp) THEN e.ssi ELSE 0)

(* 8, 11, 13: the VDFs of the signage point.                               *)
SignagePointVdfs(c, b, skip, e) ==
    LET overflow == is_overflow_block(b.sp)
        ids == SlotIds([height |-> 1, fss |-> b.fss]) \o (IF overflow /\ skip THEN <<-1>> ELSE <<>>)
        sp_its == calculate_sp_iters(e.ssi, b.sp)
        start == get_signage_point_vdf_info(c, ids, overflow, SpTotalIters(b, e), sp_its) IN
    IF b.sp = 0 THEN b.ccSp = NoVdf /\ b.rcSp = NoVdf
    ELSE /\ b.rcSp = [ch |-> start.rc, it |-> start.it, len |-> start.it, from |-> Default]
         /\ b.ccSp = [ch |-> <<"cc", start.cc>>, it |-> sp_its, len |-> start.it, from |-> start.from]

LastTx(c) == LastWith(c, LAMBDA b : b.tx)

(* validate_unfinished_header_block; skip is the value that is passed.     *)
ValidUnfinished(c, b, e, skip) ==
    LET prev == Last(c)
        overflow == is_overflow_block(b.sp)
        missing == skip /\ overflow /\ ~final_eos_is_already_included(c, b, e.ssi)
        n == Len(b.fss) + (IF missing THEN 1 ELSE 0)
        included == prev.ses # {}
        finishes == n > 0 /\ can_finish_sub_epoch(Front(c), prev.height, prev.deficit, included)
        epoch == n > 0 /\ CanFinishEpoch(Front(c), prev.height, prev.deficit, included) IN
    /\ n > 0 /\ ~missing =>
          /\ \A i \in DOMAIN b.fss : /\ SlotIsChained(c, b.fss, i)
                                     /\ SlotParameters(b.fss[i], i, e, epoch)
                                     /\ SlotVdfs(c, b.fss, i, e)
          /\ SummaryIsRight(c, b.fss, e, finishes, epoch)
    /\ RoomInSlot(c, n > 0)
    /\ b.pos = get_block_challenge(c, b, missing)           \* 5a
    /\ CanCalculateIp(e.ssi, b.sp, b.req)                   \* 6, 7
    /\ overflow /\ epoch => n >= 2                          \* 9
    /\ b.ti = TotalIters(c, b, n, e)
    /\ SignagePointVdfs(c, b, missing, e)
    /\ b.tx = (SpTotalIters(b, e) > LastTx(c).ti)           \* 15
    /\ b.tx => b.prevTx = LastTx(c).height /\ b.time > LastTx(c).time   \* 24b, 26b

(* 31: the infused chain's VDF at the infusion point.                      *)
ExpectedIccIp(c, b, len) ==
    LET prev == Last(c)
        deficit == calculate_deficit(b.height, prev.deficit, is_overflow_block(b.sp), Len(b.fss))
        curr == LastWith(c, LAMBDA x : is_challenge_block(x) \/ (x.height > 0 /\ x.fss # <<>>)) IN
    IF deficit >= MIN_BLOCKS_PER_CHALLENGE_BLOCK - 1 THEN NoVdf
    ELSE IF b.fss # <<>> THEN [ch |-> <<"icc", Last(b.fss).id>>, it |-> len, len |-> len, from |-> Default]
    ELSE [ch |-> IF is_challenge_block(curr) THEN <<"blk", curr.height>> ELSE <<"icc", Last(IccIds(curr))>>,
          it |-> len, len |-> len, from |-> IF is_challenge_block(prev) THEN Default ELSE prev.iccOut]

(* validate_finished_header_block.                                         *)
ValidFinished(c, b, e) ==
    LET prev == Last(c)
        new == b.fss # <<>>
        ip == calculate_ip_iters(e.ssi, b.sp, b.req)
        len == IF new THEN ip ELSE b.ti - prev.ti IN
    /\ ValidUnfinished(c, b, e, FALSE)
    /\ b.height = prev.height + 1                           \* 27
    /\ b.weight = prev.weight + e.difficulty                \* 28
    /\ b.ccIp = [ch |-> <<"cc", IF new THEN Last(b.fss).id ELSE CurrentSlot(c)>>, it |-> ip, len |-> len,
                 from |-> IF new THEN Default ELSE <<"out", prev.height>>]       \* 29
    /\ b.rcIp = [ch |-> IF new THEN <<"slot", Last(b.fss).id>> ELSE <<"blk", prev.height>>,
                 it |-> len, len |-> len, from |-> Default]                       \* 30
    /\ b.iccIp = ExpectedIccIp(c, b, len)
=============================================================================
