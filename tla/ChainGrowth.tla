----------------------------- MODULE ChainGrowth -----------------------------
(***************************************************************************)
(* How a chain grows: a full node makes an unfinished block at a signage   *)
(* point (declare_proof_of_space, create_unfinished_block), the timelord   *)
(* infuses it into its own state (timelord.py, timelord_state.py), the     *)
(* node finishes the block (new_infusion_point_vdf), validates it and      *)
(* tells the timelord the new peak; and the timelord ends sub-slots.       *)
(*                                                                         *)
(* All of this computes deficits, summaries, difficulties and VDF starts   *)
(* several times, in different ways: incrementally in the timelord, from   *)
(* the chain before the signage point in the node that makes the block,    *)
(* and from the chain before the infusion point in those that validate it. *)
(* The chain is one without forks, and messages arrive before the next     *)
(* point; what late ones do is in Timelord, FullNodeStore and              *)
(* UnfinishedBlocks.                                                       *)
(***************************************************************************)
EXTENDS Consensus

CONSTANTS
    Required,       \* required_iters that proofs of space may have
    Pauses,         \* seconds between a transaction block and the next
    Schedules,      \* usual sub-slots: signage point and required_iters of each block, and the pause
    QuietSummary,   \* whether the first block of a sub-epoch may come after an empty sub-slot
    MaxOdd,         \* bound: steps that are not the usual ones
    MaxHeight       \* bound: the height of the chain

VARIABLES
    chain,          \* the block records up to the peak
    slots,          \* the sub-slots finished since the peak
    tl,             \* LastState of the timelord
    usual,          \* the schedule the chain usually follows
    odd             \* unusual steps so far

growthVars == <<chain, slots, tl, usual, odd>>
-----------------------------------------------------------------------------
(* LastState.set_state, for a peak and for an end of sub-slot.  rc, cc and *)
(* icc are get_challenge, from and iccFrom are get_initial_form.           *)
Cached(cache, rc, ti) ==
    LET all == Append(cache, <<rc, ti>>) IN
    SubSeq(all, Max({1, Len(all) - 2 * MAX_SUB_SLOT_BLOCKS + 1}), Len(all))

SetPeak(old, m) ==
    LET b == m.block
        starts == m.deficit = MIN_BLOCKS_PER_CHALLENGE_BLOCK - 1
        rc == <<"blk", b.height>> IN
    [kind |-> "peak", rc |-> rc, cc |-> m.cc,
     icc |-> IF b.iccCh # NoHash THEN b.iccCh ELSE IF starts THEN rc ELSE NoHash,
     from |-> <<"out", b.height>>,
     iccFrom |-> IF b.iccCh # NoHash THEN <<"iccout", b.height>> ELSE IF starts THEN Default ELSE NoHash,
     lastIp |-> calculate_ip_iters(m.ssi, b.sp, b.req), deficit |-> m.deficit, ses |-> m.ses,
     weight |-> b.weight, height |-> b.height, ti |-> b.ti, lastTxTi |-> IF b.rtx THEN b.ti ELSE old.lastTxTi,
     difficulty |-> m.difficulty, ssi |-> m.ssi, cache |-> Cached(m.cache, rc, b.ti), lastCsb |-> m.lastCsb,
     newEpoch |-> FALSE, infusedSes |-> FALSE, hadIcc |-> FALSE,
     passed |-> (b.height + 1) % SUB_EPOCH_BLOCKS = 0 \/ m.passed]

SetSubSlotEnd(old, s) ==
    LET ti == old.ti - old.lastIp + old.ssi
        goes == s.deficit < MIN_BLOCKS_PER_CHALLENGE_BLOCK
        changes == s.difficulty # 0
        rc == <<"slot", s.id>> IN
    [old EXCEPT !.kind = "eos", !.rc = rc, !.cc = s.id, !.icc = IF goes THEN <<"icc", s.id>> ELSE NoHash,
                !.from = Default, !.iccFrom = IF goes THEN Default ELSE NoHash,
                !.lastIp = 0, !.deficit = s.deficit, !.ti = ti,
                !.difficulty = IF changes THEN s.difficulty ELSE @, !.ssi = IF changes THEN s.ssi ELSE @,
                !.cache = Cached(@, rc, ti), !.lastCsb = ti,
                !.newEpoch = changes, !.infusedSes = s.ses # {}, !.hadIcc = s.icc # NoVdf,
                !.passed = @ /\ s.ses = {}]

(* can_infuse_block: the blocks of this sub-slot are counted in the cache. *)
can_infuse_block(overflow) ==
    /\ ~(overflow /\ tl.newEpoch)
    /\ \/ tl.kind = "eos"
       \/ Cardinality({i \in DOMAIN tl.cache : tl.cache[i][2] > tl.ti - tl.lastIp}) < MAX_SUB_SLOT_BLOCKS

get_next_sub_epoch_summary(t) ==
    IF t.kind = "peak" /\ t.passed /\ t.deficit = 0 THEN t.ses ELSE {}
-----------------------------------------------------------------------------
(* What send_peak_to_timelords says of the last block of c.                *)
get_recent_reward_challenges(c) ==
    LET entries(b) ==     \* newest first, without the block itself
            LET start == ip_sub_slot_total_iters(b)
                ids == Reverse(SlotIds(b)) IN
            SelectSeq([i \in DOMAIN ids |-> <<<<"slot", ids[i]>>, start - (i - 1) * b.ssi>>], LAMBDA e : e[2] >= b.ssi)
        from(h) == FlattenSeq([i \in 1..(Len(c) - h) |->
            LET b == c[Len(c) + 1 - i] IN
            (IF i = 1 THEN <<>> ELSE <<<<<<"blk", b.height>>, b.ti>>>>) \o (IF first_in_sub_slot(b) THEN entries(b) ELSE <<>>)])
        near == Max({0, Last(c).height - 2 * MAX_SUB_SLOT_BLOCKS})     \* far enough: an entry for each block
        stop == Max({h \in near..Last(c).height : Len(from(h)) >= 2 * MAX_SUB_SLOT_BLOCKS} \cup {near}) IN
    Reverse(from(stop))

LastChallengeOrSlot(c) ==
    LET curr == LastWith(c, LAMBDA b : is_challenge_block(b) \/ first_in_sub_slot(b)) IN
    IF is_challenge_block(curr) THEN curr.ti ELSE ip_sub_slot_total_iters(curr)

PassedSummaryHeight(c) ==
    LET h == Last(c).height
        first == h - (h % SUB_EPOCH_BLOCKS) IN
    first # 0 /\ ~SummaryIn(c, first, h)

NewPeakTimelord(c) ==
    LET peak == Last(c) IN
    [block |-> peak, cc |-> CurrentSlot(c), deficit |-> peak.deficit, ssi |-> peak.ssi,
     difficulty |-> IF peak.height <= 2 THEN DIFFICULTY_STARTING ELSE NextParameters(c, FALSE).difficulty,
     ses |-> next_sub_epoch_summary(Front(c), peak), cache |-> get_recent_reward_challenges(c),
     lastCsb |-> LastChallengeOrSlot(c), passed |-> PassedSummaryHeight(c)]
-----------------------------------------------------------------------------
(* Now: the sub-slot that is running, and what was finished after height h.*)
SlotStartTi == tl.ti - tl.lastIp
SlotsAfter(h) == FlattenSeq([i \in 1..(Len(chain) - h - 1) |-> chain[h + 1 + i].fss]) \o slots

(* The signage point's VDFs, as the timelord makes them from its last      *)
(* infusion or the start of the sub-slot.                                  *)
PointVdfs(sp, slot, slotTi, spTi, prev, new) ==
    LET len == spTi - (IF new THEN slotTi ELSE prev.ti) IN
    [rc |-> IF sp = 0 THEN NoVdf
            ELSE [ch |-> IF new THEN <<"slot", slot>> ELSE <<"blk", prev.height>>,
                  it |-> len, len |-> len, from |-> Default],
     cc |-> IF sp = 0 THEN NoVdf
            ELSE [ch |-> <<"cc", slot>>, it |-> spTi - slotTi, len |-> len,
                  from |-> IF new THEN Default ELSE <<"out", prev.height>>]]

(* get_prev_transaction_block: whether a block with this signage point is  *)
(* a transaction block.                                                    *)
IsTx(c, spTi) == spTi > LastTx(c).ti

(* create_unfinished_block's total_iters.                                  *)
UnfinishedIters(slotTi, ssi, sp, req) ==
    LET ip == calculate_ip_iters(ssi, sp, req) IN
    slotTi + ip + (IF calculate_sp_iters(ssi, sp) > ip THEN ssi ELSE 0)

(* The unfinished block that declare_proof_of_space makes for a proof at   *)
(* signage point sp of this sub-slot, or of the one before if it           *)
(* overflows.  The block it is built on is the last one before the point.  *)
Unfinished(sp, req, pause) ==
    LET overflow == is_overflow_block(sp)
        slotTi == SlotStartTi - (IF overflow THEN tl.ssi ELSE 0)
        slot == tl.cc - (IF overflow THEN 1 ELSE 0)
        spTi == slotTi + calculate_sp_iters(tl.ssi, sp)
        prev == LastWith(chain, LAMBDA b : b.ti < spTi)
        c == Upto(chain, prev.height)
        fss == SelectSeq(SlotsAfter(prev.height), LAMBDA s : s.id <= slot)
        changed == {i \in DOMAIN fss : fss[i].difficulty # 0}
        ssi == IF prev.height <= MAX_SUB_SLOT_BLOCKS THEN SUB_SLOT_ITERS_STARTING
               ELSE IF changed # {} THEN fss[Max(changed)].ssi ELSE prev.ssi
        vdfs == PointVdfs(sp, slot, slotTi, spTi, prev, fss # <<>>) IN
    [height |-> prev.height + 1, fss |-> fss, sp |-> sp, req |-> req, pos |-> slot, ssi |-> ssi, spTi |-> spTi,
     ti |-> UnfinishedIters(slotTi, ssi, sp, req), rcSp |-> vdfs.rc, ccSp |-> vdfs.cc,
     tx |-> IsTx(c, spTi), prevTx |-> LastTx(c).height, time |-> LastTx(c).time + pause]

(* What respond_unfinished_block tells the timelord besides the block.     *)
UnfinishedSummary(u) == next_sub_epoch_summary(Upto(chain, u.height - 1), u)
RcPrev(u) == IF u.sp = 0 THEN <<"slot", u.pos>> ELSE u.rcSp.ch

(* _can_infuse_unfinished_block.                                           *)
CanInfuseUnfinished(u) ==
    \E i \in DOMAIN tl.cache :
        /\ tl.cache[i][1] = RcPrev(u) /\ \A j \in 1..(i - 1) : tl.cache[j][1] # RcPrev(u)
        /\ calculate_ip_iters(tl.ssi, u.sp, u.req) > tl.lastIp
        /\ i < Len(tl.cache) => tl.cache[i + 1][2] >= u.spTi /\ tl.cache[i][2] <= u.spTi

(* The VDFs the timelord adds at the infusion point, and the block that    *)
(* unfinished_block_to_full_block makes of it.                             *)
Finished(u) ==
    LET prev == Last(chain)
        e == NextParameters(chain, slots # <<>>)
        ip == calculate_ip_iters(tl.ssi, u.sp, u.req)
        len == ip - tl.lastIp
        isTx == IsTx(chain, u.spTi) IN
    [height |-> prev.height + 1, weight |-> prev.weight + e.difficulty, fss |-> slots,
     sp |-> u.sp, req |-> u.req, pos |-> u.pos, ti |-> u.ti, rcSp |-> u.rcSp, ccSp |-> u.ccSp,
     ccIp |-> [ch |-> <<"cc", tl.cc>>, it |-> ip, len |-> len, from |-> tl.from],
     rcIp |-> [ch |-> tl.rc, it |-> len, len |-> len, from |-> Default],
     iccIp |-> IF tl.icc = NoHash THEN NoVdf ELSE [ch |-> tl.icc, it |-> len, len |-> len, from |-> tl.iccFrom],
     tx |-> isTx /\ u.tx, rtx |-> isTx, prevTx |-> u.prevTx, time |-> u.time]

(* block_to_block_record.                                                  *)
ToRecord(b) ==
    LET prev == Last(chain)
        e == NextParameters(chain, b.fss # <<>>)
        found == \E i \in DOMAIN b.fss : b.fss[i].ses # {} IN
    [height |-> b.height, weight |-> b.weight, ti |-> b.ti, sp |-> b.sp, req |-> b.req, ssi |-> e.ssi,
     deficit |-> calculate_deficit(b.height, prev.deficit, is_overflow_block(b.sp), Len(b.fss)),
     tx |-> b.tx, rtx |-> b.rtx, time |-> IF b.tx THEN b.time ELSE 0, fss |-> b.fss,
     ses |-> IF found THEN {make_sub_epoch_summary(chain, b.height, b.fss[1].difficulty, b.fss[1].ssi)} ELSE {},
     iccCh |-> b.iccIp.ch, iccOut |-> IF b.iccIp = NoVdf THEN NoHash ELSE <<"iccout", b.height>>]

(* The deficit after the block that the timelord infuses.                  *)
OwnDeficit(overflow) ==
    IF overflow /\ tl.deficit = MIN_BLOCKS_PER_CHALLENGE_BLOCK /\ (tl.kind = "peak" \/ tl.hadIcc)
    THEN MIN_BLOCKS_PER_CHALLENGE_BLOCK
    ELSE Max({tl.deficit - 1, 0})

(* The peak that _check_for_new_ip makes for the timelord itself.          *)
OwnPeak(u, b) ==
    LET overflow == is_overflow_block(u.sp)
        ip == calculate_ip_iters(tl.ssi, u.sp, u.req)
        ti == tl.ti + ip - tl.lastIp
        spTi == ti - ip + calculate_sp_iters(u.ssi, u.sp) - (IF overflow THEN u.ssi ELSE 0)
        deficit == OwnDeficit(overflow)
        just == tl.kind = "eos" /\ tl.infusedSes
        difficulty == NextParameters(Upto(chain, u.height - 1), u.fss # <<>>).difficulty IN
    [block |-> [height |-> tl.height + 1, weight |-> tl.weight + difficulty, ti |-> ti, sp |-> u.sp, req |-> u.req,
                iccCh |-> b.iccIp.ch, rtx |-> tl.lastTxTi < spTi],
     cc |-> tl.cc, deficit |-> deficit, ssi |-> u.ssi, difficulty |-> difficulty,
     ses |-> IF just THEN {} ELSE UnfinishedSummary(u), cache |-> tl.cache,
     lastCsb |-> IF deficit = MIN_BLOCKS_PER_CHALLENGE_BLOCK - 1 THEN ti ELSE tl.lastCsb,
     passed |-> ~just /\ ((tl.height + 1) % SUB_EPOCH_BLOCKS = 0 \/ tl.passed)]

(* The end of sub-slot that _check_for_end_of_subslot makes in state t.    *)
SubSlotEnd(t) ==
    LET len == t.ssi - t.lastIp
        ses == get_next_sub_epoch_summary(t) IN
    [id |-> t.cc + 1,
     cc |-> [ch |-> t.cc, it |-> t.ssi, len |-> len, from |-> t.from],
     rc |-> [ch |-> t.rc, it |-> len, len |-> len, from |-> Default],
     icc |-> IF t.icc = NoHash THEN NoVdf
             ELSE [ch |-> t.icc, it |-> t.ti + len - t.lastCsb, len |-> len, from |-> t.iccFrom],
     iccInCc |-> t.deficit = 0,
     ses |-> ses,
     ssi |-> IF ses = {} THEN 0 ELSE (CHOOSE s \in ses : TRUE).ssi,
     difficulty |-> IF ses = {} THEN 0 ELSE (CHOOSE s \in ses : TRUE).difficulty,
     deficit |-> IF t.deficit \in 1..(MIN_BLOCKS_PER_CHALLENGE_BLOCK - 1) THEN t.deficit
                 ELSE MIN_BLOCKS_PER_CHALLENGE_BLOCK]

(* The node's check of the summary in new_finished_sub_slot.               *)
SummaryAccepted(s) ==
    LET peak == Last(chain) IN
    slots = <<>> /\ Len(chain) > 1 /\ can_finish_sub_epoch(Front(chain), peak.height, peak.deficit, peak.ses # {})
        => s.ses = next_sub_epoch_summary(Front(chain), peak)
-----------------------------------------------------------------------------
(* The genesis block, and the timelord told of it.                         *)
Genesis ==
    LET ip == calculate_ip_iters(SUB_SLOT_ITERS_STARTING, 0, Min(Required)) IN
    [height |-> 0, weight |-> DIFFICULTY_STARTING, ti |-> ip, sp |-> 0, req |-> Min(Required),
     ssi |-> SUB_SLOT_ITERS_STARTING, deficit |-> MIN_BLOCKS_PER_CHALLENGE_BLOCK - 1, tx |-> TRUE, rtx |-> TRUE,
     time |-> 1, fss |-> <<>>, ses |-> {}, iccCh |-> NoHash, iccOut |-> NoHash]

GrowthInit ==
    /\ chain = <<Genesis>> /\ slots = <<>> /\ usual \in Schedules /\ odd = 0
    /\ tl = SetPeak([lastTxTi |-> 0], NewPeakTimelord(<<Genesis>>))

(* The blocks infused in this sub-slot, and whether the usual next one has *)
(* its infusion point ahead.                                               *)
InSlot == IF tl.kind = "eos" THEN 0 ELSE Len(chain) - SlotStart(chain).height
UsualBlock ==
    /\ InSlot < Len(usual.blocks)
    /\ calculate_ip_iters(tl.ssi, usual.blocks[InSlot + 1][1], usual.blocks[InSlot + 1][2]) > tl.lastIp
Usual(is) == IF is THEN odd' = odd ELSE odd < MaxOdd /\ odd' = odd + 1

(* Signage points with a proof whose infusion point is ahead in this       *)
(* sub-slot, after the genesis block.                                      *)
Points ==
    {p \in (0..(NUM_SPS_SUB_SLOT - 1)) \X Required :
        /\ CanCalculateIp(tl.ssi, p[1], p[2]) /\ calculate_ip_iters(tl.ssi, p[1], p[2]) > tl.lastIp
        /\ SlotStartTi + calculate_sp_iters(tl.ssi, p[1]) - (IF is_overflow_block(p[1]) THEN tl.ssi ELSE 0) > chain[1].ti}

(* An unfinished block is infused and becomes the peak.  Below height 5    *)
(* the timelord waits for the node's peak; later it has its own already    *)
(* and skips the node's.                                                   *)
Infuse(sp, req, pause) ==
    LET u == Unfinished(sp, req, pause)
        b == Finished(u) IN
    /\ Usual(UsualBlock /\ <<sp, req>> = usual.blocks[InSlot + 1] /\ pause = usual.pause)
    /\ Len(chain) <= MaxHeight /\ <<sp, req>> \in Points
    /\ CanInfuseUnfinished(u) /\ can_infuse_block(is_overflow_block(sp))
    /\ ValidFinished(chain, b, NextParameters(chain, slots # <<>>)) /\ b.tx = b.rtx
    /\ chain' = Append(chain, ToRecord(b)) /\ slots' = <<>> /\ usual' = usual
    /\ tl' = SetPeak(tl, IF b.height < 5 THEN NewPeakTimelord(chain') ELSE OwnPeak(u, b))

(* The timelord restarts, or another one infused the block: it takes the   *)
(* node's peak.                                                            *)
TakePeak ==
    /\ tl.kind = "peak"
    /\ tl' = SetPeak(tl, NewPeakTimelord(chain))
    /\ UNCHANGED <<chain, slots, usual, odd>>

(* A sub-slot ends.  If the node does not take it, it sends its peak again.*)
EndSubSlot ==
    LET s == SubSlotEnd(tl) IN
    /\ Len(chain) <= MaxHeight
    /\ tl.kind = "eos" /\ tl.infusedSes /\ (tl.height + 1) % SUB_EPOCH_BLOCKS = 0 => QuietSummary
    /\ Usual(~UsualBlock /\ InSlot > 0)
    /\ IF SummaryAccepted(s) THEN slots' = Append(slots, s) /\ tl' = SetSubSlotEnd(tl, s)
       ELSE slots' = slots /\ tl' = SetPeak(tl, NewPeakTimelord(chain))
    /\ UNCHANGED <<chain, usual>>

GrowthNext ==
    \/ \E sp \in 0..(NUM_SPS_SUB_SLOT - 1), req \in Required, pause \in Pauses : Infuse(sp, req, pause)
    \/ TakePeak
    \/ EndSubSlot

GrowthSpec == GrowthInit /\ [][GrowthNext]_growthVars
-----------------------------------------------------------------------------
(* Every unfinished block that is made at a signage point of this sub-slot *)
(* passes validate_unfinished_header_block at the nodes that receive it,   *)
(* unless its sub-slot is full or an epoch ends after it.                  *)
UnfinishedIsValid ==
    \A p \in Points :
        LET u == Unfinished(p[1], p[2], 1)
            c == Upto(chain, u.height - 1) IN
        ~(is_overflow_block(p[1]) /\ tl.newEpoch) /\ RoomInSlot(c, u.fss # <<>>)
            => ValidUnfinished(c, u, NextParameters(c, u.fss # <<>>), TRUE)

(* A block made at a point of this sub-slot, or in time for it in the one  *)
(* before, finds the point it was built on in the timelord's cache; what   *)
(* can_infuse_block then lets through is a valid block, and what it        *)
(* refuses is not.                                                         *)
InfusionIsExact ==
    \A p \in Points :
        LET u == Unfinished(p[1], p[2], 1) IN
        /\ CanInfuseUnfinished(u)
        /\ can_infuse_block(is_overflow_block(p[1]))
              <=> ValidFinished(chain, Finished(u), NextParameters(chain, slots # <<>>))
        /\ can_infuse_block(is_overflow_block(p[1])) => Finished(u).tx = Finished(u).rtx

(* The timelord's own account of its peak is what the node would tell it,  *)
(* but for the summary.                                                    *)
TimelordAgrees ==
    tl.kind = "peak" =>
        LET told == SetPeak(tl, NewPeakTimelord(chain)) IN
        [told EXCEPT !.cache = tl.cache, !.ses = tl.ses] = tl

(* A timelord whose sub-slot was refused makes an acceptable one of the    *)
(* peak it is sent, and later epochs need no such help.                    *)
SummaryIsCorrected ==
    tl.kind = "peak" =>
        /\ SummaryAccepted(SubSlotEnd(SetPeak(tl, NewPeakTimelord(chain))))
        /\ tl.height > EPOCH_BLOCKS + MAX_SUB_SLOT_BLOCKS => SummaryAccepted(SubSlotEnd(tl))

(* Every summary is included where the comment in                          *)
(* _get_second_to_last_transaction_block_in_previous_epoch expects it.     *)
SummariesOnTime ==
    LET with == {h \in 0..Last(chain).height : chain[h + 1].ses # {}}
        late == 2 * MAX_SUB_SLOT_BLOCKS + MIN_BLOCKS_PER_CHALLENGE_BLOCK - 3 IN
    \A k \in 1..(Last(chain).height \div SUB_EPOCH_BLOCKS) :
        LET window == (k * SUB_EPOCH_BLOCKS)..(k * SUB_EPOCH_BLOCKS + late) IN
        /\ Cardinality(with \cap window) <= 1
        /\ Last(chain).height >= k * SUB_EPOCH_BLOCKS + late => with \cap window # {}

(* Epochs tile the time: the block an adjustment measures from, found as   *)
(* the second to last transaction block of the epoch before, is the one    *)
(* the previous adjustment measured up to, found by the signage point of   *)
(* the last block.                                                         *)
EpochsTile ==
    LET with == {h \in 0..Last(chain).height : \E s \in chain[h + 1].ses : s.difficulty # 0}
        h == Max(with) IN
    with # {} /\ Last(chain).height >= h + MAX_SUB_SLOT_BLOCKS + 2 /\ FinishesEpochSoon(Front(chain))
        => SecondToLastTxBlock(Front(chain)) = LastTxBlockBefore(Upto(chain, h - 2), sp_total_iters(chain[h]))

(* Iterations and difficulty change by DIFFICULTY_CHANGE_MAX_FACTOR at     *)
(* most, stay positive, and only where a summary says so.                  *)
ParametersBounded ==
    \A h \in {Last(chain).height} \ {0} :
        LET was == [ssi |-> chain[h].ssi, difficulty |-> DifficultyOf(chain, h - 1)]
            now == [ssi |-> chain[h + 1].ssi, difficulty |-> DifficultyOf(chain, h)] IN
        /\ now # was => \E s \in chain[h + 1].ses : s.ssi = now.ssi /\ s.difficulty = now.difficulty
        /\ \A f \in {"ssi", "difficulty"} :
              LET least == truncate_to_significant_bits(was[f] \div DIFFICULTY_CHANGE_MAX_FACTOR) IN
              now[f] \in Max({1, least - (IF f = "ssi" THEN least % NUM_SPS_SUB_SLOT ELSE 0)})
                            ..(DIFFICULTY_CHANGE_MAX_FACTOR * was[f])

(* Farmer, node and timelord make the blocks that validation accepts, and  *)
(* refuse only others.                                                     *)
BlocksAreValid == UnfinishedIsValid /\ InfusionIsExact

(* The timelord computes what a node would tell it, or is corrected in     *)
(* time.                                                                   *)
TimelordIsRight == TimelordAgrees /\ SummaryIsCorrected

(* Summaries, epochs and adjustments come where and as they should.        *)
EpochsAreRight == SummariesOnTime /\ EpochsTile /\ ParametersBounded
=============================================================================
