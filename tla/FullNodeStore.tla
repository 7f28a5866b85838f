---------------------------- MODULE FullNodeStore ---------------------------
(***************************************************************************)
(* The sub-slots and signage points a full node keeps                      *)
(* (full_node/full_node_store.py), and the handlers of full_node.py and    *)
(* full_node_api.py that bring ends of sub-slots, signage points, infusion *)
(* points and blocks to it, in any order.                                  *)
(*                                                                         *)
(* A reward chain hash is the block or end of sub-slot it comes from, so   *)
(* what was infused before a thing is its name.  All VDF proofs are valid: *)
(* a thing on another chain is on a name that this node does not have.     *)
(* sub_slot_iters does not change.                                         *)
(***************************************************************************)
EXTENDS Integers, Sequences, SequencesExt, FiniteSets

CONSTANTS
    Block,       \* blocks: prev, iters, weight, slot, spSlot, spIndex, spRc, first, newSlots
    Blk,
    Eos,         \* ends of sub-slots: cc, ccPrev, rcPrev, end
    Bundle,      \* their names
    SpMsgs,      \* signage points: cc, index, rc
    SlotIters, Interval

GENESIS == "genesis"      \* GENESIS_CHALLENGE, and the slot before the first end of sub-slot
NoBlock == "no block"
NoSp == "no sp"
NumSps == SlotIters \div Interval

VARIABLES
    known, peak,     \* blocks of the blockchain, and its peak
    posted,          \* the last peak that peak_post_processing brought to the store
    store,           \* slots (finished_sub_slots) and fEos, fSp, fIp (the future caches)
    timed,           \* the keys of future_cache_key_times
    todo             \* infusions that respond_end_of_sub_slot still has to replay

storeVars == <<known, peak, posted, store, timed, todo>>

NoSps == [i \in 1..(NumSps - 1) |-> NoSp]
CC(e) == IF e = GENESIS THEN GENESIS ELSE Eos[e].cc
Slot(e, sps, start) == [eos |-> e, sps |-> sps, start |-> start]
InitSlots == <<Slot(GENESIS, NoSps, 0)>>
Index(s, cc) == {i \in 1..Len(s) : CC(s[i].eos) = cc}
At(f, k) == IF k \in DOMAIN f THEN f[k] ELSE {}
PutIn(f, k, x) == [j \in DOMAIN f \cup {k} |-> IF j = k THEN At(f, k) \cup {x} ELSE f[j]]
Pop(f, k) == [j \in DOMAIN f \ {k} |-> f[j]]
Ancestors[b \in Block] == {b} \cup IF Blk[b].prev = NoBlock THEN {} ELSE Ancestors[Blk[b].prev]

StoreInit ==
    /\ known = {} /\ peak = NoBlock /\ posted = NoBlock /\ timed = {} /\ todo = {}
    /\ store = [slots |-> InitSlots, fEos |-> <<>>, fSp |-> <<>>, fIp |-> <<>>]
-----------------------------------------------------------------------------
(* get_sub_slot.                                                           *)
HasSlot(s, cc) == \E i \in 1..Len(s) : s[i].eos # GENESIS /\ CC(s[i].eos) = cc

(* The reward chain VDF of the end of sub-slot starts at the peak, or at   *)
(* the last end of sub-slot when the peak is before it.                    *)
BuildsOn(e, pk, last) ==
    Eos[e].rcPrev = IF pk # NoBlock /\ Blk[pk].iters > last.start THEN pk ELSE last.eos

(* new_finished_sub_slot: "yes", "no", or "later" when it is cached.       *)
SubSlotVerdict(s, e, pk) ==
    LET last == Last(s)
        inSlot == pk # NoBlock /\ Blk[pk].iters > last.start IN
    CASE \E i \in 1..Len(s) : s[i].eos = e -> "had"
      [] Eos[e].ccPrev # CC(last.eos) -> "no"
      [] inSlot /\ last.start + SlotIters < Blk[pk].iters -> "no"
      [] BuildsOn(e, pk, last) -> "yes"
      [] OTHER -> IF inSlot THEN "later" ELSE "no"

AppendSlot(s, e) == Append(s, Slot(e, NoSps, Last(s).start + SlotIters))

(* The infusion that a signage point must start from, in slot i: the loop  *)
(* of new_signage_point from the peak back.                                *)
SpStart(s, i, index, pk) ==
    LET start == s[i].start
        it == start + index * Interval
        past(b) == Blk[b].iters > start /\ Blk[b].iters > it
        (* blocks from the peak back to the first that is not past, or is first in its sub-slot *)
        stops == {b \in Ancestors[pk] : ~past(b) \/ Blk[b].first}
        curr == CHOOSE b \in stops : \A c \in stops : Blk[c].iters <= Blk[b].iters IN
    IF pk = NoBlock THEN s[i].eos
    ELSE IF start > Blk[pk].iters THEN s[i].eos
    ELSE IF stops = {} THEN s[i].eos
    ELSE IF past(curr) THEN s[i].eos ELSE curr

(* new_signage_point, when it does add the signage point.                  *)
SpAdded(s, sp, pk) ==
    LET I == Index(s, sp.cc) IN
    sp.index \in 1..(NumSps - 1) /\ I # {} /\ SpStart(s, Min(I), sp.index, pk) = sp.rc

PutSp(s, sp) == [s EXCEPT ![Min(Index(s, sp.cc))].sps[sp.index] = sp.rc]
AddSp(s, sp, pk) == IF SpAdded(s, sp, pk) THEN PutSp(s, sp) ELSE s

(* have_newer_signage_point, and the same signage point is there.          *)
HaveNewer(s, sp) ==
    \E i \in Index(s, sp.cc) :
        /\ \E k \in 1..(sp.index - 1) : s[i].sps[k] = sp.rc
        /\ s[i].sps[sp.index] \notin {NoSp, sp.rc}
HaveSp(s, sp) == \E i \in Index(s, sp.cc) : s[i].sps[sp.index] = sp.rc

(* Mutant: signage points after the fork are kept.                         *)
KeptSpsAll(slot, until) == slot.sps

(* new_peak keeps the signage points before the peak, or before the fork.  *)
KeptSps(slot, until) ==
    [i \in 1..(NumSps - 1) |-> IF slot.start + i * Interval < until THEN slot.sps[i] ELSE NoSp]

SpsOf(s, e, until) ==
    LET I == {i \in 1..Len(s) : s[i].eos = e} IN
    IF e = GENESIS \/ I = {} THEN NoSps ELSE KeptSps(s[Min(I)], until)

StartOfSlot(b) == IF Blk[b].slot = GENESIS THEN 0 ELSE Eos[Blk[b].slot].end

(* finished_sub_slots after new_peak, before the future caches.            *)
PeakSlots(s, pk, until) ==
    LET b == Blk[pk] IN
    IF b.slot = GENESIS THEN InitSlots
    ELSE (IF b.spSlot # b.slot THEN <<Slot(b.spSlot, SpsOf(s, b.spSlot, until), StartOfSlot(pk) - SlotIters)>> ELSE <<>>)
         \o <<Slot(b.slot, SpsOf(s, b.slot, until), StartOfSlot(pk))>>

(* The end of sub-slot that new_peak takes from the future cache.          *)
FutureSlot(s, pk) == {e \in At(store.fEos, pk) : SubSlotVerdict(s, e, pk) \in {"yes", "had"}}

PeakSp(pk) == [cc |-> CC(Blk[pk].spSlot), index |-> Blk[pk].spIndex, rc |-> Blk[pk].spRc]
-----------------------------------------------------------------------------
(* A block reaches the blockchain under its lock (respond_block).  The     *)
(* store follows in PeakPost: the coins' hints are written in between, and *)
(* the other handlers, which do not take this lock, see the new peak with  *)
(* the old slots.                                                          *)
AddBlock(b) ==
    /\ known' = known \cup {b}
    /\ peak' = IF peak = NoBlock \/ Blk[b].weight > Blk[peak].weight THEN b ELSE peak

CanAdd(b) == b \notin known /\ Blk[b].prev \in known \cup {NoBlock} /\ peak = posted

ReceiveBlock(b) ==
    /\ CanAdd(b)
    /\ AddBlock(b)
    /\ UNCHANGED <<posted, store, timed, todo>>

ForkBlock ==
    LET shared == Ancestors[peak] \cap Ancestors[posted] IN
    CHOOSE b \in shared : \A c \in shared : Blk[c].iters <= Blk[b].iters

(* peak_post_processing: FullNodeStore.new_peak and the peak's own signage *)
(* point.  The infusions that new_peak returns are not used.               *)
PeakPost ==
    /\ peak # posted
    /\ LET until == IF Blk[peak].prev = posted THEN Blk[peak].iters ELSE Blk[ForkBlock].iters
           kept == PeakSlots(store.slots, peak, until)
           early == FutureSlot(kept, peak)
       IN \E e \in IF early = {} THEN {GENESIS} ELSE early :
            LET s1 == IF e = GENESIS THEN kept
                      ELSE IF SubSlotVerdict(kept, e, peak) = "had" THEN kept ELSE AppendSlot(kept, e)
                s2 == FoldSet(LAMBDA sp, s : AddSp(s, sp, peak), s1, At(store.fSp, peak))
                own == PeakSp(peak)
                late == own.index # 0 /\ ~SpAdded(s2, own, peak)
                fSp == Pop(store.fSp, peak)
            IN /\ store' = [slots |-> AddSp(s2, own, peak), fEos |-> Pop(store.fEos, peak),
                            fSp |-> IF late THEN PutIn(fSp, own.rc, own) ELSE fSp, fIp |-> Pop(store.fIp, peak)]
               /\ timed' = IF late THEN timed \cup {own.rc} ELSE timed
    /\ posted' = peak
    /\ UNCHANGED <<known, peak, todo>>

(* respond_end_of_sub_slot, under timelord_lock.                           *)
RespondEndOfSubSlot(e) ==
    /\ todo = {} /\ ~HasSlot(store.slots, Eos[e].cc)
    /\ Eos[e].ccPrev = GENESIS \/ HasSlot(store.slots, Eos[e].ccPrev)
    /\ LET verdict == SubSlotVerdict(store.slots, e, peak) IN
       /\ verdict \in {"yes", "later"}
       /\ store' = IF verdict = "yes" THEN [store EXCEPT !.slots = AppendSlot(@, e)]
                   ELSE [store EXCEPT !.fEos = PutIn(@, Eos[e].rcPrev, e)]
       /\ timed' = IF verdict = "yes" THEN timed ELSE timed \cup {Eos[e].rcPrev}
       /\ todo' = IF verdict = "yes" THEN At(store.fIp, e) ELSE {}
    /\ UNCHANGED <<known, peak, posted>>

(* respond_signage_point and new_signage_point_vdf, under timelord_lock.   *)
(* A caller first asks whether there is a newer one; add_to_future_sp.     *)
RespondSignagePoint(sp) ==
    /\ todo = {} /\ ~HaveSp(store.slots, sp) /\ ~HaveNewer(store.slots, sp)
    /\ LET added == SpAdded(store.slots, sp, peak) IN
       /\ store' = IF added THEN [store EXCEPT !.slots = PutSp(@, sp)]
                   ELSE [store EXCEPT !.fSp = PutIn(@, sp.rc, sp)]
       /\ timed' = IF added THEN timed ELSE timed \cup {sp.rc}
    /\ UNCHANGED <<known, peak, posted, todo>>
-----------------------------------------------------------------------------
(* new_infusion_point_vdf goes back through the slots it has.              *)
Backtrack[n \in 0..10, rc \in Bundle \cup Block \cup {GENESIS}] ==
    IF n = 0 THEN rc
    ELSE LET e == store.slots[n].eos IN
         Backtrack[n - 1, IF e # GENESIS /\ e = rc THEN Eos[e].rcPrev ELSE rc]

LastCC(b) ==
    LET firsts == {c \in Ancestors[b] : Blk[c].first}
        c == CHOOSE c \in firsts : \A d \in firsts : Blk[d].iters <= Blk[c].iters IN
    IF firsts = {} THEN GENESIS ELSE CC(Blk[c].slot)

(* get_finished_sub_slots: the slots between prev and the challenge cc,    *)
(* as a set of sequences with at most one element.                         *)
FinishedSubSlots(s, prev, cc) ==
    LET from == IF prev = NoBlock THEN GENESIS ELSE LastCC(prev)
        lo == {i \in 2..Len(s) : Eos[s[i].eos].ccPrev = from}
        hi == {j \in 2..Len(s) : CC(s[j].eos) = cc /\ \E i \in lo : i <= j} IN
    IF prev = NoBlock /\ s[1].eos # GENESIS THEN {}
    ELSE IF cc = from THEN {<<>>}
    ELSE {[k \in 1..(j - i + 1) |-> s[i + k - 1].eos] : i \in lo, j \in hi}

(* The block before the infusion: genesis has none.                        *)
PrevOf(rc) == Backtrack[Len(store.slots), rc]

(* The infusion of block b: what was infused before it, and its slot.      *)
IpRc(b) ==
    IF Blk[b].first THEN Blk[b].slot ELSE IF Blk[b].prev = NoBlock THEN GENESIS ELSE Blk[b].prev

(* What new_infusion_point_vdf makes of the infusion of b: nothing, when   *)
(* slots are missing, or a previous block and the slots in between.        *)
Connected(b) == LET rc == PrevOf(IpRc(b)) IN rc = GENESIS \/ (peak # NoBlock /\ rc \in Ancestors[peak])
Builds(b) ==
    LET rc == PrevOf(IpRc(b))
        prev == IF rc = GENESIS THEN NoBlock ELSE rc IN
    IF ~Connected(b) \/ ~(Blk[b].spSlot = GENESIS \/ HasSlot(store.slots, CC(Blk[b].spSlot))) THEN {}
    ELSE {[prev |-> prev, slots |-> fs] : fs \in FinishedSubSlots(store.slots, prev, CC(Blk[b].slot))}

(* When these are b's, the block is b and respond_block adds it; otherwise *)
(* it is another block, which validation refuses.                          *)
InfuseHere(b) ==
    /\ store' = IF Connected(b) THEN store ELSE [store EXCEPT !.fIp = PutIn(@, IpRc(b), b)]
    /\ IF CanAdd(b) /\ [prev |-> Blk[b].prev, slots |-> Blk[b].newSlots] \in Builds(b)
       THEN AddBlock(b) ELSE UNCHANGED <<known, peak>>

(* new_infusion_point_vdf: from the timelord under timelord_lock, or an    *)
(* infusion that waited for an end of sub-slot.  respond_block waits for   *)
(* the blockchain's lock.                                                  *)
NewInfusionPoint(b) ==
    /\ peak = posted /\ IF todo = {} THEN TRUE ELSE b \in todo
    /\ InfuseHere(b)
    /\ todo' = todo \ {b}
    /\ UNCHANGED <<posted, timed>>

(* clear_old_cache_entries, of keys older than an hour.                    *)
ClearOldCacheEntries(K) ==
    /\ timed' = timed \ K
    /\ store' = [store EXCEPT !.fEos = [k \in DOMAIN @ \ K |-> @[k]],
                 !.fSp = [k \in DOMAIN @ \ K |-> @[k]], !.fIp = [k \in DOMAIN @ \ K |-> @[k]]]
    /\ UNCHANGED <<known, peak, posted, todo>>

(* The timelord's messages end in the same handlers.                       *)
NewEndOfSubSlotVdf(e) == ~HasSlot(store.slots, Eos[e].cc) /\ RespondEndOfSubSlot(e)
NewSignagePointVdf(sp) == RespondSignagePoint(sp)

StoreNext ==
    \/ \E b \in Block : ReceiveBlock(b) \/ NewInfusionPoint(b)
    \/ PeakPost
    \/ \E e \in Bundle : RespondEndOfSubSlot(e) \/ NewEndOfSubSlotVdf(e)
    \/ \E sp \in SpMsgs : RespondSignagePoint(sp) \/ NewSignagePointVdf(sp)
    \/ \E k \in timed : ClearOldCacheEntries({k})

StoreSpec == StoreInit /\ [][StoreNext]_storeVars
-----------------------------------------------------------------------------
(* The slots are one challenge chain, of consecutive sub-slots.            *)
SlotsConnected ==
    \A i \in 2..Len(store.slots) :
        /\ Eos[store.slots[i].eos].ccPrev = CC(store.slots[i - 1].eos)
        /\ store.slots[i].start = store.slots[i - 1].start + SlotIters

(* Once the store has followed the peak, the slots after the peak's one    *)
(* have nothing infused between the peak and them.                         *)
SlotsFollowPeak ==
    peak = posted =>
        \A i \in 2..Len(store.slots) :
            (peak = NoBlock \/ store.slots[i].start > Blk[peak].iters) =>
                Eos[store.slots[i].eos].rcPrev =
                    IF peak # NoBlock /\ Blk[peak].iters > store.slots[i - 1].start
                    THEN peak ELSE store.slots[i - 1].eos

(* A signage point after the peak, in the store, starts from the peak or   *)
(* from an end of sub-slot after it: farmers are sent points on which a    *)
(* block can be made.                                                      *)
SpsFollowPeak ==
    peak = posted =>
        \A i \in 1..Len(store.slots), k \in 1..(NumSps - 1) :
            LET sp == store.slots[i].sps[k] IN
            (sp # NoSp /\ (peak = NoBlock \/ store.slots[i].start + k * Interval > Blk[peak].iters)) =>
                sp = IF peak # NoBlock /\ Blk[peak].iters > store.slots[i].start THEN peak ELSE store.slots[i].eos

(* A block made from an infusion point is the block the timelord infused.  *)
InfusedAsSent ==
    \A b \in Block : \A m \in Builds(b) : m.prev = Blk[b].prev /\ m.slots = Blk[b].newSlots

(* Every end of sub-slot and signage point that waits has a time, so it    *)
(* can expire.  (An infusion point may wait under a key without one:       *)
(* add_to_future_ip does not set it.)                                      *)
FutureIsTimed == (DOMAIN store.fEos \cup DOMAIN store.fSp) \subseteq timed

(* Whatever order things arrive in, the store fits the peak, and blocks    *)
(* come out as they were infused.                                          *)
StoreFollowsPeak ==
    /\ SlotsConnected
    /\ SlotsFollowPeak
    /\ SpsFollowPeak
    /\ InfusedAsSent
    /\ FutureIsTimed
=============================================================================
