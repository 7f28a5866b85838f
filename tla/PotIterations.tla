---------------------------- MODULE PotIterations ----------------------------
(***************************************************************************)
(* Where signage and infusion points are in a sub-slot, and the deficit    *)
(* (consensus/pot_iterations.py, deficit.py, block_record.py).             *)
(*                                                                         *)
(* The operators have the code's names for the constants.  required_iters  *)
(* comes from the proof of space and is an input.                          *)
(***************************************************************************)
EXTENDS Integers

CONSTANTS
    NUM_SPS_SUB_SLOT, NUM_SP_INTERVALS_EXTRA, MIN_BLOCKS_PER_CHALLENGE_BLOCK

ASSUME IterationConstants ==
    /\ NUM_SPS_SUB_SLOT \in Nat /\ NUM_SP_INTERVALS_EXTRA \in Nat \ {0}
    /\ NUM_SP_INTERVALS_EXTRA < NUM_SPS_SUB_SLOT
    /\ MIN_BLOCKS_PER_CHALLENGE_BLOCK \in Nat \ {0}

is_overflow_block(sp) == sp >= NUM_SPS_SUB_SLOT - NUM_SP_INTERVALS_EXTRA

calculate_sp_interval_iters(ssi) == ssi \div NUM_SPS_SUB_SLOT

calculate_sp_iters(ssi, sp) == calculate_sp_interval_iters(ssi) * sp

(* What calculate_ip_iters demands of its arguments, and raises without.   *)
CanCalculateIp(ssi, sp, req) ==
    /\ ssi % NUM_SPS_SUB_SLOT = 0
    /\ sp \in 0..(NUM_SPS_SUB_SLOT - 1)
    /\ req \in 1..(calculate_sp_interval_iters(ssi) - 1)

calculate_ip_iters(ssi, sp, req) ==
    (calculate_sp_iters(ssi, sp) + NUM_SP_INTERVALS_EXTRA * calculate_sp_interval_iters(ssi) + req) % ssi

(* The properties of BlockRecord.                                          *)
ip_iters(b) == calculate_ip_iters(b.ssi, b.sp, b.req)
sp_iters(b) == calculate_sp_iters(b.ssi, b.sp)
ip_sub_slot_total_iters(b) == b.ti - ip_iters(b)
sp_sub_slot_total_iters(b) == b.ti - ip_iters(b) - (IF is_overflow_block(b.sp) THEN b.ssi ELSE 0)
sp_total_iters(b) == sp_sub_slot_total_iters(b) + sp_iters(b)
is_challenge_block(b) == b.deficit = MIN_BLOCKS_PER_CHALLENGE_BLOCK - 1

(* calculate_deficit; prev is the deficit of the previous block, n the     *)
(* number of sub-slots finished since it.                                  *)
calculate_deficit(height, prev, overflow, n) ==
    IF height = 0 THEN MIN_BLOCKS_PER_CHALLENGE_BLOCK - 1
    ELSE IF prev = MIN_BLOCKS_PER_CHALLENGE_BLOCK
         THEN IF overflow /\ n = 0 THEN prev ELSE prev - 1
    ELSE IF prev = 0
         THEN IF n = 0 THEN 0
              ELSE IF n = 1 /\ overflow THEN MIN_BLOCKS_PER_CHALLENGE_BLOCK
              ELSE MIN_BLOCKS_PER_CHALLENGE_BLOCK - 1
    ELSE prev - 1
=============================================================================
