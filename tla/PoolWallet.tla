----------------------------- MODULE PoolWallet -----------------------------
(***************************************************************************)
(* A plot NFT: PoolWallet (pools/pool_wallet.py), its list of spends       *)
(* (wallet/wallet_pool_store.py), the puzzles (pools/pool_puzzles.py) and  *)
(* the entry of the pool list in the config file that the farmer reads.    *)
(*                                                                         *)
(* A singleton coin is the sequence of the inner puzzles of its line; the  *)
(* launcher coin is <<>>.  A spend is [coin, to: the puzzle it creates,    *)
(* st: the pool state in its solution if any, reward: the height of the    *)
(* reward it absorbs, or 0].  Fees are left out.                           *)
(*                                                                         *)
(* A peak is handled under the wallet's lock: the rollback is one database *)
(* transaction, the new coin states another.  The config file is written   *)
(* in the middle of them and is not rolled back with them.                 *)
(***************************************************************************)
EXTENDS Naturals, FiniteSets, Sequences, SequencesExt

CONSTANTS
    Pools, LockOf,                     \* pools and their relative_lock_height
    MINIMUM_RELATIVE_LOCK_HEIGHT, max_spends_in_tx,
    RewardHeights,                     \* blocks won by the plots of this plot NFT
    StartStates,                       \* initial_target_state of the launcher
    MaxHeight, MaxAhead, MaxDepth, MaxReorgs, MaxAsks, MaxPoolFaults   \* bounds

VARIABLES
    launch,    \* the launcher's spend, made by the standard wallet
    chain,     \* blocks: [fork: which branch made it, spends, reward: one for this plot NFT]
    seen,      \* the chain the wallet has handled
    pw,        \* the wallet: [hist, target, config, torn, ghost]
    txs,       \* its transactions: [spends, conf: height or 0 if pending]
    told,      \* new_peak has been called since the last peak
    fresh,     \* the next sync goes back to the start
    missed,    \* coin states were lost in a transaction that failed
    raced,     \* a pending spend was overtaken by somebody else's
    refused,   \* a transaction could not be made after target_state was set
    reorgs, asks, poolFaults

poolWalletVars == <<launch, chain, seen, pw, txs, told, fresh, missed, raced, refused, reorgs, asks, poolFaults>>

Self == [state |-> "SELF_POOLING", pool |-> "me"]
Farming(p) == [state |-> "FARMING_TO_POOL", pool |-> p]
Leaving(p) == [state |-> "LEAVING_POOL", pool |-> p]
RelativeLock(p) == IF p = "me" THEN 0 ELSE LockOf[p]
NoWallet == [hist |-> <<>>, target |-> {}, config |-> {}, torn |-> FALSE, ghost |-> FALSE]
-----------------------------------------------------------------------------
(* Puzzles.  A member can only go to its waiting room.                     *)
create_waiting_room_inner_puzzle(p) == <<"waiting", p>>
create_pooling_inner_puzzle(p) == <<"member", p>>

pool_state_to_inner_puzzle(s) ==
    IF s.state \in {"LEAVING_POOL", "SELF_POOLING"} THEN create_waiting_room_inner_puzzle(s.pool)
    ELSE create_pooling_inner_puzzle(s.pool)

get_most_recent_singleton_coin(spend) == Append(spend.coin, spend.to)

solution_to_pool_state(spend) == spend.st

(* Of a member the chain makes the waiting room, whatever the solution.    *)
create_travel_spend(coin, current, target) ==
    [coin |-> coin, st |-> {target}, reward |-> 0,
     to |-> IF current.state = "FARMING_TO_POOL" THEN create_waiting_room_inner_puzzle(current.pool)
            ELSE pool_state_to_inner_puzzle(target)]

create_absorb_spend(coin, current, height) ==
    [coin |-> coin, st |-> {}, reward |-> height, to |-> pool_state_to_inner_puzzle(current)]

generate_launcher_spend(s) ==
    [coin |-> <<>>, st |-> {s}, reward |-> 0, to |-> pool_state_to_inner_puzzle(s)]
-----------------------------------------------------------------------------
(* The chain (external).                                                   *)
Located(c) == FoldLeft(LAMBDA s, h : s \o [i \in DOMAIN c[h].spends |-> [h |-> h, spend |-> c[h].spends[i]]],
                       <<>>, [h \in DOMAIN c |-> h])

RewardsOf(c) == {h \in DOMAIN c : c[h].reward} \ {Located(c)[i].spend.reward : i \in DOMAIN Located(c)}

(* spend may be in the next block of c, after the spends before.           *)
Allowed(c, before, spend) ==
    LET line == Located(c) \o [i \in DOMAIN before |-> [h |-> Len(c) + 1, spend |-> before[i]]]
        tip == Last(line)
        puz == tip.spend.to IN
    IF line = <<>> THEN spend = launch
    ELSE
    /\ spend.coin = get_most_recent_singleton_coin(tip.spend)
    /\ IF spend.reward # 0
       THEN spend.to = puz /\ spend.reward \in RewardsOf(c) \ {before[i].reward : i \in DOMAIN before}
       ELSE IF puz[1] = "member" THEN spend.to = create_waiting_room_inner_puzzle(puz[2])
       ELSE Len(c) >= tip.h + RelativeLock(puz[2])

BundleAllowed(c, spends) ==
    \A i \in DOMAIN spends : Allowed(c, SubSeq(spends, 1, i - 1), spends[i])
-----------------------------------------------------------------------------
(* The latest pool state in the list of spends.                            *)
LatestState(hist) == LET stated == SelectSeq(hist, LAMBDA e : solution_to_pool_state(e.spend) # {})
                     IN  CHOOSE s \in solution_to_pool_state(Last(stated).spend) : TRUE

get_current_state(w) == LatestState(w.hist)
get_tip(w) == Last(w.hist)
tip_singleton_coin(w) == get_most_recent_singleton_coin(get_tip(w).spend)

update_pool_config(w) == [w EXCEPT !.config = {get_current_state(w)}, !.torn = FALSE]

add_spend(w, e) == [w EXCEPT !.hist = Append(@, e)]

(* A spend of another coin than the tip is refused.                        *)
apply_state_transition(w, e) ==
    IF e.spend.coin # tip_singleton_coin(w) THEN w
    ELSE LET added == add_spend(w, e)
             reached == added.target = {get_current_state(added)} IN
         update_pool_config([added EXCEPT !.target = IF reached THEN {} ELSE @])

create(w, e) == update_pool_config(add_spend([NoWallet EXCEPT !.config = w.config], e))


rollback(w, height) == [w EXCEPT !.hist = SelectSeq(@, LAMBDA e : e.h <= height)]

(* The wallet is removed if it was created after height; get_current_state *)
(* raises, and nothing is done, where there are no spends.                 *)
rewind(w, height) ==
    IF w.hist = <<>> THEN w
    ELSE IF w.hist[1].h > height THEN [NoWallet EXCEPT !.config = w.config]
    ELSE IF rollback(w, height) = w THEN w
    ELSE update_pool_config(rollback(w, height))
-----------------------------------------------------------------------------
PoolWalletInit ==
    /\ \E s \in StartStates : launch = generate_launcher_spend(s)
    /\ chain = <<>> /\ seen = <<>> /\ pw = NoWallet /\ txs = {} /\ told = TRUE /\ fresh = TRUE
    /\ missed = FALSE /\ raced = FALSE /\ refused = FALSE /\ reorgs = 0 /\ asks = 0 /\ poolFaults = 0

(* A block (external): empty, or with a transaction of the wallet, or an   *)
(* absorb of the pool; it may be a reward for this plot NFT.               *)
PoolAbsorbs == IF Located(chain) = <<>> THEN {} ELSE
               {<<[coin |-> get_most_recent_singleton_coin(Last(Located(chain)).spend), st |-> {},
                  reward |-> h, to |-> Last(Located(chain)).spend.to]>> : h \in RewardsOf(chain)}

Block ==
    /\ Len(chain) < MaxHeight /\ Len(chain) < Len(seen) + MaxAhead
    /\ \E spends \in {<<>>, <<launch>>} \cup {t.spends : t \in txs} \cup PoolAbsorbs :
          /\ chain = <<>> => spends = <<launch>>
          /\ BundleAllowed(chain, spends)
          /\ chain' = Append(chain, [fork |-> reorgs, spends |-> spends, reward |-> Len(chain) + 1 \in RewardHeights])
    /\ UNCHANGED <<launch, seen, pw, txs, told, fresh, missed, raced, refused, reorgs, asks, poolFaults>>

(* The blocks above h are given up; other ones follow.                     *)
ChainReorg(h) ==
    /\ reorgs < MaxReorgs /\ h < Len(chain) /\ Len(chain) - h <= MaxDepth /\ reorgs' = reorgs + 1
    /\ chain' = SubSeq(chain, 1, h)
    /\ UNCHANGED <<launch, seen, pw, txs, told, fresh, missed, raced, refused, asks, poolFaults>>
-----------------------------------------------------------------------------
ForkHeight == Cardinality({h \in DOMAIN seen : SubSeq(seen, 1, h) = SubSeq(chain, 1, h)})

(* tx_reorged for those confirmed above height.                            *)
Reorged(height) == {IF t.conf > height THEN [t EXCEPT !.conf = 0] ELSE t : t \in txs}

(* set_confirmed for every transaction that spends a coin found spent.     *)
Confirmed(ts, line) ==
    {LET by == {i \in DOMAIN line : line[i].spend.coin \in {t.spends[j].coin : j \in DOMAIN t.spends}}
     IN  IF by = {} THEN t ELSE [t EXCEPT !.conf = line[CHOOSE i \in by : TRUE].h] : t \in ts}

(* ... and one of them is confirmed by a spend that is not its own.        *)
Overtaken(ts, line) ==
    \E t \in ts : \E i \in DOMAIN line, j \in DOMAIN t.spends :
        line[i].spend.coin = t.spends[j].coin /\ line[i].spend # t.spends[j]

(* new_coin_state for the states of line, each singleton followed to its   *)
(* end: the launcher creates the wallet.                                   *)
Follow(w, line) ==
    FoldLeft(LAMBDA v, e : IF e.spend.coin # <<>> THEN apply_state_transition(v, e)
                           ELSE IF v.hist = <<>> THEN create(v, e) ELSE v, w, line)

(* The spends that are reported: those above from, if they go on from what *)
(* the wallet has.                                                         *)
Reported(w, from) ==
    LET line == Located(chain)
        new == SelectSeq(line, LAMBDA e : e.h > from)
        heard == \E i \in DOMAIN new :
                    new[i].spend.coin = IF w.hist = <<>> THEN <<>> ELSE tip_singleton_coin(w) IN
    IF heard THEN line ELSE <<>>

(* A wallet object without spends makes the search for it raise.           *)
Blocked(w, line) == w.ghost /\ \E i \in DOMAIN line : line[i].spend.coin = <<>>

(* What is left of a transaction that did as in new before it failed.      *)
Undone(w, new) == [w EXCEPT !.target = new.target, !.config = new.config,
                            !.torn = (new # w) \/ w.torn, !.ghost = w.ghost \/ (w.hist = <<>> /\ new.hist # <<>>)]

HeardOfPeak == /\ told /\ chain # seen /\ Len(chain) >= Len(seen)
         /\ seen' = chain /\ told' = FALSE /\ fresh' = FALSE

Sync ==
    /\ HeardOfPeak
    /\ LET from == IF fresh THEN 0 ELSE ForkHeight
           back == IF ForkHeight < Len(seen) THEN rewind(pw, ForkHeight) ELSE pw
           line == Reported(back, from) IN
       IF Blocked(back, line) THEN pw' = back /\ txs' = Reorged(ForkHeight) /\ missed' = TRUE /\ UNCHANGED raced
       ELSE /\ pw' = Follow(back, line)
            /\ txs' = Confirmed(Reorged(ForkHeight), line)
            /\ raced' = (raced \/ Overtaken(Reorged(ForkHeight), line))
            /\ missed' = (missed /\ Located(chain) # pw'.hist)
    /\ UNCHANGED <<launch, chain, refused, reorgs, asks, poolFaults>>

(* The transaction with the new states fails after n of them.              *)
PoolSyncFails ==
    /\ HeardOfPeak /\ poolFaults < MaxPoolFaults /\ poolFaults' = poolFaults + 1
    /\ LET from == IF fresh THEN 0 ELSE ForkHeight
           back == IF ForkHeight < Len(seen) THEN rewind(pw, ForkHeight) ELSE pw
           line == Reported(back, from) IN
       /\ ~Blocked(back, line) /\ line # <<>>
       /\ \E n \in 0..Len(line) : pw' = Undone(back, Follow(back, SubSeq(line, 1, n)))
    /\ txs' = Reorged(ForkHeight) /\ missed' = TRUE
    /\ UNCHANGED <<launch, chain, raced, refused, reorgs, asks>>

(* The rollback fails, or the process ends before it is committed.         *)
RollbackFails ==
    /\ poolFaults < MaxPoolFaults /\ poolFaults' = poolFaults + 1
    /\ told /\ Len(chain) >= Len(seen) /\ ForkHeight < Len(seen)
    /\ pw' = [Undone(pw, rewind(pw, ForkHeight)) EXCEPT !.target = pw.target, !.ghost = pw.ghost]
    /\ UNCHANGED <<launch, chain, seen, txs, told, fresh, missed, raced, refused, reorgs, asks>>

(* The wallet process starts again; target_state is not stored.            *)
RestartPoolWallet ==
    /\ poolFaults < MaxPoolFaults /\ poolFaults' = poolFaults + 1
    /\ pw' = [pw EXCEPT !.target = {}, !.ghost = FALSE]
    /\ told' = TRUE /\ fresh' = TRUE
    /\ UNCHANGED <<launch, chain, seen, txs, missed, raced, refused, reorgs, asks>>
-----------------------------------------------------------------------------
have_unconfirmed_transaction == \E t \in txs : t.conf = 0

publish(spends) == txs' = txs \cup {[spends |-> spends, conf |-> 0]}

NextState(current, target) ==
    IF current.state = "FARMING_TO_POOL" THEN Leaving(current.pool) ELSE target

(* It raises if the fee cannot be paid; target_state stays set.            *)
generate_travel_transactions(target) ==
    LET current == get_current_state(pw) IN
    \/ /\ publish(<<create_travel_spend(tip_singleton_coin(pw), current, NextState(current, target))>>)
       /\ UNCHANGED <<refused, poolFaults>>
    \/ poolFaults < MaxPoolFaults /\ poolFaults' = poolFaults + 1 /\ refused' = TRUE /\ UNCHANGED txs

(* Mutant: not asked.                                                      *)
StillLockedNot(w) == FALSE

(* The waiting time after leaving.                                         *)
StillLocked(w) ==
    LET current == get_current_state(w) IN
    current.state = "LEAVING_POOL" /\ Len(seen) <= get_tip(w).h + RelativeLock(current.pool)

_verify_pool_state(s) ==
    s.state # "SELF_POOLING" => LockOf[s.pool] >= MINIMUM_RELATIVE_LOCK_HEIGHT

Ask == asks < MaxAsks /\ asks' = asks + 1

Ready == pw.hist # <<>> /\ pw.target = {} /\ ~have_unconfirmed_transaction /\ ~StillLocked(pw)

Travel(target) ==
    /\ Ask /\ pw' = [pw EXCEPT !.target = {target}]
    /\ generate_travel_transactions(target)
    /\ UNCHANGED <<launch, chain, seen, told, fresh, missed, raced, reorgs>>

join_pool(p) ==
    /\ Ready /\ get_current_state(pw) # Farming(p) /\ _verify_pool_state(Farming(p))
    /\ Travel(Farming(p))

self_pool == Ready /\ get_current_state(pw).state # "SELF_POOLING" /\ Travel(Self)

(* Each absorb goes on from the one before.                                *)
Absorbs(rewards) ==
    FoldLeft(LAMBDA s, h : Append(s, create_absorb_spend(
                 IF s = <<>> THEN tip_singleton_coin(pw) ELSE get_most_recent_singleton_coin(Last(s)),
                 get_current_state(pw), h)), <<>>, SetToSortSeq(rewards, <))

claim_pool_rewards ==
    /\ Ask /\ pw.hist # <<>> /\ ~have_unconfirmed_transaction /\ RewardsOf(seen) # {}
    /\ \E rewards \in SUBSET RewardsOf(seen) :
          /\ 2 * (Cardinality(rewards) - 1) < max_spends_in_tx
          /\ rewards = RewardsOf(seen) \/ 2 * Cardinality(rewards) >= max_spends_in_tx
          /\ publish(Absorbs(rewards))
    /\ UNCHANGED <<launch, chain, seen, pw, told, fresh, missed, raced, refused, reorgs, poolFaults>>

delete_unconfirmed_transactions ==
    /\ Ask /\ pw.hist # <<>> /\ (have_unconfirmed_transaction \/ pw.target # {})
    /\ txs' = {t \in txs : t.conf # 0} /\ pw' = [pw EXCEPT !.target = {}]
    /\ UNCHANGED <<launch, chain, seen, told, fresh, missed, raced, refused, reorgs, poolFaults>>

AlreadySubmitted(coin) ==
    \E t \in txs : t.conf = 0 /\ \E i \in DOMAIN t.spends : t.spends[i].coin = coin

(* The second step of leaving, two blocks later than it could be.          *)
new_peak ==
    /\ ~told /\ told' = TRUE
    /\ IF /\ pw.hist # <<>> /\ pw.target # {} /\ get_current_state(pw).state = "LEAVING_POOL"
          /\ Len(seen) > get_tip(pw).h + RelativeLock(get_current_state(pw).pool) + 2
          /\ ~AlreadySubmitted(tip_singleton_coin(pw))
       THEN \E t \in pw.target : generate_travel_transactions(t)
       ELSE UNCHANGED <<txs, refused, poolFaults>>
    /\ UNCHANGED <<launch, chain, seen, pw, fresh, missed, raced, reorgs, asks>>
-----------------------------------------------------------------------------
PoolWalletNext ==
    \/ Block \/ \E h \in 0..MaxHeight : ChainReorg(h)
    \/ Sync \/ PoolSyncFails \/ RollbackFails \/ RestartPoolWallet
    \/ \E p \in Pools : join_pool(p)
    \/ self_pool \/ claim_pool_rewards \/ delete_unconfirmed_transactions \/ new_peak

PoolWalletSpec == PoolWalletInit /\ [][PoolWalletNext]_poolWalletVars
-----------------------------------------------------------------------------
(* The wallet's list of spends is the singleton's line on the chain it has *)
(* handled (WalletPoolStore through reorgs, failures and restarts), unless *)
(* a transaction with coin states failed.                                  *)
HistoryFollows == ~missed => pw.hist = Located(seen)

(* The pool state read from the spends gives the puzzle of the coin that   *)
(* is to be spent next (get_current_state, pool_state_to_inner_puzzle);    *)
(* otherwise the singleton could not be spent any more.                    *)
TipIsSpendable ==
    pw.hist # <<>> => pool_state_to_inner_puzzle(get_current_state(pw)) = get_tip(pw).spend.to

(* The farmer's config entry tells the pool of the current state           *)
(* (update_pool_config), unless a transaction failed after writing it.     *)
ConfigFollows == pw.hist # <<>> /\ ~pw.torn => pw.config = {get_current_state(pw)}

(* A transaction that the wallet makes is valid in the next block of the   *)
(* chain it has handled: the lock has passed, the line is unbroken.        *)
SubmittedIsValid ==
    [][\A t \in txs' \ txs : t.conf = 0 /\ seen' = seen /\ pw.hist = Located(seen) => BundleAllowed(seen, t.spends)]_poolWalletVars

(* No two pending transactions of the wallet spend the same singleton, so  *)
(* that none of them is lost (have_unconfirmed_transaction, new_peak).     *)
OnePending ==
    \A t, u \in txs : t # u /\ t.conf = 0 /\ u.conf = 0 =>
        {t.spends[i].coin : i \in DOMAIN t.spends} \cap {u.spends[i].coin : i \in DOMAIN u.spends} = {}

(* A target is worked on: a transaction is pending, or the wait for the    *)
(* second step goes on.  It is not after somebody else spent the singleton *)
(* first, or a transaction could not be made.                              *)
TargetIsPursued ==
    pw.hist # <<>> /\ pw.target # {} /\ ~raced /\ ~refused /\ ~missed =>
        have_unconfirmed_transaction \/ get_current_state(pw).state = "LEAVING_POOL"

=============================================================================
