------------------------------- MODULE Trades -------------------------------
(***************************************************************************)
(* Offers (wallet/trading/offer.py) and the trades that wallets make of    *)
(* them (wallet/trade_manager.py, wallet/trading/trade_store.py).          *)
(*                                                                         *)
(* An offer gives an amount of one asset for an amount of another.  It is  *)
(* [legs, pays]: a leg is the coins of one owner with the amount they      *)
(* settle and the announcements they assert, a payment is what is asked.   *)
(* An offer is its own name.  What a trade pays is not spent again here.   *)
(*                                                                         *)
(* Wallets are told of more than their own coins, but new_coin_state finds *)
(* no wallet for the others and skips them before it looks at trades.      *)
(*                                                                         *)
(* RPCs hold wallet_state_manager.lock: jobs[w] is what is left of the one *)
(* that runs.  Its writes wait for db_wrapper.lock, which sync[w] holds.   *)
(***************************************************************************)
EXTENDS Integers, FiniteSets, Sequences, SequencesExt, FiniteSetsExt, Functions

CONSTANTS Traders,          \* wallets
          Stranger,         \* owner of coins, whose wallet is not looked at
          Assets, CoinOwner, CoinAsset, CoinValue,
          GiveAmounts, WantAmounts,
          MaxTrades,        \* per wallet
          MaxCancels, MaxFaults

VARIABLES trades,     \* trade_records of each wallet, in order of row id
          tradeTxs,   \* [trade, coins]: unconfirmed transaction records
          jobs,       \* operations of the running RPC
          sync,       \* coin states that are being added
          inbox,      \* own coins spent on the chain, to be told
          pushed,     \* bundles in the mempools
          spentIn,    \* coin -> what has spent it
          softly,     \* <<wallet, offer>>: cancelled without a spend
          overtaken,  \* wallets whose new status of a trade was not written
                      \* before they heard of its coins
          cancels, faults

tradeVars == <<trades, tradeTxs, jobs, sync, inbox, pushed, spentIn, softly, overtaken, cancels, faults>>

AllCoins == DOMAIN CoinOwner
Unspent == <<>>
Pending == {"PENDING_ACCEPT", "PENDING_CONFIRM", "PENDING_CANCEL"}
NoSync == [busy |-> FALSE, batch |-> {}, removed |-> {}]

-----------------------------------------------------------------------------
(* Offers.                                                                 *)

(* A payment to an address that is not used before, for certain coins.     *)
notarize_payments(w, asset, amount, coins) ==
    {[to |-> w, address |-> IF w = Stranger THEN 0 ELSE Len(trades[w]), asset |-> asset, amount |-> amount, nonce |-> coins]}

(* Payments of one asset and nonce are announced together.                 *)
calculate_announcements(pays) ==
    {<<p.asset, {q \in pays : q.asset = p.asset /\ q.nonce = p.nonce}>> : p \in pays}

(* _create_offer_for_ids: coins, one of which creates the outputs, for a   *)
(* payment.                                                                *)
_create_offer_for_ids(w, coins, origin, give, asset, amount) ==
    LET pays == notarize_payments(w, asset, amount, coins) IN
    [legs |-> {[owner |-> w, asset |-> CoinAsset[origin], coins |-> coins, origin |-> origin, amount |-> give,
                price |-> amount, asserts |-> calculate_announcements(pays)]},
     pays |-> pays]

AmountOf(S, asset) == MapThenSumSet(LAMBDA x : x.amount, {x \in S : x.asset = asset})
AssetsOf(o) == {x.asset : x \in o.legs \cup o.pays}

arbitrage(o) == [a \in AssetsOf(o) |-> AmountOf(o.legs, a) - AmountOf(o.pays, a)]
is_valid(o) == \A a \in AssetsOf(o) : arbitrage(o)[a] >= 0

get_involved_coins(o) == UNION {l.coins : l \in o.legs}
get_primary_coins(o) == {l.origin : l \in o.legs}

(* aggregate: {} if inputs overlap.                                        *)
aggregate(o, p) ==
    IF get_involved_coins(o) \cap get_involved_coins(p) # {} THEN {}
    ELSE {[legs |-> o.legs \cup p.legs, pays |-> o.pays \cup p.pays]}

(* to_valid_spend, which finds no place for leftovers.                     *)
to_valid_spend(o) == IF is_valid(o) /\ \A p \in o.pays : arbitrage(o)[p.asset] = 0 THEN {o} ELSE {}

-----------------------------------------------------------------------------
(* The store.                                                              *)

(* add_trade_record: INSERT OR REPLACE, which makes it the last row.       *)
add_trade_record(rows, r) == Append(SelectSeq(rows, LAMBDA x : x.offer # r.offer), r)

Row(w, o) == {k \in DOMAIN trades[w] : trades[w][k].offer = o}
set_status(rows, o, status) ==
    FoldLeft(LAMBDA acc, r : IF r.offer = o THEN add_trade_record(acc, [r EXCEPT !.status = status]) ELSE acc, rows, rows)

(* get_trade_by_coin.                                                      *)
get_trade_by_coin(rows, c) ==
    LET found == SelectSeq(rows, LAMBDA r : r.status # "CANCELLED" /\ c \in get_involved_coins(r.offer)) IN
    IF found = <<>> THEN {} ELSE {Head(found)}

PendingCoins(rows) == UNION {get_involved_coins(r.offer) : r \in {x \in ToSet(rows) : x.status \in Pending}}

get_coins_of_interest(w) == PendingCoins(trades[w])

(* Mutant: a trade that is being cancelled locks nothing.                  *)
get_locked_coins_open(w) ==
    UNION {get_involved_coins(r.offer) : r \in {x \in ToSet(trades[w]) : x.status \in Pending \ {"PENDING_CANCEL"}}}

get_locked_coins(w) == PendingCoins(trades[w])

(* get_spendable_coins_for_wallet, as far as this wallet knows.            *)
Spendable(w) ==
    {c \in AllCoins : CoinOwner[c] = w /\ (spentIn[c] = Unspent \/ c \in inbox[w] \cup sync[w].batch)}
      \ (get_locked_coins(w) \cup UNION {t.coins : t \in tradeTxs[w]})

(* Coins that cover an amount and are all needed.                          *)
Selections(S, asset, amount) ==
    LET own == {c \in S : CoinAsset[c] = asset}
        covers(T) == MapThenSumSet(LAMBDA c : CoinValue[c], T) >= amount IN
    {T \in SUBSET own : covers(T) /\ \A c \in T : ~covers(T \ {c})}

-----------------------------------------------------------------------------
(* RPCs.                                                                   *)

Idle(w) == jobs[w] = <<>>
Room(w) == Len(trades[w]) < MaxTrades
Record(o, status) == [offer |-> o, status |-> status]
DoLater(w, ops) == jobs' = [jobs EXCEPT ![w] = ops]
SaveOp(r) == [op |-> "save", row |-> r]
PushOp(b) == [op |-> "push", bundle |-> b]
TxsOp(o, coins) == [op |-> "txs", tx |-> [trade |-> o, coins |-> coins]]
StatusOp(o, status) == [op |-> "status", offer |-> o, status |-> status]

create_offer_for_ids(w, give, asset, amount, wanted) ==
    /\ Idle(w) /\ Room(w) /\ asset # wanted
    /\ \E S \in Selections(Spendable(w), asset, give) : \E origin \in S :
          DoLater(w, <<SaveOp(Record(_create_offer_for_ids(w, S, origin, give, wanted, amount), "PENDING_ACCEPT"))>>)
    /\ UNCHANGED <<trades, tradeTxs, sync, inbox, pushed, spentIn, softly, overtaken, cancels, faults>>

(* An offer that somebody has made, in whatever state it is.               *)
Published == {r.offer : r \in {x \in UNION {ToSet(trades[w]) : w \in Traders} : Cardinality(x.offer.legs) = 1}}

check_offer_validity(o) == \A c \in get_involved_coins(o) : spentIn[c] = Unspent

(* The other side of an offer.                                             *)
Counters(w, S, o) ==
    LET a == arbitrage(o)
        asked == CHOOSE x \in AssetsOf(o) : a[x] < 0
        given == CHOOSE x \in AssetsOf(o) : a[x] > 0 IN
    {_create_offer_for_ids(w, T, origin, -a[asked], given, a[given]) :
        <<T, origin>> \in {<<T, c>> \in Selections(S, asked, -a[asked]) \X AllCoins : c \in T}}

Complete(o, p) == UNION {to_valid_spend(x) : x \in aggregate(o, p)}

(* Of the records of a trade, what the one for the removals holds back.    *)
calculate_tx_records_for_offer(w, b) == {c \in get_involved_coins(b) : CoinOwner[c] = w}

TakeOps(w, o, b) ==
    <<SaveOp(Record(b, "PENDING_CONFIRM")), PushOp(b), TxsOp(b, calculate_tx_records_for_offer(w, b))>>

respond_to_offer(w, o) ==
    /\ Idle(w) /\ Room(w)
    /\ check_offer_validity(o)
    /\ \E p \in Counters(w, Spendable(w), o) : \E b \in Complete(o, p) : DoLater(w, TakeOps(w, o, b))
    /\ UNCHANGED <<trades, tradeTxs, sync, inbox, pushed, spentIn, softly, overtaken, cancels, faults>>

Canceling(w, k) ==
    /\ Idle(w) /\ k \in DOMAIN trades[w]
    /\ cancels < MaxCancels /\ cancels' = cancels + 1

cancel_pending_offer(w, k) ==
    /\ Canceling(w, k)
    /\ DoLater(w, <<StatusOp(trades[w][k].offer, "CANCELLED")>>)
    /\ softly' = softly \cup {<<w, trades[w][k].offer>>}
    /\ UNCHANGED <<trades, tradeTxs, sync, inbox, pushed, spentIn, overtaken, faults>>

(* A spend of each primary coin that is in the coin store.                 *)
CancelSpends(w, o) == {[cancel |-> {c}] : c \in {x \in get_primary_coins(o) : CoinOwner[x] = w}}

cancel_pending_offer_safely(w, k) ==
    /\ Canceling(w, k)
    /\ LET o == trades[w][k].offer IN
       DoLater(w, SetToSeq({PushOp(b) : b \in CancelSpends(w, o)}) \o <<StatusOp(o, "PENDING_CANCEL")>>)
    /\ UNCHANGED <<trades, tradeTxs, sync, inbox, pushed, spentIn, softly, overtaken, faults>>

-----------------------------------------------------------------------------
(* The writes of an RPC.                                                   *)

Job(w, op) == jobs[w] # <<>> /\ Head(jobs[w]).op = op
Next1(w) == jobs' = [jobs EXCEPT ![w] = Tail(@)]

save_trade(w) ==
    /\ Job(w, "save") /\ ~sync[w].busy
    /\ trades' = [trades EXCEPT ![w] = add_trade_record(@, Head(jobs[w]).row)]
    /\ Next1(w)
    /\ UNCHANGED <<tradeTxs, sync, inbox, pushed, spentIn, softly, overtaken, cancels, faults>>

(* add_pending_transaction; the node's answer is Include or nothing.       *)
Push(w) ==
    /\ Job(w, "push") /\ ~sync[w].busy
    /\ pushed' = pushed \cup {Head(jobs[w]).bundle}
    /\ Next1(w)
    /\ UNCHANGED <<trades, tradeTxs, sync, inbox, spentIn, softly, overtaken, cancels, faults>>

AddTransactions(w) ==
    /\ Job(w, "txs") /\ ~sync[w].busy
    /\ tradeTxs' = [tradeTxs EXCEPT ![w] = @ \cup {Head(jobs[w]).tx}]
    /\ Next1(w)
    /\ UNCHANGED <<trades, sync, inbox, pushed, spentIn, softly, overtaken, cancels, faults>>

(* set_status: the row is read first, then the lock is taken.              *)
ReadStatus(w) ==
    /\ Job(w, "status")
    /\ LET j == Head(jobs[w])
           row == CHOOSE r \in ToSet(trades[w]) : r.offer = j.offer IN
       DoLater(w, <<[op |-> "write", row |-> [row EXCEPT !.status = j.status]]>>)
    /\ UNCHANGED <<trades, tradeTxs, sync, inbox, pushed, spentIn, softly, overtaken, cancels, faults>>

Heard(w, o) == \E c \in get_involved_coins(o) : CoinOwner[c] = w /\ spentIn[c] # Unspent /\ c \notin inbox[w]

WriteStatus(w) ==
    /\ Job(w, "write") /\ ~sync[w].busy
    /\ LET j == Head(jobs[w]) IN
       /\ trades' = [trades EXCEPT ![w] = add_trade_record(@, j.row)]
       /\ overtaken' = IF Heard(w, j.row.offer) THEN overtaken \cup {w} ELSE overtaken
    /\ Next1(w)
    /\ UNCHANGED <<tradeTxs, sync, inbox, pushed, spentIn, softly, cancels, faults>>

-----------------------------------------------------------------------------
(* Blocks, and what the wallets hear of them.                              *)

Owned(S, w) == {c \in S : CoinOwner[c] = w}

(* Some of the legs and payments of a bundle: announcements must be made,  *)
(* and payments made with what is settled.                                 *)
Parts(b) == {p \in [legs : SUBSET b.legs \ {{}}, pays : SUBSET b.pays] :
                /\ \A l \in p.legs : l.asserts \subseteq calculate_announcements(p.pays)
                /\ \A a \in Assets : AmountOf(p.pays, a) <= AmountOf(p.legs, a)}

Spend(S, by) ==
    /\ \A c \in S : spentIn[c] = Unspent
    /\ spentIn' = [c \in AllCoins |-> IF c \in S THEN by ELSE spentIn[c]]
    /\ inbox' = [w \in Traders |-> inbox[w] \cup Owned(S, w)]
    /\ UNCHANGED <<trades, tradeTxs, jobs, sync, pushed, softly, overtaken, cancels, faults>>

IncludeBundle(b) == \E p \in Parts(b) : Spend(get_involved_coins(p), <<p>>)
IncludeCancel(b) == Spend(b.cancel, <<b>>)

(* Offers are completed by others, with coins of their own or not.         *)
TakenElsewhere(o) ==
    \E p \in Counters(Stranger, Owned(AllCoins, Stranger), o) : \E b \in Complete(o, p) : IncludeBundle(b)
Combined(o, p) == \E b \in Complete(o, p) : IncludeBundle(b)

(* A settlement coin of this wallet exists.                                *)
Settled(w, o) == \E l \in o.legs : /\ l.owner = w /\ spentIn[l.origin] # Unspent
                                   /\ "legs" \in DOMAIN spentIn[l.origin][1] /\ l \in spentIn[l.origin][1].legs

Outcome(w, r) ==
    IF Settled(w, r.offer) THEN "CONFIRMED"
    ELSE IF r.status = "PENDING_CANCEL" THEN "CANCELLED"
    ELSE IF r.status = "PENDING_CONFIRM" THEN "FAILED"
    ELSE r.status

(* coins_of_interest_farmed; s: the wallet's rows and transactions.        *)
coins_of_interest_farmed(w, s, c) ==
    FoldSet(LAMBDA r, acc : [rows |-> IF Outcome(w, r) = r.status /\ ~Settled(w, r.offer) THEN acc.rows
                                      ELSE set_status(acc.rows, r.offer, Outcome(w, r)),
                             txs |-> IF Settled(w, r.offer) THEN acc.txs ELSE {t \in acc.txs : t.trade # r.offer}],
            s, get_trade_by_coin(s.rows, c))

(* new_coin_state: which of the coins belong to trades is read first.      *)
SyncStarts(w) ==
    /\ ~sync[w].busy
    /\ \E batch \in SUBSET inbox[w] \ {{}} :
          /\ sync' = [sync EXCEPT ![w] = [busy |-> TRUE, batch |-> batch, removed |-> batch \cap get_coins_of_interest(w)]]
          /\ inbox' = [inbox EXCEPT ![w] = @ \ batch]
    /\ UNCHANGED <<trades, tradeTxs, jobs, pushed, spentIn, softly, overtaken, cancels, faults>>

(* The other records of a spent coin are confirmed by coin_removed.        *)
SyncEnds(w) ==
    /\ sync[w].busy
    /\ \E order \in SetToSeqs(sync[w].removed) :
          LET kept == {t \in tradeTxs[w] : t.coins \cap sync[w].batch = {}}
              s == FoldLeft(LAMBDA acc, c : coins_of_interest_farmed(w, acc, c), [rows |-> trades[w], txs |-> kept], order) IN
          trades' = [trades EXCEPT ![w] = s.rows] /\ tradeTxs' = [tradeTxs EXCEPT ![w] = s.txs]
    /\ sync' = [sync EXCEPT ![w] = NoSync]
    /\ UNCHANGED <<jobs, inbox, pushed, spentIn, softly, overtaken, cancels, faults>>

Faulty == faults < MaxFaults /\ faults' = faults + 1

(* No answer from the node: the transaction is rolled back.                *)
SyncFails(w) ==
    /\ Faulty /\ sync[w].busy
    /\ inbox' = [inbox EXCEPT ![w] = @ \cup sync[w].batch]
    /\ sync' = [sync EXCEPT ![w] = NoSync]
    /\ UNCHANGED <<trades, tradeTxs, jobs, pushed, spentIn, softly, overtaken, cancels>>

(* The process ends and starts again.                                      *)
RestartWallet(w) ==
    /\ Faulty /\ jobs[w] # <<>>
    /\ DoLater(w, <<>>)
    /\ inbox' = [inbox EXCEPT ![w] = @ \cup sync[w].batch]
    /\ sync' = [sync EXCEPT ![w] = NoSync]
    /\ overtaken' = IF Last(jobs[w]).op \in {"status", "write"} THEN overtaken \cup {w} ELSE overtaken
    /\ UNCHANGED <<trades, tradeTxs, pushed, spentIn, softly, cancels>>

TradeInit ==
    /\ trades = [w \in Traders |-> <<>>] /\ tradeTxs = [w \in Traders |-> {}]
    /\ jobs = [w \in Traders |-> <<>>] /\ sync = [w \in Traders |-> NoSync] /\ inbox = [w \in Traders |-> {}]
    /\ pushed = {} /\ spentIn = [c \in AllCoins |-> Unspent]
    /\ softly = {} /\ overtaken = {} /\ cancels = 0 /\ faults = 0

TradeNext ==
    \/ \E w \in Traders, give \in GiveAmounts, amount \in WantAmounts, a, b \in Assets :
          create_offer_for_ids(w, give, a, amount, b)
    \/ \E w \in Traders, o \in Published : respond_to_offer(w, o)
    \/ \E w \in Traders, k \in 1..MaxTrades : cancel_pending_offer(w, k) \/ cancel_pending_offer_safely(w, k)
    \/ \E w \in Traders : save_trade(w) \/ Push(w) \/ AddTransactions(w) \/ ReadStatus(w) \/ WriteStatus(w)
    \/ \E b \in pushed : "legs" \in DOMAIN b /\ IncludeBundle(b)
    \/ \E b \in pushed : "cancel" \in DOMAIN b /\ IncludeCancel(b)
    \/ \E o \in Published : TakenElsewhere(o)
    \/ \E o, p \in Published : Combined(o, p)
    \/ \E w \in Traders : SyncStarts(w) \/ SyncEnds(w) \/ SyncFails(w) \/ RestartWallet(w)

TradeSpec == TradeInit /\ [][TradeNext]_tradeVars

-----------------------------------------------------------------------------
(* Properties.                                                             *)

Done == {spentIn[c][1] : c \in {x \in AllCoins : spentIn[x] # Unspent}}
Settlements == {d \in Done : "legs" \in DOMAIN d}

(* Whoever's coins are settled by what is on the chain gets exactly what   *)
(* they asked for, although any part of a bundle may be put on it.         *)
PaidInFull ==
    \A d \in Settlements : \A w \in {l.owner : l \in d.legs} :
       MapThenSumSet(LAMBDA p : p.amount, {p \in d.pays : p.to = w})
         = MapThenSumSet(LAMBDA l : l.price, {l \in d.legs : l.owner = w})

(* No coin is in two pending trades of a wallet, unless an offer cancelled *)
(* without a spend is involved, or one that was cancelled too late.        *)
OffersDisjoint ==
    \A w \in Traders \ overtaken : \A j, k \in DOMAIN trades[w] :
       LET r == trades[w][j] s == trades[w][k] IN
       j # k /\ {r.status, s.status} \subseteq Pending /\ {<<w, r.offer>>, <<w, s.offer>>} \cap softly = {}
         => Owned(get_involved_coins(r.offer) \cap get_involved_coins(s.offer), w) = {}

(* A wallet that has pushed the completion of an offer has the trade in    *)
(* its table, also after a restart: its coins are not used again.          *)
PushedIsKnown ==
    \A b \in pushed : "legs" \in DOMAIN b => \E w \in Traders : Row(w, b) # {}

(* CONFIRMED trades are on the chain.                                      *)
ConfirmedIsSettled ==
    \A w \in Traders : \A k \in DOMAIN trades[w] :
       trades[w][k].status = "CONFIRMED" => Settled(w, trades[w][k].offer)

Quiet(w) == jobs[w] = <<>> /\ ~sync[w].busy /\ inbox[w] = {}

(* Once a wallet has heard of everything, a pending trade's own coins are  *)
(* all unspent.  Not if an RPC has written its status too late or not at   *)
(* all, nor if a coin is in two of its trades: get_trade_by_coin finds     *)
(* only the first, and an offer that is still open is left as it is.       *)
PendingIsOpen ==
    \A w \in Traders : Quiet(w) /\ w \notin overtaken =>
       \A k \in DOMAIN trades[w] : trades[w][k].status \in Pending =>
          \A c \in Owned(get_involved_coins(trades[w][k].offer), w) :
             \/ spentIn[c] = Unspent
             \/ \E j \in DOMAIN trades[w] \ {k} : c \in get_involved_coins(trades[w][j].offer)

(* Offers settle for what was asked, and the wallets know which.           *)
OffersSettle ==
    /\ PaidInFull
    /\ OffersDisjoint
    /\ PushedIsKnown
    /\ ConfirmedIsSettled
    /\ PendingIsOpen
=============================================================================
