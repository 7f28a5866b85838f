---------------------------- MODULE WalletStores ----------------------------
(***************************************************************************)
(* What the wallet knows of its coins and transactions:                    *)
(* wallet_coin_store.py, wallet_transaction_store.py, and of               *)
(* wallet_state_manager.py and wallet_node.py what writes to them.         *)
(*                                                                         *)
(* Both stores have a table and caches.  There is one connection, so all   *)
(* tasks see what is not committed yet; `saved' is what is.  `jobs' is the *)
(* queue of db_wrapper.lock, an asyncio.Lock: its head holds the lock.  A  *)
(* job with locked TRUE also holds wallet_state_manager.lock.              *)
(***************************************************************************)
EXTENDS Integers, FiniteSets, Sequences, SequencesExt, Functions

CONSTANTS Coins, Txs,      \* coins of this wallet, transactions with its keys
          Foreign,         \* those that may also be made elsewhere
          Rems, Adds,      \* coins of the wallet that each spends and creates
          PaidCoins,       \* coins that others have sent
          KnownCoins,      \* those of them that the wallet has seen
          Nodes,           \* full nodes
          MaxHeight, MaxJobs, MaxReorgs, MaxOdd    \* bounds; odd: failures, retries, deletions, restarts

VARIABLES chain,      \* [height, coins: known coins -> [conf, spent, by]]
          forkAt,     \* height to which the wallet has to roll back
          acks,       \* <<node, tx>>: nodes that are about to acknowledge
          ws,         \* the stores, see below
          saved,      \* [coins, txs]: the tables as committed
          jobs,
          retry,      \* records that get_not_sent has read and writes again
          raced,      \* a transaction record was made or written while what
                      \* it rests on changed, or states were applied in part
          used        \* how often the bounded events have happened

storesVars == <<chain, forkAt, acks, ws, saved, jobs, retry, raced, used>>

NoFork == MaxHeight + 1
Ids == ({"tx"} \X Txs) \cup ({"in", "out"} \X Coins)

(* ws has the tables coins and txs as the connection sees them, the caches *)
(* cr (coin_record_cache), un (the wallet's dictionary in                  *)
(* unspent_coin_wallet_cache, if there is one), tc (tx_record_cache) and   *)
(* unc (unconfirmed_for_wallet).  A coin is [conf, spent] with spent = 0   *)
(* for an unspent one, a transaction [conf, sentTo, adds, rems] with conf  *)
(* = 0 for an unconfirmed one.                                             *)
Blank == [coins |-> <<>>, txs |-> <<>>, cr |-> <<>>, un |-> {}, tc |-> <<>>, unc |-> {}]

Put(f, x, v) == [y \in DOMAIN f \cup {x} |-> IF y = x THEN v ELSE f[y]]
Keep(f, P(_)) == Restrict(f, {x \in DOMAIN f : P(f[x])})

GetCoin(w, c) == IF c \in DOMAIN w.cr THEN {w.cr[c]} ELSE IF c \in DOMAIN w.coins THEN {w.coins[c]} ELSE {}
GetTx(w, id) == IF id \in DOMAIN w.tc THEN {w.tc[id]} ELSE IF id \in DOMAIN w.txs THEN {w.txs[id]} ELSE {}

-----------------------------------------------------------------------------
(* The coin store.                                                         *)

add_coin_record(w, c, r) ==
    [w EXCEPT !.cr = Put(@, c, r), !.coins = Put(@, c, r),
              !.un = IF r.spent = 0 THEN {UNION @ \cup {c}} ELSE {u \ {c} : u \in @}]

set_spent(w, c, h) == add_coin_record(w, c, [(CHOOSE r \in GetCoin(w, c) : TRUE) EXCEPT !.spent = h])

RebuildCoins(w) ==
    LET free == {c \in DOMAIN w.coins : w.coins[c].spent = 0} IN
    [w EXCEPT !.cr = w.coins, !.un = IF free = {} THEN {} ELSE {free}]

RolledBack(f, h) ==
    [c \in {x \in DOMAIN f : f[x].conf <= h} |-> IF f[c].spent > h THEN [f[c] EXCEPT !.spent = 0] ELSE f[c]]


(* WalletCoinStore.rollback_to_block.                                      *)
rollback_coins(w, h) ==
    [w EXCEPT !.cr = RolledBack(@, h), !.coins = RolledBack(@, h),
              !.un = {(u \cup {c \in DOMAIN w.cr : w.cr[c].spent > h}) \ {c \in DOMAIN w.cr : w.cr[c].conf > h} : u \in @}]

-----------------------------------------------------------------------------
(* The transaction store.                                                  *)

(* add_transaction_record, up to the wait for the lock.                    *)
CacheTx(w, id, r) ==
    [w EXCEPT !.tc = Put(@, id, r), !.unc = IF r.conf = 0 THEN @ \cup {id} ELSE @ \ {id}]

StoreTx(w, id, r) == [w EXCEPT !.txs = Put(@, id, r)]

PutTx(w, id, r) == StoreTx(CacheTx(w, id, r), id, r)

set_confirmed(w, id, h) ==
    LET current == GetTx(w, id) IN
    IF current = {} \/ \E r \in current : r.conf = h THEN w
    ELSE PutTx(w, id, [(CHOOSE r \in current : TRUE) EXCEPT !.conf = h])

ConfirmAll(w, ids, h) == FoldSet(LAMBDA id, acc : set_confirmed(acc, id, h), w, ids)

RebuildTxs(w) == [w EXCEPT !.tc = w.txs, !.unc = {id \in DOMAIN w.txs : w.txs[id].conf = 0}]

(* WalletTransactionStore.rollback_to_block.                               *)
rollback_txs(w, h) ==
    [w EXCEPT !.tc = Keep(@, LAMBDA r : r.conf <= h), !.txs = Keep(@, LAMBDA r : r.conf <= h)]

tx_reorged(w, id, r) == PutTx(w, id, [r EXCEPT !.conf = 0, !.sentTo = {}])

increment_sent(r, n) == [r EXCEPT !.sentTo = @ \cup {n}]

(* The unconfirmed rows; get_not_sent.                                     *)
get_not_sent(w) == {id \in DOMAIN w.txs : w.txs[id].conf = 0}

delete_unconfirmed_transactions(w) == [w EXCEPT !.txs = Keep(@, LAMBDA r : r.conf # 0)]

-----------------------------------------------------------------------------
(* wallet_state_manager.py.  `all' are the transactions in the database    *)
(* when the list of coin states is begun.                                  *)

IsChange(w, c) == \E t \in Txs : c \in Adds[t] /\ \E p \in Rems[t] : GetCoin(w, p) # {}

Record(h, adds, rems) == [conf |-> h, sentTo |-> {}, adds |-> adds, rems |-> rems]

coin_added(w, c, h, all) ==
    LET known == {id \in DOMAIN all : c \in all[id].adds}
        told == IF known # {} THEN ConfirmAll(w, {id \in known : all[id].conf = 0}, h)
                ELSE IF IsChange(w, c) THEN w
                ELSE PutTx(w, <<"in", c>>, Record(h, {c}, {})) IN
    IF GetCoin(w, c) # {} THEN w ELSE add_coin_record(told, c, [conf |-> h, spent |-> 0])

(* The case of a spent coin in new_coin_state.                             *)
coin_removed(w, s, all) ==
    LET spending == {id \in DOMAIN all : s.coin \in all[id].rems}
        first == add_coin_record(w, s.coin, [conf |-> s.conf, spent |-> s.spent])
        told == IF IsChange(w, s.coin) THEN first ELSE PutTx(first, <<"in", s.coin>>, Record(s.conf, {s.coin}, {})) IN
    IF GetCoin(w, s.coin) # {} THEN ConfirmAll(set_spent(w, s.coin, s.spent), spending, s.spent)
    ELSE IF spending # {} THEN ConfirmAll(told, spending, s.spent)
    ELSE PutTx(told, <<"out", s.coin>>, Record(s.spent, Adds[s.by], {s.coin}))

(* new_coin_state for one of the states.                                   *)
new_coin_state(w, s, all) ==
    IF GetCoin(w, s.coin) = {[conf |-> s.conf, spent |-> s.spent]} THEN w
    ELSE IF s.spent = 0 THEN coin_added(w, s.coin, s.conf, all)
    ELSE coin_removed(w, s, all)

(* Those that spend become unconfirmed again.                              *)
reorg_rollback(w, h) ==
    LET reorged == {id \in DOMAIN w.txs : w.txs[id].conf > h} IN
    FoldSet(LAMBDA id, acc : tx_reorged(acc, id, w.txs[id]), rollback_txs(rollback_coins(w, h), h),
            {id \in reorged : id[1] # "in"})

(* get_spendable_coins_for_wallet.                                         *)
Spendable(w) ==
    UNION w.un \ UNION {w.tc[id].rems : id \in w.unc \cap DOMAIN w.tc}

-----------------------------------------------------------------------------
(* The chain, as the full nodes report it.                                 *)

(* rollback_transaction, rebuild_wallet_cache and rebuild_tx_cache.        *)
Restored(w) == RebuildTxs(RebuildCoins([w EXCEPT !.coins = saved.coins, !.txs = saved.txs]))

StoresInit ==
    /\ chain = [height |-> 1, coins |-> [c \in PaidCoins |-> [conf |-> 1, spent |-> 0]], by |-> <<>>]
    /\ forkAt = NoFork /\ acks = {} /\ saved = [coins |-> [c \in KnownCoins |-> [conf |-> 1, spent |-> 0]],
                                                  txs |-> [id \in {"in"} \X KnownCoins |-> Record(1, {id[2]}, {})]]
    /\ ws = RebuildTxs(RebuildCoins([Blank EXCEPT !.coins = saved.coins, !.txs = saved.txs]))
    /\ jobs = <<>> /\ retry = {} /\ raced = FALSE
    /\ used = [reorgs |-> 0, odd |-> 0]

Wallet == <<ws, saved, jobs, retry, raced>>

(* A transaction that is in the mempool of a node, or one that is made     *)
(* with the same keys elsewhere, gets into a block.                        *)
Include(t) ==
    /\ chain.height < MaxHeight
    /\ t \in Foreign \/ \E n \in Nodes : <<n, t>> \in acks
    /\ \A c \in Rems[t] : c \in DOMAIN chain.coins /\ chain.coins[c].spent = 0
    /\ LET h == chain.height + 1 IN
       chain' = [height |-> h,
                 coins |-> [c \in DOMAIN chain.coins \cup Adds[t] |->
                               IF c \in Adds[t] THEN [conf |-> h, spent |-> 0]
                               ELSE IF c \in Rems[t] THEN [chain.coins[c] EXCEPT !.spent = h] ELSE chain.coins[c]],
                 by |-> [c \in DOMAIN chain.by \cup Rems[t] |-> IF c \in Rems[t] THEN t ELSE chain.by[c]]]
    /\ UNCHANGED <<forkAt, acks, Wallet, used>>

Reorg(h) ==
    /\ used.reorgs < MaxReorgs /\ h < chain.height
    /\ LET coins == RolledBack(chain.coins, h) IN
       chain' = [height |-> h, coins |-> coins,
                 by |-> Restrict(chain.by, {c \in DOMAIN coins : coins[c].spent # 0})]
    /\ forkAt' = IF h < forkAt THEN h ELSE forkAt
    /\ used' = [used EXCEPT !.reorgs = @ + 1]
    /\ UNCHANGED <<acks, Wallet>>

-----------------------------------------------------------------------------
(* Synchronisation.                                                        *)

Syncing == \E i \in DOMAIN jobs : jobs[i].k \in {"sync", "rollback"}
WsmLocked == \E i \in DOMAIN jobs : jobs[i].locked

Job(k, locked) == [k |-> k, locked |-> locked, states |-> <<>>, part |-> FALSE, id |-> <<>>, rec |-> <<>>]

StateOf(c) == [coin |-> c, conf |-> chain.coins[c].conf, spent |-> chain.coins[c].spent,
               by |-> IF c \in DOMAIN chain.by THEN chain.by[c] ELSE ""]
ChangedAt(c) == IF chain.coins[c].spent # 0 THEN chain.coins[c].spent ELSE chain.coins[c].conf

(* receive_state_from_peer, for the coins that the wallet has otherwise.   *)
(* A trusted peer's states are applied in one transaction, in the order of *)
(* their last change; those of another peer in several, in any order.  The *)
(* long sync with a second peer does not hold wallet_state_manager.lock.   *)
ReceiveStates(trusted, locked) ==
    LET news == {c \in DOMAIN chain.coins : GetCoin(ws, c) # {chain.coins[c]}} IN
    /\ forkAt = NoFork /\ ~Syncing /\ Len(jobs) < MaxJobs /\ (locked => ~WsmLocked) /\ news # {}
    /\ \E q \in IF trusted THEN {SetToSortSeq(news, LAMBDA c, d : ChangedAt(c) < ChangedAt(d))} ELSE SetToSeqs(news) :
          LET states == [i \in DOMAIN q |-> StateOf(q[i])]
              chunks == IF trusted THEN <<states>> ELSE [i \in DOMAIN q |-> <<states[i]>>] IN
          jobs' = jobs \o [i \in DOMAIN chunks |-> [Job("sync", locked) EXCEPT !.states = chunks[i], !.part = Len(chunks) > 1]]
    /\ UNCHANGED <<chain, forkAt, acks, ws, saved, retry, raced, used>>

(* perform_atomic_rollback joins the queue of the lock.                    *)
AskRollback ==
    /\ forkAt # NoFork /\ ~Syncing /\ ~WsmLocked
    /\ jobs' = Append(jobs, Job("rollback", TRUE))
    /\ UNCHANGED <<chain, forkAt, acks, ws, saved, retry, raced, used>>

Holds(k) == jobs # <<>> /\ Head(jobs).k = k
Committed(w) == [coins |-> w.coins, txs |-> w.txs]
WritesWait == \E i \in DOMAIN Tail(jobs) : Tail(jobs)[i].k \in {"add", "write", "retry"}

ApplyState ==
    /\ Holds("sync") /\ Head(jobs).states # <<>>
    /\ ws' = new_coin_state(ws, Head(Head(jobs).states), saved.txs)
    /\ jobs' = [jobs EXCEPT ![1].states = Tail(@)]
    /\ UNCHANGED <<chain, forkAt, acks, saved, retry, raced, used>>

CommitStates ==
    /\ Holds("sync") /\ Head(jobs).states = <<>>
    /\ saved' = Committed(ws) /\ jobs' = Tail(jobs)
    /\ UNCHANGED <<chain, forkAt, acks, ws, retry, raced, used>>

(* An exception, for instance because the peer does not answer.            *)
FailStates ==
    /\ used.odd < MaxOdd /\ Holds("sync")
    /\ ws' = Restored(ws) /\ jobs' = Tail(jobs)
    /\ raced' = (raced \/ WritesWait \/ Head(jobs).part)
    /\ used' = [used EXCEPT !.odd = @ + 1]
    /\ UNCHANGED <<chain, forkAt, acks, saved, retry>>

Rollback ==
    /\ Holds("rollback")
    /\ ws' = reorg_rollback(ws, forkAt)
    /\ saved' = Committed(ws') /\ jobs' = Tail(jobs) /\ forkAt' = NoFork
    /\ UNCHANGED <<chain, acks, retry, raced, used>>

-----------------------------------------------------------------------------
(* Transactions.                                                           *)

(* send_transaction: coins are selected and add_pending_transaction waits  *)
(* for the lock, all of it under wallet_state_manager.lock.                *)
Send(t) ==
    /\ ~WsmLocked /\ Len(jobs) < MaxJobs /\ GetTx(ws, <<"tx", t>>) = {}
    /\ Rems[t] \subseteq Spendable(ws)
    /\ LET rec == Record(0, Adds[t], Rems[t]) IN
       /\ ws' = CacheTx(ws, <<"tx", t>>, rec)
       /\ jobs' = Append(jobs, [Job("add", TRUE) EXCEPT !.id = <<"tx", t>>, !.rec = rec])
    /\ raced' = (raced \/ Syncing)
    /\ UNCHANGED <<chain, forkAt, acks, saved, retry, used>>

(* _messages_to_resend: those with a spend bundle, to the nodes that have  *)
(* not accepted them.                                                      *)
MessagesToResend ==
    {<<n, t>> \in Nodes \X Txs : <<"tx", t>> \in get_not_sent(ws) /\ n \notin ws.txs[<<"tx", t>>].sentTo}

ResendQueue ==
    /\ ~ MessagesToResend \subseteq acks
    /\ acks' = acks \cup MessagesToResend
    /\ UNCHANGED <<chain, forkAt, Wallet, used>>

(* transaction_ack, remove_from_queue and increment_sent.                  *)
TransactionAck(n, t) ==
    LET id == <<"tx", t>> IN
    /\ <<n, t>> \in acks /\ Len(jobs) < MaxJobs
    /\ acks' = acks \ {<<n, t>>}
    /\ IF GetTx(ws, id) = {} THEN UNCHANGED <<ws, jobs>>
       ELSE \E cur \in GetTx(ws, id) :
               LET rec == increment_sent(cur, n) IN
               /\ ws' = CacheTx(ws, id, rec)
               /\ jobs' = Append(jobs, [Job("write", FALSE) EXCEPT !.id = id, !.rec = rec])
    /\ UNCHANGED <<chain, forkAt, saved, retry, raced, used>>

(* The rest of add_transaction_record: the row as it was made before the   *)
(* wait.                                                                   *)
WriteRecord ==
    \E k \in {"add", "write", "retry"} :
        /\ Holds(k)
        /\ ws' = StoreTx(ws, Head(jobs).id, Head(jobs).rec)
        /\ saved' = Committed(ws') /\ jobs' = Tail(jobs)
        /\ raced' = (raced \/ GetTx(ws, Head(jobs).id) # {Head(jobs).rec})
        /\ UNCHANGED <<chain, forkAt, acks, retry, used>>

(* get_not_sent(include_accepted_txs=True): the unconfirmed rows are read, *)
(* and then written again one by one.                                      *)
RetryAccepted ==
    /\ used.odd < MaxOdd /\ retry = {}
    /\ retry' = {<<id, [ws.txs[id] EXCEPT !.sentTo = {}]>> : id \in get_not_sent(ws)}
    /\ retry' # {}
    /\ used' = [used EXCEPT !.odd = @ + 1]
    /\ UNCHANGED <<chain, forkAt, acks, ws, saved, jobs, raced>>

RetryNext ==
    \E r \in retry :
        /\ \A i \in DOMAIN jobs : jobs[i].k # "retry"
        /\ retry' = retry \ {r}
        /\ raced' = (raced \/ \A cur \in GetTx(ws, r[1]) : cur.conf # r[2].conf)
        /\ ws' = CacheTx(ws, r[1], r[2])
        /\ jobs' = Append(jobs, [Job("retry", FALSE) EXCEPT !.id = r[1], !.rec = r[2]])
        /\ UNCHANGED <<chain, forkAt, acks, saved, used>>

(* The RPC delete_unconfirmed_transactions.                                *)
AskDelete ==
    /\ ~WsmLocked /\ ws.unc # {} /\ used.odd < MaxOdd
    /\ jobs' = Append(jobs, Job("delete", TRUE))
    /\ used' = [used EXCEPT !.odd = @ + 1]
    /\ UNCHANGED <<chain, forkAt, acks, ws, saved, retry, raced>>

DeleteUnconfirmed ==
    /\ Holds("delete")
    /\ ws' = RebuildTxs(delete_unconfirmed_transactions(ws))
    /\ saved' = Committed(ws') /\ jobs' = Tail(jobs)
    /\ raced' = (raced \/ WritesWait \/ retry # {})
    /\ UNCHANGED <<chain, forkAt, acks, retry, used>>

(* The wallet stops at any point and is started again.                     *)
RestartWallet ==
    /\ used.odd < MaxOdd
    /\ ws' = Restored(ws) /\ jobs' = <<>> /\ retry' = {} /\ acks' = {}
    /\ used' = [used EXCEPT !.odd = @ + 1]
    /\ raced' = (raced \/ \E i \in DOMAIN jobs : jobs[i].part)
    /\ UNCHANGED <<chain, forkAt, saved>>

StoresNext ==
    \/ \E t \in Txs : Include(t) \/ Send(t)
    \/ \E h \in 1..MaxHeight : Reorg(h)
    \/ \E trusted, locked \in BOOLEAN : ReceiveStates(trusted, locked)
    \/ AskRollback \/ Rollback \/ ApplyState \/ CommitStates \/ FailStates
    \/ \E n \in Nodes, t \in Txs : TransactionAck(n, t)
    \/ ResendQueue \/ WriteRecord \/ RetryAccepted \/ RetryNext
    \/ AskDelete \/ DeleteUnconfirmed \/ RestartWallet

StoresSpec == StoresInit /\ [][StoresNext]_storesVars

-----------------------------------------------------------------------------
(* The coin cache says what the table says, also within a transaction and  *)
(* after one that failed, and what is offered for spending is unspent.     *)
CoinCachesAgree ==
    ws.cr = ws.coins /\ \A c \in UNION ws.un : c \in DOMAIN ws.coins /\ ws.coins[c].spent = 0

(* A rolled back wallet has no coin, and no spend of a coin, that the      *)
(* chain does not have, at the height where the chain has it.              *)
RecordsMatchChain ==
    forkAt = NoFork =>
        \A c \in DOMAIN ws.coins :
            /\ c \in DOMAIN chain.coins /\ ws.coins[c].conf = chain.coins[c].conf
            /\ ws.coins[c].spent \in {0, chain.coins[c].spent}

OwnTx == {id \in DOMAIN saved.txs : id[1] # "in"}

(* What is confirmed has a cause among the coins: the height is that of    *)
(* one of them.                                                            *)
ConfirmedHasCause ==
    ~raced =>
        \A id \in DOMAIN saved.txs : LET r == saved.txs[id] IN
            r.conf # 0 => \/ \E c \in r.rems \cap DOMAIN saved.coins : saved.coins[c].spent = r.conf
                          \/ \E c \in r.adds \cap DOMAIN saved.coins : saved.coins[c].conf = r.conf

(* A pending transaction has a coin that is not spent yet: none waits for  *)
(* ever although its coins are gone.                                       *)
PendingIsAlive ==
    ~raced =>
        \A id \in OwnTx : LET r == saved.txs[id] IN
            r.conf = 0 => \E c \in r.rems : c \notin DOMAIN saved.coins \/ saved.coins[c].spent = 0

(* No coin is in two pending transactions.                                 *)
PendingDisjoint ==
    ~raced =>
        \A i, j \in OwnTx : i # j /\ saved.txs[i].conf = 0 /\ saved.txs[j].conf = 0
            => saved.txs[i].rems \cap saved.txs[j].rems = {}

(* The stores agree with their caches, with the chain and with one         *)
(* another.                                                                *)
StoresAgree ==
    /\ CoinCachesAgree
    /\ RecordsMatchChain
    /\ ConfirmedHasCause
    /\ PendingIsAlive
    /\ PendingDisjoint
=============================================================================
