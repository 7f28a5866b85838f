----------------------------- MODULE Derivation -----------------------------
(***************************************************************************)
(* Derivation of addresses: create_more_puzzle_hashes and                  *)
(* get_unused_derivation_record of wallet_state_manager.py on the table of *)
(* wallet_puzzle_store.py.                                                 *)
(*                                                                         *)
(* A row of the table is (wallet, index) with its flag used; the hardened  *)
(* and the unhardened row of an index are one.  All tasks share one        *)
(* database connection, so they read what a transaction has not committed. *)
(* A key belongs to an index, whichever wallet uses it.                    *)
(***************************************************************************)
EXTENDS Integers, FiniteSets, Sequences, SequencesExt, FiniteSetsExt, Functions

CONSTANTS WalletIds,
          Users,        \* tasks that ask for an address
          initial_num_public_keys,
          MaxIndex,     \* no request once a table reaches it
          MaxExtra      \* syncs, coins and RPCs

VARIABLES wallets,      \* self.wallets, in order of insertion
          rows,         \* wallet -> index -> used
          keyLock,      \* holder of puzzle_store.lock
          dbLock,       \* holder of db_wrapper.lock
          snapshot,     \* what a rollback of the transaction restores
          gen,          \* task -> where it is
          given,        \* indices handed out
          twice,        \* one of them was handed out again
          unmarked,     \* rows were inserted as unused at or below a used one
          undone,       \* inserted rows were rolled back
          extra

derivationVars == <<wallets, rows, keyLock, dbLock, snapshot, gen, given, twice, unmarked, undone, extra>>

Nobody == "nobody"
Tasks == Users \cup {"sync", "coin", "rpc"}
IdleTask == [at |-> "idle", unused |-> 0, more |-> 0, left |-> <<>>, start |-> 0, index |-> 0, wallet |-> 0]

IndicesOf(x) == DOMAIN rows[x]
AllIndices == UNION {IndicesOf(x) : x \in DOMAIN rows}
UnusedIndices == {i \in AllIndices : \E x \in DOMAIN rows : i \in IndicesOf(x) /\ ~rows[x][i]}
UsedIndices == {i \in AllIndices : \E x \in DOMAIN rows : i \in IndicesOf(x) /\ rows[x][i]}

(* The first unused index, or else the last one, or else 0.                *)
FirstUnused ==
    IF UnusedIndices # {} THEN Min(UnusedIndices) ELSE IF AllIndices # {} THEN Max(AllIndices) ELSE 0

StartIndex(x, unused) == IF IndicesOf(x) = {} THEN 0 ELSE Max(IndicesOf(x)) + 1

LastIndex(g) == g.unused + g.more

(* set_used_up_to.                                                         *)
set_used_up_to(i) == [x \in DOMAIN rows |-> [k \in IndicesOf(x) |-> rows[x][k] \/ k <= i]]

(* add_derivation_paths: INSERT OR REPLACE.                                *)
add_derivation_paths(x, new) ==
    [rows EXCEPT ![x] = [k \in DOMAIN @ \cup new |-> IF k \in new THEN FALSE ELSE @[k]]]

Goto(t, g) == gen' = [gen EXCEPT ![t] = g]

-----------------------------------------------------------------------------
(* create_more_puzzle_hashes, for task t.                                  *)

Start(unused, more, g) == [g EXCEPT !.at = "read", !.unused = unused, !.more = more, !.left = wallets]

ReadLast(t) ==
    LET g == gen[t] IN
    /\ g.at = "read" /\ g.left # <<>>
    /\ LET s == StartIndex(Head(g.left), g.unused) IN
       Goto(t, IF s >= LastIndex(g) THEN [g EXCEPT !.left = Tail(@)] ELSE [g EXCEPT !.at = "insert", !.start = s])
    /\ UNCHANGED <<wallets, rows, keyLock, dbLock, snapshot, given, twice, unmarked, undone, extra>>

Insert(t) ==
    LET g == gen[t]
        new == g.start..(LastIndex(g) - 1) IN
    /\ g.at = "insert" /\ dbLock \in {Nobody, t}
    /\ rows' = add_derivation_paths(Head(g.left), new)
    /\ unmarked' = (unmarked \/ \E i \in new, j \in UsedIndices : i <= j)
    /\ Goto(t, [g EXCEPT !.at = "read", !.left = Tail(@)])
    /\ UNCHANGED <<wallets, keyLock, dbLock, snapshot, given, twice, undone, extra>>

CreationDone(t) == gen[t].at = "read" /\ gen[t].left = <<>>

-----------------------------------------------------------------------------
(* get_unused_derivation_record.                                           *)


Acquired(t) == keyLock = Nobody /\ keyLock' = t

(* Of a wallet whose creation has returned.                                *)
Ask(t, x) ==
    /\ gen[t].at = "idle" /\ x \in ToSet(wallets) \ ToSet(gen["rpc"].left) /\ Max({0} \cup AllIndices) < MaxIndex
    /\ Acquired(t)
    /\ LET g == [IdleTask EXCEPT !.wallet = x] IN
       Goto(t, IF UnusedIndices = {} THEN [Start(FirstUnused, initial_num_public_keys, g) EXCEPT !.index = -1]
               ELSE [g EXCEPT !.at = "mark", !.index = Min(UnusedIndices)])
    /\ UNCHANGED <<wallets, rows, dbLock, snapshot, given, twice, unmarked, undone, extra>>

(* The keys that were missing are there.                                   *)
Retry(t) ==
    /\ CreationDone(t) /\ gen[t].index = -1 /\ UnusedIndices # {}
    /\ Goto(t, [gen[t] EXCEPT !.at = "mark", !.index = Min(UnusedIndices)])
    /\ UNCHANGED <<wallets, rows, keyLock, dbLock, snapshot, given, twice, unmarked, undone, extra>>

(* get_derivation_record finds the row, or the assertion fails.            *)
Mark(t) ==
    LET g == gen[t] IN
    /\ g.at = "mark" /\ dbLock = Nobody
    /\ IF g.index \in IndicesOf(g.wallet)
       THEN rows' = set_used_up_to(g.index) /\ Goto(t, [g EXCEPT !.at = "marked"]) /\ UNCHANGED keyLock
       ELSE keyLock' = Nobody /\ Goto(t, IdleTask) /\ UNCHANGED rows
    /\ UNCHANGED <<wallets, dbLock, snapshot, given, twice, unmarked, undone, extra>>

CreateAfter(t) ==
    /\ gen[t].at = "marked"
    /\ Goto(t, Start(FirstUnused, initial_num_public_keys, gen[t]))
    /\ UNCHANGED <<wallets, rows, keyLock, dbLock, snapshot, given, twice, unmarked, undone, extra>>

Return(t) ==
    /\ t \in Users /\ CreationDone(t) /\ gen[t].index >= 0
    /\ keyLock' = IF keyLock = t THEN Nobody ELSE keyLock
    /\ given' = given \cup {gen[t].index} /\ twice' = (twice \/ gen[t].index \in given)
    /\ Goto(t, IdleTask)
    /\ UNCHANGED <<wallets, rows, dbLock, snapshot, unmarked, undone, extra>>

-----------------------------------------------------------------------------
(* The other callers.                                                      *)

DerivationInit ==
    /\ wallets = <<Min(WalletIds)>>
    /\ rows = [x \in WalletIds |-> IF x = Min(WalletIds) THEN [i \in 0..(initial_num_public_keys - 1) |-> FALSE] ELSE <<>>]
    /\ keyLock = Nobody /\ dbLock = Nobody /\ snapshot = <<>>
    /\ gen = [t \in Tasks |-> IdleTask]
    /\ given = {} /\ twice = FALSE /\ unmarked = FALSE /\ undone = FALSE /\ extra = 0

Begin(t) == gen[t].at = "idle" /\ extra < MaxExtra /\ extra' = extra + 1

(* long_sync.                                                              *)
SyncCreates ==
    /\ Begin("sync")
    /\ Goto("sync", Start(FirstUnused, initial_num_public_keys, IdleTask))
    /\ UNCHANGED <<wallets, rows, keyLock, dbLock, snapshot, given, twice, unmarked, undone>>

(* add_new_wallet.                                                         *)
add_new_wallet(x) ==
    /\ Begin("rpc") /\ x \notin ToSet(wallets)
    /\ wallets' = Append(wallets, x)
    /\ Goto("rpc", [Start(FirstUnused, initial_num_public_keys, IdleTask) EXCEPT !.left = Append(wallets, x)])
    /\ UNCHANGED <<rows, keyLock, dbLock, snapshot, given, twice, unmarked, undone>>

extend_derivation_index(i) ==
    /\ Begin("rpc") /\ i > Max(AllIndices)
    /\ Goto("rpc", Start(i + 1, 0, IdleTask))
    /\ UNCHANGED <<wallets, rows, keyLock, dbLock, snapshot, given, twice, unmarked, undone>>

(* A coin paid to an address: its index is used, and coin_added creates    *)
(* more in the same transaction.                                           *)
CoinArrives(i) ==
    /\ Begin("coin") /\ dbLock = Nobody /\ i \in AllIndices
    /\ dbLock' = "coin" /\ snapshot' = rows
    /\ rows' = set_used_up_to(i)
    /\ Goto("coin", [IdleTask EXCEPT !.at = "marked"])
    /\ UNCHANGED <<wallets, keyLock, given, twice, unmarked, undone>>

CoinCreates ==
    /\ gen["coin"].at = "marked"
    /\ Goto("coin", Start(FirstUnused, initial_num_public_keys, IdleTask))
    /\ UNCHANGED <<wallets, rows, keyLock, dbLock, snapshot, given, twice, unmarked, undone, extra>>

(* The transaction is committed, or something raised and it is undone.     *)
CoinEnds(ok) ==
    /\ gen["coin"].at # "idle" /\ (ok => CreationDone("coin"))
    /\ rows' = IF ok THEN rows ELSE snapshot
    /\ undone' = (undone \/ (~ok /\ \E x \in WalletIds : IndicesOf(x) # DOMAIN snapshot[x]))
    /\ dbLock' = Nobody /\ snapshot' = <<>>
    /\ Goto("coin", IdleTask)
    /\ UNCHANGED <<wallets, keyLock, given, twice, unmarked, extra>>

TaskEnds(t) ==
    /\ CreationDone(t)
    /\ Goto(t, IdleTask)
    /\ UNCHANGED <<wallets, rows, keyLock, dbLock, snapshot, given, twice, unmarked, undone, extra>>

DerivationNext ==
    \/ \E t \in Tasks : ReadLast(t) \/ Insert(t)
    \/ \E t \in Users, x \in WalletIds : Ask(t, x)
    \/ \E t \in Users : Retry(t) \/ Mark(t) \/ CreateAfter(t) \/ Return(t)
    \/ SyncCreates
    \/ \E x \in WalletIds : add_new_wallet(x)
    \/ \E i \in 0..MaxIndex : extend_derivation_index(i)
    \/ \E i \in 0..MaxIndex : CoinArrives(i)
    \/ CoinCreates
    \/ \E ok \in BOOLEAN : CoinEnds(ok)
    \/ TaskEnds("sync") \/ TaskEnds("rpc")

DerivationSpec == DerivationInit /\ [][DerivationNext]_derivationVars

-----------------------------------------------------------------------------
(* Properties.                                                             *)

(* "Never reuse the same public key more than once" (docstring of          *)
(* get_unused_derivation_record), as long as no row was inserted as unused *)
(* at or below an index in use: concurrent requests, arriving coins and    *)
(* rolled back transactions do not hand out a key again.                   *)
KeysGivenOnce == ~unmarked => ~twice

(* The indices of a wallet have no gaps from 0 on, so a coin paid to any   *)
(* address below the last is recognised: also for a wallet added later,    *)
(* and with several tasks that create rows.  Not so after new rows were    *)
(* rolled back, which another task may have read.                          *)
NoGaps == ~undone => \A x \in WalletIds : \A i \in IndicesOf(x) : 0..i \subseteq IndicesOf(x)

(* Between requests every wallet has the addresses of the next             *)
(* initial_num_public_keys - 1 indices after the last one handed out (one  *)
(* less than asked for, as the last index counts when all are used).       *)
AheadOfUse ==
    (\A t \in Tasks : gen[t].at = "idle") /\ given # {} /\ ~unmarked /\ ~undone =>
       \A k \in DOMAIN wallets : Max(IndicesOf(wallets[k])) >= Max(given) + initial_num_public_keys - 1

(* Keys are given out once, without gaps, and ahead of their use.          *)
KeysAreSound == KeysGivenOnce /\ NoGaps /\ AheadOfUse
=============================================================================
