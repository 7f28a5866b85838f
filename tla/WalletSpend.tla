----------------------------- MODULE WalletSpend ----------------------------
(***************************************************************************)
(* Choosing coins (wallet/coin_selection.py) and building a transaction    *)
(* from them (_generate_unsigned_transaction and                           *)
(* generate_signed_transaction of wallet/wallet.py).                       *)
(*                                                                         *)
(* Coins are the numbers from 1 on, by falling amount.  random.getrandbits *)
(* is the coins that a trial's first pass takes.                           *)
(***************************************************************************)
EXTENDS Integers, FiniteSets, Sequences, SequencesExt, FiniteSetsExt, Functions

CONSTANTS Amounts,           \* what the amounts of the coins may be
          NumCoins,
          Targets,           \* amounts to send
          Fees,
          max_num_coins,     \* 500 in select_coins
          MaxSpends,         \* coins in the largest transaction, by cost
          Trials             \* 1000 in knapsack_coin_algorithm

VARIABLES coinAmount,        \* coin -> amount
          busy,              \* unconfirmed_removals and exclude
          request,           \* [amount, fee, min]; to: the outputs asked for
          chosen,            \* the coins, as a set of at most one set
          refused,           \* an exception instead
          spends             \* coin -> [outputs, announces, asserts, fee]

spendVars == <<coinAmount, busy, request, chosen, refused, spends>>

MyCoins == 1..NumCoins
Descending(S) == SelectSeq([c \in MyCoins |-> c], LAMBDA c : c \in S)
Value(S) == FoldLeft(LAMBDA sum, c : sum + coinAmount[c], 0, Descending(S))
NoCoins == {}

-----------------------------------------------------------------------------
(* coin_selection.py.  A result is {} for None, or a set of one set.       *)

check_for_exact_match(S, target) == {{c} : c \in {Min({x \in S : coinAmount[x] = target} \cup {NumCoins + 1})} \cap S}

select_smallest_coin_over_target(target, S) ==
    LET over == {c \in S : coinAmount[c] >= target} IN IF over = {} THEN NoCoins ELSE {{Max(over)}}

(* One coin of a pass; r: sel, sum, stop (break), reached, best, exact.    *)
TakeCoin(r, c, target) ==
    LET sum == r.sum + coinAmount[c]
        sel == r.sel \cup {c} IN
    IF Cardinality(r.sel) > max_num_coins THEN [r EXCEPT !.stop = TRUE]
    ELSE IF sum = target THEN [r EXCEPT !.sel = sel, !.sum = sum, !.exact = {sel}]
    ELSE IF sum < target THEN [r EXCEPT !.sel = sel, !.sum = sum]
    ELSE IF r.best = {} \/ \A b \in r.best : sum < Value(b) THEN [r EXCEPT !.reached = TRUE, !.best = {sel}]
    ELSE [r EXCEPT !.sel = sel, !.sum = sum, !.reached = TRUE]

OnePass(r, S, target) ==
    FoldLeft(LAMBDA acc, c : IF acc.stop \/ acc.exact # {} THEN acc ELSE TakeCoin(acc, c, target),
             [r EXCEPT !.stop = FALSE], Descending(S))

(* bits: for every trial, the coins whose bit is 1.                        *)
knapsack_coin_algorithm(S, target, bits) ==
    LET fresh(r) == [r EXCEPT !.sel = {}, !.sum = 0, !.reached = FALSE]
        second(r) == IF r.reached \/ r.exact # {} THEN r ELSE OnePass(r, S \ r.sel, target)
        end == FoldLeft(LAMBDA r, t : IF r.exact # {} THEN r ELSE second(OnePass(fresh(r), S \cap t, target)),
                        [sel |-> {}, sum |-> 0, stop |-> FALSE, reached |-> FALSE, best |-> {}, exact |-> {}], bits) IN
    IF end.exact # {} THEN end.exact ELSE end.best


sum_largest_coins(target, S) ==
    LET enough == {c \in S : Value({x \in S : x <= c}) >= target} IN
    IF enough = {} THEN NoCoins ELSE {{x \in S : x <= Min(enough)}}

(* The coins that are neither in use nor dust.                             *)
ValidCoins == {c \in MyCoins \ busy : coinAmount[c] >= request.min}

select_coins(amount, bits) ==
    LET valid == ValidCoins
        smaller == {c \in valid : coinAmount[c] < amount}
        sum == Value(smaller)
        over == select_smallest_coin_over_target(amount, valid)
        exact == check_for_exact_match(valid, amount)
        knapsack == knapsack_coin_algorithm(smaller, amount, bits)
        largest == sum_largest_coins(amount, smaller) IN
    IF Value(valid) < amount THEN NoCoins
    ELSE IF exact # {} THEN exact
    ELSE IF sum = amount /\ Cardinality(smaller) < max_num_coins THEN {smaller}
    ELSE IF sum <= amount THEN over
    ELSE IF knapsack # {} THEN knapsack
    ELSE IF \E s \in largest : Cardinality(s) <= max_num_coins THEN largest
    ELSE over

-----------------------------------------------------------------------------
(* wallet.py.                                                              *)

Total(r) == r.amount + r.fee + MapThenSumSet(LAMBDA o : o[2], r.to)

(* get_max_send_amount: the largest coins that fit into a transaction.     *)
get_max_send_amount == Value({c \in MyCoins \ busy : Cardinality({x \in MyCoins \ busy : x <= c}) <= MaxSpends})

Change(coins) == Value(coins) - Total(request)

(* What the first coin creates.                                            *)
Outputs(coins) ==
    request.to \cup (IF request.amount > 0 \/ request.to # {} THEN {<<"to", request.amount>>} ELSE {})
               \cup (IF Change(coins) > 0 THEN {<<"change", Change(coins)>>} ELSE {})

Message(coins) == <<coins, Outputs(coins)>>

(* One coin has the outputs and announces all that is spent and created;   *)
(* the others assert that.                                                 *)
_generate_unsigned_transaction(coins, origin) ==
    [c \in coins |->
        IF c = origin THEN [outputs |-> Outputs(coins), announces |-> {Message(coins)}, asserts |-> {}, fee |-> request.fee]
        ELSE [outputs |-> {}, announces |-> {}, asserts |-> {<<origin, Message(coins)>>}, fee |-> 0]]

-----------------------------------------------------------------------------
SpendInit ==
    /\ coinAmount \in {f \in [MyCoins -> Amounts] : \A c, d \in MyCoins : c < d => f[c] >= f[d]}
    /\ busy \in {S \in SUBSET MyCoins : Cardinality(S) <= 1}
    /\ request \in [amount : Targets, fee : Fees, min : {0, 2}, to : {{}, {<<"other", 1>>}}]
    /\ chosen = {} /\ refused = FALSE /\ spends = <<>>

(* The bits that matter.                                                   *)
Bits == [1..Trials -> SUBSET {c \in ValidCoins : coinAmount[c] < Total(request)}]

SelectCoins ==
    /\ chosen = {} /\ ~refused
    /\ Total(request) <= get_max_send_amount
    /\ \E bits \in Bits : chosen' = select_coins(Total(request), bits)
    /\ refused' = (chosen' = NoCoins)
    /\ UNCHANGED <<coinAmount, busy, request, spends>>

BuildTransaction ==
    /\ spends = <<>>
    /\ \E coins \in chosen : \E origin \in coins : spends' = _generate_unsigned_transaction(coins, origin)
    /\ UNCHANGED <<coinAmount, busy, request, chosen, refused>>

SpendNext == SelectCoins \/ BuildTransaction

SpendSpec == SpendInit /\ [][SpendNext]_spendVars

-----------------------------------------------------------------------------
(* Properties.                                                             *)

Spent == DOMAIN spends

(* The coins chosen for a positive amount are free, cover it, and are at   *)
(* most one more than max_num_coins; a single coin that does is not joined *)
(* by others.                                                              *)
SelectionCovers ==
    \A coins \in chosen : Total(request) > 0 =>
        /\ coins # {} /\ coins \subseteq ValidCoins
        /\ Value(coins) >= Total(request)
        /\ Cardinality(coins) <= max_num_coins + 1
        /\ (\E c \in coins : coinAmount[c] >= Total(request)) => Cardinality(coins) = 1

(* A request is refused only if no max_num_coins coins cover it, whatever  *)
(* the random bits are; or if exactly that many are all the smaller coins, *)
(* and are the amount to the last mojo.                                    *)
RefusedOnlyIfImpossible ==
    refused => \A S \in SUBSET ValidCoins :
                  \/ Cardinality(S) > max_num_coins
                  \/ Value(S) < Total(request)
                  \/ Cardinality(S) = max_num_coins /\ Value(S) = Total(request)

(* A transaction spends exactly what it creates plus its fee.              *)
ValueConserved ==
    LET created == MapThenSumSet(LAMBDA c : spends[c].fee + MapThenSumSet(LAMBDA o : o[2], spends[c].outputs), Spent) IN
    spends # <<>> => created = Value(Spent)

(* No part of a transaction is valid without the others: every coin but    *)
(* one asserts an announcement that names all coins and all outputs.       *)
SpendsAreBound ==
    \A c \in Spent : \/ spends[c].announces # {}
                     \/ \E a \in spends[c].asserts :
                           /\ a[1] \in Spent /\ a[2] \in spends[a[1]].announces
                           /\ a[2] = <<Spent, UNION {spends[d].outputs : d \in Spent}>>

(* The selection covers the amount, and fails only if it has to.           *)
SelectionIsRight == SelectionCovers /\ RefusedOnlyIfImpossible

(* A transaction loses no value, and no part of it is valid alone.         *)
SpendIsSound == ValueConserved /\ SpendsAreBound
=============================================================================
