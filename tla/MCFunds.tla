------------------------------ MODULE MCFunds -------------------------------
(***************************************************************************)
(* Trades between wallets, and the pool wallet.  They share no state here, *)
(* so one of them moves and the other rests.                               *)
(***************************************************************************)
EXTENDS Trades, PoolWallet

(* Two wallets and a stranger.  The first wallet has two coins alike.      *)
CONSTANTS a1, a2, b1, s1

MCCoinOwner == [c \in {a1, a2, b1, s1} |-> IF c \in {a1, a2} THEN "A" ELSE IF c = s1 THEN "S" ELSE "B"]
MCCoinAsset == [c \in {a1, a2, b1, s1} |-> IF c \in {a1, a2} THEN "xcc" ELSE "cat"]
MCCoinValue == [c \in {a1, a2, b1, s1} |-> 1]
CoinSymmetry == Permutations({a1, a2})

-----------------------------------------------------------------------------
MCLockOf == [p |-> 1, q |-> 0]
MCStarts == {Self, Farming("p")}

-----------------------------------------------------------------------------
VARIABLE part

TradeMove(A) == part = "trades" /\ A /\ UNCHANGED <<part, poolWalletVars>>
PoolMove(A) == part = "pool" /\ A /\ UNCHANGED <<part, tradeVars>>

FundsInit ==
    /\ part \in {"trades", "pool"}
    /\ TradeInit /\ PoolWalletInit
    /\ part # "pool" => launch = generate_launcher_spend(Self)

FundsNext ==
    \/ TradeMove(TradeNext)
    \/ PoolMove(PoolWalletNext)

fundsVars == <<part, tradeVars, poolWalletVars>>

FundsSpec == FundsInit /\ [][FundsNext]_fundsVars
=============================================================================
