------------------------------ MODULE MCWallet ------------------------------
(***************************************************************************)
(* The stores, the synchronisation, the keys and the spends of a wallet.   *)
(* They share no state here, so one of them moves and the others rest.     *)
(***************************************************************************)
EXTENDS WalletStores, WalletSync, Derivation, WalletSpend

MCRems == [t \in Txs |-> IF t = "t1" THEN {"c1"} ELSE IF t = "t2" THEN {"c1", "c2"} ELSE {"c3"}]
MCAdds == [t \in Txs |-> IF t = "t1" THEN {"c3"} ELSE {}]

-----------------------------------------------------------------------------
(* An instance of WalletSync: two branches.                                *)

MCBlocks == {"g", "a1", "a2", "b2", "b3", "b4"}
MCAllBlocks == MCBlocks \cup {"a3"}
MCParentOf == [b \in MCAllBlocks |-> CASE b = "a1" -> "g" [] b = "a2" -> "a1" [] b = "a3" -> "a2"
                                    [] b = "b2" -> "a1" [] b = "b3" -> "b2" [] b = "b4" -> "b3" [] OTHER -> "none"]
MCHeightOf == [b \in MCAllBlocks |-> CASE b = "g" -> 0 [] b = "a1" -> 1 [] b \in {"a2", "b2"} -> 2 [] b \in {"a3", "b3"} -> 3 [] OTHER -> 4]
MCWeightOf == [b \in MCAllBlocks |-> 10 * MCHeightOf[b]]
MCCreates == [b \in MCAllBlocks |-> CASE b = "a1" -> {"x"} [] b \in {"a2", "b3"} -> {"y"} [] OTHER -> {}]
MCSpends == [b \in MCAllBlocks |-> IF b \in {"a2", "b3"} THEN {"x"} ELSE {}]

-----------------------------------------------------------------------------
VARIABLE part

StoresMove(A) == part = "stores" /\ A /\ UNCHANGED <<part, syncVars, derivationVars, spendVars>>
SyncMove(A) == part = "sync" /\ A /\ UNCHANGED <<part, storesVars, derivationVars, spendVars>>
KeysMove(A) == part = "keys" /\ A /\ UNCHANGED <<part, storesVars, syncVars, spendVars>>
SpendMove(A) == part = "spend" /\ A /\ UNCHANGED <<part, storesVars, syncVars, derivationVars>>

WalletInit ==
    /\ part \in {"stores", "sync", "keys", "spend"}
    /\ StoresInit /\ SyncInit /\ DerivationInit /\ SpendInit
    /\ part # "sync" => trusted = {}
    /\ part # "spend" =>
          /\ \A c \in MyCoins : coinAmount[c] = 1
          /\ busy = {} /\ request = [amount |-> 0, fee |-> 0, min |-> 0, to |-> {}]

WalletNext ==
    \/ StoresMove(StoresNext)
    \/ SyncMove(SyncNext)
    \/ KeysMove(DerivationNext)
    \/ SpendMove(SpendNext)

walletVars == <<part, storesVars, syncVars, derivationVars, spendVars>>

WalletSpec == WalletInit /\ [][WalletNext]_walletVars

-----------------------------------------------------------------------------

(* The coins of the wallet are those of the chain it follows.              *)
SyncIsRight == part = "sync" => WalletFollows


=============================================================================
