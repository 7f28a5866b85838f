----------------------------- MODULE MCFarming ------------------------------
(***************************************************************************)
(* The farmer with its harvester, and with its pool.  The two parts share  *)
(* no state, so one of them is chosen to move and the other rests.         *)
(***************************************************************************)
EXTENDS Farmer

MCSP == {<<"c1", "r1">>, <<"c1", "r2">>}
MCInitPlots == {{"og"}, {"pool"}}
MCLevel == [q \in {"og", "pool"} \X {"c1"} |-> 1]

VARIABLE part

FarmMove(A) == part = "farm" /\ A /\ UNCHANGED <<part, poolVars>>
PoolMove(A) == part = "pool" /\ A /\ UNCHANGED <<part, fVars>>

Init ==
    /\ part \in {"farm", "pool"}
    /\ FarmerInit /\ PoolStateInit
    /\ part # "farm" => hPlots = {"og"}

Next == FarmMove(FarmerNext) \/ PoolMove(PoolStateNext)

vars == <<part, fVars, poolVars>>

(* Weak fairness of each part's steps.  As only one part moves, one        *)
(* conjunct serves a step of each.                                         *)
Fairness ==
    /\ WF_vars(FarmMove(Handle) \/ PoolMove(KeysAdded \/ StartTask))
    /\ WF_vars(PoolMove(Periodic))
    /\ WF_vars(PoolMove(PartialStep))
    /\ WF_vars(PoolMove(IntervalPasses))
    /\ \A u \in Updater : WF_vars(PoolMove(UpdateStep(u)))
Spec == Init /\ [][Next]_vars /\ Fairness

(* The pool gets to know the payout instructions of the config file.       *)
PayoutArrives == part = "pool" => PayoutReachesPool

(* The difficulty of partials becomes that of the pool.                    *)
DifficultyArrives == part = "pool" => DifficultyFollowsPool

(* Signatures, payout instructions and difficulty arrive.                  *)
FarmingArrives == ProofsAreDeclared /\ AskedIsSigned /\ PayoutArrives /\ DifficultyArrives
=============================================================================
