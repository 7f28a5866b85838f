--------------------------- MODULE UnfinishedBlocks -------------------------
(***************************************************************************)
(* Unfinished blocks in a full node: announced and fetched from peers      *)
(* (new_unfinished_block, respond_unfinished_block), or made for a farmer  *)
(* (declare_proof_of_space, signed_values), and given up when the chain    *)
(* has passed them.                                                        *)
(*                                                                         *)
(* A trunk is a reward chain block without its infusion; there may be      *)
(* several foliages for it.  A farmed block has foliage "tx" or, without   *)
(* transactions, "empty".  What validation says of a foliage is Good.      *)
(***************************************************************************)
EXTENDS Integers, FiniteSets

CONSTANTS Trunk, TrunkHeight, UPeer, PeerFoliage, Good, ClearBelow, MaxTip

Foliage == {"tx", "empty"} \cup {PeerFoliage[p] : p \in UPeer}
NoFoliage == "none"
Farmer == "farmer"

VARIABLES
    have,          \* unfinished_blocks: the foliage stored for each trunk
    seenU,         \* seen_unfinished_blocks
    requesting,    \* requesting_unfinished_blocks
    told, asked,   \* announcements made by peers, requests they have not answered
    work,          \* respond_unfinished_block calls that are validating
    cand, backup,  \* candidate_blocks and candidate_backup_blocks, by quality, one for each trunk
    toSign, signed,\* RequestSignedValues and SignedValues on their way
    tip,           \* height of the peak
    peersUp

unfVars == <<have, seenU, requesting, told, asked, work, cand, backup, toSign, signed, tip, peersUp>>
NoneStored == [t \in Trunk |-> NoFoliage]

UnfInit ==
    /\ have = NoneStored /\ cand = NoneStored /\ backup = NoneStored /\ tip = 0 /\ peersUp = UPeer
    /\ seenU = {} /\ requesting = {} /\ told = {} /\ asked = {} /\ work = {} /\ toSign = {} /\ signed = {}

(* The chain has passed the infusion of t.                                 *)
Behind(t) == TrunkHeight[t] <= tip

(* respond_unfinished_block up to its first suspension.                    *)
Begin(t, f, src) ==
    /\ seenU' = seenU \cup {<<t, f>>}
    /\ work' = IF <<t, f>> \in seenU \/ have[t] # NoFoliage \/ Behind(t) THEN work
               ELSE work \cup {[trunk |-> t, foliage |-> f, from |-> src]}

(* new_unfinished_block.                                                   *)
NewUnfinishedBlock(p, t) ==
    /\ p \in peersUp /\ <<p, t>> \notin told
    /\ told' = told \cup {<<p, t>>}
    /\ LET ask == have[t] = NoFoliage /\ t \notin requesting IN
       /\ requesting' = IF ask THEN requesting \cup {t} ELSE requesting
       /\ asked' = IF ask THEN asked \cup {<<p, t>>} ELSE asked
    /\ UNCHANGED <<have, seenU, work, cand, backup, toSign, signed, tip, peersUp>>

(* eventually_clear, five seconds later.                                   *)
EventuallyClear(t) ==
    /\ t \in requesting /\ requesting' = requesting \ {t}
    /\ UNCHANGED <<have, seenU, told, asked, work, cand, backup, toSign, signed, tip, peersUp>>

(* The peer answers (request_unfinished_block on its side).                *)
RespondUnfinishedBlock(p, t) ==
    /\ p \in peersUp /\ <<p, t>> \in asked
    /\ asked' = asked \ {<<p, t>>}
    /\ Begin(t, PeerFoliage[p], p)
    /\ UNCHANGED <<have, requesting, told, cand, backup, toSign, signed, tip, peersUp>>

(* A connection closes: its requests and running handlers are cancelled.   *)
PeerLeaves(p) ==
    /\ p \in peersUp /\ peersUp' = peersUp \ {p}
    /\ asked' = {a \in asked : a[1] # p}
    /\ work' = {w \in work : w.from # p}
    /\ UNCHANGED <<have, seenU, requesting, told, cand, backup, toSign, signed, tip>>

(* The second check, and add_unfinished_block.                             *)
StoreUnfinished(t, f) == IF have[t] = NoFoliage THEN [have EXCEPT ![t] = f] ELSE have

(* Validation ends well: the block is stored and sent on.                  *)
Validated(w) ==
    /\ w \in work /\ w.foliage \in Good /\ work' = work \ {w}
    /\ have' = StoreUnfinished(w.trunk, w.foliage)
    /\ UNCHANGED <<seenU, requesting, told, asked, cand, backup, toSign, signed, tip, peersUp>>

(* signed_values falls back to the backup and asks for signatures again.   *)
FallBack(t) ==
    IF backup[t] = NoFoliage THEN UNCHANGED <<cand, toSign>>
    ELSE /\ cand' = [cand EXCEPT ![t] = backup[t]]
         /\ toSign' = toSign \cup {<<t, backup[t]>>}

(* Validation raises: a peer that sent the block is disconnected.          *)
Refused(w) ==
    /\ w \in work /\ w.foliage \notin Good
    /\ IF w.from = Farmer
       THEN FallBack(w.trunk) /\ work' = work \ {w} /\ UNCHANGED <<peersUp, asked>>
       ELSE /\ peersUp' = peersUp \ {w.from} /\ asked' = {a \in asked : a[1] # w.from}
            /\ work' = {v \in work : v.from # w.from} /\ UNCHANGED <<cand, toSign>>
    /\ UNCHANGED <<have, seenU, requesting, told, backup, signed, tip>>

(* declare_proof_of_space: a candidate and, when it has transactions, a    *)
(* backup without.                                                         *)
DeclareProofOfSpace(t, withTx) ==
    /\ cand[t] = NoFoliage /\ ~Behind(t)
    /\ cand' = [cand EXCEPT ![t] = IF withTx THEN "tx" ELSE "empty"]
    /\ backup' = IF withTx THEN [backup EXCEPT ![t] = "empty"] ELSE backup
    /\ toSign' = toSign \cup {<<t, cand'[t]>>}
    /\ UNCHANGED <<have, seenU, requesting, told, asked, work, signed, tip, peersUp>>

(* The farmer and its harvester sign.                                      *)
FarmerSigns(t, f) ==
    /\ <<t, f>> \in toSign /\ toSign' = toSign \ {<<t, f>>} /\ signed' = signed \cup {<<t, f>>}
    /\ UNCHANGED <<have, seenU, requesting, told, asked, work, cand, backup, tip, peersUp>>

(* signed_values: a signature of another foliage than the candidate's is   *)
(* not valid for it.                                                       *)
SignedValues(t, f) ==
    /\ <<t, f>> \in signed /\ signed' = signed \ {<<t, f>>}
    /\ IF cand[t] = f THEN Begin(t, f, Farmer) ELSE UNCHANGED <<seenU, work>>
    /\ UNCHANGED <<have, requesting, told, asked, cand, backup, toSign, tip, peersUp>>

(* respond_block raises the peak, then clears candidates and unfinished    *)
(* blocks below (clear_candidate_blocks_below, clear_unfinished_blocks_-   *)
(* below).  A height a little below the peak stays, for reorgs.            *)
RespondBlock ==
    /\ tip < MaxTip /\ tip' = tip + 1
    /\ LET clear(f) == [t \in Trunk |-> IF TrunkHeight[t] < tip' - ClearBelow THEN NoFoliage ELSE f[t]]
       IN have' = clear(have) /\ cand' = clear(cand) /\ backup' = clear(backup)
    /\ UNCHANGED <<seenU, requesting, told, asked, work, toSign, signed, peersUp>>

UnfNext ==
    \/ \E t \in Trunk : EventuallyClear(t) \/ \E b \in BOOLEAN : DeclareProofOfSpace(t, b)
    \/ \E p \in UPeer, t \in Trunk : NewUnfinishedBlock(p, t) \/ RespondUnfinishedBlock(p, t)
    \/ \E p \in UPeer : PeerLeaves(p)
    \/ \E w \in work : Validated(w) \/ Refused(w)
    \/ \E t \in Trunk, f \in Foliage : FarmerSigns(t, f) \/ SignedValues(t, f)
    \/ RespondBlock

(* Validation of a farmed block ends, and the farmer answers.              *)
OwnValidated(t, f) ==
    LET w == [trunk |-> t, foliage |-> f, from |-> Farmer] IN Validated(w) \/ Refused(w)

UnfFair ==
    \A t \in Trunk, f \in {"tx", "empty"} :
        WF_unfVars(FarmerSigns(t, f)) /\ WF_unfVars(SignedValues(t, f)) /\ WF_unfVars(OwnValidated(t, f))

UnfSpec == UnfInit /\ [][UnfNext]_unfVars /\ UnfFair
-----------------------------------------------------------------------------
(* What is stored under a trunk is not replaced: timelords and peers were  *)
(* sent it, and respond_block takes transactions from it.                  *)
StoredStays == [][\A t \in Trunk : have[t] # NoFoliage => have'[t] \in {have[t], NoFoliage}]_unfVars

(* A proof of space whose transactions turn out to be bad still becomes an *)
(* unfinished block, unless the chain passes it first.                     *)
FarmedIsAdded ==
    \A t \in Trunk : (\E f \in Foliage : <<t, f>> \in toSign) ~> (have[t] # NoFoliage \/ Behind(t))

(* A farmed block is not lost before it is stored, and stays what it is    *)
(* afterwards.                                                             *)
FarmedIsKept == StoredStays /\ FarmedIsAdded
=============================================================================
