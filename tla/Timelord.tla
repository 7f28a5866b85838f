------------------------------ MODULE Timelord ------------------------------
(***************************************************************************)
(* How the timelord (timelord/timelord.py) runs its three chains on VDF    *)
(* clients: clients connect and are given to chains, a task per client     *)
(* talks to it, the main loop submits iterations and assembles the proofs, *)
(* and every new peak or end of sub-slot stops all chains and starts again.*)
(*                                                                         *)
(* last_state is its number, the place of the last infusion in the         *)
(* sub-slot, and whether there is an infused challenge chain.  The         *)
(* challenge of a chain is its name with that number.  A sub-slot has      *)
(* three iterations: a signage point after the first, the place of a block *)
(* after the second, the end.  An action is a hold of Timelord.lock; the   *)
(* clients, which are processes, act in between.                           *)
(***************************************************************************)
EXTENDS Naturals, Sequences, SequencesExt, FiniteSets, Functions

CONSTANTS
    Client,                 \* the VDF client processes, numbers from 1
    FailKinds,              \* how a client may go away: "eof", "reset"
    InfusedAt,              \* the infusion points, 0 for the end of a sub-slot, after which there is an infused chain
    PeakIps,                \* where peaks of other timelords may be infused: 0 is early, BlockIp late
    MaxAllows,              \* bound: how often a chain may be in allows_iters
    MaxStates, MaxEvents \* bounds: changes of last_state; peaks, blocks and failures from outside

Chains == {"cc", "rc", "icc"}
SubSlotIters == 3
SignagePoint == 1
BlockIp == 2

VARIABLES
    ls,                     \* last_state
    newPeak,                \* whether a peak of another timelord waits
    unspawned,              \* unspawned_chains
    stream, mapped,         \* chain_type_to_stream, and the order of its keys
    allowsIters,            \* how often a chain is in allows_iters
    client,                 \* each client and its _do_process_communication; label: whether it is num_resets
    toSubmit, submitted, finished, spLeft,   \* iters_to_submit, iters_submitted, iters_finished, signage_point_iters
    block,                  \* whether unfinished_blocks has the block
    proofsFinished,         \* those labelled with num_resets; older ones are never used
    vdfFailures,            \* whether there are failures, and whether the first one is labelled with num_resets
    tEvents                 \* peaks, blocks and failures so far

work == <<toSubmit, submitted, finished, spLeft, block, proofsFinished>>
mapping == <<unspawned, stream, mapped, allowsIters>>
tVars == <<ls, newPeak, mapping, client, work, vdfFailures, tEvents>>

NoClient == 0
Gone == [pc |-> "gone", chain |-> "cc", on |-> "cc", n |-> 0, label |-> FALSE, iters |-> {}, kind |-> "eof"]

(* get_challenge is None for the infused chain when there is none.         *)
HasChallenge(chain) == chain # "icc" \/ ls.icc
ChainCount == IF ls.icc THEN 3 ELSE 2

TimelordInit ==
    /\ ls = [n |-> 0, ip |-> 0, icc |-> FALSE] /\ newPeak = FALSE
    /\ unspawned = <<"cc", "rc", "icc">>
    /\ stream = [c \in Chains |-> NoClient] /\ mapped = <<>> /\ allowsIters = [c \in Chains |-> 0]
    /\ client = [c \in Client |-> Gone]
    /\ block = FALSE /\ proofsFinished = {} /\ finished = {} /\ spLeft = {SignagePoint}
    /\ toSubmit = [c \in Chains |-> IF c = "icc" THEN {} ELSE {SignagePoint, SubSlotIters}]
    /\ submitted = [c \in Chains |-> {}]
    /\ vdfFailures = "none" /\ tEvents = 0
-----------------------------------------------------------------------------
(* _stop_chain: what becomes of a chain that has a stream.  drain raises   *)
(* on a connection that was reset, and the chain then stays as it is.      *)
Broken(chain) == client[stream[chain]].pc = "gone" /\ client[stream[chain]].kind = "reset"
Stoppable == {c \in Chains : stream[c] # NoClient /\ ~Broken(c)}

(* Where stopping a chain leaves its client: it was asked to stop, or its  *)
(* connection was closed; its task may have read the OK and wait for the   *)
(* lock.                                                                   *)
Stopped(pc, asked) ==
    CASE pc = "gone" -> "gone"
      [] pc = "ok" -> IF asked THEN "stoppingOk" ELSE "closedOk"
      [] pc = "run" /\ asked -> "stopping"
      [] OTHER -> "closed"

(* unspawned_chains after the chains are stopped.                          *)
BackToUnspawned == unspawned \o SelectSeq(mapped, LAMBDA c : c \in Stoppable /\ c \notin Range(unspawned))

StopChains ==
    /\ stream' = [c \in Chains |-> IF c \in Stoppable THEN NoClient ELSE stream[c]]
    /\ allowsIters' = [c \in Chains |-> IF c \in Stoppable /\ allowsIters[c] > 0 THEN allowsIters[c] - 1 ELSE allowsIters[c]]
    /\ unspawned' = BackToUnspawned
    /\ mapped' = SelectSeq(mapped, LAMBDA c : c \notin Stoppable)
    /\ client' = [x \in Client |->
            LET c == client[x].chain
                old == [client[x] EXCEPT !.label = FALSE] IN
            IF c \in Stoppable /\ stream[c] = x THEN [old EXCEPT !.pc = Stopped(@, allowsIters[c] > 0)] ELSE old]

(* _can_infuse_unfinished_block: its infusion point is not passed.         *)
CanInfuse(s) == s.ip < BlockIp

(* iters_submitted after _reset_chains.                                    *)
ResetSubmitted == [c \in Chains |-> {}]

(* _reset_chains for last state s; kept: the unfinished block stays.       *)
ResetChains(s, kept, onlyEos) ==
    /\ StopChains
    /\ finished' = {} /\ proofsFinished' = {}
    /\ spLeft' = IF s.ip < SignagePoint THEN {SignagePoint} ELSE {}
    /\ block' = (kept /\ CanInfuse(s) /\ ~onlyEos)
    /\ LET end == {SubSlotIters - s.ip}
           ip == IF block' THEN {BlockIp - s.ip} ELSE {}
           sp == IF onlyEos THEN {} ELSE spLeft' IN
       toSubmit' = [c \in Chains |-> IF c = "icc" THEN (IF s.icc THEN ip \cup end ELSE {}) ELSE ip \cup sp \cup end]
    /\ submitted' = ResetSubmitted

(* set_state, then _reset_chains: _handle_new_peak, _handle_subslot_end.   *)
NewState(ip, kept) ==
    /\ ls.n < MaxStates
    /\ ls' = [n |-> ls.n + 1, ip |-> ip, icc |-> ip \in InfusedAt]
    /\ ResetChains(ls', kept, FALSE)
    /\ vdfFailures' = IF vdfFailures = "none" THEN "none" ELSE "old"
-----------------------------------------------------------------------------
Event == tEvents < MaxEvents /\ tEvents' = tEvents + 1

(* new_peak_timelord, for a peak of another timelord.                      *)
NewPeakTimelord ==
    /\ ~newPeak /\ ls.n < MaxStates
    /\ Event
    /\ newPeak' = TRUE
    /\ UNCHANGED <<ls, mapping, client, work, vdfFailures>>

(* new_unfinished_block_timelord, if the block can still be infused.       *)
NewUnfinishedBlock ==
    /\ ~block /\ CanInfuse(ls)
    /\ Event
    /\ block' = TRUE
    /\ toSubmit' = [c \in Chains |-> IF HasChallenge(c) THEN toSubmit[c] \cup {BlockIp - ls.ip} ELSE toSubmit[c]]
    /\ UNCHANGED <<ls, newPeak, mapping, client, submitted, finished, spLeft, proofsFinished, vdfFailures>>

(* The first hold of _manage_chains: _handle_failures, then a new peak.    *)
HandleFailures ==
    /\ vdfFailures # "none"
    /\ vdfFailures' = "none"
    /\ IF vdfFailures = "current" THEN ResetChains(ls, block, TRUE)
       ELSE UNCHANGED <<mapping, client, work>>
    /\ UNCHANGED <<ls, newPeak, tEvents>>

HandleNewPeak ==
    /\ newPeak /\ vdfFailures = "none"
    /\ newPeak' = FALSE
    /\ \E ip \in PeakIps : NewState(ip, block /\ ip = 0)
    /\ UNCHANGED tEvents

(* The least iteration that is not finished, and its proofs.               *)
Waiting == submitted["rc"] \ finished
Selected(it) == it \in Waiting /\ \A x \in Waiting : it <= x
ProofsOf(it) == {p \in proofsFinished : p.it = it}
Enough(it, n) == Cardinality(ProofsOf(it)) = n /\ {"cc", "rc"} \subseteq {p.chain : p \in ProofsOf(it)}

(* The clients that are, or soon will be, in free_clients: the launcher    *)
(* starts a process again when it has ended (_handle_client).              *)
Idle == {x \in Client : client[x].pc = "gone" /\ \A c \in Chains : stream[c] # x}

(* Nothing has happened for long, and _handle_failures restarts all chains.*)
Inactive ==
    /\ \A c \in Client : client[c].pc = "gone" \/ (client[c].pc = "run" /\ client[c].iters = {})
    /\ \A c \in Chains : allowsIters[c] > 0 /\ stream[c] # NoClient => toSubmit[c] \subseteq submitted[c] \/ Broken(c)
    /\ \A it \in Waiting : Selected(it) => ~Enough(it, 2) /\ ~Enough(it, 3)
    /\ (Idle = {} \/ \A i \in 1..Len(unspawned) : ~HasChallenge(unspawned[i])) /\ vdfFailures = "none" /\ ~newPeak
    /\ ResetChains(ls, block, FALSE)
    /\ UNCHANGED <<ls, newPeak, vdfFailures, tEvents>>

(* One turn of _map_chains_with_vdf_clients.  The chain that is picked is  *)
(* the first one (timelord.py:383), the challenge that of the first chain  *)
(* that has one.                                                           *)
MapChain ==
    /\ Idle # {}
    /\ \E i \in 1..Len(unspawned) :
         /\ HasChallenge(unspawned[i]) /\ \A j \in 1..(i - 1) : ~HasChallenge(unspawned[j])
         /\ LET c == CHOOSE x \in Idle : \A y \in Idle : x <= y
                picked == Head(unspawned) IN
            /\ stream' = [stream EXCEPT ![picked] = c] /\ mapped' = Append(mapped, picked)
            /\ client' = [client EXCEPT ![c] = [Gone EXCEPT !.pc = "start", !.chain = picked, !.on = unspawned[i],
                                                            !.n = ls.n, !.label = TRUE]]
    /\ unspawned' = Tail(unspawned)
    /\ UNCHANGED <<ls, newPeak, allowsIters, work, vdfFailures, tEvents>>

(* _submit_iterations raises at a chain that is allowed iterations but has *)
(* no stream, or a broken one to write to.                                 *)
Pending(c) == allowsIters[c] > 0 /\ toSubmit[c] \ submitted[c] # {}
Raises(c) == allowsIters[c] > 0 /\ (stream[c] = NoClient \/ (Pending(c) /\ Broken(c)))
Before(c) == CASE c = "cc" -> {} [] c = "rc" -> {"cc"} [] c = "icc" -> {"cc", "rc"}

(* _submit_iterations, one chain.  A client that is still in its handshake *)
(* takes them for a part of it.                                            *)
SubmitIterations(c) ==
    /\ Pending(c) /\ ~Raises(c) /\ \A b \in Before(c) : ~Raises(b)
    /\ submitted' = [submitted EXCEPT ![c] = @ \cup toSubmit[c]]
    /\ LET x == stream[c] IN
       client' = [client EXCEPT ![x] = IF @.pc = "start" THEN [@ EXCEPT !.pc = "garbled"]
                                       ELSE [@ EXCEPT !.iters = @ \cup (toSubmit[c] \ submitted[c])]]
    /\ UNCHANGED <<ls, newPeak, mapping, toSubmit, finished, spLeft, block, proofsFinished, vdfFailures, tEvents>>
-----------------------------------------------------------------------------
(* The checks after it.  They also compare the challenge of the reward     *)
(* chain's proof with last_state's, which are never different: see         *)
(* ProofsBelongTogether.                                                   *)
Turn == \A c \in Chains : ~Pending(c) /\ ~Raises(c)

(* _check_for_new_ip; can_infuse_block may refuse, and for low heights     *)
(* last_state is not advanced.                                             *)
CheckForNewIp ==
    LET it == BlockIp - ls.ip IN
    /\ Turn /\ block /\ Selected(it) /\ Enough(it, ChainCount)
    /\ \/ /\ finished' = finished \cup {it}
          /\ UNCHANGED <<ls, mapping, client, toSubmit, submitted, spLeft, block, proofsFinished, vdfFailures>>
       \/ /\ finished' = finished \cup {it} /\ proofsFinished' = proofsFinished \ ProofsOf(it)
          /\ UNCHANGED <<ls, mapping, client, toSubmit, submitted, spLeft, block, vdfFailures>>
       \/ NewState(BlockIp, FALSE)
    /\ UNCHANGED <<newPeak, tEvents>>

(* _check_for_new_sp.                                                      *)
CheckForNewSp ==
    LET it == SignagePoint - ls.ip IN
    /\ Turn /\ SignagePoint \in spLeft /\ Selected(it) /\ Enough(it, 2)
    /\ finished' = finished \cup {it} /\ spLeft' = spLeft \ {SignagePoint}
    /\ proofsFinished' = proofsFinished \ ProofsOf(it)
    /\ UNCHANGED <<ls, newPeak, mapping, client, toSubmit, submitted, block, vdfFailures, tEvents>>

(* _check_for_end_of_subslot; an overflow block may wait for the next one. *)
CheckForEndOfSubSlot ==
    LET it == SubSlotIters - ls.ip IN
    /\ Turn /\ Selected(it) /\ Enough(it, ChainCount)
    /\ \E overflow \in BOOLEAN : NewState(0, overflow)
    /\ UNCHANGED <<newPeak, tEvents>>
-----------------------------------------------------------------------------
(* The task reads the client's OK, and then takes the lock.                *)
ReadOk(x) ==
    /\ client[x].pc = "start"
    /\ client' = [client EXCEPT ![x].pc = "ok"]
    /\ UNCHANGED <<ls, newPeak, mapping, work, vdfFailures, tEvents>>


AllowIters(x) ==
    /\ client[x].pc \in {"ok", "closedOk", "stoppingOk"} /\ allowsIters[client[x].chain] < MaxAllows
    /\ client' = [client EXCEPT ![x].pc = CASE @ = "ok" -> "run" [] @ = "closedOk" -> "closed" [] @ = "stoppingOk" -> "stopping"]
    /\ allowsIters' = [allowsIters EXCEPT ![client[x].chain] = @ + 1]
    /\ UNCHANGED <<ls, newPeak, unspawned, stream, mapped, work, vdfFailures, tEvents>>

(* Mutant: proofs of before the last reset count too.                      *)
CurrentAny(x) == TRUE

(* The label of a proof is num_resets.                                     *)
Current(x) == client[x].label

(* A proof is read and appended.                                           *)
FinishProof(x) ==
    /\ client[x].pc \in {"run", "stopping"} /\ client[x].iters # {}
    /\ \E it \in client[x].iters :
         /\ \A y \in client[x].iters : it <= y
         /\ client' = [client EXCEPT ![x].iters = @ \ {it}]
         /\ proofsFinished' = IF Current(x)
                              THEN proofsFinished \cup {[chain |-> client[x].chain, on |-> client[x].on, n |-> client[x].n, it |-> it]}
                              ELSE proofsFinished
    /\ UNCHANGED <<ls, newPeak, mapping, toSubmit, submitted, finished, spLeft, block, vdfFailures, tEvents>>

(* The client answers STOP and is gone.                                    *)
ClientStops(x) ==
    /\ client[x].pc = "stopping"
    /\ client' = [client EXCEPT ![x] = Gone]
    /\ UNCHANGED <<ls, newPeak, mapping, work, vdfFailures, tEvents>>

Failure(x) == vdfFailures' = IF vdfFailures = "none" THEN (IF client[x].label THEN "current" ELSE "old") ELSE vdfFailures

(* A task whose connection was closed, or whose client did not understand  *)
(* it, ends with a failure.                                                *)
TaskFails(x) ==
    /\ client[x].pc \in {"closed", "garbled"}
    /\ client' = [client EXCEPT ![x] = [Gone EXCEPT !.chain = client[x].chain]]
    /\ Failure(x)
    /\ UNCHANGED <<ls, newPeak, mapping, work, tEvents>>

(* A client process goes away by itself.                                   *)
ClientFails(x) ==
    /\ Event
    /\ client[x].pc \in {"start", "run"}
    /\ \E k \in FailKinds : client' = [client EXCEPT ![x] = [Gone EXCEPT !.chain = client[x].chain, !.kind = k]]
    /\ Failure(x)
    /\ UNCHANGED <<ls, newPeak, mapping, work>>

ClientStep(x) == ReadOk(x) \/ AllowIters(x) \/ FinishProof(x) \/ ClientStops(x) \/ TaskFails(x)
Checks == CheckForNewIp \/ CheckForNewSp \/ CheckForEndOfSubSlot

TimelordNext ==
    \/ NewPeakTimelord \/ NewUnfinishedBlock \/ HandleFailures \/ HandleNewPeak \/ Inactive \/ MapChain \/ Checks
    \/ \E c \in Chains : SubmitIterations(c)
    \/ \E x \in Client : ClientStep(x) \/ ClientFails(x)

TimelordFairness ==
    /\ WF_tVars(HandleFailures) /\ WF_tVars(HandleNewPeak) /\ WF_tVars(Inactive) /\ WF_tVars(MapChain) /\ WF_tVars(Checks)
    /\ \A c \in Chains : WF_tVars(SubmitIterations(c))
    /\ \A x \in Client : WF_tVars(ClientStep(x))
TimelordSpec == TimelordInit /\ [][TimelordNext]_tVars /\ TimelordFairness
-----------------------------------------------------------------------------
(* Every chain has a client or waits for one, never both.                  *)
ChainsAccounted ==
    /\ \A c \in Chains : stream[c] # NoClient <=> c \notin Range(unspawned)
    /\ Cardinality(Range(unspawned)) = Len(unspawned)

(* What the checks send to the full nodes is made of proofs that belong    *)
(* together: each was computed on the challenge of its own chain, all for  *)
(* last_state, however late the tasks deliver them.                        *)
ProofsBelongTogether ==
    \A it \in Waiting :
        Selected(it) /\ (Enough(it, 2) \/ Enough(it, 3)) =>
            \A p \in ProofsOf(it) : p.on = p.chain /\ p.n = ls.n

(* "Chains that currently accept iterations" (timelord.py:80): a chain is  *)
(* there once, and its own client has put it there.                        *)
AllowedAreReady ==
    \A c \in Chains :
        allowsIters[c] > 0 => allowsIters[c] = 1 /\ stream[c] # NoClient /\ client[stream[c]].pc \in {"run", "gone"}


(* The chains keep their clients, and proofs that are sent belong          *)
(* together.                                                               *)
ProofsSound == ChainsAccounted /\ ProofsBelongTogether
=============================================================================
