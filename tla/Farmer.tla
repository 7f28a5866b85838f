------------------------------- MODULE Farmer -------------------------------
(***************************************************************************)
(* From a signage point to a signed block: the farmer's caches             *)
(* (farmer/farmer.py) and handlers (farmer/farmer_api.py), and the         *)
(* harvester's lookups and signatures (harvester/harvester_api.py).        *)
(*                                                                         *)
(* A signage point is a pair of its challenge chain and reward chain       *)
(* hashes; several may share the first.  A quality string is the pair of   *)
(* plot and challenge chain hash, and Level gives how good it is: its      *)
(* required iterations are Level times the difficulty.  The full node is   *)
(* external.  Handlers of one connection run as tasks, so messages are     *)
(* handled in any order.  Time counts sub-slots (ten minutes); messages    *)
(* take far less.                                                          *)
(***************************************************************************)
EXTENDS Naturals, Sequences, SequencesExt, FiniteSets, Functions

CONSTANTS
    SP,                \* signage points <<cc, rc>> the node may announce
    Plot, PoolPlots,   \* plots, and those with a pool contract
    InitPlots,         \* the sets of plots a harvester may start with
    Level,             \* [Plot \X cc -> Nat]
    Difficulty, Interval, PoolInterval, PoolDiffs,
    KeyFor,            \* plots whose pool key is in pool_sks_map
    MaxPosPerSp, Mainnet,
    MaxAnnounced, MaxTicks, MaxChanges   \* bounds: signage points; sub-slots; changes of plots, pool difficulty and connections

ASSUME FarmerAssumption == PoolPlots \subseteq Plot /\ KeyFor \subseteq Plot

CC == {s[1] : s \in SP}

VARIABLES
    sps, proofs, quals, responses,            \* the farmer's dictionaries
    spTime, qTime,                            \* cache_add_time, of signage points and of qualities
    poolDiff,                                 \* current_difficulty of the pool, 0 if unknown
    now, hUp,                                 \* time; whether the harvester is connected
    hPlots, looking,                          \* loaded plots; lookups in the thread pool
    toFarmer2, toHarvester2,                  \* messages between farmer and harvester
    declared, asked, signed,                  \* at the node: proofs declared, RequestSignedValues, SignedValues
    announced, fChanges

caches == <<sps, proofs, quals, responses, spTime, qTime>>
nodeVars == <<declared, asked, signed>>
fVars == <<caches, poolDiff, now, hUp, hPlots, looking, toFarmer2, toHarvester2, nodeVars, announced, fChanges>>

Empty == [x \in {} |-> {}]
(* The dictionary f with k set to v.                                       *)
Put(f, k, v) == [x \in DOMAIN f \cup {k} |-> IF x = k THEN v ELSE f[x]]
Without(f, K) == Restrict(f, DOMAIN f \ K)
Ask(q) == [type |-> "ask", plot |-> q[1], cc |-> q[2], msg |-> "none"]
Required(p, cc, diff) == Level[<<p, cc>>] * diff

FarmerInit ==
    /\ sps = Empty /\ proofs = Empty /\ quals = Empty /\ responses = Empty /\ spTime = Empty /\ qTime = Empty
    /\ poolDiff = 0 /\ now = 0 /\ hUp = TRUE /\ hPlots \in InitPlots /\ looking = {}
    /\ toFarmer2 = {} /\ toHarvester2 = {} /\ declared = {} /\ asked = {} /\ signed = {}
    /\ announced = 0 /\ fChanges = 0
-----------------------------------------------------------------------------
(* new_signage_point of the farmer: send_to_all only fills the outgoing    *)
(* queues, so nothing comes between it and the update of sps.  The same    *)
(* signage point may come from several full nodes.                         *)
NewSignagePoint(s) ==
    /\ announced < MaxAnnounced /\ announced' = announced + 1
    /\ toHarvester2' = IF hUp THEN toHarvester2 \cup {[type |-> "sp", cc |-> s[1], pool |-> poolDiff]}
                       ELSE toHarvester2
    /\ LET known == IF s[1] \in DOMAIN sps THEN sps[s[1]] ELSE <<>>
           fresh == s[2] \notin Range(known) IN
       /\ sps' = Put(sps, s[1], IF fresh THEN Append(known, s[2]) ELSE known)
       /\ spTime' = IF fresh THEN Put(spTime, s[1], now) ELSE spTime
    /\ UNCHANGED <<qTime, proofs, quals, responses, poolDiff, now, hUp, hPlots, looking, toFarmer2, nodeVars, fChanges>>

(* new_signage_point_harvester up to the lookups; passes_plot_filter is    *)
(* part of Level (a plot that fails it has no good proof).                 *)
NewSignagePointHarvester(m) ==
    /\ m.type = "sp" /\ m \in toHarvester2
    /\ toHarvester2' = toHarvester2 \ {m}
    /\ looking' = looking \cup {[plot |-> p, cc |-> m.cc, pool |-> m.pool] : p \in hPlots}
    /\ UNCHANGED <<caches, poolDiff, now, hUp, hPlots, toFarmer2, nodeVars, announced, fChanges>>

(* One lookup is done (blocking_lookup, then new_proof_of_space if good).  *)
(* The plot may have left the manager meanwhile.                           *)
Lookup(l) ==
    /\ l \in looking
    /\ looking' = looking \ {l}
    /\ LET pooling == l.plot \in PoolPlots /\ l.pool # 0
           good == IF pooling THEN Required(l.plot, l.cc, l.pool) < PoolInterval
                   ELSE Required(l.plot, l.cc, Difficulty) < Interval IN
       toFarmer2' = IF good /\ hUp THEN toFarmer2 \cup {[type |-> "proof", plot |-> l.plot, cc |-> l.cc, msg |-> "none"]}
                    ELSE toFarmer2
    /\ UNCHANGED <<caches, poolDiff, now, hUp, hPlots, toHarvester2, nodeVars, announced, fChanges>>

(* Mutant: the entry of the signage point is not refreshed.                *)
FoundTimeKept(cc) == spTime

(* The time of the signage point after a proof good enough for a block.    *)
FoundTime(cc) == Put(spTime, cc, now)

(* Responses that new_proof_of_space does not look at.                     *)
Ignored(cc, count) == (~Mainnet /\ count > MaxPosPerSp) \/ cc \notin DOMAIN sps

(* The time of the signage point once its responses are counted.           *)
CountedTime(cc) == IF cc \in DOMAIN responses THEN spTime ELSE Put(spTime, cc, now)

(* new_proof_of_space of the farmer.  Every path through the pool part     *)
(* returns, so that a pool plot is only tried for the first signage point. *)
NewProofOfSpace(m) ==
    /\ m.type = "proof" /\ m \in toFarmer2
    /\ toFarmer2' = toFarmer2 \ {m}
    /\ LET cc == m.cc
           q == <<m.plot, cc>>
           count == IF cc \in DOMAIN responses THEN responses[cc] ELSE 0
           tried == IF Ignored(cc, count) THEN <<>>
                    ELSE IF m.plot \in PoolPlots THEN SubSeq(sps[cc], 1, 1) ELSE sps[cc]
           good == tried # <<>> /\ Required(m.plot, cc, Difficulty) < Interval IN
       /\ responses' = Put(responses, cc, count + Len(tried))
       /\ spTime' = IF good THEN FoundTime(cc) ELSE CountedTime(cc)
       /\ qTime' = IF good THEN Put(qTime, q, now) ELSE qTime
       /\ proofs' = IF good THEN Put(proofs, cc, (IF cc \in DOMAIN proofs THEN proofs[cc] ELSE {}) \cup {m.plot})
                    ELSE proofs
       /\ quals' = IF good THEN Put(quals, q, TRUE) ELSE quals
       /\ toHarvester2' = IF good /\ hUp
                          THEN toHarvester2 \cup {[type |-> "sign", plot |-> m.plot, cc |-> cc, msg |-> rc] : rc \in Range(tried)}
                          ELSE toHarvester2
    /\ UNCHANGED <<sps, poolDiff, now, hUp, hPlots, looking, nodeVars, announced, fChanges>>

(* request_signatures of the harvester: no answer if the plot is gone.     *)
RequestSignatures(m) ==
    /\ m.type = "sign" /\ m \in toHarvester2
    /\ toHarvester2' = toHarvester2 \ {m}
    /\ toFarmer2' = IF m.plot \in hPlots /\ hUp THEN toFarmer2 \cup {[m EXCEPT !.type = "signatures"]} ELSE toFarmer2
    /\ UNCHANGED <<caches, poolDiff, now, hUp, hPlots, looking, nodeVars, announced, fChanges>>

(* respond_signatures: those of a signage point become a declaration,      *)
(* those of a block become SignedValues.                                   *)
RespondSignatures(m) ==
    /\ m.type = "signatures" /\ m \in toFarmer2
    /\ toFarmer2' = toFarmer2 \ {m}
    /\ LET q == <<m.plot, m.cc>>
           usable == m.cc \in DOMAIN sps /\ m.cc \in DOMAIN proofs /\ m.plot \in proofs[m.cc]
           forSp == usable /\ m.msg \in Range(sps[m.cc])
           haveKey == m.plot \in PoolPlots \cup KeyFor IN
       /\ declared' = IF forSp /\ haveKey THEN declared \cup {<<q, m.msg>>} ELSE declared
       /\ signed' = IF usable /\ m.msg = "block" THEN signed \cup {q} ELSE signed
    /\ UNCHANGED <<caches, poolDiff, now, hUp, hPlots, looking, toHarvester2, asked, announced, fChanges>>

(* The node asks, once, for the signatures of a block it made from a       *)
(* declaration.                                                            *)
NodeAsks(q) ==
    /\ \E d \in declared : d[1] = q
    /\ q \notin asked
    /\ asked' = asked \cup {q}
    /\ toFarmer2' = toFarmer2 \cup {Ask(q)}
    /\ UNCHANGED <<caches, poolDiff, now, hUp, hPlots, looking, toHarvester2, declared, signed, announced, fChanges>>

(* Whether the quality string of a RequestSignedValues is known.           *)
Signable(q) == q \in DOMAIN quals

(* request_signed_values.                                                  *)
RequestSignedValues(m) ==
    /\ m.type = "ask" /\ m \in toFarmer2
    /\ toFarmer2' = toFarmer2 \ {m}
    /\ toHarvester2' = IF Signable(<<m.plot, m.cc>>) /\ hUp
                       THEN toHarvester2 \cup {[m EXCEPT !.type = "sign", !.msg = "block"]} ELSE toHarvester2
    /\ UNCHANGED <<caches, poolDiff, now, hUp, hPlots, looking, nodeVars, announced, fChanges>>

InFlight == toFarmer2 # {} \/ toHarvester2 # {} \/ looking # {}

(* Time passes, far more slowly than messages.                             *)
SubSlot ==
    /\ ~InFlight /\ now < MaxTicks
    /\ now' = now + 1
    /\ UNCHANGED <<caches, poolDiff, hUp, hPlots, looking, toFarmer2, toHarvester2, nodeVars, announced, fChanges>>

Expired(time) == {k \in DOMAIN time : now - time[k] > 3}

(* _periodically_clear_cache_and_refresh_task.                             *)
ClearCache ==
    /\ Expired(spTime) \cup Expired(qTime) # {}
    /\ LET old == Expired(spTime) IN
       /\ sps' = Without(sps, old) /\ proofs' = Without(proofs, old)
       /\ responses' = Without(responses, old) /\ spTime' = Without(spTime, old)
    /\ LET old == Expired(qTime) IN quals' = Without(quals, old) /\ qTime' = Without(qTime, old)
    /\ UNCHANGED <<poolDiff, now, hUp, hPlots, looking, toFarmer2, toHarvester2, nodeVars, announced, fChanges>>

(* The world around: the harvester disconnects, which loses what is on its *)
(* way, and connects again; a plot is removed; the pool changes its        *)
(* difficulty.                                                             *)
Change ==
    /\ fChanges < MaxChanges /\ fChanges' = fChanges + 1
    /\ \/ /\ hUp' = ~hUp /\ toFarmer2' = {m \in toFarmer2 : m.type = "ask"} /\ toHarvester2' = {}
          /\ UNCHANGED <<hPlots, poolDiff>>
       \/ /\ \E p \in hPlots : hPlots' = hPlots \ {p}
          /\ UNCHANGED <<hUp, toFarmer2, toHarvester2, poolDiff>>
       \/ /\ \E d \in PoolDiffs : poolDiff' = d
          /\ UNCHANGED <<hUp, toFarmer2, toHarvester2, hPlots>>
    /\ UNCHANGED <<caches, now, looking, nodeVars, announced>>

Handle ==
    \/ \E m \in toHarvester2 : NewSignagePointHarvester(m) \/ RequestSignatures(m)
    \/ \E l \in looking : Lookup(l)
    \/ \E m \in toFarmer2 : NewProofOfSpace(m) \/ RespondSignatures(m) \/ RequestSignedValues(m)

FarmerNext ==
    \/ \E s \in SP : NewSignagePoint(s)
    \/ Handle
    \/ \E q \in Plot \X CC : NodeAsks(q)
    \/ SubSlot \/ ClearCache \/ Change

FarmerSpec == FarmerInit /\ [][FarmerNext]_fVars /\ WF_fVars(Handle)
-----------------------------------------------------------------------------
(* Every key of the four dictionaries has a time, so that the periodic     *)
(* task will clear it (farmer.py:96, "These keys refer to keys in the      *)
(* above 4 dictionaries").                                                 *)
KeysAreTimed ==
    /\ DOMAIN sps \cup DOMAIN proofs \cup DOMAIN responses \subseteq DOMAIN spTime
    /\ DOMAIN quals \subseteq DOMAIN qTime

(* While the farmer keeps a quality string, signatures for it that are on  *)
(* their way can be used: the signage point and the proof are in the other *)
(* caches, which expire on their own, and signatures of a signage point    *)
(* match one of its reward chain hashes (the lookups and assertions of     *)
(* respond_signatures, farmer_api.py:289-310).                             *)
SignaturesUsable ==
    \A m \in toFarmer2 :
        m.type = "signatures" /\ <<m.plot, m.cc>> \in DOMAIN quals =>
            /\ m.cc \in DOMAIN sps
            /\ m.cc \in DOMAIN proofs /\ m.plot \in proofs[m.cc]
            /\ m.msg # "block" => m.msg \in Range(sps[m.cc])

Blockable(q) == Required(q[1], q[2], Difficulty) < Interval

(* A proof that reaches the farmer and is good enough for a block is       *)
(* declared to the full nodes with every signage point known, or with the  *)
(* first for a pool plot, unless harvester or plot went away.              *)
ProofsAreDeclared ==
    \A p \in Plot, s \in SP :
        (/\ [type |-> "proof", plot |-> p, cc |-> s[1], msg |-> "none"] \in toFarmer2
         /\ s[1] \in DOMAIN sps /\ s[2] \in Range(sps[s[1]])
         /\ p \in PoolPlots => s[2] = sps[s[1]][1]
         /\ Blockable(<<p, s[1]>>) /\ p \in PoolPlots \cup KeyFor)
            ~> (<<<<p, s[1]>>, s[2]>> \in declared \/ fChanges > 0)

(* A block whose declaration is not older than the caches keep it is       *)
(* signed when the node asks.                                              *)
AskedIsSigned ==
    \A q \in Plot \X CC :
        (Ask(q) \in toFarmer2 /\ q \in DOMAIN qTime /\ now - qTime[q] <= 3) ~> (q \in signed \/ fChanges > 0)
-----------------------------------------------------------------------------
(***************************************************************************)
(* The farmer's state of one pool (Farmer.pool_state in farmer/farmer.py): *)
(* update_pool_state, run by a periodic task and by the handler of a       *)
(* partial that the pool refused, the partials of new_proof_of_space       *)
(* (farmer/farmer_api.py), and set_payout_instructions, which goes through *)
(* the config file.  The wallet process writes that file too.              *)
(*                                                                         *)
(* The pool is external: it answers a request, or the request fails.  An   *)
(* action is what runs between two awaits; the pool handles GET /farmer    *)
(* at a moment of its own.  Of the times next_pool_info_update and         *)
(* next_farmer_update only whether they have come is kept.                 *)
(***************************************************************************)

CONSTANTS
    Payouts, InitPayout,
    MinDifficulty, PoolDifficulties,    \* difficulties of the pool
    MaxFailures, MaxPayouts, MaxPartials   \* bounds: failed requests; payout changes; partials

Updater == {"periodic", "partial"}

VARIABLES
    keys,        \* whether the keychain has keys, and whether the tasks are started
    conf,        \* the config file: payout instructions, authentication key
    confNew,     \* st_mtime > last_config_access_time
    wallet,      \* the pool list the wallet has read and not yet written back
    pst,         \* pool_state
    upd,         \* the runs of update_pool_state
    partial,     \* the handler of a partial
    pool,        \* the pool: farmer known, its payout instructions and difficulty
    failures, payouts, partials

poolVars == <<keys, conf, confNew, wallet, pst, upd, partial, pool, failures, payouts, partials>>

NoAnswer == [type |-> "none", payout |-> InitPayout, diff |-> 0]
Idle == [pc |-> "idle", payout |-> InitPayout, posted |-> FALSE, ans |-> NoAnswer]

PoolStateInit ==
    /\ keys = "none"
    /\ conf = [payout |-> InitPayout, auth |-> FALSE] /\ confNew = TRUE /\ wallet = InitPayout
    /\ pst = [made |-> FALSE, infoDue |-> TRUE, farmerDue |-> TRUE, timeout |-> FALSE, diff |-> 0]
    /\ upd = [u \in Updater |-> Idle]
    /\ partial = "idle"
    /\ pool = [known |-> FALSE, payout |-> InitPayout, diff |-> MinDifficulty]
    /\ failures = 0 /\ payouts = 0 /\ partials = 0
-----------------------------------------------------------------------------
(* Keys are added to the keychain; start_task tries setup_keys until then. *)
KeysAdded == keys = "none" /\ keys' = "added" /\ UNCHANGED <<conf, confNew, wallet, pst, upd, partial, pool, failures, payouts, partials>>
StartTask == keys = "added" /\ keys' = "started" /\ UNCHANGED <<conf, confNew, wallet, pst, upd, partial, pool, failures, payouts, partials>>

(* One turn of _periodically_update_pool_state_task: the file has changed, *)
(* or a minute has passed.                                                 *)
Periodic ==
    /\ keys = "started" /\ upd["periodic"].pc = "idle"
    /\ confNew' = FALSE
    /\ upd' = [upd EXCEPT !["periodic"].pc = "begin"]
    /\ UNCHANGED <<keys, conf, wallet, pst, partial, pool, failures, payouts, partials>>

(* The second half of an update, from the check of next_farmer_update to   *)
(* its first await, for pool state p and the run r of u.                   *)
FarmerCheck(u, p, r) ==
    /\ pst' = [p EXCEPT !.farmerDue = FALSE]
    /\ upd' = [upd EXCEPT ![u] = IF p.farmerDue /\ p.timeout THEN [r EXCEPT !.pc = "get"] ELSE Idle]

(* update_pool_state up to GET /pool_info.  add_auth_key writes the file   *)
(* if the key is missing there.                                            *)
BeginUpdate(u) ==
    /\ upd[u].pc = "begin"
    /\ conf' = [conf EXCEPT !.auth = TRUE]
    /\ confNew' = (confNew \/ ~conf.auth)
    /\ LET r == [upd[u] EXCEPT !.payout = conf.payout] IN
       IF pst.infoDue
       THEN /\ pst' = [pst EXCEPT !.made = TRUE, !.infoDue = FALSE]
            /\ upd' = [upd EXCEPT ![u] = [r EXCEPT !.pc = "info"]]
       ELSE FarmerCheck(u, pst, r)
    /\ UNCHANGED <<keys, wallet, partial, pool, failures, payouts, partials>>

Fails == failures < MaxFailures /\ failures' = failures + 1

(* The answer to GET /pool_info.                                           *)
PoolInfo(u) ==
    /\ upd[u].pc = "info"
    /\ \/ /\ FarmerCheck(u, [pst EXCEPT !.timeout = TRUE, !.diff = IF @ = 0 THEN MinDifficulty ELSE @], upd[u])
          /\ UNCHANGED failures
       \/ Fails /\ FarmerCheck(u, pst, upd[u])
    /\ UNCHANGED <<keys, conf, confNew, wallet, partial, pool, payouts, partials>>

(* The pool answers GET /farmer.                                           *)
PoolAnswersGet(u) ==
    /\ upd[u].pc = "get"
    /\ \/ /\ upd' = [upd EXCEPT ![u].pc = "got",
                     ![u].ans = [type |-> IF pool.known THEN "info" ELSE "unknown", payout |-> pool.payout, diff |-> pool.diff]]
          /\ UNCHANGED failures
       \/ Fails /\ upd' = [upd EXCEPT ![u].pc = "got", ![u].ans = NoAnswer]
    /\ UNCHANGED <<keys, conf, confNew, wallet, pst, partial, pool, payouts, partials>>

(* Mutant: the farmer is made known, but its data is never put again.      *)
AfterGetPostOnly(r) == IF r.ans.type = "unknown" /\ ~r.posted THEN "post" ELSE "idle"

(* What follows an answer to GET /farmer.  error_code keeps its value over *)
(* the second GET, but only the first one leads to a POST.                 *)
AfterGet(r) ==
    IF r.ans.type = "unknown" /\ ~r.posted THEN "post"
    ELSE IF r.ans.type = "info" /\ r.ans.payout # r.payout THEN "put" ELSE "idle"

(* current_difficulty after an answer to GET /farmer.                      *)
FarmerDifficulty(a) == IF a.type = "info" THEN a.diff ELSE pst.diff

(* update_pool_farmer_info and the decision after it.                      *)
GotFarmer(u) ==
    /\ upd[u].pc = "got"
    /\ pst' = [pst EXCEPT !.diff = FarmerDifficulty(upd[u].ans)]
    /\ LET next == AfterGet(upd[u]) IN
       upd' = [upd EXCEPT ![u] = IF next = "idle" THEN Idle ELSE [@ EXCEPT !.pc = next]]
    /\ UNCHANGED <<keys, conf, confNew, wallet, partial, pool, failures, payouts, partials>>

(* _pool_post_farmer, then GET /farmer again unless it failed; and         *)
(* _pool_put_farmer, whose outcome is only logged.                         *)
PostFarmer(u) ==
    /\ upd[u].pc = "post"
    /\ \/ /\ pool' = [pool EXCEPT !.known = TRUE, !.payout = IF pool.known THEN @ ELSE upd[u].payout]
          /\ upd' = [upd EXCEPT ![u].pc = "get", ![u].posted = TRUE] /\ UNCHANGED failures
       \/ Fails /\ upd' = [upd EXCEPT ![u] = Idle] /\ UNCHANGED pool
    /\ UNCHANGED <<keys, conf, confNew, wallet, pst, partial, payouts, partials>>

PutFarmer(u) ==
    /\ upd[u].pc = "put"
    /\ upd' = [upd EXCEPT ![u] = Idle]
    /\ \/ pool' = [pool EXCEPT !.payout = upd[u].payout] /\ UNCHANGED failures
       \/ Fails /\ UNCHANGED pool
    /\ UNCHANGED <<keys, conf, confNew, wallet, pst, partial, payouts, partials>>

(* UPDATE_POOL_INFO_INTERVAL, UPDATE_POOL_FARMER_INFO_INTERVAL or the      *)
(* interval of a retry has passed.                                         *)
IntervalPasses ==
    /\ pst.made
    /\ pst' = [pst EXCEPT !.infoDue = TRUE, !.farmerDue = TRUE]
    /\ UNCHANGED <<keys, conf, confNew, wallet, upd, partial, pool, failures, payouts, partials>>
-----------------------------------------------------------------------------
(* set_payout_instructions, called over RPC.                               *)
SetPayoutInstructions(x) ==
    /\ payouts < MaxPayouts /\ payouts' = payouts + 1
    /\ pst.made
    /\ conf' = [conf EXCEPT !.payout = x] /\ confNew' = TRUE
    /\ pst' = [pst EXCEPT !.farmerDue = TRUE]
    /\ UNCHANGED <<keys, wallet, upd, partial, pool, failures, partials>>

(* The wallet reads the pool list (load_pool_config), and later writes     *)
(* what it read (update_pool_config), without the authentication key.      *)
WalletReads ==
    /\ wallet # conf.payout /\ wallet' = conf.payout
    /\ UNCHANGED <<keys, conf, confNew, pst, upd, partial, pool, failures, payouts, partials>>
WalletWrites ==
    /\ payouts < MaxPayouts /\ payouts' = payouts + 1
    /\ conf' = [payout |-> wallet, auth |-> FALSE] /\ confNew' = TRUE
    /\ UNCHANGED <<keys, wallet, pst, upd, partial, pool, failures, partials>>

(* The pool part of new_proof_of_space, up to the harvester's signature,   *)
(* and from there to the POST.                                             *)
StartPartial ==
    /\ partials < MaxPartials /\ partials' = partials + 1
    /\ partial = "idle" /\ pst.made /\ pst.diff # 0 /\ pst.timeout
    /\ partial' = "sign"
    /\ UNCHANGED <<keys, conf, confNew, wallet, pst, upd, pool, failures, payouts>>
SignPartial ==
    /\ partial = "sign"
    /\ partial' \in {"post", "idle"}
    /\ UNCHANGED <<keys, conf, confNew, wallet, pst, upd, pool, failures, payouts, partials>>

(* The pool's verdict: accepted, with a difficulty for the future; not     *)
(* good enough, which forces an update; or another error.                  *)
PostPartial ==
    /\ partial = "post"
    /\ \/ \E d \in PoolDifficulties :
             pool' = [pool EXCEPT !.diff = d] /\ pst' = [pst EXCEPT !.diff = d] /\ partial' = "idle" /\ UNCHANGED upd
       \/ /\ pst' = [pst EXCEPT !.farmerDue = TRUE]
          /\ upd' = [upd EXCEPT !["partial"].pc = "begin"] /\ partial' = "update" /\ UNCHANGED pool
       \/ partial' = "idle" /\ UNCHANGED <<pool, pst, upd>>
    /\ UNCHANGED <<keys, conf, confNew, wallet, failures, payouts, partials>>
PartialDone ==
    /\ partial = "update" /\ upd["partial"].pc = "idle" /\ partial' = "idle"
    /\ UNCHANGED <<keys, conf, confNew, wallet, pst, upd, pool, failures, payouts, partials>>

(* The pool changes the difficulty by itself; counted with the partials.   *)
PoolChanges ==
    /\ partials < MaxPartials /\ partials' = partials + 1
    /\ \E d \in PoolDifficulties : pool' = [pool EXCEPT !.diff = d]
    /\ UNCHANGED <<keys, conf, confNew, wallet, pst, upd, partial, failures, payouts>>

UpdateStep(u) ==
    BeginUpdate(u) \/ PoolInfo(u) \/ PoolAnswersGet(u) \/ GotFarmer(u) \/ PostFarmer(u) \/ PutFarmer(u)
PartialStep == SignPartial \/ PostPartial \/ PartialDone

PoolStateNext ==
    \/ KeysAdded \/ StartTask \/ Periodic \/ IntervalPasses
    \/ \E u \in Updater : UpdateStep(u)
    \/ \E x \in Payouts : SetPayoutInstructions(x)
    \/ WalletReads \/ WalletWrites \/ StartPartial \/ PartialStep \/ PoolChanges

PoolStateFairness ==
    /\ WF_poolVars(KeysAdded) /\ WF_poolVars(StartTask) /\ WF_poolVars(Periodic) /\ WF_poolVars(PartialStep)
    /\ \A u \in Updater : WF_poolVars(UpdateStep(u))
    /\ WF_poolVars(IntervalPasses)
PoolStateSpec == PoolStateInit /\ [][PoolStateNext]_poolVars /\ PoolStateFairness
-----------------------------------------------------------------------------
(* The pool gets to know the payout instructions of the config file,       *)
(* whatever updates were under way when they changed ("Force a GET         *)
(* /farmer which triggers the PUT /farmer if it detects the changed        *)
(* instructions", farmer.py:612).                                          *)
PayoutReachesPool == <>[](pool.known /\ pool.payout = conf.payout)

(* The difficulty partials are measured with becomes that of the pool.     *)
DifficultyFollowsPool == <>[](pst.diff = pool.diff)

(* What the farmer has in its caches expires, and lasts as long as it is   *)
(* needed.                                                                 *)
FarmerReady == KeysAreTimed /\ SignaturesUsable
=============================================================================
