----------------------------- MODULE MCNetwork ------------------------------
(***************************************************************************)
(* Connections, requests, rate limits and peer discovery.  They share no   *)
(* state here, so one of them is chosen to move and the others rest.       *)
(***************************************************************************)
EXTENDS Connections, Requests, RateLimits, AddressManager, Discovery

(* Two links of one peer, one in each direction, and one of another peer   *)
(* on the same host; one inbound connection is allowed.                    *)
CONSTANTS l1, l2, l3, t1, t2
MCPeerOf == [l \in Links |-> IF l = l3 THEN "Q" ELSE "P"]
MCHostOf == [l \in Links |-> "h"]
MCNodeTypeOf == [l \in Links |-> "FULL_NODE"]
MCOutbound == [l \in Links |-> l = l2]
MCLinkOf == [t \in Tasks |-> IF t = t1 THEN l1 ELSE l2]
MCInboundLimit == [FULL_NODE |-> 1]

-----------------------------------------------------------------------------
MCMaxRequests == [out |-> 3, in |-> 1]

-----------------------------------------------------------------------------
MCTypeOf == [a |-> "new_peak", b |-> "request_block", t |-> "new_transaction"]
MCSizeOf == [a |-> 1, b |-> 2, t |-> 1]
MCFrequency == [new_peak |-> 7, request_block |-> 4, new_transaction |-> 4]
MCMaxSize == [new_peak |-> 1, request_block |-> 2, new_transaction |-> 1]
MCMaxTotalSize == [new_peak |-> 7, request_block |-> 8, new_transaction |-> 4]

-----------------------------------------------------------------------------
MCNewCell == [h \in Hosts |-> [s \in Sources |->
    CASE h = "a" -> IF s = "s" THEN 1 ELSE 2
      [] h = "b" -> IF s = "s" THEN 1 ELSE 3
      [] h = "c" -> IF s = "s" THEN 2 ELSE 1]]
MCTriedCell == [h \in Hosts |-> IF h = "c" THEN 2 ELSE 1]

-----------------------------------------------------------------------------
MCGroupOf == [h \in Addresses |-> IF h = "c" THEN 2 ELSE 1]

-----------------------------------------------------------------------------
VARIABLE part

ConnMove(A) == part = "connections" /\ A /\ UNCHANGED <<part, requestVars, rateVars, managerVars, discoveryVars>>
RequestMove(A) == part = "requests" /\ A /\ UNCHANGED <<part, connVars, rateVars, managerVars, discoveryVars>>
RateMove(A) == part = "rates" /\ A /\ UNCHANGED <<part, connVars, requestVars, managerVars, discoveryVars>>
ManagerMove(A) == part = "addresses" /\ A /\ UNCHANGED <<part, connVars, requestVars, rateVars, discoveryVars>>
DiscoveryMove(A) == part = "discovery" /\ A /\ UNCHANGED <<part, connVars, requestVars, rateVars, managerVars>>

NetworkInit ==
    /\ part \in {"connections", "requests", "rates", "addresses", "discovery"}
    /\ ConnInit /\ RequestInit /\ RateInit /\ ManagerInit /\ DiscoveryInit
    /\ part # "rates" => \A s \in Sides : tick[s] = 0

NetworkNext ==
    \/ ConnMove(ConnNext)
    \/ RequestMove(RequestNext)
    \/ RateMove(RateNext)
    \/ ManagerMove(ManagerNext)
    \/ DiscoveryMove(DiscoveryNext)

networkVars == <<part, connVars, requestVars, rateVars, managerVars, discoveryVars>>

NetworkSpec == NetworkInit /\ [][NetworkNext]_networkVars


(* The tables of the address manager agree, also over a restart.           *)
AddressesAreRight == part = "addresses" => AddressTablesAgree
=============================================================================
