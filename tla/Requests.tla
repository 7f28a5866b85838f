------------------------------ MODULE Requests ------------------------------
(***************************************************************************)
(* Requests over one connection (server/ws_connection.py), both ends.  An  *)
(* end numbers its requests in its own half of the nonces, waits for the   *)
(* answer with the same number or the timeout, and hands everything else   *)
(* it receives to the handlers of the node.                                *)
(*                                                                         *)
(* Handlers run in tasks of their own and rate limits delay messages, so   *)
(* that answers come in any order, late, or not at all.                    *)
(***************************************************************************)
EXTENDS Integers, FiniteSets, Functions

CONSTANTS Half,        \* 2^15: nonces of each end
          MaxRequests  \* bound: requests an end makes

VARIABLES nonce,    \* request_nonce of each end
          reqSent,     \* number of requests made
          awaited,  \* pending_requests: from id to the request whose event it is
          results,  \* request_results: from id to message
          event,    \* of each request: unmade, waiting, set, returned
          outcome,  \* what send_request returned
          wire,     \* messages on their way to each end
          handling, \* requests being handled at each end
          stray,    \* answers given to the handlers as new messages
          channel      \* of each end: open, closing, closed, or broken

requestVars == <<nonce, reqSent, awaited, results, event, outcome, wire, handling, stray, channel>>

Ends == {"out", "in"}
OtherEnd(e) == CHOOSE f \in Ends : f # e
Nobody == [kind |-> "none", of |-> "out", no |-> 0]

FirstNonce(e) == IF e = "out" THEN 0 ELSE Half

RequestInit ==
    /\ nonce = [e \in Ends |-> FirstNonce(e)] /\ reqSent = [e \in Ends |-> 0]
    /\ awaited = [e \in Ends |-> [i \in {} |-> 0]] /\ results = [e \in Ends |-> [i \in {} |-> Nobody]]
    /\ event = [e \in Ends |-> [n \in 1..MaxRequests[e] |-> "unmade"]]
    /\ outcome = [e \in Ends |-> [n \in 1..MaxRequests[e] |-> Nobody]]
    /\ wire = [e \in Ends |-> {}] /\ handling = [e \in Ends |-> {}] /\ stray = {}
    /\ channel = [e \in Ends |-> "open"]

Without(f, i) == [j \in DOMAIN f \ {i} |-> f[j]]
With(f, i, v) == [j \in DOMAIN f \cup {i} |-> IF j = i THEN v ELSE f[j]]

(* The requests of e of which something is still under way.                *)
Traces(e) ==
    {m.no : m \in {x \in wire[e] \cup wire[OtherEnd(e)] \cup handling[OtherEnd(e)] : x.of = e}} \cup Range(awaited[e])

(* Assumption: Half further requests are not made while one is under way   *)
(* (rate limits allow 1000 messages a minute).                             *)
Horizon(e) == \A n \in Traces(e) : reqSent[e] + 1 - n < Half

(* Mutant: the nonces of an end run on into those of the other.            *)
NextNonceLate(e) == IF nonce[e] = FirstNonce(e) + Half THEN FirstNonce(e) ELSE nonce[e] + 1

NextNonce(e) == IF nonce[e] = FirstNonce(e) + Half - 1 THEN FirstNonce(e) ELSE nonce[e] + 1

OpenForRequests(e) == channel[e] = "open"

(* send_request up to its wait.                                            *)
SendRequest(e) ==
    LET n == reqSent[e] + 1 IN
    /\ reqSent[e] < MaxRequests[e] /\ Horizon(e) /\ OpenForRequests(e)
    /\ reqSent' = [reqSent EXCEPT ![e] = n] /\ nonce' = [nonce EXCEPT ![e] = NextNonce(e)]
    /\ awaited' = [awaited EXCEPT ![e] = With(@, nonce[e], n)]
    /\ event' = [event EXCEPT ![e][n] = "waiting"]
    /\ wire' = [wire EXCEPT ![OtherEnd(e)] = @ \cup {[kind |-> "request", of |-> e, no |-> n, id |-> nonce[e]]}]
    /\ UNCHANGED <<results, outcome, handling, stray, channel>>

(* inbound_handler: is it the answer to a request that waits?              *)
IsAwaited(e, m) == m.id \in DOMAIN awaited[e]

InboundHandler(e, m) ==
    /\ m \in wire[e] /\ channel[e] = "open" /\ wire' = [wire EXCEPT ![e] = @ \ {m}]
    /\ IF IsAwaited(e, m)
       THEN /\ results' = [results EXCEPT ![e] = With(@, m.id, m)]
            /\ event' = [event EXCEPT ![e][awaited[e][m.id]] = "set"]
            /\ UNCHANGED <<handling, stray>>
       ELSE /\ IF m.kind = "request" THEN handling' = [handling EXCEPT ![e] = @ \cup {m}] /\ UNCHANGED stray
               ELSE stray' = stray \cup {m} /\ UNCHANGED handling
            /\ UNCHANGED <<results, event>>
    /\ UNCHANGED <<nonce, reqSent, awaited, outcome, channel>>

(* The end of a handler: an answer under the id of the request, or none.   *)
AnswerRequest(e, m, answered) ==
    /\ m \in handling[e] /\ handling' = [handling EXCEPT ![e] = @ \ {m}]
    /\ wire' = IF answered /\ channel[e] = "open"
               THEN [wire EXCEPT ![OtherEnd(e)] = @ \cup {[m EXCEPT !.kind = "answer"]}] ELSE wire
    /\ UNCHANGED <<nonce, reqSent, awaited, results, event, outcome, stray, channel>>

(* send_request goes on: its event is set, or it timed out.                *)
SendRequestEnds(e, n) ==
    LET id == CHOOSE i \in DOMAIN awaited[e] : awaited[e][i] = n IN
    /\ awaited' = [awaited EXCEPT ![e] = Without(@, id)]
    /\ outcome' = [outcome EXCEPT ![e][n] = IF id \in DOMAIN results[e]
                                            THEN [kind |-> results[e][id].kind, of |-> results[e][id].of,
                                                  no |-> results[e][id].no] ELSE Nobody]
    /\ results' = [results EXCEPT ![e] = Without(@, id)]
    /\ event' = [event EXCEPT ![e][n] = "returned"]
    /\ UNCHANGED <<nonce, reqSent, wire, handling, stray, channel>>

EventSet(e, n) == event[e][n] = "set" /\ SendRequestEnds(e, n)
TimedOut(e, n) == event[e][n] = "waiting" /\ SendRequestEnds(e, n)

(* close() up to the closing of the websocket; the other end notices by    *)
(* itself.                                                                 *)
LinkCloseBegins(e) ==
    /\ channel[e] = "open" /\ channel' = [channel EXCEPT ![e] = "closing"]
    /\ UNCHANGED <<nonce, reqSent, awaited, results, event, outcome, wire, handling, stray>>

cancel_pending_requests(e) ==
    [event EXCEPT ![e] = [n \in 1..MaxRequests[e] |-> IF n \in Range(awaited[e]) THEN "set" ELSE @[n]]]

(* The rest of close(); when the websocket cannot be closed, the waiting   *)
(* requests are left to their timeouts.                                    *)
LinkCloseEnds(e, raised) ==
    /\ channel[e] = "closing"
    /\ channel' = [channel EXCEPT ![e] = IF raised THEN "broken" ELSE "closed"]
    /\ event' = IF raised THEN event ELSE cancel_pending_requests(e)
    /\ UNCHANGED <<nonce, reqSent, awaited, results, outcome, wire, handling, stray>>

RequestNext ==
    \E e \in Ends :
        \/ SendRequest(e) \/ LinkCloseBegins(e)
        \/ \E m \in wire[e] : InboundHandler(e, m)
        \/ \E m \in handling[e], answered \in BOOLEAN : AnswerRequest(e, m, answered)
        \/ \E n \in 1..MaxRequests[e] : EventSet(e, n) \/ TimedOut(e, n)
        \/ \E raised \in BOOLEAN : LinkCloseEnds(e, raised)

RequestSpec == RequestInit /\ [][RequestNext]_requestVars
-----------------------------------------------------------------------------
(* A request returns nothing or its own answer: neither that of another    *)
(* nor a request of the other end that bears the same number               *)
(* (ws_connection.py:270, 343).                                            *)
OwnAnswer ==
    \A e \in Ends : \A n \in 1..MaxRequests[e] :
        outcome[e][n] # Nobody => outcome[e][n] = [kind |-> "answer", of |-> e, no |-> n]

(* Only answers that come after their request gave up reach the handlers   *)
(* as new messages (ws_connection.py:274).                                 *)
StrayIsLate == \A m \in stray : event[m.of][m.no] = "returned"

(* Once the connection is closed no request waits for its timeout: those   *)
(* that did are woken, and no new one starts to (ws_connection.py:218,     *)
(* 336).                                                                   *)
ClosedWakes == \A e \in Ends : channel[e] = "closed" => \A n \in 1..MaxRequests[e] : event[e][n] # "waiting"

(* A request returns with its own answer, at its timeout or when the       *)
(* connection closes.                                                      *)
AnswersMatch == OwnAnswer /\ StrayIsLate /\ ClosedWakes
=============================================================================
