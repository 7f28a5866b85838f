----------------------------- MODULE RateLimits -----------------------------
(***************************************************************************)
(* RateLimiter (server/rate_limits.py) at both ends of a connection, with  *)
(* the outgoing queue of the sender and the disconnection by the receiver  *)
(* (server/ws_connection.py).  A limiter counts in minutes of its own      *)
(* clock; the sender keeps to a percentage of the limits the receiver      *)
(* enforces.                                                               *)
(*                                                                         *)
(* A minute has Ticks ticks.  What matters of current_minute is whether it *)
(* is the present one.  Messages arrive in the order they are sent, at     *)
(* most Delay ticks later; a delivered message may be sent again.          *)
(***************************************************************************)
EXTENDS Integers, Sequences, FiniteSets

CONSTANTS Messages, TypeOf, SizeOf,
          TxTypes, Frequency, MaxSize, MaxTotalSize,   \* rate_limits_tx, rate_limits_other
          NON_TX_FREQ, NON_TX_MAX_TOTAL_SIZE,
          Percent,     \* outbound_rate_limit_percent; inbound is 100
          Ticks, Delay

VARIABLES tick,      \* of each end, within its minute
          limiter,   \* of each end
          outQueue,  \* outgoing_queue
          retrying,  \* messages in _wait_and_retry
          flight,    \* on the wire, with their age
          cutOff,   \* the receiver has disconnected the sender
          said       \* something was sent in the sender's present minute

rateVars == <<tick, limiter, outQueue, retrying, flight, cutOff, said>>

Sides == {"sender", "receiver"}
MsgTypes == DOMAIN Frequency
NoCounts == [t \in MsgTypes |-> 0]
NewLimiter == [current |-> TRUE, counts |-> NoCounts, sizes |-> NoCounts, nonTx |-> 0, nonTxSize |-> 0]

RateInit ==
    /\ tick \in {[s \in Sides |-> IF s = "sender" THEN 0 ELSE k] : k \in 0..Ticks - 1}
    /\ limiter = [s \in Sides |-> NewLimiter]
    /\ outQueue = <<>> /\ retrying = {} /\ flight = <<>> /\ cutOff = FALSE /\ said = FALSE

(* The reset of process_msg_and_check in a new minute.                     *)
Renewed(lim) == IF lim.current THEN lim ELSE NewLimiter

(* The counters with message m.                                            *)
Counted(lim, m) ==
    LET t == TypeOf[m] IN
    [lim EXCEPT !.counts[t] = @ + 1, !.sizes[t] = @ + SizeOf[m],
                !.nonTx = IF t \in TxTypes THEN @ ELSE @ + 1,
                !.nonTxSize = IF t \in TxTypes THEN @ ELSE @ + SizeOf[m]]


(* Are the counters that include m within the limits?                      *)
Within(c, m, percent) ==
    LET t == TypeOf[m]
        over(n, limit) == n * 100 > limit * percent IN
    /\ ~(t \notin TxTypes /\ (over(c.nonTx, NON_TX_FREQ) \/ over(c.nonTxSize, NON_TX_MAX_TOTAL_SIZE)))
    /\ ~over(c.counts[t], Frequency[t]) /\ SizeOf[m] <= MaxSize[t]
    /\ ~over(c.sizes[t], MaxTotalSize[t])

(* process_msg_and_check of the outbound limiter counts what is sent, that *)
(* of the inbound one everything.                                          *)
process_msg_and_check(s, m) ==
    LET renewed == Renewed(limiter[s])
        counted == Counted(renewed, m)
        ok == Within(counted, m, IF s = "sender" THEN Percent ELSE 100) IN
    [ok |-> ok, limiter |-> [limiter EXCEPT ![s] = IF s = "receiver" \/ ok THEN counted ELSE renewed]]

InFlight(m) == \E i \in DOMAIN flight : flight[i].msg = m
InQueue(m) == \E i \in DOMAIN outQueue : outQueue[i] = m

(* send_message.                                                           *)
SendMessage(m) ==
    /\ ~InQueue(m) /\ ~InFlight(m) /\ m \notin retrying /\ ~cutOff
    /\ outQueue' = Append(outQueue, m)
    /\ UNCHANGED <<tick, limiter, retrying, flight, cutOff, said>>

(* outbound_handler takes a message: _send_message sends it, or has it put *)
(* back in a second (unless it is a respond_peers, which is dropped).      *)
OutboundHandler ==
    LET m == Head(outQueue)
        res == process_msg_and_check("sender", m) IN
    /\ outQueue # <<>> /\ ~cutOff /\ outQueue' = Tail(outQueue)
    /\ limiter' = res.limiter
    /\ IF res.ok THEN /\ flight' = Append(flight, [msg |-> m, age |-> 0])
                      /\ said' = TRUE /\ UNCHANGED retrying
       ELSE /\ retrying' = IF TypeOf[m] = "respond_peers" THEN retrying ELSE retrying \cup {m}
            /\ UNCHANGED <<flight, said>>
    /\ UNCHANGED <<tick, cutOff>>

(* _read_one_message: a full node closes the connection, with a ban.       *)
ReadOneMessage ==
    LET res == process_msg_and_check("receiver", Head(flight).msg) IN
    /\ flight # <<>> /\ ~cutOff /\ flight' = Tail(flight)
    /\ limiter' = res.limiter /\ cutOff' = ~res.ok
    /\ UNCHANGED <<tick, outQueue, retrying, said>>

(* Retried messages go to the end of the queue.                            *)
RetryMessage(m) ==
    /\ m \in retrying /\ retrying' = retrying \ {m} /\ outQueue' = Append(outQueue, m)
    /\ UNCHANGED <<tick, limiter, flight, cutOff, said>>

(* A tick, in which nothing gets older than Delay and no message is        *)
(* retried twice.                                                          *)
MinuteTick ==
    LET new(s) == tick[s] = Ticks - 1 IN
    /\ ~cutOff /\ \A i \in DOMAIN flight : flight[i].age < Delay
    /\ tick' = [s \in Sides |-> IF new(s) THEN 0 ELSE tick[s] + 1]
    /\ limiter' = [s \in Sides |-> IF new(s) THEN [limiter[s] EXCEPT !.current = FALSE] ELSE limiter[s]]
    /\ flight' = [i \in DOMAIN flight |-> [flight[i] EXCEPT !.age = @ + 1]]
    /\ said' = (said /\ ~new("sender"))
    /\ UNCHANGED <<outQueue, retrying, cutOff>>

RateNext ==
    \/ OutboundHandler \/ ReadOneMessage \/ MinuteTick
    \/ \E m \in Messages : SendMessage(m) \/ RetryMessage(m)

RateSpec == RateInit /\ [][RateNext]_rateVars
-----------------------------------------------------------------------------

(* A message is only held back while another was sent in the same minute:  *)
(* each minute lets at least the first message through                     *)
(* (rate_limits.py:157).                                                   *)
HeldBackByTraffic == [][retrying' \ retrying # {} => said]_rateVars
=============================================================================
