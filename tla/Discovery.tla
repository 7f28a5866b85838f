------------------------------ MODULE Discovery ------------------------------
(***************************************************************************)
(* The connecting half of FullNodeDiscovery (server/node_discovery.py):    *)
(* the loop _connect_to_peers and the tasks start_client_async it starts.  *)
(*                                                                         *)
(* What the address manager returns, and how a connection attempt ends, is *)
(* chosen by the environment; times are left out: a feeler may be due at   *)
(* any time, an address may have been tried lately or be our own.  A step  *)
(* of the loop is what runs between two of its sleeps.                     *)
(***************************************************************************)
EXTENDS Naturals, FiniteSets

CONSTANTS Addresses, GroupOf,     \* addresses, and the network group of each
          target_outbound_count, MAX_CONCURRENT_OUTBOUND_CONNECTIONS

VARIABLES outConns,   \* outConns connections of the server: [host, feeler]
          connTasks,      \* start_client_async that have not someEnded: [host, feeler, at]
          someEnded,      \* some task of pending_tasks has someEnded
          pendingOut,    \* pending_outbound_connections
          haveAddrs,      \* the address manager has addresses
          loop,       \* where _connect_to_peers sleeps, and its variables
          discClosed      \* is_closed

discoveryVars == <<outConns, connTasks, someEnded, pendingOut, haveAddrs, loop, discClosed>>

NoAddr == {}
TaskOf(h, feeler) == [host |-> h, feeler |-> feeler, at |-> "created"]
num_needed_peers ==
    IF Cardinality(outConns) >= target_outbound_count THEN 0 ELSE target_outbound_count - Cardinality(outConns)

DiscoveryInit ==
    /\ outConns = {} /\ connTasks = {} /\ someEnded = FALSE /\ pendingOut = {} /\ haveAddrs = FALSE /\ discClosed = FALSE
    /\ loop = [at |-> "top", retry |-> FALSE, connected |-> {}, feeler |-> FALSE,
               addr |-> NoAddr, drop |-> FALSE]

(* Top of the loop: without addresses, or after a failed search, the       *)
(* introducer or a DNS server is asked.                                    *)
AskIntroducer(answer) ==
    /\ loop.at = "top" /\ ~discClosed /\ (~haveAddrs \/ loop.retry)
    /\ haveAddrs' = (haveAddrs \/ answer) /\ loop' = [loop EXCEPT !.retry = FALSE]
    /\ UNCHANGED <<outConns, connTasks, someEnded, pendingOut, discClosed>>

(* Top of the loop: the peers that are connected now, and their groups.    *)
StartSearch(due) ==
    /\ loop.at = "top" /\ ~discClosed /\ haveAddrs /\ ~loop.retry
    /\ loop' = [loop EXCEPT !.at = "search", !.connected = {c.host : c \in outConns},
                            !.feeler = due /\ num_needed_peers = 0, !.addr = NoAddr]
    /\ UNCHANGED <<outConns, connTasks, someEnded, pendingOut, haveAddrs, discClosed>>

(* After the search: a task is started, unless the address is pendingOut; at*)
(* the limit the loop first waits for one of the tasks.                    *)
Initiate(addr, collision, retry) ==
    LET drop == loop.feeler \/ num_needed_peers = 0
        again == retry /\ num_needed_peers > 0
        start == addr \ pendingOut # {} /\ (num_needed_peers > 0 \/ collision \/ loop.feeler)
        full == Cardinality(pendingOut) >= MAX_CONCURRENT_OUTBOUND_CONNECTIONS /\ ~someEnded IN
    /\ loop' = [loop EXCEPT !.at = IF start /\ full THEN "wait" ELSE "sleep", !.retry = again,
                            !.addr = IF start /\ full THEN addr ELSE NoAddr, !.drop = drop /\ start /\ full,
                            !.connected = {}, !.feeler = FALSE]
    /\ connTasks' = connTasks \cup {TaskOf(h, drop) : h \in IF start /\ ~full THEN addr ELSE {}}
    /\ UNCHANGED <<outConns, someEnded, pendingOut, haveAddrs, discClosed>>

Usable(h) == (loop.feeler \/ GroupOf[h] \notin {GroupOf[c] : c \in loop.connected}) /\ h \notin loop.connected

(* One turn of the search: h is not usable; or it was tried lately, or is  *)
(* our own address, and stays in addr; or it is taken.                     *)
Unusable(h) ==
    /\ ~Usable(h) /\ loop' = [loop EXCEPT !.addr = NoAddr]
    /\ UNCHANGED <<outConns, connTasks, someEnded, pendingOut, haveAddrs, discClosed>>
PassedOver(h) ==
    /\ Usable(h) /\ loop' = [loop EXCEPT !.addr = {h}]
    /\ UNCHANGED <<outConns, connTasks, someEnded, pendingOut, haveAddrs, discClosed>>
Taken(h) == Usable(h) /\ Initiate({h}, FALSE, loop.retry)

Search ==
    /\ loop.at = "search" /\ ~discClosed
    /\ \/ \E h \in Addresses : \/ Unusable(h) \/ PassedOver(h) \/ Taken(h)
                           \/ Initiate({h}, TRUE, loop.retry)   \* a collision is tested
       \/ Initiate(NoAddr, FALSE, TRUE)                         \* too many tries
       \/ Initiate(loop.addr, FALSE, loop.retry \/ ~loop.feeler)   \* the tables had no address

(* asyncio.wait returns at once when one of pending_tasks has ended; they  *)
(* are never removed, the line that should do it assigns pending_task.     *)
WaitEnds ==
    /\ loop.at = "wait" /\ someEnded /\ ~discClosed
    /\ connTasks' = connTasks \cup {TaskOf(h, loop.drop) : h \in loop.addr} /\ loop' = [loop EXCEPT !.at = "sleep", !.addr = NoAddr, !.drop = FALSE]
    /\ UNCHANGED <<outConns, someEnded, pendingOut, haveAddrs, discClosed>>

(* A new task begins long before the sleep of the loop is over.            *)
SleepEnds ==
    /\ loop.at = "sleep" /\ ~discClosed /\ \A t \in connTasks : t.at # "created"
    /\ loop' = [loop EXCEPT !.at = "top"]
    /\ UNCHANGED <<outConns, connTasks, someEnded, pendingOut, haveAddrs, discClosed>>

TaskBegins(t) ==
    /\ t.at = "created" /\ connTasks' = (connTasks \ {t}) \cup {[t EXCEPT !.at = "connecting"]}
    /\ pendingOut' = pendingOut \cup {t.host}
    /\ UNCHANGED <<outConns, someEnded, haveAddrs, loop, discClosed>>

(* start_client returns; then the address manager's lock is taken.         *)
StartClientReturns(t, connected) ==
    /\ t.at = "connecting" /\ connTasks' = (connTasks \ {t}) \cup {[t EXCEPT !.at = "marking"]}
    /\ outConns' = outConns \cup IF connected THEN {[host |-> t.host, feeler |-> t.feeler]} ELSE {}
    /\ UNCHANGED <<someEnded, pendingOut, haveAddrs, loop, discClosed>>

(* Mutant: an exception leaves the address pendingOut.                     *)
StillPendingAfter(h, raised) == IF raised THEN pendingOut ELSE pendingOut \ {h}

(* start_client_async: the address is removed at the end, or when          *)
(* start_client or the address manager raises.                             *)
StillPending(h, raised) == pendingOut \ {h}

TaskEnds(t, raised) ==
    /\ t.at = "marking" \/ (raised /\ t.at = "connecting")
    /\ connTasks' = connTasks \ {t} /\ someEnded' = TRUE /\ pendingOut' = StillPending(t.host, raised)
    /\ UNCHANGED <<outConns, haveAddrs, loop, discClosed>>

(* A connection ends; a feeler is closed as soon as it is made.            *)
ConnectionEnds(c) == outConns' = outConns \ {c} /\ UNCHANGED <<connTasks, someEnded, pendingOut, haveAddrs, loop, discClosed>>

(* Addresses come from peers, or are cleaned out.                          *)
AddressesChange == haveAddrs' = ~haveAddrs /\ UNCHANGED <<outConns, connTasks, someEnded, pendingOut, loop, discClosed>>

(* _close_common: CancelledError is not an Exception, so that the tasks    *)
(* end without removing their addresses.                                   *)
CloseDiscovery ==
    /\ ~discClosed /\ discClosed' = TRUE /\ connTasks' = {}
    /\ UNCHANGED <<outConns, someEnded, pendingOut, haveAddrs, loop>>

DiscoveryNext ==
    \/ AddressesChange \/ \E answer \in BOOLEAN : AskIntroducer(answer)
    \/ \E due \in BOOLEAN : StartSearch(due)
    \/ Search \/ WaitEnds \/ SleepEnds \/ CloseDiscovery
    \/ \E t \in connTasks : TaskBegins(t) \/ \E b \in BOOLEAN : StartClientReturns(t, b) \/ TaskEnds(t, b)
    \/ \E c \in outConns : ConnectionEnds(c)

DiscoverySpec == DiscoveryInit /\ [][DiscoveryNext]_discoveryVars
-----------------------------------------------------------------------------
(* While discovery runs, an address is pendingOut exactly as long as a task*)
(* works on it, and no two tasks work on one: so that an address is never  *)
(* left out for ever (node_discovery.py:262, 419).                         *)
PendingIsWorkedOn ==
    ~discClosed => /\ pendingOut = {t.host : t \in {u \in connTasks : u.at # "created"}}
               /\ \A t, u \in connTasks : t.host = u.host => t = u
=============================================================================
