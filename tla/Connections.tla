----------------------------- MODULE Connections -----------------------------
(***************************************************************************)
(* ChivesServer (server/server.py) of a full node, with the opening and    *)
(* closing of its connections (server/ws_connection.py) and the tasks that *)
(* handle what comes in.  A link is one WSChivesConnection; the tables of  *)
(* the server are keyed by the peer's node id, and a peer may have several *)
(* links: both ends connect at once, or it connects again before the old   *)
(* link is gone.                                                           *)
(*                                                                         *)
(* close() suspends while the websocket is closed, between setting closed  *)
(* and calling connection_closed; whoever calls it meanwhile returns at    *)
(* once.  Times are left out: a ban ends when it likes, and a link may be  *)
(* idle at any time.                                                       *)
(***************************************************************************)
EXTENDS Integers, FiniteSets, Functions

CONSTANTS Links, PeerOf, HostOf, NodeTypeOf, Outbound,
          Tasks,        \* messages that may come in
          LinkOf,       \* the link a message comes in on
          Execute,      \* those whose handler has the execute_task decorator
          InboundLimit, \* of a node type
          Banning       \* whether a handler or handshake may fail

VARIABLES phase,    \* of the coroutine that opens the link
          sock,     \* of the link: open, closing, closed, or stuck in close
          by,       \* who runs close(): a link's opening, a task, "gc" or "self"
          ban,      \* the ban time passed to close()
          all, byType,                      \* all_connections, connection_by_type
          banned,                           \* banned_peers
          task,                             \* where each message is
          apiTasks, fromPeer, execTasks,    \* api_tasks, tasks_from_peer, execute_tasks
          gc                                \* garbage_collect_connections_task is alive

linkVars == <<phase, sock, by, ban>>
tableVars == <<all, byType, banned>>
taskVars == <<task, apiTasks, fromPeer, execTasks>>
connVars == <<linkVars, tableVars, taskVars, gc>>

PeerIds == Range(PeerOf)
NodeTypes == Range(NodeTypeOf)
NoEntries == [p \in {} |-> {}]

(* A dictionary from peer to link, without an entry or with another.       *)
PopPeer(dict, p) == [q \in DOMAIN dict \ {p} |-> dict[q]]
PutPeer(dict, p, l) == [q \in DOMAIN dict \cup {p} |-> IF q = p THEN l ELSE dict[q]]
PopType(t, p) == [byType EXCEPT ![t] = PopPeer(@, p)]

(* connection_type is set: the handshake was finished.                      *)
IsIdentified(l) == phase[l] \in {"replacing", "added", "refused", "unadded"}

ConnInit ==
    /\ phase = [l \in Links |-> "idle"] /\ sock = [l \in Links |-> "open"]
    /\ by = [l \in Links |-> "none"] /\ ban = [l \in Links |-> FALSE]
    /\ all = NoEntries /\ byType = [t \in NodeTypes |-> NoEntries] /\ banned = {}
    /\ task = [t \in Tasks |-> "none"]
    /\ apiTasks = {} /\ fromPeer = [p \in PeerIds |-> {}] /\ execTasks = {}
    /\ gc = TRUE

(* The start of close(), which does nothing when the link is closed.       *)
CloseLink(l, who, b) ==
    IF sock[l] = "open"
    THEN /\ sock' = [sock EXCEPT ![l] = "closing"]
         /\ by' = [by EXCEPT ![l] = who] /\ ban' = [ban EXCEPT ![l] = b]
    ELSE UNCHANGED <<sock, by, ban>>

(* incoming_connection and start_client up to the handshake.  No           *)
(* connection has an attribute host (WSChivesConnection.__getattr__ makes  *)
(* a function of any name), so that is_duplicate_or_self_connection never  *)
(* finds a duplicate.                                                      *)
OpenLink(l) ==
    /\ phase[l] = "idle" /\ HostOf[l] \notin banned
    /\ phase' = [phase EXCEPT ![l] = "handshake"]
    /\ UNCHANGED <<sock, by, ban, tableVars, taskVars, gc>>

accept_inbound_connections(t) ==
    Cardinality({p \in DOMAIN byType[t] : ~Outbound[byType[t][p]]}) < InboundLimit[t]

(* The end of connection_added, in tables that may just have changed.      *)
AddLink(l, conns, types) ==
    /\ all' = PutPeer(conns, PeerOf[l], l)
    /\ byType' = [types EXCEPT ![NodeTypeOf[l]] = PutPeer(@, PeerOf[l], l)]

(* perform_handshake succeeds; the limit; connection_added, which first    *)
(* waits for the close of the peer's former link unless that is closed.    *)
Handshake(l) ==
    LET p == PeerOf[l] IN
    /\ phase[l] = "handshake" /\ sock[l] = "open"
    /\ IF ~Outbound[l] /\ ~accept_inbound_connections(NodeTypeOf[l])
       THEN /\ phase' = [phase EXCEPT ![l] = "refused"]
            /\ CloseLink(l, "self", FALSE) /\ UNCHANGED <<all, byType>>
       ELSE IF p \in DOMAIN all /\ sock[all[p]] = "open"
       THEN /\ phase' = [phase EXCEPT ![l] = "replacing"]
            /\ CloseLink(all[p], l, FALSE) /\ UNCHANGED <<all, byType>>
       ELSE /\ phase' = [phase EXCEPT ![l] = "added"]
            /\ AddLink(l, all, byType) /\ UNCHANGED <<sock, by, ban>>
    /\ UNCHANGED <<banned, taskVars, gc>>

(* perform_handshake raises.  A ban is passed on except for errors other   *)
(* than ProtocolError and ValueError of an incoming connection, and when   *)
(* the peer's closing was seen first.                                      *)
HandshakeFails(l, b) ==
    /\ phase[l] = "handshake"
    /\ phase' = [phase EXCEPT ![l] = "failed"] /\ CloseLink(l, "self", b)
    /\ UNCHANGED <<tableVars, taskVars, gc>>

(* The peer closes, the socket fails, or a limit of the peer's is passed   *)
(* (then with a ban): the inbound handler starts close() in a task.        *)
PeerCloses(l, b) ==
    /\ phase[l] \in {"replacing", "added"} /\ sock[l] = "open"
    /\ CloseLink(l, "self", b)
    /\ UNCHANGED <<phase, tableVars, taskVars, gc>>

(* garbage_collect_connections_task closes one link after the other.       *)
GarbageCollect(l) ==
    /\ gc /\ l \in Range(all) /\ NodeTypeOf[l] = "FULL_NODE" /\ sock[l] = "open"
    /\ ~\E m \in Links : by[m] = "gc" /\ sock[m] = "closing"
    /\ CloseLink(l, "gc", FALSE)
    /\ UNCHANGED <<phase, tableVars, taskVars, gc>>

BanEnds(h) ==
    /\ h \in banned /\ banned' = banned \ {h}
    /\ UNCHANGED <<linkVars, all, byType, taskVars, gc>>

(* Mutant: only the first table minds which link is closed.                *)
PoppedOwn(l) ==
    [conns |-> IF PeerOf[l] \in DOMAIN all /\ all[PeerOf[l]] = l THEN PopPeer(all, PeerOf[l]) ELSE all,
     types |-> IF IsIdentified(l) THEN PopType(NodeTypeOf[l], PeerOf[l]) ELSE byType]

(* What connection_closed removes: the entries of the peer, whichever link *)
(* they are.                                                               *)
Popped(l) ==
    [conns |-> PopPeer(all, PeerOf[l]),
     types |-> IF IsIdentified(l) THEN PopType(NodeTypeOf[l], PeerOf[l]) ELSE byType]


(* cancel_tasks_from_peer.                                                 *)
CancelledTasks(l) == fromPeer[PeerOf[l]] \ execTasks

(* The finally block of api_call.                                          *)
EndTasks(ended) ==
    /\ apiTasks' = apiTasks \ ended /\ execTasks' = execTasks \ ended
    /\ fromPeer' = [p \in PeerIds |-> fromPeer[p] \ ended]

(* The rest of close(): connection_closed, and what its caller does next.  *)
(* A cancelled task that has not begun to run never does, and its finally  *)
(* block neither; one that is inside close() for another link leaves that  *)
(* without connection_closed.  raised: closing the websocket failed.       *)
CloseEnds(l, raised) ==
    LET popped == Popped(l)
        begun == {t \in CancelledTasks(l) : task[t] # "created"}
        ended == begun \cup ({by[l]} \cap Tasks)
        opening == {by[l]} \cap Links
        next == opening \cap {m \in Links : sock[m] = "open"} IN
    /\ sock[l] = "closing"
    /\ sock' = [m \in Links |-> IF m = l THEN "closed"
                                ELSE IF by[m] \in begun /\ sock[m] = "closing" THEN "stuck"
                                ELSE IF raised /\ m \in next THEN "closing"
                                ELSE sock[m]]
    /\ by' = [m \in Links |-> IF raised /\ m \in next THEN "self" ELSE by[m]]
    /\ ban' = [m \in Links |-> IF raised /\ m \in next THEN Outbound[m] ELSE ban[m]]
    /\ banned' = IF ban[l] /\ HostOf[l] # "localhost" THEN banned \cup {HostOf[l]} ELSE banned
    /\ phase' = [m \in Links |-> IF m \in opening THEN (IF raised THEN "unadded" ELSE "added") ELSE phase[m]]
    /\ IF opening # {} /\ ~raised
       THEN \E m \in opening : AddLink(m, popped.conns, popped.types)
       ELSE all' = popped.conns /\ byType' = popped.types
    /\ task' = [t \in Tasks |-> IF t \in ended THEN IF t \in begun /\ by[l] # t THEN "cancelled" ELSE "done"
                                ELSE IF t \in CancelledTasks(l) THEN "dead" ELSE task[t]]
    /\ EndTasks(ended)
    /\ gc' = (gc /\ ~(raised /\ by[l] = "gc"))

(* inbound_handler puts a message into incoming_messages.                  *)
ReceiveMessage(t) ==
    /\ task[t] = "none" /\ phase[LinkOf[t]] \in {"replacing", "added"} /\ sock[LinkOf[t]] = "open"
    /\ task' = [task EXCEPT ![t] = "queued"]
    /\ UNCHANGED <<linkVars, tableVars, apiTasks, fromPeer, execTasks, gc>>

(* incoming_api_task creates a task for it.                                *)
TakeMessage(t) ==
    /\ task[t] = "queued" /\ task' = [task EXCEPT ![t] = "created"]
    /\ apiTasks' = apiTasks \cup {t}
    /\ fromPeer' = [fromPeer EXCEPT ![PeerOf[LinkOf[t]]] = @ \cup {t}]
    /\ UNCHANGED <<linkVars, tableVars, execTasks, gc>>

(* api_call up to received_message_callback, and on into the handler.      *)
CallHandler(t) ==
    /\ \/ task[t] = "created" /\ task' = [task EXCEPT ![t] = "calling"] /\ UNCHANGED execTasks
       \/ /\ task[t] = "calling" /\ task' = [task EXCEPT ![t] = "handling"]
          /\ execTasks' = execTasks \cup ({t} \cap Execute)
    /\ UNCHANGED <<linkVars, tableVars, apiTasks, fromPeer, gc>>

(* The handler returns, or the node is not ready.                          *)
HandlerReturns(t) ==
    /\ task[t] \in {"calling", "handling"} /\ task' = [task EXCEPT ![t] = "done"]
    /\ EndTasks({t}) /\ UNCHANGED <<linkVars, tableVars, gc>>

(* It raises, or times out (asyncio.TimeoutError is not the TimeoutError    *)
(* that is caught): the link is closed with a ban.                         *)
HandlerRaises(t) ==
    /\ Banning /\ task[t] \in {"calling", "handling"}
    /\ CloseLink(LinkOf[t], t, TRUE)
    /\ IF sock[LinkOf[t]] = "open"
       THEN task' = [task EXCEPT ![t] = "closing"] /\ UNCHANGED <<apiTasks, fromPeer, execTasks>>
       ELSE task' = [task EXCEPT ![t] = "done"] /\ EndTasks({t})
    /\ UNCHANGED <<phase, tableVars, gc>>

ConnNext ==
    \/ \E l \in Links :
         \/ OpenLink(l) \/ Handshake(l) \/ GarbageCollect(l)
         \/ \E b \in {FALSE, Banning} : HandshakeFails(l, b) \/ PeerCloses(l, b)
         \/ \E raised \in BOOLEAN : CloseEnds(l, raised)
    \/ \E h \in Range(HostOf) : BanEnds(h)
    \/ \E t \in Tasks : ReceiveMessage(t) \/ TakeMessage(t) \/ CallHandler(t) \/ HandlerReturns(t) \/ HandlerRaises(t)

ConnSpec == ConnInit /\ [][ConnNext]_connVars
-----------------------------------------------------------------------------
(* What is broadcast to is what is counted: every entry of all_connections *)
(* is also the peer's entry in connection_by_type, whatever order links    *)
(* of a peer are opened and closed in (server.py:374, 527).                *)
ListedIsTyped ==
    \A p \in DOMAIN all : LET t == NodeTypeOf[all[p]] IN
        p \in DOMAIN byType[t] /\ byType[t][p] = all[p]

(* A peer that has used a single link is listed exactly while that link is *)
(* open (server.py:373, 527).                                              *)
SoleLinkTracked ==
    \A l \in Links :
        (phase[l] = "added" /\ \A m \in Links \ {l} : PeerOf[m] = PeerOf[l] => phase[m] = "idle") =>
            (sock[l] \in {"open", "closing"} <=> PeerOf[l] \in DOMAIN all)

(* cancel_tasks_from_peer finds every task of the peer in api_tasks        *)
(* (server.py:550), and a task that ran to its end is in no table.         *)
TasksAccounted ==
    /\ UNION Range(fromPeer) \subseteq apiTasks
    /\ \A t \in apiTasks : task[t] \in {"created", "calling", "handling", "closing", "dead"}

(* A handler that must run fully is not cut off when its peer goes away    *)
(* (server.py:547).                                                        *)
ExecuteRunsFully == [][\A t \in Execute : task[t] = "handling" => task'[t] # "cancelled"]_connVars

(* The tables of the server agree with the links and tasks there are.      *)
ServerConsistent == ListedIsTyped /\ SoleLinkTracked /\ TasksAccounted
=============================================================================
