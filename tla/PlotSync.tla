------------------------------ MODULE PlotSync ------------------------------
(***************************************************************************)
(* How a farmer learns of a harvester's plots: the refresh thread of       *)
(* PlotManager (plotting/manager.py), which scans the disk and reports to  *)
(* the Sender (plot_sync/sender.py), the Sender's task on the harvester's  *)
(* event loop, and the Receiver (plot_sync/receiver.py) at the farmer.     *)
(*                                                                         *)
(* The thread and the event loop run in parallel.  A callback of the       *)
(* thread is one step; _reset is two, since it may wait in sync_start,     *)
(* and it blocks the event loop while it does.  Sync ids are times in      *)
(* seconds: an id is any of two that is not the last one.                  *)
(***************************************************************************)
EXTENDS Naturals, Sequences, SequencesExt, FiniteSets

CONSTANTS
    File, NameOf, KindOf,   \* paths, their file names; "plot", "invalid" or "nokey"
    InitDisk,
    Batch,                  \* refresh_parameter.batch_size
    NoFile,
    MaxDisk, MaxPlotFaults      \* bounds: changes of the disk; timeouts and disconnects

VARIABLES
    disk, changes,
    plots, entry,           \* plots and plot_filename_paths of the manager
    badFiles, keyFiles,     \* failed_to_open_filenames, no_key_filenames
    initial, enabled,       \* _initial, _refreshing_enabled
    rt,                     \* where the refresh thread is
    sid, lastSid, nextId, msgs,  \* _sync_id, _last_sync_id, _next_message_id, _messages
    stop, task, wait,       \* _stop_requested, _task and what it waits for
    el,                     \* what blocks the event loop
    conn, shake, closing,   \* the connection; a handshake or an await_closed to be done
    toFarmer, toHarvester,
    rec,                    \* the Receiver
    psFaults, raced         \* raced: a reset ran while a refresh was going on

disks == <<disk, changes>>
manager == <<plots, entry, badFiles, keyFiles, initial>>
thread == <<enabled, rt>>
queue == <<sid, lastSid, nextId, msgs>>
taskVars == <<stop, task, wait>>
link == <<conn, shake, closing>>
net == <<toFarmer, toHarvester, rec>>
psVars == <<disks, manager, thread, queue, taskVars, el, link, net, psFaults, raced>>

Name == {NameOf[f] : f \in File}
NoEntry == [at |-> NoFile, dups |-> {}]
IdleThread == [pc |-> "dead", scan |-> {}, left |-> {}, removed |-> {}]
NoWait == [sid |-> 0, id |-> 0, type |-> "none", got |-> FALSE, err |-> "ok", esid |-> 0, eid |-> 0]
NewReceiver == [sid |-> 0, next |-> 0, last |-> 0, plots |-> {}, invalid |-> {}, nokey |-> {}, dups |-> {},
                added |-> {}, dropped |-> {}, dInvalid |-> {}, dNokey |-> {}, dDups |-> {}]

PlotSyncInit ==
    /\ disk = InitDisk /\ changes = 0
    /\ plots = {} /\ entry = [n \in Name |-> NoEntry] /\ badFiles = {} /\ keyFiles = {}
    /\ initial = TRUE /\ enabled = FALSE /\ rt = IdleThread
    /\ sid = 0 /\ lastSid = 0 /\ nextId = 0 /\ msgs = <<>>
    /\ stop = FALSE /\ task = "none" /\ wait = NoWait /\ el = "free"
    /\ conn = "down" /\ shake = FALSE /\ closing = FALSE
    /\ toFarmer = <<>> /\ toHarvester = <<>> /\ rec = NewReceiver
    /\ psFaults = 0 /\ raced = FALSE

(* A file comes or goes.                                                   *)
DiskChange(f) ==
    /\ changes < MaxDisk
    /\ changes' = changes + 1
    /\ disk' = IF f \in disk THEN disk \ {f} ELSE disk \cup {f}
    /\ UNCHANGED <<manager, thread, queue, taskVars, el, link, net, psFaults, raced>>

-----------------------------------------------------------------------------
(* The messages of a sync.                                                 *)

Least(a, b) == IF a < b THEN a ELSE b

(* list_to_batches *)
Batches(S) ==
    LET q == SetToSeq(S) n == Cardinality(S)
    IN  [i \in 1..((n + Batch - 1) \div Batch) |-> {q[j] : j \in ((i - 1) * Batch + 1)..Least(i * Batch, n)}]

Msg(id, type, data) == [sid |-> id, type |-> type, data |-> data, initial |-> FALSE, last |-> 0]
Start(id, first, last) == [Msg(id, "start", {}) EXCEPT !.initial = first, !.last = last]

(* _add_list_batched *)
ListMsgs(id, type, S) ==
    IF S = {} THEN <<Msg(id, type, {})>>
    ELSE [i \in DOMAIN Batches(S) |-> Msg(id, type, Batches(S)[i])]

Duplicates == UNION {{f \in File : NameOf[f] = n /\ f \in entry[n].dups} : n \in Name}

(* The messages that sync_done adds.                                       *)
DoneMsgs(id, removed, bad, keys, dups) ==
    ListMsgs(id, "removed", removed) \o ListMsgs(id, "invalid", bad)
        \o ListMsgs(id, "keys_missing", keys) \o ListMsgs(id, "duplicates", dups)
        \o <<Msg(id, "done", {})>>

-----------------------------------------------------------------------------
(* The refresh thread.                                                     *)

(* A refresh begins: the disk is read.                                     *)
RefreshBegin ==
    /\ rt.pc = "sleep" /\ enabled
    /\ rt' = [rt EXCEPT !.pc = "start", !.scan = disk, !.left = disk, !.removed = {}]
    /\ UNCHANGED <<disks, manager, enabled, queue, taskVars, el, link, net, psFaults, raced>>

(* plot_filename_paths without what is no longer on the disk.              *)
KeptEntries(scan) ==
    [n \in Name |-> IF entry[n].at \notin scan THEN NoEntry ELSE [entry[n] EXCEPT !.dups = @ \cap scan]]

(* The started callback, sync_start, which waits for the sync before; it   *)
(* is given up when the sender stops.  Then what is no longer on the disk  *)
(* is dropped.                                                             *)
RefreshStart ==
    LET gone == {n \in Name : entry[n] # NoEntry /\ entry[n].at \notin rt.scan} IN
    /\ rt.pc = "start"
    /\ \/ sid # 0 /\ stop /\ UNCHANGED queue
       \/ /\ sid = 0
          /\ \E id \in {1, 2} \ {lastSid} :
                sid' = id /\ msgs' = Append(msgs, Start(id, initial, lastSid))
          /\ UNCHANGED <<lastSid, nextId>>
    /\ badFiles' = badFiles \cap rt.scan
    /\ keyFiles' = keyFiles \cap rt.scan
    /\ plots' = plots \ {entry[n].at : n \in gone}
    /\ entry' = KeptEntries(rt.scan)
    /\ rt' = [rt EXCEPT !.pc = "files", !.removed = {entry[n].at : n \in gone}]
    /\ raced' = (raced \/ el = "reset")
    /\ UNCHANGED <<disks, initial, enabled, taskVars, el, link, net, psFaults>>

(* An exception in the thread: PlotManager.reset.                          *)
ManagerReset ==
    /\ plots' = {} /\ badFiles' = {} /\ keyFiles' = {}
    /\ entry' = [n \in Name |-> NoEntry]
    /\ initial' = TRUE
    /\ rt' = [IdleThread EXCEPT !.pc = "sleep"]
    /\ UNCHANGED queue

(* refresh_batch for the files of one batch, then its callback.  A file    *)
(* whose name is loaded from another directory is a duplicate.  Without an *)
(* active sync the callback's assertion fails.                             *)
RefreshBatch ==
    LET b == Batches(rt.left)[1]
        fresh == {f \in b : KindOf[f] = "plot" /\ f \notin plots /\ f \notin entry[NameOf[f]].dups}
        first == {f \in fresh : entry[NameOf[f]] = NoEntry /\ f = CHOOSE g \in fresh : NameOf[g] = NameOf[f]}
        rest == rt.left \ b
    IN  /\ rt.pc = "files" /\ rt.left # {}
        /\ IF enabled /\ sid = 0 /\ (first # {} \/ rest = {})
           THEN ManagerReset
           ELSE /\ plots' = plots \cup first
                /\ entry' = [n \in Name |->
                    [at |-> IF \E f \in first : NameOf[f] = n THEN CHOOSE f \in first : NameOf[f] = n ELSE entry[n].at,
                     dups |-> entry[n].dups \cup {f \in fresh \ first : NameOf[f] = n}]]
                /\ badFiles' = badFiles \cup {f \in b : KindOf[f] = "invalid"}
                /\ keyFiles' = keyFiles \cup {f \in b : KindOf[f] = "nokey"}
                /\ rt' = [rt EXCEPT !.left = IF enabled THEN rest ELSE {}]
                /\ msgs' = IF enabled /\ (first # {} \/ rest = {}) THEN Append(msgs, Msg(sid, "loaded", first))
                           ELSE msgs
                /\ UNCHANGED <<initial, sid, lastSid, nextId>>
        /\ UNCHANGED <<disks, enabled, taskVars, el, link, net, psFaults, raced>>

(* The done callback, sync_done, and the end of the refresh.               *)
RefreshDone ==
    /\ rt.pc = "files" /\ rt.left = {}
    /\ IF enabled /\ sid = 0
       THEN ManagerReset
       ELSE /\ msgs' = IF enabled THEN msgs \o DoneMsgs(sid, rt.removed, badFiles, keyFiles, Duplicates) ELSE msgs
            /\ initial' = FALSE
            /\ rt' = [IdleThread EXCEPT !.pc = "sleep"]
            /\ UNCHANGED <<plots, entry, badFiles, keyFiles, sid, lastSid, nextId>>
    /\ UNCHANGED <<disks, enabled, taskVars, el, link, net, psFaults, raced>>

(* The thread ends when refreshing is stopped.                             *)
RefreshExit ==
    /\ rt.pc = "sleep" /\ ~enabled
    /\ rt' = IdleThread
    /\ UNCHANGED <<disks, manager, enabled, queue, taskVars, el, link, net, psFaults, raced>>

-----------------------------------------------------------------------------
(* The sender, on the harvester's event loop.                              *)

(* The first half of _reset.                                               *)
Cleared == lastSid' = 0 /\ sid' = 0 /\ nextId' = 0 /\ msgs' = <<>>

Reset ==
    /\ Cleared
    /\ el' = "reset"
    /\ raced' = (raced \/ rt.pc \in {"start", "files"})

(* The messages of a reset: everything that is loaded.                     *)
Resend(id) ==
    <<Start(id, TRUE, 0)>>
        \o [i \in DOMAIN Batches(plots) |-> Msg(id, "loaded", Batches(plots)[i])]
        \o DoneMsgs(id, {}, badFiles, keyFiles, Duplicates)

(* start_refreshing *)
StartRefreshing ==
    /\ shake' = FALSE
    /\ enabled' = TRUE
    /\ rt' = IF rt.pc = "dead" THEN [rt EXCEPT !.pc = "sleep"] ELSE rt

(* The second half: sync_start waits, with the event loop, until no sync   *)
(* is active.                                                              *)
ResetResend ==
    /\ el = "reset" /\ sid = 0
    /\ el' = "free"
    /\ \E id \in {1, 2} : sid' = id /\ msgs' = Resend(id)
    /\ IF shake THEN StartRefreshing ELSE UNCHANGED <<thread, shake>>
    /\ UNCHANGED <<disks, manager, lastSid, nextId, taskVars, conn, closing, net, psFaults, raced>>

(* harvester_handshake: start, which first waits for an await_closed, and  *)
(* start_refreshing once a reset is done.                                  *)
HarvesterHandshake ==
    /\ el = "free" /\ shake /\ task = "none" /\ ~closing
    /\ task' = "run"
    /\ IF ~initial \/ sid # 0
       THEN Reset /\ UNCHANGED <<thread, shake>>
       ELSE StartRefreshing /\ UNCHANGED <<queue, el, raced>>
    /\ UNCHANGED <<disks, manager, stop, wait, conn, closing, net, psFaults>>

(* _send_next_message up to the wait for a response.  A closed connection  *)
(* forces a reset.                                                         *)
SendNext ==
    /\ el = "free" /\ task = "run" /\ ~stop
    /\ sid # 0 /\ nextId < Len(msgs)
    /\ LET m == msgs[nextId + 1] IN
       IF m.sid # sid \/ conn # "up"
       THEN Reset /\ UNCHANGED <<task, wait, toFarmer>>
       ELSE /\ task' = "wait"
            /\ wait' = [NoWait EXCEPT !.sid = sid, !.id = nextId, !.type = m.type]
            /\ toFarmer' = Append(toFarmer, [msg |-> m, id |-> nextId, fresh |-> TRUE])
            /\ UNCHANGED <<queue, el, raced>>
    /\ UNCHANGED <<disks, manager, thread, stop, link, toHarvester, rec, psFaults>>

(* Mutant: plot_sync_response does not look at the ids.                    *)
SetResponseAny ==
    /\ el = "free" /\ toHarvester # <<>>
    /\ LET r == Head(toHarvester) IN
       wait' = IF task = "wait" /\ ~wait.got
               THEN [wait EXCEPT !.got = TRUE, !.err = r.err, !.esid = r.esid, !.eid = r.eid] ELSE wait
    /\ toHarvester' = Tail(toHarvester)
    /\ UNCHANGED <<disks, manager, thread, queue, stop, task, el, link, toFarmer, rec, psFaults, raced>>

(* set_response: one that is late, or not for what was sent, is skipped.   *)
SetResponse ==
    /\ el = "free" /\ toHarvester # <<>>
    /\ LET r == Head(toHarvester) IN
       wait' = IF task = "wait" /\ ~wait.got /\ r.fresh /\ <<r.sid, r.id, r.type>> = <<wait.sid, wait.id, wait.type>>
               THEN [wait EXCEPT !.got = TRUE, !.err = r.err, !.esid = r.esid, !.eid = r.eid] ELSE wait
    /\ toHarvester' = Tail(toHarvester)
    /\ UNCHANGED <<disks, manager, thread, queue, stop, task, el, link, toFarmer, rec, psFaults, raced>>

(* Something is under way to or from the farmer.                           *)
Awaited == toFarmer # <<>> \/ toHarvester # <<>>

(* _wait_for_response gives up.  What is under way is then too old.        *)
ResponseTimeout ==
    /\ el = "free" /\ task = "wait" /\ ~wait.got
    /\ IF Awaited THEN psFaults < MaxPlotFaults /\ psFaults' = psFaults + 1 ELSE UNCHANGED psFaults
    /\ task' = "run" /\ wait' = NoWait
    /\ toFarmer' = [k \in DOMAIN toFarmer |-> [toFarmer[k] EXCEPT !.fresh = FALSE]]
    /\ toHarvester' = [k \in DOMAIN toHarvester |-> [toHarvester[k] EXCEPT !.fresh = FALSE]]
    /\ UNCHANGED <<disks, manager, thread, queue, stop, el, link, rec, raced>>

(* _finalize_sync *)
Finalize == lastSid' = sid /\ nextId' = 0 /\ msgs' = <<>> /\ sid' = 0

AllSent == Last(msgs).type = "done" /\ nextId = Len(msgs) - 1

(* The rest of _send_next_message.  An error with the expected identifier  *)
(* is recovered from; any other one forces a reset.                        *)
HandleResponse ==
    /\ el = "free" /\ task = "wait" /\ wait.got
    /\ task' = "run" /\ wait' = NoWait
    /\ CASE wait.err = "expected" /\ wait.esid = 0 /\ wait.eid = 0 /\ AllSent -> Finalize /\ UNCHANGED <<el, raced>>
         [] wait.err = "expected" /\ ~(wait.esid = 0 /\ wait.eid = 0 /\ AllSent)
                /\ wait.esid = sid /\ wait.eid < Len(msgs) ->
                nextId' = wait.eid /\ UNCHANGED <<sid, lastSid, msgs, el, raced>>
         [] wait.err = "ok" /\ wait.type = "done" -> Finalize /\ UNCHANGED <<el, raced>>
         [] wait.err = "ok" /\ wait.type # "done" -> nextId' = nextId + 1 /\ UNCHANGED <<sid, lastSid, msgs, el, raced>>
         [] OTHER -> Reset
    /\ UNCHANGED <<disks, manager, thread, stop, link, net, psFaults>>

(* _run ends when a stop is requested, and await_closed clears.            *)
TaskExit ==
    /\ el = "free" /\ task = "run" /\ stop
    /\ task' = "exited"
    /\ UNCHANGED <<disks, manager, thread, queue, stop, wait, el, link, net, psFaults, raced>>

AwaitClosed ==
    /\ el = "free" /\ closing /\ task \in {"exited", "none"}
    /\ task' = "none" /\ stop' = FALSE /\ closing' = FALSE
    /\ Cleared
    /\ UNCHANGED <<disks, manager, thread, wait, el, conn, shake, net, psFaults, raced>>

-----------------------------------------------------------------------------
(* The connection.                                                         *)

(* A connection comes up: the farmer makes a Receiver and sends the        *)
(* handshake.                                                              *)
Connected ==
    /\ conn = "down"
    /\ conn' = "up" /\ shake' = TRUE
    /\ rec' = NewReceiver
    /\ toFarmer' = <<>> /\ toHarvester' = <<>>
    /\ UNCHANGED <<disks, manager, thread, queue, taskVars, el, closing, psFaults, raced>>

(* It is closed; the harvester's on_disconnect comes after the websocket   *)
(* has been closed too.                                                    *)
ConnClosed ==
    /\ conn = "up" /\ el = "free"
    /\ psFaults < MaxPlotFaults /\ psFaults' = psFaults + 1
    /\ conn' = "closed" /\ shake' = FALSE
    /\ toFarmer' = <<>> /\ toHarvester' = <<>>
    /\ UNCHANGED <<disks, manager, thread, queue, taskVars, el, closing, rec, raced>>

(* Harvester.on_disconnect: stop the sender, schedule await_closed, and    *)
(* join the refresh thread, which blocks the event loop.                   *)
OnDisconnect ==
    /\ conn = "closed" /\ el = "free"
    /\ conn' = "down"
    /\ stop' = TRUE /\ closing' = TRUE
    /\ enabled' = FALSE
    /\ el' = "join"
    /\ UNCHANGED <<disks, manager, rt, queue, task, wait, shake, net, psFaults, raced>>

Joined ==
    /\ el = "join" /\ rt.pc = "dead"
    /\ el' = "free"
    /\ UNCHANGED <<disks, manager, thread, queue, taskVars, link, net, psFaults, raced>>

-----------------------------------------------------------------------------
(* The receiver.                                                           *)

(* _validate_identifier, the answer being what is expected instead.        *)
Expected(r) == [rec |-> r, err |-> "expected", esid |-> r.sid, eid |-> r.next]
Fatal(r) == [rec |-> r, err |-> "fatal", esid |-> 0, eid |-> 0]
Ok(r) == [rec |-> r, err |-> "ok", esid |-> 0, eid |-> 0]

(* _sync_started *)
SyncStarted(m, id) ==
    LET r == IF m.initial THEN NewReceiver ELSE rec IN
    IF id # r.next THEN Expected(r)
    ELSE IF m.last # r.last \/ m.last = m.sid THEN Fatal(r)
    ELSE Ok([r EXCEPT !.sid = m.sid, !.next = @ + 1, !.added = {}, !.dropped = {},
                      !.dInvalid = {}, !.dNokey = {}, !.dDups = {}])

(* _process_loaded and process_path_list.  What was added before a path is *)
(* refused is left out: the error makes the sender start again.            *)
ProcessLoaded(m) ==
    IF m.data \cap (rec.plots \cup rec.added) # {} THEN Fatal(rec)
    ELSE Ok([rec EXCEPT !.added = @ \cup m.data, !.next = @ + 1])

ProcessRemoved(m) ==
    IF ~(m.data \subseteq rec.plots \ rec.dropped) THEN Fatal(rec)
    ELSE Ok([rec EXCEPT !.dropped = @ \cup m.data, !.next = @ + 1])

ProcessPaths(m) ==
    LET seen == CASE m.type = "invalid" -> rec.dInvalid [] m.type = "keys_missing" -> rec.dNokey
                  [] OTHER -> rec.dDups
    IN  IF m.data \cap seen # {} THEN Fatal(rec)
        ELSE Ok(CASE m.type = "invalid" -> [rec EXCEPT !.dInvalid = @ \cup m.data, !.next = @ + 1]
                  [] m.type = "keys_missing" -> [rec EXCEPT !.dNokey = @ \cup m.data, !.next = @ + 1]
                  [] OTHER -> [rec EXCEPT !.dDups = @ \cup m.data, !.next = @ + 1])

(* _sync_done *)
SyncDone(m) ==
    Ok([NewReceiver EXCEPT !.last = rec.sid, !.plots = (rec.plots \cup rec.added) \ rec.dropped,
                           !.invalid = rec.dInvalid, !.nokey = rec.dNokey, !.dups = rec.dDups])

Process(m, id) ==
    CASE m.type = "start" -> SyncStarted(m, id)
      [] m.type # "start" /\ (m.sid # rec.sid \/ id # rec.next) -> Expected(rec)
      [] OTHER -> CASE m.type = "loaded" -> ProcessLoaded(m)
                    [] m.type = "removed" -> ProcessRemoved(m)
                    [] m.type = "done" -> SyncDone(m)
                    [] OTHER -> ProcessPaths(m)

ReceiverProcess ==
    /\ conn = "up" /\ toFarmer # <<>>
    /\ LET x == Head(toFarmer)
           a == Process(x.msg, x.id)
       IN  /\ rec' = a.rec
           /\ toHarvester' = Append(toHarvester,
                [sid |-> x.msg.sid, id |-> x.id, type |-> x.msg.type, err |-> a.err,
                 esid |-> a.esid, eid |-> a.eid, fresh |-> x.fresh])
    /\ toFarmer' = Tail(toFarmer)
    /\ UNCHANGED <<disks, manager, thread, queue, taskVars, el, link, psFaults, raced>>

-----------------------------------------------------------------------------
ThreadStep == RefreshStart \/ RefreshBatch \/ RefreshDone \/ RefreshExit
LoopStep == ResetResend \/ HarvesterHandshake \/ SendNext \/ SetResponse \/ HandleResponse
                \/ TaskExit \/ AwaitClosed \/ OnDisconnect \/ Joined \/ (~Awaited /\ ResponseTimeout)

PlotSyncNext ==
    \/ RefreshBegin \/ ThreadStep \/ LoopStep \/ ReceiverProcess
    \/ ResponseTimeout \/ Connected \/ ConnClosed
    \/ \E f \in File : DiskChange(f)

(* The thread and the event loop go on, and messages arrive.  Refreshes    *)
(* come again and again; connections need not.                             *)
PlotSyncFairness == WF_psVars(ThreadStep) /\ WF_psVars(LoopStep) /\ WF_psVars(ReceiverProcess)
PlotSyncSpec == PlotSyncInit /\ [][PlotSyncNext]_psVars /\ PlotSyncFairness

-----------------------------------------------------------------------------
(* When no sync and no refresh is going on, the farmer knows exactly the   *)
(* harvester's plots, bad files, files without keys and duplicates,        *)
(* through late answers, resends and reconnections, unless a reset ran     *)
(* into a refresh.                                                         *)
Settled == conn = "up" /\ ~shake /\ task = "run" /\ ~stop /\ el = "free" /\ sid = 0 /\ rt.pc = "sleep" /\ ~initial
FarmerKnowsPlots ==
    Settled /\ ~raced => /\ rec.plots = plots /\ rec.invalid = badFiles
                         /\ rec.nokey = keyFiles /\ rec.dups = Duplicates

(* A plot is loaded from one place only, and a duplicate is not loaded     *)
(* (plot_filename_paths, manager.py:310), while files come and go.         *)
LoadedOnce ==
    /\ plots = {entry[n].at : n \in {k \in Name : entry[k] # NoEntry}}
    /\ \A n \in Name : plots \cap entry[n].dups = {}

(* on_disconnect's join of the refresh thread returns: the sender is       *)
(* stopped first, so the thread does not wait for a sync that the blocked  *)
(* event loop could not finish.                                            *)
JoinReturns == el = "join" ~> el = "free"

(* A sync ends, by its last answer or by a disconnect, unless a reset ran  *)
(* into a refresh.                                                         *)
PlotSyncEnds == sid # 0 /\ ~raced ~> sid = 0 \/ raced

(* Harvester and farmer know the plots on the disk, each once.             *)
PlotsKnown == FarmerKnowsPlots /\ LoadedOnce
=============================================================================
