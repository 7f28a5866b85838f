--------------------------- MODULE AddressManager ---------------------------
(***************************************************************************)
(* AddressManager (server/address_manager.py) with the file it is written  *)
(* to and read from (server/address_manager_store.py).  Every operation    *)
(* holds the manager's lock, and so does writing the file.                 *)
(*                                                                         *)
(* A cell is a bucket and a position in it.  For a given key an address    *)
(* has one cell in the tried table, and one in the new table for each      *)
(* source; the hashes are constants.  Times and the random test are left   *)
(* out: whether an entry is terrible, news is fresh, or an old entry was   *)
(* heard of lately, is chosen by the environment.  So is the port: the     *)
(* tables know an address by its host, and news of a known host is fresh   *)
(* only with another port, since the code first copies the time.           *)
(***************************************************************************)
EXTENDS Integers, Sequences, FiniteSets, SequencesExt

CONSTANTS Hosts, Sources,
          NewCell,     \* get_new_bucket and get_bucket_position, of a host from a source
          TriedCell,   \* get_tried_bucket and get_bucket_position, of a host
          NEW_BUCKETS_PER_ADDRESS, TRIED_COLLISION_SIZE,
          MaxId        \* bound on id_count

VARIABLE am    \* the manager

managerVars == <<am>>

NewCells == {NewCell[h][s] : h \in Hosts, s \in Sources}
TriedCells == {TriedCell[h] : h \in Hosts}
Occupied(table) == {c \in DOMAIN table : table[c] # -1}
Ids(a) == DOMAIN a.map_info
Removed(f, i) == [j \in DOMAIN f \ {i} |-> f[j]]
Extended(f, i, v) == [j \in DOMAIN f \cup {i} |-> IF j = i THEN v ELSE f[j]]

InOrder(S) == SetToSortSeq(S, <)

(* clear().                                                                *)
Cleared ==
    [id_count |-> 0, random_pos |-> <<>>, map_addr |-> [h \in {} |-> 0],
     map_info |-> [i \in {} |-> [host |-> "", src |-> "", ref |-> 0, tried |-> FALSE, pos |-> 0]],
     tried |-> [c \in TriedCells |-> -1], new |-> [c \in NewCells |-> -1],
     tried_count |-> 0, new_count |-> 0, collisions |-> <<>>, used_new |-> {}, used_tried |-> {}]

(* _set_new_matrix, _set_tried_matrix: the sets of used positions follow.  *)
SetNew(a, c, i) ==
    [a EXCEPT !.new[c] = i, !.used_new = IF i = -1 THEN @ \ {c} ELSE @ \cup {c}]
SetTried(a, c, i) ==
    [a EXCEPT !.tried[c] = i, !.used_tried = IF i = -1 THEN @ \ {c} ELSE @ \cup {c}]

create_(a, h, s) ==
    LET i == a.id_count + 1 IN
    [a EXCEPT !.id_count = i, !.map_addr = Extended(@, h, i),
              !.map_info = Extended(@, i, [host |-> h, src |-> s, ref |-> 0, tried |-> FALSE,
                                           pos |-> Len(a.random_pos) + 1]),
              !.random_pos = Append(@, i), !.new_count = @ + 1]

(* Positions count from 1 here.                                            *)
swap_random_(a, p, q) ==
    IF p = q THEN a
    ELSE [a EXCEPT !.map_info[a.random_pos[p]].pos = q, !.map_info[a.random_pos[q]].pos = p,
                   !.random_pos[p] = a.random_pos[q], !.random_pos[q] = a.random_pos[p]]

(* Mutant: the last entry is not moved to the place that gets free.        *)
delete_new_entry_unswapped(a, i) ==
    [a EXCEPT !.random_pos = SelectSeq(@, LAMBDA j : j # i), !.map_addr = Removed(@, a.map_info[i].host),
              !.map_info = Removed(@, i), !.new_count = @ - 1]

delete_new_entry_(a, i) ==
    LET b == swap_random_(a, a.map_info[i].pos, Len(a.random_pos)) IN
    [b EXCEPT !.random_pos = Front(@), !.map_addr = Removed(@, a.map_info[i].host),
              !.map_info = Removed(@, i), !.new_count = @ - 1]

clear_new_(a, c) ==
    LET i == a.new[c]
        b == SetNew([a EXCEPT !.map_info[i].ref = @ - 1], c, -1) IN
    IF i = -1 THEN a ELSE IF b.map_info[i].ref = 0 THEN delete_new_entry_(b, i) ELSE b

(* make_tried_: the present entry of a tried cell goes back to new.        *)
Evicted(a, c) ==
    LET i == a.tried[c]
        old == a.map_info[i]
        cell == NewCell[old.host][old.src]
        out == clear_new_(SetTried([a EXCEPT !.map_info[i].tried = FALSE, !.tried_count = @ - 1], c, -1), cell) IN
    IF i = -1 THEN a ELSE SetNew([out EXCEPT !.map_info[i].ref = 1, !.new_count = @ + 1], cell, i)

make_tried_(a, i) ==
    LET cells == {c \in NewCells : a.new[c] = i}
        cleared == [a EXCEPT !.new = [c \in NewCells |-> IF c \in cells THEN -1 ELSE @[c]],
                             !.used_new = @ \ cells, !.map_info[i].ref = @ - Cardinality(cells),
                             !.new_count = @ - 1]
        cell == TriedCell[a.map_info[i].host] IN
    SetTried([Evicted(cleared, cell) EXCEPT !.map_info[i].tried = TRUE, !.tried_count = @ + 1], cell, i)

(* mark_good_, as far as the tables are concerned.                         *)
mark_good_(a, h, test_before_evict) ==
    LET i == a.map_addr[h] IN
    IF h \notin DOMAIN a.map_addr \/ a.map_info[i].tried \/ \A c \in NewCells : a.new[c] # i THEN a
    ELSE IF test_before_evict /\ a.tried[TriedCell[h]] # -1
    THEN IF Len(a.collisions) < TRIED_COLLISION_SIZE /\ ~Contains(a.collisions, i)
         THEN [a EXCEPT !.collisions = Append(@, i)] ELSE a
    ELSE make_tried_(a, i)

(* add_to_new_table_ from where the cell is looked up.                     *)
PutIntoNew(a, i, s, terrible) ==
    LET cell == NewCell[a.map_info[i].host][s]
        there == a.new[cell]
        free == there = -1 \/ terrible \/ (a.map_info[there].ref > 1 /\ a.map_info[i].ref = 0) IN
    IF there = i THEN a
    ELSE IF free THEN SetNew([clear_new_(a, cell) EXCEPT !.map_info[i].ref = @ + 1], cell, i)
    ELSE IF a.map_info[i].ref = 0 THEN delete_new_entry_(a, i) ELSE a

(* add_to_new_table_; fresh: the news is new and the random test passes.   *)
add_to_new_table_(a, h, s, fresh, terrible) ==
    IF h \notin DOMAIN a.map_addr THEN LET b == create_(a, h, s) IN PutIntoNew(b, b.id_count, s, terrible)
    ELSE LET i == a.map_addr[h] IN
         IF ~fresh \/ a.map_info[i].tried \/ a.map_info[i].ref = NEW_BUCKETS_PER_ADDRESS THEN a
         ELSE PutIntoNew(a, i, s, terrible)

AddToNewTable(h, s, fresh, terrible) ==
    /\ am.id_count < MaxId \/ h \in DOMAIN am.map_addr
    /\ am' = add_to_new_table_(am, h, s, fresh, terrible)

MarkGood(h) == am' = mark_good_(am, h, TRUE)

(* resolve_tried_collisions_ for one entry; what the times say is an input.*)
Resolve(a, i, verdict) ==
    LET good == verdict = "replace" \/ a.tried[TriedCell[a.map_info[i].host]] = -1
        dropped == [a EXCEPT !.collisions = SelectSeq(@, LAMBDA j : j # i)] IN
    IF i \notin Ids(a) THEN dropped
    ELSE IF good THEN mark_good_(dropped, a.map_info[i].host, FALSE)
    ELSE IF verdict = "drop" THEN dropped ELSE a

ResolveTriedCollisions(verdict) ==
    am' = FoldLeft(LAMBDA a, i : Resolve(a, i, verdict[i]), am, am.collisions)

(* select_tried_collision_ forgets an entry that is gone.                  *)
SelectTriedCollision(i) ==
    /\ Contains(am.collisions, i) /\ i \notin Ids(am)
    /\ am' = [am EXCEPT !.collisions = SelectSeq(@, LAMBDA j : j # i)]

(* get_peers_ shuffles the first places of random_pos.                     *)
GetPeers(to) ==
    am' = FoldLeft(LAMBDA a, n : swap_random_(a, n, to[n]), am, InOrder(DOMAIN to))

(* cleanup, where old are the entries that have become too old.            *)
Cleanup(old) ==
    am' = FoldLeft(LAMBDA a, c : IF a.new[c] \in old THEN clear_new_(a, c) ELSE a, am, InOrder(NewCells))

(* The addresses and their cells.                                          *)
Holding(a) ==
    [addrs |-> DOMAIN a.map_addr,
     new |-> [c \in NewCells |-> IF a.new[c] = -1 THEN {} ELSE {a.map_info[a.new[c]].host}],
     tried |-> [c \in TriedCells |-> IF a.tried[c] = -1 THEN {} ELSE {a.map_info[a.tried[c]].host}]]

EntryOf(a, i) == [host |-> a.map_info[i].host, src |-> a.map_info[i].src]

(* serialize: unique_ids, the number of new entries before this one.       *)
NumberOf(a, i) == Cardinality({j \in Ids(a) : j < i /\ a.map_info[j].ref > 0})

(* serialize: the new entries in the order of map_info, then the tried     *)
(* ones, and for every new cell the number of its entry.                   *)
Serialized(a) ==
    LET news == SelectSeq(InOrder(Ids(a)), LAMBDA i : a.map_info[i].ref > 0)
        tried == SelectSeq(InOrder(Ids(a)), LAMBDA i : a.map_info[i].tried) IN
    [new_count |-> Len(news), nodes |-> [n \in 1..Len(news \o tried) |-> EntryOf(a, (news \o tried)[n])],
     new_table |-> {<<NumberOf(a, a.new[c]), c>> : c \in Occupied(a.new)}]

(* _deserialize: a node becomes the next entry.                            *)
Loaded(a, n, tried) ==
    [a EXCEPT !.id_count = @ + 1, !.map_addr = Extended(@, n.host, a.id_count),
              !.map_info = Extended(@, a.id_count, [host |-> n.host, src |-> n.src, ref |-> 0, tried |-> tried,
                                                    pos |-> Len(a.random_pos) + 1]),
              !.random_pos = Append(@, a.id_count)]

LoadTried(a, n) ==
    LET cell == TriedCell[n.host] IN
    IF a.tried[cell] # -1 THEN a
    ELSE [Loaded(a, n, TRUE) EXCEPT !.tried[cell] = a.id_count, !.tried_count = @ + 1]

LoadCell(a, e, new_count) ==
    IF e[1] >= new_count THEN a
    ELSE IF a.new[e[2]] # -1 \/ a.map_info[e[1]].ref >= NEW_BUCKETS_PER_ADDRESS THEN a
    ELSE [a EXCEPT !.new[e[2]] = e[1], !.map_info[e[1]].ref = @ + 1]

(* _deserialize; the table is read in the order of its cells, and the used *)
(* positions are found last (load_used_table_positions).                   *)
Deserialized(f) ==
    LET news == FoldLeft(LAMBDA a, n : Loaded(a, n, FALSE), [Cleared EXCEPT !.new_count = f.new_count],
                         SubSeq(f.nodes, 1, f.new_count))
        nodes == FoldLeft(LoadTried, news, SubSeq(f.nodes, f.new_count + 1, Len(f.nodes)))
        cells == FoldLeft(LAMBDA a, e : LoadCell(a, e, f.new_count), nodes,
                          SetToSortSeq(f.new_table, LAMBDA d, e : d[2] < e[2]))
        unused == {i \in Ids(cells) : ~cells.map_info[i].tried /\ cells.map_info[i].ref = 0}
        all == FoldLeft(delete_new_entry_, cells, InOrder(unused)) IN
    [all EXCEPT !.used_new = Occupied(all.new), !.used_tried = Occupied(all.tried)]

(* A stop and a start from the file.  Starting from a file of some time    *)
(* ago is a restart at that time.                                          *)
Restart == am' = Deserialized(Serialized(am))

ManagerInit == am = Cleared

ManagerNext ==
    \/ \E h \in Hosts :
         \/ \E s \in Sources, fresh, terrible \in BOOLEAN : AddToNewTable(h, s, fresh, terrible)
         \/ MarkGood(h)
    \/ \E verdict \in [ToSet(am.collisions) -> {"keep", "drop", "replace"}] : ResolveTriedCollisions(verdict)
    \/ \E i \in ToSet(am.collisions) : SelectTriedCollision(i)
    \/ \E m \in DOMAIN am.random_pos : \E to \in [1..m -> DOMAIN am.random_pos] :
         (\A n \in 1..m : to[n] >= n) /\ GetPeers(to)
    \/ \E old \in SUBSET Ids(am) : Cleanup(old)
    \/ Restart

ManagerSpec == ManagerInit /\ [][ManagerNext]_managerVars
-----------------------------------------------------------------------------
(* Every address is either in exactly one cell of the tried table, its     *)
(* own, or in as many cells of the new table as its reference count says,  *)
(* at least one; and the counts are those of the entries                   *)
(* (address_manager.py:265, 291, 353).                                     *)
TablesAgree ==
    /\ \A i \in Ids(am) : LET x == am.map_info[i] IN
         /\ x.tried = (x.ref = 0) /\ x.tried = (am.tried[TriedCell[x.host]] = i)
         /\ x.ref = Cardinality({c \in NewCells : am.new[c] = i})
    /\ \A c \in NewCells : am.new[c] = -1 \/ am.new[c] \in Ids(am)
    /\ am.new_count = Cardinality({i \in Ids(am) : ~am.map_info[i].tried})
    /\ am.tried_count = Cardinality({i \in Ids(am) : am.map_info[i].tried})
    /\ am.used_new = Occupied(am.new) /\ am.used_tried = Occupied(am.tried)

(* random_pos lists every entry once and every entry knows its place, so   *)
(* that a deletion removes the right one (address_manager.py:354).         *)
PositionsAgree ==
    /\ \A i \in Ids(am) : am.map_info[i].pos \in DOMAIN am.random_pos /\ am.random_pos[am.map_info[i].pos] = i
    /\ Len(am.random_pos) = Cardinality(Ids(am))
    /\ \A h \in DOMAIN am.map_addr : am.map_addr[h] \in Ids(am) /\ am.map_info[am.map_addr[h]].host = h
    /\ Cardinality(DOMAIN am.map_addr) = Cardinality(Ids(am))

(* An entry that waits for a tried cell waits for one that is taken, so    *)
(* that the entry to be tested exists (address_manager.py:540).            *)
CollisionHasRival ==
    \A i \in ToSet(am.collisions) \cap Ids(am) : am.tried[TriedCell[am.map_info[i].host]] \in Ids(am) \ {i}

(* A restart finds every address again, in the cells it was in when the    *)
(* file was written (address_manager_store.py:117).                        *)
RestartKeepsAddresses == Holding(Deserialized(Serialized(am))) = Holding(am)

(* The tables of the address manager agree with one another, also over a   *)
(* restart.                                                                *)
AddressTablesAgree ==
    /\ TablesAgree
    /\ PositionsAgree
    /\ CollisionHasRival
    /\ RestartKeepsAddresses
=============================================================================
