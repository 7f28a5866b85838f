--------------------------- MODULE BlockHeightMap ---------------------------
(***************************************************************************)
(* BlockHeightMap (chives/full_node/block_height_map.py): the hash of each *)
(* height and the sub-epoch summaries of the peak's chain, in memory and   *)
(* in two files that are only a cache of the database.  The files are      *)
(* written one after the other, are read again after the process stopped   *)
(* at any point, and may be found next to another database.                *)
(***************************************************************************)
EXTENDS BlockTree

CONSTANTS
    Ses,            \* Ses[b]: the sub-epoch summary b includes, or NoSes
    NoSes,
    FlushLimit,     \* 1000 entries
    OtherPeaks,     \* the peaks of databases that may be swapped in
    MaxRestarts     \* bound: how often the process stops

(* The first block of a chain includes no summary.                         *)
ASSUME SesAssumption ==
    /\ \A b \in Block : Height[b] = 0 => Ses[b] = NoSes
    /\ FlushLimit \in Nat \ {0}
    /\ OtherPeaks \subseteq Block \cup {NoBlock}
    /\ MaxRestarts \in Nat

VARIABLES
    peak,       \* the peak in the database
    hashes,     \* __height_to_hash
    ses,        \* __sub_epoch_summaries
    dirty,      \* __dirty
    hashFile,   \* height-to-hash; empty when it cannot be read
    sesFile,    \* sub-epoch-summaries; empty when it cannot be read
    mapPc,         \* "running", "down", or before one of the two file writes
    torn,       \* the files were once written from different maps
    restarts

mapVars == <<peak, hashes, ses, dirty, hashFile, sesFile, mapPc, torn, restarts>>
files == <<hashFile, sesFile>>

Empty == MapOf(NoBlock)

(* The summaries of the chain that ends in p, by height.                   *)
SesOf(p) ==
    [h \in {Height[a] : a \in {x \in Path(p) : Ses[x] # NoSes}} |-> Ses[MapOf(p)[h]]]

MapInit ==
    /\ peak = NoBlock
    /\ hashes = Empty /\ ses = Empty /\ dirty = 0
    /\ hashFile = Empty /\ sesFile = Empty
    /\ mapPc = "running"
    /\ torn = FALSE /\ restarts = 0

-----------------------------------------------------------------------------
(* blocks_to_add of _reconsider_peak, and what its caller passes on as the *)
(* fork height.                                                            *)
ToAdd(b) == {a \in Anc[b] : Height[a] > ForkHeight(peak, b)}
RollbackHeight(b) == IF ForkHeight(peak, b) < 0 THEN 0 ELSE ForkHeight(peak, b)

(* rollback, then update_height for every block to add.                    *)
HashesAfter(b) ==
    [h \in {k \in DOMAIN hashes : k <= RollbackHeight(b)} \cup {Height[a] : a \in ToAdd(b)} |->
        IF \E a \in ToAdd(b) : Height[a] = h
        THEN CHOOSE a \in ToAdd(b) : Height[a] = h ELSE hashes[h]]

SesAfter(b) ==
    [h \in {k \in DOMAIN ses : k <= RollbackHeight(b)}
           \cup {Height[a] : a \in {x \in ToAdd(b) : Ses[x] # NoSes}} |->
        IF \E a \in ToAdd(b) : Height[a] = h /\ Ses[a] # NoSes
        THEN Ses[MapOf(b)[h]] ELSE ses[h]]

(* receive_block makes b the peak; then maybe_flush.  b's parent is stored *)
(* and so is not heavier than the peak (PeakIsHeaviest of Blockchain).     *)
NewPeak(b) ==
    /\ mapPc = "running"
    /\ IF peak = NoBlock THEN Height[b] = 0
       ELSE Height[b] # 0 /\ Weight[b] > Weight[peak] /\ Weight[Parent[b]] <= Weight[peak]
    /\ peak' = b
    /\ hashes' = HashesAfter(b)
    /\ ses' = SesAfter(b)
    /\ mapPc' = IF dirty < FlushLimit THEN "running" ELSE "hashes"
    /\ UNCHANGED <<dirty, files, torn, restarts>>

(* maybe_flush, first file.  write_file_async replaces the file in one     *)
(* step and only logs when that fails.                                     *)
WriteHashes ==
    /\ mapPc = "hashes"
    /\ mapPc' = "summaries"
    /\ dirty' = 0
    /\ hashFile' \in {hashFile, hashes}
    /\ UNCHANGED <<peak, hashes, ses, sesFile, torn, restarts>>

(* maybe_flush, second file.                                               *)
WriteSummaries ==
    /\ mapPc = "summaries"
    /\ mapPc' = "running"
    /\ sesFile' \in {sesFile, ses}
    /\ torn' = (torn \/ hashFile # hashes \/ sesFile' # ses)
    /\ UNCHANGED <<peak, hashes, ses, dirty, hashFile, restarts>>

(* The process stops.                                                      *)
Stop ==
    /\ mapPc # "down"
    /\ restarts < MaxRestarts
    /\ restarts' = restarts + 1
    /\ mapPc' = "down"
    /\ torn' = (torn \/ mapPc = "summaries")
    /\ hashes' = Empty /\ ses' = Empty /\ dirty' = 0
    /\ UNCHANGED <<peak, files>>

(* "if the database file was swapped out"                                  *)
SwapDatabase(b) ==
    /\ mapPc = "down"
    /\ peak' = b
    /\ UNCHANGED <<hashes, ses, dirty, files, mapPc, torn, restarts>>

-----------------------------------------------------------------------------
(* create: the file's map, cut or filled up with zeros to the peak.        *)
Resized == [h \in 0..Height[peak] |-> IF h \in DOMAIN hashFile THEN hashFile[h] ELSE NoBlock]

(* The heights at which _load_blocks_from stops: a summary on the way down *)
(* that the files have for the same block.                                 *)
Matches ==
    {h \in DOMAIN SesOf(peak) :
        /\ h < Height[peak]
        /\ Resized[h] = MapOf(peak)[h]
        /\ h \in DOMAIN sesFile
        /\ sesFile[h] = Ses[MapOf(peak)[h]]}

(* Mutant: it stops at a summary that the files have for any block.        *)
LoadedFromAnyBlock ==
    LET M == {h \in DOMAIN SesOf(peak) : h < Height[peak] /\ h \in DOMAIN sesFile}
    IN  IF M = {} THEN 0 ELSE 1 + CHOOSE h \in M : \A k \in M : k <= h

(* The lowest height that is loaded from the database.                     *)
LoadedFrom ==
    IF Matches = {} THEN 0 ELSE 1 + CHOOSE h \in Matches : \A k \in Matches : k <= h

(* Below the peak a missing summary is removed, at the peak it is not.     *)
LoadedSes ==
    LET kept == {h \in DOMAIN sesFile : h < LoadedFrom \/ h >= Height[peak]}
        read == {h \in DOMAIN SesOf(peak) : h >= LoadedFrom}
    IN  [h \in kept \cup read |-> IF h \in read THEN Ses[MapOf(peak)[h]] ELSE sesFile[h]]

Create ==
    /\ mapPc = "down"
    /\ IF peak = NoBlock
       THEN mapPc' = "running" /\ UNCHANGED <<hashes, ses, dirty>>
       ELSE IF Resized[Height[peak]] = peak
       THEN mapPc' = "running" /\ hashes' = Resized /\ ses' = sesFile /\ dirty' = 0
       ELSE /\ hashes' = [h \in 0..Height[peak] |->
                             IF h >= LoadedFrom THEN MapOf(peak)[h] ELSE Resized[h]]
            /\ ses' = LoadedSes
            /\ dirty' = Height[peak] + 1 - LoadedFrom
            /\ mapPc' = IF dirty' < FlushLimit THEN "running" ELSE "hashes"
    /\ UNCHANGED <<peak, files, torn, restarts>>

-----------------------------------------------------------------------------
MapNext ==
    \/ \E b \in Block : NewPeak(b)
    \/ WriteHashes \/ WriteSummaries \/ Stop
    \/ \E b \in OtherPeaks : SwapDatabase(b)
    \/ Create

MapSpec == MapInit /\ [][MapNext]_mapVars

-----------------------------------------------------------------------------
(* "Defines the path from genesis to the peak, no orphan blocks": whatever *)
(* the files held, once the map is created it is the peak's chain.         *)
HashesArePath == mapPc # "down" => hashes = MapOf(peak)

(* get_ses finds every summary of the peak's chain: as long as both files  *)
(* were always written together, none is lost or taken from another chain, *)
(* after any reorg, restart or swapped database.                           *)
SesComplete ==
    mapPc # "down" /\ ~torn =>
        \A h \in DOMAIN SesOf(peak) : h \in DOMAIN ses /\ ses[h] = SesOf(peak)[h]

(* With no files to start from, the summaries are exactly those of the     *)
(* peak's chain, through every reorg and restart.                          *)
SesExactWithoutFiles ==
    mapPc # "down" /\ hashFile = Empty /\ sesFile = Empty => ses = SesOf(peak)

(* The cached map follows the chain through reorgs, flushes, kills and     *)
(* swapped databases.                                                      *)
HeightMapFollows == HashesArePath /\ SesComplete /\ SesExactWithoutFiles
=============================================================================
