------------------------ MODULE BlockHeightMapProofs ------------------------
(***************************************************************************)
(* The height map is the peak's chain after every restart, whatever the    *)
(* cache files hold, and no summary of it is missing while the files were  *)
(* written together.                                                       *)
(*                                                                         *)
(* What makes it so: the file of hashes is always the map of some chain q, *)
(* so a block found in it at one height vouches for all heights below; and *)
(* the file of summaries has those of the same q.                          *)
(***************************************************************************)
EXTENDS BlockHeightMap, BlockTreeProofs

Peaks == Block \cup {NoBlock}

(* s has every summary of the chain that ends in p.                        *)
Has(s, p) == \A h \in DOMAIN SesOf(p) : h \in DOMAIN s /\ s[h] = SesOf(p)[h]

(* Summaries in memory are complete: the files were written together, or   *)
(* there is no file of hashes that could keep any from being loaded.       *)
Complete == ~torn \/ hashFile = Empty

MapInv ==
    /\ peak \in Peaks /\ mapPc \in {"running", "down", "hashes", "summaries"} /\ torn \in BOOLEAN
    /\ mapPc = "down" => hashes = Empty /\ ses = Empty
    /\ mapPc \in {"hashes", "summaries"} => peak # NoBlock
    /\ mapPc # "down" => hashes = MapOf(peak)
    /\ mapPc # "down" /\ Complete => Has(ses, peak)
    /\ SesExactWithoutFiles
    /\ \E q \in Peaks : /\ hashFile = MapOf(q)
                        /\ mapPc # "summaries" /\ ~torn => Has(sesFile, q)

-----------------------------------------------------------------------------
(* The summaries of a chain are those its blocks include.                  *)
LEMMA SesOfAt ==
    ASSUME NEW p \in Peaks
    PROVE  /\ \A a \in Path(p) : Ses[a] # NoSes =>
                 Height[a] \in DOMAIN SesOf(p) /\ SesOf(p)[Height[a]] = Ses[a]
           /\ \A h \in DOMAIN SesOf(p) :
                 \E a \in Path(p) : Height[a] = h /\ Ses[a] # NoSes /\ SesOf(p)[h] = Ses[a]
<1> DEFINE D == {Height[a] : a \in {x \in Path(p) : Ses[x] # NoSes}}
<1>1. DOMAIN SesOf(p) = D /\ \A h \in D : SesOf(p)[h] = Ses[MapOf(p)[h]]
  BY DEF SesOf
<1>2. \A a \in Path(p) : MapOf(p)[Height[a]] = a
  BY MapOfAt DEF Peaks
<1>3. QED BY <1>1, <1>2

(* The heights of a chain are those up to its end.                         *)
LEMMA PathHeights ==
    ASSUME NEW p \in Block
    PROVE  /\ {Height[a] : a \in Path(p)} = 0..Height[p]
           /\ DOMAIN MapOf(p) = 0..Height[p]
           /\ p \in Path(p) /\ Height[p] \in Nat
           /\ \A a \in Path(p) : Height[a] \in 0..Height[p] /\ MapOf(p)[Height[a]] = a
<1>1. Path(p) = Anc[p]
  BY NoBlockAssumption DEF Path
<1>2. Height[p] \in Nat
  BY BlockAssumption
<1>3. \A a \in Anc[p] : Height[a] \in 0..Height[p]
  BY <1>2, AncBelow, BlockAssumption
<1>4. \A h \in 0..Height[p] : \E a \in Anc[p] : Height[a] = h
  BY AncDense
<1>5. {Height[a] : a \in Path(p)} = 0..Height[p]
  BY <1>1, <1>3, <1>4
<1>6. p \in Path(p)
  BY <1>1, PathFacts
<1>7. \A a \in Path(p) : MapOf(p)[Height[a]] = a
  BY MapOfAt
<1>8. DOMAIN MapOf(p) = 0..Height[p]
  BY <1>5, MapOfAt
<1>9. QED BY <1>1, <1>2, <1>3, <1>5, <1>6, <1>7, <1>8

(* A file whose map has a block of p's chain at its height agrees with     *)
(* that chain up to there.                                                 *)
LEMMA VouchesBelow ==
    ASSUME NEW p \in Block, NEW q \in Peaks, NEW a \in Path(p),
           Height[a] \in DOMAIN MapOf(q), MapOf(q)[Height[a]] = a
    PROVE  /\ a \in Path(q)
           /\ \A x \in Path(p) : Height[x] <= Height[a] =>
                 x \in Path(q) /\ Height[x] \in DOMAIN MapOf(q) /\ MapOf(q)[Height[x]] = x
<1>0. DOMAIN MapOf(q) = {Height[c] : c \in Path(q)} /\ \A c \in Path(q) : MapOf(q)[Height[c]] = c
  BY MapOfAt DEF Peaks
<1>1. PICK c \in Path(q) : Height[c] = Height[a]
  BY <1>0
<1>2. a \in Path(q)
  BY <1>0, <1>1
<1>3. \A x \in Path(p) : Height[x] <= Height[a] => x \in Path(q)
  BY <1>2, SharedBelow DEF Peaks
<1>4. QED BY <1>0, <1>2, <1>3

(* An empty map is that of no chain only.                                  *)
LEMMA EmptyMap ==
    /\ \A q \in Block : MapOf(q) # Empty
    /\ DOMAIN Empty = {}
    /\ DOMAIN SesOf(NoBlock) = {}
    /\ SesOf(NoBlock) = Empty
<1>1. DOMAIN Empty = {} /\ Path(NoBlock) = {}
  BY DEF Empty, MapOf, Path
<1>2. \A q \in Block : 0 \in DOMAIN MapOf(q)
  BY PathHeights, BlockAssumption
<1>3. DOMAIN SesOf(NoBlock) = {} /\ SesOf(NoBlock) = [h \in {} |-> Ses[MapOf(NoBlock)[h]]]
  BY <1>1 DEF SesOf
<1>4. Empty = [h \in {} |-> CHOOSE a \in Path(NoBlock) : Height[a] = h]
  BY <1>1 DEF Empty, MapOf
<1>5. QED BY <1>1, <1>2, <1>3, <1>4
-----------------------------------------------------------------------------
(* Blocks to add to the map are those above the last block the chains of   *)
(* the old and the new peak share; the others are in both.                 *)
LEMMA AboveFork ==
    ASSUME NEW b \in Block, peak \in Peaks
    PROVE  /\ ForkHeight(peak, b) \in Int /\ ForkHeight(peak, b) >= -1
           /\ \A x \in Path(b) : Height[x] > ForkHeight(peak, b) => x \in ToAdd(b)
           /\ \A x \in Path(b) : Height[x] <= ForkHeight(peak, b) => x \in Path(peak)
           /\ \A x \in Path(peak) : Height[x] <= ForkHeight(peak, b) => x \in Path(b)
           /\ \A x \in ToAdd(b) : x \in Path(b) /\ Height[x] > ForkHeight(peak, b)
<1>1. Path(b) = Anc[b] /\ \A x \in Path(b) : Height[x] \in Nat
  BY PathFacts, NoBlockAssumption DEF Path
<1>2. /\ \A x \in Path(b) : Height[x] > ForkHeight(peak, b) => x \in ToAdd(b)
      /\ \A x \in ToAdd(b) : x \in Path(b) /\ Height[x] > ForkHeight(peak, b)
  BY <1>1 DEF ToAdd
<1>3. CASE peak = NoBlock
  <2>1. ForkHeight(peak, b) = -1 /\ Path(peak) = {}
    BY <1>3 DEF ForkHeight, SharedHeights, Path
  <2>2. QED BY <1>1, <1>2, <2>1
<1>4. CASE peak \in Block
  <2>1. Path(peak) = Anc[peak] /\ \A x \in Path(peak) : Height[x] \in Nat
    BY <1>4, PathFacts, NoBlockAssumption DEF Path
  <2>2. CASE ForkHeight(peak, b) = -1
    BY <2>2, <2>1, <1>1, <1>2
  <2>3. CASE ForkHeight(peak, b) # -1
    <3>1. ForkHeight(peak, b) \in Nat
      BY <1>4, <2>3, ForkHeightShared
    <3>2. PICK a \in Anc[peak] \cap Anc[b] : Height[a] = ForkHeight(peak, b)
      BY <1>4, <2>3, ForkHeightShared
    <3>3. a \in Path(peak) \cap Path(b)
      BY <3>2, <2>1, <1>1
    <3>4. /\ \A x \in Path(peak) : Height[x] <= Height[a] => x \in Path(b)
          /\ \A x \in Path(b) : Height[x] <= Height[a] => x \in Path(peak)
      BY <3>3, <1>4, SharedBelow
    <3>5. QED BY <3>1, <3>2, <3>4, <1>2
  <2>4. QED BY <2>2, <2>3
<1>5. QED BY <1>3, <1>4 DEF Peaks

(* rollback and update_height turn the old peak's map into the new one's.  *)
LEMMA HashesFollow ==
    ASSUME NEW b \in Block, peak \in Peaks, hashes = MapOf(peak)
    PROVE  HashesAfter(b) = MapOf(b)
<1> DEFINE f == ForkHeight(peak, b)
           K == {k \in DOMAIN hashes : k <= RollbackHeight(b)}
           N == {Height[a] : a \in ToAdd(b)}
           V(h) == IF \E a \in ToAdd(b) : Height[a] = h
                   THEN CHOOSE a \in ToAdd(b) : Height[a] = h ELSE hashes[h]
<1>1. /\ DOMAIN hashes = {Height[a] : a \in Path(peak)}
      /\ \A a \in Path(peak) : hashes[Height[a]] = a
  BY MapOfAt DEF Peaks
<1>2. /\ DOMAIN MapOf(b) = {Height[a] : a \in Path(b)}
      /\ \A a \in Path(b) : MapOf(b)[Height[a]] = a
      /\ \A a \in Path(b) : Height[a] \in Nat
  BY MapOfAt, PathFacts
<1>3. \A a \in Path(peak) : Height[a] \in Nat
  BY PathFacts DEF Peaks
<1>4. K \cup N = DOMAIN MapOf(b)
  <2>1. ASSUME NEW k \in K PROVE k \in DOMAIN MapOf(b)
    <3>1. PICK a \in Path(peak) : Height[a] = k
      BY <1>1
    <3>2. CASE k <= f
      BY <3>1, <3>2, <1>2, AboveFork
    <3>3. CASE k > f
      <4>1. k = 0
        BY <3>1, <3>3, <1>3, AboveFork DEF RollbackHeight
      <4>2. QED BY <4>1, PathHeights, BlockAssumption
    <3>4. QED BY <3>2, <3>3, <3>1, <1>3, AboveFork
  <2>2. N \subseteq DOMAIN MapOf(b)
    BY <1>2, AboveFork
  <2>3. ASSUME NEW a \in Path(b) PROVE Height[a] \in K \cup N
    <3>1. CASE Height[a] > f
      BY <3>1, AboveFork
    <3>2. CASE Height[a] <= f
      <4>1. a \in Path(peak)
        BY <3>2, AboveFork
      <4>2. Height[a] <= RollbackHeight(b)
        BY <3>2, <1>2, AboveFork DEF RollbackHeight
      <4>3. QED BY <4>1, <4>2, <1>1
    <3>3. QED BY <3>1, <3>2, <1>2, AboveFork
  <2>4. QED BY <2>1, <2>2, <2>3, <1>2
<1>5. ASSUME NEW h \in DOMAIN MapOf(b)
      PROVE  V(h) = MapOf(b)[h]
  <2>1. PICK x \in Path(b) : Height[x] = h
    BY <1>2
  <2>2. CASE \E a \in ToAdd(b) : Height[a] = h
    <3>1. \A a \in ToAdd(b) : Height[a] = h => a = MapOf(b)[h]
      BY <1>2, AboveFork
    <3>2. QED BY <2>2, <3>1
  <2>3. CASE ~ \E a \in ToAdd(b) : Height[a] = h
    <3>1. Height[x] <= f
      BY <2>1, <2>3, <1>2, AboveFork
    <3>2. x \in Path(peak)
      BY <3>1, AboveFork
    <3>3. QED BY <3>2, <2>1, <2>3, <1>1, <1>2
  <2>4. QED BY <2>2, <2>3
<1>6. HashesAfter(b) = [h \in DOMAIN MapOf(b) |-> MapOf(b)[h]]
  <2>1. HashesAfter(b) = [h \in K \cup N |-> V(h)]
    BY Zenon DEF HashesAfter
  <2>2. \A h \in K \cup N : V(h) = MapOf(b)[h]
    BY <1>4, <1>5
  <2> HIDE DEF K, N, V
  <2>3. QED BY <1>4, <2>1, <2>2
<1>7. MapOf(b) = [h \in DOMAIN MapOf(b) |-> MapOf(b)[h]]
  BY DEF MapOf
<1>8. QED BY <1>6, <1>7

(* The same for the summaries: none of the new chain is missing, and if    *)
(* they were exact, they still are.                                        *)
LEMMA SesFollow ==
    ASSUME NEW b \in Block, peak \in Peaks
    PROVE  /\ Has(ses, peak) => Has(SesAfter(b), b)
           /\ ses = SesOf(peak) => SesAfter(b) = SesOf(b)
<1> DEFINE f == ForkHeight(peak, b)
           K == {k \in DOMAIN ses : k <= RollbackHeight(b)}
           N == {Height[a] : a \in {x \in ToAdd(b) : Ses[x] # NoSes}}
           V(h) == IF \E a \in ToAdd(b) : Height[a] = h /\ Ses[a] # NoSes
                   THEN Ses[MapOf(b)[h]] ELSE ses[h]
<1>1. SesAfter(b) = [h \in K \cup N |-> V(h)]
  BY DEF SesAfter
<1>2. /\ \A a \in Path(b) : MapOf(b)[Height[a]] = a
      /\ \A a \in Path(b) : Height[a] \in Nat
      /\ \A a \in Path(peak) : Height[a] \in Nat
  BY MapOfAt, PathFacts DEF Peaks
<1>3. b \in Peaks
  BY DEF Peaks
<1> HIDE DEF V
<1>4. ASSUME Has(ses, peak), NEW h \in DOMAIN SesOf(b)
      PROVE  h \in K \cup N /\ V(h) = SesOf(b)[h]
  <2>1. PICK a \in Path(b) : Height[a] = h /\ Ses[a] # NoSes /\ SesOf(b)[h] = Ses[a]
    BY <1>3, SesOfAt
  <2>2. CASE Height[a] > f
    <3>1. a \in ToAdd(b)
      BY <2>2, AboveFork
    <3>2. QED BY <3>1, <2>1, <1>2 DEF V
  <2>3. CASE Height[a] <= f
    <3>1. a \in Path(peak)
      BY <2>3, AboveFork
    <3>2. h \in DOMAIN SesOf(peak) /\ SesOf(peak)[h] = Ses[a]
      BY <3>1, <2>1, SesOfAt
    <3>3. h \in DOMAIN ses /\ ses[h] = Ses[a]
      BY <3>2, <1>4 DEF Has
    <3>4. h <= RollbackHeight(b)
      BY <2>1, <2>3, <1>2, AboveFork DEF RollbackHeight
    <3>5. ~ \E x \in ToAdd(b) : Height[x] = h
      BY <2>1, <2>3, <1>2, AboveFork
    <3>6. QED BY <3>3, <3>4, <3>5, <2>1 DEF V
  <2>4. QED BY <2>2, <2>3, <1>2, AboveFork
<1>5. Has(ses, peak) => Has(SesAfter(b), b)
  BY <1>1, <1>4 DEF Has
<1>6. ASSUME ses = SesOf(peak) PROVE SesAfter(b) = SesOf(b)
  <2>1. Has(ses, peak)
    BY <1>6 DEF Has
  <2>2. ASSUME NEW h \in K \cup N PROVE h \in DOMAIN SesOf(b)
    <3>1. CASE h \in N
      <4>1. PICK a \in ToAdd(b) : Height[a] = h /\ Ses[a] # NoSes
        BY <3>1
      <4>2. QED BY <4>1, <1>3, AboveFork, SesOfAt
    <3>2. CASE h \in K
      <4>1. PICK a \in Path(peak) : Height[a] = h /\ Ses[a] # NoSes
        BY <3>2, <1>6, SesOfAt
      <4>2. h # 0
        BY <4>1, PathFacts, SesAssumption DEF Peaks
      <4>3. Height[a] <= f
        BY <4>1, <4>2, <3>2, <1>2, AboveFork DEF RollbackHeight
      <4>4. a \in Path(b)
        BY <4>3, AboveFork
      <4>5. QED BY <4>1, <4>4, <1>3, SesOfAt
    <3>3. QED BY <3>1, <3>2
  <2>3. DOMAIN SesOf(b) = K \cup N
    BY <2>1, <2>2, <1>4
  <2>4. \A h \in K \cup N : V(h) = SesOf(b)[h]
    BY <2>1, <2>3, <1>4
  <2>5. SesOf(b) = [h \in DOMAIN SesOf(b) |-> SesOf(b)[h]]
    BY DEF SesOf
  <2>6. QED BY <2>3, <2>4, <2>5, <1>1
<1>7. QED BY <1>5, <1>6

-----------------------------------------------------------------------------
(* create: where the file has the peak, or the last matching summary, it   *)
(* has the peak's chain below, and what is above is loaded.                *)
LEMMA LoadedBelow ==
    ASSUME peak \in Block, NEW q \in Peaks, hashFile = MapOf(q), Matches # {}
    PROVE  /\ LoadedFrom \in 1..Height[peak]
           /\ \A x \in Path(peak) : Height[x] < LoadedFrom =>
                 x \in Path(q) /\ Resized[Height[x]] = x
<1> DEFINE m == CHOOSE h \in Matches : \A k \in Matches : k <= h
<1>1. /\ DOMAIN MapOf(peak) = 0..Height[peak]
      /\ Height[peak] \in Nat
      /\ \A a \in Path(peak) : Height[a] \in 0..Height[peak] /\ MapOf(peak)[Height[a]] = a
  BY PathHeights
<1>2. Matches \subseteq Nat /\ \A h \in Matches : h <= Height[peak]
  <2>1. \A h \in DOMAIN SesOf(peak) : h \in 0..Height[peak]
    BY <1>1, SesOfAt DEF Peaks
  <2>2. QED BY <2>1, <1>1 DEF Matches
<1>3. \E h \in Matches : \A k \in Matches : k <= h
  BY <1>1, <1>2, GreatestNat
<1>4. m \in Matches
  BY <1>3
<1>5. LoadedFrom = 1 + m
  BY DEF LoadedFrom
<1> HIDE DEF m
<1>6. PICK a \in Path(peak) : Height[a] = m
  BY <1>4, SesOfAt DEF Matches, Peaks
<1>7. m < Height[peak] /\ Resized[m] = a
  BY <1>4, <1>6, <1>1 DEF Matches
<1>8. m \in 0..Height[peak]
  BY <1>6, <1>1
<1>9. m \in DOMAIN hashFile /\ hashFile[m] = a
  <2>1. a \in Block
    BY <1>6, PathFacts
  <2>2. QED BY <1>7, <1>8, <2>1, NoBlockAssumption DEF Resized
<1>10. ASSUME NEW x \in Path(peak), Height[x] < LoadedFrom
       PROVE  x \in Path(q) /\ Resized[Height[x]] = x
  <2>1. Height[x] <= Height[a] /\ Height[x] \in 0..Height[peak]
    BY <1>10, <1>5, <1>6, <1>8, <1>1
  <2>2. x \in Path(q) /\ Height[x] \in DOMAIN hashFile /\ hashFile[Height[x]] = x
    BY <1>6, <1>9, <2>1, VouchesBelow
  <2>3. QED BY <2>1, <2>2 DEF Resized
<1>11. LoadedFrom \in 1..Height[peak]
  BY <1>5, <1>7, <1>8, <1>1
<1>12. QED BY <1>10, <1>11

LEMMA CreateKeeps ==
    ASSUME MapInv, Create
    PROVE  MapInv'
<1>1. PICK q \in Peaks : hashFile = MapOf(q) /\ (mapPc # "summaries" /\ ~torn => Has(sesFile, q))
  BY DEF MapInv
<1>2. /\ mapPc = "down" /\ peak' = peak /\ hashFile' = hashFile /\ sesFile' = sesFile /\ torn' = torn
      /\ peak \in Peaks /\ torn \in BOOLEAN /\ hashes = Empty /\ ses = Empty
      /\ mapPc' \in {"running", "hashes"}
  BY DEF MapInv, Create, files
<1>3. \E r \in Peaks : hashFile' = MapOf(r) /\ ((mapPc # "summaries" /\ ~torn)' => Has(sesFile', r))
  BY <1>1, <1>2
<1>4. CASE peak = NoBlock
  <2>1. mapPc' = "running" /\ hashes' = Empty /\ ses' = Empty
    BY <1>2, <1>4 DEF Create
  <2>2. hashes' = MapOf(peak') /\ ses' = SesOf(peak') /\ Has(ses', peak')
    BY <2>1, <1>2, <1>4, EmptyMap DEF Empty, Has
  <2>3. QED BY <2>1, <2>2, <1>2, <1>3 DEF MapInv, SesExactWithoutFiles, Has, Empty, Peaks
<1>5. CASE peak \in Block /\ Resized[Height[peak]] = peak
  <2>1. mapPc' = "running" /\ hashes' = Resized /\ ses' = sesFile
    BY <1>5, NoBlockAssumption DEF Create
  <2>2. /\ DOMAIN MapOf(peak) = 0..Height[peak] /\ Height[peak] \in Nat /\ peak \in Path(peak)
        /\ \A a \in Path(peak) : Height[a] \in 0..Height[peak] /\ MapOf(peak)[Height[a]] = a
        /\ {Height[a] : a \in Path(peak)} = 0..Height[peak]
    BY <1>5, PathHeights
  <2>3. Height[peak] \in DOMAIN hashFile /\ hashFile[Height[peak]] = peak
    BY <1>5, <2>2, NoBlockAssumption DEF Resized
  <2>4. \A x \in Path(peak) :
            x \in Path(q) /\ Height[x] \in DOMAIN hashFile /\ hashFile[Height[x]] = x
    BY <1>1, <1>5, <2>2, <2>3, VouchesBelow
  <2>5. Resized = MapOf(peak)
    <3>1. \A h \in 0..Height[peak] : Resized[h] = MapOf(peak)[h]
      BY <2>2, <2>4 DEF Resized
    <3>2. MapOf(peak) = [h \in 0..Height[peak] |-> MapOf(peak)[h]]
      BY <2>2 DEF MapOf
    <3>3. Resized = [h \in 0..Height[peak] |-> Resized[h]]
      BY DEF Resized
    <3>4. QED BY <3>1, <3>2, <3>3
  <2>6. hashFile # Empty
    BY <2>3, EmptyMap
  <2>7. ~torn => Has(sesFile, peak)
    <3>1. SUFFICES ASSUME ~torn, NEW h \in DOMAIN SesOf(peak)
          PROVE  h \in DOMAIN sesFile /\ sesFile[h] = SesOf(peak)[h]
      BY DEF Has
    <3>2. PICK a \in Path(peak) : Height[a] = h /\ Ses[a] # NoSes /\ SesOf(peak)[h] = Ses[a]
      BY <1>2, SesOfAt
    <3>3. h \in DOMAIN SesOf(q) /\ SesOf(q)[h] = Ses[a]
      BY <3>2, <2>4, SesOfAt
    <3>4. QED BY <3>1, <3>2, <3>3, <1>1, <1>2 DEF Has
  <2>8. (Complete => Has(ses, peak))'
    BY <2>1, <2>6, <2>7, <1>2 DEF Complete, Has, SesOf, Empty
  <2>9. QED BY <2>1, <2>5, <2>6, <2>8, <1>2, <1>3 DEF MapInv, SesExactWithoutFiles, Has, Empty, Peaks
<1>6. CASE peak \in Block /\ Resized[Height[peak]] # peak
  <2> DEFINE L == LoadedFrom
             kept == {h \in DOMAIN sesFile : h < L \/ h >= Height[peak]}
             read == {h \in DOMAIN SesOf(peak) : h >= L}
  <2>1. /\ hashes' = [h \in 0..Height[peak] |-> IF h >= L THEN MapOf(peak)[h] ELSE Resized[h]]
        /\ ses' = LoadedSes
    BY <1>6, NoBlockAssumption DEF Create
  <2>2. /\ DOMAIN MapOf(peak) = 0..Height[peak] /\ Height[peak] \in Nat /\ peak \in Path(peak)
        /\ \A a \in Path(peak) : Height[a] \in 0..Height[peak] /\ MapOf(peak)[Height[a]] = a
        /\ {Height[a] : a \in Path(peak)} = 0..Height[peak]
    BY <1>6, PathHeights
  <2>3. ses' = [h \in kept \cup read |-> IF h \in read THEN Ses[MapOf(peak)[h]] ELSE sesFile[h]]
    BY <2>1 DEF LoadedSes
  <2>4. \A h \in DOMAIN SesOf(peak) : \E a \in Path(peak) :
            Height[a] = h /\ Ses[a] # NoSes /\ SesOf(peak)[h] = Ses[a] /\ MapOf(peak)[h] = a
    BY <2>2, <1>2, SesOfAt
  <2>5. /\ L \in Nat
        /\ \A x \in Path(peak) : Height[x] < L => x \in Path(q) /\ Resized[Height[x]] = x
    <3>1. CASE Matches = {}
      BY <3>1, <2>2 DEF LoadedFrom
    <3>2. CASE Matches # {}
      BY <3>2, <1>1, <1>6, <2>2, LoadedBelow
    <3>3. QED BY <3>1, <3>2
  <2>6. hashFile = Empty => L = 0
    <3>1. SUFFICES ASSUME hashFile = Empty, Matches # {} PROVE FALSE
      BY DEF LoadedFrom
    <3>2. PICK h \in Matches : TRUE
      BY <3>1
    <3>3. PICK a \in Path(peak) : Height[a] = h /\ MapOf(peak)[h] = a
      BY <3>2, <2>4 DEF Matches
    <3>4. Resized[h] = a /\ h \in 0..Height[peak]
      BY <3>2, <3>3, <2>2 DEF Matches
    <3>5. a # NoBlock
      BY <3>3, <1>6, PathFacts, NoBlockAssumption
    <3>6. QED BY <3>1, <3>4, <3>5, EmptyMap DEF Resized
  <2> HIDE DEF L
  <2>7. hashes' = MapOf(peak)
    <3>1. ASSUME NEW h \in 0..Height[peak]
          PROVE  (IF h >= L THEN MapOf(peak)[h] ELSE Resized[h]) = MapOf(peak)[h]
      <4>1. PICK a \in Path(peak) : Height[a] = h
        BY <2>2
      <4>2. QED BY <4>1, <2>2, <2>5
    <3>2. MapOf(peak) = [h \in 0..Height[peak] |-> MapOf(peak)[h]]
      BY <2>2 DEF MapOf
    <3>3. QED BY <3>1, <3>2, <2>1
  <2>8. Complete => Has(ses', peak)
    <3>1. SUFFICES ASSUME Complete, NEW h \in DOMAIN SesOf(peak)
          PROVE  h \in kept \cup read
                 /\ (IF h \in read THEN Ses[MapOf(peak)[h]] ELSE sesFile[h]) = SesOf(peak)[h]
      BY <2>3 DEF Has
    <3>2. PICK a \in Path(peak) :
              Height[a] = h /\ Ses[a] # NoSes /\ SesOf(peak)[h] = Ses[a] /\ MapOf(peak)[h] = a
      BY <2>4
    <3>3. CASE h >= L
      BY <3>2, <3>3
    <3>4. CASE ~ (h >= L)
      <4>1. h < L /\ a \in Path(q)
        BY <3>2, <3>4, <2>2, <2>5
      <4>2. ~torn
        BY <3>1, <3>2, <4>1, <2>2, <2>6 DEF Complete
      <4>3. h \in DOMAIN SesOf(q) /\ SesOf(q)[h] = Ses[a]
        BY <3>2, <4>1, SesOfAt
      <4>4. h \in DOMAIN sesFile /\ sesFile[h] = Ses[a]
        BY <4>2, <4>3, <1>1, <1>2 DEF Has
      <4>5. QED BY <3>2, <3>4, <4>1, <4>4
    <3>5. QED BY <3>3, <3>4
  <2>9. hashFile = Empty /\ sesFile = Empty => ses' = SesOf(peak)
    <3>1. SUFFICES ASSUME hashFile = Empty, sesFile = Empty PROVE ses' = SesOf(peak)
      OBVIOUS
    <3>2. L = 0 /\ kept = {}
      BY <3>1, <2>6, EmptyMap
    <3>3. \A h \in DOMAIN SesOf(peak) : h >= 0
      BY <2>4, <2>2
    <3>3a. read = DOMAIN SesOf(peak)
      BY <3>2, <3>3
    <3>4. \A h \in DOMAIN SesOf(peak) : Ses[MapOf(peak)[h]] = SesOf(peak)[h]
      BY <2>4
    <3>5. SesOf(peak) = [h \in DOMAIN SesOf(peak) |-> SesOf(peak)[h]]
      BY DEF SesOf
    <3>6. QED BY <3>2, <3>3a, <3>4, <3>5, <2>3
  <2>10. peak # NoBlock
    BY <1>6, NoBlockAssumption
  <2>11. QED BY <2>7, <2>8, <2>9, <2>10, <1>2, <1>3
              DEF MapInv, SesExactWithoutFiles, Has, Complete, Empty, Peaks
<1>7. QED BY <1>2, <1>4, <1>5, <1>6 DEF Peaks

-----------------------------------------------------------------------------
(* No step breaks the invariant.                                           *)
LEMMA MapStep == MapInv /\ [MapNext]_mapVars => MapInv'
<1> SUFFICES ASSUME MapInv, [MapNext]_mapVars PROVE MapInv'
  OBVIOUS
<1>1. ASSUME NEW b \in Block, NewPeak(b) PROVE MapInv'
  <2>1. /\ mapPc = "running" /\ peak \in Peaks /\ torn \in BOOLEAN /\ hashes = MapOf(peak)
        /\ peak' = b /\ hashes' = HashesAfter(b) /\ ses' = SesAfter(b) /\ mapPc' \in {"running", "hashes"}
        /\ hashFile' = hashFile /\ sesFile' = sesFile /\ torn' = torn
    BY <1>1 DEF MapInv, NewPeak, files
  <2>2. hashes' = MapOf(b)
    BY <2>1, HashesFollow
  <2>3. Complete => Has(ses', b)
    <3>1. Complete => Has(ses, peak)
      BY <2>1 DEF MapInv
    <3>2. QED BY <3>1, <2>1, SesFollow
  <2>4. hashFile = Empty /\ sesFile = Empty => ses' = SesOf(b)
    <3>1. hashFile = Empty /\ sesFile = Empty => ses = SesOf(peak)
      BY <2>1 DEF MapInv, SesExactWithoutFiles
    <3>2. QED BY <3>1, <2>1, SesFollow
  <2>5. \E q \in Peaks : hashFile' = MapOf(q) /\ ((mapPc # "summaries" /\ ~torn)' => Has(sesFile', q))
    BY <2>1 DEF MapInv
  <2>6. b # NoBlock /\ b \in Peaks
    BY NoBlockAssumption DEF Peaks
  <2>7. QED BY <2>1, <2>2, <2>3, <2>4, <2>5, <2>6
            DEF MapInv, SesExactWithoutFiles, Has, Complete, Empty, Peaks
<1>2. ASSUME WriteHashes PROVE MapInv'
  <2>1. /\ mapPc = "hashes" /\ mapPc' = "summaries" /\ peak' = peak /\ hashes' = hashes /\ ses' = ses
        /\ sesFile' = sesFile /\ torn' = torn /\ hashFile' \in {hashFile, hashes}
        /\ peak \in Block /\ torn \in BOOLEAN /\ hashes = MapOf(peak)
    BY <1>2 DEF MapInv, WriteHashes, Peaks
  <2>2. hashFile' = Empty => hashFile = Empty
    BY <2>1, EmptyMap
  <2>3. Complete' => Complete
    BY <2>1, <2>2 DEF Complete, Empty
  <2>4. \E q \in Peaks : hashFile' = MapOf(q)
    BY <2>1 DEF MapInv, Peaks
  <2>5. peak # NoBlock /\ peak \in Peaks
    BY <2>1, NoBlockAssumption DEF Peaks
  <2>6. QED BY <2>1, <2>2, <2>3, <2>4, <2>5 DEF MapInv, SesExactWithoutFiles, Has, Empty, Peaks
<1>3. ASSUME WriteSummaries PROVE MapInv'
  <2>1. /\ mapPc = "summaries" /\ mapPc' = "running" /\ peak' = peak /\ hashes' = hashes /\ ses' = ses
        /\ hashFile' = hashFile /\ sesFile' \in {sesFile, ses}
        /\ torn' = (torn \/ hashFile # hashes \/ sesFile' # ses)
        /\ peak \in Block /\ torn \in BOOLEAN /\ hashes = MapOf(peak)
        /\ Complete => Has(ses, peak)
    BY <1>3 DEF MapInv, WriteSummaries, Peaks
  <2>2. Complete' => Complete
    BY <2>1 DEF Complete, Empty
  <2>3. ~torn' => hashFile = MapOf(peak) /\ Has(sesFile', peak)
    BY <2>1 DEF Complete
  <2>4. \E q \in Peaks : hashFile' = MapOf(q) /\ (~torn' => Has(sesFile', q))
    <3>1. CASE torn'
      BY <3>1, <2>1 DEF MapInv
    <3>2. CASE ~torn'
      BY <3>2, <2>1, <2>3 DEF Peaks
    <3>3. QED BY <3>1, <3>2
  <2>5. hashFile = Empty /\ sesFile' = Empty => ses = SesOf(peak)
    <3>1. SUFFICES ASSUME hashFile = Empty, sesFile' = Empty, sesFile # Empty PROVE ses = SesOf(peak)
      BY <2>1 DEF MapInv, SesExactWithoutFiles
    <3>2. ses = Empty /\ Has(ses, peak)
      BY <3>1, <2>1 DEF Complete
    <3>3. DOMAIN SesOf(peak) = {}
      BY <3>2, EmptyMap DEF Has
    <3>4. SesOf(peak) = [h \in {} |-> SesOf(peak)[h]] /\ Empty = [h \in {} |-> Empty[h]]
      <4>1. SesOf(peak) = [h \in DOMAIN SesOf(peak) |-> SesOf(peak)[h]]
        BY DEF SesOf
      <4>2. Empty = [h \in DOMAIN Empty |-> Empty[h]]
        BY DEF Empty, MapOf
      <4>3. QED BY <4>1, <4>2, <3>3, EmptyMap
    <3>5. [h \in {} |-> SesOf(peak)[h]] = [h \in {} |-> Empty[h]]
      OBVIOUS
    <3>6. QED BY <3>2, <3>4, <3>5
  <2>6. torn' \in BOOLEAN
    BY <2>1
  <2>7. peak \in Peaks
    BY <2>1 DEF Peaks
  <2>8. QED BY <2>1, <2>2, <2>4, <2>5, <2>6, <2>7 DEF MapInv, SesExactWithoutFiles, Has, Empty, Peaks
<1>4. ASSUME Stop PROVE MapInv'
  <2>1. /\ mapPc' = "down" /\ peak' = peak /\ hashFile' = hashFile /\ sesFile' = sesFile
        /\ hashes' = Empty /\ ses' = Empty /\ torn' = (torn \/ mapPc = "summaries")
        /\ peak \in Peaks /\ torn \in BOOLEAN
    BY <1>4 DEF MapInv, Stop, files
  <2>2. \E q \in Peaks : hashFile' = MapOf(q) /\ (~torn' => Has(sesFile', q))
    BY <2>1 DEF MapInv
  <2>3. torn' \in BOOLEAN
    BY <2>1
  <2>4. QED BY <2>1, <2>2, <2>3 DEF MapInv, SesExactWithoutFiles, Empty, Peaks
<1>5. ASSUME NEW b \in OtherPeaks, SwapDatabase(b) PROVE MapInv'
  <2>1. b \in Peaks
    BY SesAssumption DEF Peaks
  <2>2. QED BY <1>5, <2>1 DEF MapInv, SwapDatabase, SesExactWithoutFiles, files, Has, Empty, Peaks
<1>6. ASSUME Create PROVE MapInv'
  BY <1>6, CreateKeeps
<1>7. CASE UNCHANGED mapVars
  BY <1>7 DEF MapInv, mapVars, SesExactWithoutFiles, Has, Complete, Empty, Peaks
<1>8. QED BY <1>1, <1>2, <1>3, <1>4, <1>5, <1>6, <1>7 DEF MapNext

LEMMA MapStart == MapInit => MapInv
<1> SUFFICES ASSUME MapInit PROVE MapInv
  OBVIOUS
<1>1. /\ peak = NoBlock /\ hashes = Empty /\ ses = Empty /\ hashFile = Empty /\ sesFile = Empty
      /\ mapPc = "running" /\ torn = FALSE
  BY DEF MapInit
<1>2. NoBlock \in Peaks /\ Has(Empty, NoBlock)
  BY EmptyMap DEF Has, Peaks
<1>3. QED BY <1>1, <1>2, EmptyMap DEF MapInv, SesExactWithoutFiles, Empty

-----------------------------------------------------------------------------
LEMMA MapInvariant == MapSpec => []MapInv
BY MapStart, MapStep, PTL DEF MapSpec

(* After create and after every new peak get_hash answers with the peak's  *)
(* chain at every height, for any files and any swapped database; get_ses  *)
(* finds every summary of that chain while the files were written          *)
(* together, and without files get_ses_heights lists no other.             *)
THEOREM HeightMapCorrect == MapSpec => []HeightMapFollows
<1>1. MapInv => HashesArePath
  BY DEF MapInv, HashesArePath
<1>2. MapInv => SesComplete
  BY DEF MapInv, SesComplete, Complete, Has
<1>3. MapInv => SesExactWithoutFiles
  BY DEF MapInv
<1>4. MapInv => HeightMapFollows
  BY <1>1, <1>2, <1>3 DEF HeightMapFollows
<1>5. QED BY <1>4, MapInvariant, PTL
=============================================================================
