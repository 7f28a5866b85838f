--------------------------- MODULE BlockTreeProofs ---------------------------
EXTENDS BlockTree, WellFoundedInduction, TLAPS

(* Every set of naturals that is not empty has a least element.            *)
LEMMA LeastNat ==
    ASSUME NEW T, T \subseteq Nat, T # {}
    PROVE  \E n \in T : \A m \in T : n <= m
<1> DEFINE R == OpToRel(<, Nat)
<1>1. IsWellFoundedOn(R, Nat)
  BY NatLessThanWellFounded
<1> HIDE DEF R
<1>2. \E x \in T : \A y \in T : ~ (<<y, x>> \in R)
  BY <1>1, WFMin
<1>3. PICK x \in T : \A y \in T : ~ (<<y, x>> \in R)
  BY <1>2
<1>4. ASSUME NEW y \in T PROVE x <= y
  <2>1. CASE y < x
    <3>1. <<y, x>> \in R
      BY <2>1 DEF R, OpToRel
    <3>2. QED BY <3>1, <1>3
  <2>2. CASE ~ (y < x)
    BY <2>2
  <2>3. QED BY <2>1, <2>2
<1>5. QED BY <1>4

(* Heights grow along a path, and a path contains the paths of its blocks. *)
LEMMA AncBelow ==
    \A b \in Block : \A a \in Anc[b] :
        /\ a \in Block
        /\ Height[a] <= Height[b]
        /\ Height[a] = Height[b] => a = b
        /\ Anc[a] \subseteq Anc[b]
        /\ b \in Anc[b]
<1> DEFINE Good(b) == \A a \in Anc[b] :
               /\ a \in Block
               /\ Height[a] <= Height[b]
               /\ Height[a] = Height[b] => a = b
               /\ Anc[a] \subseteq Anc[b]
               /\ b \in Anc[b]
           T == {Height[b] : b \in {x \in Block : ~Good(x)}}
<1>1. SUFFICES ASSUME T # {} PROVE FALSE
  OBVIOUS
<1>2. T \subseteq Nat
  BY BlockAssumption
<1> HIDE DEF Good, T
<1>3. PICK n \in T : \A m \in T : n <= m
  BY <1>1, <1>2, LeastNat
<1>4. PICK b \in Block : Height[b] = n /\ ~Good(b)
  BY <1>3 DEF T
<1>5. CASE Parent[b] = NoBlock
  BY <1>4, <1>5, TreeAssumption, BlockAssumption DEF Good
<1>6. CASE Parent[b] # NoBlock
  <2>1. Parent[b] \in Block /\ Height[Parent[b]] < n
    BY <1>4, <1>6, TreeAssumption, BlockAssumption
  <2>2. Good(Parent[b])
    <3>1. Height[Parent[b]] \notin T
      BY <2>1, <1>3, <1>2
    <3>2. QED BY <3>1, <2>1 DEF T
  <2>3. Good(b)
    BY <2>1, <2>2, <1>6, <1>4, TreeAssumption, BlockAssumption DEF Good
  <2>4. QED BY <2>3, <1>4
<1>7. QED BY <1>5, <1>6

(* A path is a chain: of two of its blocks the lower is below the higher,  *)
(* and a height has one block.                                             *)
LEMMA AncLinear ==
    \A b \in Block : \A a, c \in Anc[b] :
        /\ Height[a] <= Height[c] => a \in Anc[c]
        /\ Height[a] = Height[c] => a = c
<1> DEFINE Good(b) == \A a, c \in Anc[b] : Height[a] <= Height[c] => a \in Anc[c]
           T == {Height[b] : b \in {x \in Block : ~Good(x)}}
<1>1. T = {}
  <2>1. SUFFICES ASSUME T # {} PROVE FALSE
    OBVIOUS
  <2>2. T \subseteq Nat
    BY BlockAssumption
  <2> HIDE DEF Good, T
  <2>3. PICK n \in T : \A m \in T : n <= m
    BY <2>1, <2>2, LeastNat
  <2>4. PICK b \in Block : Height[b] = n /\ ~Good(b)
    BY <2>3 DEF T
  <2>5. CASE Parent[b] = NoBlock
    BY <2>4, <2>5, TreeAssumption, BlockAssumption DEF Good
  <2>6. CASE Parent[b] # NoBlock
    <3>1. Parent[b] \in Block /\ Height[Parent[b]] < n
      BY <2>4, <2>6, TreeAssumption, BlockAssumption
    <3>2. Good(Parent[b])
      <4>1. Height[Parent[b]] \notin T
        BY <3>1, <2>3, <2>2
      <4>2. QED BY <4>1, <3>1 DEF T
    <3>3. Anc[b] = {b} \cup Anc[Parent[b]]
      BY <2>4, <2>6, TreeAssumption
    <3>4. ASSUME NEW a \in Anc[b], NEW c \in Anc[b], Height[a] <= Height[c]
          PROVE  a \in Anc[c]
      <4>1. CASE c = b
        BY <4>1
      <4>2. CASE c # b
        <5>1. Height[c] <= Height[Parent[b]]
          BY <3>1, <3>3, <4>2, AncBelow
        <5>2. Height[b] = Height[Parent[b]] + 1
          BY <2>4, <2>6, TreeAssumption
        <5>3. a # b
          BY <5>1, <5>2, <3>4, <3>1, BlockAssumption, AncBelow
        <5>4. QED BY <5>3, <4>2, <3>2, <3>3, <3>4 DEF Good
      <4>3. QED BY <4>1, <4>2
    <3>5. QED BY <3>4, <2>4 DEF Good
  <2>7. QED BY <2>5, <2>6
<1>2. ASSUME NEW b \in Block, NEW a \in Anc[b], NEW c \in Anc[b]
      PROVE  /\ Height[a] <= Height[c] => a \in Anc[c]
             /\ Height[a] = Height[c] => a = c
  <2>1. Height[a] <= Height[c] => a \in Anc[c]
    BY <1>1
  <2>2. QED BY <2>1, AncBelow, BlockAssumption
<1>3. QED BY <1>2

(* A path has a block at every height up to its end.                       *)
LEMMA AncDense ==
    \A b \in Block : \A h \in 0..Height[b] : \E a \in Anc[b] : Height[a] = h
<1> DEFINE Good(b) == \A h \in 0..Height[b] : \E a \in Anc[b] : Height[a] = h
           T == {Height[b] : b \in {x \in Block : ~Good(x)}}
<1>1. SUFFICES ASSUME T # {} PROVE FALSE
  OBVIOUS
<1>2. T \subseteq Nat
  BY BlockAssumption
<1> HIDE DEF Good, T
<1>3. PICK n \in T : \A m \in T : n <= m
  BY <1>1, <1>2, LeastNat
<1>4. PICK b \in Block : Height[b] = n /\ ~Good(b)
  BY <1>3 DEF T
<1>5. CASE Parent[b] = NoBlock
  BY <1>4, <1>5, TreeAssumption, BlockAssumption DEF Good
<1>6. CASE Parent[b] # NoBlock
  <2>1. Parent[b] \in Block /\ Height[Parent[b]] < n
    BY <1>4, <1>6, TreeAssumption, BlockAssumption
  <2>2. Good(Parent[b])
    <3>1. Height[Parent[b]] \notin T
      BY <2>1, <1>3, <1>2
    <3>2. QED BY <3>1, <2>1 DEF T
  <2>3. Good(b)
    BY <2>1, <2>2, <1>6, <1>4, TreeAssumption, BlockAssumption DEF Good
  <2>4. QED BY <2>3, <1>4
<1>7. QED BY <1>5, <1>6

(* Below a block on it, a path is that block's own path.                   *)
LEMMA PathBelow ==
    \A b \in Block : \A a \in Anc[b] :
        Anc[a] = {x \in Anc[b] : Height[x] <= Height[a]}
BY AncBelow, AncLinear

(* A set of naturals with a bound has a greatest element.                  *)
LEMMA GreatestNat ==
    ASSUME NEW S, S \subseteq Nat, S # {}, NEW n \in Nat, \A k \in S : k <= n
    PROVE  \E h \in S : \A k \in S : k <= h
<1> DEFINE T == {n - k : k \in S}
<1>1. T \subseteq Nat /\ T # {}
  OBVIOUS
<1>2. PICK m \in T : \A x \in T : m <= x
  BY <1>1, LeastNat
<1>3. PICK h \in S : m = n - h
  OBVIOUS
<1>4. ASSUME NEW k \in S PROVE k <= h
  <2>1. m <= n - k
    BY <1>2
  <2>2. QED BY <2>1, <1>3
<1>5. QED BY <1>4

(* find_fork_point_in_chain answers -1 only for chains that share nothing, *)
(* and otherwise the height of a shared block.                             *)
LEMMA ForkHeightShared ==
    ASSUME NEW p \in Block, NEW q \in Block
    PROVE  \/ ForkHeight(p, q) = -1 /\ Anc[p] \cap Anc[q] = {}
           \/ /\ ForkHeight(p, q) \in Nat
              /\ \E a \in Anc[p] \cap Anc[q] : Height[a] = ForkHeight(p, q)
              /\ \A a \in Anc[p] \cap Anc[q] : Height[a] <= ForkHeight(p, q)
<1> DEFINE S == SharedHeights(p, q)
<1>1. S = {Height[a] : a \in Anc[p] \cap Anc[q]}
  BY NoBlockAssumption DEF SharedHeights, Path
<1>2. S \subseteq Nat /\ \A k \in S : k <= Height[p]
  BY <1>1, AncBelow, BlockAssumption
<1>3. CASE S = {}
  BY <1>1, <1>3 DEF ForkHeight
<1>4. CASE S # {}
  <2>1. \E h \in S : \A k \in S : k <= h
    <3>1. Height[p] \in Nat
      BY BlockAssumption
    <3>2. QED BY <1>2, <1>4, <3>1, GreatestNat
  <2>2. ForkHeight(p, q) = CHOOSE h \in S : \A k \in S : k <= h
    BY <1>4 DEF ForkHeight
  <2>3. ForkHeight(p, q) \in S /\ \A k \in S : k <= ForkHeight(p, q)
    BY <2>1, <2>2
  <2>4. QED BY <2>3, <1>1, <1>2
<1>5. QED BY <1>3, <1>4

(* Facts about paths in the form the steps below use.                      *)
LEMMA PathFacts ==
    /\ \A p \in Block \cup {NoBlock} : \A a \in Path(p) :
          a \in Block /\ Height[a] \in Nat /\ Path(a) \subseteq Path(p)
    /\ \A b \in Block : /\ Parent[b] \in Block \cup {NoBlock}
                        /\ Path(b) = {b} \cup Path(Parent[b])
                        /\ Height[b] \in Nat
                        /\ Parent[b] = NoBlock <=> Height[b] = 0
    /\ Path(NoBlock) = {}
<1>1. \A p \in Block \cup {NoBlock} : \A a \in Path(p) :
          a \in Block /\ Height[a] \in Nat /\ Path(a) \subseteq Path(p)
  <2>1. SUFFICES ASSUME NEW p \in Block, NEW a \in Anc[p]
        PROVE  a \in Block /\ Height[a] \in Nat /\ Path(a) \subseteq Anc[p]
    BY NoBlockAssumption DEF Path
  <2>2. QED BY AncBelow, NoBlockAssumption, BlockAssumption DEF Path
<1>2. \A b \in Block : /\ Parent[b] \in Block \cup {NoBlock}
                       /\ Path(b) = {b} \cup Path(Parent[b])
                       /\ Height[b] \in Nat
                       /\ Parent[b] = NoBlock <=> Height[b] = 0
  <2> SUFFICES ASSUME NEW b \in Block
      PROVE  /\ Parent[b] \in Block \cup {NoBlock}
             /\ Path(b) = {b} \cup Path(Parent[b])
             /\ Height[b] \in Nat
             /\ Parent[b] = NoBlock <=> Height[b] = 0
    OBVIOUS
  <2>1. CASE Parent[b] = NoBlock
    BY <2>1, NoBlockAssumption, BlockAssumption, TreeAssumption DEF Path
  <2>2. CASE Parent[b] # NoBlock
    <3>1. Parent[b] \in Block /\ Height[Parent[b]] \in Nat /\ Height[b] = Height[Parent[b]] + 1
      BY <2>2, BlockAssumption, TreeAssumption
    <3>2. QED BY <2>2, <3>1, NoBlockAssumption, TreeAssumption DEF Path
  <2>3. QED BY <2>1, <2>2
<1>3. QED BY <1>1, <1>2 DEF Path

(* The height map of a chain has the chain's block at each of its heights. *)
LEMMA MapOfAt ==
    ASSUME NEW p \in Block \cup {NoBlock}
    PROVE  /\ DOMAIN MapOf(p) = {Height[a] : a \in Path(p)}
           /\ \A a \in Path(p) : MapOf(p)[Height[a]] = a
<1>1. DOMAIN MapOf(p) = {Height[a] : a \in Path(p)}
  BY DEF MapOf
<1>2. ASSUME NEW a \in Path(p) PROVE MapOf(p)[Height[a]] = a
  <2>1. p \in Block /\ Path(p) = Anc[p]
    BY DEF Path
  <2>2. \A x \in Path(p) : Height[x] = Height[a] => x = a
    BY <2>1, AncLinear
  <2>3. MapOf(p)[Height[a]] = CHOOSE x \in Path(p) : Height[x] = Height[a]
    BY DEF MapOf
  <2>4. QED BY <2>2, <2>3
<1>3. QED BY <1>1, <1>2

(* Two chains are the same up to a block they share.                       *)
LEMMA SharedBelow ==
    ASSUME NEW p \in Block \cup {NoBlock}, NEW q \in Block,
           NEW a \in Path(p) \cap Path(q)
    PROVE  /\ \A x \in Path(p) : Height[x] <= Height[a] => x \in Path(q)
           /\ \A x \in Path(q) : Height[x] <= Height[a] => x \in Path(p)
<1>1. p \in Block /\ Path(p) = Anc[p] /\ Path(q) = Anc[q]
  BY NoBlockAssumption DEF Path
<1>2. /\ Anc[a] = {x \in Path(p) : Height[x] <= Height[a]}
      /\ Anc[a] = {x \in Path(q) : Height[x] <= Height[a]}
  BY <1>1, PathBelow
<1>3. QED BY <1>2
=============================================================================
