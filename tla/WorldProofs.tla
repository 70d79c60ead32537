------------------------------ MODULE WorldProofs ------------------------------
(***************************************************************************)
(* Proofs about the area lists, for any number of edicts and clients, any  *)
(* depth of the area tree and any boxes that the assumption of World       *)
(* allows.  Whatever the programs of the game do, in a walk or between     *)
(* two, the lists stay rings of links and hold no edict that is free; an   *)
(* edict is stored where the walks look for it; and a walk calls every     *)
(* trigger that it owes a call, unless a touch function has unlinked the   *)
(* edict that the walk has saved as the next one.                          *)
(*                                                                         *)
(* The area tree is defined by recursion on its nodes, and its facts are   *)
(* proved by induction on the height of a node.                            *)
(*                                                                         *)
(* The last section is about Pushers, the other part of the server's       *)
(* physics, on grids of any size with any pushers and bodies.              *)
(***************************************************************************)
EXTENDS World, TLAPS, SequenceTheorems, WellFoundedInduction

(* Recursion and induction on the height of what is defined. *)

(* A set of numbers that is not empty has a least one. *)
LEMMA LeastExists ==
    ASSUME NEW S, S \subseteq Nat, S # {}
    PROVE  \E m \in S : \A k \in S : m <= k
<1>1. PICK m \in S : \A k \in S : ~ (<<k, m>> \in OpToRel(<, Nat))
  BY NatLessThanWellFounded, WFMin
<1>2. \A k \in S : ~ (k < m)
  BY <1>1 DEF OpToRel
<1> QED BY <1>2

(* A set that holds every element whose predecessors it holds holds them all. *)
LEMMA RankInduction ==
    ASSUME NEW D, NEW height \in [D -> Nat], NEW P,
           \A n \in D : (\A m \in D : height[m] < height[n] => m \in P) => n \in P
    PROVE  D \subseteq P
<1> SUFFICES ASSUME NEW d \in D, d \notin P PROVE FALSE
  OBVIOUS
<1> DEFINE Out == {height[n] : n \in D \ P}
<1>1. Out \subseteq Nat /\ Out # {}
  OBVIOUS
<1>2. PICK k \in Out : \A j \in Out : k <= j
  BY <1>1, LeastExists
<1>3. PICK n \in D \ P : height[n] = k
  BY <1>2
<1>4. ASSUME NEW m \in D, height[m] < height[n] PROVE m \in P
  <2>1. CASE m \notin P
    <3>1. height[m] \in Out /\ height[m] \in Nat /\ height[n] \in Nat
      BY <2>1
    <3>2. height[n] <= height[m]
      BY <1>2, <1>3, <3>1
    <3> QED BY <1>4, <3>1, <3>2
  <2> QED BY <2>1
<1> QED BY <1>3, <1>4

(* step[n][g] is what a recursive definition says of n if g is the function    *)
(* it defines; it looks only at elements of less height.                       *)
Recursive(D, S, top, height, step) ==
    /\ top \in Nat /\ S # {}
    /\ height \in [D -> 0 .. top]
    /\ step \in [D -> [[D -> S] -> S]]
    /\ \A n \in D : \A g, h \in [D -> S] :
          (\A m \in D : height[m] < height[n] => g[m] = h[m]) => step[n][g] = step[n][h]

(* Such a definition has a solution. *)
LEMMA Recursion ==
    ASSUME NEW D, NEW S, NEW top, NEW height, NEW step,
           Recursive(D, S, top, height, step)
    PROVE  \E g \in [D -> S] : \A n \in D : g[n] = step[n][g]
<1>0. /\ top \in Nat /\ S # {}
      /\ height \in [D -> 0 .. top]
      /\ step \in [D -> [[D -> S] -> S]]
      /\ \A n \in D : \A g, h \in [D -> S] :
            (\A m \in D : height[m] < height[n] => g[m] = h[m]) => step[n][g] = step[n][h]
  BY DEF Recursive
<1> DEFINE Solves(g, k) == \A n \in D : height[n] < k => g[n] = step[n][g]
           Solved == {k \in Nat : \E g \in [D -> S] : Solves(g, k)}
           id == [k \in Nat |-> k]
<1>1. \A n \in D : height[n] \in Nat /\ height[n] < top + 1
  BY <1>0
<1>2. ASSUME NEW k \in Nat, \A j \in Nat : id[j] < id[k] => j \in Solved
      PROVE  k \in Solved
  <2>1. CASE k = 0
    <3>1. PICK s \in S : TRUE
      BY <1>0
    <3>2. [n \in D |-> s] \in [D -> S]
      OBVIOUS
    <3>3. Solves([n \in D |-> s], k)
      BY <1>1, <2>1
    <3> QED BY <3>2, <3>3
  <2>2. CASE k # 0
    <3>1. k - 1 \in Nat
      BY <2>2
    <3>2. id[k - 1] = k - 1 /\ id[k] = k
      BY <3>1
    <3>3. k - 1 \in Solved
      <4> HIDE DEF Solved, id
      <4>1. id[k - 1] < id[k]
        BY <3>2
      <4> QED BY <1>2, <3>1, <4>1
    <3>4. PICK g \in [D -> S] : Solves(g, k - 1)
      BY <3>3
    <3> DEFINE h == [n \in D |-> IF height[n] < k - 1 THEN g[n] ELSE step[n][g]]
    <3>5. h \in [D -> S]
      BY <1>0
    <3>6. ASSUME NEW n \in D, height[n] < k PROVE h[n] = step[n][h]
      <4>1. \A m \in D : height[m] < height[n] => g[m] = h[m]
        BY <1>1, <3>6
      <4>2. step[n][g] = step[n][h]
        <5> HIDE DEF h
        <5> QED BY <1>0, <3>5, <4>1
      <4>3. h[n] = step[n][g]
        BY <1>1, <3>4, <3>6
      <4> QED BY <4>2, <4>3
    <3>7. Solves(h, k)
      BY <3>6
    <3> HIDE DEF h
    <3> QED BY <3>5, <3>7
  <2> QED BY <2>1, <2>2
<1>3. id \in [Nat -> Nat]
  OBVIOUS
<1> HIDE DEF Solved, id
<1>4. Nat \subseteq Solved
  BY <1>2, <1>3, RankInduction
<1>5. top + 1 \in Solved
  BY <1>0, <1>4
<1>6. PICK g \in [D -> S] : Solves(g, top + 1)
  BY <1>5 DEF Solved
<1> QED BY <1>1, <1>6

-----------------------------------------------------------------------------
(* The tree of the area nodes. *)

(* The deepest area nodes are as many as a number greater than 0. *)
LEMMA WidthType == Width[AreaDepth] \in Nat \ {0}
<1> DEFINE D == 0 .. AreaDepth
           S == Nat \ {0}
           height == [d \in D |-> d]
           step == [d \in D |-> [g \in [D -> S] |-> IF d = 0 THEN 1 ELSE 2 * g[d - 1]]]
           Typed == {d \in D : Width[d] \in S}
<1>1. AreaDepth \in Nat
  BY WorldAssumption
<1>2. /\ height \in [D -> 0 .. AreaDepth] /\ height \in [D -> Nat]
      /\ \A d \in D : height[d] = d
  BY <1>1
<1>3. \A d \in D, g \in [D -> S] :
        /\ step[d][g] = IF d = 0 THEN 1 ELSE 2 * g[d - 1]
        /\ d # 0 => d - 1 \in D /\ height[d - 1] < height[d]
  BY <1>1
<1>4. step \in [D -> [[D -> S] -> S]]
  <2>1. ASSUME NEW d \in D, NEW g \in [D -> S]
        PROVE  (IF d = 0 THEN 1 ELSE 2 * g[d - 1]) \in S
    <3>1. d # 0 => g[d - 1] \in S
      BY <1>3
    <3>2. \A k \in S : 2 * k \in S
      OBVIOUS
    <3> QED BY <3>1, <3>2
  <2> QED BY <2>1
<1>5. \A d \in D : \A g, h \in [D -> S] :
        (\A m \in D : height[m] < height[d] => g[m] = h[m])
            => step[d][g] = step[d][h]
  BY <1>3
<1> HIDE DEF height, step
<1>6. PICK g \in [D -> S] : \A d \in D : g[d] = step[d][g]
  <2>1. 1 \in S
    OBVIOUS
  <2> HIDE DEF D, S
  <2>2. Recursive(D, S, AreaDepth, height, step)
    BY <1>1, <1>2, <1>4, <1>5, <2>1 DEF Recursive
  <2> QED BY <2>2, Recursion
<1>7. g = [d \in D |-> IF d = 0 THEN 1 ELSE 2 * g[d - 1]]
  BY <1>3, <1>6
<1>8. Width = [d \in D |-> IF d = 0 THEN 1 ELSE 2 * Width[d - 1]]
  BY <1>7, Zenon DEF Width
<1>9. ASSUME NEW d \in D, \A m \in D : height[m] < height[d] => m \in Typed
      PROVE  d \in Typed
  <2>1. Width[d] = IF d = 0 THEN 1 ELSE 2 * Width[d - 1]
    BY <1>8
  <2>2. CASE d = 0
    BY <2>1, <2>2
  <2>3. CASE d # 0
    <3>1. d - 1 \in D /\ height[d - 1] < height[d]
      BY <1>1, <1>2, <2>3
    <3>2. Width[d - 1] \in S
      BY <1>9, <3>1
    <3> QED BY <2>1, <2>3, <3>2
  <2> QED BY <2>2, <2>3
<1> HIDE DEF Typed, D
<1>10. D \subseteq Typed
  BY <1>2, <1>9, RankInduction
<1> QED BY <1>1, <1>10 DEF Typed, D

(* The numbers of the nodes: a node that is no leaf has two children, of      *)
(* higher numbers, and one that is not the root has a parent of a lower one.  *)
Top == 2 * Width[AreaDepth] - 1
Inner == {n \in Nodes : ~ Leaf(n)}

LEMMA NodeFacts ==
    /\ Top \in Nat /\ 1 \in Nodes
    /\ \A n \in Nodes : /\ n \in Nat /\ Top - n \in 0 .. Top /\ n \in 0 .. Top
                        /\ n # 1 => n \div 2 \in Nodes /\ n \div 2 < n
    /\ \A n \in Inner, s \in {0, 1} : Child(n, s) \in Nodes /\ Top - Child(n, s) < Top - n
<1> DEFINE w == Width[AreaDepth]
<1>1. w \in Nat \ {0}
  BY WidthType
<1>2. Nodes = 1 .. 2 * w - 1 /\ Top = 2 * w - 1 /\ \A n : Leaf(n) <=> n >= w
  BY DEF Nodes, Top, Leaf
<1> HIDE DEF w
<1>3. ASSUME NEW n \in Nodes, n # 1 PROVE n \div 2 \in Nodes /\ n \div 2 < n
  BY <1>1, <1>2, <1>3
<1>4. ASSUME NEW n \in Inner, NEW s \in {0, 1}
      PROVE  Child(n, s) \in Nodes /\ Top - Child(n, s) < Top - n
  BY <1>1, <1>2 DEF Inner, Child
<1> QED BY <1>1, <1>2, <1>3, <1>4

(* The part of the axis a node covers is an interval of whole numbers. *)
LEMMA DistType == \A n \in Nodes : Dist[n] \in Int
<1> DEFINE S == [lo : Int, hi : Int]
           Root == [lo |-> 0, hi |-> WorldSize]
           Half(p, n) == LET middle == (p.lo + p.hi) \div 2
                         IN  IF n % 2 = 0 THEN [lo |-> middle, hi |-> p.hi]
                             ELSE [lo |-> p.lo, hi |-> middle]
           height == [n \in Nodes |-> n]
           step == [n \in Nodes |-> [g \in [Nodes -> S] |->
                       IF n = 1 THEN Root ELSE Half(g[n \div 2], n)]]
           Typed == {n \in Nodes : Extent[n] \in S}
<1>1. Root \in S
  BY WorldAssumption
<1>2. \A p \in S, n \in Nodes : Half(p, n) \in S
  OBVIOUS
<1>3. /\ height \in [Nodes -> 0 .. Top] /\ height \in [Nodes -> Nat]
      /\ \A n \in Nodes : height[n] = n
  BY NodeFacts
<1>4. \A n \in Nodes : n # 1 => n \div 2 \in Nodes /\ height[n \div 2] < height[n]
  BY NodeFacts
<1> HIDE DEF Root, Half, S, height
<1>5. \A n \in Nodes, g \in [Nodes -> S] :
        step[n][g] = IF n = 1 THEN Root ELSE Half(g[n \div 2], n)
  OBVIOUS
<1>6. step \in [Nodes -> [[Nodes -> S] -> S]]
  <2>1. ASSUME NEW n \in Nodes, NEW g \in [Nodes -> S]
        PROVE  (IF n = 1 THEN Root ELSE Half(g[n \div 2], n)) \in S
    <3>1. CASE n = 1
      BY <1>1, <3>1
    <3>2. CASE n # 1
      <4>1. g[n \div 2] \in S
        BY <1>4, <3>2
      <4> QED BY <1>2, <3>2, <4>1
    <3> QED BY <3>1, <3>2
  <2> QED BY <2>1
<1> HIDE DEF step
<1>7. \A n \in Nodes : \A g, h \in [Nodes -> S] :
        (\A m \in Nodes : height[m] < height[n] => g[m] = h[m]) => step[n][g] = step[n][h]
  BY <1>4, <1>5
<1>8. PICK g \in [Nodes -> S] : \A n \in Nodes : g[n] = step[n][g]
  <2>1. S # {} /\ Top \in Nat
    BY <1>1, NodeFacts
  <2>2. Recursive(Nodes, S, Top, height, step)
    BY <1>3, <1>6, <1>7, <2>1 DEF Recursive
  <2> QED BY <2>2, Recursion
<1>9. g = [n \in Nodes |-> IF n = 1 THEN Root ELSE Half(g[n \div 2], n)]
  BY <1>5, <1>8
<1>10. Extent = [n \in Nodes |-> IF n = 1 THEN Root ELSE Half(Extent[n \div 2], n)]
  BY <1>9, Zenon DEF Extent, Root, Half
<1>11. ASSUME NEW n \in Nodes, \A m \in Nodes : height[m] < height[n] => m \in Typed
       PROVE  n \in Typed
  <2>1. Extent[n] = IF n = 1 THEN Root ELSE Half(Extent[n \div 2], n)
    BY <1>10
  <2>2. CASE n = 1
    BY <1>1, <2>1, <2>2
  <2>3. CASE n # 1
    <3>1. Extent[n \div 2] \in S
      BY <1>4, <1>11, <2>3
    <3> QED BY <1>2, <2>1, <2>3, <3>1
  <2> QED BY <2>2, <2>3
<1> HIDE DEF Typed
<1>12. Nodes \subseteq Typed
  BY <1>3, <1>11, RankInduction
<1> QED BY <1>12 DEF Typed, S, Dist

(* One step of that loop. *)
DescentStep(b, n, first) ==
    IF Leaf(n) THEN n
    ELSE IF Above(b, n) THEN first[Child(n, 0)]
    ELSE IF Below(b, n) THEN first[Child(n, 1)]
    ELSE n

(* The loop of SV_LinkEdict ends at a node of the tree, wherever it starts. *)
LEMMA DescentFacts ==
    ASSUME NEW b
    PROVE  \A n \in Nodes : /\ Descent(b)[n] \in Nodes
                            /\ Descent(b)[n] = DescentStep(b, n, Descent(b))
<1> DEFINE height == [n \in Nodes |-> Top - n]
           step == [n \in Nodes |-> [g \in [Nodes -> Nodes] |-> DescentStep(b, n, g)]]
           Typed == {n \in Nodes : Descent(b)[n] \in Nodes}
<1>1. /\ height \in [Nodes -> 0 .. Top] /\ height \in [Nodes -> Nat]
      /\ \A n \in Nodes : height[n] = Top - n
  <2>1. \A n \in Nodes : Top - n \in 0 .. Top /\ Top - n \in Nat
    BY NodeFacts
  <2> QED BY <2>1
<1>2. \A n \in Nodes : ~ Leaf(n) =>
        \A s \in {0, 1} : Child(n, s) \in Nodes /\ height[Child(n, s)] < height[n]
  <2> SUFFICES ASSUME NEW n \in Nodes, ~ Leaf(n), NEW s \in {0, 1}
               PROVE  Child(n, s) \in Nodes /\ height[Child(n, s)] < height[n]
    OBVIOUS
  <2>1. Child(n, s) \in Nodes /\ Top - Child(n, s) < Top - n
    BY NodeFacts DEF Inner
  <2> QED BY <1>1, <2>1
<1> HIDE DEF height
<1>3. \A n \in Nodes, g \in [Nodes -> Nodes] : step[n][g] = DescentStep(b, n, g)
  OBVIOUS
<1>4. step \in [Nodes -> [[Nodes -> Nodes] -> Nodes]]
  <2>1. ASSUME NEW n \in Nodes, NEW g \in [Nodes -> Nodes]
        PROVE  DescentStep(b, n, g) \in Nodes
    <3>1. ~ Leaf(n) => g[Child(n, 0)] \in Nodes /\ g[Child(n, 1)] \in Nodes
      BY <1>2
    <3> QED BY <3>1 DEF DescentStep
  <2> QED BY <2>1
<1> HIDE DEF step
<1>5. \A n \in Nodes : \A g, h \in [Nodes -> Nodes] :
        (\A m \in Nodes : height[m] < height[n] => g[m] = h[m]) => step[n][g] = step[n][h]
  <2> SUFFICES ASSUME NEW n \in Nodes, NEW g \in [Nodes -> Nodes], NEW h \in [Nodes -> Nodes],
                      \A m \in Nodes : height[m] < height[n] => g[m] = h[m]
               PROVE  step[n][g] = step[n][h]
    OBVIOUS
  <2>1. ~ Leaf(n) => g[Child(n, 0)] = h[Child(n, 0)] /\ g[Child(n, 1)] = h[Child(n, 1)]
    BY <1>2
  <2>2. DescentStep(b, n, g) = DescentStep(b, n, h)
    BY <2>1 DEF DescentStep
  <2> QED BY <1>3, <2>2
<1>6. PICK g \in [Nodes -> Nodes] : \A n \in Nodes : g[n] = step[n][g]
  <2>1. Nodes # {} /\ Top \in Nat
    BY NodeFacts
  <2>2. Recursive(Nodes, Nodes, Top, height, step)
    BY <1>1, <1>4, <1>5, <2>1 DEF Recursive
  <2> QED BY <2>2, Recursion
<1>7. g = [n \in Nodes |-> DescentStep(b, n, g)]
  BY <1>3, <1>6
<1>8. Descent(b) = [n \in Nodes |-> DescentStep(b, n, Descent(b))]
  BY <1>7, Zenon DEF Descent, DescentStep
<1>9. \A n \in Nodes : Descent(b)[n] = DescentStep(b, n, Descent(b))
  BY <1>8
<1>10. ASSUME NEW n \in Nodes, \A m \in Nodes : height[m] < height[n] => m \in Typed
       PROVE  n \in Typed
  <2>1. ~ Leaf(n) => Descent(b)[Child(n, 0)] \in Nodes /\ Descent(b)[Child(n, 1)] \in Nodes
    BY <1>2, <1>10
  <2> QED BY <1>9, <2>1 DEF DescentStep
<1> HIDE DEF Typed
<1>11. Nodes \subseteq Typed
  BY <1>1, <1>10, RankInduction
<1> QED BY <1>9, <1>11 DEF Typed

(* One step of a walk. *)
WalkStep(b, n, from) ==
    {n} \cup IF Leaf(n) THEN {}
             ELSE UNION {from[Child(n, s)] : s \in {s \in {0, 1} : GoesDown(b, n, s)}}

(* The nodes that a walk reaches from a node on. *)
LEMMA WalkFacts ==
    ASSUME NEW b
    PROVE  \A n \in Nodes : Walks(b)[n] = WalkStep(b, n, Walks(b))
<1> DEFINE S == SUBSET Nodes
           height == [n \in Nodes |-> Top - n]
           step == [n \in Nodes |-> [g \in [Nodes -> S] |-> WalkStep(b, n, g)]]
<1>1. /\ height \in [Nodes -> 0 .. Top]
      /\ \A n \in Nodes : height[n] = Top - n
  BY NodeFacts
<1>2. \A n \in Nodes : ~ Leaf(n) =>
        \A s \in {0, 1} : Child(n, s) \in Nodes /\ height[Child(n, s)] < height[n]
  <2> SUFFICES ASSUME NEW n \in Nodes, ~ Leaf(n), NEW s \in {0, 1}
               PROVE  Child(n, s) \in Nodes /\ height[Child(n, s)] < height[n]
    OBVIOUS
  <2>1. Child(n, s) \in Nodes /\ Top - Child(n, s) < Top - n
    BY NodeFacts DEF Inner
  <2> QED BY <1>1, <2>1
<1> HIDE DEF height
<1>3. \A n \in Nodes, g \in [Nodes -> S] : step[n][g] = WalkStep(b, n, g)
  OBVIOUS
<1>4. step \in [Nodes -> [[Nodes -> S] -> S]]
  <2>1. ASSUME NEW n \in Nodes, NEW g \in [Nodes -> S]
        PROVE  WalkStep(b, n, g) \in S
    <3>1. ~ Leaf(n) => \A s \in {0, 1} : g[Child(n, s)] \in S
      BY <1>2
    <3> QED BY <3>1 DEF WalkStep
  <2> QED BY <2>1
<1> HIDE DEF step
<1>5. \A n \in Nodes : \A g, h \in [Nodes -> S] :
        (\A m \in Nodes : height[m] < height[n] => g[m] = h[m]) => step[n][g] = step[n][h]
  <2> SUFFICES ASSUME NEW n \in Nodes, NEW g \in [Nodes -> S], NEW h \in [Nodes -> S],
                      \A m \in Nodes : height[m] < height[n] => g[m] = h[m]
               PROVE  step[n][g] = step[n][h]
    OBVIOUS
  <2>1. ~ Leaf(n) => \A s \in {0, 1} : g[Child(n, s)] = h[Child(n, s)]
    BY <1>2
  <2>2. WalkStep(b, n, g) = WalkStep(b, n, h)
    BY <2>1 DEF WalkStep
  <2> QED BY <1>3, <2>2
<1>6. PICK g \in [Nodes -> S] : \A n \in Nodes : g[n] = step[n][g]
  <2>1. S # {} /\ Top \in Nat
    BY NodeFacts
  <2> HIDE DEF S
  <2>2. Recursive(Nodes, S, Top, height, step)
    BY <1>1, <1>4, <1>5, <2>1 DEF Recursive
  <2> QED BY <2>2, Recursion
<1>7. g = [n \in Nodes |-> WalkStep(b, n, g)]
  BY <1>3, <1>6
<1>8. Walks(b) = [n \in Nodes |-> WalkStep(b, n, Walks(b))]
  BY <1>7, Zenon DEF Walks, WalkStep
<1> QED BY <1>8

(* Two boxes that meet: what SV_LinkEdict takes for one side of a plane, the  *)
(* walks go down to.                                                          *)
Toward(c, n, s) == IF s = 0 THEN Above(c, n) ELSE Below(c, n)
Whole == [lo : Int, hi : Int]

LEMMA SideFacts ==
    ASSUME NEW b \in Whole, NEW c \in Whole, Overlap(b, c),
           NEW n \in Nodes, NEW s \in {0, 1}, Toward(c, n, s)
    PROVE  GoesDown(b, n, s)
<1>1. Dist[n] \in Int /\ b.lo \in Int /\ b.hi \in Int /\ c.lo \in Int /\ c.hi \in Int
  BY DistType DEF Whole
<1>2. b.lo <= c.hi /\ c.lo <= b.hi
  BY <1>1 DEF Overlap
<1> QED BY <1>1, <1>2 DEF Toward, Above, Below, GoesDown

(* The descent ends at a node or goes on at the child it is toward. *)
LEMMA Branch ==
    ASSUME NEW c, NEW n \in Nodes
    PROVE  \/ Descent(c)[n] = n
           \/ /\ n \in Inner
              /\ \E s \in {0, 1} : Toward(c, n, s) /\ Descent(c)[n] = Descent(c)[Child(n, s)]
<1>1. Descent(c)[n] = DescentStep(c, n, Descent(c))
  BY DescentFacts
<1> QED BY <1>1 DEF DescentStep, Toward, Inner

(* A walk for a box reaches the node of every box that it meets. *)
LEMMA WalkReaches ==
    ASSUME NEW b \in Whole, NEW c \in Whole, Overlap(b, c)
    PROVE  FirstCrossed(c) \in Walks(b)[1]
<1> DEFINE height == [n \in Nodes |-> Top - n]
           Found == {n \in Nodes : Descent(c)[n] \in Walks(b)[n]}
<1>1. /\ height \in [Nodes -> Nat]
      /\ \A n \in Nodes : height[n] = Top - n
  BY NodeFacts
<1>2. \A n \in Inner, s \in {0, 1} : Child(n, s) \in Nodes /\ height[Child(n, s)] < height[n]
  <2> SUFFICES ASSUME NEW n \in Inner, NEW s \in {0, 1}
               PROVE  Child(n, s) \in Nodes /\ height[Child(n, s)] < height[n]
    OBVIOUS
  <2>1. Child(n, s) \in Nodes /\ Top - Child(n, s) < Top - n
    BY NodeFacts
  <2> QED BY <1>1, <2>1 DEF Inner
<1> HIDE DEF height
<1>3. ASSUME NEW n \in Nodes, \A m \in Nodes : height[m] < height[n] => m \in Found
      PROVE  n \in Found
  <2>1. Walks(b)[n] = WalkStep(b, n, Walks(b))
    BY WalkFacts
  <2>2. CASE Descent(c)[n] = n
    BY <2>1, <2>2 DEF WalkStep
  <2>3. CASE Descent(c)[n] # n
    <3>1. PICK s \in {0, 1} : Toward(c, n, s) /\ Descent(c)[n] = Descent(c)[Child(n, s)]
      BY <2>3, Branch
    <3>2. n \in Inner
      BY <2>3, Branch
    <3>3. GoesDown(b, n, s)
      BY <3>1, SideFacts
    <3>4. Descent(c)[Child(n, s)] \in Walks(b)[Child(n, s)]
      BY <1>2, <1>3, <3>2
    <3>5. Walks(b)[Child(n, s)] \subseteq Walks(b)[n]
      BY <2>1, <3>2, <3>3 DEF WalkStep, Inner
    <3> QED BY <3>1, <3>4, <3>5
  <2> QED BY <2>2, <2>3
<1> HIDE DEF Found
<1>4. Nodes \subseteq Found
  BY <1>1, <1>3, RankInduction
<1>5. 1 \in Found
  BY <1>4, NodeFacts
<1> QED BY <1>5 DEF Found, FirstCrossed

(* SV_LinkEdict finds a node for every box. *)
LEMMA NodeForFacts ==
    \A b \in Boxes : NodeFor[b] \in Nodes /\ NodeFor[b] = Descent(b)[1]
<1> SUFFICES ASSUME NEW b \in Boxes
             PROVE  NodeFor[b] \in Nodes /\ NodeFor[b] = Descent(b)[1]
  OBVIOUS
<1>1. NodeFor[b] = Descent(b)[1]
  BY DEF NodeFor, FirstCrossed
<1>2. Descent(b)[1] \in Nodes
  BY DescentFacts, NodeFacts
<1> QED BY <1>1, <1>2

-----------------------------------------------------------------------------
(* The links. *)

Pairs == [next : [Links -> Links \cup {NULL}], prev : [Links -> Links \cup {NULL}]]
Lists == [Edicts -> Anchors \cup {NULL}]
Put(on, e, v) == [on EXCEPT ![e] = v]

(* The link of an edict is no anchor, and stands for that edict. *)
LEMMA LinkFacts ==
    ASSUME NEW e \in Edicts
    PROVE  /\ Link(e) \in Links /\ Link(e) \notin Anchors
           /\ EdictOf(Link(e)) = e
BY DEF Link, Links, EdictLinks, Anchors, ListKinds, EdictOf

(* Giving e another list changes the list of its own link only. *)
LEMMA ListOfExcept ==
    ASSUME NEW on \in Lists, NEW e \in Edicts, NEW v,
           NEW new, new = Put(on, e, v)
    PROVE  \A x \in Links : ListOf(x, new) = IF x = Link(e) THEN v ELSE ListOf(x, on)
<1> SUFFICES ASSUME NEW x \in Links
             PROVE  ListOf(x, new) = IF x = Link(e) THEN v ELSE ListOf(x, on)
  OBVIOUS
<1>1. CASE x \in Anchors
  BY <1>1, LinkFacts DEF ListOf
<1>2. CASE x \notin Anchors
  <2>1. PICK f \in Edicts : x = Link(f)
    BY <1>2 DEF Links, EdictLinks, Link
  <2>2. EdictOf(x) = f /\ (x = Link(e) <=> f = e)
    BY <2>1, LinkFacts
  <2> QED BY <1>2, <2>2 DEF ListOf, Lists, Put
<1> QED BY <1>1, <1>2

(* SV_UnlinkEdict leaves sound lists sound, and the edict in none. *)
LEMMA UnlinkSound ==
    ASSUME NEW a \in Pairs, NEW on \in Lists, Sound(a, on), NEW e \in Edicts,
           NEW b, b = Unlinked(a, Link(e)),
           NEW new, new = Put(on, e, NULL)
    PROVE  b \in Pairs /\ new \in Lists /\ Sound(b, new)
<1> DEFINE x == Link(e)
           p == a.prev[x]
           q == a.next[x]
<1>1. x \in Links /\ NULL \notin Links /\ new \in Lists
  BY LinkFacts, WorldAssumption DEF Lists, Put
<1>2. \A y \in Links : ListOf(y, new) = IF y = x THEN NULL ELSE ListOf(y, on)
  BY ListOfExcept
<1>3. \A y \in Links :
        IF ListOf(y, on) = NULL THEN a.next[y] = NULL /\ a.prev[y] = NULL
        ELSE /\ a.next[y] \in Links /\ a.prev[a.next[y]] = y
             /\ a.prev[y] \in Links /\ a.next[a.prev[y]] = y
             /\ ListOf(a.next[y], on) = ListOf(y, on)
             /\ ListOf(a.prev[y], on) = ListOf(y, on)
  BY DEF Sound
<1> HIDE DEF x
<1>4. CASE p = NULL
  <2>1. b = a
    BY <1>4, Zenon DEF Unlinked, x
  <2>2. ListOf(x, on) = NULL
    BY <1>1, <1>3, <1>4
  <2> QED BY <1>1, <1>2, <1>3, <2>1, <2>2 DEF Sound
<1>5. CASE p # NULL
  <2>1. /\ p \in Links /\ q \in Links /\ a.prev[q] = x /\ a.next[p] = x
        /\ ListOf(x, on) # NULL
        /\ ListOf(p, on) = ListOf(x, on) /\ ListOf(q, on) = ListOf(x, on)
    BY <1>1, <1>3, <1>5
  <2>2. b = [next |-> [a.next EXCEPT ![p] = q, ![x] = NULL],
             prev |-> [a.prev EXCEPT ![q] = p, ![x] = NULL]]
    BY <1>5 DEF Unlinked, x
  <2>3. /\ a.next \in [Links -> Links \cup {NULL}] /\ a.prev \in [Links -> Links \cup {NULL}]
    BY DEF Pairs
  <2>4. \A y \in Links :
          /\ b.next[y] = IF y = x THEN NULL ELSE IF y = p THEN q ELSE a.next[y]
          /\ b.prev[y] = IF y = x THEN NULL ELSE IF y = q THEN p ELSE a.prev[y]
    BY <2>2, <2>3
  <2>5. b \in Pairs
    BY <2>1, <2>2, <2>3, <1>1 DEF Pairs
  <2>6. ASSUME NEW y \in Links
        PROVE  IF ListOf(y, new) = NULL THEN b.next[y] = NULL /\ b.prev[y] = NULL
               ELSE /\ b.next[y] \in Links /\ b.prev[b.next[y]] = y
                    /\ b.prev[y] \in Links /\ b.next[b.prev[y]] = y
                    /\ ListOf(b.next[y], new) = ListOf(y, new)
                    /\ ListOf(b.prev[y], new) = ListOf(y, new)
    <3> HIDE DEF p, q
    <3>1. CASE y = x
      BY <3>1, <1>2, <2>4
    <3>2. CASE y # x /\ ListOf(y, on) = NULL
      BY <3>2, <1>2, <1>3, <2>1, <2>4
    <3>3. CASE y # x /\ ListOf(y, on) # NULL
      <4>1. /\ a.next[y] \in Links /\ a.prev[a.next[y]] = y
            /\ a.prev[y] \in Links /\ a.next[a.prev[y]] = y
            /\ ListOf(a.next[y], on) = ListOf(y, on)
            /\ ListOf(a.prev[y], on) = ListOf(y, on)
        BY <3>3, <1>3
      <4>2. /\ a.prev[x] = p /\ a.next[x] = q
        BY DEF p, q
      <4>3. /\ b.next[y] \in Links /\ b.next[y] # x /\ b.prev[b.next[y]] = y
            /\ ListOf(b.next[y], on) = ListOf(y, on)
        BY <3>3, <4>1, <4>2, <2>1, <2>4, <1>1
      <4>4. /\ b.prev[y] \in Links /\ b.prev[y] # x /\ b.next[b.prev[y]] = y
            /\ ListOf(b.prev[y], on) = ListOf(y, on)
        BY <3>3, <4>1, <4>2, <2>1, <2>4, <1>1
      <4> QED BY <3>3, <4>3, <4>4, <1>2
    <3> QED BY <3>1, <3>2, <3>3
  <2> QED BY <1>1, <2>5, <2>6 DEF Sound
<1> QED BY <1>4, <1>5

(* InsertLinkBefore puts an edict that is in no list into one. *)
LEMMA InsertSound ==
    ASSUME NEW a \in Pairs, NEW on \in Lists, Sound(a, on), NEW e \in Edicts,
           on[e] = NULL, NEW before \in Anchors,
           NEW b, b = InsertedBefore(a, Link(e), before),
           NEW new, new = Put(on, e, before)
    PROVE  b \in Pairs /\ new \in Lists /\ Sound(b, new)
<1> DEFINE x == Link(e)
           p == a.prev[before]
<1>1. /\ x \in Links /\ x # before /\ before \in Links /\ NULL \notin Links
      /\ new \in Lists
  BY LinkFacts, WorldAssumption DEF Lists, Links, Put
<1>2. \A y \in Links : ListOf(y, new) = IF y = x THEN before ELSE ListOf(y, on)
  BY ListOfExcept
<1>3. \A y \in Links :
        IF ListOf(y, on) = NULL THEN a.next[y] = NULL /\ a.prev[y] = NULL
        ELSE /\ a.next[y] \in Links /\ a.prev[a.next[y]] = y
             /\ a.prev[y] \in Links /\ a.next[a.prev[y]] = y
             /\ ListOf(a.next[y], on) = ListOf(y, on)
             /\ ListOf(a.prev[y], on) = ListOf(y, on)
  BY DEF Sound
<1>4. ListOf(x, on) = NULL /\ ListOf(before, on) = before
  BY LinkFacts DEF ListOf
<1> HIDE DEF x
<1>5. /\ p \in Links /\ p # x /\ a.next[p] = before /\ ListOf(p, on) = before
      /\ a.next[x] = NULL /\ a.prev[x] = NULL
  BY <1>1, <1>3, <1>4
<1>6. b = [next |-> [a.next EXCEPT ![x] = before, ![p] = x],
           prev |-> [a.prev EXCEPT ![x] = p, ![before] = x]]
  BY DEF InsertedBefore, x
<1>7. a.next \in [Links -> Links \cup {NULL}] /\ a.prev \in [Links -> Links \cup {NULL}]
  BY DEF Pairs
<1>8. \A y \in Links :
        /\ b.next[y] = IF y = p THEN x ELSE IF y = x THEN before ELSE a.next[y]
        /\ b.prev[y] = IF y = before THEN x ELSE IF y = x THEN p ELSE a.prev[y]
  BY <1>6, <1>7
<1>9. b \in Pairs
  BY <1>1, <1>5, <1>6, <1>7 DEF Pairs
<1>10. ASSUME NEW y \in Links
       PROVE  IF ListOf(y, new) = NULL THEN b.next[y] = NULL /\ b.prev[y] = NULL
              ELSE /\ b.next[y] \in Links /\ b.prev[b.next[y]] = y
                   /\ b.prev[y] \in Links /\ b.next[b.prev[y]] = y
                   /\ ListOf(b.next[y], new) = ListOf(y, new)
                   /\ ListOf(b.prev[y], new) = ListOf(y, new)
  <2>0. a.prev[before] = p
    OBVIOUS
  <2> HIDE DEF p
  <2>1. CASE y = x
    BY <2>1, <1>1, <1>2, <1>4, <1>5, <1>8
  <2>2. CASE y # x /\ ListOf(y, on) = NULL
    BY <2>2, <1>1, <1>2, <1>3, <1>4, <1>5, <1>8
  <2>3. CASE y # x /\ ListOf(y, on) # NULL
    <3>1. /\ a.next[y] \in Links /\ a.prev[a.next[y]] = y
          /\ a.prev[y] \in Links /\ a.next[a.prev[y]] = y
          /\ ListOf(a.next[y], on) = ListOf(y, on)
          /\ ListOf(a.prev[y], on) = ListOf(y, on)
      BY <2>3, <1>3
    <3>2. /\ a.next[y] # x /\ a.prev[y] # x
      BY <2>3, <3>1, <1>4
    <3>3. /\ b.next[y] \in Links /\ b.prev[b.next[y]] = y
          /\ ListOf(b.next[y], new) = ListOf(y, new)
      BY <2>0, <2>3, <3>1, <3>2, <1>1, <1>2, <1>4, <1>5, <1>8
    <3>4. /\ b.prev[y] \in Links /\ b.next[b.prev[y]] = y
          /\ ListOf(b.prev[y], new) = ListOf(y, new)
      BY <2>0, <2>3, <3>1, <3>2, <1>1, <1>2, <1>4, <1>5, <1>8
    <3> QED BY <2>3, <3>3, <3>4, <1>2, <1>1
  <2> QED BY <2>1, <2>2, <2>3
<1> QED BY <1>1, <1>9, <1>10 DEF Sound
-----------------------------------------------------------------------------
(* The inductive invariant.  LinksSound and LinkedLive need each other's     *)
(* types only, and neither needs anything of the walk: a touch function may  *)
(* do what it likes to the lists under the walk's feet, and they stay sound. *)

IInv ==
    /\ area \in Pairs /\ list \in Lists
    /\ free \in [Edicts -> BOOLEAN]
    /\ num_edicts \in MaxClients + 1 .. MaxEdicts
    /\ LinksSound
    /\ LinkedLive

(* Empty lists are sound. *)
LEMMA ClearedSound ==
    ASSUME NEW a, a = [next |-> ClearedLinks, prev |-> ClearedLinks],
           NEW on, on = [e \in Edicts |-> NULL]
    PROVE  a \in Pairs /\ on \in Lists /\ Sound(a, on) /\ \A e \in Edicts : on[e] = NULL
<1>1. /\ a.next = ClearedLinks /\ a.prev = ClearedLinks
      /\ ClearedLinks \in [Links -> Links \cup {NULL}]
      /\ a \in Pairs /\ on \in Lists
  BY DEF Pairs, Lists, ClearedLinks
<1>2. ASSUME NEW x \in Links
      PROVE  IF ListOf(x, on) = NULL THEN a.next[x] = NULL /\ a.prev[x] = NULL
             ELSE /\ a.next[x] = x /\ a.prev[x] = x
  <2>1. CASE x \in Anchors
    <3>1. ListOf(x, on) = x /\ x # NULL
      BY <2>1, WorldAssumption DEF ListOf
    <3> QED BY <2>1, <3>1, <1>1 DEF ClearedLinks
  <2>2. CASE x \notin Anchors
    <3>1. PICK f \in Edicts : x = Link(f)
      BY <2>2 DEF Links, EdictLinks, Link
    <3>2. ListOf(x, on) = NULL
      BY <2>2, <3>1, LinkFacts DEF ListOf
    <3> QED BY <2>2, <3>2, <1>1 DEF ClearedLinks
  <2> QED BY <2>1, <2>2
<1> QED BY <1>1, <1>2 DEF Sound

(* SV_LinkEdict, with or without the touching that follows, keeps the lists. *)
LEMMA LinkEdictKeeps ==
    ASSUME IInv, NEW e \in Programmed, NEW b \in Boxes, LinkEdict(e, b),
           UNCHANGED <<num_edicts, free>>
    PROVE  IInv'
<1> DEFINE out == Unlinked(area, Link(e))
           off == Put(list, e, NULL)
           to == ListFor(e, b)
<1>1. e \in Edicts /\ Sound(area, list) /\ area \in Pairs /\ list \in Lists
  BY WorldAssumption DEF IInv, Programmed, Edicts, LinksSound
<1>2. out \in Pairs /\ off \in Lists /\ Sound(out, off)
  BY <1>1, UnlinkSound
<1>3. to = NULL \/ (to \in Anchors /\ ~ free[e])
  BY NodeForFacts DEF ListFor, Linkable, Anchor, Anchors, ListKinds
<1>4. off[e] = NULL /\ Put(off, e, to) = Put(list, e, to) /\ list' = Put(list, e, to)
  BY <1>1 DEF Put, Lists, LinkEdict
<1>5. area' = IF to = NULL THEN out ELSE InsertedBefore(out, Link(e), to)
  BY DEF LinkEdict, Relinked
<1> HIDE DEF out, off, to
<1>6. area' \in Pairs /\ list' \in Lists /\ Sound(area', list')
  <2>1. CASE to = NULL
    BY <2>1, <1>2, <1>4, <1>5 DEF off
  <2>2. CASE to # NULL
    <3>1. to \in Anchors
      BY <1>3, <2>2
    <3>2. area' = InsertedBefore(out, Link(e), to) /\ list' = Put(off, e, to)
      BY <1>4, <1>5, <2>2
    <3> QED BY <1>1, <1>2, <1>4, <3>1, <3>2, InsertSound
  <2> QED BY <2>1, <2>2
<1>7. LinkedLive'
  <2> SUFFICES ASSUME NEW f \in Edicts, list'[f] # NULL
               PROVE  f \in Programmed' /\ ~ free'[f]
    BY DEF LinkedLive
  <2>1. CASE f = e
    <3>1. list'[e] = to
      BY <1>1, <1>4 DEF Put, Lists
    <3> QED BY <2>1, <3>1, <1>3 DEF Programmed
  <2>2. CASE f # e
    <3>1. list'[f] = list[f]
      BY <2>2, <1>1, <1>4 DEF Put, Lists
    <3> QED BY <3>1 DEF IInv, LinkedLive, Programmed
  <2> QED BY <2>1, <2>2
<1> QED BY <1>6, <1>7 DEF IInv, LinksSound

(* ED_Free unlinks before it frees. *)
LEMMA FreeKeeps ==
    ASSUME IInv, NEW e \in Removable, Free(e), UNCHANGED num_edicts
    PROVE  IInv'
<1>1. e \in Edicts /\ Sound(area, list) /\ area \in Pairs /\ list \in Lists
  BY WorldAssumption DEF IInv, Removable, Edicts, LinksSound
<1>2. area' = Unlinked(area, Link(e)) /\ list' = Put(list, e, NULL)
  BY DEF Free, Put
<1>3. area' \in Pairs /\ list' \in Lists /\ Sound(area', list')
  BY <1>1, <1>2, UnlinkSound
<1>4. free' \in [Edicts -> BOOLEAN]
  BY DEF Free, IInv
<1>5. LinkedLive'
  <2> SUFFICES ASSUME NEW f \in Edicts, list'[f] # NULL
               PROVE  f \in Programmed' /\ ~ free'[f]
    BY DEF LinkedLive
  <2>1. f # e /\ list'[f] = list[f]
    BY <1>1, <1>2 DEF Put, Lists
  <2>2. free'[f] = free[f]
    BY <2>1 DEF Free, IInv
  <2> QED BY <2>1, <2>2 DEF IInv, LinkedLive, Programmed
<1> QED BY <1>3, <1>4, <1>5 DEF IInv, LinksSound

(* ED_ClearEdict makes a slot live and links nothing. *)
LEMMA ClearKeeps ==
    ASSUME IInv, NEW e \in Edicts, ClearEdict(e),
           num_edicts' \in MaxClients + 1 .. MaxEdicts, Programmed \subseteq Programmed'
    PROVE  IInv'
<1>1. area' = area /\ list' = list /\ free' = [free EXCEPT ![e] = FALSE]
  BY DEF ClearEdict, linkVars
<1>2. LinksSound'
  BY <1>1 DEF IInv, LinksSound
<1>3. LinkedLive'
  <2> SUFFICES ASSUME NEW f \in Edicts, list'[f] # NULL
               PROVE  f \in Programmed' /\ ~ free'[f]
    BY DEF LinkedLive
  <2>1. f \in Programmed /\ ~ free[f]
    BY <1>1 DEF IInv, LinkedLive
  <2>2. f \in Programmed'
    BY <2>1
  <2>3. ~ free'[f]
    <3>1. free' = [free EXCEPT ![e] = FALSE] /\ free \in [Edicts -> BOOLEAN]
      BY <1>1 DEF IInv
    <3>2. CASE f = e
      BY <3>1, <3>2, Zenon
    <3>3. CASE f # e
      <4>1. free'[f] = free[f]
        BY <3>1, <3>3
      <4> QED BY <2>1, <4>1
    <3> QED BY <3>2, <3>3
  <2> QED BY <2>2, <2>3
<1> QED BY <1>1, <1>2, <1>3 DEF IInv

LEMMA InitInv == Init => IInv
<1> SUFFICES ASSUME Init PROVE IInv
  OBVIOUS
<1>1. area \in Pairs /\ list \in Lists /\ Sound(area, list) /\ \A e \in Edicts : list[e] = NULL
  BY ClearedSound DEF Init
<1> QED BY <1>1, WorldAssumption DEF Init, IInv, LinksSound, LinkedLive

LEMMA SysErrorKeeps ==
    ASSUME SysError
    PROVE  IInv'
<1>1. /\ area' \in Pairs /\ list' \in Lists /\ Sound(area', list')
      /\ \A e \in Edicts : list'[e] = NULL
  BY ClearedSound DEF SysError
<1>2. /\ free' \in [Edicts -> BOOLEAN] /\ num_edicts' \in MaxClients + 1 .. MaxEdicts
  BY WorldAssumption DEF SysError
<1> QED BY <1>1, <1>2 DEF IInv, LinksSound, LinkedLive

LEMMA NextInv == IInv /\ [Next]_vars => IInv'
<1> SUFFICES ASSUME IInv, [Next]_vars PROVE IInv'
  OBVIOUS
<1>1. CASE \E rested \in SUBSET FreeSlots : Reuse(rested)
  <2>1. PICK rested \in SUBSET FreeSlots : Reuse(rested)
    BY <1>1
  <2>2. PICK e : e = CHOOSE g \in rested : \A f \in rested : g <= f
    OBVIOUS
  <2>3. ClearEdict(e) /\ num_edicts' = num_edicts
    BY <2>1, <2>2 DEF Reuse
  <2>4. CASE e \in Edicts
    <3>1. /\ num_edicts' \in MaxClients + 1 .. MaxEdicts
          /\ Programmed \subseteq Programmed'
      BY <2>3 DEF IInv, Programmed
    <3> QED BY <2>3, <2>4, <3>1, ClearKeeps
  <2>5. CASE e \notin Edicts
    <3>1. free' = free /\ area' = area /\ list' = list
      BY <2>3, <2>5 DEF ClearEdict, linkVars, IInv
    <3> QED BY <2>3, <3>1 DEF IInv, LinksSound, LinkedLive, Programmed
  <2> QED BY <2>4, <2>5
<1>2. CASE Extend
  <2>1. /\ num_edicts \in Edicts /\ ClearEdict(num_edicts)
        /\ num_edicts' \in MaxClients + 1 .. MaxEdicts /\ num_edicts' = num_edicts + 1
    BY <1>2, WorldAssumption DEF Extend, IInv, Edicts
  <2>2. num_edicts \in Int
    BY <2>1, WorldAssumption DEF IInv
  <2>3. Programmed \subseteq Programmed'
    BY <2>1, <2>2 DEF Programmed
  <2> QED BY <2>1, <2>3, ClearKeeps
<1>3. CASE NoFreeEdicts
  BY <1>3, SysErrorKeeps DEF NoFreeEdicts
<1>4. CASE \E e \in Removable : Remove(e)
  <2>1. PICK e \in Removable : Remove(e)
    BY <1>4
  <2> QED BY <2>1, FreeKeeps DEF Remove
<1>5. CASE \E e \in Programmed, s \in {"not", "trigger", "solid"} : SetSolid(e, s)
  <2>1. UNCHANGED <<num_edicts, free, area, list>>
    BY <1>5 DEF SetSolid, linkVars
  <2> QED BY <2>1 DEF IInv, LinksSound, LinkedLive, Programmed
<1>6. CASE \E e \in Programmed, b \in Boxes : SetOrigin(e, b) \/ MoveAndTouch(e, b)
  <2>1. PICK e \in Programmed, b \in Boxes : SetOrigin(e, b) \/ MoveAndTouch(e, b)
    BY <1>6
  <2>2. LinkEdict(e, b) /\ UNCHANGED <<num_edicts, free>>
    BY <2>1 DEF SetOrigin, MoveAndTouch
  <2> QED BY <2>2, LinkEdictKeeps
<1>7. CASE \E b \in Probes : ClipError(b)
  BY <1>7, SysErrorKeeps DEF ClipError
<1>8. CASE Pass \/ Call \/ Return \/ Astray \/ LeaveList \/ Descend \/ EndWalk \/ UNCHANGED vars
  <2>1. UNCHANGED <<num_edicts, free, area, list>>
    BY <1>8 DEF Pass, Call, Return, Astray, LeaveList, Descend, EndWalk, vars,
               edictVars, linkVars
  <2> QED BY <2>1 DEF IInv, LinksSound, LinkedLive, Programmed
<1> QED BY <1>1, <1>2, <1>3, <1>4, <1>5, <1>6, <1>7, <1>8 DEF Next

(* RemoveLink and InsertLinkBefore keep every list a ring, whatever the      *)
(* programs do to the edicts while SV_TouchLinks walks over them.            *)
THEOREM WorldLinksSound == Spec => []LinksSound
<1>1. IInv => LinksSound
  BY DEF IInv
<1> QED BY <1>1, InitInv, NextInv, PTL DEF Spec

(* No list of the areas ever holds an edict that is free, the world, or a    *)
(* slot beyond sv.num_edicts: SV_ClipToLinks and SV_TouchLinks meet none.    *)
THEOREM WorldLinkedLive == Spec => []LinkedLive
<1>1. IInv => LinkedLive
  BY DEF IInv
<1> QED BY <1>1, InitInv, NextInv, PTL DEF Spec

-----------------------------------------------------------------------------
(* The order of the lists. *)

(* The edict g is behind the link x in its list, by the time of linking.      *)
Behind(x, g, rank) == x \in Anchors \/ rank[EdictOf(x)] < rank[g]

(* Every list is in the order in which its edicts were linked: what is behind *)
(* a link is its next one or behind that one.                                 *)
Ordered(a, on, rank) ==
    \A x \in Links, g \in Edicts :
        ListOf(x, on) # NULL /\ on[g] = ListOf(x, on) /\ Behind(x, g, rank)
            => \/ a.next[x] = Link(g)
               \/ a.next[x] \in EdictLinks /\ Behind(a.next[x], g, rank)

(* SV_UnlinkEdict keeps the order: what was behind the edict is now behind    *)
(* the link before it.                                                        *)
LEMMA UnlinkOrdered ==
    ASSUME NEW a \in Pairs, NEW on \in Lists, Sound(a, on), NEW e \in Edicts,
           NEW rank, Ordered(a, on, rank),
           NEW b, b = Unlinked(a, Link(e)),
           NEW new, new = Put(on, e, NULL)
    PROVE  Ordered(b, new, rank)
<1> DEFINE x == Link(e)
           p == a.prev[x]
           q == a.next[x]
<1>1. x \in Links /\ NULL \notin Links /\ new \in Lists /\ x \notin Anchors /\ EdictOf(x) = e
  BY LinkFacts, WorldAssumption DEF Lists, Put
<1>2. \A y \in Links : ListOf(y, new) = IF y = x THEN NULL ELSE ListOf(y, on)
  BY ListOfExcept
<1>3. SUFFICES ASSUME NEW y \in Links, NEW g \in Edicts,
                      ListOf(y, new) # NULL, new[g] = ListOf(y, new), Behind(y, g, rank)
               PROVE  \/ b.next[y] = Link(g)
                      \/ b.next[y] \in EdictLinks /\ Behind(b.next[y], g, rank)
  BY DEF Ordered
<1>4. y # x /\ g # e /\ on[g] = ListOf(y, on) /\ ListOf(y, on) # NULL
  BY <1>1, <1>2, <1>3 DEF Put, Lists
<1>5. \/ a.next[y] = Link(g)
      \/ a.next[y] \in EdictLinks /\ Behind(a.next[y], g, rank)
  BY <1>3, <1>4 DEF Ordered
<1>6. Link(g) # x
  BY <1>1, <1>4, LinkFacts
<1> HIDE DEF x
<1>7. CASE p = NULL
  <2>1. b = a
    BY <1>7, Zenon DEF Unlinked, x
  <2> QED BY <1>5, <2>1
<1>8. CASE p # NULL
  <2>1. b = [next |-> [a.next EXCEPT ![p] = q, ![x] = NULL],
             prev |-> [a.prev EXCEPT ![q] = p, ![x] = NULL]]
    BY <1>8 DEF Unlinked, x
  <2>2. b.next[y] = IF y = p THEN q ELSE a.next[y]
    BY <1>4, <2>1 DEF Pairs
  <2>3. CASE y # p
    BY <1>5, <2>2, <2>3
  <2>4. CASE y = p
    <3>1. a.next[y] = x /\ ListOf(x, on) = ListOf(y, on)
      BY <1>1, <1>4, <1>8, <2>4 DEF Sound
    <3>2. Behind(x, g, rank)
      BY <1>5, <1>6, <3>1
    <3>3. \/ q = Link(g)
          \/ q \in EdictLinks /\ Behind(q, g, rank)
      BY <1>1, <1>4, <3>1, <3>2 DEF Ordered
    <3> QED BY <2>2, <2>4, <3>3
  <2> QED BY <2>3, <2>4
<1> QED BY <1>7, <1>8

(* InsertLinkBefore puts an edict behind all that are in the list, later than *)
(* any of them.                                                               *)
LEMMA InsertOrdered ==
    ASSUME NEW a \in Pairs, NEW on \in Lists, Sound(a, on), NEW e \in Edicts,
           on[e] = NULL, NEW before \in Anchors,
           NEW rank \in [Edicts -> Nat], NEW clock \in Nat,
           \A f \in Edicts : rank[f] < clock,
           Ordered(a, on, rank),
           NEW b, b = InsertedBefore(a, Link(e), before),
           NEW new, new = Put(on, e, before),
           NEW late, late = Put(rank, e, clock)
    PROVE  Ordered(b, new, late)
<1> DEFINE x == Link(e)
           p == a.prev[before]
<1>1. /\ x \in Links /\ x # before /\ before \in Links /\ NULL \notin Links
      /\ x \notin Anchors /\ EdictOf(x) = e /\ x \in EdictLinks
      /\ new \in Lists
  BY LinkFacts, WorldAssumption DEF Lists, Links, Put
<1>2. \A y \in Links : ListOf(y, new) = IF y = x THEN before ELSE ListOf(y, on)
  BY ListOfExcept
<1>3. ListOf(x, on) = NULL /\ ListOf(before, on) = before
  BY LinkFacts DEF ListOf
<1>4. /\ late[e] = clock /\ late \in [Edicts -> Nat]
      /\ \A f \in Edicts : f # e => late[f] = rank[f] /\ late[f] < late[e]
  BY DEF Put
<1>5. \A y \in EdictLinks : EdictOf(y) \in Edicts /\ y = Link(EdictOf(y)) /\ y \notin Anchors
  BY DEF EdictLinks, EdictOf, Link, Anchors, ListKinds
<1> HIDE DEF x
<1>6. /\ p \in Links /\ p # x /\ a.next[p] = before /\ ListOf(p, on) = before
      /\ a.prev[before] = p
  BY <1>1, <1>3 DEF Sound
<1>7. \A y \in Links : b.next[y] = IF y = p THEN x ELSE IF y = x THEN before ELSE a.next[y]
  <2>1. b = [next |-> [a.next EXCEPT ![x] = before, ![p] = x],
             prev |-> [a.prev EXCEPT ![x] = p, ![before] = x]]
    BY DEF InsertedBefore, x
  <2> QED BY <2>1 DEF Pairs
<1>8. SUFFICES ASSUME NEW y \in Links, NEW g \in Edicts,
                      ListOf(y, new) # NULL, new[g] = ListOf(y, new), Behind(y, g, late)
               PROVE  \/ b.next[y] = Link(g)
                      \/ b.next[y] \in EdictLinks /\ Behind(b.next[y], g, late)
  BY DEF Ordered
<1> HIDE DEF p
<1>9. y # x
  <2> SUFFICES ASSUME y = x PROVE FALSE
    OBVIOUS
  <2>1. late[e] < late[g]
    BY <1>1, <1>8 DEF Behind
  <2> QED BY <1>4, <2>1
<1>10. ListOf(y, new) = ListOf(y, on) /\ ListOf(y, on) # NULL
  BY <1>2, <1>8, <1>9
<1>11. CASE g = e
  <2>1. ListOf(y, on) = before
    BY <1>8, <1>10, <1>11 DEF Put, Lists
  <2>2. CASE y = p
    BY <1>7, <1>11, <2>2 DEF x
  <2>3. CASE y # p
    <3>1. b.next[y] = a.next[y]
      BY <1>7, <1>9, <2>3
    <3>2. a.next[y] \in Links /\ a.prev[a.next[y]] = y /\ ListOf(a.next[y], on) = before
      BY <1>10, <2>1 DEF Sound
    <3>3. a.next[y] # before /\ a.next[y] # x
      BY <1>1, <1>3, <1>6, <2>3, <3>2
    <3>4. a.next[y] \in EdictLinks
      BY <3>2, <3>3 DEF ListOf, Links
    <3>5. late[EdictOf(a.next[y])] < late[e]
      BY <1>4, <1>5, <3>3, <3>4 DEF x
    <3> QED BY <1>11, <3>1, <3>4, <3>5 DEF Behind
  <2> QED BY <2>2, <2>3
<1>12. CASE g # e
  <2>1. on[g] = ListOf(y, on)
    BY <1>8, <1>10, <1>12 DEF Put, Lists
  <2>2. Behind(y, g, rank)
    <3>1. CASE y \in Anchors
      BY <3>1 DEF Behind
    <3>2. CASE y \notin Anchors
      <4>1. y \in EdictLinks /\ late[EdictOf(y)] < late[g]
        BY <1>8, <3>2 DEF Behind, Links
      <4>2. EdictOf(y) \in Edicts /\ EdictOf(y) # e
        BY <1>5, <1>9, <4>1 DEF x
      <4> QED BY <1>4, <1>12, <4>1, <4>2 DEF Behind
    <3> QED BY <3>1, <3>2
  <2>3. \/ a.next[y] = Link(g)
        \/ a.next[y] \in EdictLinks /\ Behind(a.next[y], g, rank)
    BY <1>10, <2>1, <2>2 DEF Ordered
  <2>4. y # p
    <3>1. before \notin EdictLinks /\ before # Link(g)
      BY <1>5, LinkFacts
    <3> QED BY <1>6, <2>3, <3>1
  <2>5. b.next[y] = a.next[y]
    BY <1>7, <1>9, <2>4
  <2>6. CASE a.next[y] = Link(g)
    BY <2>5, <2>6
  <2>7. CASE a.next[y] \in EdictLinks /\ Behind(a.next[y], g, rank)
    <3>1. a.next[y] # x
      BY <1>3, <1>10 DEF Sound
    <3>2. EdictOf(a.next[y]) \in Edicts /\ EdictOf(a.next[y]) # e /\ a.next[y] \notin Anchors
      BY <1>5, <2>7, <3>1 DEF x
    <3>3. late[EdictOf(a.next[y])] < late[g]
      BY <1>4, <1>12, <2>7, <3>2 DEF Behind
    <3> QED BY <2>5, <2>7, <3>3 DEF Behind
  <2> QED BY <2>3, <2>6, <2>7
<1> QED BY <1>11, <1>12

-----------------------------------------------------------------------------
(* The inductive invariant of the walk: there is a time of linking for every  *)
(* edict, by which its list is ordered, and every trigger that the walk owes  *)
(* a call is ahead of it.                                                     *)

Shape ==
    /\ solid \in [Edicts -> {"not", "trigger", "solid"}]
    /\ absbox \in [Edicts -> Boxes \cup {Zero}]
    /\ pc \in Phases
    /\ walker \in Edicts /\ node \in Nodes
    /\ todo \in Seq(Inner \X {0, 1})
    /\ pc = "idle" => todo = <<>>

(* An edict is in a list of the node that SV_LinkEdict finds for its box.     *)
Stored ==
    \A e \in Edicts : list[e] # NULL =>
        absbox[e] \in Boxes /\ list[e][2] = NodeFor[absbox[e]]

(* Where the walk will go on in the list it is on. *)
At == IF pc = "call" THEN nextl ELSE l
Walking == pc \in {"list", "call", "descend"} /\ ~ cut

OnList ==
    ~ cut /\ pc \in {"list", "call"} =>
        At = TriggerList(node) \/ (At \in EdictLinks /\ list[EdictOf(At)] = TriggerList(node))

(* The trigger t is in the subtree on one side of the node n. *)
Waits(t, n, s) ==
    Toward(absbox[t], n, s) /\ list[t] = TriggerList(Descent(absbox[t])[Child(n, s)])

(* A trigger is ahead of the walk if it is in the rest of the list the walk   *)
(* is on, in the subtree below, or in one that the walk has still to do.      *)
InRest(t, rank) ==
    /\ list[t] = TriggerList(node) /\ At \in EdictLinks
    /\ At = Link(t) \/ rank[EdictOf(At)] < rank[t]
InSubtree(t) == node \in Inner /\ \E s \in {0, 1} : Waits(t, node, s)
InTodo(t) == \E i \in DOMAIN todo : Waits(t, todo[i][1], todo[i][2])
Ahead(t, rank) ==
    \/ pc \in {"list", "call"} /\ (InRest(t, rank) \/ InSubtree(t))
    \/ InTodo(t)

Owed(t, rank) ==
    /\ t \in Edicts /\ t # walker /\ solid[t] = "trigger"
    /\ Overlap(absbox[walker], absbox[t])
    /\ Ahead(t, rank)

Owes(rank) == Walking => \A t \in due : Owed(t, rank)
NotLost == ~ cut => pc # "lost"

Order(rank, clock) ==
    /\ rank \in [Edicts -> Nat] /\ clock \in Nat
    /\ \A f \in Edicts : rank[f] < clock
    /\ Ordered(area, list, rank)

WInv ==
    /\ IInv /\ Shape /\ Stored /\ OnList /\ NotLost
    /\ \E rank \in [Edicts -> Nat], clock \in Nat : Order(rank, clock) /\ Owes(rank)

(* Relinking or removing an edict leaves the lists ordered: only its own      *)
(* place in time changes.                                                     *)
LEMMA LinkEdictOrdered ==
    ASSUME IInv, NEW e \in Programmed, NEW b \in Boxes, LinkEdict(e, b),
           NEW rank \in [Edicts -> Nat], NEW clock \in Nat, Order(rank, clock)
    PROVE  \E late \in [Edicts -> Nat] :
              /\ \A f \in Edicts : f # e => late[f] = rank[f]
              /\ Order(late, clock + 1)'
<1> DEFINE out == Unlinked(area, Link(e))
           off == Put(list, e, NULL)
           to == ListFor(e, b)
           late == Put(rank, e, clock)
<1>1. e \in Edicts /\ Sound(area, list) /\ area \in Pairs /\ list \in Lists
  BY WorldAssumption DEF IInv, Programmed, Edicts, LinksSound
<1>2. out \in Pairs /\ off \in Lists /\ Sound(out, off)
  BY <1>1, UnlinkSound
<1>3. Ordered(out, off, rank)
  BY <1>1, UnlinkOrdered DEF Order
<1>4. to = NULL \/ to \in Anchors
  BY NodeForFacts DEF ListFor, Anchor, Anchors, ListKinds
<1>5. off[e] = NULL /\ Put(off, e, to) = Put(list, e, to) /\ list' = Put(list, e, to)
  BY <1>1 DEF Put, Lists, LinkEdict
<1>6. area' = IF to = NULL THEN out ELSE InsertedBefore(out, Link(e), to)
  BY DEF LinkEdict, Relinked
<1>7. \A f \in Edicts : rank[f] < clock
  BY DEF Order
<1> HIDE DEF out, off, to
<1>8. CASE to = NULL
  <2>1. area' = out /\ list' = off
    BY <1>5, <1>6, <1>8 DEF off
  <2>2. Ordered(area', list', rank)
    BY <1>3, <2>1
  <2>3. \A f \in Edicts : rank[f] < clock + 1
    BY <1>7
  <2>4. Order(rank, clock + 1)'
    BY <2>2, <2>3 DEF Order
  <2> QED BY <2>4
<1>9. CASE to # NULL
  <2>1. to \in Anchors /\ area' = InsertedBefore(out, Link(e), to) /\ list' = Put(off, e, to)
    BY <1>4, <1>5, <1>6, <1>9
  <2>2. /\ late \in [Edicts -> Nat]
        /\ \A f \in Edicts : f # e => late[f] = rank[f]
        /\ \A f \in Edicts : late[f] < clock + 1
    BY <1>1, <1>7 DEF Put
  <2> HIDE DEF late
  <2>3. Ordered(area', list', late)
    BY <1>1, <1>2, <1>3, <1>5, <1>7, <2>1, InsertOrdered DEF late
  <2>4. Order(late, clock + 1)'
    BY <2>2, <2>3 DEF Order
  <2> QED BY <2>2, <2>4
<1> QED BY <1>8, <1>9

(* What a program does to one edict e keeps every other trigger ahead of the  *)
(* walk, unless it unlinks the edict the walk has saved as the next.          *)
LEMMA WalkUndisturbed ==
    ASSUME Shape, OnList, InProgram, NEW rank, Owes(rank), NEW late, NEW e \in Edicts,
           UNCHANGED <<pc, walkVars>>,
           due' \subseteq due \ {e},
           ~ cut' => ~ cut /\ (pc = "call" /\ nextl = Link(e) =>
                                   list'[e] = list[e] /\ late[e] = rank[e]),
           \A t \in Edicts : t # e => /\ list'[t] = list[t] /\ absbox'[t] = absbox[t]
                                      /\ solid'[t] = solid[t] /\ late[t] = rank[t],
           \/ absbox' = absbox
           \/ \A t \in due' : Overlap(absbox'[walker'], absbox'[t])
    PROVE  OnList' /\ Owes(late)'
<1>1. UNCHANGED <<pc, walker, node, l, nextl, todo>>
  BY DEF walkVars
<1>2. CASE pc = "idle" \/ cut'
  BY <1>1, <1>2 DEF OnList, Owes, Walking
<1>3. CASE pc = "call" /\ ~ cut'
  <2>1. ~ cut /\ At = nextl /\ At' = nextl
    BY <1>1, <1>3 DEF At
  <2>2. \A y \in EdictLinks : EdictOf(y) \in Edicts /\ y = Link(EdictOf(y))
    BY DEF EdictLinks, EdictOf, Link
  <2>3. nextl \in EdictLinks => /\ list'[EdictOf(nextl)] = list[EdictOf(nextl)]
                                /\ late[EdictOf(nextl)] = rank[EdictOf(nextl)]
    BY <1>3, <2>2
  <2>4. OnList'
    BY <1>1, <1>3, <2>1, <2>3 DEF OnList
  <2>5. ASSUME NEW t \in due'
        PROVE  Owed(t, late)'
    <3>1. t \in due /\ t # e /\ Owed(t, rank)
      BY <1>3, <2>1, <2>5 DEF Owes, Walking
    <3>2. /\ list'[t] = list[t] /\ absbox'[t] = absbox[t]
          /\ solid'[t] = solid[t] /\ late[t] = rank[t]
      BY <3>1 DEF Owed
    <3>3. Overlap(absbox'[walker'], absbox'[t])
      <4>1. CASE absbox' = absbox
        BY <1>1, <3>1, <4>1 DEF Owed
      <4>2. CASE \A u \in due' : Overlap(absbox'[walker'], absbox'[u])
        BY <4>2
      <4> QED BY <4>1, <4>2
    <3>4. CASE InRest(t, rank)
      <4>1. InRest(t, late)'
        BY <1>1, <2>1, <2>3, <3>2, <3>4 DEF InRest
      <4> QED BY <1>1, <1>3, <3>1, <3>2, <3>3, <4>1 DEF Owed, Ahead
    <3>5. CASE InSubtree(t)
      <4>1. InSubtree(t)'
        BY <1>1, <3>2, <3>5 DEF InSubtree, Waits
      <4> QED BY <1>1, <1>3, <3>1, <3>2, <3>3, <4>1 DEF Owed, Ahead
    <3>6. CASE InTodo(t)
      <4>1. InTodo(t)'
        BY <1>1, <3>2, <3>6 DEF InTodo, Waits
      <4> QED BY <1>1, <1>3, <3>1, <3>2, <3>3, <4>1 DEF Owed, Ahead
    <3> QED BY <3>1, <3>4, <3>5, <3>6 DEF Owed, Ahead
  <2> QED BY <2>4, <2>5 DEF Owes
<1> QED BY <1>2, <1>3 DEF InProgram

(* ED_ClearEdict of a slot that is in no list. *)
LEMMA ClearWInv ==
    ASSUME WInv, IInv', InProgram, NEW e \in Edicts, list[e] = NULL, ClearEdict(e)
    PROVE  WInv'
<1>1. /\ UNCHANGED <<cut, area, list, pc, walkVars>>
      /\ solid' = [solid EXCEPT ![e] = "not"] /\ absbox' = [absbox EXCEPT ![e] = Zero]
      /\ due' = StillDue(e, absbox')
  BY DEF ClearEdict, linkVars
<1>2. UNCHANGED <<walker, node, l, nextl, todo>>
  BY <1>1 DEF walkVars
<1>3. Shape'
  BY <1>1, <1>2 DEF WInv, Shape
<1>4. \A t \in Edicts : t # e => absbox'[t] = absbox[t] /\ solid'[t] = solid[t]
  BY <1>1 DEF WInv, Shape
<1>5. Stored'
  BY <1>1, <1>4 DEF WInv, Stored
<1>6. PICK rank \in [Edicts -> Nat], clock \in Nat : Order(rank, clock) /\ Owes(rank)
  BY DEF WInv
<1>7. Order(rank, clock)'
  BY <1>1, <1>6 DEF Order
<1>8. due' \subseteq due \ {e} /\ \A t \in due' : Overlap(absbox'[walker'], absbox'[t])
  BY <1>1, <1>2 DEF StillDue
<1>9. OnList' /\ Owes(rank)'
  BY <1>1, <1>4, <1>6, <1>8, WalkUndisturbed DEF WInv
<1>10. NotLost'
  BY <1>1 DEF WInv, NotLost
<1> QED BY <1>3, <1>5, <1>6, <1>7, <1>9, <1>10 DEF WInv

(* ED_Free unlinks the edict; if the walk has saved it, that is a cut. *)
LEMMA RemoveWInv ==
    ASSUME WInv, IInv', NEW e \in Removable, Remove(e)
    PROVE  WInv'
<1>1. /\ UNCHANGED <<num_edicts, absbox, pc, walkVars>> /\ InProgram
      /\ solid' = [solid EXCEPT ![e] = "not"] /\ list' = Put(list, e, NULL)
      /\ area' = Unlinked(area, Link(e))
      /\ due' = due \ {e} /\ cut' = Cuts(e)
  BY DEF Remove, Free, Put
<1>2. UNCHANGED <<walker, node, l, nextl, todo>> /\ e \in Edicts
  BY <1>1, WorldAssumption DEF walkVars, Removable, Edicts, WInv, IInv
<1>3. Shape'
  BY <1>1, <1>2 DEF WInv, Shape
<1>4. /\ list \in Lists /\ area \in Pairs /\ Sound(area, list)
  BY DEF WInv, IInv, LinksSound
<1>5. /\ list'[e] = NULL
      /\ \A t \in Edicts : t # e => list'[t] = list[t] /\ solid'[t] = solid[t]
  BY <1>1, <1>2, <1>4 DEF WInv, Shape, Lists, Put
<1>6. Stored'
  BY <1>1, <1>5 DEF WInv, Stored
<1>7. PICK rank \in [Edicts -> Nat], clock \in Nat : Order(rank, clock) /\ Owes(rank)
  BY DEF WInv
<1>8. Order(rank, clock)'
  <2>1. Ordered(area', list', rank)
    BY <1>1, <1>2, <1>4, <1>7, UnlinkOrdered DEF Order
  <2> QED BY <1>7, <2>1 DEF Order
<1>9. ~ cut' => ~ cut /\ ~ (pc = "call" /\ nextl = Link(e))
  BY <1>1 DEF Cuts
<1>10. OnList' /\ Owes(rank)'
  BY <1>1, <1>2, <1>5, <1>7, <1>9, WalkUndisturbed DEF WInv
<1>11. NotLost'
  BY <1>1, <1>9 DEF WInv, NotLost
<1> QED BY <1>3, <1>6, <1>7, <1>8, <1>10, <1>11 DEF WInv

(* The walk owes no call to what a program makes something else. *)
LEMMA SetSolidWInv ==
    ASSUME WInv, IInv', NEW e \in Programmed, NEW s \in {"not", "trigger", "solid"},
           SetSolid(e, s)
    PROVE  WInv'
<1>1. /\ UNCHANGED <<cut, absbox, area, list, pc, walkVars>> /\ InProgram
      /\ solid' = [solid EXCEPT ![e] = s] /\ due' = due \ {e}
  BY DEF SetSolid, linkVars
<1>2. UNCHANGED <<walker, node, l, nextl, todo>> /\ e \in Edicts
  BY <1>1, WorldAssumption DEF walkVars, Programmed, Edicts, WInv, IInv
<1>3. Shape'
  BY <1>1, <1>2 DEF WInv, Shape
<1>4. \A t \in Edicts : t # e => solid'[t] = solid[t]
  BY <1>1 DEF WInv, Shape
<1>5. Stored'
  BY <1>1 DEF WInv, Stored
<1>6. PICK rank \in [Edicts -> Nat], clock \in Nat : Order(rank, clock) /\ Owes(rank)
  BY DEF WInv
<1>7. Order(rank, clock)'
  BY <1>1, <1>6 DEF Order
<1>8. OnList' /\ Owes(rank)'
  BY <1>1, <1>2, <1>4, <1>6, WalkUndisturbed DEF WInv
<1>9. NotLost'
  BY <1>1 DEF WInv, NotLost
<1> QED BY <1>3, <1>5, <1>6, <1>7, <1>8, <1>9 DEF WInv

(* What SV_LinkEdict changes. *)
LEMMA LinkEdictFacts ==
    ASSUME IInv, Shape, Stored, NEW e \in Programmed, NEW b \in Boxes, LinkEdict(e, b)
    PROVE  /\ e \in Edicts
           /\ absbox' \in [Edicts -> Boxes \cup {Zero}] /\ absbox' = Rebox(e, b)
           /\ list'[e] = ListFor(e, b)
           /\ \A t \in Edicts : t # e => list'[t] = list[t] /\ absbox'[t] = absbox[t]
           /\ ListFor(e, b) # NULL => absbox'[e] = b
           /\ Stored'
<1>1. e \in Edicts /\ list \in Lists /\ absbox \in [Edicts -> Boxes \cup {Zero}]
  BY WorldAssumption DEF IInv, Programmed, Edicts, Shape
<1>2. list' = [list EXCEPT ![e] = ListFor(e, b)] /\ absbox' = Rebox(e, b)
  BY DEF LinkEdict
<1>3. absbox' \in [Edicts -> Boxes \cup {Zero}]
  BY <1>1, <1>2 DEF Rebox
<1>4. list'[e] = ListFor(e, b) /\ \A t \in Edicts : t # e => list'[t] = list[t]
  BY <1>1, <1>2 DEF Lists
<1>5. \A t \in Edicts : t # e => absbox'[t] = absbox[t]
  BY <1>1, <1>2 DEF Rebox
<1>6. ListFor(e, b) # NULL => absbox'[e] = b /\ ListFor(e, b)[2] = NodeFor[b]
  BY <1>1, <1>2 DEF Rebox, ListFor, Anchor
<1>7. Stored'
  BY <1>4, <1>5, <1>6 DEF Stored
<1> QED BY <1>1, <1>2, <1>3, <1>4, <1>5, <1>6, <1>7

(* SV_LinkEdict for a touch function: an edict that it moves is owed no call. *)
LEMMA SetOriginWInv ==
    ASSUME WInv, IInv', NEW e \in Programmed, NEW b \in Boxes, SetOrigin(e, b)
    PROVE  WInv'
<1>1. /\ UNCHANGED <<solid, pc, walkVars>> /\ InProgram
      /\ LinkEdict(e, b)
      /\ due' = StillDue(e, Rebox(e, b)) /\ cut' = Cuts(e)
  BY DEF SetOrigin
<1>2. UNCHANGED <<walker, node, l, nextl, todo>>
  BY <1>1 DEF walkVars
<1>3. /\ e \in Edicts
      /\ absbox' \in [Edicts -> Boxes \cup {Zero}] /\ absbox' = Rebox(e, b)
      /\ \A t \in Edicts : t # e => list'[t] = list[t] /\ absbox'[t] = absbox[t]
      /\ Stored'
  BY <1>1, LinkEdictFacts DEF WInv
<1>4. Shape'
  BY <1>1, <1>2, <1>3 DEF WInv, Shape
<1>5. PICK rank \in [Edicts -> Nat], clock \in Nat : Order(rank, clock) /\ Owes(rank)
  BY DEF WInv
<1>6. PICK late \in [Edicts -> Nat] : /\ \A f \in Edicts : f # e => late[f] = rank[f]
                                      /\ Order(late, clock + 1)'
  BY <1>1, <1>5, LinkEdictOrdered DEF WInv
<1>7. ~ cut' => ~ cut /\ ~ (pc = "call" /\ nextl = Link(e))
  BY <1>1 DEF Cuts
<1>8. due' \subseteq due \ {e} /\ \A t \in due' : Overlap(absbox'[walker'], absbox'[t])
  BY <1>1, <1>2, <1>3 DEF StillDue
<1>9. \A t \in Edicts : t # e => /\ list'[t] = list[t] /\ absbox'[t] = absbox[t]
                                 /\ solid'[t] = solid[t] /\ late[t] = rank[t]
  BY <1>1, <1>3, <1>6
<1>10. OnList' /\ Owes(late)'
  BY <1>1, <1>3, <1>5, <1>7, <1>8, <1>9, WalkUndisturbed DEF WInv
<1>11. NotLost'
  BY <1>1, <1>7 DEF WInv, NotLost
<1>12. clock + 1 \in Nat
  OBVIOUS
<1> QED BY <1>3, <1>4, <1>6, <1>10, <1>11, <1>12 DEF WInv

(* The next link of a link that is in a list A: the anchor of A, or an edict  *)
(* of A; and what is behind the link is then at the next one or behind it.    *)
LEMMA NextFacts ==
    ASSUME NEW a \in Pairs, NEW on \in Lists, Sound(a, on), NEW rank, Ordered(a, on, rank),
           NEW y \in Links, NEW A \in Anchors, ListOf(y, on) = A,
           NEW x, x = a.next[y]
    PROVE  /\ x = A \/ (x \in EdictLinks /\ on[EdictOf(x)] = A)
           /\ \A t \in Edicts : on[t] = A /\ Behind(y, t, rank) =>
                 x \in EdictLinks /\ (x = Link(t) \/ rank[EdictOf(x)] < rank[t])
<1>1. A # NULL /\ x \in Links /\ ListOf(x, on) = A
  BY WorldAssumption DEF Sound, Links
<1>2. x = A \/ (x \in EdictLinks /\ on[EdictOf(x)] = A)
  BY <1>1 DEF ListOf, Links
<1>3. ASSUME NEW t \in Edicts, on[t] = A, Behind(y, t, rank)
      PROVE  x \in EdictLinks /\ (x = Link(t) \/ rank[EdictOf(x)] < rank[t])
  <2>1. x = Link(t) \/ (x \in EdictLinks /\ Behind(x, t, rank))
    BY <1>1, <1>3 DEF Ordered
  <2>2. Link(t) \in EdictLinks
    BY DEF Link, EdictLinks
  <2>3. x \in EdictLinks => x \notin Anchors
    BY DEF EdictLinks, Anchors, ListKinds
  <2> QED BY <2>1, <2>2, <2>3 DEF Behind
<1> QED BY <1>2, <1>3

(* A trigger in the subtree of a node is ahead of a walk that enters its list. *)
LEMMA EnterFacts ==
    ASSUME NEW a \in Pairs, NEW on \in Lists, Sound(a, on), NEW rank, Ordered(a, on, rank),
           NEW n \in Nodes, NEW x, x = a.next[TriggerList(n)]
    PROVE  /\ x = TriggerList(n) \/ (x \in EdictLinks /\ on[EdictOf(x)] = TriggerList(n))
           /\ \A t \in Edicts : on[t] = TriggerList(n) =>
                 x \in EdictLinks /\ (x = Link(t) \/ rank[EdictOf(x)] < rank[t])
<1>1. TriggerList(n) \in Anchors /\ TriggerList(n) \in Links /\ ListOf(TriggerList(n), on) = TriggerList(n)
  BY DEF TriggerList, Anchor, Anchors, ListKinds, ListOf, Links
<1>2. \A t \in Edicts : Behind(TriggerList(n), t, rank)
  BY <1>1 DEF Behind
<1> QED BY <1>1, <1>2, NextFacts

(* A trigger in the subtree of a node is in a list of the node or in one of   *)
(* the subtrees below.                                                        *)
LEMMA SubtreeFacts ==
    ASSUME NEW n \in Nodes, NEW c, NEW A, A = TriggerList(Descent(c)[n])
    PROVE  \/ A = TriggerList(n)
           \/ /\ n \in Inner
              /\ \E s \in {0, 1} : Toward(c, n, s) /\ A = TriggerList(Descent(c)[Child(n, s)])
BY Branch

(* SV_LinkEdict with touch_triggers begins a walk that owes a call to every   *)
(* trigger that the box of its edict meets.                                   *)
LEMMA MoveAndTouchWInv ==
    ASSUME WInv, IInv', NEW e \in Programmed, NEW b \in Boxes, MoveAndTouch(e, b)
    PROVE  WInv'
<1>1. /\ pc = "idle" /\ LinkEdict(e, b) /\ UNCHANGED <<num_edicts, free, solid>>
      /\ IF ListFor(e, b) = NULL THEN UNCHANGED <<pc, walkVars, history>>
         ELSE /\ pc' = "list" /\ walker' = e /\ node' = 1
              /\ l' = Relinked(e, b).next[TriggerList(1)]
              /\ due' = {t \in Edicts \ {e} : /\ solid[t] = "trigger"
                                             /\ list[t] # NULL /\ list[t][1] = "trigger_edicts"
                                             /\ Overlap(b, absbox[t])}
              /\ UNCHANGED <<nextl, todo, cut>>
  BY DEF MoveAndTouch
<1>2. /\ e \in Edicts
      /\ absbox' \in [Edicts -> Boxes \cup {Zero}] /\ absbox' = Rebox(e, b)
      /\ \A t \in Edicts : t # e => list'[t] = list[t] /\ absbox'[t] = absbox[t]
      /\ ListFor(e, b) # NULL => absbox'[e] = b
      /\ Stored'
  BY <1>1, LinkEdictFacts DEF WInv
<1>3. PICK rank \in [Edicts -> Nat], clock \in Nat : Order(rank, clock) /\ Owes(rank)
  BY DEF WInv
<1>4. PICK late \in [Edicts -> Nat] : Order(late, clock + 1)'
  BY <1>1, <1>3, LinkEdictOrdered DEF WInv
<1>5. CASE ListFor(e, b) = NULL
  <2>1. UNCHANGED <<pc, walker, node, l, nextl, todo, due, cut>>
    BY <1>1, <1>5 DEF walkVars, history
  <2>2. Shape' /\ OnList' /\ NotLost' /\ Owes(late)'
    BY <1>1, <1>2, <2>1 DEF WInv, Shape, OnList, NotLost, Owes, Walking
  <2>3. clock + 1 \in Nat
    OBVIOUS
  <2> QED BY <1>2, <1>4, <2>2, <2>3 DEF WInv
<1>6. CASE ListFor(e, b) # NULL
  <2>1. /\ pc' = "list" /\ walker' = e /\ node' = 1
        /\ l' = Relinked(e, b).next[TriggerList(1)]
        /\ due' = {t \in Edicts \ {e} : /\ solid[t] = "trigger"
                                       /\ list[t] # NULL /\ list[t][1] = "trigger_edicts"
                                       /\ Overlap(b, absbox[t])}
        /\ UNCHANGED <<nextl, todo, cut>>
    BY <1>1, <1>6
  <2>2. 1 \in Nodes /\ area' = Relinked(e, b) /\ l' = area'.next[TriggerList(1)]
    BY <1>1, <2>1, NodeFacts DEF LinkEdict
  <2>3. Shape'
    <3>1. "list" \in Phases /\ "list" # "idle"
      BY DEF Phases
    <3> QED BY <1>1, <1>2, <2>1, <2>2, <3>1 DEF WInv, Shape
  <2>4. area' \in Pairs /\ list' \in Lists /\ Sound(area', list') /\ Ordered(area', list', late)
    BY <1>4 DEF IInv, LinksSound, Order
  <2>5. /\ l' = TriggerList(1) \/ (l' \in EdictLinks /\ list'[EdictOf(l')] = TriggerList(1))
        /\ \A t \in Edicts : list'[t] = TriggerList(1) =>
              l' \in EdictLinks /\ (l' = Link(t) \/ late[EdictOf(l')] < late[t])
    BY <2>2, <2>4, EnterFacts
  <2>6. At' = l'
    BY <2>1 DEF At
  <2>7. OnList' /\ NotLost'
    BY <2>1, <2>5, <2>6 DEF OnList, NotLost
  <2>8. ASSUME NEW t \in due'
        PROVE  Owed(t, late)'
    <3>1. /\ t \in Edicts /\ t # e /\ solid[t] = "trigger" /\ Overlap(b, absbox[t])
          /\ list[t] # NULL /\ list[t][1] = "trigger_edicts"
      BY <2>1
    <3>2. list'[t] = list[t] /\ absbox'[t] = absbox[t] /\ absbox'[e] = b
      BY <1>2, <1>6, <3>1
    <3>3. absbox[t] \in Boxes /\ list[t][2] = Descent(absbox[t])[1]
      BY <3>1, NodeForFacts DEF WInv, Stored
    <3>4. list'[t] = TriggerList(Descent(absbox'[t])[1])
      <4>1. list[t] \in Anchors
        BY <3>1 DEF WInv, IInv, Lists
      <4> QED BY <3>1, <3>2, <3>3, <4>1 DEF Anchors, TriggerList, Anchor
    <3>5. \/ list'[t] = TriggerList(1)
          \/ /\ 1 \in Inner
             /\ \E s \in {0, 1} : /\ Toward(absbox'[t], 1, s)
                                  /\ list'[t] = TriggerList(Descent(absbox'[t])[Child(1, s)])
      BY <2>2, <3>4, SubtreeFacts
    <3>6. InRest(t, late)' \/ InSubtree(t)'
      BY <2>1, <2>5, <2>6, <3>1, <3>5 DEF InRest, InSubtree, Waits
    <3>7. Ahead(t, late)'
      BY <2>1, <3>6 DEF Ahead
    <3> QED BY <1>1, <2>1, <3>1, <3>2, <3>7 DEF Owed
  <2>9. Owes(late)' /\ clock + 1 \in Nat
    BY <2>8 DEF Owes
  <2> QED BY <1>2, <1>4, <2>3, <2>7, <2>9 DEF WInv
<1> QED BY <1>5, <1>6

(* The walk passes a link over, or calls its touch function. *)
LEMMA PassWInv ==
    ASSUME WInv, IInv', Pass \/ Call
    PROVE  WInv'
<1>1. /\ pc = "list" /\ l \in EdictLinks
      /\ UNCHANGED <<cut, num_edicts, free, solid, absbox, area, list, walker, node, todo>>
  BY DEF Pass, Call, edictVars, linkVars, history, IsEdictLink
<1>2. pc' \in {"list", "call"} /\ At = l /\ At' = area.next[l]
  BY <1>1 DEF Pass, Call, At, history
<1>3. \/ due' \subseteq due /\ EdictOf(l) \notin due'
      \/ due' = due /\ ~ Touches(walker, EdictOf(l))
  BY DEF Pass, Call, history
<1>4. Shape' /\ Stored' /\ NotLost'
  BY <1>1, <1>2 DEF WInv, Shape, Stored, NotLost, Phases
<1>5. PICK rank \in [Edicts -> Nat], clock \in Nat : Order(rank, clock) /\ Owes(rank)
  BY DEF WInv
<1>6. Order(rank, clock)'
  BY <1>1, <1>5 DEF Order
<1>7. area \in Pairs /\ list \in Lists /\ Sound(area, list) /\ Ordered(area, list, rank)
  BY <1>5 DEF WInv, IInv, LinksSound, Order
<1>8. CASE cut
  <2>1. OnList' /\ Owes(rank)'
    BY <1>1, <1>8 DEF OnList, Owes, Walking
  <2> QED BY <1>4, <1>5, <1>6, <2>1 DEF WInv
<1>9. CASE ~ cut
  <2>1. l \in Links /\ l \notin Anchors /\ EdictOf(l) \in Edicts /\ l = Link(EdictOf(l))
    BY <1>1 DEF EdictLinks, Links, Anchors, ListKinds, Link, EdictOf
  <2>2. TriggerList(node) \in Anchors
    BY DEF WInv, Shape, TriggerList, Anchor, Anchors, ListKinds
  <2>3. ListOf(l, list) = TriggerList(node)
    BY <1>1, <1>2, <1>9, <2>1, <2>2 DEF WInv, OnList, ListOf
  <2>4. /\ At' = TriggerList(node) \/ (At' \in EdictLinks /\ list[EdictOf(At')] = TriggerList(node))
        /\ \A t \in Edicts : list[t] = TriggerList(node) /\ Behind(l, t, rank) =>
              At' \in EdictLinks /\ (At' = Link(t) \/ rank[EdictOf(At')] < rank[t])
    BY <1>2, <1>7, <2>1, <2>2, <2>3, NextFacts
  <2>5. OnList'
    BY <1>1, <2>4 DEF OnList
  <2>6. ASSUME NEW t \in due'
        PROVE  Owed(t, rank)'
    <3>1. t \in due /\ Owed(t, rank)
      BY <1>1, <1>3, <1>5, <1>9 DEF Owes, Walking
    <3>2. t # EdictOf(l)
      BY <1>3, <3>1 DEF Owed, Touches
    <3>3. CASE InRest(t, rank)
      <4>1. list[t] = TriggerList(node) /\ t \in Edicts
        BY <3>1, <3>3 DEF InRest, Owed
      <4>2. Behind(l, t, rank)
        BY <1>2, <2>1, <3>2, <3>3, LinkFacts, <4>1 DEF InRest, Behind
      <4>3. InRest(t, rank)'
        BY <1>1, <2>4, <4>1, <4>2 DEF InRest
      <4> QED BY <1>1, <1>2, <3>1, <4>3 DEF Owed, Ahead
    <3>4. CASE InSubtree(t)
      <4>1. InSubtree(t)'
        BY <1>1, <3>4 DEF InSubtree, Waits
      <4> QED BY <1>1, <1>2, <3>1, <4>1 DEF Owed, Ahead
    <3>5. CASE InTodo(t)
      <4>1. InTodo(t)'
        BY <1>1, <3>5 DEF InTodo, Waits
      <4> QED BY <1>1, <3>1, <4>1 DEF Owed, Ahead
    <3> QED BY <3>1, <3>3, <3>4, <3>5 DEF Owed, Ahead
  <2>7. Owes(rank)'
    BY <2>6 DEF Owes
  <2> QED BY <1>4, <1>5, <1>6, <2>5, <2>7 DEF WInv
<1> QED BY <1>8, <1>9

(* The walk goes on where it meant to. *)
LEMMA ReturnWInv ==
    ASSUME WInv, IInv', Return
    PROVE  WInv'
<1>1. /\ pc = "call" /\ pc' = "list" /\ l' = nextl
      /\ UNCHANGED <<cut, due, num_edicts, free, solid, absbox, area, list, walker, node, todo>>
  BY DEF Return, edictVars, linkVars, history
<1>2. At' = At
  BY <1>1 DEF At
<1>3. Shape' /\ Stored' /\ NotLost' /\ OnList'
  BY <1>1, <1>2 DEF WInv, Shape, Stored, NotLost, OnList, Phases
<1>4. PICK rank \in [Edicts -> Nat], clock \in Nat : Order(rank, clock) /\ Owes(rank)
  BY DEF WInv
<1>5. Order(rank, clock)'
  BY <1>1, <1>4 DEF Order
<1>6. Owes(rank)'
  BY <1>1, <1>2, <1>4 DEF Owes, Walking, Owed, Ahead, InRest, InSubtree, InTodo, Waits
<1> QED BY <1>3, <1>4, <1>5, <1>6 DEF WInv

(* The walk goes astray only after a cut. *)
LEMMA AstrayWInv ==
    ASSUME WInv, IInv', Astray
    PROVE  WInv'
<1>1. /\ pc = "list" /\ pc' = "lost" /\ l \notin EdictLinks /\ l # TriggerList(node)
      /\ UNCHANGED <<cut, due, num_edicts, free, solid, absbox, area, list, walker, node, l, nextl, todo>>
  BY DEF Astray, edictVars, linkVars, history, walkVars, IsEdictLink
<1>2. cut
  BY <1>1 DEF WInv, OnList, At
<1>3. Shape' /\ Stored' /\ NotLost' /\ OnList'
  BY <1>1, <1>2 DEF WInv, Shape, Stored, NotLost, OnList, Phases
<1>4. PICK rank \in [Edicts -> Nat], clock \in Nat : Order(rank, clock) /\ Owes(rank)
  BY DEF WInv
<1>5. Order(rank, clock)' /\ Owes(rank)'
  BY <1>1, <1>2, <1>4 DEF Order, Owes, Walking
<1> QED BY <1>3, <1>4, <1>5 DEF WInv

(* At the end of a list, what is still owed is in the subtrees below, which   *)
(* the walk notes down, or in those noted before.                             *)
LEMMA LeaveListWInv ==
    ASSUME WInv, IInv', LeaveList
    PROVE  WInv'
<1> DEFINE below == IF Leaf(node) THEN <<>> ELSE << <<node, 0>>, <<node, 1>> >>
<1>1. /\ pc = "list" /\ pc' = "descend" /\ l = TriggerList(node) /\ todo' = below \o todo
      /\ UNCHANGED <<cut, due, num_edicts, free, solid, absbox, area, list, walker, node>>
  BY DEF LeaveList, edictVars, linkVars, history
<1>2. /\ below \in Seq(Inner \X {0, 1}) /\ todo \in Seq(Inner \X {0, 1})
      /\ node \in Inner => below = << <<node, 0>>, <<node, 1>> >>
  <2>1. node \in Nodes /\ todo \in Seq(Inner \X {0, 1})
    BY DEF WInv, Shape
  <2>2. CASE Leaf(node)
    <3>1. below = <<>> /\ node \notin Inner
      BY <2>2 DEF Inner
    <3> QED BY <2>1, <3>1
  <2>3. CASE ~ Leaf(node)
    <3>1. below = << <<node, 0>>, <<node, 1>> >> /\ node \in Inner
      BY <2>1, <2>3 DEF Inner
    <3>2. << <<node, 0>>, <<node, 1>> >> \in Seq(Inner \X {0, 1})
      BY <3>1
    <3> QED BY <2>1, <3>1, <3>2
  <2> QED BY <2>2, <2>3
<1> HIDE DEF below
<1>3. /\ todo' \in Seq(Inner \X {0, 1}) /\ Len(todo') = Len(below) + Len(todo)
      /\ \A i \in 1 .. Len(below) : todo'[i] = below[i]
      /\ \A i \in 1 .. Len(todo) : todo'[Len(below) + i] = todo[i]
  BY <1>1, <1>2
<1>4. Shape'
  BY <1>1, <1>3 DEF WInv, Shape, Phases
<1>5. Stored' /\ NotLost' /\ OnList'
  BY <1>1 DEF WInv, Stored, NotLost, OnList
<1>6. PICK rank \in [Edicts -> Nat], clock \in Nat : Order(rank, clock) /\ Owes(rank)
  BY DEF WInv
<1>7. Order(rank, clock)'
  BY <1>1, <1>6 DEF Order
<1>8. ASSUME NEW t \in due, Owed(t, rank)
      PROVE  Owed(t, rank)'
  <2>1. ~ InRest(t, rank)
    <3>1. TriggerList(node) \notin EdictLinks
      BY DEF TriggerList, Anchor, EdictLinks
    <3> QED BY <1>1, <3>1 DEF InRest, At
  <2>2. CASE InSubtree(t)
    <3>1. PICK s \in {0, 1} : node \in Inner /\ Waits(t, node, s)
      BY <2>2 DEF InSubtree
    <3>2. s + 1 \in 1 .. Len(below) /\ below[s + 1] = <<node, s>>
      <4>1. below = << <<node, 0>>, <<node, 1>> >>
        BY <1>2, <3>1
      <4>2. Len(below) = 2 /\ below[1] = <<node, 0>> /\ below[2] = <<node, 1>>
        BY <4>1
      <4> QED BY <4>2
    <3>3. s + 1 \in DOMAIN todo' /\ todo'[s + 1] = <<node, s>>
      BY <1>2, <1>3, <3>2
    <3>4. Waits(t, node, s)'
      BY <1>1, <3>1 DEF Waits
    <3>5. InTodo(t)'
      BY <1>1, <3>3, <3>4 DEF InTodo
    <3> QED BY <1>1, <1>8, <3>5 DEF Owed, Ahead
  <2>3. CASE InTodo(t)
    <3>1. PICK i \in DOMAIN todo : Waits(t, todo[i][1], todo[i][2])
      BY <2>3 DEF InTodo
    <3>2. i \in 1 .. Len(todo)
      BY <1>2
    <3>3. Len(below) + i \in DOMAIN todo' /\ todo'[Len(below) + i] = todo[i]
      BY <1>2, <1>3, <3>2
    <3>4. PICK j, n, s : j = Len(below) + i /\ n = todo[i][1] /\ s = todo[i][2]
      OBVIOUS
    <3>5. Waits(t, n, s)'
      BY <1>1, <3>1, <3>4 DEF Waits
    <3>6. j \in DOMAIN todo' /\ todo'[j][1] = n /\ todo'[j][2] = s
      BY <3>3, <3>4
    <3>7. InTodo(t)'
      BY <3>5, <3>6 DEF InTodo
    <3> QED BY <1>1, <1>8, <3>7 DEF Owed, Ahead
  <2> QED BY <1>8, <2>1, <2>2, <2>3 DEF Owed, Ahead
<1>9. Owes(rank)'
  BY <1>1, <1>6, <1>8 DEF Owes, Walking
<1> QED BY <1>4, <1>5, <1>6, <1>7, <1>9 DEF WInv

(* The walk goes down wherever a trigger that it owes a call waits. *)
LEMMA DescendWInv ==
    ASSUME WInv, IInv', Descend
    PROVE  WInv'
<1>1. /\ todo \in Seq(Inner \X {0, 1}) /\ todo # <<>>
      /\ node \in Nodes /\ walker \in Edicts
  BY DEF WInv, Shape, Descend
<1>2. PICK n \in Inner, side \in {0, 1} : Head(todo) = <<n, side>>
  BY <1>1
<1>3. /\ pc = "descend" /\ todo' = Tail(todo)
      /\ UNCHANGED <<cut, due, num_edicts, free, solid, absbox, area, list, walker>>
      /\ GoesDown(absbox[walker], n, side) =>
            /\ pc' = "list" /\ node' = Child(n, side)
            /\ l' = area.next[TriggerList(Child(n, side))]
      /\ ~ GoesDown(absbox[walker], n, side) => UNCHANGED <<pc, node, l>>
  BY <1>2 DEF Descend, edictVars, linkVars, history
<1>4. Child(n, side) \in Nodes /\ n \in Nodes
  BY NodeFacts DEF Inner
<1>5. /\ todo' \in Seq(Inner \X {0, 1}) /\ todo[1] = <<n, side>>
      /\ \A i \in DOMAIN todo : i # 1 => i - 1 \in DOMAIN todo' /\ todo'[i - 1] = todo[i]
  BY <1>1, <1>2, <1>3
<1>6. Shape'
  BY <1>3, <1>4, <1>5 DEF WInv, Shape, Phases
<1>7. Stored' /\ NotLost'
  BY <1>3 DEF WInv, Stored, NotLost
<1>8. PICK rank \in [Edicts -> Nat], clock \in Nat : Order(rank, clock) /\ Owes(rank)
  BY DEF WInv
<1>9. Order(rank, clock)'
  BY <1>3, <1>8 DEF Order
<1>10. area \in Pairs /\ list \in Lists /\ Sound(area, list) /\ Ordered(area, list, rank)
  BY <1>8 DEF WInv, IInv, LinksSound, Order
<1>11. ASSUME NEW t, InTodo(t)
       PROVE  Waits(t, n, side) \/ InTodo(t)'
  <2>1. PICK i \in DOMAIN todo : Waits(t, todo[i][1], todo[i][2])
    BY <1>11 DEF InTodo
  <2>2. CASE i = 1
    BY <1>5, <2>1, <2>2
  <2>3. CASE i # 1
    <3>1. PICK m, s : m = todo[i][1] /\ s = todo[i][2]
      OBVIOUS
    <3>2. Waits(t, m, s)'
      BY <1>3, <2>1, <3>1 DEF Waits
    <3>3. i - 1 \in DOMAIN todo' /\ todo'[i - 1][1] = m /\ todo'[i - 1][2] = s
      BY <1>5, <2>3, <3>1
    <3>4. InTodo(t)'
      BY <3>2, <3>3 DEF InTodo
    <3> QED BY <3>4
  <2> QED BY <2>2, <2>3
<1>12. CASE ~ GoesDown(absbox[walker], n, side)
  <2>1. UNCHANGED <<pc, node, l>>
    BY <1>3, <1>12
  <2>2. OnList'
    BY <1>3, <2>1 DEF OnList
  <2>3. ASSUME NEW t \in due, Owed(t, rank)
        PROVE  Owed(t, rank)'
    <3>1. InTodo(t) /\ t \in Edicts /\ Overlap(absbox[walker], absbox[t])
      BY <1>3, <2>3 DEF Owed, Ahead
    <3>2. absbox[walker] \in Whole /\ absbox[t] \in Whole
      BY <1>1, <3>1, WorldAssumption DEF WInv, Shape, AllBoxes, Zero, Whole
    <3>3. ~ Waits(t, n, side)
      BY <1>4, <1>12, <3>1, <3>2, SideFacts DEF Waits
    <3>4. InTodo(t)'
      BY <1>11, <3>1, <3>3
    <3> QED BY <1>3, <2>3, <3>4 DEF Owed, Ahead
  <2>4. Owes(rank)'
    BY <1>3, <1>8, <2>1, <2>3 DEF Owes, Walking
  <2> QED BY <1>6, <1>7, <1>8, <1>9, <2>2, <2>4 DEF WInv
<1>13. CASE GoesDown(absbox[walker], n, side)
  <2>1. /\ pc' = "list" /\ node' = Child(n, side)
        /\ l' = area.next[TriggerList(Child(n, side))] /\ At' = l'
    BY <1>3, <1>13 DEF At
  <2>2. /\ l' = TriggerList(node') \/ (l' \in EdictLinks /\ list[EdictOf(l')] = TriggerList(node'))
        /\ \A t \in Edicts : list[t] = TriggerList(node') =>
              l' \in EdictLinks /\ (l' = Link(t) \/ rank[EdictOf(l')] < rank[t])
    BY <1>4, <1>10, <2>1, EnterFacts
  <2>3. OnList'
    BY <1>3, <2>1, <2>2 DEF OnList
  <2>4. ASSUME NEW t \in due, Owed(t, rank)
        PROVE  Owed(t, rank)'
    <3>1. InTodo(t) /\ t \in Edicts
      BY <1>3, <2>4 DEF Owed, Ahead
    <3>2. CASE Waits(t, n, side)
      <4>1. list[t] = TriggerList(Descent(absbox[t])[node'])
        BY <2>1, <3>2 DEF Waits
      <4>2. \/ list[t] = TriggerList(node')
            \/ /\ node' \in Inner
               /\ \E s \in {0, 1} : /\ Toward(absbox[t], node', s)
                                    /\ list[t] = TriggerList(Descent(absbox[t])[Child(node', s)])
        BY <1>4, <2>1, <4>1, SubtreeFacts
      <4>3. InRest(t, rank)' \/ InSubtree(t)'
        BY <1>3, <2>1, <2>2, <3>1, <4>2 DEF InRest, InSubtree, Waits
      <4> QED BY <1>3, <2>1, <2>4, <4>3 DEF Owed, Ahead
    <3>3. CASE ~ Waits(t, n, side)
      <4>1. InTodo(t)'
        BY <1>11, <3>1, <3>3
      <4> QED BY <1>3, <2>4, <4>1 DEF Owed, Ahead
    <3> QED BY <3>2, <3>3
  <2>5. Owes(rank)'
    BY <1>3, <1>8, <2>1, <2>4 DEF Owes, Walking
  <2> QED BY <1>6, <1>7, <1>8, <1>9, <2>3, <2>5 DEF WInv
<1> QED BY <1>12, <1>13

(* A walk that is over owes nothing any more. *)
LEMMA EndWalkWInv ==
    ASSUME WInv, IInv', EndWalk
    PROVE  WInv'
<1>1. /\ pc' = "idle" /\ walker' = 0 /\ node' = 1 /\ todo = <<>>
      /\ UNCHANGED <<num_edicts, free, solid, absbox, area, list, todo>>
  BY DEF EndWalk, edictVars, linkVars
<1>2. 0 \in Edicts /\ 1 \in Nodes
  BY WorldAssumption, NodeFacts DEF Edicts
<1>3. Shape' /\ Stored' /\ NotLost' /\ OnList'
  BY <1>1, <1>2 DEF WInv, Shape, Stored, NotLost, OnList, Phases
<1>4. PICK rank \in [Edicts -> Nat], clock \in Nat : Order(rank, clock) /\ Owes(rank)
  BY DEF WInv
<1>5. Order(rank, clock)' /\ Owes(rank)'
  BY <1>1, <1>4 DEF Order, Owes, Walking
<1> QED BY <1>3, <1>4, <1>5 DEF WInv

(* Empty lists are ordered, whatever the times. *)
LEMMA ClearedOrdered ==
    ASSUME NEW a, NEW on, on = [e \in Edicts |-> NULL], NEW rank
    PROVE  Ordered(a, on, rank)
<1> SUFFICES ASSUME NEW x \in Links, NEW g \in Edicts, ListOf(x, on) # NULL, on[g] = ListOf(x, on)
             PROVE  FALSE
  BY DEF Ordered
<1> QED OBVIOUS

(* At the start of a level no list holds an edict, and no walk is on. *)
LEMMA InitWInv == Init => WInv
<1> SUFFICES ASSUME Init PROVE WInv
  OBVIOUS
<1>1. IInv
  BY InitInv
<1>2. 0 \in Edicts /\ 1 \in Nodes
  BY WorldAssumption, NodeFacts DEF Edicts
<1>3. Shape
  BY <1>2 DEF Init, Shape, Phases
<1>4. Stored /\ OnList /\ NotLost
  BY DEF Init, Stored, OnList, NotLost
<1> DEFINE rank == [e \in Edicts |-> 0]
<1>5. rank \in [Edicts -> Nat] /\ \A f \in Edicts : rank[f] < 1
  OBVIOUS
<1> HIDE DEF rank
<1>6. Ordered(area, list, rank)
  BY ClearedOrdered DEF Init
<1>7. Order(rank, 1) /\ Owes(rank) /\ 1 \in Nat
  BY <1>5, <1>6 DEF Init, Order, Owes, Walking
<1> QED BY <1>1, <1>3, <1>4, <1>5, <1>7 DEF WInv

(* Sys_Error ends everything. *)
LEMMA SysErrorWInv ==
    ASSUME IInv', SysError
    PROVE  WInv'
<1>1. 0 \in Edicts /\ 1 \in Nodes
  BY WorldAssumption, NodeFacts DEF Edicts
<1>2. Shape'
  BY <1>1 DEF SysError, Shape, Phases
<1>3. Stored' /\ OnList' /\ NotLost'
  BY DEF SysError, Stored, OnList, NotLost
<1> DEFINE rank == [e \in Edicts |-> 0]
<1>4. rank \in [Edicts -> Nat] /\ \A f \in Edicts : rank[f] < 1
  OBVIOUS
<1> HIDE DEF rank
<1>5. Ordered(area', list', rank)
  BY ClearedOrdered DEF SysError
<1>6. Order(rank, 1)' /\ Owes(rank)' /\ 1 \in Nat
  BY <1>4, <1>5 DEF SysError, Order, Owes, Walking
<1> QED BY <1>2, <1>3, <1>4, <1>6 DEF WInv

LEMMA NextWInv == WInv /\ [Next]_vars => WInv'
<1> SUFFICES ASSUME WInv, [Next]_vars PROVE WInv'
  OBVIOUS
<1>0. IInv /\ IInv'
  BY NextInv DEF WInv
<1>1. CASE \E rested \in SUBSET FreeSlots : Reuse(rested)
  <2>1. PICK rested \in SUBSET FreeSlots : Reuse(rested)
    BY <1>1
  <2>2. PICK e : e = CHOOSE g \in rested : \A f \in rested : g <= f
    OBVIOUS
  <2>3. InProgram /\ ClearEdict(e) /\ rested # {}
    BY <2>1, <2>2 DEF Reuse
  <2>4. FreeSlots \subseteq Nat /\ FreeSlots \subseteq Edicts
    BY <1>0, WorldAssumption DEF FreeSlots, Removable, Edicts, IInv
  <2>5. \E g \in rested : \A f \in rested : g <= f
    BY <2>3, <2>4, LeastExists
  <2>6. e \in FreeSlots
    BY <2>2, <2>5
  <2>7. e \in Edicts /\ list[e] = NULL
    BY <1>0, <2>4, <2>6 DEF FreeSlots, IInv, LinkedLive
  <2> QED BY <1>0, <2>3, <2>7, ClearWInv
<1>2. CASE Extend
  <2>1. num_edicts \in Edicts /\ num_edicts \notin Programmed
    BY <1>0, <1>2, WorldAssumption DEF Extend, IInv, Edicts, Programmed
  <2>2. list[num_edicts] = NULL
    BY <1>0, <2>1 DEF IInv, LinkedLive
  <2> QED BY <1>0, <1>2, <2>1, <2>2, ClearWInv DEF Extend
<1>3. CASE NoFreeEdicts
  BY <1>0, <1>3, SysErrorWInv DEF NoFreeEdicts
<1>4. CASE \E e \in Removable : Remove(e)
  BY <1>0, <1>4, RemoveWInv
<1>5. CASE \E e \in Programmed, s \in {"not", "trigger", "solid"} : SetSolid(e, s)
  BY <1>0, <1>5, SetSolidWInv
<1>6. CASE \E e \in Programmed, b \in Boxes : SetOrigin(e, b) \/ MoveAndTouch(e, b)
  BY <1>0, <1>6, SetOriginWInv, MoveAndTouchWInv
<1>7. CASE \E b \in Probes : ClipError(b)
  BY <1>0, <1>7, SysErrorWInv DEF ClipError
<1>8. CASE Pass \/ Call \/ Return \/ Astray \/ LeaveList \/ Descend \/ EndWalk
  BY <1>0, <1>8, PassWInv, ReturnWInv, AstrayWInv, LeaveListWInv, DescendWInv, EndWalkWInv
<1>9. CASE UNCHANGED vars
  <2>1. UNCHANGED <<num_edicts, free, solid, absbox, area, list, pc, walker, node, l, nextl, todo, due, cut>>
    BY <1>9 DEF vars, edictVars, linkVars, walkVars, history
  <2>2. PICK rank \in [Edicts -> Nat], clock \in Nat : Order(rank, clock) /\ Owes(rank)
    BY DEF WInv
  <2>3. Order(rank, clock)'
    BY <2>1, <2>2 DEF Order
  <2>4. At' = At
    BY <2>1 DEF At
  <2>5. Owes(rank)'
    BY <2>1, <2>2, <2>4 DEF Owes, Walking, Owed, Ahead, InRest, InSubtree, InTodo, Waits
  <2>6. Shape' /\ Stored' /\ OnList' /\ NotLost'
    BY <2>1, <2>4 DEF WInv, Shape, Stored, OnList, NotLost
  <2> QED BY <1>0, <2>2, <2>3, <2>5, <2>6 DEF WInv
<1> QED BY <1>1, <1>2, <1>3, <1>4, <1>5, <1>6, <1>7, <1>8, <1>9 DEF Next

(* SV_LinkEdict stores every edict where the walks look for it: a walk for    *)
(* any box of whole numbers, over an area tree of any depth, reaches the node *)
(* of every linked edict whose box meets that box.                            *)
THEOREM WorldFoundWhereLinked == Spec => []FoundWhereLinked
<1>1. WInv => FoundWhereLinked
  <2> SUFFICES ASSUME WInv, NEW e \in Edicts, list[e] # NULL,
                      NEW b \in AllBoxes, Overlap(b, absbox[e])
               PROVE  list[e][2] \in Reached[b]
    BY DEF FoundWhereLinked
  <2>1. absbox[e] \in Boxes /\ list[e][2] = FirstCrossed(absbox[e])
    BY DEF WInv, Stored, NodeFor
  <2>2. b \in Whole /\ absbox[e] \in Whole
    BY <2>1, WorldAssumption DEF AllBoxes, Whole
  <2>3. FirstCrossed(absbox[e]) \in Walks(b)[1]
    BY <2>2, WalkReaches
  <2> QED BY <2>1, <2>3 DEF Reached
<1> QED BY <1>1, InitWInv, NextWInv, PTL DEF Spec

(* SV_TouchLinks calls every trigger that its edict intersected from the      *)
(* start of the walk on, and stays on its lists, whatever the touch functions *)
(* do, as long as none unlinks the edict that the walk has saved as the next. *)
THEOREM WorldTouchesEach == Spec => []TouchesEach
<1>1. WInv => TouchesEach
  <2> SUFFICES ASSUME WInv, ~ cut
               PROVE  /\ Over => due = {}
                      /\ pc = "list" => IsEdictLink(l) \/ l = TriggerList(node)
    BY DEF TouchesEach
  <2>1. pc # "lost"
    BY DEF WInv, NotLost
  <2>2. pc = "list" => IsEdictLink(l) \/ l = TriggerList(node)
    BY DEF WInv, OnList, At, IsEdictLink
  <2>3. ASSUME pc = "descend", todo = <<>>, NEW t \in due
        PROVE  FALSE
    <3>1. PICK rank \in [Edicts -> Nat], clock \in Nat : Order(rank, clock) /\ Owes(rank)
      BY DEF WInv
    <3>2. Owed(t, rank)
      BY <2>3, <3>1 DEF Owes, Walking
    <3>3. InTodo(t)
      BY <2>3, <3>2 DEF Owed, Ahead
    <3> QED BY <2>3, <3>3 DEF InTodo
  <2> QED BY <2>1, <2>2, <2>3 DEF Over
<1> QED BY <1>1, InitWInv, NextWInv, PTL DEF Spec

-----------------------------------------------------------------------------
(* Pushers: the doors, lifts and trains that move among the edicts, for any    *)
(* numbers of pushers and bodies, a grid of any size and any number of effects *)
(* in a push.  Their model has its own state; what its solid, pc, Width and    *)
(* Height are called here keeps them apart from those of World.                *)

CONSTANTS Pushers, Bodies, Players, Columns, Rows, MaxEffects
VARIABLES origin, live, solids, ground, flat, still, phase, push, check, moved, effects,
          start, handled, reused

Push == INSTANCE Pushers WITH Width <- Columns, Height <- Rows, solid <- solids, pc <- phase

\* The bodies that block what has a size, those of them that a push moves, those
\* the push has moved, and those whose place counts:
\* a push that goes back will still put back what it has moved.
Solids == (live \cap solids) \ flat
Movable == Solids \ still
Shoved == {moved[i].body : i \in 1 .. Len(moved)}
Steady == IF phase = "back" THEN Solids \ Shoved ELSE Solids

PushTypes ==
    /\ origin \in [Pushers \cup Bodies -> Push!Cells]
    /\ live \subseteq Bodies /\ solids \subseteq live /\ Players \subseteq live /\ reused \in BOOLEAN
    /\ phase \in {"idle", "scan", "touched", "back"}
    /\ moved \in Seq([body : Bodies, from : Push!Cells])
    /\ check \in Bodies \cup {NULL}

Underway ==
    /\ push \in [pusher : Pushers, from : Push!Cells, dir : Push!Directions]
    /\ start \in [Pushers \cup Bodies -> Push!Cells]
    /\ origin[push.pusher] = IF phase = "back" THEN push.from ELSE Push!Plus(push.from, push.dir)
    /\ phase # "scan" => check \in Bodies /\ moved # <<>> /\ moved[Len(moved)].body = check

\* The bodies are looked at in the order of their numbers, each once.
InOrder ==
    /\ \A i, j \in 1 .. Len(moved) : moved[i].body = moved[j].body => i = j
    /\ check \in Bodies => \A i \in 1 .. Len(moved) :
          IF phase = "scan" THEN moved[i].body < check ELSE moved[i].body <= check

\* What no function of the game laid hands on is where it was, or has gone along.
Accounted ==
    \A b \in live \ handled :
       /\ b \notin Shoved => origin[b] = start[b]
       /\ \A i \in 1 .. Len(moved) : moved[i].body = b =>
             /\ moved[i].from = start[b]
             /\ origin[b] \in {start[b], Push!Plus(start[b], push.dir)}

Others == Pushers \ {push.pusher}

\* No body that moves is in one that blocks, in another pusher, or where the pusher
\* came from; what lies behind the one looked at is clear of the pusher too.
Clear ==
    /\ \A a \in Steady, b \in Steady \ still : origin[a] = origin[b] => a = b
    /\ \A b \in Steady \ still, q \in Others : origin[b] # origin[q]
    /\ \A b \in Movable \ Shoved : origin[b] # push.from
    /\ phase # "back" => \A b \in Movable :
          (check \in Bodies => b < check) => origin[b] # origin[push.pusher]

\* All that has been moved can be put back.
Returnable ==
    \A i \in 1 .. Len(moved) : moved[i].body \in Solids =>
       /\ moved[i].from # push.from
       /\ \A q \in Others : moved[i].from # origin[q]
       /\ \A b \in Solids \ Shoved : origin[b] # moved[i].from
       /\ \A j \in 1 .. Len(moved) :
             moved[j].body \in Solids /\ moved[j].from = moved[i].from => i = j

PushInv ==
    /\ PushTypes
    /\ phase # "idle" => Underway /\ InOrder /\ Accounted
    /\ phase # "idle" /\ ~reused => Clear /\ Returnable
    /\ Push!NothingStuck

(* The grid: its first cell, and a step to another. *)
LEMMA GridFacts ==
    ASSUME Push!PushersAssumption
    PROVE  /\ <<0, 0>> \in Push!Cells
           /\ \A c \in Push!Cells, d \in Push!Directions : Push!Plus(c, d) # c
BY DEF Push!PushersAssumption, Push!Cells, Push!Directions, Push!Plus

(* The body looked at after check is the least one behind it. *)
LEMMA NextCheckFacts ==
    ASSUME Push!PushersAssumption, check \in Bodies
    PROVE  /\ Push!NextCheck \in Bodies \cup {NULL}
           /\ Push!NextCheck \in Bodies => check < Push!NextCheck
           /\ \A b \in Bodies : (Push!NextCheck \in Bodies => b < Push!NextCheck) => b <= check
<1>1. Bodies \subseteq Nat /\ NULL \notin Bodies /\ check # NULL
  BY DEF Push!PushersAssumption
<1>2. Push!Following = {b \in Bodies : b > check}
  BY <1>1 DEF Push!Following
<1>3. CASE Push!Following = {}
  <2>1. Push!NextCheck = NULL
    BY <1>3 DEF Push!NextCheck
  <2>2. \A b \in Bodies : ~ (b > check)
    BY <1>2, <1>3
  <2> QED BY <1>1, <2>1, <2>2
<1>4. CASE Push!Following # {}
  <2>1. \E b \in Push!Following : \A a \in Push!Following : b <= a
    BY <1>1, <1>2, <1>4, LeastExists
  <2>2. Push!NextCheck \in Push!Following /\ \A a \in Push!Following : Push!NextCheck <= a
    BY <1>4, <2>1 DEF Push!NextCheck
  <2>3. ASSUME NEW b \in Bodies, b < Push!NextCheck
        PROVE  b <= check
    <3>1. b \notin Push!Following
      BY <1>1, <1>2, <2>2, <2>3
    <3> QED BY <1>1, <1>2, <3>1
  <2> QED BY <1>1, <1>2, <2>2, <2>3
<1> QED BY <1>3, <1>4

(* What blocks at a cell, when no pusher is hidden. *)
LEMMA HitsFacts ==
    ASSUME Push!PushersAssumption
    PROVE  /\ \A c : Push!HitsModel(c, NULL) <=> c \notin Push!Cells \/ \E p \in Pushers : origin[p] = c
           /\ \A c : Push!Vacant(c) => /\ c \in Push!Cells
                                       /\ \A p \in Pushers : origin[p] # c
                                       /\ \A a \in live : origin[a] # c
BY DEF Push!PushersAssumption, Push!HitsModel, Push!Vacant

LEMMA InitPushInv ==
    ASSUME Push!PushersAssumption, Push!Init
    PROVE  PushInv
<1>1. PushTypes
  <2>1. live \subseteq Bodies /\ solids \subseteq live
    BY DEF Push!Init
  <2>2. moved = <<>> /\ <<>> \in Seq([body : Bodies, from : Push!Cells])
    BY DEF Push!Init
  <2> QED BY <2>1, <2>2 DEF Push!Init, PushTypes
<1>2. Push!NothingStuck
  BY DEF Push!Init, Push!NothingStuck, Push!Stuck
<1> QED BY <1>1, <1>2 DEF PushInv, Push!Init

LEMMA EndTypes ==
    ASSUME PushTypes, Push!End, origin' \in [Pushers \cup Bodies -> Push!Cells]
    PROVE  PushTypes'
<1>1. phase' = "idle" /\ UNCHANGED <<live, solids, reused>>
  BY DEF Push!End, Push!bodies
<1>2. moved' = <<>> /\ <<>> \in Seq([body : Bodies, from : Push!Cells]) /\ check' = NULL
  BY DEF Push!End
<1> QED BY <1>1, <1>2 DEF PushTypes, Push!Cells

LEMMA EndPushInv ==
    ASSUME PushTypes, Push!End, origin' \in [Pushers \cup Bodies -> Push!Cells],
           Push!NothingStuck'
    PROVE  PushInv'
<1>1. phase' = "idle"
  BY DEF Push!End
<1>2. PushTypes'
  BY EndTypes
<1> QED BY <1>1, <1>2 DEF PushInv

LEMMA EntryFacts ==
    ASSUME PushTypes
    PROVE  /\ Len(moved) \in Nat
           /\ \A i \in 1 .. Len(moved) : moved[i].body \in Bodies /\ moved[i].from \in Push!Cells
<1>1. moved \in Seq([body : Bodies, from : Push!Cells])
  BY DEF PushTypes
<1>2. \A i \in 1 .. Len(moved) : moved[i] \in [body : Bodies, from : Push!Cells]
  BY <1>1, ElementOfSeq
<1> QED BY <1>1, <1>2, LenProperties

LEMMA BeginPushInv ==
    ASSUME Push!PushersAssumption, PushInv, NEW p \in Pushers, NEW d \in Push!Directions, Push!Begin(p, d)
    PROVE  PushInv'
<1>1. /\ phase = "idle" /\ ~reused /\ Push!Plus(origin[p], d) \in Push!Cells
      /\ origin' = [origin EXCEPT ![p] = Push!Plus(@, d)]
      /\ push' = [pusher |-> p, from |-> origin[p], dir |-> d]
      /\ phase' = "scan" /\ check' = CHOOSE b \in Bodies : \A a \in Bodies : b <= a
      /\ moved' = <<>> /\ start' = origin /\ handled' = {}
      /\ UNCHANGED <<live, solids, flat, still, reused>>
  BY DEF Push!Begin, Push!Idle, Push!bodies
<1>2. PushTypes /\ Push!NothingStuck
  BY DEF PushInv
<1>3. Bodies \subseteq Nat /\ Bodies # {} /\ p \notin Bodies /\ NULL \notin Bodies
  BY DEF Push!PushersAssumption
<1>4. check' \in Bodies /\ \A a \in Bodies : check' <= a
  <2>1. \E b \in Bodies : \A a \in Bodies : b <= a
    BY <1>3, LeastExists
  <2> QED BY <1>1, <2>1
<1>5. <<>> \in Seq([body : Bodies, from : Push!Cells])
  OBVIOUS
<1>6. PushTypes'
  <2>1. origin' \in [Pushers \cup Bodies -> Push!Cells]
    BY <1>1, <1>2 DEF PushTypes
  <2> QED BY <1>1, <1>2, <1>4, <1>5, <2>1 DEF PushTypes, Push!Cells
<1>7. Underway'
  <2>1. origin[p] \in Push!Cells
    BY <1>2 DEF PushTypes
  <2>2. origin'[p] = Push!Plus(origin[p], d)
    BY <1>1, <1>2 DEF PushTypes
  <2> QED BY <1>1, <1>2, <2>1, <2>2 DEF Underway, PushTypes, Push!Cells, Push!Directions, Push!Plus
<1>8. InOrder' /\ Returnable' /\ Shoved' = {}
  BY <1>1 DEF InOrder, Returnable, Shoved
<1>9. Accounted'
  <2>1. \A b \in live : origin'[b] = origin[b]
    BY <1>1, <1>2, <1>3 DEF PushTypes
  <2> QED BY <1>1, <1>8, <2>1 DEF Accounted
<1>10. Clear'
  <2>1. /\ Solids' = Solids /\ Steady' = Solids /\ Solids \subseteq Bodies
        /\ Movable' = Movable /\ Movable = Solids \ still /\ still' = still
    BY <1>1, <1>2 DEF Solids, Movable, Steady, PushTypes
  <2>2. \A b \in Solids : origin'[b] = origin[b]
    BY <1>1, <1>2, <1>3, <2>1 DEF PushTypes
  <2>3. \A b \in Movable : ~Push!HitsModel(origin[b], NULL) /\ ~Push!HitsBody(b, origin[b])
    BY <1>1, <1>2 DEF Push!NothingStuck, Push!Stuck, Solids, Movable
  <2>4. \A b \in Movable, q \in Pushers : origin[b] # origin[q]
    BY <2>3, HitsFacts
  <2>5. \A a \in Solids, b \in Movable : origin[a] = origin[b] => a = b
    BY <2>3 DEF Push!HitsBody, Solids, Movable
  <2>6. \A q \in Others' : origin'[q] = origin[q] /\ q \in Pushers
    BY <1>1, <1>2 DEF Others, PushTypes
  <2>7. \A b \in Solids : ~ (b < check')
    BY <1>3, <1>4, <2>1
  <2> QED BY <1>1, <1>4, <1>8, <2>1, <2>2, <2>4, <2>5, <2>6, <2>7 DEF Clear
<1> QED BY <1>1, <1>6, <1>7, <1>8, <1>9, <1>10 DEF PushInv, Push!NothingStuck

(* A step of the walk over the bodies to the next one. *)
LEMMA WalkPushInv ==
    ASSUME Push!PushersAssumption, PushInv, Push!Step,
           phase \in {"scan", "touched"}, phase' = "scan",
           check \in Bodies, check' = Push!NextCheck,
           phase = "touched" \/ check \notin Shoved,
           check \in Movable => origin[check] # origin[push.pusher],
           UNCHANGED <<origin, live, solids, still, moved>>, Solids' = Solids
    PROVE  PushInv'
<1>1. UNCHANGED <<push, start, handled, reused>>
  BY DEF Push!Step
<1>2. PushTypes /\ Underway /\ InOrder /\ Accounted
  BY DEF PushInv
<1>3. /\ check' \in Bodies \cup {NULL}
      /\ check' \in Bodies => check < check'
      /\ \A b \in Bodies : (check' \in Bodies => b < check') => b <= check
  BY NextCheckFacts
<1>4. Bodies \subseteq Nat
  BY DEF Push!PushersAssumption
<1>5. PushTypes'
  BY <1>1, <1>2, <1>3 DEF PushTypes, Push!Cells
<1>6. Underway'
  BY <1>1, <1>2 DEF Underway, Push!Cells, Push!Plus, Push!Directions
<1>7. InOrder'
  <2>1. ASSUME check' \in Bodies, NEW i \in 1 .. Len(moved)
        PROVE  moved[i].body < check'
    <3> DEFINE b == moved[i].body
    <3>1. b \in Bodies
      BY <1>2, <2>1, EntryFacts
    <3>2. IF phase = "scan" THEN b < check ELSE b <= check
      BY <1>2, <2>1 DEF InOrder
    <3> HIDE DEF b
    <3>3. b <= check
      BY <1>4, <3>1, <3>2
    <3>4. b < check'
      BY <1>3, <1>4, <2>1, <3>1, <3>3
    <3> QED BY <3>4 DEF b
  <2> QED BY <1>2, <2>1 DEF InOrder
<1>8. /\ Shoved' = Shoved /\ Solids' = Solids /\ Movable' = Movable /\ Steady' = Steady /\ Others' = Others
      /\ still' = still
  BY <1>1 DEF Shoved, Movable, Steady, Others
<1>9. Accounted'
  BY <1>1, <1>2, <1>8 DEF Accounted, Push!Plus
<1>10. ASSUME ~reused PROVE Clear' /\ Returnable'
  <2>1. Clear /\ Returnable
    BY <1>10 DEF PushInv
  <2>2. Returnable'
    BY <1>1, <1>8, <2>1 DEF Returnable
  <2>3. ASSUME NEW b \in Movable, check' \in Bodies => b < check'
        PROVE  origin[b] # origin[push.pusher]
    <3>1. b \in Bodies
      BY <1>2 DEF PushTypes, Solids, Movable
    <3>2. b <= check
      BY <1>3, <2>3, <3>1
    <3>3. b < check \/ b = check
      BY <1>4, <3>1, <3>2
    <3> QED BY <2>1, <3>3 DEF Clear
  <2> QED BY <1>1, <1>8, <2>1, <2>2, <2>3 DEF Clear
<1> QED BY <1>1, <1>5, <1>6, <1>7, <1>9, <1>10 DEF PushInv, Push!NothingStuck

LEMMA SkipPushInv ==
    ASSUME Push!PushersAssumption, PushInv, Push!Skip
    PROVE  PushInv'
<1>1. /\ phase = "scan" /\ phase' = "scan" /\ check # NULL /\ ~Push!Concerns(check)
      /\ check' = Push!NextCheck /\ UNCHANGED <<origin, live, solids, flat, still, moved>> /\ Push!Step
  BY DEF Push!Skip, Push!bodies
<1>2. PushTypes /\ InOrder
  BY <1>1 DEF PushInv
<1>3. check \in Bodies /\ Bodies \subseteq Nat
  BY <1>1, <1>2 DEF PushTypes, Push!PushersAssumption
<1>4. check \notin Shoved
  <2>1. \A i \in 1 .. Len(moved) : moved[i].body < check
    BY <1>1, <1>2, <1>3 DEF InOrder
  <2>2. ~ (check < check)
    BY <1>3
  <2> QED BY <2>1, <2>2, Zenon DEF Shoved
<1>5. ASSUME check \in Movable PROVE origin[check] # origin[push.pusher]
  <2>1. origin[check] = origin[push.pusher] => ~Push!Stuck(check)
    BY <1>1, <1>5 DEF Push!Concerns, Push!Meets, Solids, Movable
  <2>2. push.pusher \in Pushers
    BY <1>1 DEF PushInv, Underway
  <2> QED BY <2>1, <2>2, HitsFacts DEF Push!Stuck
<1>6. Solids' = Solids
  BY <1>1 DEF Solids
<1> QED BY <1>1, <1>3, <1>4, <1>5, <1>6, WalkPushInv

LEMMA PassesPushInv ==
    ASSUME Push!PushersAssumption, PushInv, Push!Passes
    PROVE  PushInv'
<1>1. /\ phase = "touched" /\ phase' = "scan" /\ ~Push!Inside(check)
      /\ check' = Push!NextCheck /\ UNCHANGED <<origin, live, solids, flat, still, moved>> /\ Push!Step
  BY DEF Push!Passes, Push!bodies
<1>2. check \in Bodies /\ push.pusher \in Pushers
  BY <1>1 DEF PushInv, Underway
<1>3. check \in Movable => origin[check] # origin[push.pusher]
  BY <1>1, <1>2, HitsFacts DEF Push!Inside, Push!Stuck, Solids, Movable
<1>4. Solids' = Solids
  BY <1>1 DEF Solids
<1> QED BY <1>1, <1>2, <1>3, <1>4, WalkPushInv

LEMMA LeavesPointPushInv ==
    ASSUME Push!PushersAssumption, PushInv, Push!LeavesPoint
    PROVE  PushInv'
<1>1. /\ phase = "touched" /\ phase' = "scan" /\ check \in flat
      /\ check' = Push!NextCheck /\ UNCHANGED <<origin, live, solids, flat, still, moved>> /\ Push!Step
  BY DEF Push!LeavesPoint, Push!bodies
<1>2. check \in Bodies
  BY <1>1 DEF PushInv, Underway
<1>3. check \notin Movable /\ Solids' = Solids
  BY <1>1 DEF Solids, Movable
<1> QED BY <1>1, <1>2, <1>3, WalkPushInv

LEMMA FlattensPushInv ==
    ASSUME Push!PushersAssumption, PushInv, Push!Flattens
    PROVE  PushInv'
<1>1. /\ phase = "touched" /\ phase' = "scan" /\ check \notin solids
      /\ flat' = flat \cup {check}
      /\ check' = Push!NextCheck /\ UNCHANGED <<origin, live, solids, still, moved>> /\ Push!Step
  BY DEF Push!Flattens
<1>2. check \in Bodies
  BY <1>1 DEF PushInv, Underway
<1>3. check \notin Movable /\ Solids' = Solids
  BY <1>1 DEF Solids, Movable
<1> QED BY <1>1, <1>2, <1>3, WalkPushInv

(* Where a push leaves a body: the cell gone to is free of other pushers and,  *)
(* if the body blocks others, of what blocks it.                               *)
LEMMA EndsFacts ==
    ASSUME Push!PushersAssumption, PushTypes, NEW b \in Bodies, NEW c \in Push!Ends(b)
    PROVE  /\ c \in Push!Cells
           /\ c # origin[b] =>
                 /\ c = Push!Plus(origin[b], push.dir)
                 /\ \A q \in Others : origin[q] # c
                 /\ b \in Solids => \A a \in Solids \ {b} : origin[a] # c
<1>1. origin[b] \in Push!Cells
  BY DEF PushTypes
<1>2. CASE b \in solids \cap flat
  BY <1>1, <1>2 DEF Push!Ends, Push!HitsModel, Solids, Others
<1>3. CASE b \notin solids \cap flat
  <2>1. c = Push!Pushed(b)
    BY <1>3 DEF Push!Ends
  <2> QED BY <1>1, <1>3, <2>1 DEF Push!Pushed, Push!HitsModel, Push!HitsBody, Solids, Others
<1> QED BY <1>2, <1>3

LEMMA PushPushInv ==
    ASSUME Push!PushersAssumption, PushInv, Push!Push
    PROVE  PushInv'
<1> DEFINE n == Len(moved)
<1>0. PICK to \in Push!Ends(check) : origin' = [origin EXCEPT ![check] = to]
  BY DEF Push!Push
<1>1. /\ phase = "scan" /\ phase' = "touched" /\ check # NULL /\ check \in live \ still
      /\ moved' = Append(moved, [body |-> check, from |-> origin[check]])
      /\ origin' = [origin EXCEPT ![check] = to]
      /\ UNCHANGED <<live, solids, flat, still, check, push, start, handled, reused>>
  BY <1>0 DEF Push!Push, Push!Concerns, Push!Entry, Push!Step
<1>2. PushTypes /\ Underway /\ InOrder /\ Accounted
  BY <1>1 DEF PushInv
<1>3. check \in Bodies /\ Bodies \subseteq Nat /\ Pushers \cap Bodies = {}
  BY <1>1, <1>2 DEF PushTypes, Push!PushersAssumption
<1>4. /\ to \in Push!Cells
      /\ to # origin[check] =>
            /\ to = Push!Plus(origin[check], push.dir)
            /\ \A q \in Others : origin[q] # to
            /\ check \in Solids => \A a \in Solids \ {check} : origin[a] # to
  BY <1>2, <1>3, EndsFacts
<1>5. origin'[check] = to /\ \A x \in Pushers \cup Bodies : x # check => origin'[x] = origin[x]
  BY <1>1, <1>2, <1>3 DEF PushTypes
<1>6. /\ n \in Nat /\ Len(moved') = n + 1
      /\ \A i \in 1 .. n : moved'[i] = moved[i]
      /\ moved'[n + 1].body = check /\ moved'[n + 1].from = origin[check]
      /\ moved' \in Seq([body : Bodies, from : Push!Cells])
  <2>1. moved \in Seq([body : Bodies, from : Push!Cells])
    BY <1>2 DEF PushTypes
  <2>2. [body |-> check, from |-> origin[check]] \in [body : Bodies, from : Push!Cells]
    BY <1>2, <1>3 DEF PushTypes
  <2> QED BY <1>1, <2>1, <2>2, AppendProperties
<1>7. \A i \in 1 .. n : moved[i].body \in Bodies /\ moved[i].body < check
  BY <1>1, <1>2, <1>3, EntryFacts DEF InOrder
<1>8. \A i \in 1 .. Len(moved)' : i \in 1 .. n \/ i = n + 1
  BY <1>6
<1>9. check \notin Shoved /\ Shoved' = Shoved \cup {check}
  <2>1. ~ (check < check)
    BY <1>3
  <2>2. check \notin Shoved
    BY <1>7, <2>1, Zenon DEF Shoved
  <2>3. Shoved' \subseteq Shoved \cup {check}
    BY <1>6, <1>8 DEF Shoved
  <2>4. check \in Shoved'
    BY <1>6 DEF Shoved
  <2>5. Shoved \subseteq Shoved'
    BY <1>6 DEF Shoved
  <2> QED BY <2>2, <2>3, <2>4, <2>5
<1>10. PushTypes'
  <2>1. origin' \in [Pushers \cup Bodies -> Push!Cells]
    BY <1>1, <1>2, <1>4 DEF PushTypes
  <2> QED BY <1>1, <1>2, <1>6, <2>1 DEF PushTypes, Push!Cells
<1>11. Underway'
  <2>1. origin'[push.pusher] = origin[push.pusher]
    BY <1>2, <1>3, <1>5 DEF Underway
  <2>2. moved' # <<>> /\ moved'[Len(moved)'].body = check
    BY <1>6
  <2> QED BY <1>1, <1>2, <1>3, <2>1, <2>2 DEF Underway, Push!Cells, Push!Directions, Push!Plus
<1>12. InOrder'
  <2>1. ASSUME NEW i \in 1 .. Len(moved)', NEW j \in 1 .. Len(moved)', moved'[i].body = moved'[j].body
        PROVE  i = j
    <3>1. CASE i \in 1 .. n /\ j \in 1 .. n
      BY <1>2, <1>6, <2>1, <3>1 DEF InOrder
    <3>2. \A k \in 1 .. n : moved[k].body # check
      <4>1. ~ (check < check)
        BY <1>3
      <4> QED BY <1>7, <4>1, Zenon
    <3>3. CASE i \in 1 .. n /\ j = n + 1
      BY <1>6, <2>1, <3>2, <3>3
    <3>4. CASE j \in 1 .. n /\ i = n + 1
      BY <1>6, <2>1, <3>2, <3>4
    <3> QED BY <1>8, <3>1, <3>3, <3>4
  <2>2. ASSUME NEW i \in 1 .. Len(moved)' PROVE moved'[i].body <= check
    <3>1. \A b \in Bodies : b < check => b <= check
      BY <1>3
    <3>2. check <= check
      BY <1>3
    <3>3. CASE i \in 1 .. n
      BY <1>6, <1>7, <3>1, <3>3
    <3> QED BY <1>6, <1>8, <3>2, <3>3
  <2>3. check' = check /\ phase' # "scan"
    BY <1>1
  <2> QED BY <2>1, <2>2, <2>3, Zenon DEF InOrder
<1>13. Accounted'
  <2> SUFFICES ASSUME NEW b \in live \ handled
               PROVE  /\ b \notin Shoved' => origin'[b] = start[b]
                      /\ \A i \in 1 .. Len(moved)' : moved'[i].body = b =>
                            /\ moved'[i].from = start[b]
                            /\ origin'[b] \in {start[b], Push!Plus(start[b], push.dir)}
    BY <1>1 DEF Accounted, Push!Plus
  <2>1. CASE b = check
    <3>1. origin[b] = start[b]
      BY <1>2, <1>9, <2>1 DEF Accounted
    <3>2. \A i \in 1 .. n : moved'[i].body # b
      <4>1. ~ (check < check)
        BY <1>3
      <4>2. \A i \in 1 .. n : moved[i].body # check
        BY <1>7, <4>1, Zenon
      <4> QED BY <1>6, <2>1, <4>2
    <3> QED BY <1>4, <1>5, <1>6, <1>8, <1>9, <2>1, <3>1, <3>2
  <2>2. CASE b # check
    <3>1. b \in Bodies /\ origin'[b] = origin[b]
      BY <1>2, <1>5, <2>2 DEF PushTypes
    <3> QED BY <1>2, <1>6, <1>8, <1>9, <2>2, <3>1 DEF Accounted
  <2> QED BY <2>1, <2>2
<1>14. ASSUME ~reused PROVE Clear' /\ Returnable'
  <2>1. Clear /\ Returnable
    BY <1>1, <1>14 DEF PushInv
  <2>2. /\ Solids' = Solids /\ Steady' = Solids /\ Steady = Solids /\ Others' = Others
        /\ Movable' = Movable /\ Movable = Solids \ still /\ still' = still
    BY <1>1 DEF Solids, Movable, Steady, Others
  <2>3. Solids \subseteq Bodies /\ Others \subseteq Pushers
    BY <1>2 DEF PushTypes, Solids, Others
  <2>4. /\ \A a \in Solids, b \in Movable : origin[a] = origin[b] => a = b
        /\ \A b \in Movable, q \in Others : origin[b] # origin[q]
        /\ \A b \in Movable \ Shoved : origin[b] # push.from
        /\ \A b \in Movable : b < check => origin[b] # origin[push.pusher]
    BY <1>1, <1>3, <2>1, <2>2 DEF Clear
  <2>5. \A q \in Pushers : origin'[q] = origin[q]
    BY <1>3, <1>5
  <2>6. ASSUME check \in Solids, NEW b \in Solids, b # check PROVE origin[b] # to
    <3>0. check \in Movable
      BY <1>1, <2>2, <2>6
    <3>1. CASE to = origin[check]
      BY <2>4, <2>6, <3>0, <3>1
    <3>2. CASE to # origin[check]
      BY <1>4, <2>6, <3>2
    <3> QED BY <3>1, <3>2
  <2>7. \A a \in Solids, b \in Movable : origin'[a] = origin'[b] => a = b
    BY <1>5, <2>2, <2>3, <2>4, <2>6
  <2>8. ASSUME NEW b \in Movable, NEW q \in Others PROVE origin'[b] # origin'[q]
    <3>1. CASE b = check
      BY <1>4, <1>5, <2>2, <2>3, <2>4, <2>5, <3>1
    <3>2. CASE b # check
      BY <1>5, <2>2, <2>3, <2>4, <2>5, <3>2
    <3> QED BY <3>1, <3>2
  <2>9. \A b \in Solids \ Shoved' : b # check /\ b \notin Shoved /\ origin'[b] = origin[b]
    BY <1>5, <1>9, <2>3
  <2>10. \A b \in Movable : b < check => origin'[b] # origin'[push.pusher]
    <3>1. \A b \in Movable : b \in Solids /\ (b < check => b # check)
      BY <1>3, <2>2, <2>3
    <3>2. push.pusher \in Pushers
      BY <1>2 DEF Underway
    <3> QED BY <1>5, <2>3, <2>4, <2>5, <3>1, <3>2
  <2>11. Clear'
    BY <1>1, <1>3, <2>2, <2>4, <2>7, <2>8, <2>9, <2>10 DEF Clear
  <2>12. ASSUME NEW i \in 1 .. Len(moved)', moved'[i].body \in Solids
         PROVE  /\ moved'[i].from # push.from
                /\ \A q \in Others : moved'[i].from # origin[q]
                /\ \A b \in Solids \ Shoved' : origin[b] # moved'[i].from
    <3>1. CASE i \in 1 .. n
      BY <1>6, <2>1, <2>9, <2>12, <3>1 DEF Returnable
    <3>2. CASE i = n + 1
      <4>1. check \in Movable \ Shoved
        BY <1>1, <1>6, <1>9, <2>2, <2>12, <3>2
      <4> QED BY <1>6, <2>4, <2>9, <3>2, <4>1
    <3> QED BY <1>8, <3>1, <3>2
  <2>13. ASSUME check \in Solids, NEW i \in 1 .. n, moved[i].body \in Solids
         PROVE  moved[i].from # origin[check]
    BY <1>9, <2>1, <2>13 DEF Returnable
  <2>14. ASSUME NEW i \in 1 .. Len(moved)', moved'[i].body \in Solids,
                NEW j \in 1 .. Len(moved)', moved'[j].body \in Solids, moved'[j].from = moved'[i].from
         PROVE  i = j
    <3>1. CASE i \in 1 .. n /\ j \in 1 .. n
      BY <1>6, <2>1, <2>14, <3>1 DEF Returnable
    <3>2. CASE i \in 1 .. n /\ j = n + 1
      BY <1>6, <2>13, <2>14, <3>2
    <3>3. CASE j \in 1 .. n /\ i = n + 1
      BY <1>6, <2>13, <2>14, <3>3
    <3> QED BY <1>8, <3>1, <3>2, <3>3
  <2>15. Returnable'
    BY <1>1, <2>2, <2>3, <2>5, <2>9, <2>12, <2>14 DEF Returnable
  <2> QED BY <2>11, <2>15
<1> QED BY <1>1, <1>10, <1>11, <1>12, <1>13, <1>14 DEF PushInv, Push!NothingStuck

LEMMA BlockedPushInv ==
    ASSUME Push!PushersAssumption, PushInv, Push!Blocked
    PROVE  PushInv'
<1> DEFINE n == Len(moved)
<1>1. /\ phase = "touched" /\ phase' = "back"
      /\ origin' = [origin EXCEPT ![check] = moved[n].from, ![push.pusher] = push.from]
      /\ UNCHANGED <<live, solids, flat, still, check, moved, push, start, handled, reused>>
  BY DEF Push!Blocked, Push!bodies, Push!Step
<1>2. PushTypes /\ Underway /\ InOrder /\ Accounted
  BY <1>1 DEF PushInv
<1>3. /\ check \in Bodies /\ Pushers \cap Bodies = {} /\ push.pusher \in Pushers /\ push.from \in Push!Cells
      /\ moved # <<>> /\ moved[n].body = check
  BY <1>1, <1>2 DEF Underway, Push!PushersAssumption
<1>4. n \in 1 .. Len(moved) /\ moved[n].from \in Push!Cells
  <2>1. n \in Nat /\ n # 0
    BY <1>2, <1>3, EntryFacts, EmptySeq DEF PushTypes
  <2> QED BY <1>2, <2>1, EntryFacts
<1>5. /\ origin'[check] = moved[n].from /\ origin'[push.pusher] = push.from
      /\ \A x \in Pushers \cup Bodies : x # check /\ x # push.pusher => origin'[x] = origin[x]
      /\ origin' \in [Pushers \cup Bodies -> Push!Cells]
  BY <1>1, <1>2, <1>3, <1>4 DEF PushTypes
<1>6. check \in Shoved /\ Shoved' = Shoved /\ Solids' = Solids /\ Steady' = Solids \ Shoved /\ Others' = Others
  BY <1>1, <1>3, <1>4 DEF Shoved, Solids, Steady, Others
<1>7. PushTypes'
  BY <1>1, <1>2, <1>5 DEF PushTypes, Push!Cells
<1>8. Underway'
  BY <1>1, <1>2, <1>5 DEF Underway, Push!Cells, Push!Directions, Push!Plus
<1>9. InOrder'
  BY <1>1, <1>2 DEF InOrder
<1>10. Accounted'
  <2> SUFFICES ASSUME NEW b \in live \ handled
               PROVE  /\ b \notin Shoved => origin'[b] = start[b]
                      /\ \A i \in 1 .. Len(moved) : moved[i].body = b =>
                            /\ moved[i].from = start[b]
                            /\ origin'[b] \in {start[b], Push!Plus(start[b], push.dir)}
    BY <1>1, <1>6 DEF Accounted, Push!Plus
  <2>1. CASE b = check
    BY <1>2, <1>3, <1>4, <1>5, <1>6, <2>1 DEF Accounted
  <2>2. CASE b # check
    <3>1. origin'[b] = origin[b]
      BY <1>2, <1>3, <1>5, <2>2 DEF PushTypes
    <3> QED BY <1>2, <3>1 DEF Accounted
  <2> QED BY <2>1, <2>2
<1>11. ASSUME ~reused PROVE Clear' /\ Returnable'
  <2>1. Clear /\ Returnable
    BY <1>1, <1>11 DEF PushInv
  <2>2. Movable' = Movable /\ Movable = Solids \ still /\ still' = still
    BY <1>1, <1>6 DEF Movable
  <2>3. \A b \in Solids \ Shoved : b \in Steady /\ origin'[b] = origin[b]
    BY <1>1, <1>2, <1>3, <1>5, <1>6 DEF Steady, Solids, PushTypes
  <2>4. \A q \in Others : origin'[q] = origin[q]
    BY <1>3, <1>5 DEF Others
  <2>5. /\ \A a \in Solids \ Shoved, b \in (Solids \ Shoved) \ still : origin'[a] = origin'[b] => a = b
        /\ \A b \in (Solids \ Shoved) \ still, q \in Others : origin'[b] # origin'[q]
        /\ \A b \in Movable \ Shoved : origin'[b] # push.from
    BY <2>1, <2>3, <2>4, <2>2 DEF Clear
  <2>6. Clear'
    BY <1>1, <1>6, <2>5, <2>2 DEF Clear
  <2>7. \A i \in 1 .. Len(moved) : moved[i].body \in Solids =>
           /\ moved[i].from # push.from
           /\ \A q \in Others : moved[i].from # origin'[q]
           /\ \A b \in Solids \ Shoved : origin'[b] # moved[i].from
           /\ \A j \in 1 .. Len(moved) :
                 moved[j].body \in Solids /\ moved[j].from = moved[i].from => i = j
    BY <2>1, <2>3, <2>4 DEF Returnable
  <2>8. Returnable'
    BY <1>1, <1>6, <2>7, Zenon DEF Returnable
  <2> QED BY <2>6, <2>8
<1> QED BY <1>1, <1>7, <1>8, <1>9, <1>10, <1>11 DEF PushInv, Push!NothingStuck

(* When no body that moves is in a pusher or in what blocks it, nothing is stuck. *)
LEMMA NothingStuckAfter ==
    ASSUME Push!PushersAssumption, PushTypes',
           ~reused' => /\ \A a \in Solids', b \in Movable' : origin'[a] = origin'[b] => a = b
                       /\ \A b \in Movable', q \in Pushers : origin'[b] # origin'[q]
    PROVE  Push!NothingStuck'
<1> SUFFICES ASSUME ~reused', NEW b \in Movable'
             PROVE  /\ origin'[b] \in Push!Cells
                    /\ ~ \E q \in Pushers \ {NULL} : origin'[q] = origin'[b]
                    /\ ~ \E a \in Solids' \ {b} : origin'[a] = origin'[b]
  BY DEF Push!NothingStuck, Push!Stuck, Push!HitsModel, Push!HitsBody, Push!Cells, Solids, Movable
<1>1. b \in Bodies /\ origin'[b] \in Push!Cells
  BY DEF PushTypes, Solids, Movable, Push!Cells
<1> QED BY <1>1

LEMMA UndoPushInv ==
    ASSUME Push!PushersAssumption, PushInv, Push!Undo
    PROVE  PushInv'
<1> DEFINE Back(x) == {i \in 1 .. Len(moved) : moved[i].body = x}
<1>1. /\ phase = "back" /\ Push!End /\ UNCHANGED <<live, solids, flat, still, reused>>
      /\ origin' = [x \in DOMAIN origin |->
                      IF \E i \in 1 .. Len(moved) : moved[i].body = x /\ x \in live
                      THEN moved[CHOOSE i \in 1 .. Len(moved) : moved[i].body = x].from
                      ELSE origin[x]]
  BY DEF Push!Undo, Push!End, Push!bodies
<1>2. PushTypes /\ Underway /\ InOrder
  BY <1>1 DEF PushInv
<1>3. Pushers \cap Bodies = {}
  BY DEF Push!PushersAssumption
<1>4. \A x \in Pushers \cup Bodies : x \notin Shoved \/ x \notin live => origin'[x] = origin[x]
  BY <1>1, <1>2 DEF PushTypes, Shoved
<1>5. ASSUME NEW x \in Bodies, x \in live, NEW i \in 1 .. Len(moved), moved[i].body = x
      PROVE  origin'[x] = moved[i].from
  <2> DEFINE k == CHOOSE k \in 1 .. Len(moved) : moved[k].body = x
  <2>1. k \in 1 .. Len(moved) /\ moved[k].body = x
    BY <1>5
  <2>2. k = i
    BY <1>2, <1>5, <2>1 DEF InOrder
  <2>3. origin'[x] = moved[k].from
    BY <1>1, <1>2, <1>5 DEF PushTypes
  <2> QED BY <2>2, <2>3
<1>6. \A q \in Pushers : origin'[q] = origin[q]
  <2>1. \A q \in Pushers : q \notin live
    BY <1>2, <1>3 DEF PushTypes
  <2> QED BY <1>4, <2>1
<1>7. origin' \in [Pushers \cup Bodies -> Push!Cells]
  <2>1. \A x \in Pushers \cup Bodies : origin'[x] \in Push!Cells
    <3> TAKE x \in Pushers \cup Bodies
    <3>1. CASE x \notin Shoved \/ x \notin live
      BY <1>2, <1>4, <3>1 DEF PushTypes
    <3>2. CASE x \in Shoved /\ x \in live
      <4>1. PICK i \in 1 .. Len(moved) : moved[i].body = x
        BY <3>2 DEF Shoved
      <4>2. x \in Bodies
        BY <1>2, <3>2 DEF PushTypes
      <4> QED BY <1>2, <1>5, <3>2, <4>1, <4>2, EntryFacts
    <3> QED BY <3>1, <3>2
  <2> QED BY <1>1, <1>2, <2>1 DEF PushTypes
<1>8. ASSUME ~reused
      PROVE  /\ \A a \in Solids, b \in Movable : origin'[a] = origin'[b] => a = b
             /\ \A b \in Movable, q \in Pushers : origin'[b] # origin'[q]
  <2>1. Clear /\ Returnable /\ Steady = Solids \ Shoved
    BY <1>1, <1>8 DEF PushInv, Steady
  <2>2. Movable = Solids \ still /\ \A b \in Solids : b \in Bodies /\ b \in live
    BY <1>2 DEF PushTypes, Solids, Movable
  <2>3. \A b \in Solids \ Shoved : origin'[b] = origin[b]
    BY <1>4, <2>2
  <2>4. ASSUME NEW b \in Solids, b \in Shoved
        PROVE  \E i \in 1 .. Len(moved) : moved[i].body = b /\ origin'[b] = moved[i].from
    BY <1>5, <2>2, <2>4 DEF Shoved
  <2>5. ASSUME NEW a \in Solids, NEW b \in Movable, origin'[a] = origin'[b]
        PROVE  a = b
    <3>1. CASE a \notin Shoved /\ b \notin Shoved
      BY <2>1, <2>2, <2>3, <2>5, <3>1 DEF Clear
    <3>2. CASE a \in Shoved /\ b \notin Shoved
      BY <2>1, <2>2, <2>3, <2>4, <2>5, <3>2 DEF Returnable
    <3>3. CASE a \notin Shoved /\ b \in Shoved
      BY <2>1, <2>2, <2>3, <2>4, <2>5, <3>3 DEF Returnable
    <3>4. CASE a \in Shoved /\ b \in Shoved
      BY <2>1, <2>2, <2>4, <2>5, <3>4 DEF Returnable
    <3> QED BY <3>1, <3>2, <3>3, <3>4
  <2>6. ASSUME NEW b \in Movable, NEW q \in Pushers
        PROVE  origin'[b] # origin'[q]
    <3>1. origin[push.pusher] = push.from
      BY <1>1, <1>2 DEF Underway
    <3>2. CASE b \notin Shoved
      BY <1>6, <2>1, <2>2, <2>3, <3>1, <3>2 DEF Clear, Others
    <3>3. CASE b \in Shoved
      BY <1>6, <2>1, <2>2, <2>4, <3>1, <3>3 DEF Returnable, Others
    <3> QED BY <3>2, <3>3
  <2> QED BY <2>5, <2>6
<1>9. Push!NothingStuck'
  <2>1. PushTypes'
    BY <1>1, <1>2, <1>7, EndTypes
  <2>2. Solids' = Solids /\ Movable' = Movable
    BY <1>1 DEF Solids, Movable
  <2> QED BY <1>1, <1>8, <2>1, <2>2, NothingStuckAfter
<1> QED BY <1>1, <1>2, <1>7, <1>9, EndPushInv

LEMMA CompletePushInv ==
    ASSUME Push!PushersAssumption, PushInv, Push!Complete
    PROVE  PushInv'
<1>1. phase = "scan" /\ check = NULL /\ Push!End /\ UNCHANGED <<origin, live, solids, flat, still, reused>>
  BY DEF Push!Complete, Push!End, Push!bodies
<1>2. PushTypes /\ check \notin Bodies
  BY <1>1 DEF PushInv, Push!PushersAssumption
<1>3. ~reused => /\ \A a \in Solids, b \in Movable : origin'[a] = origin'[b] => a = b
                 /\ \A b \in Movable, q \in Pushers : origin'[b] # origin'[q]
  BY <1>1, <1>2 DEF PushInv, Clear, Steady, Movable, Others
<1>4. origin' \in [Pushers \cup Bodies -> Push!Cells]
  BY <1>1, <1>2 DEF PushTypes
<1>5. Push!NothingStuck'
  <2>1. PushTypes'
    BY <1>1, <1>2, <1>4, EndTypes
  <2>2. Solids' = Solids /\ Movable' = Movable
    BY <1>1 DEF Solids, Movable
  <2> QED BY <1>1, <1>3, <2>1, <2>2, NothingStuckAfter
<1> QED BY <1>1, <1>2, <1>4, <1>5, EndPushInv

(* A function of the game lays hands on body b in the middle of a push. *)
LEMMA EffectPushInv ==
    ASSUME Push!PushersAssumption, PushInv, PushTypes', NEW b \in Bodies, NEW touched,
           phase \in {"touched", "back"}, reused => reused',
           UNCHANGED <<phase, push, check, moved, start>>,
           handled' = handled \cup touched, live' \subseteq live \cup touched,
           b \in touched \/ origin' = origin,
           \A x \in (Pushers \cup Bodies) \ {b} : origin'[x] = origin[x],
           Solids' \subseteq Solids \cup {b}, \A x \in Bodies \ {b} : x \in still' <=> x \in still,
           b \in Solids' =>
              \/ b \in Solids /\ origin'[b] = origin[b] /\ (b \in still => b \in still')
              \/ /\ Push!Vacant(origin'[b]) /\ origin'[b] \notin Push!Vacated
                 /\ b \in Solids \/ b \notin Shoved \/ reused'
    PROVE  PushInv'
<1>1. PushTypes /\ Underway /\ InOrder /\ Accounted
  BY DEF PushInv
<1>2. Bodies \subseteq Nat /\ Pushers \cap Bodies = {} /\ push.pusher \in Pushers
  BY <1>1 DEF Push!PushersAssumption, Underway
<1>3. \A q \in Pushers : origin'[q] = origin[q]
  BY <1>2
<1>4. Shoved' = Shoved /\ Others' = Others /\ Others \subseteq Pushers
  BY DEF Shoved, Others
<1>5. Underway'
  BY <1>1, <1>2, <1>3 DEF Underway, Push!Cells, Push!Directions, Push!Plus
<1>6. InOrder'
  BY <1>1 DEF InOrder
<1>7. Accounted'
  <2>1. \A a \in live' \ handled' : a \in live \ handled /\ origin'[a] = origin[a]
    BY <1>1 DEF PushTypes
  <2> QED BY <1>1, <1>4, <2>1 DEF Accounted, Push!Plus
<1>8. ASSUME ~reused' PROVE Clear' /\ Returnable'
  <2>1. Clear /\ Returnable
    BY <1>8 DEF PushInv
  <2>2. Solids \subseteq Bodies /\ Solids' \subseteq Bodies
    BY <1>1 DEF PushTypes, Solids
  <2>3. /\ \A a \in Solids' : a # b => a \in Solids /\ origin'[a] = origin[a]
        /\ \A a \in Solids' \ still' : a # b => a \in Solids \ still
    BY <2>2
  <2>4. b \in Solids' /\ b \in Shoved => b \in Solids
    BY <1>8
  <2>5. \A a \in Solids' \ Shoved : a # b => a \in Solids \ Shoved /\ origin'[a] = origin[a]
    BY <2>3
  <2>10. \A a \in Movable' : a # b => a \in Movable /\ origin'[a] = origin[a]
    BY <2>3 DEF Movable
  <2>6. /\ Steady' \subseteq Solids' /\ \A a \in Steady' : a # b => a \in Steady /\ origin'[a] = origin[a]
        /\ \A a \in Steady' \ still' : a # b => a \in Steady \ still
    BY <1>4, <2>3 DEF Steady
  <2>7. \A a \in Steady : a \in live
    BY DEF Steady, Solids
  <2> DEFINE to == origin'[b]
  <2>8. CASE b \in Solids' /\ ~ (b \in Solids /\ to = origin[b] /\ (b \in still => b \in still'))
    <3>1. /\ \A p \in Pushers : origin[p] # to
          /\ \A a \in live : origin[a] # to
          /\ to # push.from /\ \A i \in 1 .. Len(moved) : moved[i].from # to
      BY <2>8, HitsFacts DEF Push!Vacated
    <3> HIDE DEF to
    <3>2. origin'[b] = to
      BY DEF to
    <3>3. \A a \in Steady', c \in Steady' \ still' : origin'[a] = origin'[c] => a = c
      BY <2>1, <2>6, <2>7, <3>1, <3>2 DEF Clear
    <3>4. \A a \in Steady' \ still', q \in Others : origin'[a] # origin'[q]
      BY <1>3, <1>4, <2>1, <2>6, <3>1, <3>2 DEF Clear
    <3>5. \A a \in Movable' \ Shoved : origin'[a] # push.from
      BY <2>1, <2>10, <3>1, <3>2 DEF Clear
    <3>6. phase # "back" => \A a \in Movable' :
             (check \in Bodies => a < check) => origin'[a] # origin'[push.pusher]
      BY <1>2, <1>3, <2>1, <2>10, <3>1, <3>2 DEF Clear
    <3>7. Clear'
      BY <1>4, <3>3, <3>4, <3>5, <3>6 DEF Clear
    <3>8. \A i \in 1 .. Len(moved) : moved[i].body \in Solids' =>
             /\ moved[i].body \in Solids
             /\ \A a \in Solids' \ Shoved : origin'[a] # moved[i].from
      BY <2>1, <2>3, <2>4, <2>5, <3>1, <3>2 DEF Returnable, Shoved
    <3>9. Returnable'
      BY <1>3, <1>4, <2>1, <3>8 DEF Returnable
    <3> QED BY <3>7, <3>9
  <2>9. CASE b \in Solids' => b \in Solids /\ to = origin[b] /\ (b \in still => b \in still')
    <3>1. /\ \A a \in Solids' : a \in Solids /\ origin'[a] = origin[a]
          /\ \A a \in Solids' \ still' : a \in Solids \ still
      BY <2>3, <2>9
    <3>2. /\ \A a \in Steady' : a \in Steady /\ origin'[a] = origin[a]
          /\ \A a \in Steady' \ still' : a \in Steady \ still
          /\ \A a \in Movable' : a \in Movable /\ origin'[a] = origin[a]
      BY <1>4, <3>1 DEF Steady, Movable
    <3>3. Clear'
      BY <1>2, <1>3, <1>4, <2>1, <3>1, <3>2 DEF Clear
    <3>4. Returnable'
      BY <1>3, <1>4, <2>1, <3>1 DEF Returnable
    <3> QED BY <3>3, <3>4
  <2> QED BY <2>8, <2>9
<1> QED BY <1>5, <1>6, <1>7, <1>8 DEF PushInv, Push!NothingStuck

LEMMA RemovesPushInv ==
    ASSUME Push!PushersAssumption, PushInv, NEW b \in Bodies, Push!Removes(b)
    PROVE  PushInv'
<1>1. /\ phase \in {"touched", "back"} /\ handled' = handled \cup {b} /\ b \notin Players
      /\ UNCHANGED <<phase, push, check, moved, start, reused>>
      /\ live' = live \ {b} /\ solids' = solids \ {b}
      /\ flat' = flat \ {b} /\ still' = still \ {b}
      /\ origin' = [origin EXCEPT ![b] = <<0, 0>>]
  BY DEF Push!Removes, Push!Effect
<1>2. PushTypes
  BY DEF PushInv
<1>3. PushTypes'
  <2>1. origin' \in [Pushers \cup Bodies -> Push!Cells]
    BY <1>1, <1>2, GridFacts DEF PushTypes
  <2> QED BY <1>1, <1>2, <2>1 DEF PushTypes, Push!Cells
<1>4. \A x \in (Pushers \cup Bodies) \ {b} : origin'[x] = origin[x]
  BY <1>1, <1>2 DEF PushTypes
<1>5. Solids' \subseteq Solids /\ b \notin Solids'
  BY <1>1 DEF Solids
<1> QED BY <1>1, <1>3, <1>4, <1>5, EffectPushInv

LEMMA KillsPushInv ==
    ASSUME Push!PushersAssumption, PushInv, NEW b \in Bodies, Push!Kills(b)
    PROVE  PushInv'
<1>1. /\ phase \in {"touched", "back"} /\ handled' = handled \cup {}
      /\ UNCHANGED <<phase, push, check, moved, start, reused, origin, live, flat>>
      /\ solids' = solids \ {b} /\ still' \in {still, still \cup ({b} \cap flat)}
  BY DEF Push!Kills, Push!Effect
<1>2. PushTypes'
  BY <1>1 DEF PushInv, PushTypes, Push!Cells
<1>3. Solids' \subseteq Solids /\ b \notin Solids'
  BY <1>1 DEF Solids
<1> QED BY <1>1, <1>2, <1>3, EffectPushInv

LEMMA PlacesPushInv ==
    ASSUME Push!PushersAssumption, PushInv, NEW b \in Bodies, NEW c \in Push!Cells, Push!Places(b, c)
    PROVE  PushInv'
<1>1. /\ phase \in {"touched", "back"} /\ handled' = handled \cup {b}
      /\ UNCHANGED <<phase, push, check, moved, start, reused, live, solids, flat, still>>
      /\ Push!Vacant(c) /\ c \notin Push!Vacated
      /\ origin' = [origin EXCEPT ![b] = c]
  BY DEF Push!Places, Push!Effect
<1>2. PushTypes
  BY DEF PushInv
<1>3. PushTypes'
  <2>1. origin' \in [Pushers \cup Bodies -> Push!Cells]
    BY <1>1, <1>2 DEF PushTypes
  <2> QED BY <1>1, <1>2, <2>1 DEF PushTypes, Push!Cells
<1>4. origin'[b] = c /\ \A x \in (Pushers \cup Bodies) \ {b} : origin'[x] = origin[x]
  BY <1>1, <1>2 DEF PushTypes
<1>5. Solids' = Solids
  BY <1>1 DEF Solids
<1> QED BY <1>1, <1>3, <1>4, <1>5, EffectPushInv

LEMMA SpawnsPushInv ==
    ASSUME Push!PushersAssumption, PushInv, NEW b \in Bodies, NEW c \in Push!Cells, Push!Spawns(b, c)
    PROVE  PushInv'
<1>1. /\ phase \in {"touched", "back"} /\ handled' = handled \cup {b}
      /\ UNCHANGED <<phase, push, check, moved, start>>
      /\ live' = live \cup {b} /\ solids' \in {solids, solids \cup {b}}
      /\ flat' \in {flat, flat \cup ({b} \cap solids')} /\ still' \in {still, still \cup ({b} \cap solids')}
      /\ Push!Vacant(c) /\ c \notin Push!Vacated
      /\ origin' = [origin EXCEPT ![b] = c]
      /\ reused' = (reused \/ \E i \in 1 .. Len(moved) : moved[i].body = b)
  BY DEF Push!Spawns, Push!Effect
<1>2. PushTypes
  BY DEF PushInv
<1>3. (reused => reused') /\ (b \in Shoved => reused') /\ reused' \in BOOLEAN
  BY <1>1, Zenon DEF Shoved
<1>4. PushTypes'
  <2>1. origin' \in [Pushers \cup Bodies -> Push!Cells]
    BY <1>1, <1>2 DEF PushTypes
  <2>2. live' \subseteq Bodies /\ solids' \subseteq live' /\ Players \subseteq live'
    BY <1>1, <1>2 DEF PushTypes
  <2>3. /\ phase' \in {"idle", "scan", "touched", "back"} /\ check' \in Bodies \cup {NULL}
        /\ moved' \in Seq([body : Bodies, from : Push!Cells])
    BY <1>1, <1>2 DEF PushTypes
  <2> QED BY <1>3, <2>1, <2>2, <2>3, Zenon DEF PushTypes, Push!Cells
<1>5. origin'[b] = c /\ \A x \in (Pushers \cup Bodies) \ {b} : origin'[x] = origin[x]
  BY <1>1, <1>2 DEF PushTypes
<1>6. Solids' \subseteq Solids \cup {b}
  BY <1>1 DEF Solids
<1>7. b \notin Shoved \/ reused'
  BY <1>3
<1>8. reused => reused'
  BY <1>3
<1>9. /\ phase \in {"touched", "back"} /\ handled' = handled \cup {b}
      /\ UNCHANGED <<phase, push, check, moved, start>> /\ live' \subseteq live \cup {b}
      /\ Push!Vacant(origin'[b]) /\ origin'[b] \notin Push!Vacated
  BY <1>1, <1>5
<1>10. \A x \in Bodies \ {b} : x \in still' <=> x \in still
  BY <1>1
<1> QED BY <1>4, <1>5, <1>6, <1>7, <1>8, <1>9, <1>10, EffectPushInv

(* Between two pushes a body goes by itself to a cell where nothing is. *)
LEMMA WalksPushInv ==
    ASSUME Push!PushersAssumption, PushInv, NEW b \in Bodies, NEW to, Push!Vacant(to),
           phase = "idle", ~reused, origin' = [origin EXCEPT ![b] = to],
           UNCHANGED <<live, still, phase, check, moved, reused>>,
           solids' \subseteq live, Solids' \subseteq Solids \cup {b}
    PROVE  PushInv'
<1>2. PushTypes /\ Push!NothingStuck /\ Pushers \cap Bodies = {}
  BY DEF PushInv, Push!PushersAssumption
<1>3. /\ to \in Push!Cells /\ \A p \in Pushers : origin[p] # to
      /\ \A a \in live : origin[a] # to
  BY HitsFacts
<1>4. origin' \in [Pushers \cup Bodies -> Push!Cells]
  BY <1>2, <1>3 DEF PushTypes
<1>5. origin'[b] = to /\ \A x \in (Pushers \cup Bodies) \ {b} : origin'[x] = origin[x]
  BY <1>2 DEF PushTypes
<1>6. \A a \in Movable : ~Push!HitsModel(origin[a], NULL) /\ ~Push!HitsBody(a, origin[a])
  BY <1>2 DEF Push!NothingStuck, Push!Stuck, Solids, Movable
<1>7. \A a \in Solids, c \in Movable : origin[a] = origin[c] => a = c
  BY <1>6 DEF Push!HitsBody, Solids, Movable
<1>8. \A a \in Movable, p \in Pushers : origin[a] # origin[p]
  BY <1>6, HitsFacts
<1>9. /\ \A a \in Solids' : a \in Bodies /\ a \in live /\ (a # b => a \in Solids)
      /\ \A a \in Movable' : a \in Solids' /\ (a # b => a \in Movable)
  BY <1>2 DEF Solids, Movable, PushTypes
<1>10. \A a \in Solids', c \in Movable' : origin'[a] = origin'[c] => a = c
  BY <1>3, <1>5, <1>7, <1>9
<1>11. \A a \in Movable', p \in Pushers : origin'[a] # origin'[p]
  BY <1>2, <1>3, <1>5, <1>8, <1>9
<1>12. PushTypes'
  BY <1>2, <1>4 DEF PushTypes, Push!Cells
<1>13. Push!NothingStuck'
  BY <1>10, <1>11, <1>12, NothingStuckAfter
<1> QED BY <1>12, <1>13 DEF PushInv

LEMMA MovesPushInv ==
    ASSUME Push!PushersAssumption, PushInv, NEW b \in Bodies, NEW d \in Push!Directions, Push!Moves(b, d)
    PROVE  PushInv'
<1>1. /\ phase = "idle" /\ ~reused /\ Push!Vacant(Push!Plus(origin[b], d))
      /\ origin' = [origin EXCEPT ![b] = Push!Plus(origin[b], d)]
      /\ UNCHANGED <<live, solids, flat, still, phase, check, moved, reused>>
  BY DEF Push!Moves, Push!Idle, Push!AtRest
<1>2. solids \subseteq live
  BY DEF PushInv, PushTypes
<1>3. Solids' \subseteq Solids \cup {b}
  BY <1>1 DEF Solids
<1> QED BY <1>1, <1>2, <1>3, WalksPushInv

LEMMA RespawnsPushInv ==
    ASSUME Push!PushersAssumption, PushInv, NEW b \in Bodies, NEW c \in Push!Cells, b \in live,
           Push!Respawns(b, c)
    PROVE  PushInv'
<1>1. /\ phase = "idle" /\ ~reused /\ Push!Vacant(c)
      /\ origin' = [origin EXCEPT ![b] = c]
      /\ solids' = solids \cup {b} /\ flat' = flat \ {b}
      /\ UNCHANGED <<live, still, phase, check, moved, reused>>
  BY DEF Push!Respawns, Push!Idle, Push!AtRest
<1>2. solids' \subseteq live
  BY <1>1 DEF PushInv, PushTypes
<1>3. Solids' \subseteq Solids \cup {b}
  BY <1>1 DEF Solids
<1> QED BY <1>1, <1>2, <1>3, WalksPushInv

LEMMA NextPushInv ==
    ASSUME Push!PushersAssumption, PushInv, [Push!Next]_Push!vars
    PROVE  PushInv'
<1>1. ASSUME NEW p \in Pushers, NEW d \in Push!Directions, Push!Begin(p, d)
      PROVE  PushInv'
  BY <1>1, BeginPushInv
<1>2. CASE Push!Skip
  BY <1>2, SkipPushInv
<1>3. CASE Push!Push
  BY <1>3, PushPushInv
<1>4. CASE Push!Passes
  BY <1>4, PassesPushInv
<1>5. CASE Push!Flattens
  BY <1>5, FlattensPushInv
<1>6. CASE Push!Blocked
  BY <1>6, BlockedPushInv
<1>7. CASE Push!Undo
  BY <1>7, UndoPushInv
<1>8. CASE Push!Complete
  BY <1>8, CompletePushInv
<1>9. ASSUME NEW b \in Bodies, Push!Removes(b) PROVE PushInv'
  BY <1>9, RemovesPushInv
<1>10. ASSUME NEW b \in Bodies, Push!Kills(b) PROVE PushInv'
  BY <1>10, KillsPushInv
<1>11. CASE Push!LeavesPoint
  BY <1>11, LeavesPointPushInv
<1>12. ASSUME NEW b \in Bodies, NEW c \in Push!Cells, Push!Respawns(b, c) PROVE PushInv'
  <2>1. b \in live
    BY <1>12 DEF PushInv, PushTypes, Push!Respawns
  <2> QED BY <1>12, <2>1, RespawnsPushInv
<1>13. ASSUME NEW b \in Bodies, Push!Lands(b) PROVE PushInv'
  <2>1. phase = "idle" /\ UNCHANGED <<origin, live, solids, flat, still, phase, check, moved, reused>>
    BY <1>13 DEF Push!Lands, Push!Idle, Push!AtRest
  <2>2. PushTypes' /\ Push!NothingStuck'
    BY <2>1 DEF PushInv, PushTypes, Push!Cells, Push!NothingStuck, Push!Stuck, Push!HitsModel, Push!HitsBody
  <2> QED BY <2>1, <2>2 DEF PushInv
<1>14. ASSUME NEW b \in Bodies, NEW c \in Push!Cells, Push!Places(b, c) PROVE PushInv'
  BY <1>14, PlacesPushInv
<1>15. ASSUME NEW b \in Bodies, NEW c \in Push!Cells, Push!Spawns(b, c) PROVE PushInv'
  BY <1>15, SpawnsPushInv
<1>16. ASSUME NEW b \in Bodies, NEW d \in Push!Directions, Push!Moves(b, d) PROVE PushInv'
  BY <1>16, MovesPushInv
<1>17. CASE UNCHANGED Push!vars
  <2>1. UNCHANGED <<origin, live, solids, flat, still, phase, push, check, moved, start, handled, reused>>
    BY <1>17 DEF Push!vars, Push!bodies
  <2>2. PushTypes' /\ Push!NothingStuck'
    BY <2>1 DEF PushInv, PushTypes, Push!Cells, Push!NothingStuck, Push!Stuck, Push!HitsModel, Push!HitsBody
  <2>3. phase # "idle" => Underway' /\ InOrder' /\ Accounted'
    BY <2>1 DEF PushInv, Underway, InOrder, Accounted, Shoved, Push!Cells, Push!Directions, Push!Plus
  <2>4. phase # "idle" /\ ~reused => Clear' /\ Returnable'
    BY <2>1 DEF PushInv, Clear, Returnable, Shoved, Solids, Movable, Steady, Others
  <2> QED BY <2>1, <2>2, <2>3, <2>4 DEF PushInv
<1> QED BY <1>1, <1>2, <1>3, <1>4, <1>5, <1>6, <1>7, <1>8, <1>9, <1>10, <1>11, <1>12, <1>13, <1>14,
           <1>15, <1>16, <1>17 DEF Push!Next, Push!PushMove

(* SV_PushMove leaves nothing that is solid, has a size and moves inside a     *)
(* pusher, a wall or another such edict, whatever the touch functions do and   *)
(* wherever a push fails, unless they spawn an edict in the slot of one that   *)
(* has been pushed.  Points it does leave inside (sv_phys.c:483).              *)
THEOREM PushersNothingStuck ==
    Push!PushersAssumption => (Push!Spec => []Push!NothingStuck)
<1> SUFFICES ASSUME Push!PushersAssumption PROVE Push!Spec => []Push!NothingStuck
  OBVIOUS
<1>1. Push!Init => PushInv
  BY InitPushInv
<1>2. PushInv /\ [Push!Next]_Push!vars => PushInv'
  BY NextPushInv
<1>3. PushInv => Push!NothingStuck
  BY DEF PushInv
<1> QED BY <1>1, <1>2, <1>3, PTL DEF Push!Spec

(* SV_PushMove moves the pusher and what it pushes together, or puts all of it *)
(* back where it was, but for what a function of the game laid hands on.       *)
THEOREM PushersAllOrNothing ==
    Push!PushersAssumption => (Push!Spec => Push!AllOrNothing)
<1> SUFFICES ASSUME Push!PushersAssumption PROVE Push!Spec => Push!AllOrNothing
  OBVIOUS
<1>1. Push!Init => PushInv
  BY InitPushInv
<1>2. PushInv /\ [Push!Next]_Push!vars => PushInv'
  BY NextPushInv
<1>3. PushInv /\ [Push!Next]_Push!vars =>
         [ (phase # "idle" /\ phase' = "idle") =>
              \A b \in live \ handled :
                 IF origin'[push.pusher] = push.from THEN origin'[b] = start[b]
                 ELSE origin'[b] \in {start[b], Push!Plus(start[b], push.dir)} ]_Push!vars
  <2> SUFFICES ASSUME PushInv, Push!Next, phase # "idle", phase' = "idle", NEW b \in live \ handled
               PROVE  IF origin'[push.pusher] = push.from THEN origin'[b] = start[b]
                      ELSE origin'[b] \in {start[b], Push!Plus(start[b], push.dir)}
    OBVIOUS
  <2>1. PushTypes /\ Underway /\ InOrder /\ Accounted
    BY DEF PushInv
  <2>2. push.pusher \in Pushers /\ b \in Bodies /\ Pushers \cap Bodies = {}
    BY <2>1 DEF Underway, PushTypes, Push!PushersAssumption
  <2>3. Push!Undo \/ Push!Complete
    BY DEF Push!Next, Push!PushMove, Push!Begin, Push!Skip, Push!Push, Push!Passes, Push!LeavesPoint,
           Push!Flattens, Push!Blocked, Push!Removes, Push!Kills, Push!Lands, Push!Places, Push!Spawns, Push!Moves,
           Push!Respawns, Push!Effect, Push!Idle, Push!AtRest
  <2>4. CASE Push!Undo
    <3>1. /\ phase = "back"
          /\ origin' = [x \in DOMAIN origin |->
                          IF \E i \in 1 .. Len(moved) : moved[i].body = x /\ x \in live
                          THEN moved[CHOOSE i \in 1 .. Len(moved) : moved[i].body = x].from
                          ELSE origin[x]]
      BY <2>4 DEF Push!Undo
    <3>2. push.pusher \notin live
      BY <2>1, <2>2 DEF PushTypes
    <3>3. origin'[push.pusher] = push.from
      BY <2>1, <2>2, <3>1, <3>2 DEF PushTypes, Underway
    <3>4. CASE b \in Shoved
      <4> DEFINE k == CHOOSE k \in 1 .. Len(moved) : moved[k].body = b
      <4>1. \E i \in 1 .. Len(moved) : moved[i].body = b
        BY <3>4 DEF Shoved
      <4>2. k \in 1 .. Len(moved) /\ moved[k].body = b
        BY <4>1
      <4>3. origin'[b] = moved[k].from
        BY <2>1, <2>2, <3>1, <4>1 DEF PushTypes
      <4> QED BY <2>1, <3>3, <4>2, <4>3 DEF Accounted
    <3>5. CASE b \notin Shoved
      <4>1. origin'[b] = origin[b]
        BY <2>1, <2>2, <3>1, <3>5 DEF PushTypes, Shoved
      <4> QED BY <2>1, <3>3, <3>5, <4>1 DEF Accounted
    <3> QED BY <3>4, <3>5
  <2>5. CASE Push!Complete
    <3>1. phase = "scan" /\ origin' = origin
      BY <2>5 DEF Push!Complete
    <3>2. origin'[push.pusher] # push.from
      BY <2>1, <3>1, GridFacts DEF Underway
    <3>3. origin[b] \in {start[b], Push!Plus(start[b], push.dir)}
      BY <2>1 DEF Accounted, Shoved
    <3> QED BY <3>1, <3>2, <3>3
  <2> QED BY <2>3, <2>4, <2>5
<1> QED BY <1>1, <1>2, <1>3, PTL DEF Push!Spec, Push!AllOrNothing
=============================================================================
