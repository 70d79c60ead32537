------------------------------ MODULE ZoneProofs ------------------------------
(***************************************************************************)
(* Proofs about the zone allocator, for every zone size, header size,      *)
(* MINFRAGMENT and set of requests that ZoneAssumption allows.             *)
(***************************************************************************)
EXTENDS FiniteSets, FiniteSetTheorems, Zone, TLAPS

Heap(m) == Typed(m) /\ Tiled(m) /\ Linked(m)

(* Rounding up never loses a byte of what the caller and the header need. *)
LEMMA PaddedBound ==
    ASSUME NEW n \in Nat
    PROVE  Padded(n) \in Nat /\ Padded(n) >= BlockHdr
BY ZoneAssumption DEF Padded

(* Swallowing the next block keeps the heap in order. *)
LEMMA AbsorbHeap ==
    ASSUME NEW m, Heap(m), NEW a \in Blocks(m),
           NEW b, b = m[a].next, b # Head,
           NEW r, r = Absorb(m, a)
    PROVE  /\ Heap(r)
           /\ DOMAIN r = DOMAIN m \ {b} /\ a \in DOMAIN r /\ b \in DOMAIN m
           /\ r[a].next = m[b].next
           /\ \A x \in DOMAIN r : r[x].tag = m[x].tag
           /\ \A x \in DOMAIN r \ {a} : r[x].next = m[x].next /\ r[x].size = m[x].size
<1>0. /\ a \in DOMAIN m /\ b \in DOMAIN m /\ b # Head /\ b \in Blocks(m)
      /\ b = a + m[a].size /\ a < b
      /\ m[b].next \in DOMAIN m /\ m[b].next # b /\ m[b].next # a
  <2>1. a \in DOMAIN m /\ b \in DOMAIN m /\ b # Head /\ b \in Blocks(m)
    BY DEF Heap, Linked, Blocks
  <2>2. /\ a \in Nat /\ b \in Nat /\ m[a].size \in Nat /\ m[b].size \in Nat
        /\ m[a].size > 0 /\ m[b].size > 0
    BY <2>1, ZoneAssumption DEF Heap, Typed, Tiled, Header
  <2>3. b = a + m[a].size
    BY <2>1 DEF Heap, Tiled
  <2>4. m[b].next = Head \/ m[b].next = b + m[b].size
    BY <2>1 DEF Heap, Tiled
  <2>5. a # Head /\ m[b].next \in DOMAIN m
    BY <2>1 DEF Blocks, Heap, Linked
  <2> QED BY <2>1, <2>2, <2>3, <2>4, <2>5
<1>1. /\ DOMAIN r = DOMAIN m \ {b}
      /\ a \in DOMAIN r /\ m[b].next \in DOMAIN r
      /\ r[a] = Relinked(m[a], m[a].size + m[b].size, m[b].next, m[a].prev)
      /\ r[m[b].next] = Relinked(m[m[b].next], m[m[b].next].size, m[m[b].next].next, a)
      /\ \A x \in DOMAIN r : x # a /\ x # m[b].next => r[x] = m[x]
  BY <1>0 DEF Absorb
<1>a. /\ m[a] \in Header /\ m[b] \in Header /\ m[m[b].next] \in Header
      /\ DOMAIN m \subseteq Nat /\ \A x \in DOMAIN m : m[x] \in Header
  BY <1>0 DEF Heap, Typed
<1>t. Tiled(m) /\ Linked(m)
  BY DEF Heap
<1>b. r[a] \in Header /\ r[m[b].next] \in Header
  BY <1>0, <1>1, <1>a DEF Header, Relinked
<1>2. Typed(r)
  BY <1>0, <1>1, <1>a, <1>b DEF Typed
<1>3. /\ r[a].size = m[a].size + m[b].size /\ r[a].next = m[b].next
      /\ r[a].prev = m[a].prev /\ r[a].tag = m[a].tag
      /\ r[m[b].next].prev = a
      /\ \A x \in DOMAIN r : r[x].tag = m[x].tag
      /\ \A x \in DOMAIN r \ {a} : r[x].next = m[x].next /\ r[x].size = m[x].size
      /\ \A x \in DOMAIN r \ {m[b].next} : r[x].prev = m[x].prev
  BY <1>0, <1>1, <1>a DEF Header, Relinked
<1>4. Tiled(r)
  <2>1. ASSUME NEW x \in Blocks(r)
        PROVE  /\ x >= First /\ r[x].size >= BlockHdr /\ x + r[x].size <= ZoneSize
               /\ r[x].next = IF x + r[x].size = ZoneSize THEN Head ELSE x + r[x].size
    BY <1>0, <1>1, <1>3, <1>a, <1>t, ZoneAssumption DEF Tiled, Blocks, Header
  <2>2. ASSUME NEW x \in Blocks(r), NEW y \in Blocks(r), x < y
        PROVE  x + r[x].size <= y
    BY <2>2, <1>0, <1>1, <1>3, <1>a, <1>t, ZoneAssumption DEF Tiled, Blocks, Header
  <2> QED BY <2>1, <2>2 DEF Tiled
<1>5. Linked(r)
  <2>1. Head \in DOMAIN r /\ r[Head].next = First /\ ~IsFree(r, Head)
    BY <1>0, <1>1, <1>3, <1>t DEF Linked, IsFree, Blocks
  <2>2. ASSUME NEW x \in DOMAIN r
        PROVE  r[x].next \in DOMAIN r /\ r[r[x].next].prev = x
    <3>1. CASE x = a
      BY <3>1, <1>1, <1>3
    <3>2. CASE x # a
      <4>1. r[x].next = m[x].next /\ x \in DOMAIN m /\ x # b
        BY <3>2, <1>1, <1>3
      <4>2. m[x].next \in DOMAIN m /\ m[m[x].next].prev = x
        BY <4>1, <1>t DEF Linked
      <4>3. m[b].prev = a /\ m[m[b].next].prev = b
        BY <1>0, <1>t DEF Linked
      <4> QED BY <3>2, <4>1, <4>2, <4>3, <1>1, <1>3
    <3> QED BY <3>1, <3>2
  <2>3. ASSUME NEW x \in DOMAIN r
        PROVE  r[x].prev \in DOMAIN r /\ r[r[x].prev].next = x
    <3>1. CASE x = m[b].next
      BY <3>1, <1>1, <1>3
    <3>2. CASE x # m[b].next
      <4>1. r[x].prev = m[x].prev /\ x \in DOMAIN m /\ x # b
        BY <3>2, <1>1, <1>3
      <4>2. m[x].prev \in DOMAIN m /\ m[m[x].prev].next = x
        BY <4>1, <1>t DEF Linked
      <4> QED BY <3>2, <4>1, <4>2, <1>1, <1>3
    <3> QED BY <3>1, <3>2
  <2> QED BY <2>1, <2>2, <2>3 DEF Linked
<1> QED BY <1>0, <1>1, <1>2, <1>3, <1>4, <1>5 DEF Heap

(* Marking a block used or free touches nothing else. *)
LEMMA RetagHeap ==
    ASSUME NEW m, Heap(m), NEW b \in Blocks(m), NEW t \in {0, 1},
           NEW r, r = Retag(m, b, t)
    PROVE  /\ Heap(r)
           /\ DOMAIN r = DOMAIN m
           /\ r[b].tag = t
           /\ \A x \in DOMAIN r \ {b} : r[x] = m[x]
           /\ \A x \in DOMAIN r : /\ r[x].size = m[x].size
                                  /\ r[x].next = m[x].next
                                  /\ r[x].prev = m[x].prev
<1>1. /\ b \in DOMAIN m /\ b # Head
      /\ Typed(m) /\ Tiled(m) /\ Linked(m) /\ m[b] \in Header
  BY DEF Heap, Typed, Blocks
<1>2. /\ DOMAIN r = DOMAIN m
      /\ r[b] = Tagged(m[b], t)
      /\ \A x \in DOMAIN r \ {b} : r[x] = m[x]
  BY <1>1 DEF Retag
<1>3. /\ r[b] \in Header /\ r[b].tag = t
      /\ r[b].size = m[b].size /\ r[b].next = m[b].next /\ r[b].prev = m[b].prev
  BY <1>1, <1>2 DEF Header, Tagged
<1>4. \A x \in DOMAIN r : /\ r[x].size = m[x].size
                           /\ r[x].next = m[x].next
                           /\ r[x].prev = m[x].prev
  BY <1>2, <1>3
<1>5. Typed(r)
  BY <1>1, <1>2, <1>3 DEF Typed
<1>6. Tiled(r)
  BY <1>1, <1>2, <1>4 DEF Tiled, Blocks
<1>7. Linked(r)
  <2>1. Head \in DOMAIN r /\ r[Head].next = First /\ ~IsFree(r, Head)
    BY <1>1, <1>2 DEF Linked, IsFree
  <2>2. ASSUME NEW x \in DOMAIN r
        PROVE  /\ r[x].next \in DOMAIN r /\ r[r[x].next].prev = x
               /\ r[x].prev \in DOMAIN r /\ r[r[x].prev].next = x
    <3>1. /\ m[x].next \in DOMAIN m /\ m[m[x].next].prev = x
          /\ m[x].prev \in DOMAIN m /\ m[m[x].prev].next = x
      BY <1>1, <1>2 DEF Linked
    <3> QED BY <3>1, <1>2, <1>4
  <2> QED BY <2>1, <2>2 DEF Linked
<1> QED BY <1>2, <1>3, <1>4, <1>5, <1>6, <1>7 DEF Heap

(* Cutting a fragment off a block keeps the heap in order. *)
LEMMA SplitHeap ==
    ASSUME NEW m, Heap(m), NEW a \in Blocks(m), NEW n \in Nat,
           n >= BlockHdr, m[a].size - n > MinFragment,
           NEW f, f = a + n, NEW r, r = Split(m, a, n)
    PROVE  /\ Heap(r)
           /\ DOMAIN r = DOMAIN m \cup {f} /\ f \notin DOMAIN m /\ f # Head
           /\ r[a].size = n /\ r[a].next = f
           /\ r[f].tag = 0 /\ r[f].next = m[a].next
           /\ \A x \in DOMAIN m : r[x].tag = m[x].tag
           /\ \A x \in DOMAIN m \ {a} : r[x].next = m[x].next /\ r[x].size = m[x].size
<1> DEFINE c == m[a].next
<1>t. Typed(m) /\ Tiled(m) /\ Linked(m)
  BY DEF Heap
<1>0. /\ a \in DOMAIN m /\ a # Head /\ c \in DOMAIN m /\ c # a
      /\ a \in Nat /\ m[a].size \in Nat /\ m[a].size > n /\ n > 0
      /\ c = IF a + m[a].size = ZoneSize THEN Head ELSE a + m[a].size
      /\ a + m[a].size <= ZoneSize /\ m[a].size - n >= BlockHdr
      /\ a >= First
  <2>1. a \in DOMAIN m /\ a # Head /\ c \in DOMAIN m
    BY <1>t DEF Linked, Blocks
  <2>2. a \in Nat /\ m[a].size \in Nat
    BY <2>1, <1>t DEF Typed, Header
  <2>3. /\ c = IF a + m[a].size = ZoneSize THEN Head ELSE a + m[a].size
        /\ a + m[a].size <= ZoneSize /\ a >= First
    BY <1>t DEF Tiled
  <2>4. m[a].size > n /\ n > 0 /\ m[a].size - n >= BlockHdr
    BY <2>2, ZoneAssumption
  <2>5. c # a
    BY <2>1, <2>2, <2>3, <2>4
  <2> QED BY <2>1, <2>2, <2>3, <2>4, <2>5
<1>1. f \notin DOMAIN m /\ f # Head /\ f \in Nat /\ f # a /\ f # c
  <2>1. f \in Nat /\ a < f /\ f < a + m[a].size /\ f # Head
    BY <1>0, ZoneAssumption DEF First
  <2>2. f \notin Blocks(m)
    BY <2>1, <1>0, <1>t DEF Tiled
  <2> QED BY <2>1, <2>2, <1>0 DEF Blocks
<1>2. /\ DOMAIN r = DOMAIN m \cup {f}
      /\ r[f] = [size |-> m[a].size - n, tag |-> 0, next |-> c, prev |-> a]
      /\ r[a] = Relinked(m[a], n, f, m[a].prev)
      /\ r[c] = Relinked(m[c], m[c].size, m[c].next, f)
      /\ \A x \in DOMAIN m : x # a /\ x # c => r[x] = m[x]
  BY <1>0, <1>1 DEF Split
<1>3. /\ m[a] \in Header /\ m[c] \in Header
      /\ DOMAIN m \subseteq Nat /\ \A x \in DOMAIN m : m[x] \in Header
  BY <1>0, <1>t DEF Typed
<1>4. r[f] \in Header /\ r[a] \in Header /\ r[c] \in Header
  BY <1>0, <1>1, <1>2, <1>3 DEF Header, Relinked
<1>5. Typed(r)
  BY <1>0, <1>1, <1>2, <1>3, <1>4 DEF Typed
<1>6. /\ r[f].size = m[a].size - n /\ r[f].tag = 0 /\ r[f].next = c /\ r[f].prev = a
      /\ r[a].size = n /\ r[a].next = f /\ r[a].prev = m[a].prev
      /\ r[c].prev = f
      /\ \A x \in DOMAIN m : r[x].tag = m[x].tag
      /\ \A x \in DOMAIN m \ {a} : r[x].next = m[x].next /\ r[x].size = m[x].size
      /\ \A x \in DOMAIN m \ {c} : r[x].prev = m[x].prev
  BY <1>0, <1>1, <1>2, <1>3 DEF Header, Relinked
<1> HIDE DEF c
<1>7. Tiled(r)
  <2>1. ASSUME NEW x \in Blocks(r)
        PROVE  /\ x >= First /\ r[x].size >= BlockHdr /\ x + r[x].size <= ZoneSize
               /\ r[x].next = IF x + r[x].size = ZoneSize THEN Head ELSE x + r[x].size
    <3>1. CASE x = f
      BY <3>1, <1>0, <1>1, <1>6, ZoneAssumption DEF First
    <3>2. CASE x = a
      BY <3>2, <1>0, <1>1, <1>6, ZoneAssumption DEF First
    <3>3. CASE x # f /\ x # a
      BY <3>3, <1>0, <1>2, <1>6, <1>t DEF Tiled, Blocks
    <3> QED BY <3>1, <3>2, <3>3
  <2>2. ASSUME NEW x \in Blocks(r), NEW y \in Blocks(r), x < y
        PROVE  x + r[x].size <= y
    <3>1. CASE x = f
      BY <3>1, <2>2, <1>0, <1>2, <1>3, <1>6, <1>t DEF Tiled, Blocks
    <3>2. CASE y = f
      BY <3>2, <2>2, <1>0, <1>2, <1>3, <1>6, <1>t, ZoneAssumption DEF Tiled, Blocks, Header
    <3>3. CASE x # f /\ y # f
      BY <3>3, <2>2, <1>0, <1>2, <1>3, <1>6, <1>t DEF Tiled, Blocks, Header
    <3> QED BY <3>1, <3>2, <3>3
  <2> QED BY <2>1, <2>2 DEF Tiled
<1>8. Linked(r)
  <2>1. Head \in DOMAIN r /\ r[Head].next = First /\ ~IsFree(r, Head)
    BY <1>0, <1>1, <1>2, <1>6, <1>t DEF Linked, IsFree
  <2>2. ASSUME NEW x \in DOMAIN r
        PROVE  r[x].next \in DOMAIN r /\ r[r[x].next].prev = x
    <3>1. CASE x = f \/ x = a
      BY <3>1, <1>0, <1>2, <1>6
    <3>2. CASE x # f /\ x # a
      <4>1. x \in DOMAIN m /\ m[x].next \in DOMAIN m /\ m[m[x].next].prev = x
        BY <3>2, <1>2, <1>t DEF Linked
      <4>2. m[c].prev = a
        BY <1>0, <1>t DEF Linked, c
      <4> QED BY <3>2, <4>1, <4>2, <1>2, <1>6
    <3> QED BY <3>1, <3>2
  <2>3. ASSUME NEW x \in DOMAIN r
        PROVE  r[x].prev \in DOMAIN r /\ r[r[x].prev].next = x
    <3>1. CASE x = f \/ x = c
      BY <3>1, <1>0, <1>2, <1>6
    <3>2. CASE x # f /\ x # c
      <4>1. x \in DOMAIN m /\ m[x].prev \in DOMAIN m /\ m[m[x].prev].next = x
        BY <3>2, <1>2, <1>t DEF Linked
      <4>2. m[x].prev # a
        BY <4>1, <3>2 DEF c
      <4> QED BY <3>2, <4>1, <4>2, <1>2, <1>6
    <3> QED BY <3>1, <3>2
  <2> QED BY <2>1, <2>2, <2>3 DEF Linked
<1> QED BY <1>0, <1>1, <1>2, <1>5, <1>6, <1>7, <1>8 DEF Heap, c

-----------------------------------------------------------------------------
(* No two neighbours are free, except perhaps a and the block behind it. *)
OnlyFreePairAt(m, a) ==
    \A x \in DOMAIN m : IsFree(m, x) /\ IsFree(m, m[x].next) => x = a

(* A merge of two free neighbours: the blocks in use are untouched, and two  *)
(* neighbours are free afterwards only if they were before, or if the block   *)
(* behind the swallowed one was free.                                         *)
LEMMA MergeFree ==
    ASSUME NEW m, Heap(m), NEW a \in Blocks(m), NEW n, n = m[a].next,
           IsFree(m, a), IsFree(m, n), NEW r, r = Absorb(m, a)
    PROVE  /\ Heap(r) /\ DOMAIN r = DOMAIN m \ {n} /\ a \in Blocks(r) /\ IsFree(r, a)
           /\ LiveBlocks(r) = LiveBlocks(m)
           /\ \A x \in LiveBlocks(r) : r[x].size = m[x].size
           /\ IsFree(r, r[a].next) => IsFree(m, m[n].next)
           /\ \A x \in DOMAIN r \ {a} :
                IsFree(r, x) /\ IsFree(r, r[x].next) => IsFree(m, x) /\ IsFree(m, m[x].next)
<1>1. n # Head
  BY DEF Heap, Linked, IsFree
<1>2. /\ Heap(r) /\ DOMAIN r = DOMAIN m \ {n} /\ a \in DOMAIN r /\ n \in DOMAIN m
      /\ r[a].next = m[n].next
      /\ \A x \in DOMAIN r : r[x].tag = m[x].tag
      /\ \A x \in DOMAIN r \ {a} : r[x].next = m[x].next /\ r[x].size = m[x].size
  BY <1>1, AbsorbHeap
<1>3. \A x \in DOMAIN r : r[x].next \in DOMAIN r
  BY <1>2 DEF Heap, Linked
<1>4. a \in Blocks(r) /\ IsFree(r, a)
  BY <1>2 DEF Blocks, IsFree
<1>5. LiveBlocks(r) = LiveBlocks(m) /\ a \notin LiveBlocks(r)
  BY <1>2 DEF LiveBlocks, Blocks, IsFree
<1>6. \A x \in LiveBlocks(r) : r[x].size = m[x].size
  BY <1>2, <1>5 DEF LiveBlocks, Blocks
<1>7. IsFree(r, r[a].next) => IsFree(m, m[n].next)
  BY <1>2, <1>3 DEF IsFree
<1>8. \A x \in DOMAIN r \ {a} :
        IsFree(r, x) /\ IsFree(r, r[x].next) => IsFree(m, x) /\ IsFree(m, m[x].next)
  BY <1>2, <1>3 DEF IsFree
<1> QED BY <1>2, <1>4, <1>5, <1>6, <1>7, <1>8

(* The blocks in use in r have the sizes they have in m. *)
SizesKept(m, r) == \A x \in LiveBlocks(r) : r[x].size = m[x].size

(* Z_Free's first half: the heap stays in order, and the freed block, merged  *)
(* or not, is the only one that may have a free successor.                    *)
LEMMA FreeThenMergePrevHeap ==
    ASSUME NEW m, Heap(m), NoAdjacentFree(m), NEW b \in LiveBlocks(m),
           NEW r, r = FreeThenMergePrev(m, b), NEW a, a = FreedInto(m, b)
    PROVE  /\ Heap(r) /\ OnlyFreePairAt(r, a)
           /\ a \in Blocks(r) /\ IsFree(r, a)
           /\ LiveBlocks(r) = LiveBlocks(m) \ {b}
           /\ SizesKept(m, r)
           /\ DOMAIN r = IF a = b THEN DOMAIN m ELSE DOMAIN m \ {b}
<1>1. PICK z : z = Retag(m, b, 0)
  OBVIOUS
<1>2. PICK p : p = m[b].prev
  OBVIOUS
<1>3. /\ Linked(m) /\ b \in Blocks(m) /\ b \in DOMAIN m /\ ~IsFree(m, b)
      /\ p \in DOMAIN m /\ m[p].next = b
  BY <1>2 DEF Heap, LiveBlocks, Blocks, Linked
<1>4. /\ Heap(z) /\ DOMAIN z = DOMAIN m /\ z[b].tag = 0
      /\ \A x \in DOMAIN z \ {b} : z[x] = m[x]
      /\ \A x \in DOMAIN z : z[x].size = m[x].size /\ z[x].next = m[x].next
  BY <1>1, <1>3, RetagHeap
<1>5. LiveBlocks(z) = LiveBlocks(m) \ {b}
  BY <1>3, <1>4 DEF LiveBlocks, Blocks, IsFree
<1>6. ASSUME NEW x \in DOMAIN z, IsFree(z, x), IsFree(z, z[x].next)
      PROVE  x = b \/ x = p
  <2>1. SUFFICES ASSUME x # b PROVE x = p
    OBVIOUS
  <2>2. z[x].next = m[x].next /\ m[x].next \in DOMAIN m /\ m[m[x].next].prev = x /\ IsFree(m, x)
    BY <1>3, <1>4, <1>6, <2>1 DEF Linked, IsFree
  <2>3. m[x].next = b
    BY <1>4, <1>6, <2>1, <2>2 DEF NoAdjacentFree, IsFree
  <2> QED BY <1>2, <2>2, <2>3
<1>7. CASE IsFree(m, p)
  <2>1. r = Absorb(z, p) /\ a = p
    BY <1>1, <1>2, <1>7 DEF FreeThenMergePrev, FreedInto
  <2>2. p \in Blocks(z) /\ b = z[p].next /\ IsFree(z, p) /\ IsFree(z, b) /\ p # b
    BY <1>3, <1>4, <1>7 DEF Blocks, Linked, IsFree
  <2>3. /\ Heap(r) /\ DOMAIN r = DOMAIN z \ {b} /\ p \in Blocks(r) /\ IsFree(r, p)
        /\ LiveBlocks(r) = LiveBlocks(z)
        /\ \A x \in LiveBlocks(r) : r[x].size = z[x].size
        /\ \A x \in DOMAIN r \ {p} :
             IsFree(r, x) /\ IsFree(r, r[x].next) => IsFree(z, x) /\ IsFree(z, z[x].next)
    BY <1>4, <2>1, <2>2, MergeFree
  <2>4. OnlyFreePairAt(r, a)
    BY <1>6, <2>1, <2>3 DEF OnlyFreePairAt
  <2>5. \A x \in LiveBlocks(r) : r[x].size = m[x].size
    BY <1>4, <2>3 DEF LiveBlocks, Blocks
  <2> QED BY <1>4, <1>5, <2>1, <2>2, <2>3, <2>4, <2>5 DEF SizesKept
<1>8. CASE ~IsFree(m, p)
  <2>1. r = z /\ a = b
    BY <1>1, <1>2, <1>8 DEF FreeThenMergePrev, FreedInto
  <2>2. OnlyFreePairAt(r, a)
    <3>1. p # b => ~IsFree(z, p)
      BY <1>3, <1>4, <1>8 DEF IsFree
    <3> QED BY <1>6, <2>1, <3>1 DEF OnlyFreePairAt
  <2>3. SizesKept(m, r)
    BY <1>4, <2>1 DEF SizesKept, LiveBlocks, Blocks
  <2> QED BY <1>3, <1>4, <1>5, <2>1, <2>2, <2>3 DEF LiveBlocks, Blocks, IsFree
<1> QED BY <1>7, <1>8

(* Z_Free's second half restores "never two contiguous free memblocks". *)
LEMMA MergeNextHeap ==
    ASSUME NEW m, Heap(m), NEW a \in Blocks(m), IsFree(m, a), OnlyFreePairAt(m, a),
           NEW r, r = MergeNext(m, a), NEW n, n = m[a].next
    PROVE  /\ Heap(r) /\ NoAdjacentFree(r) /\ a \in DOMAIN r
           /\ LiveBlocks(r) = LiveBlocks(m)
           /\ \A x \in LiveBlocks(r) : r[x].size = m[x].size
           /\ DOMAIN r = IF IsFree(m, n) THEN DOMAIN m \ {n} ELSE DOMAIN m
<1>1. CASE IsFree(m, n)
  <2>1. r = Absorb(m, a)
    BY <1>1 DEF MergeNext
  <2>2. /\ Heap(r) /\ DOMAIN r = DOMAIN m \ {n} /\ a \in Blocks(r) /\ IsFree(r, a)
        /\ LiveBlocks(r) = LiveBlocks(m)
        /\ \A x \in LiveBlocks(r) : r[x].size = m[x].size
        /\ IsFree(r, r[a].next) => IsFree(m, m[n].next)
        /\ \A x \in DOMAIN r \ {a} :
             IsFree(r, x) /\ IsFree(r, r[x].next) => IsFree(m, x) /\ IsFree(m, m[x].next)
    BY <1>1, <2>1, MergeFree
  <2>3. n \in DOMAIN m /\ n # a
    BY <2>2 DEF Heap, Linked, Blocks
  <2>4. ~IsFree(m, m[n].next)
    BY <1>1, <2>3 DEF OnlyFreePairAt
  <2>5. NoAdjacentFree(r)
    BY <2>2, <2>4 DEF NoAdjacentFree, OnlyFreePairAt
  <2> QED BY <1>1, <2>2, <2>5 DEF Blocks
<1>2. CASE ~IsFree(m, n)
  BY <1>2 DEF MergeNext, OnlyFreePairAt, NoAdjacentFree, Blocks
<1> QED BY <1>1, <1>2

(* Taking a fitting block out, split or whole, adds it and nothing else to    *)
(* the blocks in use; a fragment's neighbour behind it was already in use.    *)
LEMMA CarveHeap ==
    ASSUME NEW m, Heap(m), NoAdjacentFree(m), NEW a \in Blocks(m),
           NEW n \in Nat, n >= BlockHdr, Fits(m, a, n), NEW r, r = Carve(m, a, n)
    PROVE  /\ Heap(r) /\ NoAdjacentFree(r)
           /\ a \in DOMAIN r /\ r[a].next \in DOMAIN r
           /\ a \notin LiveBlocks(m) /\ LiveBlocks(r) = LiveBlocks(m) \cup {a}
           /\ \A x \in LiveBlocks(m) : r[x].size = m[x].size
<1>1. PICK z : z = IF m[a].size - n > MinFragment THEN Split(m, a, n) ELSE m
  OBVIOUS
<1>2. r = Retag(z, a, 1)
  BY <1>1 DEF Carve
<1>3. /\ a \in DOMAIN m /\ IsFree(m, a) /\ m[a].next \in DOMAIN m /\ ~IsFree(m, m[a].next)
      /\ a \notin LiveBlocks(m)
  BY DEF Heap, Linked, Blocks, Fits, NoAdjacentFree, LiveBlocks
<1>4. /\ Heap(z) /\ a \in Blocks(z)
      /\ LiveBlocks(z) = LiveBlocks(m)
      /\ \A x \in LiveBlocks(m) : z[x].size = m[x].size
      /\ \A x \in DOMAIN z \ {a} : ~(IsFree(z, x) /\ IsFree(z, z[x].next))
  <2>1. CASE m[a].size - n > MinFragment
    <3>1. PICK f : f = a + n
      OBVIOUS
    <3>2. z = Split(m, a, n)
      BY <1>1, <2>1
    <3>3. /\ Heap(z)
          /\ DOMAIN z = DOMAIN m \cup {f} /\ f \notin DOMAIN m /\ f # Head
          /\ z[a].size = n /\ z[a].next = f
          /\ z[f].tag = 0 /\ z[f].next = m[a].next
          /\ \A x \in DOMAIN m : z[x].tag = m[x].tag
          /\ \A x \in DOMAIN m \ {a} : z[x].next = m[x].next /\ z[x].size = m[x].size
      BY <2>1, <3>1, <3>2, SplitHeap
    <3>4. LiveBlocks(z) = LiveBlocks(m)
      BY <3>3 DEF LiveBlocks, Blocks, IsFree
    <3>5. ASSUME NEW x \in DOMAIN z \ {a}, IsFree(z, x), IsFree(z, z[x].next)
          PROVE  FALSE
      <4>1. CASE x = f
        BY <4>1, <3>3, <3>5, <1>3 DEF IsFree
      <4>2. CASE x # f
        <5>1. x \in DOMAIN m /\ z[x].next = m[x].next /\ m[x].next \in DOMAIN m
          BY <4>2, <3>3, <3>5 DEF Heap, Linked
        <5> QED BY <5>1, <3>3, <3>5 DEF IsFree, NoAdjacentFree
      <4> QED BY <4>1, <4>2
    <3> QED BY <1>3, <3>3, <3>4, <3>5 DEF Blocks, LiveBlocks
  <2>2. CASE ~(m[a].size - n > MinFragment)
    BY <1>1, <2>2 DEF NoAdjacentFree
  <2> QED BY <2>1, <2>2
<1>5. /\ Heap(r) /\ DOMAIN r = DOMAIN z /\ r[a].tag = 1
      /\ \A x \in DOMAIN r \ {a} : r[x] = z[x]
      /\ \A x \in DOMAIN r : r[x].size = z[x].size /\ r[x].next = z[x].next
  BY <1>2, <1>4, RetagHeap
<1>6. NoAdjacentFree(r)
  <2>1. ASSUME NEW x \in DOMAIN r, IsFree(r, x), IsFree(r, r[x].next)
        PROVE  FALSE
    <3>1. r[x].next \in DOMAIN r
      BY <1>5 DEF Heap, Linked
    <3>2. ~IsFree(r, a)
      BY <1>5 DEF IsFree
    <3>3. x # a /\ r[x].next # a
      BY <2>1, <3>2
    <3> QED BY <1>4, <1>5, <2>1, <3>1, <3>3 DEF IsFree
  <2> QED BY <2>1 DEF NoAdjacentFree
<1>7. LiveBlocks(r) = LiveBlocks(m) \cup {a}
  BY <1>4, <1>5 DEF LiveBlocks, Blocks, IsFree
<1>8. \A x \in LiveBlocks(m) : r[x].size = m[x].size
  BY <1>4, <1>5 DEF LiveBlocks, Blocks
<1>9. a \in DOMAIN r /\ r[a].next \in DOMAIN r
  BY <1>4, <1>5 DEF Blocks, Heap, Linked
<1> QED BY <1>3, <1>5, <1>6, <1>7, <1>8, <1>9

-----------------------------------------------------------------------------
(* The list runs through the blocks in address order. *)
LEMMA NextIsSuccessor ==
    ASSUME NEW m, Heap(m), NEW a \in DOMAIN m, NEW x \in DOMAIN m,
           NEW n, n = m[a].next
    PROVE  /\ a \in Nat /\ x \in Nat /\ n \in Nat /\ Head <= x
           /\ n = Head => x <= a
           /\ n # Head => a < n /\ (x <= a \/ n <= x)
<1>1. /\ Typed(m) /\ Tiled(m) /\ Linked(m) /\ n \in DOMAIN m
      /\ Head \in Nat /\ First \in Nat /\ Head < First /\ BlockHdr > 0 /\ ZoneSize \in Nat /\ BlockHdr \in Nat
  BY ZoneAssumption DEF Heap, Linked, First
<1>2. a \in Nat /\ x \in Nat /\ n \in Nat /\ m[a].size \in Nat /\ m[x].size \in Nat
  BY <1>1 DEF Typed, Header
<1>3. Head <= x
  BY <1>1, <1>2 DEF Tiled, Blocks
<1>4. CASE a = Head
  <2>1. n = First /\ m[Head].next = First
    BY <1>1, <1>4 DEF Linked
  <2>2. x = Head \/ First <= x
    BY <1>1 DEF Tiled, Blocks
  <2> QED BY <1>1, <1>2, <1>3, <1>4, <2>1, <2>2
<1>5. CASE a # Head
  <2>1. /\ a >= First /\ m[a].size >= BlockHdr
        /\ n = IF a + m[a].size = ZoneSize THEN Head ELSE a + m[a].size
    BY <1>1, <1>5 DEF Tiled, Blocks
  <2>2. x # Head /\ a < x => a + m[a].size <= x
    BY <1>1, <1>5 DEF Tiled, Blocks
  <2>3. x # Head => m[x].size >= BlockHdr /\ x + m[x].size <= ZoneSize
    BY <1>1 DEF Tiled, Blocks
  <2> QED BY <1>1, <1>2, <1>3, <1>5, <2>1, <2>2, <2>3
<1> QED BY <1>4, <1>5

-----------------------------------------------------------------------------
LEMMA InitIInv == Init => IInv
<1> SUFFICES ASSUME Init PROVE IInv
  OBVIOUS
<1>1. /\ DOMAIN blk = {Head, First} /\ Head # First /\ First \in Nat /\ Head \in Nat
      /\ blk[Head] = [size |-> 0, tag |-> 1, next |-> First, prev |-> First]
      /\ blk[First] = [size |-> ZoneSize - ZoneHdr, tag |-> 0, next |-> Head, prev |-> Head]
      /\ ZoneSize - ZoneHdr \in Nat
  BY ZoneAssumption DEF Init, First
<1>2. Typed(blk)
  BY <1>1 DEF Typed, Header
<1>3. Tiled(blk)
  BY <1>1, ZoneAssumption DEF Tiled, Blocks, First
<1>4. Linked(blk)
  BY <1>1 DEF Linked, IsFree
<1>5. NoAdjacentFree(blk)
  BY <1>1 DEF NoAdjacentFree, IsFree
<1> QED
  BY <1>1, <1>2, <1>3, <1>4, <1>5
     DEF Init, IInv, TypeOK, HeapSound, RoverListed, ScanInv, ErrorOnlyWhenFull

(* Malloc opens the scan at the rover, with nothing visited. *)
LEMMA MallocStep ==
    ASSUME IInv, NEW n \in Requests, Malloc(n)
    PROVE  IInv'
<1>1. need' \in Nat /\ need' >= BlockHdr
  BY PaddedBound, ZoneAssumption DEF Malloc
<1>2. blk' = blk /\ rover' = rover /\ base' = rover /\ cur' = rover /\ pc' = "scan" /\ rover \in DOMAIN blk
  BY DEF Malloc, IInv, RoverListed
<1>3. TypeOK'
  BY <1>1, <1>2 DEF IInv, TypeOK
<1>4. HeapSound' /\ RoverListed' /\ ErrorOnlyWhenFull'
  BY <1>2 DEF IInv, HeapSound, RoverListed, ErrorOnlyWhenFull
<1>5. ScanInv'
  BY <1>1, <1>2 DEF ScanInv
<1> QED BY <1>3, <1>4, <1>5 DEF IInv

(* One more block looked at: the visited part grows by the new base only. *)
LEMMA ScanOnStep ==
    ASSUME IInv, ScanOn
    PROVE  IInv'
<1> USE DEF IInv
<1>1. /\ Heap(blk) /\ NoAdjacentFree(blk) /\ Linked(blk) /\ rover \in DOMAIN blk
      /\ base \in DOMAIN blk /\ cur \in DOMAIN blk /\ cur # start
      /\ \/ cur = base
         \/ cur = blk[base].next /\ IsFree(blk, base) /\ base # start
      /\ need >= BlockHdr /\ ~Fits(blk, NextBase, need)
  BY DEF ScanOn, TypeOK, HeapSound, RoverListed, ScanInv, Heap
<1>2. /\ blk' = blk /\ rover' = rover /\ need' = need /\ pc' = "scan" /\ pc = "scan"
      /\ base' = NextBase /\ cur' = blk[cur].next
      /\ start' = start
  BY DEF ScanOn, start
<1>3. cur' \in DOMAIN blk /\ start \in DOMAIN blk /\ blk[start].next = rover
  BY <1>1, <1>2 DEF Linked, start
<1>4. base' = IF IsFree(blk, cur) THEN base ELSE blk[cur].next
  BY <1>2 DEF NextBase
<1>5. CASE IsFree(blk, cur)
  <2>1. cur = base
    BY <1>1, <1>5 DEF NoAdjacentFree
  <2>2. base' = base /\ cur' = blk[base].next /\ base # start
    BY <1>1, <1>2, <1>4, <1>5, <2>1
  <2>3. \A x \in DOMAIN blk : Visited(x) => ~Fits(blk, x, need)
    <3>1. CASE cur = rover /\ base = rover
      <4>1. ASSUME NEW x \in DOMAIN blk, Visited(x) PROVE x = rover
        BY <3>1, <4>1, <1>1 DEF Visited, Heap, Typed
      <4> QED BY <3>1, <4>1, <1>1, <2>2, <1>4, <1>2
    <3> QED BY <3>1, <1>2 DEF ScanInv
  <2> QED
    BY <1>1, <1>2, <1>3, <1>5, <2>1, <2>2, <2>3
       DEF TypeOK, HeapSound, RoverListed, ScanInv, ErrorOnlyWhenFull, Visited, Typed
<1>6. CASE ~IsFree(blk, cur)
  <2>1. base' = cur' /\ ~Fits(blk, cur, need) /\ ~Fits(blk, cur', need)
    BY <1>1, <1>2, <1>4, <1>6 DEF Fits
  <2>2. \A x \in DOMAIN blk : Visited(x) \/ x = cur => ~Fits(blk, x, need)
    <3>1. CASE cur = rover /\ base = rover
      <4>1. ASSUME NEW x \in DOMAIN blk, Visited(x) PROVE x = rover
        BY <3>1, <4>1, <1>1 DEF Visited, Heap, Typed
      <4> QED BY <3>1, <4>1, <2>1
    <3> QED BY <3>1, <1>2, <2>1 DEF ScanInv
  <2>3. ASSUME NEW x \in DOMAIN blk, Visited(x)'
        PROVE  Visited(x) \/ x = cur \/ x = cur'
    <3>1. /\ cur \in Nat /\ base \in Nat /\ rover \in Nat /\ x \in Nat /\ cur' \in Nat /\ Head \in Nat
      BY <1>1, <1>3, ZoneAssumption DEF Heap, Typed
    <3>2. /\ Head <= x /\ Head <= rover
          /\ cur' = Head => x <= cur /\ rover <= cur
          /\ cur' # Head => cur < cur' /\ (x <= cur \/ cur' <= x) /\ (rover <= cur \/ cur' <= rover)
      BY <1>1, <1>2, NextIsSuccessor
    <3>3. CASE cur = base
      <4>1. rover # cur'
        BY <1>1, <1>2 DEF Linked, start
      <4> QED BY <2>1, <2>3, <3>1, <3>2, <3>3, <4>1, <1>2 DEF Visited
    <3>4. CASE cur = blk[base].next /\ base # start
      <4>1. /\ cur = Head => x <= base /\ rover <= base
            /\ cur # Head => base < cur /\ (x <= base \/ cur <= x) /\ (rover <= base \/ cur <= rover)
        BY <1>1, <3>4, NextIsSuccessor
      <4>2. rover # cur' /\ rover # cur
        BY <1>1, <1>2, <3>4 DEF Linked, start
      <4> QED BY <2>1, <2>3, <3>1, <3>2, <3>4, <4>1, <4>2, <1>2 DEF Visited
    <3> QED BY <3>3, <3>4, <1>1
  <2>4. \A x \in DOMAIN blk : Visited(x)' => ~Fits(blk, x, need)
    BY <2>1, <2>2, <2>3
  <2> QED
    BY <1>1, <1>2, <1>3, <2>1, <2>4
       DEF TypeOK, HeapSound, RoverListed, ScanInv, ErrorOnlyWhenFull, Typed
<1> QED BY <1>5, <1>6

(* The block found is carved out of the list. *)
LEMMA FoundBlock ==
    ASSUME IInv, ScanFound, NEW a, a = NextBase
    PROVE  /\ Heap(blk') /\ NoAdjacentFree(blk')
           /\ a \in DOMAIN blk' /\ blk'[a].next \in DOMAIN blk'
           /\ a \notin LiveBlocks(blk) /\ LiveBlocks(blk') = LiveBlocks(blk) \cup {a}
           /\ \A x \in LiveBlocks(blk) : blk'[x].size = blk[x].size
<1>1. /\ Heap(blk) /\ NoAdjacentFree(blk) /\ need \in Nat /\ need >= BlockHdr
      /\ base \in DOMAIN blk /\ cur \in DOMAIN blk
  BY DEF IInv, TypeOK, HeapSound, ScanInv, ScanFound, Heap
<1>2. Fits(blk, a, need) /\ blk' = Carve(blk, a, need)
  BY DEF ScanFound
<1>3. a \in DOMAIN blk
  BY <1>1 DEF NextBase, Heap, Linked
<1>4. a \in Blocks(blk)
  BY <1>1, <1>2, <1>3 DEF Fits, Blocks, Heap, Linked
<1> QED BY <1>1, <1>2, <1>4, CarveHeap

LEMMA ScanFoundStep ==
    ASSUME IInv, ScanFound
    PROVE  IInv'
<1>1. PICK a : a = NextBase
  OBVIOUS
<1>2. /\ Heap(blk') /\ NoAdjacentFree(blk')
      /\ a \in DOMAIN blk' /\ blk'[a].next \in DOMAIN blk'
  BY <1>1, FoundBlock
<1>3. /\ rover' = blk'[a].next /\ base' = rover' /\ cur' = rover'
      /\ pc' = "idle" /\ need' = need /\ need \in Nat
  BY <1>1 DEF ScanFound, IInv, TypeOK
<1>4. rover' \in Nat
  BY <1>2, <1>3 DEF Heap, Typed
<1> QED
  BY <1>2, <1>3, <1>4
     DEF IInv, TypeOK, HeapSound, RoverListed, ScanInv, ErrorOnlyWhenFull, Heap

(* At start the visited part is the whole list but, possibly, a block in use. *)
LEMMA ScanFailedStep ==
    ASSUME IInv, ScanFailed
    PROVE  IInv'
<1>1. /\ Heap(blk) /\ NoAdjacentFree(blk) /\ Linked(blk) /\ rover \in DOMAIN blk
      /\ base \in DOMAIN blk /\ cur = start
      /\ \/ cur = base
         \/ cur = blk[base].next /\ IsFree(blk, base) /\ base # start
  BY DEF ScanFailed, IInv, TypeOK, HeapSound, RoverListed, ScanInv, Heap
<1>2. /\ start \in DOMAIN blk /\ blk[start].next = rover
      /\ start # rover
  <2>1. start \in DOMAIN blk /\ blk[start].next = rover
    BY <1>1 DEF Linked, start
  <2>2. blk[rover].next = rover => FALSE
    <3>1. Linked(blk) /\ Head \in Nat /\ First # Head
      BY <1>1, ZoneAssumption DEF First
    <3>2. blk[rover].next = Head => rover # Head
      BY <3>1 DEF Linked
    <3> QED BY <1>1, <3>2, NextIsSuccessor
  <2> QED BY <2>1, <2>2
<1>3. \A x \in DOMAIN blk : Visited(x) => ~Fits(blk, x, need)
  BY <1>1, <1>2 DEF IInv, ScanInv, ScanFailed
<1>4. ASSUME NEW x \in DOMAIN blk
      PROVE  ~Fits(blk, x, need)
  <2>1. /\ start \in Nat /\ base \in Nat /\ rover \in Nat /\ x \in Nat
        /\ Head \in Nat /\ Head <= x /\ Head <= base /\ Head <= rover
        /\ rover = Head => x <= start /\ base <= start
        /\ rover # Head => start < rover /\ (x <= start \/ rover <= x)
                                        /\ (base <= start \/ rover <= base)
    BY <1>1, <1>2, ZoneAssumption, NextIsSuccessor
  <2>2. CASE base = start
    BY <1>3, <2>1, <2>2 DEF Visited
  <2>3. CASE cur = blk[base].next /\ IsFree(blk, base) /\ base # start
    <3>1. /\ start = Head => x <= base
          /\ start # Head => base < start /\ (x <= base \/ start <= x)
      BY <1>1, <2>3, NextIsSuccessor
    <3>2. ~IsFree(blk, start)
      BY <1>1, <2>3 DEF NoAdjacentFree
    <3>3. Visited(x) \/ x = start
      BY <2>1, <2>3, <3>1 DEF Visited
    <3> QED BY <1>3, <3>2, <3>3 DEF Fits
  <2> QED BY <1>1, <2>2, <2>3
<1>5. /\ blk' = blk /\ rover' = rover /\ need' = need /\ base' = base /\ cur' = cur
      /\ pc' = "error"
  BY DEF ScanFailed
<1>6. \A a \in FreeBlocks(blk) : blk[a].size < need
  <2> SUFFICES ASSUME NEW a \in FreeBlocks(blk) PROVE blk[a].size < need
    OBVIOUS
  <2>1. a \in DOMAIN blk /\ IsFree(blk, a) /\ ~Fits(blk, a, need)
    BY <1>4 DEF FreeBlocks, Blocks
  <2>2. blk[a].size \in Nat /\ need \in Nat
    BY <2>1 DEF IInv, TypeOK, Typed, Header
  <2> QED BY <2>1, <2>2 DEF Fits
<1>7. ErrorOnlyWhenFull'
  BY <1>5, <1>6 DEF ErrorOnlyWhenFull, FreeBlocks, Blocks, IsFree
<1> QED
  BY <1>5, <1>7
     DEF IInv, TypeOK, HeapSound, RoverListed, ScanInv, Blocks, Typed,
         Tiled, Linked, NoAdjacentFree, Fits, IsFree

(* A freed block is merged with both neighbours; the rover follows it. *)
LEMMA FreedBlock ==
    ASSUME IInv, NEW b \in LiveBlocks(blk), Free(b)
    PROVE  /\ Heap(blk') /\ NoAdjacentFree(blk') /\ rover' \in DOMAIN blk'
           /\ LiveBlocks(blk') = LiveBlocks(blk) \ {b}
           /\ \A x \in LiveBlocks(blk') : blk'[x].size = blk[x].size
<1>1. PICK mid : mid = FreeThenMergePrev(blk, b)
  OBVIOUS
<1>2. PICK into : into = FreedInto(blk, b)
  OBVIOUS
<1>3. PICK nxt : nxt = mid[into].next
  OBVIOUS
<1>4. Heap(blk) /\ NoAdjacentFree(blk) /\ rover \in DOMAIN blk
  BY DEF IInv, TypeOK, HeapSound, RoverListed, Heap
<1>5. /\ Heap(mid) /\ OnlyFreePairAt(mid, into) /\ into \in Blocks(mid) /\ IsFree(mid, into)
      /\ LiveBlocks(mid) = LiveBlocks(blk) \ {b}
      /\ \A x \in LiveBlocks(mid) : mid[x].size = blk[x].size
      /\ DOMAIN mid = IF into = b THEN DOMAIN blk ELSE DOMAIN blk \ {b}
  <2>1. b \in LiveBlocks(blk)
    OBVIOUS
  <2>2. Heap(mid)
    BY <2>1, <1>1, <1>2, <1>4, FreeThenMergePrevHeap, Zenon
  <2>3. OnlyFreePairAt(mid, into)
    BY <2>1, <1>1, <1>2, <1>4, FreeThenMergePrevHeap, Zenon
  <2>4. into \in Blocks(mid) /\ IsFree(mid, into)
    BY <2>1, <1>1, <1>2, <1>4, FreeThenMergePrevHeap, Zenon
  <2>5. LiveBlocks(mid) = LiveBlocks(blk) \ {b}
    BY <2>1, <1>1, <1>2, <1>4, FreeThenMergePrevHeap, Zenon
  <2>6. SizesKept(blk, mid)
    BY <2>1, <1>1, <1>2, <1>4, FreeThenMergePrevHeap, Zenon
  <2>7. DOMAIN mid = IF into = b THEN DOMAIN blk ELSE DOMAIN blk \ {b}
    BY <2>1, <1>1, <1>2, <1>4, FreeThenMergePrevHeap, Zenon
  <2> QED BY <2>2, <2>3, <2>4, <2>5, <2>6, <2>7 DEF SizesKept
<1>6. blk' = MergeNext(mid, into)
  BY <1>1, <1>2 DEF Free
<1>7. /\ Heap(blk') /\ NoAdjacentFree(blk') /\ into \in DOMAIN blk'
      /\ LiveBlocks(blk') = LiveBlocks(mid)
      /\ \A x \in LiveBlocks(blk') : blk'[x].size = mid[x].size
      /\ DOMAIN blk' = IF IsFree(mid, nxt) THEN DOMAIN mid \ {nxt} ELSE DOMAIN mid
  BY <1>3, <1>5, <1>6, MergeNextHeap
<1>8. rover' = IF (rover = b /\ into # b) \/ (rover = nxt /\ IsFree(mid, nxt)) THEN into ELSE rover
  BY <1>1, <1>2, <1>3 DEF Free
<1>9. rover' \in DOMAIN blk'
  BY <1>4, <1>5, <1>7, <1>8
<1> QED BY <1>5, <1>7, <1>9

LEMMA FreeStep ==
    ASSUME IInv, NEW b \in LiveBlocks(blk), Free(b)
    PROVE  IInv'
<1>1. Heap(blk') /\ NoAdjacentFree(blk') /\ rover' \in DOMAIN blk'
  BY FreedBlock
<1>2. pc' = "idle" /\ need' = need /\ need \in Nat /\ base' = rover' /\ cur' = rover'
  BY DEF Free, IInv, TypeOK
<1>3. rover' \in Nat
  BY <1>1 DEF Heap, Typed
<1> QED
  BY <1>1, <1>2, <1>3
     DEF IInv, TypeOK, HeapSound, RoverListed, ScanInv, ErrorOnlyWhenFull, Heap

LEMMA StutterStep == IInv /\ UNCHANGED vars => IInv'
BY DEF vars, IInv, TypeOK, HeapSound, RoverListed, ScanInv, ErrorOnlyWhenFull, Typed,
       Tiled, Linked, NoAdjacentFree, Visited, start, Fits, IsFree, Blocks

(* The inductive invariant holds throughout. *)
THEOREM ZoneInvariant == Spec => []IInv
<1>1. IInv /\ [Next]_vars => IInv'
  <2> SUFFICES ASSUME IInv, [Next]_vars PROVE IInv'
    OBVIOUS
  <2>1. ASSUME NEW n \in Requests, Malloc(n) PROVE IInv'
    BY <2>1, MallocStep
  <2>2. CASE ScanOn
    BY <2>2, ScanOnStep
  <2>3. CASE ScanFound
    BY <2>3, ScanFoundStep
  <2>4. CASE ScanFailed
    BY <2>4, ScanFailedStep
  <2>5. ASSUME NEW b \in LiveBlocks(blk), Free(b) PROVE IInv'
    BY <2>5, FreeStep
  <2>6. CASE UNCHANGED vars
    BY <2>6, StutterStep
  <2> QED BY <2>1, <2>2, <2>3, <2>4, <2>5, <2>6 DEF Next, Scan
<1> QED BY InitIInv, <1>1, PTL DEF Spec

(* The conditions of zone.c's banner hold in every state: Z_CheckHeap never   *)
(* finds anything to report.                                                  *)
THEOREM HeapAlwaysSound == Spec => []HeapSound
<1>1. IInv => HeapSound
  BY DEF IInv
<1> QED BY ZoneInvariant, <1>1, PTL

(* Z_Malloc stops the program only when no free block is large enough,        *)
(* whatever the rover's position: the next-fit scan misses no block.          *)
THEOREM SysErrorOnlyWhenFull == Spec => []ErrorOnlyWhenFull
<1>1. IInv => ErrorOnlyWhenFull
  BY DEF IInv
<1> QED BY ZoneInvariant, <1>1, PTL

(* Every variable of the zone keeps its type. *)
THEOREM ZoneTyped == Spec => []TypeOK
<1>1. IInv => TypeOK
  BY DEF IInv
<1> QED BY ZoneInvariant, <1>1, PTL

(* mainzone->rover designates a listed header after every call, so that no   *)
(* scan starts from a header swallowed by a merge.                            *)
THEOREM RoverAlwaysListed == Spec => []RoverListed
<1>1. IInv => RoverListed
  BY DEF IInv
<1> QED BY ZoneInvariant, <1>1, PTL

-----------------------------------------------------------------------------
(* The blocks from cur round to the rover: what the scan has yet to look at. *)
Ahead ==
    {x \in DOMAIN blk : IF cur >= rover THEN x >= cur \/ x < rover ELSE cur <= x /\ x < rover}

(* The zone is finite, and so is the list. *)
LEMMA HeapFinite ==
    ASSUME NEW m, Heap(m)
    PROVE  IsFiniteSet(DOMAIN m)
<1>1. DOMAIN m \in SUBSET Nat /\ ZoneSize \in Nat
  BY ZoneAssumption DEF Heap, Typed
<1>2. \A x \in DOMAIN m : x <= ZoneSize
  <2> SUFFICES ASSUME NEW x \in DOMAIN m PROVE x <= ZoneSize
    OBVIOUS
  <2>1. CASE x = Head
    BY <2>1, ZoneAssumption
  <2>2. CASE x # Head
    <3>1. x + m[x].size <= ZoneSize /\ x \in Nat /\ m[x].size \in Nat
      BY <2>2 DEF Heap, Tiled, Typed, Header, Blocks
    <3> QED BY <3>1, <1>1
  <2> QED BY <2>1, <2>2
<1> QED BY <1>1, <1>2, FS_BoundedSetOfNaturals

(* One iteration takes exactly the block it looked at out of what is ahead. *)
LEMMA AheadShrinks ==
    ASSUME IInv, ScanOn
    PROVE  cur \in Ahead /\ Ahead' = Ahead \ {cur}
<1>1. /\ Heap(blk) /\ Linked(blk) /\ rover \in DOMAIN blk /\ cur \in DOMAIN blk /\ cur # start
  BY DEF ScanOn, IInv, TypeOK, HeapSound, RoverListed, ScanInv, Heap
<1>2. blk' = blk /\ rover' = rover /\ cur' = blk[cur].next
  BY DEF ScanOn
<1>3. PICK n : n = blk[cur].next
  OBVIOUS
<1>4. n # rover /\ n \in DOMAIN blk
  BY <1>1, <1>3 DEF Linked, start
<1>5. cur \in Nat /\ rover \in Nat /\ n \in Nat /\ Head \in Nat /\ Head <= rover
  BY <1>1, <1>3, <1>4, NextIsSuccessor, ZoneAssumption
<1>6. cur \in Ahead
  BY <1>1, <1>5 DEF Ahead
<1>7. ASSUME NEW x \in DOMAIN blk
      PROVE  x \in Ahead' <=> x \in Ahead /\ x # cur
  <2>1. /\ x \in Nat /\ Head <= x
        /\ n = Head => x <= cur /\ rover <= cur
        /\ n # Head => cur < n /\ (x <= cur \/ n <= x) /\ (rover <= cur \/ n <= rover)
    BY <1>1, <1>3, NextIsSuccessor
  <2>2. x \in Ahead <=> IF cur >= rover THEN x >= cur \/ x < rover ELSE cur <= x /\ x < rover
    BY DEF Ahead
  <2>3. x \in Ahead' <=> IF n >= rover THEN x >= n \/ x < rover ELSE n <= x /\ x < rover
    BY <1>2, <1>3 DEF Ahead
  <2> QED BY <1>4, <1>5, <2>1, <2>2, <2>3
<1> QED BY <1>2, <1>6, <1>7 DEF Ahead

(* Every iteration of Z_TagMalloc's do/while loop leaves one block fewer      *)
(* ahead of it, and none comes back: from any state of a scan the loop goes   *)
(* round at most as often as there are blocks ahead, never past the rover it  *)
(* began at.  It is the part of ScanEnds that does not depend on fairness.    *)
THEOREM ScanComesCloser ==
    Spec => [][ScanOn => /\ Cardinality(Ahead) \in Nat \ {0}
                         /\ Cardinality(Ahead') = Cardinality(Ahead) - 1]_vars
<1>1. ASSUME IInv, ScanOn
      PROVE  /\ Cardinality(Ahead) \in Nat \ {0}
             /\ Cardinality(Ahead') = Cardinality(Ahead) - 1
  <2>1. cur \in Ahead /\ Ahead' = Ahead \ {cur}
    BY <1>1, AheadShrinks
  <2>2. IsFiniteSet(DOMAIN blk) /\ Ahead \in SUBSET DOMAIN blk
    BY <1>1, HeapFinite DEF IInv, TypeOK, HeapSound, Heap, Ahead
  <2>3. IsFiniteSet(Ahead)
    BY <2>2, FS_Subset
  <2>4. Cardinality(Ahead) \in Nat /\ Cardinality(Ahead \ {cur}) \in Nat
    BY <2>3, FS_CardinalityType, FS_RemoveElement
  <2>5. Cardinality(Ahead \ {cur}) = Cardinality(Ahead) - 1
    BY <2>1, <2>3, FS_RemoveElement
  <2> QED BY <2>1, <2>4, <2>5
<1> QED BY <1>1, ZoneInvariant, PTL DEF Spec

-----------------------------------------------------------------------------
(* A block found by the scan is granted clear of every other grant. *)
LEMMA FoundIsGrant ==
    ASSUME IInv, ScanFound
    PROVE  Arena!Next
<1>1. PICK a : a = NextBase
  OBVIOUS
<1>2. /\ Heap(blk')
      /\ a \in DOMAIN blk'
      /\ a \notin LiveBlocks(blk) /\ LiveBlocks(blk') = LiveBlocks(blk) \cup {a}
      /\ \A x \in LiveBlocks(blk) : blk'[x].size = blk[x].size
  BY <1>1, FoundBlock
<1>3. /\ DOMAIN Grants = LiveBlocks(blk) /\ DOMAIN Grants' = LiveBlocks(blk')
      /\ \A x \in LiveBlocks(blk) : Grants[x] = blk[x].size
      /\ \A x \in LiveBlocks(blk') : Grants'[x] = blk'[x].size
  BY DEF Grants
<1>4. Grants' = [x \in DOMAIN Grants \cup {a} |-> IF x = a THEN Grants'[a] ELSE Grants[x]]
  BY <1>2, <1>3 DEF Grants
<1>5. /\ Tiled(blk') /\ a \in Blocks(blk')
      /\ \A x \in LiveBlocks(blk') : x \in Blocks(blk')
  BY <1>2 DEF Heap, LiveBlocks
<1>6. \A x \in Blocks(blk') : x \in Nat /\ blk'[x].size \in Nat
  BY <1>2 DEF Heap, Typed, Blocks, Header
<1>7. ZoneHdr <= a /\ BlockHdr <= Grants'[a] /\ a + Grants'[a] <= ZoneSize
  BY <1>2, <1>3, <1>5, <1>6, ZoneAssumption DEF Tiled, First
<1>8. ASSUME NEW x \in DOMAIN Grants
      PROVE  Arena!Apart(a, Grants'[a], x, Grants[x])
  <2>1. x \in Blocks(blk') /\ x # a /\ Grants[x] = blk'[x].size /\ Grants'[a] = blk'[a].size
    BY <1>2, <1>3, <1>5
  <2>2. a < x \/ x < a
    BY <2>1, <1>5, <1>6
  <2> QED BY <2>1, <2>2, <1>5 DEF Tiled, Arena!Apart
<1>9. Arena!Grant(a, Grants'[a])
  BY <1>2, <1>3, <1>4, <1>7, <1>8 DEF Arena!Grant
<1> QED BY <1>2, <1>3, <1>9 DEF Arena!Next

(* Z_Free returns one grant and leaves the others as they are. *)
LEMMA FreeIsReturn ==
    ASSUME IInv, NEW b \in LiveBlocks(blk), Free(b)
    PROVE  Arena!Next
<1>1. /\ LiveBlocks(blk') = LiveBlocks(blk) \ {b}
      /\ \A x \in LiveBlocks(blk') : blk'[x].size = blk[x].size
  BY FreedBlock
<1>2. DOMAIN Grants = LiveBlocks(blk)
  BY DEF Grants
<1>3. Grants' = [x \in DOMAIN Grants \ {b} |-> Grants[x]]
  BY <1>1, <1>2 DEF Grants
<1> QED BY <1>2, <1>3 DEF Arena!Next, Arena!Return

(* The zone implements the arena: a block handed out overlaps no other block  *)
(* in use, and keeps its place and size until its holder frees it, whatever   *)
(* splits and merges go on around it.                                         *)
THEOREM ZoneImplementsArena == Spec => ImplementsArena
<1>1. Init => Arena!Init
  <2> SUFFICES ASSUME Init PROVE Arena!Init
    OBVIOUS
  <2>1. LiveBlocks(blk) = {}
    BY ZoneAssumption DEF Init, LiveBlocks, Blocks, IsFree, First
  <2> QED BY <2>1 DEF Arena!Init, Grants
<1>2. IInv /\ [Next]_vars => [Arena!Next]_Grants
  <2> SUFFICES ASSUME IInv, [Next]_vars PROVE Arena!Next \/ Grants' = Grants
    OBVIOUS
  <2>1. CASE blk' = blk
    BY <2>1 DEF Grants, LiveBlocks, Blocks, IsFree
  <2>2. CASE ScanFound
    BY <2>2, FoundIsGrant
  <2>3. ASSUME NEW b \in LiveBlocks(blk), Free(b) PROVE Arena!Next
    BY <2>3, FreeIsReturn
  <2> QED
    BY <2>1, <2>2, <2>3 DEF Next, Scan, Malloc, ScanOn, ScanFailed, vars
<1> QED BY <1>1, <1>2, ZoneInvariant, PTL DEF Spec, ImplementsArena, Arena!Spec

===============================================================================
