-------------------------- MODULE VideoMemoryProofs --------------------------
(***************************************************************************)
(* Proofs about the texture memory, for any number and size of pages, any  *)
(* room in their arrays and any textures: allocate_and_split cuts a page   *)
(* into pieces that neither overlap nor leave a cell out, and to its       *)
(* callers the memory is the TextureStore.                                 *)
(***************************************************************************)
EXTENDS VideoMemory, TLAPS

Rects == [x : Int, y : Int, w : Nat, h : Nat]

-----------------------------------------------------------------------------
(* Rectangles.                                                               *)

(* A part of a part is a part. *)
LEMMA WithinTrans ==
    ASSUME NEW q \in Rects, NEW r \in Rects, NEW s \in Rects, Within(q, r), Within(r, s)
    PROVE  Within(q, s)
BY DEF Rects, Within

(* Parts of rectangles that are apart are apart. *)
LEMMA ApartWithin ==
    ASSUME NEW r \in Rects, NEW s \in Rects, NEW q \in Rects, NEW t \in Rects,
           Apart(r, s), Within(q, r), Within(t, s)
    PROVE  Apart(q, t)
BY DEF Rects, Within, Apart, Empty

LEMMA WithinSelf == ASSUME NEW r \in Rects PROVE Within(r, r)
BY DEF Rects, Within

LEMMA ApartSwap == ASSUME NEW r \in Rects, NEW s \in Rects, Apart(r, s) PROVE Apart(s, r)
BY DEF Apart

(* The corner that a texture gets, and what is left of the rectangle: parts  *)
(* of it that are apart and cover it.                                        *)
CornerTaken(r, w, h, c, a, b) ==
    /\ c \in Rects /\ a \in Rects /\ b \in Rects
    /\ Within(c, r) /\ Within(a, r) /\ Within(b, r)
    /\ Apart(a, c) /\ Apart(b, c) /\ Apart(a, b) /\ Apart(b, a)
    /\ \A x, y \in Int :
          /\ Holds(r, x, y) => Holds(c, x, y) \/ Holds(a, x, y) \/ Holds(b, x, y)
          /\ r.w = w => ~ Holds(a, x, y)
          /\ r.h = h => ~ Holds(b, x, y)

LEMMA CornerCut ==
    ASSUME NEW r \in Rects, NEW w \in Nat, NEW h \in Nat, w <= r.w, h <= r.h,
           NEW c, c = Rect(r.x, r.y, w, h), NEW a, a = RightOf(r, w, h),
           NEW b, b = BelowOf(r, w, h)
    PROVE  CornerTaken(r, w, h, c, a, b)
<1>1. r.x \in Int /\ r.y \in Int /\ r.w \in Nat /\ r.h \in Nat
  BY DEF Rects
<1>2. /\ c.x = r.x /\ c.y = r.y /\ c.w = w /\ c.h = h
      /\ a.x = r.x + w /\ a.y = r.y /\ a.w = r.w - w /\ a.h = h
      /\ b.x = r.x /\ b.y = r.y + h /\ b.w = r.w /\ b.h = r.h - h
  BY DEF Rect, RightOf, BelowOf
<1>3. c \in Rects /\ a \in Rects /\ b \in Rects
  BY <1>1 DEF Rects, Rect, RightOf, BelowOf
<1>4. Within(c, r) /\ Within(a, r) /\ Within(b, r)
  BY <1>1, <1>2 DEF Within
<1>5. Apart(a, c) /\ Apart(b, c) /\ Apart(a, b) /\ Apart(b, a)
  BY <1>1, <1>2 DEF Apart
<1>6. ASSUME NEW x \in Int, NEW y \in Int
      PROVE  /\ Holds(r, x, y) => Holds(c, x, y) \/ Holds(a, x, y) \/ Holds(b, x, y)
             /\ r.w = w => ~ Holds(a, x, y)
             /\ r.h = h => ~ Holds(b, x, y)
  BY <1>1, <1>2 DEF Holds
<1> QED BY <1>3, <1>4, <1>5, <1>6 DEF CornerTaken

-----------------------------------------------------------------------------
(* A page cut into available rectangles and the areas of its textures.       *)

CutInto(rects, areas, page) ==
    /\ rects \in Seq(Rects) /\ page \in Rects
    /\ areas \in [DOMAIN areas -> Rects]
    /\ \A i \in DOMAIN rects : Within(rects[i], page)
    /\ \A t \in DOMAIN areas : Within(areas[t], page)
    /\ \A i, j \in DOMAIN rects : i # j => Apart(rects[i], rects[j])
    /\ \A i \in DOMAIN rects, t \in DOMAIN areas : Apart(rects[i], areas[t])
    /\ \A s, t \in DOMAIN areas : s # t => Apart(areas[s], areas[t])
    /\ \A x, y \in Int : Holds(page, x, y) =>
          \/ \E i \in DOMAIN rects : Holds(rects[i], x, y)
          \/ \E t \in DOMAIN areas : Holds(areas[t], x, y)

(* The rectangle that one of the new ones was part of. *)
Source(rects, i, w, h, j) ==
    IF rects[i].w = w /\ rects[i].h = h THEN IF j < i THEN j ELSE j + 1
    ELSE IF j = Len(rects) + 1 THEN i ELSE j

(* What Split does, without its cases: each new rectangle is part of an old  *)
(* one, only the one that is split has two, and no cell but those of the     *)
(* corner is lost.                                                           *)
LEMMA SplitFacts ==
    ASSUME NEW rects \in Seq(Rects), NEW i \in DOMAIN rects, NEW w \in Nat, NEW h \in Nat,
           w <= rects[i].w, h <= rects[i].h,
           NEW c, c = Rect(rects[i].x, rects[i].y, w, h),
           NEW new, new = Split(rects, i, w, h)
    PROVE  /\ c \in Rects /\ Within(c, rects[i]) /\ new \in Seq(Rects)
           /\ \A j \in DOMAIN new : LET k == Source(rects, i, w, h, j) IN
                 /\ k \in DOMAIN rects /\ Within(new[j], rects[k])
                 /\ k = i => Apart(new[j], c)
           /\ \A j, m \in DOMAIN new :
                 j # m => \/ Source(rects, i, w, h, j) # Source(rects, i, w, h, m)
                          \/ Apart(new[j], new[m])
           /\ \A k \in DOMAIN rects, x, y \in Int : Holds(rects[k], x, y) =>
                 Holds(c, x, y) \/ \E j \in DOMAIN new : Holds(new[j], x, y)
<1> DEFINE r == rects[i]
           a == RightOf(r, w, h)
           b == BelowOf(r, w, h)
           n == Len(rects)
           Src(j) == Source(rects, i, w, h, j)
<1>1. /\ n \in Nat /\ DOMAIN rects = 1 .. n /\ i \in 1 .. n /\ r \in Rects
      /\ \A k \in 1 .. n : rects[k] \in Rects
  OBVIOUS
<1>2. /\ c \in Rects /\ a \in Rects /\ b \in Rects
      /\ Within(c, r) /\ Within(a, r) /\ Within(b, r)
      /\ Apart(a, c) /\ Apart(b, c) /\ Apart(a, b) /\ Apart(b, a)
      /\ \A x, y \in Int :
            /\ Holds(r, x, y) => Holds(c, x, y) \/ Holds(a, x, y) \/ Holds(b, x, y)
            /\ r.w = w => ~ Holds(a, x, y)
            /\ r.h = h => ~ Holds(b, x, y)
  <2>1. w <= r.w /\ h <= r.h /\ c = Rect(r.x, r.y, w, h)
    OBVIOUS
  <2>2. a = RightOf(r, w, h) /\ b = BelowOf(r, w, h)
    OBVIOUS
  <2>3. r \in Rects
    BY <1>1
  <2> HIDE DEF r, a, b
  <2>4. CornerTaken(r, w, h, c, a, b)
    BY <2>1, <2>2, <2>3, CornerCut
  <2> QED BY <2>4 DEF CornerTaken
<1>3. \A k \in 1 .. n : Within(rects[k], rects[k])
  BY <1>1, WithinSelf
<1> DEFINE Goal ==
           /\ new \in Seq(Rects)
           /\ \A j \in DOMAIN new :
                 /\ Src(j) \in 1 .. n /\ Within(new[j], rects[Src(j)])
                 /\ Src(j) = i => Apart(new[j], c)
           /\ \A j, m \in DOMAIN new : j # m => Src(j) # Src(m) \/ Apart(new[j], new[m])
           /\ \A k \in 1 .. n, x, y \in Int : Holds(rects[k], x, y) =>
                 Holds(c, x, y) \/ \E j \in DOMAIN new : Holds(new[j], x, y)
<1>4. CASE r.w = w /\ r.h = h
  <2>1. new = [j \in 1 .. n - 1 |-> IF j < i THEN rects[j] ELSE rects[j + 1]]
    BY <1>4 DEF Split
  <2>2. \A j \in Int : Src(j) = IF j < i THEN j ELSE j + 1
    BY <1>4 DEF Source
  <2> HIDE DEF a, b, Src
  <2>3. new \in Seq(Rects) /\ DOMAIN new = 1 .. n - 1
    <3>1. \A j \in 1 .. n - 1 : (IF j < i THEN rects[j] ELSE rects[j + 1]) \in Rects
      BY <1>1
    <3> QED BY <1>1, <2>1, <3>1
  <2>4. ASSUME NEW j \in 1 .. n - 1
        PROVE  new[j] = rects[Src(j)] /\ Src(j) \in 1 .. n /\ Src(j) # i
    <3>1. Src(j) = (IF j < i THEN j ELSE j + 1) /\ j \in Int /\ i \in Int
      BY <1>1, <2>2
    <3>2. new[j] = IF j < i THEN rects[j] ELSE rects[j + 1]
      BY <2>1
    <3> HIDE DEF r
    <3> QED BY <1>1, <3>1, <3>2
  <2>5. ASSUME NEW j \in 1 .. n - 1, NEW m \in 1 .. n - 1, j # m
        PROVE  Src(j) # Src(m)
    <3>1. j \in Int /\ m \in Int /\ i \in Int
      BY <1>1
    <3>2. /\ Src(j) = IF j < i THEN j ELSE j + 1
          /\ Src(m) = IF m < i THEN m ELSE m + 1
      BY <2>2, <3>1
    <3> QED BY <2>5, <3>1, <3>2
  <2>6. ASSUME NEW k \in 1 .. n, NEW x \in Int, NEW y \in Int, Holds(rects[k], x, y)
        PROVE  Holds(c, x, y) \/ \E j \in 1 .. n - 1 : Holds(new[j], x, y)
    <3>1. CASE k = i
      BY <3>1, <2>6, <1>2, <1>4
    <3>2. CASE k < i
      <4>1. k \in 1 .. n - 1 /\ new[k] = rects[k]
        BY <3>2, <1>1, <2>1
      <4> QED BY <4>1, <2>6
    <3>3. CASE k > i
      <4>1. k - 1 \in 1 .. n - 1 /\ new[k - 1] = rects[k]
        BY <3>3, <1>1, <2>1
      <4> QED BY <4>1, <2>6
    <3> QED BY <3>1, <3>2, <3>3, <1>1
  <2>7. \A j \in 1 .. n - 1 : Src(j) \in 1 .. n /\ Within(new[j], rects[Src(j)]) /\ Src(j) # i
    BY <2>4, <1>3
  <2> HIDE DEF r, n
  <2>8. Goal
    BY <2>3, <2>5, <2>6, <2>7
  <2> QED BY <1>1, <1>2, <2>8 DEF Src, n, r
<1>5. CASE (r.w # w /\ r.h = h) \/ (r.w = w /\ r.h # h)
  <2>1. PICK q \in {a, b} : /\ new = [rects EXCEPT ![i] = q]
                            /\ \A x, y \in Int : Holds(r, x, y) => Holds(c, x, y) \/ Holds(q, x, y)
    <3>1. CASE r.w # w /\ r.h = h
      <4>1. new = [rects EXCEPT ![i] = a]
        BY <3>1 DEF Split
      <4> HIDE DEF a, b, r
      <4> QED BY <3>1, <4>1, <1>2
    <3>2. CASE r.w = w /\ r.h # h
      <4>1. new = [rects EXCEPT ![i] = b]
        BY <3>2 DEF Split
      <4> HIDE DEF a, b, r
      <4> QED BY <3>2, <4>1, <1>2
    <3> QED BY <3>1, <3>2, <1>5
  <2>2. \A j \in 1 .. n : Src(j) = j
    BY <1>5, <1>1 DEF Source
  <2>3. q \in Rects /\ Within(q, r) /\ Apart(q, c)
    BY <1>2, <2>1
  <2> HIDE DEF a, b, Src
  <2>4. new \in Seq(Rects) /\ DOMAIN new = 1 .. n
    BY <1>1, <2>1, <2>3
  <2>5. \A j \in 1 .. n : new[j] = IF j = i THEN q ELSE rects[j]
    BY <1>1, <2>1
  <2>6. \A j \in 1 .. n : Within(new[j], rects[j]) /\ (j = i => Apart(new[j], c))
    BY <1>3, <2>3, <2>5
  <2>7. ASSUME NEW k \in 1 .. n, NEW x \in Int, NEW y \in Int, Holds(rects[k], x, y)
        PROVE  Holds(c, x, y) \/ \E j \in 1 .. n : Holds(new[j], x, y)
    <3>1. CASE k = i
      BY <3>1, <2>1, <2>5, <2>7
    <3>2. CASE k # i
      BY <3>2, <2>5, <2>7
    <3> QED BY <3>1, <3>2
  <2> HIDE DEF r, n
  <2>8. \A j \in 1 .. n :
           Src(j) \in 1 .. n /\ Within(new[j], rects[Src(j)]) /\ (Src(j) = i => Apart(new[j], c))
    BY <2>2, <2>6
  <2>9. \A j, m \in 1 .. n : j # m => Src(j) # Src(m)
    BY <2>2
  <2>10. Goal
    BY <2>4, <2>7, <2>8, <2>9
  <2> QED BY <1>1, <1>2, <2>10 DEF Src, n, r
<1>6. CASE r.w # w /\ r.h # h
  <2>1. new = Append([rects EXCEPT ![i] = a], b)
    BY <1>6 DEF Split
  <2>2. \A j \in 1 .. n + 1 : Src(j) = IF j = n + 1 THEN i ELSE j
    BY <1>6, <1>1 DEF Source
  <2> HIDE DEF a, b, Src
  <2>3. [rects EXCEPT ![i] = a] \in Seq(Rects) /\ Len([rects EXCEPT ![i] = a]) = n
    BY <1>1, <1>2
  <2>4. new \in Seq(Rects) /\ DOMAIN new = 1 .. n + 1
    BY <1>1, <1>2, <2>1, <2>3
  <2>5. \A j \in 1 .. n + 1 : new[j] = IF j = n + 1 THEN b ELSE IF j = i THEN a ELSE rects[j]
    BY <1>1, <1>2, <2>1, <2>3
  <2>6. ASSUME NEW j \in 1 .. n + 1
        PROVE  /\ Src(j) \in 1 .. n /\ Within(new[j], rects[Src(j)])
               /\ Src(j) = i => Apart(new[j], c)
    BY <1>1, <1>2, <1>3, <2>2, <2>5
  <2>7. ASSUME NEW j \in 1 .. n + 1, NEW m \in 1 .. n + 1, j # m
        PROVE  Src(j) # Src(m) \/ Apart(new[j], new[m])
    BY <1>1, <1>2, <2>2, <2>5, <2>7
  <2>8. ASSUME NEW k \in 1 .. n, NEW x \in Int, NEW y \in Int, Holds(rects[k], x, y)
        PROVE  Holds(c, x, y) \/ \E j \in 1 .. n + 1 : Holds(new[j], x, y)
    <3>1. CASE k = i
      <4>1. new[i] = a /\ new[n + 1] = b /\ i \in 1 .. n + 1 /\ n + 1 \in 1 .. n + 1
        BY <1>1, <2>5
      <4> QED BY <3>1, <4>1, <1>2, <2>8
    <3>2. CASE k # i
      <4>1. new[k] = rects[k] /\ k \in 1 .. n + 1
        BY <3>2, <1>1, <2>5
      <4> QED BY <4>1, <2>8
    <3> QED BY <3>1, <3>2
  <2> HIDE DEF r, n
  <2>9. Goal
    BY <2>4, <2>6, <2>7, <2>8
  <2> QED BY <1>1, <1>2, <2>9 DEF Src, n, r
<1> QED BY <1>4, <1>5, <1>6

(* With one texture more. *)
AddArea(areas, u, c) == [t \in DOMAIN areas \cup {u} |-> IF t = u THEN c ELSE areas[t]]

LEMMA SplitKeeps ==
    ASSUME NEW rects, NEW areas, NEW page, CutInto(rects, areas, page),
           NEW i \in DOMAIN rects, NEW w \in Nat, NEW h \in Nat,
           w <= rects[i].w, h <= rects[i].h,
           NEW u, u \notin DOMAIN areas,
           NEW c, c = Rect(rects[i].x, rects[i].y, w, h),
           NEW new, new = Split(rects, i, w, h)
    PROVE  CutInto(new, AddArea(areas, u, c), page)
<1> DEFINE Src(j) == Source(rects, i, w, h, j)
           more == AddArea(areas, u, c)
<1>1. rects \in Seq(Rects) /\ page \in Rects /\ areas \in [DOMAIN areas -> Rects]
  BY DEF CutInto
<1>2. /\ c \in Rects /\ Within(c, rects[i]) /\ new \in Seq(Rects)
      /\ \A j \in DOMAIN new :
            /\ Src(j) \in DOMAIN rects /\ Within(new[j], rects[Src(j)])
            /\ Src(j) = i => Apart(new[j], c)
      /\ \A j, m \in DOMAIN new : j # m => Src(j) # Src(m) \/ Apart(new[j], new[m])
      /\ \A k \in DOMAIN rects, x, y \in Int : Holds(rects[k], x, y) =>
            Holds(c, x, y) \/ \E j \in DOMAIN new : Holds(new[j], x, y)
  BY <1>1, SplitFacts
<1>3. /\ \A k \in DOMAIN rects : rects[k] \in Rects
      /\ \A j \in DOMAIN new : new[j] \in Rects
      /\ \A t \in DOMAIN areas : areas[t] \in Rects
  BY <1>1, <1>2
<1>4. /\ DOMAIN more = DOMAIN areas \cup {u}
      /\ more[u] = c /\ \A t \in DOMAIN areas : more[t] = areas[t]
      /\ more \in [DOMAIN more -> Rects]
  BY <1>2, <1>3 DEF AddArea
<1>5. /\ \A k \in DOMAIN rects : Within(rects[k], page)
      /\ \A t \in DOMAIN areas : Within(areas[t], page)
      /\ \A k, m \in DOMAIN rects : k # m => Apart(rects[k], rects[m])
      /\ \A k \in DOMAIN rects, t \in DOMAIN areas : Apart(rects[k], areas[t])
      /\ \A t, v \in DOMAIN areas : t # v => Apart(areas[t], areas[v])
      /\ \A x, y \in Int : Holds(page, x, y) =>
            \/ \E k \in DOMAIN rects : Holds(rects[k], x, y)
            \/ \E t \in DOMAIN areas : Holds(areas[t], x, y)
  BY DEF CutInto
<1> HIDE DEF Src, more
<1>6. \A t \in DOMAIN areas : Within(areas[t], areas[t])
  BY <1>3, WithinSelf
<1>7. /\ \A j \in DOMAIN new : Within(new[j], page)
      /\ \A t \in DOMAIN more : Within(more[t], page)
  BY <1>1, <1>2, <1>3, <1>4, <1>5, WithinTrans
<1>8. ASSUME NEW j \in DOMAIN new, NEW m \in DOMAIN new, j # m
      PROVE  Apart(new[j], new[m])
  <2>1. CASE Src(j) # Src(m)
    <3>1. Apart(rects[Src(j)], rects[Src(m)])
      BY <2>1, <1>2, <1>5
    <3> QED BY <3>1, <1>2, <1>3, ApartWithin
  <2> QED BY <2>1, <1>2, <1>8
<1>9. ASSUME NEW j \in DOMAIN new, NEW t \in DOMAIN more
      PROVE  Apart(new[j], more[t])
  <2>1. CASE t = u /\ Src(j) = i
    BY <2>1, <1>2, <1>4
  <2>2. CASE t = u /\ Src(j) # i
    <3>1. Apart(rects[Src(j)], rects[i])
      BY <2>2, <1>2, <1>5
    <3>2. Apart(new[j], c)
      BY <3>1, <1>2, <1>3, ApartWithin
    <3> QED BY <2>2, <3>2, <1>4
  <2>3. CASE t # u
    <3>1. t \in DOMAIN areas /\ Apart(rects[Src(j)], areas[t])
      BY <2>3, <1>2, <1>4, <1>5
    <3>2. Apart(new[j], areas[t])
      BY <3>1, <1>2, <1>3, <1>6, ApartWithin
    <3> QED BY <3>1, <3>2, <1>4
  <2> QED BY <2>1, <2>2, <2>3
<1>10. ASSUME NEW t \in DOMAIN areas
       PROVE  Apart(c, areas[t])
  BY <1>2, <1>3, <1>5, <1>6, ApartWithin
<1>11. ASSUME NEW t \in DOMAIN more, NEW v \in DOMAIN more, t # v
       PROVE  Apart(more[t], more[v])
  <2>1. CASE t # u /\ v # u
    BY <2>1, <1>4, <1>5, <1>11
  <2>2. CASE t = u
    BY <2>2, <1>4, <1>10, <1>11
  <2>3. CASE v = u
    <3>1. t \in DOMAIN areas /\ Apart(c, areas[t])
      BY <2>3, <1>4, <1>10, <1>11
    <3> QED BY <2>3, <3>1, <1>2, <1>3, <1>4, ApartSwap
  <2> QED BY <2>1, <2>2, <2>3
<1>12. ASSUME NEW x \in Int, NEW y \in Int, Holds(page, x, y)
       PROVE  \/ \E j \in DOMAIN new : Holds(new[j], x, y)
              \/ \E t \in DOMAIN more : Holds(more[t], x, y)
  <2>1. CASE \E k \in DOMAIN rects : Holds(rects[k], x, y)
    <3>1. Holds(c, x, y) \/ \E j \in DOMAIN new : Holds(new[j], x, y)
      BY <2>1, <1>2
    <3> QED BY <3>1, <1>4
  <2>2. CASE \E t \in DOMAIN areas : Holds(areas[t], x, y)
    BY <2>2, <1>4
  <2> QED BY <2>1, <2>2, <1>5, <1>12
<1>13. CutInto(new, more, page)
  BY <1>1, <1>2, <1>4, <1>7, <1>8, <1>9, <1>11, <1>12 DEF CutInto
<1> QED BY <1>13 DEF more

-----------------------------------------------------------------------------
(* Sizes: whatever the divisor, nothing becomes negative.                    *)

LEMMA DivNat ==
    ASSUME NEW a \in Nat, NEW b \in Nat \ {0}
    PROVE  a \div b \in Nat /\ (a >= b => a \div b >= 1)
OBVIOUS

LEMMA ModBounds ==
    ASSUME NEW a \in Int, NEW b \in Nat \ {0}
    PROVE  a % b \in 0 .. b - 1
OBVIOUS

(* The rest of a division. *)
LEMMA DivMod ==
    ASSUME NEW s \in Nat, NEW d \in Nat \ {0}
    PROVE  /\ s \div d \in Nat /\ s % d \in 0 .. d - 1
           /\ s - (s \div d) * d = s % d
<1>1. s - (s \div d) * d = s % d
  OBVIOUS
<1>2. s \div d \in Nat
  BY DivNat
<1>3. s % d \in 0 .. d - 1
  BY ModBounds
<1> QED BY <1>1, <1>2, <1>3, Zenon

LEMMA SizeFacts ==
    ASSUME NEW size \in Sizes
    PROVE  /\ size.width \in Nat \ {0} /\ size.height \in Nat \ {0}
           /\ Divisor(size) \in Nat \ {0}
           /\ Width(size) \in Nat /\ Height(size) \in Nat /\ HeightHack(size) \in 0 .. 3
<1>1. /\ size.width \in Nat \ {0} /\ size.height \in Nat \ {0}
      /\ PageWidth \in Nat \ {0} /\ PageHeight \in Nat \ {0}
  BY VideoMemoryAssumption
<1>2. Divisor(size) \in Nat \ {0}
  <2> DEFINE divw == size.width \div PageWidth
             divh == size.height \div PageHeight
  <2>1. divw \in Nat /\ divh \in Nat
    BY <1>1, DivNat
  <2>2. CASE size.width > 2 * PageWidth \/ size.height > PageHeight
    <3>1. divw >= 1 \/ divh >= 1
      BY <2>2, <1>1, DivNat
    <3>2. Divisor(size) = IF divw > divh THEN divw ELSE divh
      BY <2>2 DEF Divisor
    <3> HIDE DEF divw, divh
    <3> QED BY <2>1, <3>1, <3>2
  <2>3. CASE ~ (size.width > 2 * PageWidth \/ size.height > PageHeight)
    BY <2>3 DEF Divisor
  <2> QED BY <2>2, <2>3
<1>3. size.width \div Divisor(size) \in Nat /\ Height(size) \in Nat
  BY <1>1, <1>2, DivNat DEF Height
<1>4. Width(size) \in Nat /\ HeightHack(size) \in 0 .. 3
  BY <1>3 DEF Width, HeightHack
<1> QED BY <1>1, <1>2, <1>3, <1>4

-----------------------------------------------------------------------------
(* The invariant.                                                            *)

Areas(p) == [t \in OnPage(p) |-> Area(textures[t])]

\* What a texture records of the size it was asked for.
Recorded(t) ==
    /\ t.w = 2 * Width(t.size) /\ t.h = Height(t.size) /\ t.scale = Divisor(t.size)
    /\ t.rows = Height(t.size) + HeightHack(t.size)

IInv ==
    /\ TypeOK
    /\ \A i \in DOMAIN textures : Recorded(textures[i])
    /\ \A p \in Pages : CutInto(available[p], Areas(p), WholePage(p))
    /\ OverrunsOnlyCrowded

LEMMA WholePageFacts ==
    ASSUME NEW p \in Pages
    PROVE  /\ WholePage(p) \in Rects /\ ReservedX \in 0 .. PageWidth - 2
           /\ Within(WholePage(p), Rect(0, 0, PageWidth, PageHeight))
           /\ WholePage(p).x = (IF IsReserved(p) THEN ReservedX ELSE 0)
<1>1. PageWidth - 1 \in Nat \ {0} /\ VidWidth \in Int /\ PageWidth \in Int /\ PageHeight \in Nat
  BY VideoMemoryAssumption
<1>2. ReservedX \in 0 .. PageWidth - 2
  BY <1>1, ModBounds DEF ReservedX
<1> QED BY <1>1, <1>2 DEF WholePage, Rect, Rects, Within

LEMMA InitInv == Init => IInv
<1> SUFFICES ASSUME Init PROVE IInv
  OBVIOUS
<1>1. TypeOK /\ OverrunsOnlyCrowded
  BY WholePageFacts DEF Init, TypeOK, OverrunsOnlyCrowded, Rects
<1>2. ASSUME NEW p \in Pages
      PROVE  CutInto(available[p], Areas(p), WholePage(p))
  <2>1. available[p] = <<WholePage(p)>> /\ OnPage(p) = {}
    BY DEF Init, OnPage
  <2>2. DOMAIN Areas(p) = {} /\ Areas(p) \in [{} -> Rects]
    BY <2>1 DEF Areas
  <2>3. /\ <<WholePage(p)>> \in Seq(Rects) /\ DOMAIN <<WholePage(p)>> = {1}
        /\ <<WholePage(p)>>[1] = WholePage(p)
    BY WholePageFacts
  <2>4. Within(WholePage(p), WholePage(p))
    BY WholePageFacts, WithinSelf
  <2> QED BY <2>1, <2>2, <2>3, <2>4, WholePageFacts DEF CutInto
<1>3. \A i \in DOMAIN textures : Recorded(textures[i])
  BY DEF Init
<1> QED BY <1>1, <1>2, <1>3 DEF IInv

(* A texture is put into a corner. *)
Placed(r, c, w, h) ==
    /\ available' = [available EXCEPT ![c[1]] = Split(@, c[2], w, h)]
    /\ textures' = Append(textures, Texture(r, c))
    /\ UNCHANGED exit

LEMMA PlacedFacts ==
    ASSUME IInv, Running, NEW r \in Requests, NEW w, NEW h, w = Width(r.size),
           h = Height(r.size) + HeightHack(r.size),
           NEW c \in Fits(w, h), Placed(r, c, w, h)
    PROVE  /\ IInv'
           /\ textures' = Append(textures, Texture(r, c)) /\ Texture(r, c).page = c[1]
           /\ c[1] \in Pages /\ Recorded(Texture(r, c))
<1> DEFINE p == c[1]
           i == c[2]
           n == Len(textures) + 1
           t == Texture(r, c)
           at == available[p][i]
<1>1. /\ r.size \in Sizes /\ r.name \in Names \cup {Unnamed} /\ w \in Nat /\ h \in Nat
      /\ Divisor(r.size) \in Nat \ {0} /\ Height(r.size) \in Nat
  BY SizeFacts DEF Requests
<1>2. p \in Pages /\ i \in DOMAIN available[p] /\ w <= at.w /\ h <= at.h
  <2>1. c \in Pages \X (1 .. MaxRects)
    BY DEF Fits
  <2>2. c[2] \in DOMAIN available[c[1]] /\ available[c[1]][c[2]].w >= w /\ available[c[1]][c[2]].h >= h
    BY DEF Fits
  <2>3. c[1] \in Pages
    BY <2>1
  <2>4. available[p][i] \in Rects
    <3>1. available \in [Pages -> Seq(Rects)]
      BY DEF IInv, TypeOK, Rects
    <3>2. available[p] \in Seq(Rects)
      BY <2>3, <3>1
    <3> QED BY <2>2, <3>2
  <2> QED BY <2>2, <2>3, <2>4, <1>1 DEF Rects
<1>3. available[p] \in Seq(Rects) /\ at \in Rects
  <2>1. available \in [Pages -> Seq(Rects)]
    BY DEF IInv, TypeOK, Rects
  <2>2. available[p] \in Seq(Rects)
    BY <1>2, <2>1
  <2> QED BY <1>2, <2>2
<1>4. /\ t.ident = r.name /\ t.page = p /\ t.x = at.x /\ t.y = at.y /\ t.w = 2 * w
      /\ t.h = Height(r.size) /\ t.scale = Divisor(r.size) /\ t.rows = h /\ t.size = r.size
  BY DEF Texture
<1>5. t \in [ident : Names \cup {Unnamed}, page : Pages, x : Int, y : Int,
             w : Nat, h : Nat, scale : Nat \ {0}, rows : Nat, size : Sizes]
  <2>1. at.x \in Int /\ at.y \in Int /\ 2 * w \in Nat
    <3>1. at \in Rects /\ w \in Nat
      BY <1>1, <1>3
    <3> HIDE DEF at
    <3> QED BY <3>1 DEF Rects
  <2>2. t = [ident |-> r.name, page |-> p, x |-> at.x, y |-> at.y,
             w |-> 2 * w, h |-> Height(r.size), scale |-> Divisor(r.size),
             rows |-> h, size |-> r.size]
    BY DEF Texture
  <2> HIDE DEF p, at, t
  <2> QED BY <1>1, <1>2, <2>1, <2>2
<1>6. Recorded(t)
  BY <1>4 DEF Recorded
<1>7. Area(t) = Rect(at.x, at.y, w, h)
  <2>1. (2 * w) \div 2 = w
    BY <1>1
  <2> QED BY <1>4, <2>1 DEF Area
<1>8. /\ textures' = Append(textures, t) /\ textures' \in Seq(
              [ident : Names \cup {Unnamed}, page : Pages, x : Int, y : Int,
               w : Nat, h : Nat, scale : Nat \ {0}, rows : Nat, size : Sizes])
      /\ DOMAIN textures' = DOMAIN textures \cup {n} /\ n \notin DOMAIN textures
      /\ textures'[n] = t /\ \A k \in DOMAIN textures : textures'[k] = textures[k]
  <2>1. textures \in Seq([ident : Names \cup {Unnamed}, page : Pages, x : Int, y : Int,
                          w : Nat, h : Nat, scale : Nat \ {0}, rows : Nat, size : Sizes])
    BY DEF IInv, TypeOK
  <2>2. textures' = Append(textures, t)
    BY DEF Placed
  <2> DEFINE T == [ident : Names \cup {Unnamed}, page : Pages, x : Int, y : Int,
                   w : Nat, h : Nat, scale : Nat \ {0}, rows : Nat, size : Sizes]
  <2>3. textures \in Seq(T) /\ t \in T
    BY <1>5, <2>1
  <2> HIDE DEF t, T
  <2>4. /\ textures' \in Seq(T)
        /\ DOMAIN textures' = DOMAIN textures \cup {n} /\ n \notin DOMAIN textures
        /\ textures'[n] = t /\ \A k \in DOMAIN textures : textures'[k] = textures[k]
    BY <2>2, <2>3
  <2> QED BY <2>2, <2>4 DEF T
<1> HIDE DEF t
<1>9. /\ available' = [available EXCEPT ![p] = Split(available[p], i, w, h)]
      /\ available \in [Pages -> Seq(Rects)]
  BY DEF Placed, IInv, TypeOK, Rects
<1>10. \A q \in Pages \ {p} : /\ available'[q] = available[q]
                              /\ OnPage(q)' = OnPage(q) /\ Areas(q)' = Areas(q)
  <2> SUFFICES ASSUME NEW q \in Pages \ {p}
               PROVE  /\ available'[q] = available[q]
                      /\ OnPage(q)' = OnPage(q) /\ Areas(q)' = Areas(q)
    OBVIOUS
  <2>1. available'[q] = available[q]
    BY <1>9
  <2>2. OnPage(q)' = OnPage(q)
    BY <1>4, <1>8 DEF OnPage
  <2>3. \A k \in OnPage(q) : textures'[k] = textures[k]
    BY <1>8 DEF OnPage
  <2> QED BY <2>1, <2>2, <2>3 DEF Areas
<1>11. Areas(p)' = AddArea(Areas(p), n, Area(t)) /\ n \notin DOMAIN Areas(p)
  <2>1. OnPage(p)' = OnPage(p) \cup {n} /\ OnPage(p) \subseteq DOMAIN textures
    BY <1>4, <1>8 DEF OnPage
  <2>2. \A k \in OnPage(p) : Area(textures'[k]) = Areas(p)[k]
    BY <1>8, <2>1 DEF Areas
  <2>3. DOMAIN Areas(p) = OnPage(p) /\ n \notin OnPage(p)
    BY <1>8, <2>1 DEF Areas
  <2>4. Areas(p)' = [k \in OnPage(p) \cup {n} |-> Area(textures'[k])]
    BY <2>1 DEF Areas
  <2> QED BY <1>8, <2>2, <2>3, <2>4 DEF AddArea
<1>12. ASSUME NEW q \in Pages
       PROVE  CutInto(available'[q], Areas(q)', WholePage(q))
  <2>0. CutInto(available[q], Areas(q), WholePage(q))
    BY DEF IInv
  <2>1. CASE q = p
    <3>1. available'[p] = Split(available[p], i, w, h)
      BY <1>2, <1>9
    <3>2. i \in DOMAIN available[p] /\ w <= available[p][i].w /\ h <= available[p][i].h
      BY <1>2
    <3>3. Area(t) = Rect(available[p][i].x, available[p][i].y, w, h)
      BY <1>7
    <3>4. CutInto(available[p], Areas(p), WholePage(p))
      BY <2>0, <2>1
    <3> HIDE DEF p, i, n
    <3>5. CutInto(available'[p], AddArea(Areas(p), n, Area(t)), WholePage(p))
      BY <1>1, <1>11, <3>1, <3>2, <3>3, <3>4, SplitKeeps
    <3> QED BY <2>1, <3>5, <1>11
  <2>2. CASE q # p
    BY <2>0, <2>2, <1>10
  <2> QED BY <2>1, <2>2
<1>13. TypeOK'
  <2>1. Split(available[p], i, w, h) \in Seq(Rects)
    <3>1. available'[p] = Split(available[p], i, w, h)
      BY <1>2, <1>9
    <3> QED BY <3>1, <1>2, <1>12 DEF CutInto
  <2>2. available' \in [Pages -> Seq(Rects)]
    BY <1>9, <2>1
  <2> QED BY <2>2, <1>8 DEF TypeOK, Rects, Placed, IInv
<1>14. OverrunsOnlyCrowded'
  BY DEF Placed, OverrunsOnlyCrowded, Running
<1>15. \A k \in DOMAIN textures' : Recorded(textures'[k])
  BY <1>6, <1>8 DEF IInv
<1>16. IInv'
  BY <1>12, <1>13, <1>14, <1>15 DEF IInv
<1> QED BY <1>2, <1>4, <1>6, <1>8, <1>16 DEF t

(* The other ways a request ends leave pages and textures alone. *)
LEMMA Unplaced ==
    ASSUME IInv, UNCHANGED <<available, textures>>, TypeOK', OverrunsOnlyCrowded'
    PROVE  IInv'
<1>1. \A p \in Pages : available'[p] = available[p] /\ Areas(p)' = Areas(p)
  BY DEF Areas, OnPage
<1> QED BY <1>1 DEF IInv

(* Products with a size keep the order. *)
LEMMA ProductOrder ==
    ASSUME NEW b \in Nat, NEW i \in Int, NEW n \in Int, i <= n
    PROVE  b * i <= b * n
<1>1. b * (n - i) >= 0
  OBVIOUS
<1>2. b * (n - i) = b * n - b * i
  OBVIOUS
<1>3. b * i \in Int /\ b * n \in Int
  OBVIOUS
<1> QED BY <1>1, <1>2, <1>3

(* The memmove of an index and bytes reaches behind the array only where     *)
(* more than half of it is in use.                                           *)
LEMMA OverrunCrowded ==
    ASSUME NEW w, NEW h, NEW c \in Fits(w, h), Overruns(c, w, h),
           available[c[1]] \in Seq(Rects)
    PROVE  2 * Len(available[c[1]]) > MaxRects
<1> DEFINE count == Len(available[c[1]])
           index == c[2] - 1
<1>1. count \in Nat /\ index \in 0 .. count - 1
  <2>1. c[2] \in DOMAIN available[c[1]]
    BY DEF Fits
  <2> QED BY <2>1
<1>2. RectBytes * index + (RectBytes * count - index) > RectBytes * MaxRects
  BY DEF Overruns
<1>3. RectBytes \in Nat \ {0} /\ MaxRects \in Nat
  BY VideoMemoryAssumption
<1> HIDE DEF count, index
<1>4. RectBytes * index <= RectBytes * count
  BY <1>1, <1>3, ProductOrder
<1>5. RectBytes * count + RectBytes * count > RectBytes * MaxRects
  <2> DEFINE a == RectBytes * index
             b == RectBytes * count
             m == RectBytes * MaxRects
  <2>1. a \in Int /\ b \in Int /\ m \in Int
    BY <1>1, <1>3
  <2>2. a <= b /\ a + (b - index) > m
    BY <1>2, <1>4
  <2> HIDE DEF a, b, m
  <2>3. b + b > m
    BY <1>1, <2>1, <2>2
  <2> QED BY <2>3 DEF b, m
<1>6. count + count > MaxRects
  <2> SUFFICES ASSUME count + count <= MaxRects PROVE FALSE
    BY <1>1, <1>3
  <2>1. RectBytes * (count + count) <= RectBytes * MaxRects
    BY <1>1, <1>3, ProductOrder
  <2>2. RectBytes * (count + count) = RectBytes * count + RectBytes * count
    BY <1>1, <1>3
  <2>3. RectBytes * count \in Int /\ RectBytes * MaxRects \in Int
    BY <1>1, <1>3
  <2> QED BY <1>5, <2>1, <2>2, <2>3
<1> QED BY <1>1, <1>6 DEF count

LEMMA NextInv == IInv /\ [Next]_vars => IInv'
<1> SUFFICES ASSUME IInv, [Next]_vars PROVE IInv'
  OBVIOUS
<1>1. ASSUME NEW r \in Requests, Cached(r) \/ DoesNotFit(r)
      PROVE  IInv'
  <2>1. UNCHANGED vars
    BY <1>1 DEF Cached, DoesNotFit
  <2> QED BY <2>1, Unplaced DEF vars, IInv, TypeOK, OverrunsOnlyCrowded
<1>2. ASSUME NEW r \in Requests, Mismatch(r)
      PROVE  IInv'
  <2>1. UNCHANGED <<available, textures>> /\ exit' = [why |-> "mismatch", asked |-> r]
    BY <1>2 DEF Mismatch
  <2>2. TypeOK' /\ OverrunsOnlyCrowded'
    BY <2>1 DEF IInv, TypeOK, OverrunsOnlyCrowded
  <2> QED BY <2>1, <2>2, Unplaced
<1>3. ASSUME NEW r \in Requests, Pack(r)
      PROVE  IInv'
  <2> DEFINE w == Width(r.size)
             h == Height(r.size) + HeightHack(r.size)
  <2>1. PICK c \in Fits(w, h) :
          CASE IsFull(c, w, h) ->
                 exit' = [why |-> "full"] /\ UNCHANGED <<available, textures>>
            [] ~IsFull(c, w, h) /\ Overruns(c, w, h) ->
                 exit' = [why |-> "overrun"] /\ UNCHANGED <<available, textures>>
            [] OTHER -> Placed(r, c, w, h)
    BY <1>3, Zenon DEF Pack, Placed
  <2>2. c[1] \in Pages /\ available[c[1]] \in Seq(Rects)
    <3>1. available \in [Pages -> Seq(Rects)]
      BY DEF IInv, TypeOK, Rects
    <3> QED BY <3>1 DEF Fits
  <2> HIDE DEF w, h
  <2>3. CASE IsFull(c, w, h)
    <3>1. exit' = [why |-> "full"] /\ UNCHANGED <<available, textures>>
      BY <2>1, <2>3
    <3>2. TypeOK' /\ OverrunsOnlyCrowded'
      BY <3>1 DEF IInv, TypeOK, OverrunsOnlyCrowded
    <3> QED BY <3>1, <3>2, Unplaced
  <2>4. CASE ~IsFull(c, w, h) /\ Overruns(c, w, h)
    <3>1. exit' = [why |-> "overrun"] /\ UNCHANGED <<available, textures>>
      BY <2>1, <2>4
    <3>2. 2 * Len(available[c[1]]) > MaxRects
      BY <2>2, <2>4, OverrunCrowded
    <3>3. TypeOK' /\ OverrunsOnlyCrowded'
      BY <2>2, <3>1, <3>2 DEF IInv, TypeOK, OverrunsOnlyCrowded
    <3> QED BY <3>1, <3>3, Unplaced
  <2>5. CASE ~IsFull(c, w, h) /\ ~Overruns(c, w, h)
    <3>1. Placed(r, c, w, h)
      BY <2>1, <2>5
    <3>2. Running
      BY <1>3 DEF Pack
    <3> QED BY <3>1, <3>2, PlacedFacts DEF w, h
  <2> QED BY <2>3, <2>4, <2>5
<1>4. CASE Next
  BY <1>1, <1>2, <1>3, <1>4 DEF Next
<1>5. CASE UNCHANGED vars
  BY <1>5, Unplaced DEF vars, IInv, TypeOK, OverrunsOnlyCrowded
<1> QED BY <1>4, <1>5

THEOREM VideoMemoryInvariant == Spec => []IInv
BY InitInv, NextInv, PTL DEF Spec

LEMMA InvTiles == IInv => PagesTiled
<1> SUFFICES ASSUME IInv, NEW p \in Pages
             PROVE  RectsInside(p) /\ RectsApart(p) /\ NothingLost(p)
  BY DEF PagesTiled
<1>1. CutInto(available[p], Areas(p), WholePage(p))
  BY DEF IInv
<1>2. DOMAIN Areas(p) = OnPage(p) /\ \A t \in OnPage(p) : Areas(p)[t] = Area(textures[t])
  BY DEF Areas
<1>3. 0 .. PageWidth - 1 \subseteq Int /\ 0 .. PageHeight - 1 \subseteq Int
  OBVIOUS
<1>4. RectsInside(p) /\ RectsApart(p)
  BY <1>1, <1>2 DEF CutInto, RectsInside, RectsApart
<1>5. NothingLost(p)
  BY <1>1, <1>2, <1>3 DEF CutInto, NothingLost
<1> QED BY <1>4, <1>5

(* allocate_and_split tiles every page with textures and available           *)
(* rectangles, whatever is loaded and in whatever order.                     *)
THEOREM AlwaysTiled == Spec => []PagesTiled
BY VideoMemoryInvariant, InvTiles, PTL

(* The wrong length of the memmove does no harm before a page is half full   *)
(* of rectangles.                                                            *)
THEOREM OverrunNeedsCrowd == Spec => []OverrunsOnlyCrowded
<1>1. IInv => OverrunsOnlyCrowded
  BY DEF IInv
<1> QED BY <1>1, VideoMemoryInvariant, PTL

-----------------------------------------------------------------------------
(* The refinement.  Where the cells of a page lie in video memory.           *)

LEMMA Strides ==
    ASSUME NEW a \in Int, NEW b \in Int, NEW s \in Nat \ {0},
           NEW x \in 0 .. s - 1, NEW y \in 0 .. s - 1, a * s + x = b * s + y
    PROVE  a = b /\ x = y
<1>1. ASSUME NEW c \in Int, NEW d \in Int, c < d PROVE c * s + s <= d * s
  <2>1. (d - c - 1) * s >= 0
    BY <1>1
  <2>2. (d - c - 1) * s = d * s - c * s - s
    OBVIOUS
  <2> QED BY <2>1, <2>2
<1>2. a * s \in Int /\ b * s \in Int
  OBVIOUS
<1>3. ~ (a < b) /\ ~ (b < a)
  BY <1>1, <1>2
<1> QED BY <1>3

LEMMA PageNumber ==
    ASSUME NEW p \in Pages, NEW k, k = p % Columns, NEW d, d = p \div Columns
    PROVE  k \in 0 .. Columns - 1 /\ d \in {0, 1} /\ p = d * Columns + k
<1>1. Columns \in Nat \ {0} /\ p \in 0 .. 2 * Columns - 1 /\ p \in Nat
  BY VideoMemoryAssumption DEF Pages
<1>2. k \in 0 .. Columns - 1 /\ d \in Nat /\ p - d * Columns = k
  BY <1>1, DivMod
<1>3. p = d * Columns + k
  BY <1>1, <1>2
<1>4. ~ (d >= 2)
  <2> SUFFICES ASSUME d >= 2 PROVE FALSE
    OBVIOUS
  <2>1. (d - 2) * Columns >= 0 /\ (d - 2) * Columns = d * Columns - 2 * Columns
    BY <1>1, <1>2
  <2> QED BY <1>1, <1>2, <1>3, <2>1
<1> QED BY <1>2, <1>3, <1>4

LEMMA PagesDiffer ==
    ASSUME NEW p \in Pages, NEW q \in Pages,
           NEW x \in 0 .. PageWidth - 1, NEW y \in 0 .. PageHeight - 1,
           NEW u \in 0 .. PageWidth - 1, NEW v \in 0 .. PageHeight - 1,
           PageX(p) + x = PageX(q) + u, PageY(p) + y = PageY(q) + v
    PROVE  p = q /\ x = u /\ y = v
<1> DEFINE k(o) == o % Columns
           d(o) == o \div Columns
<1>1. /\ PageWidth \in Nat \ {0} /\ PageHeight \in Nat \ {0} /\ PageLeft \in Int
      /\ Columns \in Nat
  BY VideoMemoryAssumption
<1>2. \A o \in Pages : /\ k(o) \in 0 .. Columns - 1 /\ d(o) \in {0, 1}
                      /\ o = d(o) * Columns + k(o)
  BY PageNumber
<1>3. \A o \in Pages : PageX(o) = PageLeft + k(o) * PageWidth /\ PageY(o) = d(o) * PageHeight
  BY DEF PageX, PageY
<1> HIDE DEF k, d
<1>4. k(p) * PageWidth + x = k(q) * PageWidth + u
  BY <1>1, <1>2, <1>3
<1>5. d(p) * PageHeight + y = d(q) * PageHeight + v
  BY <1>1, <1>2, <1>3
<1>6. k(p) = k(q) /\ x = u
  <2>1. k(p) \in Int /\ k(q) \in Int
    BY <1>1, <1>2
  <2> QED BY <1>1, <1>4, <2>1, Strides
<1>7. d(p) = d(q) /\ y = v
  BY <1>1, <1>2, <1>5, Strides
<1> QED BY <1>2, <1>6, <1>7

LEMMA OffScreen ==
    ASSUME NEW p \in Pages, NEW x \in Int, x >= WholePage(p).x
    PROVE  PageX(p) + x >= VidWidth
<1>1. /\ PageWidth \in Nat \ {0, 1} /\ PageLeft \in Int /\ VidWidth \in Int
      /\ Columns \in Nat \ {0} /\ ReservedX \in 0 .. PageWidth - 2
      /\ VidWidth - PageLeft <= ReservedX
  BY VideoMemoryAssumption, ScreenAssumption, WholePageFacts
<1> DEFINE k == p % Columns
           d == p \div Columns
<1>2. k \in 0 .. Columns - 1 /\ d \in {0, 1} /\ p = d * Columns + k
  BY PageNumber
<1>3. PageX(p) = PageLeft + k * PageWidth
  BY DEF PageX
<1> HIDE DEF k, d
<1>4. CASE k = 0
  <2>1. p = 0 \/ p = Columns
    BY <1>1, <1>2, <1>4
  <2>2. WholePage(p).x = ReservedX
    BY <2>1, WholePageFacts DEF IsReserved
  <2> QED BY <1>1, <1>3, <1>4, <2>2
<1>5. CASE k >= 1
  <2>1. (k - 1) * PageWidth >= 0 /\ (k - 1) * PageWidth = k * PageWidth - PageWidth
    BY <1>1, <1>2, <1>5
  <2>2. WholePage(p).x >= 0
    BY <1>1, WholePageFacts
  <2>3. WholePage(p).x \in Int
    BY WholePageFacts DEF Rects
  <2> QED BY <1>1, <1>2, <1>3, <2>1, <2>2, <2>3
<1> QED BY <1>2, <1>4, <1>5

(* What scaling down and up again loses, with halfwords. *)
LEMMA HalvedBack ==
    ASSUME NEW s \in Nat, NEW d \in Nat \ {0}
    PROVE  s - 2 * ((s \div d) \div 2) * d = s % (2 * d)
<1> DEFINE e == (s \div d) % 2
           q == (s \div d) \div 2
           f == s % d
           g == s % (2 * d)
           m == s \div (2 * d)
<1>1. s \div d \in Nat /\ f \in 0 .. d - 1 /\ s = d * (s \div d) + f
  <2>1. s \div d \in Nat /\ f \in 0 .. d - 1 /\ s - (s \div d) * d = f
    BY DivMod
  <2> QED BY <2>1
<1>2. q \in Nat /\ e \in {0, 1} /\ s \div d = 2 * q + e
  BY <1>1
<1>3. m \in Nat /\ g \in 0 .. 2 * d - 1 /\ s = (2 * d) * m + g
  <2>1. 2 * d \in Nat \ {0}
    OBVIOUS
  <2>2. m \in Nat /\ g \in 0 .. 2 * d - 1 /\ s - m * (2 * d) = g
    BY <2>1, DivMod
  <2> QED BY <2>2
<1> HIDE DEF q, e, f, g, m
<1>4. s = q * (2 * d) + (e * d + f)
  <2>1. s = d * (2 * q + e) + f
    BY <1>1, <1>2
  <2>2. d * (2 * q + e) = q * (2 * d) + e * d
    BY <1>2
  <2> QED BY <1>1, <1>2, <2>1, <2>2
<1>5. e * d + f \in 0 .. 2 * d - 1
  BY <1>1, <1>2
<1>6. m * (2 * d) = (2 * d) * m
  BY <1>3
<1>7. q = m /\ e * d + f = g
  BY <1>2, <1>3, <1>4, <1>5, <1>6, Strides
<1>8. 2 * q * d = q * (2 * d)
  BY <1>2
<1>9. s - 2 * q * d = g
  BY <1>3, <1>4, <1>5, <1>7, <1>8
<1> QED BY <1>9 DEF q, g

(* A texture that lost nothing but an odd texel is taken for itself. *)
LEMMA UncutIsFound ==
    ASSUME NEW t, NEW size \in Sizes, t.size = size, Recorded(t), ~ Cut(size)
    PROVE  CloseEnough(t, size)
<1> DEFINE d == Divisor(size)
<1>1. /\ size.width \in Nat /\ size.height \in Nat /\ d \in Nat \ {0}
      /\ t.w = 2 * ((size.width \div d) \div 2) /\ t.h = size.height \div d /\ t.scale = d
  BY SizeFacts DEF Recorded, Width, Height
<1>2. size.width % (2 * d) <= 1 /\ size.height % d <= 1
  <2>1. /\ ~ (size.width % (2 * d) > 1) /\ ~ (size.height % d > 1)
    BY DEF Cut
  <2>2. 2 * d \in Nat \ {0}
    BY <1>1
  <2>3. size.width % (2 * d) \in 0 .. 2 * d - 1 /\ size.height % d \in 0 .. d - 1
    BY <1>1, <2>2, DivMod
  <2> HIDE DEF d
  <2>4. size.width % (2 * d) \in Int /\ size.height % d \in Int
    BY <1>1, <2>3
  <2> QED BY <2>1, <2>4
<1> HIDE DEF d
<1>3. size.width - t.w * t.scale <= 1
  <2>1. size.width - 2 * ((size.width \div d) \div 2) * d = size.width % (2 * d)
    BY <1>1, HalvedBack
  <2> QED BY <1>1, <1>2, <2>1
<1>4. size.height - t.h * t.scale <= 1
  <2>1. size.height - (size.height \div d) * d = size.height % d
    BY <1>1, DivMod
  <2> QED BY <1>1, <1>2, <2>1
<1> QED BY <1>3, <1>4 DEF CloseEnough

(* The textures as the store sees them. *)
Stored(t) == [name |-> t.ident, size |-> t.size, cells |-> Cells(t)]
store == [i \in DOMAIN textures |-> Stored(textures[i])]
refused == IF exit.why = "mismatch" THEN {<<exit.asked.name, exit.asked.size>>} ELSE {}
PageCells == {CellsOfPage(p) : p \in Pages}
Screen == (0 .. VidWidth - 1) \X (0 .. 2 * PageHeight - 1)

LEMMA TextureTyped ==
    ASSUME TypeOK, NEW i \in DOMAIN textures, NEW t, t = textures[i]
    PROVE  /\ t.page \in Pages /\ t.w \in Nat /\ t.rows \in Nat /\ t.x \in Int /\ t.y \in Int
           /\ t.ident \in Names \cup {Unnamed} /\ t.size \in Sizes
<1> DEFINE T == [ident : Names \cup {Unnamed}, page : Pages, x : Int, y : Int,
                 w : Nat, h : Nat, scale : Nat \ {0}, rows : Nat, size : Sizes]
<1>1. textures \in Seq(T)
  BY DEF TypeOK
<1> HIDE DEF T
<1>2. t \in T
  BY <1>1
<1> QED BY <1>2 DEF T

\* A texture that lies in its page.
InPage(t) ==
    /\ t.page \in Pages /\ t.w \in Nat /\ t.rows \in Nat /\ t.x \in Int /\ t.y \in Int
    /\ Area(t) \in Rects /\ Within(Area(t), WholePage(t.page))

LEMMA AllInPage ==
    ASSUME IInv, NEW i \in DOMAIN textures
    PROVE  InPage(textures[i])
<1> DEFINE t == textures[i]
           p == t.page
<1>1. p \in Pages /\ t.w \in Nat /\ t.rows \in Nat /\ t.x \in Int /\ t.y \in Int
  BY TextureTyped DEF IInv
<1>2. CutInto(available[p], Areas(p), WholePage(p)) /\ i \in OnPage(p)
  BY <1>1 DEF IInv, OnPage
<1>3. Area(t) \in Rects /\ Within(Area(t), WholePage(p))
  BY <1>2 DEF CutInto, Areas
<1> QED BY <1>1, <1>3 DEF InPage

(* The cells of a texture are cells of its page, and the screen has none.    *)
LEMMA CellsInPage ==
    ASSUME NEW t, InPage(t)
    PROVE  Cells(t) \subseteq CellsOfPage(t.page) /\ Cells(t) \cap Screen = {}
<1> DEFINE p == t.page
           a == Area(t)
<1>1. p \in Pages /\ t.w \in Nat /\ t.rows \in Nat /\ t.x \in Int /\ t.y \in Int
  BY DEF InPage
<1>2. a \in Rects /\ Within(a, WholePage(p))
  BY DEF InPage
<1>3. Within(a, Rect(0, 0, PageWidth, PageHeight)) /\ a.x >= WholePage(p).x
  <2>1. WholePage(p) \in Rects /\ Within(WholePage(p), Rect(0, 0, PageWidth, PageHeight))
    BY <1>1, WholePageFacts
  <2>2. Rect(0, 0, PageWidth, PageHeight) \in Rects
    BY VideoMemoryAssumption DEF Rect, Rects
  <2>3. a.x >= WholePage(p).x
    BY <1>2 DEF Within
  <2> QED BY <1>2, <2>1, <2>2, <2>3, WithinTrans
<1>4. a.x = t.x /\ a.y = t.y /\ a.w = t.w \div 2 /\ a.h = t.rows
  BY DEF Area, Rect
<1> HIDE DEF p, a
<1>5. ASSUME NEW c \in Cells(t)
      PROVE  c \in CellsOfPage(p) /\ c \notin Screen
  <2>1. PICK x \in t.x .. t.x + t.w \div 2 - 1, y \in t.y .. t.y + t.rows - 1 :
          c = <<PageX(p) + x, PageY(p) + y>>
    BY <1>5 DEF Cells, p
  <2>2. x \in 0 .. PageWidth - 1 /\ y \in 0 .. PageHeight - 1 /\ x >= WholePage(p).x
    <3>1. a.x \in Int /\ a.y \in Int /\ a.w \in Nat /\ a.h \in Nat
      BY <1>2 DEF Rects
    <3>2. a.x >= 0 /\ a.y >= 0 /\ a.x + a.w <= PageWidth /\ a.y + a.h <= PageHeight
      BY <1>3, <3>1, VideoMemoryAssumption DEF Within, Rect
    <3>3. x \in a.x .. a.x + a.w - 1 /\ y \in a.y .. a.y + a.h - 1
      BY <1>4, <2>1
    <3>4. WholePage(p).x \in Int
      BY <1>1, WholePageFacts DEF Rects
    <3> QED BY <1>3, <3>1, <3>2, <3>3, <3>4, VideoMemoryAssumption
  <2>3. c \in CellsOfPage(p)
    BY <2>1, <2>2 DEF CellsOfPage
  <2>4. PageX(p) + x >= VidWidth
    BY <1>1, <2>2, OffScreen
  <2>5. c \notin Screen
    BY <2>1, <2>4, VideoMemoryAssumption DEF Screen
  <2> QED BY <2>3, <2>5
<1> QED BY <1>5 DEF p

(* Textures that are apart, or in different pages, share no cell. *)
LEMMA CellsApart ==
    ASSUME NEW s, NEW t, InPage(s), InPage(t),
           s.page = t.page => Apart(Area(s), Area(t))
    PROVE  Cells(s) \cap Cells(t) = {}
<1> SUFFICES ASSUME NEW c \in Cells(s), c \in Cells(t) PROVE FALSE
  OBVIOUS
<1>1. /\ s.page \in Pages /\ s.w \in Nat /\ s.rows \in Nat /\ s.x \in Int /\ s.y \in Int
      /\ t.page \in Pages /\ t.w \in Nat /\ t.rows \in Nat /\ t.x \in Int /\ t.y \in Int
      /\ Area(s) \in Rects /\ Area(t) \in Rects
  BY DEF InPage
<1>2. c \in CellsOfPage(s.page) /\ c \in CellsOfPage(t.page)
  BY CellsInPage
<1>3. PICK x \in s.x .. s.x + s.w \div 2 - 1, y \in s.y .. s.y + s.rows - 1 :
        c = <<PageX(s.page) + x, PageY(s.page) + y>>
  BY DEF Cells
<1>4. PICK u \in t.x .. t.x + t.w \div 2 - 1, v \in t.y .. t.y + t.rows - 1 :
        c = <<PageX(t.page) + u, PageY(t.page) + v>>
  BY DEF Cells
<1> DEFINE p == s.page
<1>5. p = t.page
  <2>1. PICK e \in 0 .. PageWidth - 1, f \in 0 .. PageHeight - 1 :
          c = <<PageX(s.page) + e, PageY(s.page) + f>>
    BY <1>2 DEF CellsOfPage
  <2>2. PICK g \in 0 .. PageWidth - 1, h \in 0 .. PageHeight - 1 :
          c = <<PageX(t.page) + g, PageY(t.page) + h>>
    BY <1>2 DEF CellsOfPage
  <2> QED BY <1>1, <2>1, <2>2, PagesDiffer
<1>6. Apart(Area(s), Area(t))
  BY <1>5
<1>7. PageX(p) \in Int /\ PageY(p) \in Int
  <2> DEFINE k == p % Columns
             d == p \div Columns
  <2>1. k \in 0 .. Columns - 1 /\ d \in {0, 1}
    BY <1>1, PageNumber
  <2>2. PageX(p) = PageLeft + k * PageWidth /\ PageY(p) = d * PageHeight
    BY DEF PageX, PageY
  <2> HIDE DEF k, d, p
  <2> QED BY <2>1, <2>2, VideoMemoryAssumption
<1>8. x = u /\ y = v
  <2> HIDE DEF p
  <2>1. x \in Int /\ y \in Int /\ u \in Int /\ v \in Int
    BY <1>1, <1>3, <1>4
  <2>2. PageX(p) + x = PageX(p) + u /\ PageY(p) + y = PageY(p) + v
    BY <1>3, <1>4, <1>5 DEF p
  <2> QED BY <1>7, <2>1, <2>2
<1>9. /\ Area(s).x = s.x /\ Area(s).y = s.y /\ Area(s).w = s.w \div 2 /\ Area(s).h = s.rows
      /\ Area(t).x = t.x /\ Area(t).y = t.y /\ Area(t).w = t.w \div 2 /\ Area(t).h = t.rows
  BY DEF Area, Rect
<1> QED BY <1>1, <1>3, <1>4, <1>6, <1>8, <1>9 DEF Apart, Empty

(* A texture that is packed is loaded: it has cells of its own. *)
LEMMA PlacedIsLoad ==
    ASSUME IInv, Running, NEW r \in Requests, Found(r.name) = {},
           NEW w, NEW h, w = Width(r.size), h = Height(r.size) + HeightHack(r.size),
           NEW c \in Fits(w, h), Placed(r, c, w, h), NEW t, t = Texture(r, c)
    PROVE  Store!Next
<1> DEFINE n == Len(textures) + 1
           p == c[1]
           T == [ident : Names \cup {Unnamed}, page : Pages, x : Int, y : Int,
                 w : Nat, h : Nat, scale : Nat \ {0}, rows : Nat, size : Sizes]
<1>1. IInv' /\ textures' = Append(textures, t) /\ UNCHANGED exit /\ p \in Pages /\ t.page = p
  BY PlacedFacts DEF Placed
<1>2. t.ident = r.name /\ t.size = r.size
  BY DEF Texture
<1>3. textures \in Seq(T) /\ textures' \in Seq(T)
  BY <1>1 DEF IInv, TypeOK
<1> HIDE DEF p, T
<1>4. /\ DOMAIN textures' = DOMAIN textures \cup {n} /\ n \notin DOMAIN textures
      /\ DOMAIN textures = 1 .. Len(textures) /\ Len(textures) \in Nat
      /\ DOMAIN textures' = 1 .. n
      /\ textures'[n] = t /\ \A k \in DOMAIN textures : textures'[k] = textures[k]
  BY <1>1, <1>3
<1>5. PICK areas : areas = Areas(p)'
  OBVIOUS
<1>6. /\ DOMAIN areas = {k \in DOMAIN textures' : textures'[k].page = p}
      /\ \A k \in DOMAIN areas : areas[k] = Area(textures'[k])
  BY <1>5 DEF Areas, OnPage
<1>7. CutInto(available'[p], areas, WholePage(p))
  BY <1>1, <1>5 DEF IInv
<1>8. /\ n \in DOMAIN areas /\ areas[n] = Area(t)
      /\ \A k \in DOMAIN textures : textures[k].page = p =>
            k \in DOMAIN areas /\ areas[k] = Area(textures[k])
  BY <1>1, <1>4, <1>6
<1>9. InPage(t)
  <2>1. t \in T
    BY <1>3, <1>4
  <2>2. Area(t) \in Rects /\ Within(Area(t), WholePage(p))
    BY <1>7, <1>8 DEF CutInto
  <2> QED BY <1>1, <2>1, <2>2 DEF InPage, T
<1>10. Cells(t) \subseteq CellsOfPage(p) /\ Cells(t) \cap Screen = {}
  BY <1>1, <1>9, CellsInPage
<1>11. ASSUME NEW k \in DOMAIN textures
       PROVE  Cells(t) \cap Cells(textures[k]) = {}
  <2>1. textures[k].page = p => Apart(Area(t), Area(textures[k]))
    BY <1>4, <1>7, <1>8 DEF CutInto
  <2>2. InPage(textures[k])
    BY AllInPage
  <2> QED BY <1>1, <1>9, <2>1, <2>2, CellsApart
<1>12. /\ DOMAIN store = 1 .. Len(textures) /\ store \in Seq({Stored(textures[k]) : k \in DOMAIN textures})
       /\ Len(store) = Len(textures)
  BY <1>4 DEF store
<1>13. store' = [k \in 1 .. n |-> Stored(textures'[k])]
  BY <1>4 DEF store
<1>14. Len(store') = n /\ store'[n] = Stored(t)
  BY <1>4, <1>13
<1>15. store' = Append(store, Stored(t))
  BY <1>4, <1>12, <1>13, <1>14 DEF store
<1>16. refused = {} /\ refused' = refused
  BY <1>1 DEF Running, refused
<1>17. ASSUME NEW new, new = store'[Len(store')]
       PROVE  Store!Load(new.name, new.size, new.cells)
  <2>1. /\ new.name = t.ident /\ new.size = t.size /\ new.cells = Cells(t)
        /\ Stored(t) = [name |-> new.name, size |-> new.size, cells |-> new.cells]
    BY <1>14, <1>17 DEF Stored
  <2>2. new.name = Unnamed \/ {i \in DOMAIN store : store[i].name = new.name} = {}
    BY <1>2, <1>4, <1>12, <2>1 DEF Found, store, Stored
  <2>3. \E page \in PageCells : new.cells \subseteq page
    BY <1>1, <1>10, <2>1 DEF PageCells
  <2>4. \A i \in DOMAIN store : new.cells \cap store[i].cells = {}
    BY <1>11, <2>1 DEF store, Stored
  <2>5. new.cells \cap Screen = {}
    BY <1>10, <2>1
  <2>6. store' = Append(store, [name |-> new.name, size |-> new.size, cells |-> new.cells])
    BY <1>15, <2>1
  <2> QED BY <1>16, <2>2, <2>3, <2>4, <2>5, <2>6
          DEF Store!Load, Store!Stored, store, Stored, refused, PageCells, Screen
<1>18. LET e == store'[Len(store')] IN Store!Load(e.name, e.size, e.cells)
  BY <1>17 DEF Store!Load, Store!Stored
<1>19. Len(store') = Len(store) + 1
  BY <1>12, <1>14
<1> QED BY <1>18, <1>19, Zenon DEF Store!Next, store, Stored

(* psx_vram_find refuses a texture only if another is there under its name   *)
(* or its size suffers from the scaling.                                     *)
LEMMA MismatchIsRefusal ==
    ASSUME IInv, NEW r \in Requests, Mismatch(r)
    PROVE  Store!Next
<1>1. /\ UNCHANGED <<available, textures>> /\ exit' = [why |-> "mismatch", asked |-> r]
  BY DEF Mismatch
<1>2. PICK i \in Found(r.name) : ~ CloseEnough(textures[i], r.size)
  BY DEF Mismatch
<1>3. i \in DOMAIN textures /\ textures[i].ident = r.name /\ Recorded(textures[i]) /\ r.size \in Sizes
  BY <1>2 DEF Found, IInv, Requests
<1>4. textures[i].size # r.size \/ Cut(r.size)
  BY <1>2, <1>3, UncutIsFound
<1>5. refused' = {<<r.name, r.size>>}
  BY <1>1 DEF refused
<1>6. store' = store
  BY <1>1 DEF store, Stored, Cells, PageX, PageY
<1>7. /\ i \in DOMAIN store /\ store[i].name = r.name
      /\ store[i].size # r.size \/ r.size \in {size \in Sizes : Cut(size)}
  BY <1>3, <1>4 DEF store, Stored
<1>8. Store!Refuse(r.name, r.size)
  BY <1>5, <1>6, <1>7 DEF Store!Refuse, Store!Stored, store, Stored, refused
<1>9. <<r.name, r.size>> \in refused'
  BY <1>5
<1>10. \E q \in refused' : Store!Refuse(q[1], q[2])
  BY <1>8, <1>9 DEF Store!Refuse, Store!Stored
<1> QED BY <1>10, Zenon DEF Store!Next, refused

(* The texture memory implements the store: no texture is written over       *)
(* another, over the screen or beyond its page, the rows for the transfer    *)
(* included, and one that is loaded again is found.                          *)
THEOREM VideoMemoryImplementsStore == Spec => ImplementsTextureStore
<1>1. Init => Store!Init
  <2> SUFFICES ASSUME Init PROVE Store!Init
    OBVIOUS
  <2>1. textures = <<>> /\ exit.why # "mismatch"
    BY DEF Init
  <2>2. store = <<>> /\ refused = {}
    BY <2>1 DEF store, refused
  <2> QED BY <2>2 DEF Store!Init, store, Stored, refused
<1>2. IInv /\ [Next]_vars => Store!Next \/ UNCHANGED <<store, refused>>
  <2> SUFFICES ASSUME IInv, [Next]_vars PROVE Store!Next \/ UNCHANGED <<store, refused>>
    OBVIOUS
  <2>1. CASE UNCHANGED vars
    BY <2>1 DEF vars, store, refused, Stored, Cells, PageX, PageY
  <2>2. ASSUME NEW r \in Requests, Cached(r) \/ DoesNotFit(r)
        PROVE  UNCHANGED vars
    BY <2>2 DEF Cached, DoesNotFit
  <2>3. ASSUME NEW r \in Requests, Mismatch(r) PROVE Store!Next
    BY <2>3, MismatchIsRefusal
  <2>4. ASSUME NEW r \in Requests, Pack(r)
        PROVE  Store!Next \/ UNCHANGED <<store, refused>>
    <3> DEFINE w == Width(r.size)
               h == Height(r.size) + HeightHack(r.size)
    <3>1. PICK c \in Fits(w, h) :
            \/ exit' \in {[why |-> "full"], [why |-> "overrun"]} /\ UNCHANGED <<available, textures>>
            \/ Placed(r, c, w, h)
      BY <2>4 DEF Pack, Placed
    <3>2. Running /\ Found(r.name) = {}
      BY <2>4 DEF Pack
    <3>3. CASE exit' \in {[why |-> "full"], [why |-> "overrun"]} /\ UNCHANGED <<available, textures>>
      <4>1. store' = store
        BY <3>3 DEF store, Stored, Cells, PageX, PageY
      <4>2. refused = {} /\ refused' = {}
        BY <3>2, <3>3 DEF refused, Running
      <4> QED BY <4>1, <4>2
    <3>4. CASE Placed(r, c, w, h)
      BY <3>2, <3>4, PlacedIsLoad
    <3> QED BY <3>1, <3>3, <3>4
  <2>5. CASE \E r \in Requests : Cached(r) \/ DoesNotFit(r)
    BY <2>1, <2>2, <2>5
  <2> QED BY <2>1, <2>3, <2>4, <2>5 DEF Next
<1> QED
  BY <1>1, <1>2, VideoMemoryInvariant, PTL
  DEF Spec, ImplementsTextureStore, Store!Spec, store, Stored, refused
=============================================================================
