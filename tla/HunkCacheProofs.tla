---------------------------- MODULE HunkCacheProofs ----------------------------
(***************************************************************************)
(* Proofs about the hunk and the cache, for every size of the hunk, of the *)
(* headers and of the requests, and any number of users: cache blocks lie  *)
(* apart between the two ends of the hunk, both lists hold the same        *)
(* blocks, marks that callers hold stay good, and an allocation gives up   *)
(* only when the block is larger than all there is between the ends.       *)
(***************************************************************************)
EXTENDS HunkCache, TLAPS, WellFoundedInduction

-----------------------------------------------------------------------------
(* Sequences.                                                                *)

LEMMA Item == ASSUME NEW S, NEW s \in Seq(S), NEW i \in 1 .. Len(s) PROVE s[i] \in S
OBVIOUS

LEMMA Members == ASSUME NEW S, NEW s \in Seq(S) PROVE DOMAIN s = 1 .. Len(s) /\ Len(s) \in Nat
OBVIOUS

LEMMA SeqSame ==
    ASSUME NEW S, NEW s \in Seq(S), NEW t \in Seq(S), Len(s) = Len(t),
           \A i \in 1 .. Len(s) : s[i] = t[i]
    PROVE  s = t
<1>1. s = [i \in 1 .. Len(s) |-> s[i]] /\ t = [i \in 1 .. Len(t) |-> t[i]]
  OBVIOUS
<1> QED BY <1>1

LEMMA Part ==
    ASSUME NEW S, NEW s \in Seq(S), NEW m \in 1 .. Len(s) + 1, NEW n \in 0 .. Len(s), m <= n + 1
    PROVE  /\ SubSeq(s, m, n) \in Seq(S)
           /\ Len(SubSeq(s, m, n)) = n + 1 - m
           /\ \A i \in 1 .. n + 1 - m : SubSeq(s, m, n)[i] = s[m + i - 1]
<1>1. m \in Int /\ n \in Int /\ m <= Len(s) + 1 /\ n <= Len(s) /\ Len(s) \in Nat
  OBVIOUS
<1> QED BY <1>1

LEMMA Join ==
    ASSUME NEW S, NEW s \in Seq(S), NEW t \in Seq(S)
    PROVE  /\ s \o t \in Seq(S)
           /\ Len(s \o t) = Len(s) + Len(t)
           /\ \A i \in 1 .. Len(s) + Len(t) :
                 (s \o t)[i] = IF i <= Len(s) THEN s[i] ELSE t[i - Len(s)]
OBVIOUS

\* What InsertAt and RemoveAt do to each position.
LEMMA Inserted ==
    ASSUME NEW S, NEW s \in Seq(S), NEW e \in S, NEW k \in 1 .. Len(s) + 1
    PROVE  /\ InsertAt(s, k, e) \in Seq(S)
           /\ Len(InsertAt(s, k, e)) = Len(s) + 1
           /\ \A i \in 1 .. Len(s) + 1 :
                 InsertAt(s, k, e)[i] = IF i < k THEN s[i] ELSE IF i = k THEN e ELSE s[i - 1]
<1> DEFINE a == SubSeq(s, 1, k - 1)
           z == SubSeq(s, k, Len(s))
           b == <<e>>
           ab == a \o b
           all == ab \o z
<1>1. Len(s) \in Nat /\ k \in Int
  OBVIOUS
<1>2. /\ a \in Seq(S) /\ Len(a) = k - 1
      /\ \A i \in 1 .. k - 1 : a[i] = s[i]
  <2>1. 1 \in 1 .. Len(s) + 1 /\ k - 1 \in 0 .. Len(s) /\ 1 <= (k - 1) + 1
    BY <1>1
  <2>2. (k - 1) + 1 - 1 = k - 1 /\ \A i \in Int : 1 + i - 1 = i
    BY <1>1
  <2> QED BY <2>1, <2>2, Part, <1>1
<1>3. /\ z \in Seq(S) /\ Len(z) = Len(s) + 1 - k
      /\ \A i \in 1 .. Len(s) + 1 - k : z[i] = s[k + i - 1]
  <2>1. Len(s) \in 0 .. Len(s) /\ k <= Len(s) + 1
    BY <1>1
  <2> QED BY <2>1, Part, <1>1
<1>4. b \in Seq(S) /\ Len(b) = 1 /\ b[1] = e
  OBVIOUS
<1> HIDE DEF a, z, b
<1>5. /\ ab \in Seq(S) /\ Len(ab) = k
      /\ \A i \in 1 .. k : ab[i] = IF i < k THEN s[i] ELSE e
  <2>1. /\ ab \in Seq(S) /\ Len(ab) = Len(a) + Len(b)
        /\ \A i \in 1 .. Len(a) + Len(b) :
              ab[i] = IF i <= Len(a) THEN a[i] ELSE b[i - Len(a)]
    BY <1>2, <1>4, Join DEF ab
  <2> HIDE DEF ab
  <2> QED BY <2>1, <1>1, <1>2, <1>4
<1> HIDE DEF ab
<1>6. /\ all \in Seq(S) /\ Len(all) = k + Len(z)
      /\ \A i \in 1 .. k + Len(z) : all[i] = IF i <= k THEN ab[i] ELSE z[i - k]
  <2>1. /\ all \in Seq(S) /\ Len(all) = Len(ab) + Len(z)
        /\ \A i \in 1 .. Len(ab) + Len(z) :
              all[i] = IF i <= Len(ab) THEN ab[i] ELSE z[i - Len(ab)]
    BY <1>3, <1>5, Join DEF all
  <2> HIDE DEF all
  <2> QED BY <2>1, <1>5
<1>7. InsertAt(s, k, e) = all
  BY DEF InsertAt, a, b, z, ab, all
<1> HIDE DEF InsertAt, all
<1>8. ASSUME NEW i \in 1 .. Len(s) + 1
      PROVE  all[i] = IF i < k THEN s[i] ELSE IF i = k THEN e ELSE s[i - 1]
  <2>0. i \in Int /\ i \in 1 .. k + Len(z)
    BY <1>1, <1>3
  <2>1. CASE i <= k
    BY <2>0, <2>1, <1>1, <1>5, <1>6
  <2>2. CASE i > k
    <3>1. i - k \in 1 .. Len(s) + 1 - k /\ k + (i - k) - 1 = i - 1
      BY <2>0, <2>2, <1>1, <1>3
    <3>2. all[i] = z[i - k]
      BY <2>0, <2>2, <1>1, <1>6
    <3>3. z[i - k] = s[k + (i - k) - 1]
      BY <3>1, <1>3
    <3> QED BY <3>1, <3>2, <3>3, <2>0, <2>2, <1>1
  <2> QED BY <2>0, <2>1, <2>2, <1>1
<1>9. Len(all) = Len(s) + 1
  BY <1>1, <1>3, <1>6
<1> QED BY <1>6, <1>7, <1>8, <1>9

\* The same, to be cited by name.
IsInserted(t, s, k, e) ==
    /\ Len(t) = Len(s) + 1
    /\ \A i \in 1 .. Len(s) + 1 : t[i] = IF i < k THEN s[i] ELSE IF i = k THEN e ELSE s[i - 1]

LEMMA InsertedIs ==
    ASSUME NEW S, NEW s \in Seq(S), NEW e \in S, NEW k \in 1 .. Len(s) + 1
    PROVE  InsertAt(s, k, e) \in Seq(S) /\ IsInserted(InsertAt(s, k, e), s, k, e)
BY Inserted DEF IsInserted

LEMMA Removed ==
    ASSUME NEW S, NEW s \in Seq(S), NEW k \in 1 .. Len(s)
    PROVE  /\ RemoveAt(s, k) \in Seq(S)
           /\ Len(RemoveAt(s, k)) = Len(s) - 1
           /\ \A i \in 1 .. Len(s) - 1 : RemoveAt(s, k)[i] = IF i < k THEN s[i] ELSE s[i + 1]
<1> DEFINE a == SubSeq(s, 1, k - 1)
           z == SubSeq(s, k + 1, Len(s))
           all == a \o z
<1>1. Len(s) \in Nat /\ k \in Int
  OBVIOUS
<1>2. /\ a \in Seq(S) /\ Len(a) = k - 1
      /\ \A i \in 1 .. k - 1 : a[i] = s[i]
  <2>1. 1 \in 1 .. Len(s) + 1 /\ k - 1 \in 0 .. Len(s) /\ 1 <= (k - 1) + 1
    BY <1>1
  <2>2. (k - 1) + 1 - 1 = k - 1 /\ \A i \in Int : 1 + i - 1 = i
    BY <1>1
  <2> QED BY <2>1, <2>2, Part, <1>1
<1>3. /\ z \in Seq(S) /\ Len(z) = Len(s) - k
      /\ \A i \in 1 .. Len(s) - k : z[i] = s[k + i]
  <2>1. Len(s) \in 0 .. Len(s) /\ k + 1 <= Len(s) + 1 /\ k + 1 \in 1 .. Len(s) + 1
    BY <1>1
  <2>2. Len(s) + 1 - (k + 1) = Len(s) - k /\ \A i \in Int : (k + 1) + i - 1 = k + i
    BY <1>1
  <2>3. /\ z \in Seq(S) /\ Len(z) = Len(s) + 1 - (k + 1)
        /\ \A i \in 1 .. Len(s) + 1 - (k + 1) : z[i] = s[(k + 1) + i - 1]
    BY <2>1, Part, <1>1
  <2> QED BY <2>2, <2>3, <1>1
<1> HIDE DEF a, z
<1>4. /\ all \in Seq(S) /\ Len(all) = Len(a) + Len(z)
      /\ \A i \in 1 .. Len(a) + Len(z) : all[i] = IF i <= Len(a) THEN a[i] ELSE z[i - Len(a)]
  BY <1>2, <1>3, Join DEF all
<1>5. RemoveAt(s, k) = all
  BY DEF RemoveAt, a, z, all
<1> HIDE DEF RemoveAt, all
<1>6. ASSUME NEW i \in 1 .. Len(s) - 1
      PROVE  all[i] = IF i < k THEN s[i] ELSE s[i + 1]
  <2>0. i \in Int /\ i \in 1 .. Len(a) + Len(z)
    BY <1>1, <1>2, <1>3
  <2>1. CASE i < k
    BY <2>0, <2>1, <1>1, <1>2, <1>4
  <2>2. CASE i >= k
    <3>1. i - (k - 1) \in 1 .. Len(s) - k /\ k + (i - (k - 1)) = i + 1
      BY <2>0, <2>2, <1>1
    <3>2. all[i] = z[i - (k - 1)]
      BY <2>0, <2>2, <1>1, <1>2, <1>4
    <3>3. z[i - (k - 1)] = s[k + (i - (k - 1))]
      BY <3>1, <1>3
    <3> QED BY <3>1, <3>2, <3>3, <2>0, <2>2, <1>1
  <2> QED BY <2>0, <2>1, <2>2, <1>1
<1>7. Len(all) = Len(s) - 1
  BY <1>1, <1>2, <1>3, <1>4
<1> QED BY <1>4, <1>5, <1>6, <1>7

LEMMA Rest ==
    ASSUME NEW S, NEW s \in Seq(S), NEW k \in 1 .. Len(s), NEW i \in 1 .. Len(s) - 1
    PROVE  \E m \in 1 .. Len(s) : /\ RemoveAt(s, k)[i] = s[m]
                                  /\ (i < k => m = i) /\ (i >= k => m = i + 1)
<1>1. RemoveAt(s, k)[i] = IF i < k THEN s[i] ELSE s[i + 1]
  BY Removed
<1>2. Len(s) \in Nat
  OBVIOUS
<1>3. i \in 1 .. Len(s) /\ i + 1 \in 1 .. Len(s) /\ k \in Int /\ i \in Int
  BY <1>2
<1> HIDE DEF RemoveAt
<1>4. CASE i < k
  <2>1. RemoveAt(s, k)[i] = s[i] BY <1>1, <1>4
  <2>2. ~(i >= k) BY <1>3, <1>4
  <2> QED BY <1>3, <2>1, <2>2
<1>5. CASE ~(i < k)
  <2>1. RemoveAt(s, k)[i] = s[i + 1] BY <1>1, <1>5
  <2> QED BY <1>3, <1>5, <2>1
<1> QED BY <1>4, <1>5

\* No element comes twice.
Distinct(s) == \A i, j \in 1 .. Len(s) : i # j => s[i] # s[j]

LEMMA InSet ==
    ASSUME NEW S, NEW s \in Seq(S)
    PROVE  /\ \A i \in 1 .. Len(s) : s[i] \in ToSet(s)
           /\ \A e \in ToSet(s) : \E i \in 1 .. Len(s) : s[i] = e
           /\ ToSet(s) \subseteq S
BY Members, Item DEF ToSet

LEMMA Gone ==
    ASSUME NEW S, NEW s \in Seq(S), Distinct(s), NEW k \in 1 .. Len(s)
    PROVE  /\ Distinct(RemoveAt(s, k))
           /\ ToSet(RemoveAt(s, k)) = ToSet(s) \ {s[k]}
<1> DEFINE t == RemoveAt(s, k)
<1>1. /\ t \in Seq(S) /\ Len(t) = Len(s) - 1
      /\ \A i \in 1 .. Len(s) - 1 : t[i] = IF i < k THEN s[i] ELSE s[i + 1]
  BY Removed
<1>2. Len(s) \in Nat /\ k \in Int /\ k <= Len(s) /\ 1 <= k
  OBVIOUS
<1> HIDE DEF t
<1>3. Distinct(t)
  <2> SUFFICES ASSUME NEW i \in 1 .. Len(s) - 1, NEW j \in 1 .. Len(s) - 1, i < j
               PROVE  t[i] # t[j]
    BY <1>1 DEF Distinct
  <2>1. PICK m \in 1 .. Len(s) : t[i] = s[m] /\ (i < k => m = i) /\ (i >= k => m = i + 1)
    BY Rest DEF t
  <2>2. PICK n \in 1 .. Len(s) : t[j] = s[n] /\ (j < k => n = j) /\ (j >= k => n = j + 1)
    BY Rest DEF t
  <2>3. m # n
    BY <1>2, <2>1, <2>2
  <2> QED BY <2>1, <2>2, <2>3 DEF Distinct
<1>4. ASSUME NEW e PROVE e \in ToSet(t) <=> e \in ToSet(s) \ {s[k]}
  <2>1. ASSUME e \in ToSet(t) PROVE e \in ToSet(s) /\ e # s[k]
    <3>1. PICK i \in 1 .. Len(s) - 1 : t[i] = e
      BY <2>1, <1>1, InSet
    <3>2. PICK m \in 1 .. Len(s) : e = s[m] /\ m # k
      BY <3>1, <1>1, <1>2
    <3> QED BY <3>2, InSet DEF Distinct
  <2>2. ASSUME e \in ToSet(s), e # s[k] PROVE e \in ToSet(t)
    <3>1. PICK m \in 1 .. Len(s) : s[m] = e
      BY <2>2, InSet
    <3>2. PICK i \in 1 .. Len(s) - 1 : t[i] = e
      <4>1. CASE m < k
        <5>1. m \in 1 .. Len(s) - 1 BY <4>1, <1>2
        <5> QED BY <5>1, <4>1, <3>1, <1>1
      <4>2. CASE m > k
        <5>1. m - 1 \in 1 .. Len(s) - 1 /\ ~(m - 1 < k) /\ (m - 1) + 1 = m BY <4>2, <1>2
        <5> QED BY <5>1, <3>1, <1>1
      <4> QED BY <4>1, <4>2, <2>2, <3>1, <1>2
    <3> QED BY <3>2, <1>1, InSet
  <2> QED BY <2>1, <2>2
<1>5. ToSet(t) = ToSet(s) \ {s[k]}
  BY <1>4
<1> QED BY <1>3, <1>5 DEF t

\* Unlinking takes away the place where u is,
LEMMA UnlinkedIs ==
    ASSUME NEW S, NEW s \in Seq(S), NEW u \in ToSet(s)
    PROVE  \E k \in 1 .. Len(s) : s[k] = u /\ Unlinked(s, u) = RemoveAt(s, k)
<1> DEFINE k == CHOOSE i \in 1 .. Len(s) : s[i] = u
<1>1. k \in 1 .. Len(s) /\ s[k] = u
  BY InSet
<1>2. Unlinked(s, u) = RemoveAt(s, k)
  BY DEF Unlinked
<1> QED BY <1>1, <1>2

LEMMA UnlinkedFacts ==
    ASSUME NEW S, NEW s \in Seq(S), Distinct(s), NEW u \in ToSet(s)
    PROVE  /\ Unlinked(s, u) \in Seq(S) /\ Len(Unlinked(s, u)) = Len(s) - 1
           /\ Distinct(Unlinked(s, u)) /\ ToSet(Unlinked(s, u)) = ToSet(s) \ {u}
<1>1. PICK k \in 1 .. Len(s) : s[k] = u /\ Unlinked(s, u) = RemoveAt(s, k)
  BY UnlinkedIs
<1>2. Distinct(RemoveAt(s, k)) /\ ToSet(RemoveAt(s, k)) = ToSet(s) \ {s[k]}
  BY Gone
<1>3. RemoveAt(s, k) \in Seq(S) /\ Len(RemoveAt(s, k)) = Len(s) - 1
  BY Removed
<1> QED BY <1>1, <1>2, <1>3

\* and leaves the others in their order.
RestKept(s, k) ==
    \A i, j \in 1 .. Len(s) - 1 : i < j =>
       \E m, n \in 1 .. Len(s) :
          /\ m < n /\ m # k /\ n # k
          /\ RemoveAt(s, k)[i] = s[m] /\ RemoveAt(s, k)[j] = s[n]

LEMMA RestOrder == ASSUME NEW S, NEW s \in Seq(S), NEW k \in 1 .. Len(s) PROVE RestKept(s, k)
<1> SUFFICES ASSUME NEW i \in 1 .. Len(s) - 1, NEW j \in 1 .. Len(s) - 1, i < j
             PROVE  \E m, n \in 1 .. Len(s) :
                       /\ m < n /\ m # k /\ n # k
                       /\ RemoveAt(s, k)[i] = s[m] /\ RemoveAt(s, k)[j] = s[n]
  BY DEF RestKept
<1>1. PICK m \in 1 .. Len(s) :
         RemoveAt(s, k)[i] = s[m] /\ (i < k => m = i) /\ (i >= k => m = i + 1)
  BY Rest
<1>2. PICK n \in 1 .. Len(s) :
         RemoveAt(s, k)[j] = s[n] /\ (j < k => n = j) /\ (j >= k => n = j + 1)
  BY Rest
<1>3. m < n /\ m # k /\ n # k
  <2>1. Len(s) \in Nat /\ i \in Int /\ j \in Int /\ k \in Int
    OBVIOUS
  <2> QED BY <1>1, <1>2, <2>1
<1> QED BY <1>1, <1>2, <1>3

LEMMA InsertedDistinct ==
    ASSUME NEW S, NEW s \in Seq(S), Distinct(s), NEW e \in S, e \notin ToSet(s),
           NEW k \in 1 .. Len(s) + 1
    PROVE  /\ Distinct(InsertAt(s, k, e))
           /\ ToSet(InsertAt(s, k, e)) = ToSet(s) \cup {e}
<1> DEFINE t == InsertAt(s, k, e)
<1>1. /\ t \in Seq(S) /\ Len(t) = Len(s) + 1
      /\ \A i \in 1 .. Len(s) + 1 : t[i] = IF i < k THEN s[i] ELSE IF i = k THEN e ELSE s[i - 1]
  BY Inserted
<1>2. Len(s) \in Nat /\ k \in Int /\ k <= Len(s) + 1 /\ 1 <= k
  OBVIOUS
<1> HIDE DEF t
<1>3. ASSUME NEW i \in 1 .. Len(s) + 1, i # k
      PROVE  \E m \in 1 .. Len(s) : /\ t[i] = s[m]
                                    /\ (i < k => m = i) /\ (i > k => m = i - 1)
  <2>1. CASE i < k
    <3>1. i \in 1 .. Len(s) /\ ~(i > k) BY <2>1, <1>2
    <3>2. t[i] = s[i] BY <2>1, <1>1
    <3> QED BY <3>1, <3>2
  <2>2. CASE i > k
    <3>1. i - 1 \in 1 .. Len(s) /\ ~(i < k) BY <2>2, <1>2
    <3>2. t[i] = s[i - 1] BY <2>2, <3>1, <1>1, <1>3
    <3> QED BY <3>1, <3>2
  <2> QED BY <2>1, <2>2, <1>2, <1>3
<1>4. t[k] = e
  BY <1>1, <1>2
<1>5. Distinct(t)
  <2> SUFFICES ASSUME NEW i \in 1 .. Len(s) + 1, NEW j \in 1 .. Len(s) + 1, i < j
               PROVE  t[i] # t[j]
    BY <1>1 DEF Distinct
  <2>1. CASE i = k
    <3>1. PICK m \in 1 .. Len(s) : t[j] = s[m] BY <2>1, <1>3
    <3> QED BY <3>1, <2>1, <1>4, InSet
  <2>2. CASE j = k
    <3>1. PICK m \in 1 .. Len(s) : t[i] = s[m] BY <2>2, <1>3
    <3> QED BY <3>1, <2>2, <1>4, InSet
  <2>3. CASE i # k /\ j # k
    <3>1. PICK m \in 1 .. Len(s) : t[i] = s[m] /\ (i < k => m = i) /\ (i > k => m = i - 1)
      BY <2>3, <1>3
    <3>2. PICK n \in 1 .. Len(s) : t[j] = s[n] /\ (j < k => n = j) /\ (j > k => n = j - 1)
      BY <2>3, <1>3
    <3>3. m # n
      BY <1>2, <2>3, <3>1, <3>2
    <3> QED BY <3>1, <3>2, <3>3 DEF Distinct
  <2> QED BY <2>1, <2>2, <2>3
<1>6. ASSUME NEW x PROVE x \in ToSet(t) <=> x \in ToSet(s) \cup {e}
  <2>1. ASSUME x \in ToSet(t) PROVE x \in ToSet(s) \cup {e}
    <3>1. PICK i \in 1 .. Len(s) + 1 : t[i] = x
      BY <2>1, <1>1, InSet
    <3> QED BY <3>1, <1>3, <1>4, InSet
  <2>2. ASSUME x \in ToSet(s) PROVE x \in ToSet(t)
    <3>1. PICK m \in 1 .. Len(s) : s[m] = x
      BY <2>2, InSet
    <3>2. PICK i \in 1 .. Len(s) + 1 : t[i] = x
      <4>1. CASE m < k
        <5>1. m \in 1 .. Len(s) + 1 BY <4>1, <1>2
        <5> QED BY <5>1, <4>1, <3>1, <1>1
      <4>2. CASE m >= k
        <5>1. m + 1 \in 1 .. Len(s) + 1 /\ ~(m + 1 < k) /\ m + 1 # k /\ (m + 1) - 1 = m
          BY <4>2, <1>2
        <5> QED BY <5>1, <3>1, <1>1
      <4> QED BY <4>1, <4>2, <3>1, <1>2
    <3> QED BY <3>2, <1>1, InSet
  <2>3. e \in ToSet(t)
    <3>1. k \in 1 .. Len(t) BY <1>1, <1>2
    <3> QED BY <3>1, <1>1, <1>4, InSet
  <2> QED BY <2>1, <2>2, <2>3
<1>7. ToSet(t) = ToSet(s) \cup {e}
  BY <1>6
<1> QED BY <1>5, <1>7 DEF t

LEMMA PutFirst ==
    ASSUME NEW S, NEW s \in Seq(S), Distinct(s), NEW e \in S, e \notin ToSet(s)
    PROVE  /\ <<e>> \o s \in Seq(S) /\ Len(<<e>> \o s) = Len(s) + 1
           /\ Distinct(<<e>> \o s) /\ ToSet(<<e>> \o s) = ToSet(s) \cup {e}
<1>1. 1 \in 1 .. Len(s) + 1
  OBVIOUS
<1>2. InsertAt(s, 1, e) = <<e>> \o s
  <2>1. /\ InsertAt(s, 1, e) \in Seq(S) /\ Len(InsertAt(s, 1, e)) = Len(s) + 1
        /\ \A i \in 1 .. Len(s) + 1 :
              InsertAt(s, 1, e)[i] = IF i < 1 THEN s[i] ELSE IF i = 1 THEN e ELSE s[i - 1]
    BY <1>1, Inserted
  <2>2. <<e>> \in Seq(S) /\ Len(<<e>>) = 1 /\ <<e>>[1] = e
    OBVIOUS
  <2> DEFINE b == <<e>>
  <2>3. /\ b \o s \in Seq(S) /\ Len(b \o s) = Len(b) + Len(s)
        /\ \A i \in 1 .. Len(b) + Len(s) :
              (b \o s)[i] = IF i <= Len(b) THEN b[i] ELSE s[i - Len(b)]
    BY <2>2, Join
  <2> DEFINE c == InsertAt(s, 1, e)
             d == b \o s
  <2> HIDE DEF b, c, d
  <2>4. \A i \in 1 .. Len(s) + 1 : c[i] = d[i]
    <3> SUFFICES ASSUME NEW i \in 1 .. Len(s) + 1 PROVE c[i] = d[i]
      OBVIOUS
    <3>1. Len(b) = 1 /\ b[1] = e /\ Len(s) \in Nat BY <2>2 DEF b
    <3>2. c[i] = IF i < 1 THEN s[i] ELSE IF i = 1 THEN e ELSE s[i - 1] BY <2>1 DEF c
    <3>3. i \in 1 .. Len(b) + Len(s) BY <3>1
    <3>4. d[i] = IF i <= Len(b) THEN b[i] ELSE s[i - Len(b)] BY <2>3, <3>3 DEF d
    <3> QED BY <3>1, <3>2, <3>4
  <2>5. c \in Seq(S) /\ d \in Seq(S) /\ Len(c) = Len(s) + 1 /\ Len(d) = Len(s) + 1
    <3>1. Len(b) = 1 /\ Len(s) \in Nat BY <2>2 DEF b
    <3>2. Len(d) = Len(b) + Len(s) /\ d \in Seq(S) BY <2>3 DEF d
    <3> QED BY <3>1, <3>2, <2>1 DEF c
  <2>6. c = d
    BY <2>4, <2>5, SeqSame
  <2> QED BY <2>6 DEF b, c, d
<1>3. InsertAt(s, 1, e) \in Seq(S) /\ Len(InsertAt(s, 1, e)) = Len(s) + 1
  BY <1>1, Inserted
<1>4. Distinct(InsertAt(s, 1, e)) /\ ToSet(InsertAt(s, 1, e)) = ToSet(s) \cup {e}
  BY <1>1, InsertedDistinct
<1> DEFINE c == InsertAt(s, 1, e)
           d == <<e>> \o s
<1> HIDE DEF c, d
<1>5. c = d BY <1>2 DEF c, d
<1>6. d \in Seq(S) /\ Len(d) = Len(s) + 1 /\ Distinct(d) /\ ToSet(d) = ToSet(s) \cup {e}
  BY <1>3, <1>4, <1>5 DEF c
<1> QED BY <1>6 DEF d

\* Cache_Move takes the p-th of the list to the gap behind the i-th: where each
\* position of the new list has its block from, and where u is.
From(p, i, j) ==
    IF p <= i
      THEN IF j < p THEN j ELSE IF j < i THEN j + 1 ELSE IF j = i THEN p ELSE j
      ELSE IF j <= i THEN j ELSE IF j = i + 1 THEN p ELSE IF j <= p THEN j - 1 ELSE j

Now(p, i) == IF p <= i THEN i ELSE i + 1

Relinked(s, p, i) == RemoveAt(InsertAt(s, i + 1, s[p]), IF p <= i THEN p ELSE p + 1)

LEMMA FromFacts ==
    ASSUME NEW n \in Nat, NEW p \in 1 .. n, NEW i \in 0 .. n
    PROVE  /\ Now(p, i) \in 1 .. n
           /\ \A j \in 1 .. n : /\ From(p, i, j) \in 1 .. n
                                /\ From(p, i, j) = p <=> j = Now(p, i)
                                /\ j < Now(p, i) => From(p, i, j) <= i
                                /\ j > Now(p, i) => From(p, i, j) > i
           /\ \A j, k \in 1 .. n : j < k /\ j # Now(p, i) /\ k # Now(p, i) =>
                 From(p, i, j) < From(p, i, k)
<1>1. /\ Now(p, i) \in 1 .. n
      /\ \A j \in 1 .. n : /\ From(p, i, j) \in 1 .. n
                           /\ From(p, i, j) = p <=> j = Now(p, i)
                           /\ j < Now(p, i) => From(p, i, j) <= i
                           /\ j > Now(p, i) => From(p, i, j) > i
  BY DEF From, Now
<1>2. \A j, k \in 1 .. n : j < k /\ j # Now(p, i) /\ k # Now(p, i) =>
         From(p, i, j) < From(p, i, k)
  BY DEF From, Now
<1> QED BY <1>1, <1>2

LEMMA FromOnto ==
    ASSUME NEW n \in Nat, NEW p \in 1 .. n, NEW i \in 0 .. n, NEW m \in 1 .. n
    PROVE  \E j \in 1 .. n : From(p, i, j) = m
<1>1. CASE p <= i
  <2> DEFINE j == IF m < p THEN m ELSE IF m = p THEN i ELSE IF m <= i THEN m - 1 ELSE m
  <2>1. j \in 1 .. n /\ From(p, i, j) = m
    BY <1>1 DEF From
  <2> QED BY <2>1
<1>2. CASE p > i
  <2> DEFINE j == IF m <= i THEN m ELSE IF m = p THEN i + 1 ELSE IF m < p THEN m + 1 ELSE m
  <2>1. j \in 1 .. n /\ From(p, i, j) = m
    BY <1>2 DEF From
  <2> QED BY <2>1
<1> QED BY <1>1, <1>2

LEMMA RelinkedFrom ==
    ASSUME NEW S, NEW s \in Seq(S), NEW p \in 1 .. Len(s), NEW i \in 0 .. Len(s)
    PROVE  /\ Relinked(s, p, i) \in Seq(S) /\ Len(Relinked(s, p, i)) = Len(s)
           /\ \A j \in 1 .. Len(s) : Relinked(s, p, i)[j] = s[From(p, i, j)]
<1>0. PICK e \in S, k \in 1 .. Len(s) + 1 : e = s[p] /\ k = i + 1
  OBVIOUS
<1> DEFINE a == InsertAt(s, k, e)
           r == IF p <= i THEN p ELSE p + 1
           t == RemoveAt(a, r)
<1>1. Len(s) \in Nat /\ p \in Int /\ i \in Int /\ s[p] \in S /\ i + 1 \in 1 .. Len(s) + 1
  OBVIOUS
<1>2. /\ a \in Seq(S) /\ Len(a) = Len(s) + 1
      /\ \A j \in 1 .. Len(s) + 1 :
            a[j] = IF j < k THEN s[j] ELSE IF j = k THEN e ELSE s[j - 1]
  BY Inserted
<1>3. r \in 1 .. Len(s) + 1
  BY <1>1
<1> HIDE DEF a
<1>4. /\ t \in Seq(S) /\ Len(t) = Len(a) - 1
      /\ \A j \in 1 .. Len(a) - 1 : t[j] = IF j < r THEN a[j] ELSE a[j + 1]
  BY <1>2, <1>3, Removed
<1> HIDE DEF t
<1>5. ASSUME NEW j \in 1 .. Len(s) PROVE t[j] = s[From(p, i, j)]
  <2>1. t[j] = IF j < r THEN a[j] ELSE a[j + 1]
    BY <1>1, <1>2, <1>4
  <2>2. j \in 1 .. Len(s) + 1 /\ j + 1 \in 1 .. Len(s) + 1 /\ j \in Int
    BY <1>1
  <2>3. /\ a[j] = IF j < i + 1 THEN s[j] ELSE IF j = i + 1 THEN s[p] ELSE s[j - 1]
        /\ a[j + 1] = IF j + 1 < i + 1 THEN s[j + 1] ELSE IF j + 1 = i + 1 THEN s[p]
                                                     ELSE s[(j + 1) - 1]
    BY <1>0, <1>2, <2>2
  <2>4. (j + 1) - 1 = j
    BY <2>2
  <2>5. CASE p <= i
    BY <1>1, <2>1, <2>2, <2>3, <2>4, <2>5 DEF From
  <2>6. CASE p > i
    BY <1>1, <2>1, <2>2, <2>3, <2>4, <2>6 DEF From
  <2> QED BY <1>1, <2>5, <2>6
<1>6. Len(t) = Len(s)
  BY <1>1, <1>2, <1>4
<1>7. Relinked(s, p, i) = t
  BY <1>0 DEF Relinked, t, a
<1> QED BY <1>4, <1>5, <1>6, <1>7

LEMMA RelinkedFacts ==
    ASSUME NEW S, NEW s \in Seq(S), Distinct(s), NEW p \in 1 .. Len(s), NEW i \in 0 .. Len(s)
    PROVE  Distinct(Relinked(s, p, i)) /\ ToSet(Relinked(s, p, i)) = ToSet(s)
<1> DEFINE t == Relinked(s, p, i)
<1>1. /\ t \in Seq(S) /\ Len(t) = Len(s)
      /\ \A j \in 1 .. Len(s) : t[j] = s[From(p, i, j)]
  BY RelinkedFrom
<1>2. Len(s) \in Nat
  OBVIOUS
<1> HIDE DEF t
<1>3. Distinct(t)
  <2> SUFFICES ASSUME NEW j \in 1 .. Len(s), NEW k \in 1 .. Len(s), j < k
               PROVE  t[j] # t[k]
    BY <1>1, <1>2 DEF Distinct
  <2>1. From(p, i, j) \in 1 .. Len(s) /\ From(p, i, k) \in 1 .. Len(s)
    BY <1>2, FromFacts
  <2>2. From(p, i, j) # From(p, i, k)
    <3>1. From(p, i, j) = p <=> j = Now(p, i)
      BY <1>2, FromFacts
    <3>2. From(p, i, k) = p <=> k = Now(p, i)
      BY <1>2, FromFacts
    <3>3. j # Now(p, i) /\ k # Now(p, i) => From(p, i, j) < From(p, i, k)
      BY <1>2, FromFacts
    <3> QED BY <2>1, <3>1, <3>2, <3>3
  <2> QED BY <1>1, <2>1, <2>2 DEF Distinct
<1>4. ASSUME NEW e PROVE e \in ToSet(t) <=> e \in ToSet(s)
  <2>1. ASSUME e \in ToSet(t) PROVE e \in ToSet(s)
    <3>1. PICK j \in 1 .. Len(s) : t[j] = e
      BY <2>1, <1>1, InSet
    <3>2. From(p, i, j) \in 1 .. Len(s)
      BY <1>2, FromFacts
    <3> QED BY <3>1, <3>2, <1>1, InSet
  <2>2. ASSUME e \in ToSet(s) PROVE e \in ToSet(t)
    <3>1. PICK m \in 1 .. Len(s) : s[m] = e
      BY <2>2, InSet
    <3>2. PICK j \in 1 .. Len(s) : From(p, i, j) = m
      BY <1>2, FromOnto
    <3>3. t[j] = e
      BY <1>1, <3>1, <3>2
    <3> QED BY <3>3, <1>1, InSet
  <2> QED BY <2>1, <2>2
<1>5. ToSet(t) = ToSet(s)
  BY <1>4
<1> QED BY <1>3, <1>5 DEF t

-----------------------------------------------------------------------------
(* Blocks, as a list of users with the address and the size of each.        *)

\* Each ends before the next one starts.
Apart(l, a, z) == \A i, j \in 1 .. Len(l) : i < j => a[l[i]] + z[l[i]] <= a[l[j]]

\* The place x of n bytes is free behind the i-th.
Between(l, a, z, i, x, n) ==
    \A j \in 1 .. Len(l) : /\ j <= i => a[l[j]] + z[l[j]] <= x
                           /\ j > i => x + n <= a[l[j]]

LEMMA MoveApart ==
    ASSUME NEW l \in Seq(Users), NEW a \in [Users -> Nat], NEW z \in [Users -> Nat], NEW x \in Nat,
           NEW p \in 1 .. Len(l), NEW i \in 0 .. Len(l),
           Distinct(l), Apart(l, a, z), Between(l, a, z, i, x, z[l[p]])
    PROVE  Apart(Relinked(l, p, i), [a EXCEPT ![l[p]] = x], z)
<1> DEFINE t == Relinked(l, p, i)
           b == [a EXCEPT ![l[p]] = x]
<1>1. Len(l) \in Nat /\ \A j \in 1 .. Len(l) : l[j] \in Users
  BY Item
<1>2. /\ t \in Seq(Users) /\ Len(t) = Len(l)
      /\ \A j \in 1 .. Len(l) : t[j] = l[From(p, i, j)]
  BY RelinkedFrom
<1> HIDE DEF t
<1>3. /\ Now(p, i) \in 1 .. Len(l)
      /\ \A j \in 1 .. Len(l) : /\ From(p, i, j) \in 1 .. Len(l)
                                /\ From(p, i, j) = p <=> j = Now(p, i)
                                /\ j < Now(p, i) => From(p, i, j) <= i
                                /\ j > Now(p, i) => From(p, i, j) > i
      /\ \A j, k \in 1 .. Len(l) : j < k /\ j # Now(p, i) /\ k # Now(p, i) =>
            From(p, i, j) < From(p, i, k)
  BY <1>1, FromFacts
<1> SUFFICES ASSUME NEW j \in 1 .. Len(l), NEW k \in 1 .. Len(l), j < k
             PROVE  b[t[j]] + z[t[j]] <= b[t[k]]
  BY <1>2 DEF Apart, t
<1>4. PICK m \in 1 .. Len(l), n \in 1 .. Len(l) : m = From(p, i, j) /\ n = From(p, i, k)
  BY <1>3
<1>5. t[j] = l[m] /\ t[k] = l[n] /\ l[m] \in Users /\ l[n] \in Users /\ l[p] \in Users
  BY <1>1, <1>2, <1>4
<1>6. /\ b[l[p]] = x
      /\ m # p => b[l[m]] = a[l[m]]
      /\ n # p => b[l[n]] = a[l[n]]
  BY <1>5 DEF Distinct
<1> HIDE DEF b
<1>7. CASE j = Now(p, i)
  <2>1. m = p /\ n > i /\ n # p
    BY <1>3, <1>4, <1>7
  <2>2. x + z[l[p]] <= a[l[n]]
    BY <2>1 DEF Between
  <2> QED BY <1>5, <1>6, <2>1, <2>2
<1>8. CASE k = Now(p, i)
  <2>1. n = p /\ m <= i /\ m # p
    BY <1>3, <1>4, <1>8
  <2>2. a[l[m]] + z[l[m]] <= x
    BY <2>1 DEF Between
  <2> QED BY <1>5, <1>6, <2>1, <2>2
<1>9. CASE j # Now(p, i) /\ k # Now(p, i)
  <2>1. m < n /\ m # p /\ n # p
    BY <1>3, <1>4, <1>9
  <2>2. a[l[m]] + z[l[m]] <= a[l[n]]
    BY <2>1 DEF Apart
  <2> QED BY <1>5, <1>6, <2>1, <2>2
<1> QED BY <1>7, <1>8, <1>9

LEMMA Before ==
    ASSUME NEW g \in Int, NEW j \in Int, NEW k \in Int, j < k, j # g, k # g,
           NEW m \in Int, NEW q \in Int,
           j < g => m = j, j > g => m = j - 1, k < g => q = k, k > g => q = k - 1
    PROVE  m < q
OBVIOUS

LEMMA InsertApart ==
    ASSUME NEW S, NEW l \in Seq(S), NEW a \in [S -> Nat], NEW z \in [S -> Nat],
           NEW x \in Nat, NEW n \in Nat, NEW i \in 0 .. Len(l), NEW u \in S,
           \A j \in 1 .. Len(l) : l[j] # u, Apart(l, a, z), Between(l, a, z, i, x, n)
    PROVE  Apart(InsertAt(l, i + 1, u), [a EXCEPT ![u] = x], [z EXCEPT ![u] = n])
<1>0. PICK g \in 1 .. Len(l) + 1 : g = i + 1
  OBVIOUS
<1> DEFINE t == InsertAt(l, g, u)
           b == [a EXCEPT ![u] = x]
           y == [z EXCEPT ![u] = n]
<1>1. /\ Len(l) \in Nat
      /\ \A j \in 1 .. Len(l) : l[j] \in S /\ l[j] # u
      /\ \A j \in 1 .. Len(l) : b[l[j]] = a[l[j]] /\ y[l[j]] = z[l[j]]
  <2>1. \A j \in 1 .. Len(l) : l[j] \in S
    BY Item
  <2>2. \A v \in S : v # u => b[v] = a[v] /\ y[v] = z[v]
    OBVIOUS
  <2> HIDE DEF b, y
  <2> QED BY <2>1, <2>2
<1>2. b[u] = x /\ y[u] = n
  OBVIOUS
<1> HIDE DEF b, y
<1>3. /\ t \in Seq(S) /\ Len(t) = Len(l) + 1
      /\ \A j \in 1 .. Len(l) + 1 :
            t[j] = IF j < g THEN l[j] ELSE IF j = g THEN u ELSE l[j - 1]
  <2>1. t \in Seq(S) /\ IsInserted(t, l, g, u)
    BY InsertedIs
  <2> HIDE DEF t
  <2> QED BY <2>1 DEF IsInserted
<1> HIDE DEF t
<1>4. ASSUME NEW j \in 1 .. Len(l) + 1, j # g
      PROVE  \E m \in 1 .. Len(l) : /\ t[j] = l[m]
                                    /\ (j < g => m = j) /\ (j > g => m = j - 1)
  <2>1. CASE j < g
    <3>1. j \in 1 .. Len(l) /\ ~(j > g) BY <2>1, <1>1
    <3>2. t[j] = l[j] BY <2>1, <1>3
    <3> QED BY <3>1, <3>2
  <2>2. CASE j > g
    <3>1. j - 1 \in 1 .. Len(l) /\ ~(j < g) BY <2>2, <1>1
    <3>2. t[j] = l[j - 1] BY <2>2, <3>1, <1>3, <1>4
    <3> QED BY <3>1, <3>2
  <2> QED BY <2>1, <2>2, <1>1, <1>4
<1>5. t[g] = u
  BY <1>1, <1>3
<1>6. Apart(t, b, y)
  <2> SUFFICES ASSUME NEW j \in 1 .. Len(l) + 1, NEW k \in 1 .. Len(l) + 1, j < k
               PROVE  b[t[j]] + y[t[j]] <= b[t[k]]
    BY <1>3 DEF Apart
  <2>1. CASE j = g
    <3>1. PICK m \in 1 .. Len(l) : t[k] = l[m] /\ (k < g => m = k) /\ (k > g => m = k - 1)
      <4>1. k # g BY <2>1
      <4> QED BY <4>1, <1>4
    <3>2. m > i
      BY <2>1, <3>1, <1>0, <1>1
    <3>3. x + n <= a[l[m]]
      BY <3>2 DEF Between
    <3> QED BY <2>1, <3>1, <3>3, <1>1, <1>2, <1>5
  <2>2. CASE k = g
    <3>1. PICK m \in 1 .. Len(l) : t[j] = l[m] /\ (j < g => m = j) /\ (j > g => m = j - 1)
      <4>1. j # g BY <2>2
      <4> QED BY <4>1, <1>4
    <3>2. m <= i
      BY <2>2, <3>1, <1>0, <1>1
    <3>3. a[l[m]] + z[l[m]] <= x
      BY <3>2 DEF Between
    <3> QED BY <2>2, <3>1, <3>3, <1>1, <1>2, <1>5
  <2>3. CASE j # g /\ k # g
    <3>1. PICK m \in 1 .. Len(l) : t[j] = l[m] /\ (j < g => m = j) /\ (j > g => m = j - 1)
      BY <2>3, <1>4
    <3>2. PICK q \in 1 .. Len(l) : t[k] = l[q] /\ (k < g => q = k) /\ (k > g => q = k - 1)
      BY <2>3, <1>4
    <3>3. m < q
      <4>1. j \in Int /\ k \in Int /\ g \in Int /\ m \in Int /\ q \in Int
        OBVIOUS
      <4> QED BY <4>1, <2>3, <3>1, <3>2, Before
    <3>4. a[l[m]] + z[l[m]] <= a[l[q]]
      BY <3>3 DEF Apart
    <3> QED BY <3>1, <3>2, <3>4, <1>1
  <2> QED BY <2>1, <2>2, <2>3
<1> QED BY <1>0, <1>6 DEF t, b, y

LEMMA UnlinkApart ==
    ASSUME NEW S, NEW l \in Seq(S), NEW a \in [S -> Nat], NEW z \in [S -> Nat],
           NEW k \in 1 .. Len(l), Distinct(l), Apart(l, a, z)
    PROVE  Apart(RemoveAt(l, k), [a EXCEPT ![l[k]] = 0], [z EXCEPT ![l[k]] = 0])
<1> DEFINE t == RemoveAt(l, k)
           b == [a EXCEPT ![l[k]] = 0]
           y == [z EXCEPT ![l[k]] = 0]
<1>1. t \in Seq(S) /\ Len(t) = Len(l) - 1
  BY Removed
<1>2. ASSUME NEW i \in 1 .. Len(l) - 1, NEW j \in 1 .. Len(l) - 1, i < j
      PROVE  b[t[i]] + y[t[i]] <= b[t[j]]
  <2>1. PICK m \in 1 .. Len(l), n \in 1 .. Len(l) :
           m < n /\ m # k /\ n # k /\ t[i] = l[m] /\ t[j] = l[n]
    <3>1. RestKept(l, k) BY RestOrder
    <3> QED BY <1>2, <3>1 DEF RestKept
  <2> HIDE DEF t
  <2>2. l[m] \in S /\ l[n] \in S /\ l[k] \in S /\ l[m] # l[k] /\ l[n] # l[k]
    BY <2>1, Item DEF Distinct
  <2>3. b[l[m]] = a[l[m]] /\ y[l[m]] = z[l[m]] /\ b[l[n]] = a[l[n]]
    <3>1. \A v \in S : v # l[k] => b[v] = a[v] /\ y[v] = z[v]
      OBVIOUS
    <3> HIDE DEF b, y
    <3> QED BY <2>2, <3>1
  <2>4. a[l[m]] + z[l[m]] <= a[l[n]]
    BY <2>1 DEF Apart
  <2> HIDE DEF b, y
  <2> QED BY <2>1, <2>3, <2>4
<1> HIDE DEF t, b, y
<1>3. Apart(t, b, y)
  BY <1>1, <1>2 DEF Apart
<1> QED BY <1>3 DEF t, b, y

-----------------------------------------------------------------------------
(* The inductive invariant.                                                  *)

Layout ==
    /\ TypeOK
    /\ low + high <= HunkSize
    /\ Apart(list, at, size)
    /\ Distinct(list) /\ Distinct(lru)
    /\ ToSet(lru) = Cached /\ Len(list) = Len(lru)

\* No block reaches below the low end of the hunk, or above its high end.
ClearLow == \A u \in Cached : low <= at[u]
ClearHigh == \A u \in Cached : End(u) <= Top

Asked == pc = "alloc" => req.user \in Users \ Cached /\ req.size \in Nat

IInv ==
    /\ Layout
    /\ pc # "freelow" => ClearLow
    /\ pc # "freehigh" => ClearHigh
    /\ Asked
    /\ MarksHold

LEMMA BlockTypes ==
    ASSUME TypeOK
    PROVE  /\ list \in Seq(Users) /\ lru \in Seq(Users) /\ Len(list) \in Nat
           /\ at \in [Users -> Nat] /\ size \in [Users -> Nat]
           /\ \A j \in 1 .. Len(list) : /\ list[j] \in Users /\ list[j] \in Cached
                                        /\ at[list[j]] \in 0 .. HunkSize
                                        /\ size[list[j]] \in 0 .. HunkSize
           /\ \A u \in Cached : u \in Users /\ at[u] \in 0 .. HunkSize /\ size[u] \in 0 .. HunkSize
           /\ low \in Nat /\ high \in Nat /\ HunkSize \in Nat
<1>1. /\ list \in Seq(Users) /\ lru \in Seq(Users) /\ Len(list) \in Nat
      /\ at \in [Users -> 0 .. HunkSize] /\ size \in [Users -> 0 .. HunkSize]
      /\ low \in Nat /\ high \in Nat /\ HunkSize \in Nat
  BY HunkAssumption DEF TypeOK
<1>2. at \in [Users -> Nat] /\ size \in [Users -> Nat]
  BY <1>1
<1>3. \A j \in 1 .. Len(list) : list[j] \in Users /\ list[j] \in ToSet(list)
  BY <1>1, Item, InSet
<1>4. \A u \in ToSet(list) : u \in Users
  BY <1>1, InSet
<1> QED BY <1>1, <1>2, <1>3, <1>4 DEF Cached

LEMMA LeastExists ==
    ASSUME NEW S, S \subseteq Nat, S # {}
    PROVE  \E m \in S : \A k \in S : m =< k
<1>1. PICK m \in S : \A k \in S : ~ (<<k, m>> \in OpToRel(<, Nat))
  BY NatLessThanWellFounded, WFMin
<1>2. \A k \in S : ~ (k < m)
  BY <1>1 DEF OpToRel
<1> QED BY <1>2

\* The lowest gap is one of those that are large enough.
LEMMA SlotFound ==
    ASSUME TypeOK, NEW n, NEW b, Slots(n, b) # {}
    PROVE  Slot(n, b) \in Slots(n, b)
<1>1. Slots(n, b) \subseteq Nat
  BY BlockTypes DEF Slots
<1> DEFINE S == Slots(n, b)
<1> HIDE DEF S
<1>2. S \subseteq Nat /\ S # {}
  BY <1>1 DEF S
<1>4. PICK m \in S : \A k \in S : m =< k
  BY <1>2, LeastExists
<1>5. Min(S) \in S
  BY <1>4 DEF Min
<1> QED BY <1>5 DEF Slot, S

LEMMA GapFacts ==
    ASSUME Layout, NEW i \in 0 .. Len(list), NEW n \in Nat, GapEnd(i) - GapStart(i) >= n
    PROVE  /\ GapStart(i) \in 0 .. HunkSize /\ GapStart(i) + n <= HunkSize
           /\ Between(list, at, size, i, GapStart(i), n)
           /\ ClearHigh => GapStart(i) + n <= Top
           /\ ClearLow => low <= GapStart(i)
<1>1. /\ Len(list) \in Nat /\ low \in Nat /\ high \in Nat /\ HunkSize \in Nat
      /\ low <= HunkSize /\ high <= HunkSize
      /\ \A j \in 1 .. Len(list) : /\ list[j] \in Cached
                                   /\ at[list[j]] \in 0 .. HunkSize
                                   /\ size[list[j]] \in 0 .. HunkSize
  <2>1. TypeOK /\ low + high <= HunkSize
    BY DEF Layout
  <2>2. low \in Nat /\ high \in Nat /\ HunkSize \in Nat
    BY <2>1, BlockTypes
  <2> QED BY <2>1, <2>2, BlockTypes
<1>2. Top \in 0 .. HunkSize
  BY <1>1 DEF Top
<1>3. \A j, k \in 1 .. Len(list) : j < k => at[list[j]] + size[list[j]] <= at[list[k]]
  BY DEF Layout, Apart
<1>4. /\ GapEnd(i) \in 0 .. HunkSize
      /\ \A j \in 1 .. Len(list) : j > i => GapEnd(i) <= at[list[j]]
      /\ ClearHigh => GapEnd(i) <= Top
  <2>1. CASE i = Len(list)
    BY <1>1, <1>2, <2>1 DEF GapEnd
  <2>2. CASE i < Len(list)
    <3>1. GapEnd(i) = at[list[i + 1]] /\ i + 1 \in 1 .. Len(list)
      BY <2>2, <1>1 DEF GapEnd
    <3> DEFINE k == i + 1
    <3>2. k \in 1 .. Len(list) /\ GapEnd(i) = at[list[k]]
      BY <3>1
    <3>3. at[list[k]] \in 0 .. HunkSize /\ size[list[k]] \in 0 .. HunkSize /\ list[k] \in Cached
      BY <1>1, <3>2
    <3>4. ASSUME NEW j \in 1 .. Len(list), j > i PROVE GapEnd(i) <= at[list[j]]
      <4>1. j = k \/ k < j BY <3>4, <1>1
      <4>2. CASE j = k BY <4>2, <3>2, <3>3
      <4>3. CASE k < j
        <5>1. at[list[k]] + size[list[k]] <= at[list[j]] /\ at[list[j]] \in 0 .. HunkSize
          BY <4>3, <3>2, <1>1, <1>3
        <5> QED BY <5>1, <3>2, <3>3, <1>1
      <4> QED BY <4>1, <4>2, <4>3
    <3>5. ASSUME ClearHigh PROVE GapEnd(i) <= Top
      <4>1. at[list[k]] + size[list[k]] <= Top
        BY <3>5, <3>3 DEF ClearHigh, End
      <4> QED BY <4>1, <3>2, <3>3, <1>1, <1>2
    <3> QED BY <3>2, <3>3, <3>4, <3>5
  <2> QED BY <1>1, <2>1, <2>2
<1>5. /\ GapStart(i) \in Nat
      /\ \A j \in 1 .. Len(list) : j <= i => at[list[j]] + size[list[j]] <= GapStart(i)
      /\ ClearLow => low <= GapStart(i)
  <2>1. CASE i = 0
    BY <1>1, <2>1 DEF GapStart
  <2>2. CASE i > 0
    <3>1. i \in 1 .. Len(list) /\ GapStart(i) = at[list[i]] + size[list[i]]
      BY <2>2 DEF GapStart, End
    <3>2. at[list[i]] \in 0 .. HunkSize /\ size[list[i]] \in 0 .. HunkSize /\ list[i] \in Cached
      BY <1>1, <3>1
    <3>3. ASSUME NEW j \in 1 .. Len(list), j <= i
          PROVE  at[list[j]] + size[list[j]] <= GapStart(i)
      <4>1. j = i \/ j < i BY <3>3
      <4>2. CASE j = i BY <4>2, <3>1, <3>2, <1>1
      <4>3. CASE j < i
        <5>1. /\ at[list[j]] + size[list[j]] <= at[list[i]]
              /\ at[list[j]] \in 0 .. HunkSize /\ size[list[j]] \in 0 .. HunkSize
          BY <4>3, <3>1, <1>1, <1>3
        <5> QED BY <5>1, <3>1, <3>2, <1>1
      <4> QED BY <4>1, <4>2, <4>3
    <3>4. ASSUME ClearLow PROVE low <= GapStart(i)
      <4>1. low <= at[list[i]] BY <3>4, <3>2 DEF ClearLow
      <4> QED BY <4>1, <3>1, <3>2, <1>1
    <3>5. GapStart(i) \in Nat
      BY <3>1, <3>2, <1>1
    <3> QED BY <3>3, <3>4, <3>5
  <2> QED BY <2>1, <2>2
<1>6. GapStart(i) + n <= GapEnd(i)
  BY <1>4, <1>5
<1>7. GapStart(i) \in 0 .. HunkSize /\ GapStart(i) + n <= HunkSize
  BY <1>1, <1>4, <1>5, <1>6
<1>8. Between(list, at, size, i, GapStart(i), n)
  <2> SUFFICES ASSUME NEW j \in 1 .. Len(list), j > i PROVE GapStart(i) + n <= at[list[j]]
    BY <1>5 DEF Between
  <2>1. GapEnd(i) <= at[list[j]] /\ at[list[j]] \in 0 .. HunkSize
    BY <1>1, <1>4
  <2> QED BY <2>1, <1>1, <1>4, <1>5, <1>6
<1>9. ClearHigh => GapStart(i) + n <= Top
  BY <1>2, <1>4, <1>5, <1>6
<1> QED BY <1>5, <1>7, <1>8, <1>9

-----------------------------------------------------------------------------
(* What is done to the blocks.                                               *)

\* The part of TypeOK that is about the cache.
BlocksTyped ==
    /\ list \in Seq(Users) /\ lru \in Seq(Users)
    /\ at \in [Users -> 0 .. HunkSize] /\ size \in [Users -> 0 .. HunkSize]

LEMMA Typed ==
    ASSUME Layout, BlocksTyped', UNCHANGED hunkVars, pc' \in Phases
    PROVE  TypeOK'
BY DEF Layout, TypeOK, BlocksTyped, hunkVars

LEMMA CacheDropKeeps ==
    ASSUME Layout, NEW u \in Cached, CacheDrop(u), UNCHANGED hunkVars, pc' \in Phases
    PROVE  /\ Layout' /\ Cached' = Cached \ {u}
           /\ ClearLow => ClearLow'
           /\ ClearHigh => ClearHigh'
<1>1. /\ TypeOK /\ low + high <= HunkSize /\ Apart(list, at, size)
      /\ Distinct(list) /\ Distinct(lru) /\ ToSet(lru) = ToSet(list) /\ Len(list) = Len(lru)
  BY DEF Layout, Cached
<1>2. /\ list' = Unlinked(list, u) /\ lru' = Unlinked(lru, u)
      /\ at' = [at EXCEPT ![u] = 0] /\ size' = [size EXCEPT ![u] = 0]
  BY DEF CacheDrop
<1>3. /\ list \in Seq(Users) /\ lru \in Seq(Users) /\ u \in ToSet(list) /\ u \in ToSet(lru)
      /\ at \in [Users -> 0 .. HunkSize] /\ size \in [Users -> 0 .. HunkSize]
      /\ at \in [Users -> Nat] /\ size \in [Users -> Nat] /\ HunkSize \in Nat
  BY <1>1, BlockTypes DEF TypeOK, Cached
<1>4. /\ list' \in Seq(Users) /\ Len(list') = Len(list) - 1
      /\ Distinct(list') /\ ToSet(list') = ToSet(list) \ {u}
  BY <1>1, <1>2, <1>3, UnlinkedFacts
<1>5. /\ lru' \in Seq(Users) /\ Len(lru') = Len(lru) - 1
      /\ Distinct(lru') /\ ToSet(lru') = ToSet(lru) \ {u}
  BY <1>1, <1>2, <1>3, UnlinkedFacts
<1>6. Apart(list', at', size')
  <2>1. PICK k \in 1 .. Len(list) : list[k] = u /\ Unlinked(list, u) = RemoveAt(list, k)
    BY <1>3, UnlinkedIs
  <2>2. Apart(RemoveAt(list, k), [at EXCEPT ![list[k]] = 0], [size EXCEPT ![list[k]] = 0])
    BY <1>1, <1>3, UnlinkApart
  <2> QED BY <1>2, <2>1, <2>2
<1>7. at' \in [Users -> 0 .. HunkSize] /\ size' \in [Users -> 0 .. HunkSize]
  <2>1. 0 \in 0 .. HunkSize
    BY <1>3
  <2> QED BY <1>2, <1>3, <2>1
<1>8. TypeOK'
  BY <1>4, <1>5, <1>7, Typed DEF BlocksTyped
<1>9. Cached' = Cached \ {u}
  BY <1>4 DEF Cached
<1>10. \A v \in Cached' : v \in Cached /\ at'[v] = at[v] /\ size'[v] = size[v]
  <2>1. \A v \in Users : v # u => at'[v] = at[v] /\ size'[v] = size[v]
    BY <1>2, <1>3
  <2> QED BY <1>1, <1>9, <2>1, BlockTypes
<1>11. low' = low /\ high' = high /\ Top' = Top
  BY DEF hunkVars, Top
<1>12. ClearLow => ClearLow'
  BY <1>10, <1>11 DEF ClearLow
<1>13. ClearHigh => ClearHigh'
  BY <1>10, <1>11 DEF ClearHigh, End
<1>14. Layout'
  BY <1>1, <1>4, <1>5, <1>6, <1>8, <1>9, <1>11 DEF Layout, Cached
<1> QED BY <1>9, <1>12, <1>13, <1>14

LEMMA CacheMoveKeeps ==
    ASSUME Layout, NEW p \in 1 .. Len(list), CacheMove(p), UNCHANGED hunkVars, pc' \in Phases
    PROVE  /\ Layout'
           /\ ClearLow => ClearLow'
           /\ ClearHigh => ClearHigh'
<1>0. PICK u : u = list[p]
  OBVIOUS
<1>1. /\ TypeOK /\ low + high <= HunkSize /\ Apart(list, at, size)
      /\ Distinct(list) /\ Distinct(lru) /\ ToSet(lru) = ToSet(list) /\ Len(list) = Len(lru)
  BY DEF Layout, Cached
<1>2. /\ list \in Seq(Users) /\ lru \in Seq(Users) /\ Len(list) \in Nat
      /\ u \in ToSet(list) /\ u \in ToSet(lru) /\ u \in Users
      /\ at \in [Users -> 0 .. HunkSize] /\ size \in [Users -> 0 .. HunkSize]
      /\ at \in [Users -> Nat] /\ size \in [Users -> Nat] /\ HunkSize \in Nat
      /\ size[u] \in Nat
  BY <1>0, <1>1, BlockTypes DEF TypeOK, Cached
<1>3. CASE Slots(size[u], TRUE) = {}
  <2>1. CacheDrop(u)
    BY <1>0, <1>3 DEF CacheMove, BlockLost
  <2>2. u \in Cached
    BY <1>2 DEF Cached
  <2> QED BY <2>1, <2>2, CacheDropKeeps
<1>4. CASE Slots(size[u], TRUE) # {}
  <2>1. PICK i \in 0 .. Len(list) : i = Slot(size[u], TRUE) /\ i \in Slots(size[u], TRUE)
    BY <1>1, <1>4, SlotFound DEF Slots
  <2>2. /\ list' = RemoveAt(InsertAt(list, i + 1, u), IF p <= i THEN p ELSE p + 1)
        /\ at' = [at EXCEPT ![u] = GapStart(i)]
        /\ lru' = <<u>> \o Unlinked(lru, u)
        /\ size' = size
    BY <1>0, <1>4, <2>1 DEF CacheMove
  <2>3. list' = Relinked(list, p, i)
    BY <1>0, <2>2 DEF Relinked
  <2>4. /\ GapStart(i) \in 0 .. HunkSize /\ GapStart(i) + size[u] <= HunkSize
        /\ Between(list, at, size, i, GapStart(i), size[u])
        /\ ClearHigh => GapStart(i) + size[u] <= Top
        /\ ClearLow => low <= GapStart(i)
    <3>1. GapEnd(i) - GapStart(i) >= size[u]
      BY <2>1 DEF Slots
    <3> QED BY <1>2, <3>1, GapFacts
  <2>5. list' \in Seq(Users) /\ Len(list') = Len(list)
    BY <1>2, <2>3, RelinkedFrom
  <2>6. Distinct(list') /\ ToSet(list') = ToSet(list)
    BY <1>1, <1>2, <2>3, RelinkedFacts
  <2>7. Apart(list', at', size')
    <3>1. GapStart(i) \in Nat
      BY <1>2, <2>4
    <3>2. Between(list, at, size, i, GapStart(i), size[list[p]])
      BY <1>0, <2>4
    <3>3. Apart(Relinked(list, p, i), [at EXCEPT ![list[p]] = GapStart(i)], size)
      BY <1>1, <1>2, <3>1, <3>2, MoveApart
    <3> QED BY <1>0, <2>2, <2>3, <3>3
  <2>8. /\ lru' \in Seq(Users) /\ Len(lru') = Len(lru)
        /\ Distinct(lru') /\ ToSet(lru') = ToSet(lru)
    <3> DEFINE r == Unlinked(lru, u)
    <3>1. r \in Seq(Users) /\ Len(r) = Len(lru) - 1 /\ Distinct(r) /\ ToSet(r) = ToSet(lru) \ {u}
      BY <1>1, <1>2, UnlinkedFacts
    <3> HIDE DEF r
    <3>2. u \notin ToSet(r)
      BY <3>1
    <3>3. /\ <<u>> \o r \in Seq(Users) /\ Len(<<u>> \o r) = Len(r) + 1
          /\ Distinct(<<u>> \o r) /\ ToSet(<<u>> \o r) = ToSet(r) \cup {u}
      BY <1>2, <3>1, <3>2, PutFirst
    <3>4. lru' = <<u>> \o r
      BY <2>2 DEF r
    <3>5. Len(lru) \in Nat
      BY <1>1, <1>2
    <3>6. ToSet(r) \cup {u} = ToSet(lru)
      BY <1>2, <3>1
    <3> DEFINE q == <<u>> \o r
    <3> HIDE DEF q
    <3>7. lru' = q
      BY <3>4 DEF q
    <3>8. q \in Seq(Users) /\ Len(q) = Len(r) + 1 /\ Distinct(q) /\ ToSet(q) = ToSet(r) \cup {u}
      BY <3>3 DEF q
    <3> QED BY <3>1, <3>5, <3>6, <3>7, <3>8
  <2>9. at' \in [Users -> 0 .. HunkSize]
    BY <1>2, <2>2, <2>4
  <2>10. TypeOK'
    BY <1>2, <2>2, <2>5, <2>8, <2>9, Typed DEF BlocksTyped
  <2>11. low' = low /\ high' = high /\ Top' = Top /\ Cached' = Cached
    BY <2>6 DEF hunkVars, Top, Cached
  <2>12. at'[u] = GapStart(i) /\ \A v \in Cached : v # u => at'[v] = at[v]
    <3>1. at'[u] = GapStart(i)
      BY <1>2, <2>2
    <3>2. \A v \in Users : v # u => at'[v] = at[v]
      BY <1>2, <2>2
    <3> QED BY <1>1, <3>1, <3>2, BlockTypes
  <2>13. ClearLow => ClearLow'
    BY <2>4, <2>11, <2>12 DEF ClearLow
  <2>14. ClearHigh => ClearHigh'
    BY <2>2, <2>4, <2>11, <2>12 DEF ClearHigh, End
  <2>15. Layout'
    BY <1>1, <2>5, <2>6, <2>7, <2>8, <2>10, <2>11 DEF Layout, Cached
  <2> QED BY <2>13, <2>14, <2>15
<1> QED BY <1>3, <1>4

LEMMA AllocFoundKeeps ==
    ASSUME Layout, ClearLow, ClearHigh, Asked, AllocFound
    PROVE  Layout' /\ ClearLow' /\ ClearHigh'
<1>0. PICK u \in Users, n \in Nat : u = req.user /\ n = req.size /\ u \notin Cached
  BY DEF Asked, AllocFound
<1>1. /\ TypeOK /\ low + high <= HunkSize /\ Apart(list, at, size)
      /\ Distinct(list) /\ Distinct(lru) /\ ToSet(lru) = ToSet(list) /\ Len(list) = Len(lru)
  BY DEF Layout, Cached
<1>2. /\ list \in Seq(Users) /\ lru \in Seq(Users) /\ Len(list) \in Nat
      /\ u \notin ToSet(list) /\ u \notin ToSet(lru)
      /\ at \in [Users -> 0 .. HunkSize] /\ size \in [Users -> 0 .. HunkSize]
      /\ at \in [Users -> Nat] /\ size \in [Users -> Nat] /\ HunkSize \in Nat
  BY <1>0, <1>1, BlockTypes DEF TypeOK, Cached
<1>3. PICK i \in 0 .. Len(list) : i = Slot(n, FALSE) /\ i \in Slots(n, FALSE)
  BY <1>0, <1>1, SlotFound DEF Slots, AllocFound
<1>4. /\ list' = InsertAt(list, i + 1, u)
      /\ at' = [at EXCEPT ![u] = GapStart(i)] /\ size' = [size EXCEPT ![u] = n]
      /\ lru' = <<u>> \o lru /\ UNCHANGED hunkVars /\ pc' = "idle"
  BY <1>0, <1>3 DEF AllocFound
<1>5. /\ GapStart(i) \in 0 .. HunkSize /\ GapStart(i) + n <= HunkSize
      /\ Between(list, at, size, i, GapStart(i), n)
      /\ GapStart(i) + n <= Top
      /\ low <= GapStart(i)
  <2>1. GapEnd(i) - GapStart(i) >= n
    BY <1>3 DEF Slots
  <2> QED BY <2>1, GapFacts
<1>6. /\ list' \in Seq(Users) /\ Len(list') = Len(list) + 1
      /\ Distinct(list') /\ ToSet(list') = ToSet(list) \cup {u}
  <2>1. PICK k \in 1 .. Len(list) + 1 : k = i + 1
    BY <1>2
  <2>2. list' = InsertAt(list, k, u)
    BY <1>4, <2>1
  <2>3. InsertAt(list, k, u) \in Seq(Users) /\ Len(InsertAt(list, k, u)) = Len(list) + 1
    BY <1>2, Inserted
  <2>4. /\ Distinct(InsertAt(list, k, u))
        /\ ToSet(InsertAt(list, k, u)) = ToSet(list) \cup {u}
    BY <1>1, <1>2, InsertedDistinct
  <2> QED BY <2>2, <2>3, <2>4
<1>7. /\ lru' \in Seq(Users) /\ Len(lru') = Len(lru) + 1
      /\ Distinct(lru') /\ ToSet(lru') = ToSet(lru) \cup {u}
  BY <1>1, <1>2, <1>4, PutFirst
<1>8. Apart(list', at', size')
  <2>1. GapStart(i) \in Nat
    BY <1>2, <1>5
  <2>2. \A j \in 1 .. Len(list) : list[j] # u
    BY <1>2, InSet
  <2>3. Apart(InsertAt(list, i + 1, u), [at EXCEPT ![u] = GapStart(i)], [size EXCEPT ![u] = n])
    BY <1>1, <1>2, <1>5, <2>1, <2>2, InsertApart
  <2> QED BY <1>4, <2>3
<1>9. at' \in [Users -> 0 .. HunkSize] /\ size' \in [Users -> 0 .. HunkSize]
  <2>1. n \in 0 .. HunkSize
    BY <1>2, <1>5
  <2> QED BY <1>2, <1>4, <1>5, <2>1
<1>10. TypeOK'
  BY <1>4, <1>6, <1>7, <1>9, Typed DEF BlocksTyped, Phases
<1>11. low' = low /\ high' = high /\ Top' = Top /\ Cached' = Cached \cup {u}
  BY <1>4, <1>6 DEF hunkVars, Top, Cached
<1>12. /\ at'[u] = GapStart(i) /\ size'[u] = n
       /\ \A v \in Cached : at'[v] = at[v] /\ size'[v] = size[v]
  <2>1. at'[u] = GapStart(i) /\ size'[u] = n
    BY <1>2, <1>4
  <2>2. \A v \in Users : v # u => at'[v] = at[v] /\ size'[v] = size[v]
    BY <1>2, <1>4
  <2> QED BY <1>0, <1>1, <2>1, <2>2, BlockTypes
<1>13. ClearLow'
  BY <1>5, <1>11, <1>12 DEF ClearLow
<1>14. ClearHigh'
  BY <1>5, <1>11, <1>12 DEF ClearHigh, End
<1>15. Layout'
  BY <1>1, <1>6, <1>7, <1>8, <1>10, <1>11 DEF Layout, Cached
<1> QED BY <1>13, <1>14, <1>15

\* Steps that leave the blocks alone.
LEMMA BlocksStay ==
    ASSUME Layout, UNCHANGED cacheVars, TypeOK', low' + high' <= HunkSize
    PROVE  /\ Layout' /\ Cached' = Cached
           /\ ClearLow /\ low' <= low => ClearLow'
           /\ ClearHigh /\ high' <= high => ClearHigh'
<1>1. list' = list /\ lru' = lru /\ at' = at /\ size' = size /\ Cached' = Cached
  BY DEF cacheVars, Cached
<1>2. Layout'
  BY <1>1 DEF Layout
<1>3. /\ \A u \in Cached : at[u] \in 0 .. HunkSize /\ size[u] \in 0 .. HunkSize
      /\ low \in Nat /\ high \in Nat /\ HunkSize \in Nat
  BY BlockTypes DEF Layout
<1>4. low' \in 0 .. HunkSize /\ high' \in 0 .. HunkSize
  BY DEF TypeOK
<1>5. ClearLow /\ low' <= low => ClearLow'
  BY <1>1, <1>3, <1>4 DEF ClearLow
<1>6. ClearHigh /\ high' <= high => ClearHigh'
  BY <1>1, <1>3, <1>4 DEF ClearHigh, End, Top
<1> QED BY <1>1, <1>2, <1>5, <1>6

LEMMA Rounded == ASSUME NEW n \in Nat PROVE Round16(n) \in Nat /\ HunkBytes(n) \in Nat
<1>1. Round16(n) \in Nat
  BY DEF Round16
<1> HIDE DEF Round16
<1> QED BY <1>1, HunkAssumption DEF HunkBytes

LEMMA HighWithoutTempFacts ==
    ASSUME Layout, MarksHold
    PROVE  HighWithoutTemp \in 0 .. HunkSize /\ HighWithoutTemp <= high
BY BlockTypes DEF Layout, MarksHold, HighWithoutTemp, TypeOK

LEMMA GrowFacts ==
    ASSUME Layout, pc = "idle", NEW used \in Nat, used <= high, NEW n \in Nat, GrowHigh(used, n)
    PROVE  /\ high' \in 0 .. HunkSize /\ used <= high' /\ low + high' <= HunkSize
           /\ \/ pc' = "idle" /\ high' <= high
              \/ pc' = "freehigh"
<1>1. HunkBytes(n) \in Nat
  BY Rounded
<1>2. low \in Nat /\ high \in Nat /\ HunkSize \in Nat /\ low + high <= HunkSize
  BY BlockTypes DEF Layout
<1> HIDE DEF HunkBytes
<1>3. CASE HunkFull(used, n)
  BY <1>1, <1>2, <1>3 DEF GrowHigh
<1>4. CASE ~HunkFull(used, n)
  <2>1. high' = used + HunkBytes(n) /\ pc' = "freehigh"
    BY <1>4 DEF GrowHigh
  <2>2. HunkSize - low - used >= HunkBytes(n)
    BY <1>1, <1>2, <1>4 DEF HunkFull
  <2> QED BY <1>1, <1>2, <2>1, <2>2
<1> QED BY <1>3, <1>4

\* The loops stop when the first, or the last, block is out of the way.
LEMMA LowClearIsClear == ASSUME Layout, LowClear PROVE ClearLow
<1>1. /\ list \in Seq(Users) /\ Len(list) \in Nat /\ low \in Nat /\ HunkSize \in Nat
      /\ \A j \in 1 .. Len(list) : at[list[j]] \in 0 .. HunkSize /\ size[list[j]] \in 0 .. HunkSize
  BY BlockTypes DEF Layout
<1> SUFFICES ASSUME NEW u \in Cached PROVE low <= at[u]
  BY DEF ClearLow
<1>2. PICK j \in 1 .. Len(list) : list[j] = u
  BY <1>1, InSet DEF Cached
<1>3. list # <<>> /\ 1 \in 1 .. Len(list) /\ Head(list) = list[1]
  BY <1>1, <1>2
<1>4. low <= at[list[1]]
  BY <1>1, <1>3 DEF LowClear
<1>5. CASE j = 1
  BY <1>2, <1>4, <1>5
<1>6. CASE j > 1
  <2>1. at[list[1]] + size[list[1]] <= at[list[j]]
    BY <1>3, <1>6 DEF Layout, Apart
  <2> QED BY <1>1, <1>2, <1>3, <1>4, <2>1
<1> QED BY <1>5, <1>6

LEMMA HighClearIsClear ==
    ASSUME Layout, list = <<>> \/ End(Last(list)) <= Top
    PROVE  ClearHigh
<1>1. /\ list \in Seq(Users) /\ Len(list) \in Nat /\ high \in Nat /\ HunkSize \in Nat
      /\ \A j \in 1 .. Len(list) : at[list[j]] \in 0 .. HunkSize /\ size[list[j]] \in 0 .. HunkSize
  BY BlockTypes DEF Layout
<1> SUFFICES ASSUME NEW u \in Cached PROVE at[u] + size[u] <= Top
  BY DEF ClearHigh, End
<1>2. PICK j \in 1 .. Len(list) : list[j] = u
  BY <1>1, InSet DEF Cached
<1>3. PICK k \in 1 .. Len(list) : k = Len(list)
  BY <1>1, <1>2
<1>4. list # <<>> /\ Last(list) = list[k]
  BY <1>1, <1>3 DEF Last
<1>5. at[list[k]] + size[list[k]] <= Top /\ Top \in Int
  BY <1>1, <1>4 DEF End, Top
<1>6. CASE j = k
  BY <1>2, <1>5, <1>6
<1>7. CASE j < k
  <2>1. at[list[j]] + size[list[j]] <= at[list[k]]
    BY <1>3, <1>7 DEF Layout, Apart
  <2> QED BY <1>1, <1>2, <1>3, <1>5, <2>1
<1> QED BY <1>3, <1>6, <1>7

-----------------------------------------------------------------------------
(* The actions.                                                              *)

LEMMA MarksStay == ASSUME MarksHold, UNCHANGED hunkVars PROVE MarksHold'
BY DEF MarksHold, HighWithoutTemp, hunkVars

\* The types of the hunk's own variables and the calls between which nothing runs.
LEMMA HunkTypes ==
    ASSUME IInv, pc = "idle"
    PROVE  /\ low \in 0 .. HunkSize /\ high \in 0 .. HunkSize /\ low + high <= HunkSize
           /\ tempMark \in 0 .. HunkSize /\ tempActive \in BOOLEAN
           /\ lowMarks \subseteq 0 .. HunkSize /\ highMarks \subseteq 0 .. HunkSize
           /\ Layout /\ ClearLow /\ ClearHigh /\ MarksHold /\ HunkSize \in Nat
           /\ HighWithoutTemp \in 0 .. HunkSize /\ HighWithoutTemp <= high
<1>1. Layout /\ ClearLow /\ ClearHigh /\ MarksHold
  BY DEF IInv
<1>2. HighWithoutTemp \in 0 .. HunkSize /\ HighWithoutTemp <= high
  BY <1>1, HighWithoutTempFacts
<1> QED BY <1>1, <1>2, HunkAssumption DEF Layout, TypeOK

\* What an operation of the hunk must establish.
LEMMA HunkStep ==
    ASSUME IInv, pc = "idle", UNCHANGED cacheVars, pc' \in Phases \ {"alloc"},
           low' \in 0 .. HunkSize, high' \in 0 .. HunkSize, low' + high' <= HunkSize,
           tempActive' \in BOOLEAN, tempMark' \in 0 .. HunkSize,
           lowMarks' \subseteq 0 .. HunkSize, highMarks' \subseteq 0 .. HunkSize,
           pc' # "freelow" => low' <= low,
           pc' # "freehigh" => high' <= high,
           MarksHold'
    PROVE  IInv'
<1>1. Layout /\ ClearLow /\ ClearHigh
  BY DEF IInv
<1>2. TypeOK'
  BY <1>1 DEF Layout, TypeOK, cacheVars, Phases
<1>3. Layout'
  BY <1>1, <1>2, BlocksStay
<1>4. pc' # "freelow" => ClearLow'
  BY <1>1, <1>2, BlocksStay
<1>5. pc' # "freehigh" => ClearHigh'
  BY <1>1, <1>2, BlocksStay
<1>6. Asked'
  BY DEF Asked
<1> QED BY <1>3, <1>4, <1>5, <1>6 DEF IInv

LEMMA HunkAllocInv ==
    ASSUME IInv, NEW n \in HunkRequests, HunkAlloc(n) PROVE IInv'
<1>1. n \in Nat /\ HunkBytes(n) \in Nat
  BY HunkAssumption, Rounded
<1> HIDE DEF HunkBytes
<1>2. pc = "idle"
  BY DEF HunkAlloc
<1>3. /\ UNCHANGED <<high, tempActive, tempMark, lowMarks, highMarks, cacheVars>>
      /\ \/ low' = low /\ pc' = "error"
         \/ ~HunkFull(high, n) /\ low' = low + HunkBytes(n) /\ pc' = "freelow"
  BY DEF HunkAlloc
<1>4. /\ low' \in 0 .. HunkSize /\ low <= low' /\ low' + high <= HunkSize
      /\ pc' # "freelow" => low' = low
      /\ pc' \in {"error", "freelow"}
  BY <1>1, <1>2, <1>3, HunkTypes DEF HunkFull
<1>5. MarksHold'
  <2>1. \A m \in lowMarks : m \in Int /\ m <= low
    BY <1>2, HunkTypes DEF MarksHold
  <2>2. \A m \in lowMarks : m <= low'
    BY <1>2, <1>4, <2>1, HunkTypes
  <2> QED BY <1>2, <1>3, <2>2, HunkTypes DEF MarksHold, HighWithoutTemp
<1>6. UNCHANGED cacheVars /\ pc' \in Phases \ {"alloc"}
  BY <1>3, <1>4 DEF Phases
<1> QED BY <1>2, <1>3, <1>4, <1>5, <1>6, HunkTypes, HunkStep

LEMMA HunkHighAllocInv ==
    ASSUME IInv, NEW n \in HunkRequests, HunkHighAlloc(n) PROVE IInv'
<1>1. n \in Nat /\ pc = "idle"
  BY HunkAssumption DEF HunkHighAlloc
<1>2. /\ UNCHANGED <<low, tempMark, lowMarks, highMarks, cacheVars>>
      /\ tempActive' = FALSE /\ GrowHigh(HighWithoutTemp, n)
  BY DEF HunkHighAlloc
<1>3. HighWithoutTemp \in Nat /\ HighWithoutTemp <= high /\ Layout
  BY <1>1, HunkTypes
<1>4. /\ high' \in 0 .. HunkSize /\ HighWithoutTemp <= high' /\ low + high' <= HunkSize
      /\ \/ pc' = "idle" /\ high' <= high
         \/ pc' = "freehigh"
  BY <1>1, <1>2, <1>3, GrowFacts
<1>5. MarksHold'
  <2>1. \A m \in highMarks : m \in Int /\ m <= HighWithoutTemp
    BY <1>1, HunkTypes DEF MarksHold
  <2>2. \A m \in highMarks : m <= high'
    BY <1>3, <1>4, <2>1
  <2> QED BY <1>1, <1>2, <2>2, HunkTypes DEF MarksHold, HighWithoutTemp
<1>6. pc' \in Phases \ {"alloc"} /\ UNCHANGED cacheVars
  BY <1>2, <1>4 DEF Phases
<1>7. low' <= low
  BY <1>1, <1>2, HunkTypes
<1> QED BY <1>1, <1>2, <1>4, <1>5, <1>6, <1>7, HunkTypes, HunkStep

LEMMA HunkTempAllocInv ==
    ASSUME IInv, NEW n \in HunkRequests, HunkTempAlloc(n) PROVE IInv'
<1>1. Round16(n) \in Nat /\ pc = "idle"
  BY HunkAssumption, Rounded DEF HunkTempAlloc
<1>2. /\ UNCHANGED <<low, lowMarks, highMarks, cacheVars>>
      /\ tempActive' = TRUE /\ tempMark' = HighWithoutTemp
      /\ GrowHigh(HighWithoutTemp, Round16(n))
  BY DEF HunkTempAlloc, TempStart
<1>3. HighWithoutTemp \in Nat /\ HighWithoutTemp <= high /\ Layout
  BY <1>1, HunkTypes
<1>4. /\ high' \in 0 .. HunkSize /\ HighWithoutTemp <= high' /\ low + high' <= HunkSize
      /\ \/ pc' = "idle" /\ high' <= high
         \/ pc' = "freehigh"
  BY <1>1, <1>2, <1>3, GrowFacts
<1>5. MarksHold'
  <2>1. HighWithoutTemp' = HighWithoutTemp
    BY <1>2 DEF HighWithoutTemp
  <2> QED BY <1>1, <1>2, <1>4, <2>1, HunkTypes DEF MarksHold
<1>6. pc' \in Phases \ {"alloc"} /\ UNCHANGED cacheVars
  BY <1>2, <1>4 DEF Phases
<1>7. low' <= low /\ tempMark' \in 0 .. HunkSize
  BY <1>1, <1>2, HunkTypes
<1> QED BY <1>1, <1>2, <1>4, <1>5, <1>6, <1>7, HunkTypes, HunkStep

LEMMA HunkLowMarkInv == ASSUME IInv, HunkLowMark PROVE IInv'
<1>1. /\ pc = "idle" /\ lowMarks' = lowMarks \cup {low}
      /\ UNCHANGED <<low, high, tempActive, tempMark, highMarks, cacheVars, pc>>
  BY DEF HunkLowMark
<1>2. MarksHold'
  BY <1>1, HunkTypes DEF MarksHold, HighWithoutTemp
<1>3. UNCHANGED cacheVars /\ pc' \in Phases \ {"alloc"} /\ low' <= low /\ high' <= high
  BY <1>1, HunkTypes DEF Phases
<1> QED BY <1>1, <1>2, <1>3, HunkTypes, HunkStep

LEMMA HunkFreeToLowMarkInv ==
    ASSUME IInv, NEW m \in lowMarks, HunkFreeToLowMark(m) PROVE IInv'
<1>1. /\ pc = "idle"
      /\ UNCHANGED <<high, tempActive, tempMark, highMarks, cacheVars>>
  BY DEF HunkFreeToLowMark
<1>2. m \in 0 .. HunkSize /\ m <= low
  BY <1>1, HunkTypes DEF MarksHold
<1>3. low' = m /\ lowMarks' = {k \in lowMarks : k < m} /\ pc' = "idle"
  BY <1>1, <1>2, HunkTypes DEF HunkFreeToLowMark
<1>4. low' \in 0 .. HunkSize /\ low' <= low /\ low' + high' <= HunkSize
  BY <1>1, <1>2, <1>3, HunkTypes
<1>5. MarksHold'
  <2>1. \A k \in lowMarks' : k <= low'
    BY <1>1, <1>2, <1>3, HunkTypes
  <2> QED BY <1>1, <2>1, HunkTypes DEF MarksHold, HighWithoutTemp
<1>6. UNCHANGED cacheVars /\ pc' \in Phases \ {"alloc"} /\ high' <= high
  BY <1>1, <1>3, HunkTypes DEF Phases
<1> QED BY <1>1, <1>3, <1>4, <1>5, <1>6, HunkTypes, HunkStep

LEMMA HunkHighMarkInv == ASSUME IInv, HunkHighMark PROVE IInv'
<1>1. /\ pc = "idle" /\ high' = HighWithoutTemp /\ tempActive' = FALSE
      /\ highMarks' = highMarks \cup {high'}
      /\ UNCHANGED <<low, tempMark, lowMarks, cacheVars, pc>>
  BY DEF HunkHighMark
<1>2. high' \in 0 .. HunkSize /\ high' <= high /\ low' + high' <= HunkSize
  BY <1>1, HunkTypes
<1>3. MarksHold'
  <2>1. HighWithoutTemp' = high'
    BY <1>1 DEF HighWithoutTemp
  <2> QED BY <1>1, <1>2, <2>1, HunkTypes DEF MarksHold
<1>4. UNCHANGED cacheVars /\ pc' \in Phases \ {"alloc"} /\ low' <= low
  BY <1>1, HunkTypes DEF Phases
<1> QED BY <1>1, <1>2, <1>3, <1>4, HunkTypes, HunkStep

LEMMA HunkFreeToHighMarkInv ==
    ASSUME IInv, NEW m \in highMarks, HunkFreeToHighMark(m) PROVE IInv'
<1>1. /\ pc = "idle" /\ tempActive' = FALSE
      /\ UNCHANGED <<low, tempMark, lowMarks, cacheVars>>
  BY DEF HunkFreeToHighMark
<1>2. m \in 0 .. HunkSize /\ m <= HighWithoutTemp
  BY <1>1, HunkTypes DEF MarksHold
<1>3. high' = m /\ highMarks' = {k \in highMarks : k < m} /\ pc' = "idle"
  BY <1>1, <1>2, HunkTypes DEF HunkFreeToHighMark
<1>4. high' \in 0 .. HunkSize /\ high' <= high /\ low' + high' <= HunkSize
  BY <1>1, <1>2, <1>3, HunkTypes
<1>5. MarksHold'
  <2>1. HighWithoutTemp' = m
    BY <1>1, <1>3 DEF HighWithoutTemp
  <2>2. \A k \in highMarks' : k <= m
    BY <1>1, <1>2, <1>3, HunkTypes
  <2> QED BY <1>1, <2>1, <2>2, HunkTypes DEF MarksHold
<1>6. UNCHANGED cacheVars /\ pc' \in Phases \ {"alloc"} /\ low' <= low
  BY <1>1, <1>3, HunkTypes DEF Phases
<1> QED BY <1>1, <1>3, <1>4, <1>5, <1>6, HunkTypes, HunkStep

\* What an operation of the cache must establish.
LEMMA CacheStep ==
    ASSUME IInv, Layout', UNCHANGED hunkVars, Asked',
           pc' # "freelow" => ClearLow', pc' # "freehigh" => ClearHigh'
    PROVE  IInv'
<1>1. MarksHold'
  BY MarksStay DEF IInv
<1> QED BY <1>1 DEF IInv

\* The phase of a state that has a type.
LEMMA PhaseTyped == ASSUME IInv PROVE pc \in Phases
BY DEF IInv, Layout, TypeOK

\* Nothing of the hunk and the cache changes: the end of a loop, an error.
LEMMA AllStay ==
    ASSUME IInv, UNCHANGED <<hunkVars, cacheVars>>, pc' \in Phases, Asked',
           ClearLow \/ pc' = "freelow", ClearHigh \/ pc' = "freehigh"
    PROVE  IInv'
<1>1. Layout /\ UNCHANGED cacheVars /\ UNCHANGED hunkVars
  BY DEF IInv
<1>2. BlocksTyped' /\ low' = low /\ high' = high
  BY <1>1 DEF Layout, TypeOK, BlocksTyped, cacheVars, hunkVars
<1>3. TypeOK'
  BY <1>1, <1>2, Typed
<1>4. low' + high' <= HunkSize /\ low' <= low /\ high' <= high
  <2>1. low \in Nat /\ high \in Nat /\ HunkSize \in Nat /\ low + high <= HunkSize
    BY <1>1, BlockTypes DEF Layout
  <2> QED BY <1>2, <2>1
<1>5. /\ Layout'
      /\ ClearLow => ClearLow'
      /\ ClearHigh => ClearHigh'
  BY <1>1, <1>3, <1>4, BlocksStay
<1> QED BY <1>1, <1>5, CacheStep

LEMMA FreeLowInv == ASSUME IInv, FreeLow PROVE IInv'
<1>1. Layout /\ ClearHigh /\ pc = "freelow" /\ UNCHANGED <<hunkVars, req>>
  BY DEF IInv, FreeLow
<1>2. CASE LowClear
  <2>1. ClearLow
    BY <1>1, <1>2, LowClearIsClear
  <2>2. pc' = "idle" /\ UNCHANGED cacheVars
    BY <1>2 DEF FreeLow
  <2>3. Asked' /\ pc' \in Phases
    BY <2>2 DEF Asked, Phases
  <2> QED BY <1>1, <2>1, <2>2, <2>3, AllStay
<1>3. CASE ~LowClear
  <2>1. CacheMove(1) /\ pc' = pc
    BY <1>3 DEF FreeLow
  <2>2. 1 \in 1 .. Len(list)
    BY <1>1, <1>3, BlockTypes DEF LowClear, Layout
  <2>3. pc' \in Phases /\ pc' = "freelow" /\ Asked'
    BY <1>1, <2>1, PhaseTyped DEF Asked
  <2>4. Layout' /\ ClearHigh'
    BY <1>1, <2>1, <2>2, <2>3, CacheMoveKeeps
  <2> QED BY <1>1, <2>3, <2>4, CacheStep
<1> QED BY <1>2, <1>3

LEMMA FreeHighInv == ASSUME IInv, FreeHigh PROVE IInv'
<1>1. Layout /\ ClearLow /\ pc = "freehigh" /\ UNCHANGED <<hunkVars, req>>
  BY DEF IInv, FreeHigh
<1>2. CASE list = <<>> \/ End(Last(list)) <= Top
  <2>1. ClearHigh
    BY <1>1, <1>2, HighClearIsClear
  <2>2. pc' = "idle" /\ UNCHANGED cacheVars
    BY <1>2 DEF FreeHigh
  <2>3. Asked' /\ pc' \in Phases
    BY <2>2 DEF Asked, Phases
  <2> QED BY <1>1, <2>1, <2>2, <2>3, AllStay
<1>3. CASE ~(list = <<>> \/ End(Last(list)) <= Top)
  <2>1. CacheMove(Len(list)) /\ pc' = pc
    BY <1>3 DEF FreeHigh
  <2>2. Len(list) \in 1 .. Len(list)
    BY <1>1, <1>3, BlockTypes DEF Layout
  <2>3. pc' \in Phases /\ pc' = "freehigh" /\ Asked'
    BY <1>1, <2>1, PhaseTyped DEF Asked
  <2>4. Layout' /\ ClearLow'
    BY <1>1, <2>1, <2>2, <2>3, CacheMoveKeeps
  <2> QED BY <1>1, <2>3, <2>4, CacheStep
<1> QED BY <1>2, <1>3

LEMMA CacheAllocInv ==
    ASSUME IInv, NEW u \in Users, NEW n \in CacheRequests, CacheAlloc(u, n) PROVE IInv'
<1>1. /\ pc = "idle" /\ pc' = "alloc" /\ u \notin Cached
      /\ UNCHANGED <<hunkVars, cacheVars>> /\ req' = [user |-> u, size |-> CacheBytes(n)]
  BY DEF CacheAlloc
<1>2. CacheBytes(n) \in Nat
  <2>1. n + CacheHdr \in Nat
    BY HunkAssumption
  <2> QED BY <2>1, Rounded DEF CacheBytes
<1>3. Cached' = Cached
  BY <1>1 DEF Cached, cacheVars
<1>4. Asked'
  <2>1. req'.user = u /\ req'.size = CacheBytes(n)
    BY <1>1
  <2> QED BY <1>1, <1>2, <1>3, <2>1 DEF Asked
<1>5. ClearLow /\ ClearHigh /\ pc' \in Phases
  BY <1>1 DEF IInv, Phases
<1> QED BY <1>1, <1>4, <1>5, AllStay

LEMMA AllocFoundInv == ASSUME IInv, AllocFound PROVE IInv'
<1>1. Layout /\ ClearLow /\ ClearHigh /\ Asked /\ UNCHANGED hunkVars /\ pc' = "idle"
  BY DEF IInv, AllocFound
<1>2. Layout' /\ ClearLow' /\ ClearHigh'
  BY <1>1, AllocFoundKeeps
<1>3. Asked'
  BY <1>1 DEF Asked
<1> QED BY <1>1, <1>2, <1>3, CacheStep

LEMMA LeastRecent ==
    ASSUME Layout, lru # <<>>
    PROVE  Last(lru) \in Cached
<1>1. lru \in Seq(Users) /\ Len(lru) \in Nat
  BY BlockTypes DEF Layout
<1>2. Len(lru) \in 1 .. Len(lru)
  BY <1>1
<1>3. PICK k \in 1 .. Len(lru) : k = Len(lru)
  BY <1>2
<1>4. lru[k] \in ToSet(lru)
  BY <1>1, InSet
<1> QED BY <1>3, <1>4 DEF Layout, Last

LEMMA AllocEvictInv == ASSUME IInv, AllocEvict PROVE IInv'
<1>1. /\ Layout /\ ClearLow /\ ClearHigh /\ Asked /\ pc = "alloc"
      /\ UNCHANGED hunkVars /\ UNCHANGED <<pc, req>> /\ lru # <<>>
  BY DEF IInv, AllocEvict
<1>2. PICK u \in Cached : CacheDrop(u)
  BY <1>1, LeastRecent DEF AllocEvict
<1>3. Layout' /\ Cached' = Cached \ {u} /\ ClearLow' /\ ClearHigh'
  BY <1>1, <1>2, PhaseTyped, CacheDropKeeps
<1>4. Asked'
  BY <1>1, <1>3 DEF Asked
<1> QED BY <1>1, <1>3, <1>4, CacheStep

LEMMA AllocFailedInv == ASSUME IInv, AllocFailed PROVE IInv'
<1>1. ClearLow /\ ClearHigh /\ UNCHANGED <<hunkVars, cacheVars>> /\ pc' = "error"
  BY DEF IInv, AllocFailed
<1>2. Asked' /\ pc' \in Phases
  BY <1>1 DEF Asked, Phases
<1> QED BY <1>1, <1>2, AllStay

LEMMA CacheCheckInv == ASSUME IInv, NEW u \in Users, CacheCheck(u) PROVE IInv'
<1>1. /\ Layout /\ ClearLow /\ ClearHigh /\ pc = "idle" /\ u \in Cached
      /\ UNCHANGED hunkVars /\ list' = list /\ at' = at /\ size' = size /\ pc' = pc
      /\ lru' = <<u>> \o Unlinked(lru, u)
  BY DEF IInv, CacheCheck
<1>2. /\ lru \in Seq(Users) /\ Distinct(lru) /\ u \in ToSet(lru) /\ ToSet(lru) = Cached
      /\ Len(list) = Len(lru) /\ Len(lru) \in Nat
  BY <1>1, BlockTypes DEF Layout
<1> DEFINE r == Unlinked(lru, u)
<1>3. r \in Seq(Users) /\ Len(r) = Len(lru) - 1 /\ Distinct(r) /\ ToSet(r) = ToSet(lru) \ {u}
  BY <1>2, UnlinkedFacts
<1> HIDE DEF r
<1>4. u \notin ToSet(r)
  BY <1>3
<1> DEFINE q == <<u>> \o r
<1>5. q \in Seq(Users) /\ Len(q) = Len(r) + 1 /\ Distinct(q) /\ ToSet(q) = ToSet(r) \cup {u}
  BY <1>3, <1>4, PutFirst
<1>6. lru' = q
  BY <1>1 DEF r
<1> HIDE DEF q
<1>7. lru' \in Seq(Users) /\ Len(lru') = Len(lru) /\ Distinct(lru') /\ ToSet(lru') = Cached
  <2>1. ToSet(r) \cup {u} = Cached
    BY <1>1, <1>2, <1>3
  <2>2. Len(r) + 1 = Len(lru)
    BY <1>2, <1>3
  <2> QED BY <1>5, <1>6, <2>1, <2>2
<1>8. Cached' = Cached /\ low' = low /\ high' = high /\ Top' = Top
  BY <1>1 DEF Cached, hunkVars, Top
<1>9. TypeOK'
  <2>1. BlocksTyped'
    BY <1>1, <1>7 DEF BlocksTyped, Layout, TypeOK
  <2> QED BY <1>1, <2>1, Typed, PhaseTyped
<1>10. Layout'
  BY <1>1, <1>2, <1>7, <1>8, <1>9 DEF Layout
<1>11. ClearLow' /\ ClearHigh'
  BY <1>1, <1>8 DEF ClearLow, ClearHigh, End
<1>12. Asked'
  BY <1>1 DEF Asked
<1> QED BY <1>1, <1>10, <1>11, <1>12, CacheStep

LEMMA CacheFreeInv == ASSUME IInv, NEW u \in Users, CacheFree(u) PROVE IInv'
<1>1. /\ Layout /\ ClearLow /\ ClearHigh /\ pc = "idle" /\ u \in Cached /\ CacheDrop(u)
      /\ UNCHANGED hunkVars /\ pc' = pc
  BY DEF IInv, CacheFree
<1>2. Layout' /\ ClearLow' /\ ClearHigh'
  BY <1>1, PhaseTyped, CacheDropKeeps
<1>3. Asked'
  BY <1>1 DEF Asked
<1> QED BY <1>1, <1>2, <1>3, CacheStep

\* An empty cache, as at the start.
LEMMA NoBlocks ==
    ASSUME NEW a, NEW z
    PROVE  ToSet(<<>>) = {} /\ Len(<<>>) = 0 /\ Apart(<<>>, a, z) /\ Distinct(<<>>)
<1>1. Len(<<>>) = 0 /\ DOMAIN <<>> = {}
  OBVIOUS
<1>2. ToSet(<<>>) = {}
  BY <1>1 DEF ToSet
<1>3. 1 .. Len(<<>>) = {}
  BY <1>1
<1> QED BY <1>1, <1>2, <1>3 DEF Apart, Distinct

LEMMA CacheFlushInv == ASSUME IInv, CacheFlush PROVE IInv'
<1>1. /\ Layout /\ pc = "idle" /\ UNCHANGED hunkVars /\ pc' = pc
      /\ list' = <<>> /\ lru' = <<>>
      /\ at' = [u \in Users |-> 0] /\ size' = [u \in Users |-> 0]
  BY DEF IInv, CacheFlush
<1>2. /\ Cached' = {} /\ ToSet(lru') = Cached' /\ Len(list') = Len(lru')
      /\ Apart(list', at', size') /\ Distinct(list') /\ Distinct(lru')
      /\ ClearLow' /\ ClearHigh'
  <2>1. Cached' = {} /\ ToSet(lru') = {}
    BY <1>1, NoBlocks DEF Cached
  <2>2. Len(list') = Len(lru') /\ Distinct(list') /\ Distinct(lru')
    BY <1>1, NoBlocks
  <2>3. Apart(list', at', size')
    BY <1>1, NoBlocks
  <2> QED BY <2>1, <2>2, <2>3 DEF ClearLow, ClearHigh
<1>3. TypeOK'
  <2>1. 0 \in 0 .. HunkSize /\ <<>> \in Seq(Users)
    BY HunkAssumption
  <2>2. BlocksTyped'
    BY <1>1, <2>1 DEF BlocksTyped
  <2> QED BY <1>1, <2>2, Typed, PhaseTyped
<1>4. Layout'
  BY <1>1, <1>2, <1>3 DEF Layout, hunkVars
<1>5. Asked'
  BY <1>1 DEF Asked
<1> QED BY <1>1, <1>2, <1>4, <1>5, CacheStep

LEMMA NextInv == IInv /\ [Next]_vars => IInv'
<1> SUFFICES ASSUME IInv, [Next]_vars PROVE IInv'
  OBVIOUS
<1>1. ASSUME NEW n \in HunkRequests, HunkAlloc(n) PROVE IInv'
  BY <1>1, HunkAllocInv
<1>2. ASSUME NEW n \in HunkRequests, HunkHighAlloc(n) PROVE IInv'
  BY <1>2, HunkHighAllocInv
<1>3. ASSUME NEW n \in HunkRequests, HunkTempAlloc(n) PROVE IInv'
  BY <1>3, HunkTempAllocInv
<1>4. CASE HunkLowMark
  BY <1>4, HunkLowMarkInv
<1>5. CASE HunkHighMark
  BY <1>5, HunkHighMarkInv
<1>6. ASSUME NEW m \in lowMarks, HunkFreeToLowMark(m) PROVE IInv'
  BY <1>6, HunkFreeToLowMarkInv
<1>7. ASSUME NEW m \in highMarks, HunkFreeToHighMark(m) PROVE IInv'
  BY <1>7, HunkFreeToHighMarkInv
<1>8. ASSUME NEW u \in Users, NEW n \in CacheRequests, CacheAlloc(u, n) PROVE IInv'
  BY <1>8, CacheAllocInv
<1>9. ASSUME NEW u \in Users, CacheCheck(u) PROVE IInv'
  BY <1>9, CacheCheckInv
<1>10. ASSUME NEW u \in Users, CacheFree(u) PROVE IInv'
  BY <1>10, CacheFreeInv
<1>11. CASE CacheFlush
  BY <1>11, CacheFlushInv
<1>12. CASE FreeLow
  BY <1>12, FreeLowInv
<1>13. CASE FreeHigh
  BY <1>13, FreeHighInv
<1>14. CASE AllocFound
  BY <1>14, AllocFoundInv
<1>15. CASE AllocEvict
  BY <1>15, AllocEvictInv
<1>16. CASE AllocFailed
  BY <1>16, AllocFailedInv
<1>17. CASE UNCHANGED vars
  BY <1>17 DEF vars, hunkVars, cacheVars, IInv, Layout, TypeOK, ClearLow, ClearHigh, Asked,
       MarksHold, HighWithoutTemp, Cached, End, Top
<1> QED BY <1>1, <1>2, <1>3, <1>4, <1>5, <1>6, <1>7, <1>8, <1>9, <1>10, <1>11, <1>12, <1>13,
           <1>14, <1>15, <1>16, <1>17 DEF Next, Loops

LEMMA InitInv == Init => IInv
<1> SUFFICES ASSUME Init PROVE IInv
  OBVIOUS
<1>1. /\ low = 0 /\ high = 0 /\ tempActive = FALSE /\ tempMark = 0
      /\ lowMarks = {} /\ highMarks = {} /\ list = <<>> /\ lru = <<>>
      /\ at = [u \in Users |-> 0] /\ size = [u \in Users |-> 0] /\ pc = "idle"
  BY DEF Init
<1>2. TypeOK
  <2>1. 0 \in 0 .. HunkSize /\ <<>> \in Seq(Users)
    BY HunkAssumption
  <2> QED BY <1>1, <2>1 DEF TypeOK, Phases
<1>3. Layout /\ ClearLow /\ ClearHigh
  <2>1. Cached = {} /\ ToSet(lru) = {} /\ Len(list) = Len(lru)
    BY <1>1, NoBlocks DEF Cached
  <2>2. Apart(list, at, size) /\ Distinct(list) /\ Distinct(lru)
    BY <1>1, NoBlocks
  <2> QED BY <1>1, <1>2, <2>1, <2>2, HunkAssumption DEF Layout, ClearLow, ClearHigh
<1>4. MarksHold /\ Asked
  BY <1>1 DEF MarksHold, Asked
<1> QED BY <1>3, <1>4 DEF IInv

-----------------------------------------------------------------------------
(* The theorems.                                                             *)

\* The inductive invariant holds in every state, whatever the hunk and the cache
\* are asked for.
THEOREM HunkCacheInvariant == Spec => []IInv
<1> QED BY InitInv, NextInv, PTL DEF Spec

\* The two ends of the hunk never meet, cache blocks lie between them when a call
\* is over, and no two blocks overlap.
THEOREM CacheAlwaysSound == Spec => []CacheSound
<1>1. IInv => CacheSound
  BY DEF IInv, Layout, CacheSound, ClearLow, ClearHigh, Apart, End
<1> QED BY <1>1, HunkCacheInvariant, PTL

\* A block is on the address list exactly when it is on the LRU list, once on each.
THEOREM ListsAlwaysAgree == Spec => []ListsAgree
<1>1. IInv => ListsAgree
  BY DEF IInv, Layout, ListsAgree, Distinct
<1> QED BY <1>1, HunkCacheInvariant, PTL

\* Marks that their holders free in stack order are never above what is in use.
THEOREM MarksAlwaysHold == Spec => []MarksHold
<1>1. IInv => MarksHold
  BY DEF IInv
<1> QED BY <1>1, HunkCacheInvariant, PTL

\* Cache_Alloc raises Sys_Error only if all that lies between the two ends of the
\* hunk is too small for the block.
THEOREM OnlyWhenHopeless == Spec => GivesUpOnlyWhenHopeless
<1>1. IInv /\ [Next]_vars => [AllocFailed => HunkSize - low - high < req.size]_vars
  <2> SUFFICES ASSUME IInv, AllocFailed PROVE HunkSize - low - high < req.size
    OBVIOUS
  <2>1. /\ Layout /\ Asked /\ pc = "alloc" /\ lru = <<>> /\ Slots(req.size, FALSE) = {}
    BY DEF IInv, AllocFailed
  <2>2. req.size \in Nat
    BY <2>1 DEF Asked
  <2>3. /\ list \in Seq(Users) /\ Len(list) = 0 /\ low \in Nat /\ high \in Nat /\ HunkSize \in Nat
    BY <2>1, BlockTypes DEF Layout
  <2>4. GapEnd(0) = HunkSize - high /\ GapStart(0) = low
    BY <2>3 DEF GapEnd, GapStart, Top
  <2>5. ~(GapEnd(0) - GapStart(0) >= req.size)
    BY <2>1, <2>3 DEF Slots
  <2> QED BY <2>2, <2>3, <2>4, <2>5
<1> QED BY <1>1, HunkCacheInvariant, PTL DEF Spec, GivesUpOnlyWhenHopeless
-----------------------------------------------------------------------------
(* The loops come to an end.                                                 *)

\* No block is empty: each has a header in it.
Sized == /\ \A u \in Cached : size[u] > 0
         /\ pc = "alloc" => req.size > 0

LEMMA SizedStays ==
    ASSUME Sized, Cached' \subseteq Cached, \A u \in Cached' : size'[u] = size[u],
           pc' = "alloc" => pc = "alloc" /\ req' = req
    PROVE  Sized'
BY DEF Sized

LEMMA DropStays ==
    ASSUME Layout, NEW u \in Cached, CacheDrop(u), UNCHANGED hunkVars, pc' \in Phases
    PROVE  /\ Cached' = Cached \ {u}
           /\ \A v \in Cached' : at'[v] = at[v] /\ size'[v] = size[v]
<1>1. Cached' = Cached \ {u}
  BY CacheDropKeeps
<1>2. \A v \in Users : v # u => at'[v] = at[v] /\ size'[v] = size[v]
  <2>1. at \in [Users -> Nat] /\ size \in [Users -> Nat]
    BY BlockTypes DEF Layout
  <2> QED BY <2>1 DEF CacheDrop
<1>3. \A v \in Cached : v \in Users
  BY BlockTypes DEF Layout
<1> QED BY <1>1, <1>2, <1>3

\* Cache_Move either throws the block out or puts it into a gap behind another.
LEMMA MoveFacts ==
    ASSUME Layout, NEW p \in 1 .. Len(list), CacheMove(p), UNCHANGED hunkVars, pc' \in Phases,
           NEW u, u = list[p]
    PROVE  /\ u \in Cached
           /\ \/ CacheDrop(u)
              \/ /\ Cached' = Cached /\ size' = size
                 /\ \A v \in Cached : v # u => at'[v] = at[v]
                 /\ \E i \in 1 .. Len(list) : /\ GapEnd(i) - GapStart(i) >= size[u]
                                              /\ at'[u] = GapStart(i)
<1>1. TypeOK /\ Distinct(list)
  BY DEF Layout
<1>2. /\ list \in Seq(Users) /\ Len(list) \in Nat /\ u \in Cached /\ u \in Users
      /\ at \in [Users -> Nat] /\ \A v \in Cached : v \in Users
  BY <1>1, BlockTypes
<1>3. CASE Slots(size[u], TRUE) = {}
  BY <1>2, <1>3 DEF CacheMove, BlockLost
<1>4. CASE Slots(size[u], TRUE) # {}
  <2>1. PICK i \in 0 .. Len(list) : i = Slot(size[u], TRUE) /\ i \in Slots(size[u], TRUE)
    BY <1>1, <1>4, SlotFound DEF Slots
  <2>2. i \in 1 .. Len(list) /\ GapEnd(i) - GapStart(i) >= size[u]
    <3>1. i > 0 /\ GapEnd(i) - GapStart(i) >= size[u]
      BY <2>1, Zenon DEF Slots
    <3> QED BY <1>2, <3>1
  <2>3. /\ list' = Relinked(list, p, i) /\ at' = [at EXCEPT ![u] = GapStart(i)] /\ size' = size
    BY <1>4, <2>1 DEF CacheMove, Relinked
  <2>4. Cached' = Cached
    BY <1>1, <1>2, <2>2, <2>3, RelinkedFacts DEF Cached
  <2>5. at'[u] = GapStart(i) /\ \A v \in Cached : v # u => at'[v] = at[v]
    BY <1>2, <2>3
  <2> QED BY <1>2, <2>2, <2>3, <2>4, <2>5
<1> QED BY <1>3, <1>4

LEMMA SizedInv == IInv /\ Sized /\ [Next]_vars => Sized'
<1> SUFFICES ASSUME IInv, Sized, [Next]_vars PROVE Sized'
  OBVIOUS
<1>1. Layout /\ pc \in Phases
  BY PhaseTyped DEF IInv
<1>2. CASE UNCHANGED cacheVars /\ (pc' = "alloc" => pc = "alloc" /\ req' = req)
  BY <1>2, SizedStays DEF cacheVars, Cached
<1>3. ASSUME NEW p \in 1 .. Len(list), CacheMove(p), UNCHANGED hunkVars, pc' = pc, UNCHANGED req
      PROVE  Sized'
  <2>1. PICK u : u = list[p]
    OBVIOUS
  <2>2. u \in Cached /\ (CacheDrop(u) \/ (Cached' = Cached /\ size' = size))
    BY <1>1, <1>3, <2>1, MoveFacts
  <2>3. Cached' \subseteq Cached /\ \A v \in Cached' : size'[v] = size[v]
    BY <1>1, <1>3, <2>2, DropStays
  <2> QED BY <1>3, <2>3, SizedStays
<1>4. ASSUME NEW u \in Cached, CacheDrop(u), UNCHANGED hunkVars, pc' = pc, UNCHANGED req
      PROVE  Sized'
  <2>1. Cached' \subseteq Cached /\ \A v \in Cached' : size'[v] = size[v]
    BY <1>1, <1>4, DropStays
  <2> QED BY <1>4, <2>1, SizedStays
<1>5. ASSUME NEW n \in HunkRequests, HunkAlloc(n) \/ HunkHighAlloc(n) \/ HunkTempAlloc(n)
      PROVE  Sized'
  <2>1. UNCHANGED cacheVars /\ pc = "idle" /\ pc' # "alloc"
    BY <1>5 DEF HunkAlloc, HunkHighAlloc, HunkTempAlloc, GrowHigh
  <2> QED BY <1>2, <2>1
<1>6. CASE HunkLowMark \/ HunkHighMark
  BY <1>2, <1>6 DEF HunkLowMark, HunkHighMark
<1>7. ASSUME NEW m, HunkFreeToLowMark(m) \/ HunkFreeToHighMark(m) PROVE Sized'
  <2>1. UNCHANGED cacheVars /\ pc = "idle" /\ pc' # "alloc"
    BY <1>7 DEF HunkFreeToLowMark, HunkFreeToHighMark
  <2> QED BY <1>2, <2>1
<1>8. ASSUME NEW u \in Users, NEW n \in CacheRequests, CacheAlloc(u, n) PROVE Sized'
  <2>1. req' = [user |-> u, size |-> CacheBytes(n)] /\ UNCHANGED cacheVars
    BY <1>8 DEF CacheAlloc
  <2>2. CacheBytes(n) > 0
    <3>1. n \in Nat /\ n > 0 /\ CacheHdr \in Nat
      BY HunkAssumption
    <3> QED BY <3>1 DEF CacheBytes, Round16
  <2>3. req'.size > 0
    BY <2>1, <2>2
  <2> QED BY <2>1, <2>3 DEF Sized, Cached, cacheVars
<1>9. ASSUME NEW u \in Users, CacheCheck(u) PROVE Sized'
  BY <1>9, SizedStays DEF CacheCheck, Cached
<1>10. ASSUME NEW u \in Users, CacheFree(u) PROVE Sized'
  BY <1>4, <1>10 DEF CacheFree
<1>11. CASE CacheFlush
  <2>1. Cached' = {} /\ pc' # "alloc"
    BY <1>11, NoBlocks DEF CacheFlush, Cached
  <2> QED BY <2>1 DEF Sized
<1>12. CASE FreeLow
  <2>1. CASE LowClear
    BY <1>2, <1>12, <2>1 DEF FreeLow
  <2>2. CASE ~ LowClear
    <3>1. 1 \in 1 .. Len(list)
      BY <1>1, <2>2, BlockTypes DEF LowClear, Layout
    <3> QED BY <1>3, <1>12, <2>2, <3>1 DEF FreeLow
  <2> QED BY <2>1, <2>2
<1>13. CASE FreeHigh
  <2>1. CASE list = <<>> \/ End(Last(list)) <= Top
    BY <1>2, <1>13, <2>1 DEF FreeHigh
  <2>2. CASE ~ (list = <<>> \/ End(Last(list)) <= Top)
    <3>1. Len(list) \in 1 .. Len(list)
      BY <1>1, <2>2, BlockTypes DEF Layout
    <3> QED BY <1>3, <1>13, <2>2, <3>1 DEF FreeHigh
  <2> QED BY <2>1, <2>2
<1>14. CASE AllocFound
  <2>1. /\ pc = "alloc" /\ pc' = "idle" /\ req.user \in Users /\ req.user \notin Cached
        /\ size' = [size EXCEPT ![req.user] = req.size]
    BY <1>14 DEF AllocFound, IInv, Asked
  <2>2. size \in [Users -> Nat] /\ \A v \in Cached : v \in Users
    BY <1>1, BlockTypes DEF Layout
  <2>3. Cached' = Cached \cup {req.user}
    <3>1. PICK u \in Users : u = req.user /\ u \notin Cached
      BY <2>1
    <3>2. PICK i \in 0 .. Len(list) : i = Slot(req.size, FALSE) /\ list' = InsertAt(list, i + 1, u)
      BY <1>1, <1>14, <3>1, SlotFound DEF AllocFound, Slots, Layout
    <3>3. list \in Seq(Users) /\ Len(list) \in Nat /\ Distinct(list) /\ u \notin ToSet(list)
      BY <1>1, <3>1, BlockTypes DEF Layout, Cached
    <3>4. PICK k \in 1 .. Len(list) + 1 : k = i + 1
      BY <3>3
    <3>5. ToSet(InsertAt(list, k, u)) = ToSet(list) \cup {u}
      BY <3>3, InsertedDistinct
    <3> QED BY <3>1, <3>2, <3>4, <3>5 DEF Cached
  <2>4. \A v \in Cached' : size'[v] = IF v = req.user THEN req.size ELSE size[v]
    BY <2>1, <2>2, <2>3
  <2> QED BY <2>1, <2>3, <2>4 DEF Sized
<1>15. CASE AllocEvict
  BY <1>1, <1>4, <1>15, LeastRecent DEF AllocEvict
<1>16. CASE AllocFailed
  BY <1>2, <1>16 DEF AllocFailed
<1>17. CASE UNCHANGED vars
  BY <1>2, <1>17 DEF vars
<1> QED BY <1>5, <1>6, <1>7, <1>8, <1>9, <1>10, <1>11, <1>12, <1>13, <1>14, <1>15, <1>16, <1>17
        DEF Next, Loops

\* How far each block can still go up or down, and how far it could at most.
RoomAbove == [u \in Users |-> IF u \in Cached THEN HunkSize + 1 - at[u] ELSE 0]
RoomBelow == [u \in Users |-> IF u \in Cached THEN at[u] + 1 ELSE 0]

\* Nobody has more and somebody has less.
Shrinks(r, s) == (\A u \in Users : r[u] <= s[u]) /\ \E u \in Users : r[u] < s[u]

LEMMA RoomTyped ==
    ASSUME Layout
    PROVE  /\ RoomAbove \in [Users -> 0 .. HunkSize + 1] /\ RoomBelow \in [Users -> 0 .. HunkSize + 1]
           /\ \A u \in Cached : u \in Users /\ RoomAbove[u] > 0 /\ RoomBelow[u] > 0
<1>1. /\ \A u \in Cached : u \in Users /\ at[u] \in 0 .. HunkSize
      /\ HunkSize \in Nat
  BY BlockTypes DEF Layout
<1> QED BY <1>1 DEF RoomAbove, RoomBelow

LEMMA DropShrinks ==
    ASSUME Layout, NEW u \in Cached, CacheDrop(u), UNCHANGED hunkVars, pc' \in Phases
    PROVE  Shrinks(RoomAbove', RoomAbove) /\ Shrinks(RoomBelow', RoomBelow)
<1>1. Cached' = Cached \ {u} /\ \A v \in Cached' : at'[v] = at[v]
  BY DropStays
<1>2. /\ u \in Users /\ RoomAbove[u] > 0 /\ RoomBelow[u] > 0
      /\ \A v \in Users : RoomAbove[v] \in Nat /\ RoomBelow[v] \in Nat
  BY RoomTyped
<1>3. \A v \in Users : /\ RoomAbove'[v] = IF v = u THEN 0 ELSE RoomAbove[v]
                       /\ RoomBelow'[v] = IF v = u THEN 0 ELSE RoomBelow[v]
  BY <1>1 DEF RoomAbove, RoomBelow
<1> QED BY <1>2, <1>3 DEF Shrinks

LEMMA MoveShrinks ==
    ASSUME Layout, NEW u \in Cached, Cached' = Cached, at'[u] \in Nat,
           \A v \in Cached : v # u => at'[v] = at[v]
    PROVE  /\ at'[u] > at[u] => Shrinks(RoomAbove', RoomAbove)
           /\ at'[u] < at[u] => Shrinks(RoomBelow', RoomBelow)
<1>1. u \in Users /\ at[u] \in Nat /\ HunkSize \in Nat /\ \A v \in Cached : at[v] \in Nat
  BY BlockTypes DEF Layout
<1>2. \A v \in Users : RoomAbove[v] \in Int /\ RoomBelow[v] \in Int
  BY RoomTyped
<1>3. \A v \in Users : v # u => RoomAbove'[v] = RoomAbove[v] /\ RoomBelow'[v] = RoomBelow[v]
  BY DEF RoomAbove, RoomBelow
<1>4. /\ RoomAbove[u] = HunkSize + 1 - at[u] /\ RoomAbove'[u] = HunkSize + 1 - at'[u]
      /\ RoomBelow[u] = at[u] + 1 /\ RoomBelow'[u] = at'[u] + 1
  BY <1>1 DEF RoomAbove, RoomBelow
<1> QED BY <1>1, <1>2, <1>3, <1>4 DEF Shrinks

LEMMA FreeLowShrinks ==
    ASSUME IInv, Sized, FreeLow, pc' = pc
    PROVE  Shrinks(RoomAbove', RoomAbove)
<1>1. /\ Layout /\ pc = "freelow" /\ pc' \in Phases /\ UNCHANGED hunkVars /\ ~ LowClear
      /\ CacheMove(1)
  BY PhaseTyped DEF IInv, FreeLow
<1>2. /\ 1 \in 1 .. Len(list) /\ Len(list) \in Nat
      /\ \A j \in 1 .. Len(list) : /\ list[j] \in Cached
                                   /\ at[list[j]] \in 0 .. HunkSize /\ size[list[j]] \in 0 .. HunkSize
  <2>1. TypeOK /\ list # <<>>
    BY <1>1 DEF Layout, LowClear
  <2>2. 1 \in 1 .. Len(list)
    BY <2>1, BlockTypes
  <2> QED BY <2>1, <2>2, BlockTypes
<1>3. PICK u : u = list[1]
  OBVIOUS
<1>4. /\ u \in Cached
      /\ \/ CacheDrop(u)
         \/ /\ Cached' = Cached /\ size' = size
            /\ \A v \in Cached : v # u => at'[v] = at[v]
            /\ \E i \in 1 .. Len(list) : /\ GapEnd(i) - GapStart(i) >= size[u]
                                         /\ at'[u] = GapStart(i)
  BY <1>1, <1>2, <1>3, MoveFacts
<1>5. CASE CacheDrop(u)
  BY <1>1, <1>4, <1>5, DropShrinks
<1>6. ASSUME NEW i \in 1 .. Len(list), at'[u] = GapStart(i), Cached' = Cached,
             \A v \in Cached : v # u => at'[v] = at[v]
      PROVE  Shrinks(RoomAbove', RoomAbove)
  <2>1. GapStart(i) = at[list[i]] + size[list[i]]
    BY <1>6, <1>2 DEF GapStart, End
  <2>2. size[u] > 0 /\ at[u] \in Nat /\ size[u] \in Nat
    BY <1>2, <1>3, <1>4 DEF Sized
  <2>3. i = 1 \/ at[u] + size[u] <= at[list[i]]
    BY <1>1, <1>2, <1>3 DEF Layout, Apart
  <2>4. at'[u] > at[u] /\ at'[u] \in Nat
    BY <1>2, <1>3, <1>6, <2>1, <2>2, <2>3
  <2> QED BY <1>1, <1>4, <1>6, <2>4, MoveShrinks
<1> QED BY <1>4, <1>5, <1>6

LEMMA FreeHighShrinks ==
    ASSUME IInv, Sized, FreeHigh, pc' = pc
    PROVE  Shrinks(RoomBelow', RoomBelow)
<1>1. /\ Layout /\ pc = "freehigh" /\ pc' \in Phases /\ UNCHANGED hunkVars
      /\ ~ (list = <<>> \/ End(Last(list)) <= Top)
      /\ CacheMove(Len(list))
  BY PhaseTyped DEF IInv, FreeHigh
<1>2. /\ Len(list) \in 1 .. Len(list) /\ Len(list) \in Nat
      /\ \A j \in 1 .. Len(list) : /\ list[j] \in Cached
                                   /\ at[list[j]] \in 0 .. HunkSize /\ size[list[j]] \in 0 .. HunkSize
      /\ HunkSize \in Nat /\ high \in Nat
  BY <1>1, BlockTypes DEF Layout
<1>3. PICK n : n = Len(list)
  OBVIOUS
<1>4. PICK u : u = list[n]
  OBVIOUS
<1>5. /\ u \in Cached
      /\ \/ CacheDrop(u)
         \/ /\ Cached' = Cached /\ size' = size
            /\ \A v \in Cached : v # u => at'[v] = at[v]
            /\ \E i \in 1 .. Len(list) : /\ GapEnd(i) - GapStart(i) >= size[u]
                                         /\ at'[u] = GapStart(i)
  BY <1>1, <1>2, <1>3, <1>4, MoveFacts
<1>6. CASE CacheDrop(u)
  BY <1>1, <1>5, <1>6, DropShrinks
<1>7. ASSUME NEW i \in 1 .. Len(list), at'[u] = GapStart(i), Cached' = Cached,
             \A v \in Cached : v # u => at'[v] = at[v], GapEnd(i) - GapStart(i) >= size[u]
      PROVE  Shrinks(RoomBelow', RoomBelow)
  <2>1. GapStart(i) = at[list[i]] + size[list[i]] /\ GapStart(i) \in Nat
    BY <1>2, <1>7 DEF GapStart, End
  <2>2. size[u] > 0 /\ at[u] \in Nat /\ size[u] \in Nat
    BY <1>2, <1>3, <1>4, <1>5 DEF Sized
  <2>3. i # n
    <3> SUFFICES ASSUME i = n PROVE FALSE
      OBVIOUS
    <3>1. GapEnd(i) = Top /\ GapStart(i) = End(Last(list)) /\ Top = HunkSize - high
      BY <1>2, <1>3, <1>4, <2>1 DEF GapEnd, Last, End, Top
    <3> QED BY <1>1, <1>2, <1>7, <2>1, <2>2, <3>1
  <2>4. GapEnd(i) = at[list[i + 1]] /\ i + 1 \in 1 .. n
    BY <1>2, <1>3, <2>3 DEF GapEnd
  <2>5. PICK k \in 1 .. n : k = i + 1
    BY <2>4
  <2>6. k = n \/ at[list[k]] + size[list[k]] <= at[u]
    BY <1>1, <1>2, <1>3, <1>4 DEF Layout, Apart
  <2>7. at[list[k]] \in Nat /\ size[list[k]] \in Nat
    BY <1>2, <1>3
  <2>8. at[list[k]] <= at[u]
    BY <1>4, <2>2, <2>6, <2>7
  <2>9. at'[u] < at[u] /\ at'[u] \in Nat
    BY <1>7, <2>1, <2>2, <2>4, <2>5, <2>7, <2>8
  <2> QED BY <1>1, <1>5, <1>7, <2>9, MoveShrinks
<1> QED BY <1>5, <1>6, <1>7

\* Every turn of the loops of Cache_FreeLow, Cache_FreeHigh and Cache_Alloc that
\* goes on throws a block out or, in the first two, moves one strictly away from
\* the end of the hunk that has grown, and leaves all others where they are.  The
\* rooms are bounded, so that no loop chases a block for ever.
THEOREM LoopsRunDown ==
    Spec => [][ /\ FreeLow /\ pc' = pc => Shrinks(RoomAbove', RoomAbove)
                /\ FreeHigh /\ pc' = pc => Shrinks(RoomBelow', RoomBelow)
                /\ AllocEvict => Shrinks(RoomAbove', RoomAbove) /\ Shrinks(RoomBelow', RoomBelow)
              ]_vars
<1>1. ASSUME IInv, Sized
      PROVE  /\ FreeLow /\ pc' = pc => Shrinks(RoomAbove', RoomAbove)
             /\ FreeHigh /\ pc' = pc => Shrinks(RoomBelow', RoomBelow)
             /\ AllocEvict => Shrinks(RoomAbove', RoomAbove) /\ Shrinks(RoomBelow', RoomBelow)
  <2>1. ASSUME AllocEvict
        PROVE  Shrinks(RoomAbove', RoomAbove) /\ Shrinks(RoomBelow', RoomBelow)
    <3>1. Layout /\ lru # <<>> /\ CacheDrop(Last(lru)) /\ UNCHANGED hunkVars /\ pc' \in Phases
      BY <1>1, <2>1, PhaseTyped DEF IInv, AllocEvict
    <3> QED BY <3>1, LeastRecent, DropShrinks
  <2> QED BY <1>1, <2>1, FreeLowShrinks, FreeHighShrinks
<1>2. Init => Sized
  BY NoBlocks DEF Init, Sized, Cached
<1> QED BY <1>1, <1>2, SizedInv, HunkCacheInvariant, PTL DEF Spec
=============================================================================
