----------------------------- MODULE LoopbackProofs -----------------------------
(***************************************************************************)
(* Proofs about the loopback network, for a pool of any size, buffers of   *)
(* any size and messages of any lengths: the pool never loses or shares a  *)
(* socket, both ends of a connection get one or neither, and what an end   *)
(* reads is what the other one sent.  With several client slots that needs *)
(* the client to close the server's end, too, before it connects again; it *)
(* does, see Orderly, and with the one slot of a game started without      *)
(* -listen it need not.                                                    *)
(*                                                                         *)
(* The second half is about Session, the game that uses this network with  *)
(* one slot: whatever the user types and however levels fail to load, the  *)
(* network stays sound and the server accepts a client only with what that *)
(* takes; and as long as levels change the way the game changes them, the  *)
(* sign-on goes in step with the level, goes on and never goes back, and   *)
(* no buffer overflows.                                                    *)
(***************************************************************************)
EXTENDS Loopback, TLAPS, SequenceTheorems, FiniteSetTheorems, WellFoundedInduction

-----------------------------------------------------------------------------
(* Lists of sockets.                                                         *)

Distinct(s) == \A i, j \in 1 .. Len(s) : s[i] = s[j] => i = j

LEMMA InSet ==
    ASSUME NEW S, NEW s \in Seq(S)
    PROVE  /\ \A i \in 1 .. Len(s) : s[i] \in ToSet(s)
           /\ \A e \in ToSet(s) : \E i \in 1 .. Len(s) : s[i] = e
           /\ ToSet(s) \subseteq S
BY DEF ToSet

LEMMA Removed ==
    ASSUME NEW S, NEW s \in Seq(S), NEW k \in 1 .. Len(s)
    PROVE  /\ RemoveAt(s, k) \in Seq(S)
           /\ Len(RemoveAt(s, k)) = Len(s) - 1
           /\ \A i \in 1 .. Len(s) - 1 : RemoveAt(s, k)[i] = IF i < k THEN s[i] ELSE s[i + 1]
<1> DEFINE a == SubSeq(s, 1, k - 1)
           z == SubSeq(s, k + 1, Len(s))
           t == a \o z
<1>1. Len(s) \in Nat /\ k \in Int /\ k >= 1 /\ k <= Len(s)
  OBVIOUS
<1>2. \A i \in 1 .. Len(s) : s[i] \in S
  OBVIOUS
<1>3. a \in Seq(S) /\ Len(a) = k - 1 /\ \A i \in 1 .. k - 1 : a[i] = s[i]
  <2>1. /\ a \in Seq(S)
        /\ Len(a) = IF 1 <= k - 1 THEN (k - 1) - 1 + 1 ELSE 0
        /\ \A i \in 1 .. (k - 1) - 1 + 1 : a[i] = s[1 + i - 1]
    BY <1>1, <1>2, SubSeqProperties
  <2> QED BY <2>1, <1>1
<1>4. z \in Seq(S) /\ Len(z) = Len(s) - k /\ \A i \in 1 .. Len(s) - k : z[i] = s[k + i]
  <2>1. /\ z \in Seq(S)
        /\ Len(z) = IF k + 1 <= Len(s) THEN Len(s) - (k + 1) + 1 ELSE 0
        /\ \A i \in 1 .. Len(s) - (k + 1) + 1 : z[i] = s[(k + 1) + i - 1]
    BY <1>1, <1>2, SubSeqProperties
  <2> QED BY <2>1, <1>1
<1> HIDE DEF a, z
<1>5. /\ t \in Seq(S) /\ Len(t) = Len(a) + Len(z)
      /\ \A i \in 1 .. Len(a) + Len(z) : t[i] = IF i <= Len(a) THEN a[i] ELSE z[i - Len(a)]
  BY <1>3, <1>4, ConcatProperties
<1>6. RemoveAt(s, k) = t
  BY DEF RemoveAt, a, z
<1> HIDE DEF t
<1>7. ASSUME NEW i \in 1 .. Len(s) - 1
      PROVE  t[i] = IF i < k THEN s[i] ELSE s[i + 1]
  <2>0. i \in Int /\ i \in 1 .. Len(a) + Len(z)
    BY <1>1, <1>3, <1>4
  <2>1. CASE i < k
    BY <2>0, <2>1, <1>1, <1>3, <1>5
  <2>2. CASE i >= k
    <3>1. i - (k - 1) \in 1 .. Len(s) - k /\ k + (i - (k - 1)) = i + 1
      BY <2>0, <2>2, <1>1
    <3>2. t[i] = z[i - (k - 1)]
      BY <2>0, <2>2, <1>1, <1>3, <1>5
    <3> QED BY <3>1, <3>2, <2>0, <2>2, <1>1, <1>4
  <2> QED BY <2>0, <2>1, <2>2, <1>1
<1>8. Len(t) = Len(s) - 1
  BY <1>1, <1>3, <1>4, <1>5
<1> QED BY <1>5, <1>6, <1>7, <1>8

\* A socket taken off a list is on it no more, and the others still are.
LEMMA UnlinkedFacts ==
    ASSUME NEW S, NEW q \in Seq(S), Distinct(q), NEW s \in ToSet(q)
    PROVE  /\ Unlinked(q, s) \in Seq(S) /\ Len(Unlinked(q, s)) = Len(q) - 1
           /\ Distinct(Unlinked(q, s)) /\ ToSet(Unlinked(q, s)) = ToSet(q) \ {s}
<1> DEFINE k == CHOOSE i \in 1 .. Len(q) : q[i] = s
           r == RemoveAt(q, k)
<1>1. k \in 1 .. Len(q) /\ q[k] = s
  BY InSet
<1>2. Unlinked(q, s) = r
  BY DEF Unlinked
<1> HIDE DEF k
<1>3. /\ r \in Seq(S) /\ Len(r) = Len(q) - 1
      /\ \A i \in 1 .. Len(q) - 1 : r[i] = IF i < k THEN q[i] ELSE q[i + 1]
  BY <1>1, Removed
<1> HIDE DEF r
<1>4. Len(q) \in Nat /\ k \in Int /\ k >= 1 /\ k <= Len(q)
  BY <1>1
<1>5. \A i \in 1 .. Len(r) : \E m \in 1 .. Len(q) :
         r[i] = q[m] /\ m # k /\ m = IF i < k THEN i ELSE i + 1
  BY <1>3, <1>4
<1>6. Distinct(r)
  <2> SUFFICES ASSUME NEW i \in 1 .. Len(r), NEW j \in 1 .. Len(r), r[i] = r[j]
               PROVE  i = j
    BY DEF Distinct
  <2>1. PICK m \in 1 .. Len(q) : r[i] = q[m] /\ m # k /\ m = IF i < k THEN i ELSE i + 1
    BY <1>5
  <2>2. PICK n \in 1 .. Len(q) : r[j] = q[n] /\ n # k /\ n = IF j < k THEN j ELSE j + 1
    BY <1>5
  <2>3. m = n
    BY <2>1, <2>2 DEF Distinct
  <2> QED BY <2>1, <2>2, <2>3, <1>3, <1>4
<1>7. \A e \in ToSet(r) : e \in ToSet(q) \ {s}
  <2> TAKE e \in ToSet(r)
  <2>1. PICK i \in 1 .. Len(r) : r[i] = e
    BY <1>3, InSet
  <2>2. PICK m \in 1 .. Len(q) : r[i] = q[m] /\ m # k
    BY <1>5
  <2>3. e # s
    BY <2>1, <2>2, <1>1 DEF Distinct
  <2> QED BY <2>1, <2>2, <2>3, InSet
<1>8. \A e \in ToSet(q) \ {s} : e \in ToSet(r)
  <2> TAKE e \in ToSet(q) \ {s}
  <2>1. PICK m \in 1 .. Len(q) : q[m] = e
    BY InSet
  <2>2. m # k
    BY <2>1, <1>1
  <2>3. \E i \in 1 .. Len(r) : r[i] = e
    <3>1. CASE m < k
      BY <3>1, <2>1, <1>3, <1>4
    <3>2. CASE m > k
      <4>1. m - 1 \in 1 .. Len(r) /\ ~ (m - 1 < k) /\ (m - 1) + 1 = m
        BY <3>2, <1>3, <1>4
      <4> QED BY <4>1, <2>1, <1>3
    <3> QED BY <3>1, <3>2, <2>2, <1>4
  <2> QED BY <2>3, <1>3, InSet
<1>9. ToSet(r) = ToSet(q) \ {s}
  BY <1>7, <1>8
<1> QED BY <1>2, <1>3, <1>6, <1>9

\* A socket put in front of a list.
LEMMA InFront ==
    ASSUME NEW S, NEW q \in Seq(S), Distinct(q), NEW s \in S, s \notin ToSet(q)
    PROVE  /\ <<s>> \o q \in Seq(S) /\ Len(<<s>> \o q) = Len(q) + 1
           /\ Distinct(<<s>> \o q) /\ ToSet(<<s>> \o q) = ToSet(q) \cup {s}
<1> DEFINE b == <<s>>
           t == b \o q
<1>1. b \in Seq(S) /\ Len(b) = 1 /\ b[1] = s
  OBVIOUS
<1> HIDE DEF b
<1>2. /\ t \in Seq(S) /\ Len(t) = Len(b) + Len(q)
      /\ \A i \in 1 .. Len(b) + Len(q) : t[i] = IF i <= Len(b) THEN b[i] ELSE q[i - Len(b)]
  BY <1>1, ConcatProperties
<1> HIDE DEF t
<1>3. /\ Len(q) \in Nat /\ Len(t) = Len(q) + 1
      /\ \A i \in 1 .. Len(q) + 1 : t[i] = IF i = 1 THEN s ELSE q[i - 1]
  BY <1>1, <1>2
<1>4. \A i \in 1 .. Len(q) : q[i] # s
  BY InSet
<1>5. Distinct(t)
  <2> SUFFICES ASSUME NEW i \in 1 .. Len(t), NEW j \in 1 .. Len(t), t[i] = t[j]
               PROVE  i = j
    BY DEF Distinct
  <2>1. CASE i = 1 /\ j # 1
    <3>1. j - 1 \in 1 .. Len(q)
      BY <2>1, <1>3
    <3> QED BY <3>1, <2>1, <1>3, <1>4
  <2>2. CASE i # 1 /\ j = 1
    <3>1. i - 1 \in 1 .. Len(q)
      BY <2>2, <1>3
    <3> QED BY <3>1, <2>2, <1>3, <1>4
  <2>3. CASE i # 1 /\ j # 1
    <3>1. i - 1 \in 1 .. Len(q) /\ j - 1 \in 1 .. Len(q)
      BY <2>3, <1>3
    <3>2. q[i - 1] = q[j - 1]
      BY <2>3, <1>3
    <3>3. i - 1 = j - 1
      BY <3>1, <3>2 DEF Distinct
    <3> QED BY <3>1, <3>3
  <2> QED BY <2>1, <2>2, <2>3
<1>6. \A e \in ToSet(t) : e \in ToSet(q) \cup {s}
  <2> TAKE e \in ToSet(t)
  <2>1. PICK i \in 1 .. Len(t) : t[i] = e
    BY <1>2, InSet
  <2>2. CASE i = 1
    BY <2>1, <2>2, <1>3
  <2>3. CASE i # 1
    <3>1. i - 1 \in 1 .. Len(q)
      BY <2>3, <1>3
    <3> QED BY <3>1, <2>3, <2>1, <1>3, InSet
  <2> QED BY <2>2, <2>3
<1>7. s \in ToSet(t)
  <2>1. 1 \in 1 .. Len(t) /\ t[1] = s
    BY <1>3
  <2> QED BY <2>1, <1>2, InSet
<1>8. \A e \in ToSet(q) : e \in ToSet(t)
  <2> TAKE e \in ToSet(q)
  <2>1. PICK i \in 1 .. Len(q) : q[i] = e
    BY InSet
  <2>2. i + 1 \in 1 .. Len(t) /\ t[i + 1] = q[i]
    BY <1>3
  <2> QED BY <2>1, <2>2, <1>2, InSet
<1>9. ToSet(t) = ToSet(q) \cup {s}
  BY <1>6, <1>7, <1>8
<1> QED BY <1>2, <1>3, <1>5, <1>9 DEF t, b

-----------------------------------------------------------------------------
(* Offsets in the order of a buffer.                                         *)

\* Each offset has a place of its own, and every place is taken.
LEMMA RankFacts ==
    ASSUME NEW D, D \subseteq Nat, IsFiniteSet(D)
    PROVE  /\ Cardinality(D) \in Nat
           /\ \A o \in D : Rank(D, o) \in Nat /\ Rank(D, o) < Cardinality(D)
           /\ \A o, x \in D : o < x => Rank(D, o) < Rank(D, x)
<1> DEFINE B(o) == {x \in D : x < o}
<1>1. \A o \in D : IsFiniteSet(B(o)) /\ Cardinality(B(o)) \in Nat
  <2> TAKE o \in D
  <2>1. B(o) \in SUBSET D
    OBVIOUS
  <2>2. IsFiniteSet(B(o))
    BY <2>1, FS_Subset
  <2> QED BY <2>2, FS_CardinalityType
<1>2. \A o \in D : Cardinality(B(o)) < Cardinality(D)
  <2> TAKE o \in D
  <2>1. B(o) \in SUBSET D /\ o \notin B(o)
    OBVIOUS
  <2>2. Cardinality(B(o)) <= Cardinality(D) /\ (Cardinality(D) = Cardinality(B(o)) => D = B(o))
    BY <2>1, FS_Subset
  <2>3. Cardinality(D) \in Nat
    BY FS_CardinalityType
  <2> HIDE DEF B
  <2> QED BY <2>1, <2>2, <2>3, <1>1
<1>3. ASSUME NEW o \in D, NEW x \in D, o < x
      PROVE  Cardinality(B(o)) < Cardinality(B(x))
  <2>0. o \in Nat /\ x \in Nat /\ \A y \in D : y \in Nat
    OBVIOUS
  <2>1. B(o) \in SUBSET B(x) /\ o \in B(x) /\ o \notin B(o)
    <3>1. \A y \in D : y < o => y < x
      BY <1>3, <2>0
    <3>2. ~ (o < o)
      BY <2>0
    <3> QED BY <1>3, <3>1, <3>2
  <2>2. /\ Cardinality(B(o)) <= Cardinality(B(x))
        /\ Cardinality(B(x)) = Cardinality(B(o)) => B(x) = B(o)
    BY <2>1, <1>1, FS_Subset
  <2> HIDE DEF B
  <2> QED BY <2>1, <2>2, <1>1
<1>4. \A o : Rank(D, o) = Cardinality(B(o))
  BY DEF Rank
<1>5. Cardinality(D) \in Nat
  BY FS_CardinalityType
<1> QED BY <1>1, <1>2, <1>3, <1>4, <1>5

LEMMA OffsetFacts ==
    ASSUME NEW D, D \subseteq Nat, IsFiniteSet(D)
    PROVE  /\ \A i \in 1 .. Cardinality(D) : Offset(D, i) \in D /\ Rank(D, Offset(D, i)) = i - 1
           /\ \A o \in D : Offset(D, Rank(D, o) + 1) = o
<1> DEFINE n == Cardinality(D)
           f == [o \in D |-> Rank(D, o) + 1]
<1>1. /\ n \in Nat
      /\ \A o \in D : Rank(D, o) \in Nat /\ Rank(D, o) < n
      /\ \A o, x \in D : o < x => Rank(D, o) < Rank(D, x)
  BY RankFacts
<1>2. \A o, x \in D : Rank(D, o) = Rank(D, x) => o = x
  BY <1>1
<1> HIDE DEF n
<1>3. f \in Injection(D, 1 .. n)
  <2>1. f \in [D -> 1 .. n]
    BY <1>1
  <2>2. \A a, b \in D : f[a] = f[b] => a = b
    BY <1>1, <1>2
  <2> QED BY <2>1, <2>2 DEF Injection, IsInjective
<1>4. IsFiniteSet(1 .. n) /\ Cardinality(1 .. n) = n
  <2>1. /\ IsFiniteSet(1 .. n) /\ Cardinality(1 .. n) = IF 1 > n THEN 0 ELSE n - 1 + 1
    BY <1>1, FS_Interval
  <2> QED BY <2>1, <1>1
<1>5. f \in Surjection(D, 1 .. n)
  BY <1>3, <1>4, FS_Injection DEF n
<1>6. \A i \in 1 .. n : \E o \in D : Rank(D, o) = i - 1
  <2> TAKE i \in 1 .. n
  <2>1. PICK o \in D : f[o] = i
    BY <1>5 DEF Surjection
  <2> QED BY <2>1, <1>1
<1>7. \A i \in 1 .. n : Offset(D, i) \in D /\ Rank(D, Offset(D, i)) = i - 1
  BY <1>6 DEF Offset
<1>8. ASSUME NEW o \in D
      PROVE  Offset(D, Rank(D, o) + 1) = o
  <2>1. Rank(D, o) + 1 \in 1 .. n /\ (Rank(D, o) + 1) - 1 = Rank(D, o)
    BY <1>1
  <2>2. /\ Offset(D, Rank(D, o) + 1) \in D
        /\ Rank(D, Offset(D, Rank(D, o) + 1)) = Rank(D, o)
    BY <2>1, <1>7
  <2> QED BY <2>2, <1>2
<1> QED BY <1>7, <1>8 DEF n

-----------------------------------------------------------------------------
(* Buffers: messages lie one behind the other up to the length.              *)

Framed(b, n) ==
    /\ b = [o \in DOMAIN b |-> b[o]]
    /\ DOMAIN b \subseteq 0 .. MaxMessage
    /\ n \in 0 .. MaxMessage + 4 /\ n % 4 = 0
    /\ 0 \in DOMAIN b \cup {n}
    /\ \A o \in DOMAIN b : /\ b[o] \in Message /\ o < n
                           /\ o + PaddedSize(b[o]) \in DOMAIN b \cup {n}
    /\ \A o, x \in DOMAIN b : o < x => o + PaddedSize(b[o]) <= x

WithMessage(b, n, m) == [o \in DOMAIN b \cup {n} |-> IF o = n THEN m ELSE b[o]]
Shifted(b, k) == [o \in {x - k : x \in DOMAIN b \ {0}} |-> b[o + k]]

LEMMA Aligned ==
    ASSUME NEW n \in Nat
    PROVE  IntAlign(n) \in Nat /\ IntAlign(n) % 4 = 0 /\ n <= IntAlign(n) /\ IntAlign(n) < n + 4
BY DEF IntAlign

LEMMA AlignedBehind ==
    ASSUME NEW n \in Nat, NEW k \in Nat, n % 4 = 0
    PROVE  IntAlign(n + k) = n + IntAlign(k)
BY DEF IntAlign

LEMMA Padded ==
    ASSUME NEW m \in Message
    PROVE  /\ SizeOf(m.payload) \in Nat /\ SizeOf(m.payload) > 0
           /\ PaddedSize(m) \in Nat /\ PaddedSize(m) % 4 = 0 /\ PaddedSize(m) > 0
           /\ PaddedSize(m) < SizeOf(m.payload) + 8
<1>1. m.payload \in Payloads
  BY DEF Message
<1>2. SizeOf(m.payload) \in Nat /\ SizeOf(m.payload) > 0 /\ SizeOf(m.payload) + 4 \in Nat
  BY <1>1, LoopbackAssumption
<1> DEFINE k == SizeOf(m.payload)
<1> HIDE DEF k
<1>3. /\ IntAlign(k + 4) \in Nat /\ IntAlign(k + 4) % 4 = 0
      /\ k + 4 <= IntAlign(k + 4) /\ IntAlign(k + 4) < k + 4 + 4
  BY <1>2, Aligned DEF k
<1> QED BY <1>2, <1>3 DEF PaddedSize, k

LEMMA FramedEmpty == Framed(Empty, 0)
<1>1. MaxMessage \in Nat
  BY LoopbackAssumption
<1>2. DOMAIN Empty = {} /\ Empty = [o \in DOMAIN Empty |-> Empty[o]]
  BY DEF Empty
<1> QED BY <1>1, <1>2 DEF Framed

\* A message put behind the others leaves the buffer framed.
LEMMA FramedPut ==
    ASSUME NEW b, NEW n, Framed(b, n), NEW m \in Message, n + SizeOf(m.payload) + 3 <= MaxMessage
    PROVE  /\ IntAlign(n + SizeOf(m.payload) + 4) = n + PaddedSize(m)
           /\ Framed(WithMessage(b, n, m), n + PaddedSize(m))
<1> DEFINE c == WithMessage(b, n, m)
           k == PaddedSize(m)
           z == SizeOf(m.payload)
<1>1. /\ MaxMessage \in Nat /\ MaxMessage % 4 = 0 /\ n \in Nat /\ n % 4 = 0
      /\ z \in Nat /\ z > 0 /\ k \in Nat /\ k % 4 = 0 /\ k > 0
      /\ z + 3 + n <= MaxMessage
  BY LoopbackAssumption, Padded DEF Framed
<1>2. IntAlign(n + z + 4) = n + k
  <2>1. z + 4 \in Nat /\ n + z + 4 = n + (z + 4)
    BY <1>1
  <2>2. IntAlign(n + (z + 4)) = n + IntAlign(z + 4)
    BY <2>1, <1>1, AlignedBehind
  <2> QED BY <2>1, <2>2 DEF PaddedSize
<1>3. n + k <= MaxMessage + 4 /\ (n + k) % 4 = 0
  <2>1. k < z + 8
    BY Padded
  <2> HIDE DEF k, z
  <2> QED BY <2>1, <1>1
<1>4. /\ DOMAIN c = DOMAIN b \cup {n}
      /\ c[n] = m /\ \A o \in DOMAIN b : c[o] = b[o]
      /\ c = [o \in DOMAIN c |-> c[o]]
  <2>1. n \notin DOMAIN b
    BY <1>1 DEF Framed
  <2> QED BY <2>1 DEF WithMessage
<1> HIDE DEF c, k, z
<1>5. DOMAIN c \subseteq 0 .. MaxMessage
  BY <1>1, <1>4 DEF Framed
<1>6. ASSUME NEW o \in DOMAIN c
      PROVE  /\ c[o] \in Message /\ o < n + k
             /\ o + PaddedSize(c[o]) \in DOMAIN c \cup {n + k}
  <2>1. CASE o = n
    BY <2>1, <1>1, <1>4 DEF k
  <2>2. CASE o \in DOMAIN b
    BY <2>2, <1>1, <1>4 DEF Framed
  <2> QED BY <2>1, <2>2, <1>4
<1>7. ASSUME NEW o \in DOMAIN c, NEW x \in DOMAIN c, o < x
      PROVE  o + PaddedSize(c[o]) <= x
  <2>1. o \in DOMAIN b
    BY <1>7, <1>1, <1>4 DEF Framed
  <2>2. o + PaddedSize(b[o]) \in DOMAIN b \cup {n} /\ c[o] = b[o]
    BY <2>1, <1>4 DEF Framed
  <2>3. CASE x = n
    BY <2>2, <2>3, <1>1 DEF Framed
  <2>4. CASE x \in DOMAIN b
    BY <2>1, <2>2, <2>4, <1>7 DEF Framed
  <2> QED BY <2>3, <2>4, <1>4
<1>8. 0 \in DOMAIN c \cup {n + k}
  BY <1>4 DEF Framed
<1>9. n + k \in 0 .. MaxMessage + 4
  BY <1>1, <1>3
<1>10. Framed(c, n + k)
  BY <1>3, <1>4, <1>5, <1>6, <1>7, <1>8, <1>9 DEF Framed
<1> QED BY <1>2, <1>10 DEF c, k, z

\* So does the message in front taken out and the rest moved down.
LEMMA FramedGet ==
    ASSUME NEW b, NEW n, Framed(b, n), n # 0
    PROVE  /\ 0 \in DOMAIN b /\ b[0] \in Message
           /\ Framed(Shifted(b, PaddedSize(b[0])), n - PaddedSize(b[0]))
<1> DEFINE k == PaddedSize(b[0])
           c == Shifted(b, k)
<1>1. 0 \in DOMAIN b /\ b[0] \in Message
  BY DEF Framed
<1>2. /\ MaxMessage \in Nat /\ n \in Nat /\ n <= MaxMessage + 4 /\ n % 4 = 0
      /\ k \in Nat /\ k % 4 = 0 /\ k > 0
  BY <1>1, LoopbackAssumption, Padded DEF Framed
<1>3. \A x \in DOMAIN b : x \in Nat /\ (x # 0 => k <= x)
  BY <1>1, <1>2 DEF Framed
<1>4. k \in DOMAIN b \cup {n}
  <2>1. 0 + k \in DOMAIN b \cup {n}
    BY <1>1 DEF Framed
  <2> QED BY <2>1, <1>2
<1>5. k <= n
  BY <1>2, <1>4 DEF Framed
<1>6. /\ DOMAIN c = {x - k : x \in DOMAIN b \ {0}}
      /\ \A o \in DOMAIN c : c[o] = b[o + k]
      /\ c = [o \in DOMAIN c |-> c[o]]
  BY DEF Shifted
<1> HIDE DEF c, k
<1>7. \A o \in DOMAIN c : o \in Nat /\ o + k \in DOMAIN b \ {0}
  BY <1>2, <1>3, <1>6
<1>8. \A x \in DOMAIN b \ {0} : x - k \in DOMAIN c
  BY <1>6
<1>9. DOMAIN c \subseteq 0 .. MaxMessage
  <2> SUFFICES ASSUME NEW o \in DOMAIN c PROVE o \in 0 .. MaxMessage
    OBVIOUS
  <2>1. o \in Nat /\ o + k \in 0 .. MaxMessage
    BY <1>7 DEF Framed
  <2> QED BY <2>1, <1>2
<1>10. ASSUME NEW o \in DOMAIN c
       PROVE  /\ c[o] \in Message /\ o < n - k
              /\ o + PaddedSize(c[o]) \in DOMAIN c \cup {n - k}
  <2>1. o + k \in DOMAIN b \ {0} /\ o \in Nat /\ c[o] = b[o + k]
    BY <1>6, <1>7
  <2>2. /\ b[o + k] \in Message /\ o + k < n
        /\ (o + k) + PaddedSize(b[o + k]) \in DOMAIN b \cup {n}
    BY <2>1 DEF Framed
  <2>3. PaddedSize(b[o + k]) \in Nat
    BY <2>2, Padded
  <2> DEFINE p == PaddedSize(b[o + k])
             q == (o + k) + p
  <2>4. q \in (DOMAIN b \ {0}) \cup {n} /\ q - k = o + p
    BY <2>1, <2>2, <2>3, <1>2
  <2> HIDE DEF q, p
  <2>5. q - k \in DOMAIN c \cup {n - k}
    BY <2>4, <1>8
  <2> QED BY <2>1, <2>2, <2>4, <2>5, <1>2 DEF p
<1>11. ASSUME NEW o \in DOMAIN c, NEW x \in DOMAIN c, o < x
       PROVE  o + PaddedSize(c[o]) <= x
  <2>1. /\ o + k \in DOMAIN b /\ o \in Nat /\ c[o] = b[o + k]
        /\ x + k \in DOMAIN b /\ x \in Nat
    BY <1>6, <1>7
  <2>2. o + k < x + k
    BY <2>1, <1>2, <1>11
  <2>3. (o + k) + PaddedSize(b[o + k]) <= x + k
    BY <2>1, <2>2 DEF Framed
  <2>4. PaddedSize(b[o + k]) \in Nat
    BY <2>1, Padded DEF Framed
  <2> QED BY <2>1, <2>3, <2>4, <1>2
<1>12. 0 \in DOMAIN c \cup {n - k}
  <2>1. CASE k = n
    BY <2>1, <1>2
  <2>2. CASE k \in DOMAIN b
    <3>1. k \in DOMAIN b \ {0} /\ k - k = 0
      BY <2>2, <1>2
    <3> QED BY <3>1, <1>8
  <2> QED BY <2>1, <2>2, <1>4
<1>13. n - k \in 0 .. MaxMessage + 4 /\ (n - k) % 4 = 0
  BY <1>2, <1>5
<1>14. Framed(c, n - k)
  BY <1>6, <1>9, <1>10, <1>11, <1>12, <1>13 DEF Framed
<1> QED BY <1>1, <1>14 DEF c, k

-----------------------------------------------------------------------------
(* The messages of a buffer in order: what the operations do to them.        *)

LEMMA FramedFinite ==
    ASSUME NEW b, NEW n, Framed(b, n)
    PROVE  /\ DOMAIN b \subseteq Nat /\ IsFiniteSet(DOMAIN b) /\ Cardinality(DOMAIN b) \in Nat
           /\ n \in Nat
<1>1. MaxMessage \in Nat /\ DOMAIN b \in SUBSET (0 .. MaxMessage) /\ n \in Nat
  BY LoopbackAssumption DEF Framed
<1>2. IsFiniteSet(0 .. MaxMessage)
  BY <1>1, FS_Interval
<1>3. IsFiniteSet(DOMAIN b)
  BY <1>1, <1>2, FS_Subset
<1> QED BY <1>1, <1>3, FS_CardinalityType

LEMMA QueueFacts ==
    ASSUME NEW b, NEW n, Framed(b, n)
    PROVE  /\ Queue(b) \in Seq(Message) /\ Len(Queue(b)) = Cardinality(DOMAIN b)
           /\ \A i \in 1 .. Cardinality(DOMAIN b) : Queue(b)[i] = b[Offset(DOMAIN b, i)]
<1>1. DOMAIN b \subseteq Nat /\ IsFiniteSet(DOMAIN b) /\ Cardinality(DOMAIN b) \in Nat
  BY FramedFinite
<1> DEFINE c == Cardinality(DOMAIN b)
<1>2. \A i \in 1 .. c : Offset(DOMAIN b, i) \in DOMAIN b
  BY <1>1, OffsetFacts
<1>3. \A o \in DOMAIN b : b[o] \in Message
  BY DEF Framed
<1>4. Queue(b) = [i \in 1 .. c |-> b[Offset(DOMAIN b, i)]]
  BY DEF Queue
<1> HIDE DEF c
<1>5. \A i \in 1 .. c : b[Offset(DOMAIN b, i)] \in Message
  BY <1>2, <1>3
<1>6. Queue(b) \in Seq(Message) /\ Len(Queue(b)) = c
  BY <1>1, <1>4, <1>5 DEF c
<1> QED BY <1>4, <1>6 DEF c

LEMMA QueueEmpty == Queue(Empty) = <<>>
<1>1. DOMAIN Empty = {}
  BY DEF Empty
<1>2. Cardinality(DOMAIN Empty) = 0
  BY <1>1, FS_EmptySet
<1>3. Framed(Empty, 0)
  BY FramedEmpty
<1>4. Queue(Empty) \in Seq(Message) /\ Len(Queue(Empty)) = 0
  BY <1>2, <1>3, QueueFacts
<1> QED BY <1>4

\* A message put into a buffer is the last of its queue.
LEMMA QueuePut ==
    ASSUME NEW b, NEW n, Framed(b, n), NEW m \in Message, n + SizeOf(m.payload) + 3 <= MaxMessage
    PROVE  Queue(WithMessage(b, n, m)) = Append(Queue(b), m)
<1> DEFINE c == WithMessage(b, n, m)
           D == DOMAIN b
           E == DOMAIN c
           k == Cardinality(D)
<1>1. D \subseteq Nat /\ IsFiniteSet(D) /\ k \in Nat /\ n \in Nat
  BY FramedFinite
<1>2. Framed(c, n + PaddedSize(m))
  BY FramedPut
<1>3. E \subseteq Nat /\ IsFiniteSet(E)
  BY <1>2, FramedFinite
<1>4. \A o \in D : o < n /\ o \in Nat
  BY <1>1 DEF Framed
<1>5. E = D \cup {n} /\ n \notin D /\ c[n] = m /\ \A o \in D : c[o] = b[o]
  <2>1. n \notin D
    BY <1>4, <1>1
  <2> QED BY <2>1 DEF WithMessage
<1> HIDE DEF c, D, E
<1>6. Cardinality(E) = k + 1
  BY <1>1, <1>5, FS_AddElement
<1>7. \A o \in D : Rank(E, o) = Rank(D, o)
  <2> TAKE o \in D
  <2>1. {x \in E : x < o} = {x \in D : x < o}
    BY <1>1, <1>4, <1>5
  <2> QED BY <2>1 DEF Rank
<1>8. Rank(E, n) = k
  <2>1. ~ (n < n) /\ \A o \in D : o < n
    BY <1>1, <1>4
  <2>2. {x \in E : x < n} = D
    BY <2>1, <1>5
  <2> QED BY <2>2 DEF Rank
<1> HIDE DEF k
<1>9. \A i \in 1 .. k : Offset(E, i) = Offset(D, i)
  <2> TAKE i \in 1 .. k
  <2>1. Offset(D, i) \in D /\ Rank(D, Offset(D, i)) = i - 1
    BY <1>1, OffsetFacts DEF k
  <2>2. Offset(E, Rank(E, Offset(D, i)) + 1) = Offset(D, i)
    BY <2>1, <1>3, <1>5, OffsetFacts
  <2>3. Rank(E, Offset(D, i)) + 1 = i
    <3>1. Rank(E, Offset(D, i)) = i - 1
      BY <2>1, <1>7
    <3>2. i \in Int /\ (i - 1) + 1 = i
      BY <1>1
    <3> QED BY <3>1, <3>2
  <2> QED BY <2>2, <2>3
<1>10. Offset(E, k + 1) = n
  BY <1>3, <1>5, <1>8, OffsetFacts
<1>11. /\ Queue(c) \in Seq(Message) /\ Len(Queue(c)) = k + 1
       /\ \A i \in 1 .. k + 1 : Queue(c)[i] = c[Offset(E, i)]
  BY <1>2, <1>6, QueueFacts DEF E
<1>12. /\ Queue(b) \in Seq(Message) /\ Len(Queue(b)) = k
       /\ \A i \in 1 .. k : Queue(b)[i] = b[Offset(D, i)]
  BY QueueFacts DEF D, k
<1>13. /\ Append(Queue(b), m) \in Seq(Message) /\ Len(Append(Queue(b), m)) = k + 1
       /\ \A i \in 1 .. k : Append(Queue(b), m)[i] = Queue(b)[i]
       /\ Append(Queue(b), m)[k + 1] = m
  BY <1>12, AppendProperties
<1>14. ASSUME NEW i \in 1 .. k + 1
       PROVE  Queue(c)[i] = Append(Queue(b), m)[i]
  <2>1. CASE i \in 1 .. k
    <3>1. Offset(D, i) \in D
      BY <2>1, <1>1, OffsetFacts DEF k
    <3> QED BY <2>1, <3>1, <1>5, <1>9, <1>11, <1>12, <1>13
  <2>2. CASE i = k + 1
    BY <2>2, <1>5, <1>10, <1>11, <1>13
  <2>3. i \in 1 .. k \/ i = k + 1
    BY <1>1
  <2> QED BY <2>1, <2>2, <2>3
<1>15. Queue(c) = Append(Queue(b), m)
  BY <1>11, <1>13, <1>14, SeqEqual
<1> QED BY <1>15 DEF c

\* The message taken out was the first of the queue.
LEMMA QueueGet ==
    ASSUME NEW b, NEW n, Framed(b, n), n # 0
    PROVE  /\ Queue(b) # <<>> /\ Head(Queue(b)) = b[0]
           /\ Queue(Shifted(b, PaddedSize(b[0]))) = Tail(Queue(b))
<1> DEFINE s == PaddedSize(b[0])
           c == Shifted(b, s)
           D == DOMAIN b
           E == DOMAIN c
           k == Cardinality(D)
<1>1. D \subseteq Nat /\ IsFiniteSet(D) /\ k \in Nat /\ n \in Nat
  BY FramedFinite
<1>2. 0 \in D /\ b[0] \in Message /\ Framed(c, n - s)
  BY FramedGet
<1>3. s \in Nat /\ s > 0
  BY <1>2, Padded
<1>4. E \subseteq Nat /\ IsFiniteSet(E) /\ Cardinality(E) \in Nat
  BY <1>2, FramedFinite
<1>5. /\ E = {x - s : x \in D \ {0}}
      /\ \A o \in E : c[o] = b[o + s]
  BY DEF Shifted
<1> HIDE DEF c, D, E, s
<1>6. /\ \A o \in E : o + s \in D \ {0}
      /\ \A x \in D \ {0} : x - s \in E
  BY <1>1, <1>3, <1>5
<1>7. Cardinality(D \ {0}) = k - 1 /\ IsFiniteSet(D \ {0})
  BY <1>1, <1>2, FS_RemoveElement
<1>8. Cardinality(E) = k - 1
  <2> DEFINE f == [o \in E |-> o + s]
  <2>1. f \in [E -> D \ {0}]
    BY <1>6
  <2>2. \A x, y \in E : f[x] = f[y] => x = y
    BY <1>3, <1>4
  <2>3. \A t \in D \ {0} : \E o \in E : f[o] = t
    <3> TAKE t \in D \ {0}
    <3>1. t - s \in E /\ (t - s) + s = t
      BY <1>1, <1>3, <1>6
    <3> QED BY <3>1
  <2>4. f \in Bijection(E, D \ {0})
    BY <2>1, <2>2, <2>3 DEF Bijection, Injection, Surjection, IsInjective
  <2>5. ExistsBijection(E, D \ {0})
    BY <2>4 DEF ExistsBijection
  <2> QED BY <2>5, <1>4, <1>7, FS_Bijection
<1>9. ASSUME NEW o \in E
      PROVE  Rank(D, o + s) = Rank(E, o) + 1
  <2> DEFINE X == {x \in E : x < o}
             Y == {x \in D : x < o + s}
             f == [x \in X |-> x + s]
  <2>0. o \in Nat /\ \A x \in E : x \in Nat
    BY <1>4
  <2>1. X \in SUBSET E /\ Y \in SUBSET D
    OBVIOUS
  <2>2. IsFiniteSet(X) /\ IsFiniteSet(Y)
    BY <2>1, <1>1, <1>4, FS_Subset
  <2>3. 0 \in Y
    BY <1>2, <1>3, <2>0
  <2>4. f \in [X -> Y \ {0}]
    <3>1. \A x \in X : x + s \in D \ {0} /\ x + s < o + s
      BY <2>0, <1>3, <1>6
    <3> QED BY <3>1
  <2>5. \A x, y \in X : f[x] = f[y] => x = y
    BY <2>0, <1>3
  <2>6. \A t \in Y \ {0} : \E x \in X : f[x] = t
    <3> TAKE t \in Y \ {0}
    <3>1. t \in D \ {0} /\ t \in Nat /\ t < o + s
      BY <1>1
    <3>2. t - s \in E /\ (t - s) + s = t /\ t - s < o
      BY <3>1, <1>3, <1>6, <2>0
    <3> QED BY <3>2
  <2>7. f \in Bijection(X, Y \ {0})
    BY <2>4, <2>5, <2>6 DEF Bijection, Injection, Surjection, IsInjective
  <2>8. ExistsBijection(X, Y \ {0})
    BY <2>7 DEF ExistsBijection
  <2>9. Cardinality(Y \ {0}) = Cardinality(X)
    BY <2>8, <2>2, FS_Bijection
  <2>10. Cardinality(Y \ {0}) = Cardinality(Y) - 1
    BY <2>2, <2>3, FS_RemoveElement
  <2>11. Cardinality(X) \in Nat /\ Cardinality(Y) \in Nat
    BY <2>2, FS_CardinalityType
  <2>12. Rank(E, o) = Cardinality(X) /\ Rank(D, o + s) = Cardinality(Y)
    BY DEF Rank
  <2> HIDE DEF X, Y
  <2> QED BY <2>9, <2>10, <2>11, <2>12
<1>10. Rank(D, 0) = 0
  <2>1. \A x \in D : ~ (x < 0)
    BY <1>1
  <2>2. {x \in D : x < 0} = {}
    BY <2>1
  <2> QED BY <2>2, FS_EmptySet DEF Rank
<1>11. Offset(D, 1) = 0
  <2>1. Offset(D, Rank(D, 0) + 1) = 0
    BY <1>1, <1>2, OffsetFacts
  <2> QED BY <2>1, <1>10
<1>12. k > 0
  BY <1>1, <1>2, FS_EmptySet
<1>13. /\ Queue(b) \in Seq(Message) /\ Len(Queue(b)) = k
       /\ \A i \in 1 .. k : Queue(b)[i] = b[Offset(D, i)]
  BY QueueFacts DEF D
<1>14. /\ Queue(c) \in Seq(Message) /\ Len(Queue(c)) = k - 1
       /\ \A i \in 1 .. k - 1 : Queue(c)[i] = c[Offset(E, i)]
  BY <1>2, <1>8, QueueFacts DEF E
<1> HIDE DEF k
<1>15. Queue(b) # <<>> /\ Head(Queue(b)) = b[0]
  BY <1>1, <1>11, <1>12, <1>13
<1>16. /\ Tail(Queue(b)) \in Seq(Message) /\ Len(Tail(Queue(b))) = k - 1
       /\ \A i \in 1 .. k - 1 : Tail(Queue(b))[i] = Queue(b)[i + 1]
  BY <1>13, <1>15, HeadTailProperties
<1>17. ASSUME NEW i \in 1 .. k - 1
       PROVE  Queue(c)[i] = Tail(Queue(b))[i]
  <2>1. Offset(E, i) \in E /\ Rank(E, Offset(E, i)) = i - 1
    BY <1>4, <1>8, OffsetFacts
  <2>2. Offset(E, i) + s \in D
    BY <2>1, <1>6
  <2>3. Rank(D, Offset(E, i) + s) = (i - 1) + 1
    BY <2>1, <1>9
  <2>4. Offset(D, ((i - 1) + 1) + 1) = Offset(E, i) + s
    BY <2>2, <2>3, <1>1, OffsetFacts
  <2>5. ((i - 1) + 1) + 1 = i + 1 /\ i + 1 \in 1 .. k
    BY <1>1
  <2>6. Queue(b)[i + 1] = b[Offset(E, i) + s]
    BY <2>4, <2>5, <1>13
  <2>7. c[Offset(E, i)] = b[Offset(E, i) + s]
    BY <2>1, <1>5
  <2> QED BY <2>6, <2>7, <1>14, <1>16
<1>18. Queue(c) = Tail(Queue(b))
  BY <1>14, <1>16, <1>17, SeqEqual
<1> QED BY <1>15, <1>18 DEF c, s

-----------------------------------------------------------------------------
(* The inductive invariant.                                                  *)

Shape ==
    /\ free \in Seq(Sockets) /\ active \in Seq(Sockets)
    /\ driverdata \in [Sockets -> Sockets \cup {None}]
    /\ canSend \in [Sockets -> BOOLEAN]
    /\ len \in [Sockets -> 0 .. MaxMessage + 4]
    /\ buf = [s \in Sockets |-> buf[s]]
    /\ pending \in BOOLEAN
    /\ client \in Sockets \cup {None} /\ server \in Sockets \cup {None}
    /\ slots \in [1 .. MaxClients -> Sockets \cup {None}]

\* Every socket is on one list, once.
Lists ==
    /\ Distinct(free) /\ Distinct(active)
    /\ ToSet(free) \cap ToSet(active) = {}
    /\ ToSet(free) \cup ToSet(active) = Sockets
    /\ Len(free) + Len(active) = Cardinality(Sockets)

\* The driver's two ends are all that is in use, and each other's if both exist;
\* the client holds the one and the only slot taken, if one is, the other.
NoSlotTaken == \A i \in 1 .. MaxClients : slots[i] = None

Ends ==
    /\ ToSet(active) = {client, server} \ {None}
    /\ client # None => client # server
    /\ client # None => driverdata[client] = server
    /\ server # None => driverdata[server] = client
    /\ netcon = client
    /\ \A i \in 1 .. MaxClients : slots[i] # None => slots[i] = server
    /\ \A i, j \in 1 .. MaxClients : slots[i] # None /\ slots[j] # None => i = j
    /\ conns = IF NoSlotTaken THEN 0 ELSE 1
    /\ pending => NoSlotTaken \/ MaxClients = 1

Buffers == \A s \in Sockets : Framed(buf[s], len[s])

Inv == Shape /\ Lists /\ Ends /\ Buffers

\* How the client uses the driver: CL_EstablishConnection starts with
\* CL_Disconnect, which shuts the server of this process down, so that no slot
\* is taken when a connection is made.  With one slot it does not matter.
Alone == NoSlotTaken \/ MaxClients = 1

ConnectsAlone == Connect \/ ConnectNoClient => Alone

Orderly == [][ConnectsAlone]_vars

LEMMA HeldEnds ==
    ASSUME Inv, NEW s, Held(s)
    PROVE  s \in Sockets /\ s # None /\ (s = client \/ s = server)
<1>1. None \notin Sockets
  BY LoopbackAssumption
<1> QED BY <1>1 DEF Inv, Ends, Held, Shape, Lists

\* SetToSeq lists every socket once.
LEMMA InitLists ==
    /\ SetToSeq(Sockets) \in Seq(Sockets) /\ Distinct(SetToSeq(Sockets))
    /\ ToSet(SetToSeq(Sockets)) = Sockets
    /\ Len(SetToSeq(Sockets)) = Cardinality(Sockets)
<1> DEFINE n == Cardinality(Sockets)
           q == SetToSeq(Sockets)
<1>1. IsFiniteSet(Sockets) /\ n \in Nat /\ ExistsBijection(1 .. n, Sockets)
  BY LoopbackAssumption, FS_CardinalityType
<1>2. \E f \in [1 .. n -> Sockets] : IsInjective(f)
  BY <1>1 DEF ExistsBijection, Bijection, Injection
<1> HIDE DEF n
<1>3. q \in [1 .. n -> Sockets] /\ IsInjective(q)
  BY <1>2 DEF SetToSeq, n
<1>4. IsFiniteSet(1 .. n) /\ Cardinality(1 .. n) = n
  <2>1. /\ IsFiniteSet(1 .. n) /\ Cardinality(1 .. n) = IF 1 > n THEN 0 ELSE n - 1 + 1
    BY <1>1, FS_Interval
  <2> QED BY <2>1, <1>1
<1>5. q \in Surjection(1 .. n, Sockets)
  <2>1. q \in Injection(1 .. n, Sockets)
    BY <1>3 DEF Injection
  <2> QED BY <2>1, <1>1, <1>4, FS_Injection DEF n
<1> HIDE DEF q
<1>6. q \in Seq(Sockets) /\ Len(q) = n /\ DOMAIN q = 1 .. n
  BY <1>1, <1>3
<1>7. Distinct(q)
  BY <1>3, <1>6 DEF IsInjective, Distinct
<1>8. ToSet(q) = Sockets
  <2>1. \A s \in Sockets : \E i \in 1 .. n : q[i] = s
    BY <1>5 DEF Surjection
  <2>2. \A s \in Sockets : s \in ToSet(q)
    BY <2>1, <1>6, InSet
  <2> QED BY <2>2, <1>6, InSet
<1> QED BY <1>6, <1>7, <1>8 DEF n, q

LEMMA InitInv == Init => Inv
<1> SUFFICES ASSUME Init PROVE Inv
  OBVIOUS
<1>1. /\ free \in Seq(Sockets) /\ Distinct(free) /\ ToSet(free) = Sockets
      /\ Len(free) = Cardinality(Sockets) /\ Len(free) \in Nat
  BY InitLists DEF Init
<1>2. active = <<>> /\ active \in Seq(Sockets) /\ ToSet(active) = {} /\ Distinct(active) /\ Len(active) = 0
  BY DEF Init, ToSet, Distinct
<1>3. MaxMessage \in Nat /\ 0 \in 0 .. MaxMessage + 4
  BY LoopbackAssumption
<1>4. Shape
  BY <1>1, <1>2, <1>3 DEF Init, Shape
<1>5. Lists
  BY <1>1, <1>2 DEF Lists
<1>6. Ends
  BY <1>2 DEF Init, Ends, NoSlotTaken
<1>7. Buffers
  BY FramedEmpty DEF Init, Buffers
<1> QED BY <1>4, <1>5, <1>6, <1>7 DEF Inv

-----------------------------------------------------------------------------
(* Each action keeps it.                                                     *)

\* Reset empties the buffers of S and leaves the others alone.
LEMMA ResetFacts ==
    ASSUME Inv, NEW S, Reset(S)
    PROVE  /\ len' \in [Sockets -> 0 .. MaxMessage + 4] /\ buf' = [s \in Sockets |-> buf'[s]]
           /\ canSend' \in [Sockets -> BOOLEAN]
           /\ \A s \in Sockets : Framed(buf'[s], len'[s])
           /\ \A s \in Sockets : buf'[s] = IF s \in S THEN Empty ELSE buf[s]
<1>1. MaxMessage \in Nat /\ 0 \in 0 .. MaxMessage + 4
  BY LoopbackAssumption
<1>2. len \in [Sockets -> 0 .. MaxMessage + 4] /\ canSend \in [Sockets -> BOOLEAN]
  BY DEF Inv, Shape
<1>3. \A s \in Sockets : Framed(buf[s], len[s])
  BY DEF Inv, Buffers
<1>4. /\ buf' = [s \in Sockets |-> IF s \in S THEN Empty ELSE buf[s]]
      /\ len' = [s \in Sockets |-> IF s \in S THEN 0 ELSE len[s]]
      /\ canSend' = [s \in Sockets |-> s \in S \/ canSend[s]]
  BY DEF Reset, Uncork
<1>5. len' \in [Sockets -> 0 .. MaxMessage + 4]
  BY <1>1, <1>2, <1>4
<1>6. canSend' \in [Sockets -> BOOLEAN]
  BY <1>2, <1>4
<1>7. \A s \in Sockets : buf'[s] = IF s \in S THEN Empty ELSE buf[s]
  BY <1>4
<1>8. \A s \in Sockets : Framed(buf'[s], len'[s])
  <2> TAKE s \in Sockets
  <2>1. CASE s \in S
    BY <2>1, <1>4, FramedEmpty
  <2>2. CASE s \notin S
    BY <2>2, <1>3, <1>4
  <2> QED BY <2>1, <2>2
<1>9. buf' = [s \in Sockets |-> buf'[s]]
  BY <1>4
<1> QED BY <1>5, <1>6, <1>7, <1>8, <1>9

\* What is left of a list when its first n entries are taken.
LEMMA Taken ==
    ASSUME NEW S, NEW q \in Seq(S), Distinct(q), NEW n \in 0 .. Len(q)
    PROVE  /\ SubSeq(q, n + 1, Len(q)) \in Seq(S)
           /\ Len(SubSeq(q, n + 1, Len(q))) = Len(q) - n
           /\ Distinct(SubSeq(q, n + 1, Len(q)))
           /\ \A e \in ToSet(SubSeq(q, n + 1, Len(q))) : e \in ToSet(q) /\ \A j \in 1 .. n : q[j] # e
           /\ \A e \in ToSet(q) : e \in ToSet(SubSeq(q, n + 1, Len(q))) \/ \E j \in 1 .. n : q[j] = e
<1> DEFINE r == SubSeq(q, n + 1, Len(q))
<1>1. Len(q) \in Nat /\ n \in Nat /\ n <= Len(q)
  OBVIOUS
<1>2. /\ r \in Seq(S) /\ Len(r) = Len(q) - n
      /\ \A i \in 1 .. Len(q) - n : r[i] = q[n + i]
  <2>1. \A i \in n + 1 .. Len(q) : q[i] \in S
    BY <1>1
  <2>2. /\ r \in Seq(S)
        /\ Len(r) = IF n + 1 <= Len(q) THEN Len(q) - (n + 1) + 1 ELSE 0
        /\ \A i \in 1 .. Len(q) - (n + 1) + 1 : r[i] = q[(n + 1) + i - 1]
    BY <1>1, <2>1, SubSeqProperties
  <2> HIDE DEF r
  <2> QED BY <1>1, <2>2
<1> HIDE DEF r
<1>3. Distinct(r)
  <2> SUFFICES ASSUME NEW i \in 1 .. Len(r), NEW j \in 1 .. Len(r), r[i] = r[j] PROVE i = j
    BY DEF Distinct
  <2>1. n + i \in 1 .. Len(q) /\ n + j \in 1 .. Len(q) /\ q[n + i] = q[n + j]
    BY <1>1, <1>2
  <2>2. n + i = n + j
    BY <2>1 DEF Distinct
  <2> QED BY <2>2, <1>1, <1>2
<1>4. ASSUME NEW e \in ToSet(r)
      PROVE  e \in ToSet(q) /\ \A j \in 1 .. n : q[j] # e
  <2>1. PICK i \in 1 .. Len(r) : r[i] = e
    BY <1>2, InSet
  <2>2. n + i \in 1 .. Len(q) /\ q[n + i] = e /\ \A j \in 1 .. n : j \in 1 .. Len(q) /\ j # n + i
    BY <2>1, <1>1, <1>2
  <2> QED BY <2>2, InSet DEF Distinct
<1>5. ASSUME NEW e \in ToSet(q)
      PROVE  e \in ToSet(r) \/ \E j \in 1 .. n : q[j] = e
  <2>1. PICK i \in 1 .. Len(q) : q[i] = e
    BY InSet
  <2>2. CASE i <= n
    BY <2>1, <2>2, <1>1
  <2>3. CASE i > n
    <3>1. i - n \in 1 .. Len(r) /\ n + (i - n) = i
      BY <2>3, <1>1, <1>2
    <3>2. r[i - n] = e
      BY <3>1, <2>1, <1>2
    <3> QED BY <3>1, <3>2, <1>2, InSet
  <2> QED BY <2>2, <2>3, <1>1
<1> QED BY <1>2, <1>3, <1>4, <1>5 DEF r

LEMMA ConnectFacts ==
    ASSUME Inv, Connect
    PROVE  \E c, s \in Sockets :
              /\ client = None /\ c # s
              /\ server # None => s = server
              /\ ToSet(active') = ToSet(active) \cup {c, s}
              /\ free' \in Seq(Sockets) /\ active' \in Seq(Sockets) /\ Lists'
              /\ Reset({c, s})
              /\ driverdata' = [driverdata EXCEPT ![c] = s, ![s] = c]
              /\ client' = c /\ server' = s /\ netcon' = c /\ pending' = TRUE
              /\ UNCHANGED <<slots, conns>>
<1> USE DEF Inv
<1>1. client = None /\ netcon = None
  BY DEF Connect, Ends
<1>2. /\ free \in Seq(Sockets) /\ active \in Seq(Sockets)
      /\ Distinct(free) /\ Distinct(active)
      /\ ToSet(free) \cap ToSet(active) = {} /\ ToSet(free) \cup ToSet(active) = Sockets
      /\ Len(free) + Len(active) = Cardinality(Sockets)
      /\ Len(free) \in Nat /\ Len(active) \in Nat
  BY DEF Shape, Lists
<1>3. None \notin Sockets
  BY LoopbackAssumption
<1>4. \A i \in 1 .. Len(free) : free[i] \in ToSet(free) /\ free[i] \in Sockets
  BY <1>2, InSet
<1>5. CASE server # None
  <2> DEFINE c == free[1]
             s == server
             r == SubSeq(free, 2, Len(free))
             b == Reverse(SubSeq(free, 1, 1))
  <2>1. /\ Len(free) >= 1 /\ free' = r /\ active' = b \o active /\ Reset({c, s})
        /\ driverdata' = [driverdata EXCEPT ![c] = s, ![s] = c]
        /\ client' = c /\ server' = s /\ netcon' = c /\ pending' = TRUE
        /\ UNCHANGED <<slots, conns>>
    BY <1>1, <1>5 DEF Connect, Available, TakeFromPool
  <2>2. s \in ToSet(active) /\ s \in Sockets
    BY <1>2, <1>5 DEF Ends
  <2>3. c \in Sockets /\ c \in ToSet(free) /\ c \notin ToSet(active) /\ c # s
    <3>1. 1 \in 1 .. Len(free)
      BY <1>2, <2>1
    <3> QED BY <3>1, <1>2, <1>4, <2>2
  <2>4. b = <<c>>
    BY <1>2, <2>1 DEF Reverse
  <2>5. /\ active' \in Seq(Sockets) /\ Len(active') = Len(active) + 1
        /\ Distinct(active') /\ ToSet(active') = ToSet(active) \cup {c}
    <3> HIDE DEF c, b
    <3>1. /\ <<c>> \o active \in Seq(Sockets) /\ Len(<<c>> \o active) = Len(active) + 1
          /\ Distinct(<<c>> \o active) /\ ToSet(<<c>> \o active) = ToSet(active) \cup {c}
      BY <1>2, <2>3, InFront
    <3>2. active' = <<c>> \o active
      BY <2>1, <2>4
    <3> QED BY <3>1, <3>2
  <2>6. /\ r \in Seq(Sockets) /\ Len(r) = Len(free) - 1 /\ Distinct(r)
        /\ \A e \in ToSet(r) : e \in ToSet(free) /\ c # e
        /\ \A e \in ToSet(free) : e \in ToSet(r) \/ e = c
    <3>1. 1 \in 0 .. Len(free) /\ 1 + 1 = 2 /\ 1 \in 1 .. 1 /\ \A j \in 1 .. 1 : j = 1
      BY <1>2, <2>1
    <3>2. /\ SubSeq(free, 1 + 1, Len(free)) \in Seq(Sockets)
          /\ Len(SubSeq(free, 1 + 1, Len(free))) = Len(free) - 1
          /\ Distinct(SubSeq(free, 1 + 1, Len(free)))
          /\ \A e \in ToSet(SubSeq(free, 1 + 1, Len(free))) :
                 e \in ToSet(free) /\ \A j \in 1 .. 1 : free[j] # e
          /\ \A e \in ToSet(free) :
                 e \in ToSet(SubSeq(free, 1 + 1, Len(free))) \/ \E j \in 1 .. 1 : free[j] = e
      BY <3>1, <1>2, Taken
    <3> QED BY <3>1, <3>2
  <2> HIDE DEF c, s, r, b
  <2>7. Lists'
    <3>1. Distinct(free') /\ Distinct(active')
      BY <2>1, <2>5, <2>6
    <3>2. ToSet(free') \cap ToSet(active') = {}
      BY <2>1, <2>5, <2>6, <1>2
    <3>3. ToSet(free') \cup ToSet(active') = Sockets
      BY <2>1, <2>3, <2>5, <2>6, <1>2
    <3>4. Len(free') + Len(active') = Cardinality(Sockets)
      BY <2>1, <2>5, <2>6, <1>2
    <3> QED BY <3>1, <3>2, <3>3, <3>4 DEF Lists
  <2>8. ToSet(active') = ToSet(active) \cup {c, s}
    BY <2>2, <2>5
  <2> QED BY <1>1, <2>1, <2>2, <2>3, <2>5, <2>6, <2>7, <2>8 DEF s
<1>6. CASE server = None
  <2> DEFINE c == free[1]
             s == free[2]
             r == SubSeq(free, 3, Len(free))
             b == Reverse(SubSeq(free, 1, 2))
             a == <<c>> \o active
  <2>1. /\ Len(free) >= 2 /\ free' = r /\ active' = b \o active /\ Reset({c, s})
        /\ driverdata' = [driverdata EXCEPT ![c] = s, ![s] = c]
        /\ client' = c /\ server' = s /\ netcon' = c /\ pending' = TRUE
        /\ UNCHANGED <<slots, conns>>
    BY <1>1, <1>6 DEF Connect, Available, TakeFromPool
  <2>2. 1 \in 1 .. Len(free) /\ 2 \in 1 .. Len(free)
    BY <1>2, <2>1
  <2>3. /\ c \in Sockets /\ c \in ToSet(free) /\ c \notin ToSet(active)
        /\ s \in Sockets /\ s \in ToSet(free) /\ s \notin ToSet(active) /\ c # s
    BY <2>2, <1>2, <1>4 DEF Distinct
  <2>4. b = <<s, c>>
    BY <1>2, <2>1 DEF Reverse
  <2>5. /\ a \in Seq(Sockets) /\ Len(a) = Len(active) + 1
        /\ Distinct(a) /\ ToSet(a) = ToSet(active) \cup {c}
    BY <1>2, <2>3, InFront
  <2>6. b \o active = <<s>> \o a
    <3>1. /\ <<s>> \in Seq(Sockets) /\ <<c>> \in Seq(Sockets)
          /\ <<s, c>> = <<s>> \o <<c>>
      BY <2>3
    <3>2. (<<s>> \o <<c>>) \o active = <<s>> \o (<<c>> \o active)
      BY <3>1, <1>2, ConcatAssociative
    <3> QED BY <3>1, <3>2, <2>4
  <2>7. /\ active' \in Seq(Sockets) /\ Len(active') = Len(active) + 2
        /\ Distinct(active') /\ ToSet(active') = ToSet(active) \cup {c, s}
    <3> HIDE DEF a, s, c
    <3>1. s \notin ToSet(a)
      BY <2>3, <2>5
    <3>2. /\ <<s>> \o a \in Seq(Sockets) /\ Len(<<s>> \o a) = Len(a) + 1
          /\ Distinct(<<s>> \o a) /\ ToSet(<<s>> \o a) = ToSet(a) \cup {s}
      BY <3>1, <2>3, <2>5, InFront
    <3>3. active' = <<s>> \o a
      BY <2>1, <2>6
    <3>4. Len(active') = Len(active) + 2
      BY <3>2, <3>3, <2>5, <1>2
    <3>5. ToSet(active') = ToSet(active) \cup {c, s}
      BY <3>2, <3>3, <2>5
    <3> QED BY <3>2, <3>3, <3>4, <3>5
  <2>8. /\ r \in Seq(Sockets) /\ Len(r) = Len(free) - 2 /\ Distinct(r)
        /\ \A e \in ToSet(r) : e \in ToSet(free) /\ c # e /\ s # e
        /\ \A e \in ToSet(free) : e \in ToSet(r) \/ e = c \/ e = s
    <3>1. 2 \in 0 .. Len(free) /\ 2 + 1 = 3 /\ 1 \in 1 .. 2 /\ 2 \in 1 .. 2 /\ \A j \in 1 .. 2 : j = 1 \/ j = 2
      BY <1>2, <2>1
    <3>2. /\ SubSeq(free, 2 + 1, Len(free)) \in Seq(Sockets)
          /\ Len(SubSeq(free, 2 + 1, Len(free))) = Len(free) - 2
          /\ Distinct(SubSeq(free, 2 + 1, Len(free)))
          /\ \A e \in ToSet(SubSeq(free, 2 + 1, Len(free))) :
                 e \in ToSet(free) /\ \A j \in 1 .. 2 : free[j] # e
          /\ \A e \in ToSet(free) :
                 e \in ToSet(SubSeq(free, 2 + 1, Len(free))) \/ \E j \in 1 .. 2 : free[j] = e
      BY <3>1, <1>2, Taken
    <3> QED BY <3>1, <3>2
  <2> HIDE DEF c, s, r, b, a
  <2>9. Lists'
    <3>1. Distinct(free') /\ Distinct(active')
      BY <2>1, <2>7, <2>8
    <3>2. ToSet(free') \cap ToSet(active') = {}
      BY <2>1, <2>7, <2>8, <1>2
    <3>3. ToSet(free') \cup ToSet(active') = Sockets
      BY <2>1, <2>3, <2>7, <2>8, <1>2
    <3>4. Len(free') + Len(active') = Cardinality(Sockets)
      BY <2>1, <2>7, <2>8, <1>2
    <3> QED BY <3>1, <3>2, <3>3, <3>4 DEF Lists
  <2> QED BY <1>1, <1>6, <2>1, <2>3, <2>7, <2>8, <2>9
<1> QED BY <1>5, <1>6

LEMMA ConnectInv == ASSUME Inv, Connect, Alone PROVE Inv'
<1>1. PICK c \in Sockets, s \in Sockets :
              /\ client = None /\ c # s
              /\ server # None => s = server
              /\ ToSet(active') = ToSet(active) \cup {c, s}
              /\ free' \in Seq(Sockets) /\ active' \in Seq(Sockets) /\ Lists'
              /\ Reset({c, s})
              /\ driverdata' = [driverdata EXCEPT ![c] = s, ![s] = c]
              /\ client' = c /\ server' = s /\ netcon' = c /\ pending' = TRUE
              /\ UNCHANGED <<slots, conns>>
  BY ConnectFacts
<1>2. /\ len' \in [Sockets -> 0 .. MaxMessage + 4] /\ buf' = [x \in Sockets |-> buf'[x]]
      /\ canSend' \in [Sockets -> BOOLEAN]
      /\ \A x \in Sockets : Framed(buf'[x], len'[x])
  BY <1>1, ResetFacts
<1>3. driverdata \in [Sockets -> Sockets \cup {None}] /\ None \notin Sockets
  BY LoopbackAssumption DEF Inv, Shape
<1>4. driverdata' \in [Sockets -> Sockets \cup {None}] /\ driverdata'[c] = s /\ driverdata'[s] = c
  BY <1>1, <1>3
<1>5. Shape'
  BY <1>1, <1>2, <1>4 DEF Inv, Shape
<1>6. Ends'
  <2>1. ToSet(active') = {c, s} \ {None}
    BY <1>1, <1>3 DEF Inv, Ends
  <2>2. \A i \in 1 .. MaxClients : slots[i] # None => slots[i] = s
    BY <1>1 DEF Inv, Ends
  <2>3. NoSlotTaken' = NoSlotTaken /\ (NoSlotTaken \/ MaxClients = 1)
    BY <1>1 DEF NoSlotTaken, Alone
  <2> QED BY <1>1, <1>3, <1>4, <2>1, <2>2, <2>3 DEF Inv, Ends
<1>7. Buffers'
  BY <1>2 DEF Buffers
<1> QED BY <1>1, <1>5, <1>6, <1>7 DEF Inv

LEMMA ConnectNoClientInv == ASSUME Inv, ConnectNoClient, Alone PROVE Inv'
<1> USE DEF ConnectNoClient, poolVars, sockVars, userVars
<1>1. Shape'
  BY DEF Inv, Shape
<1>2. Lists'
  BY DEF Inv, Lists
<1>3. Ends'
  BY DEF Inv, Ends, Alone, NoSlotTaken
<1>4. Buffers'
  BY DEF Inv, Buffers
<1> QED BY <1>1, <1>2, <1>3, <1>4 DEF Inv

LEMMA LeastExists ==
    ASSUME NEW S, S \subseteq Nat, S # {}
    PROVE  \E m \in S : \A k \in S : m <= k
<1>1. PICK m \in S : \A k \in S : ~ (<<k, m>> \in OpToRel(<, Nat))
  BY NatLessThanWellFounded, WFMin
<1>2. \A k \in S : ~ (k < m)
  BY <1>1 DEF OpToRel
<1> QED BY <1>2

LEMMA CheckNewConnectionsInv == ASSUME Inv, CheckNewConnections PROVE Inv'
<1> DEFINE k == Min(FreeSlots)
<1>1. /\ client # None /\ server # None /\ FreeSlots # {} /\ pending
      /\ pending' = FALSE /\ Reset({client, server})
      /\ slots' = [slots EXCEPT ![k] = server] /\ conns' = conns + 1
      /\ UNCHANGED <<poolVars, driverdata, client, server, netcon>>
  BY DEF CheckNewConnections
<1>2. k \in 1 .. MaxClients /\ NoSlotTaken
  <2>1. FreeSlots \subseteq Nat
    BY DEF FreeSlots
  <2>2. PICK n \in FreeSlots : \A i \in FreeSlots : n <= i
    BY <1>1, <2>1, LeastExists
  <2>3. k \in FreeSlots
    BY <2>2 DEF Min
  <2>4. k \in 1 .. MaxClients /\ slots[k] = None
    BY <2>3 DEF FreeSlots
  <2>5. NoSlotTaken
    BY <1>1, <2>4 DEF Inv, Ends, NoSlotTaken
  <2> QED BY <2>4, <2>5
<1> HIDE DEF k
<1>3. /\ len' \in [Sockets -> 0 .. MaxMessage + 4] /\ buf' = [x \in Sockets |-> buf'[x]]
      /\ canSend' \in [Sockets -> BOOLEAN]
      /\ \A x \in Sockets : Framed(buf'[x], len'[x])
  BY <1>1, ResetFacts
<1>4. /\ slots' \in [1 .. MaxClients -> Sockets \cup {None}] /\ slots'[k] = server
      /\ \A i \in 1 .. MaxClients : i # k => slots'[i] = None
  BY <1>1, <1>2 DEF Inv, Shape, NoSlotTaken
<1>5. Shape'
  BY <1>1, <1>3, <1>4 DEF Inv, Shape, poolVars
<1>6. Lists'
  BY <1>1 DEF Inv, Lists, poolVars
<1>7. Ends'
  <2>1. ~ NoSlotTaken'
    BY <1>1, <1>2, <1>4 DEF NoSlotTaken
  <2>2. conns' = 1
    BY <1>1, <1>2 DEF Inv, Ends
  <2> QED BY <1>1, <1>2, <1>4, <2>1, <2>2 DEF Inv, Ends, poolVars
<1>8. Buffers'
  BY <1>3 DEF Buffers
<1> QED BY <1>5, <1>6, <1>7, <1>8 DEF Inv

\* A message of either kind finds the receiving end's buffer framed, with room.
LEMMA PutFacts ==
    ASSUME Inv, NEW s, Held(s), driverdata[s] # None, NEW m \in Message,
           len[driverdata[s]] + SizeOf(m.payload) + 3 <= MaxMessage, Put(s, m)
    PROVE  /\ s \in Sockets /\ driverdata[s] \in Sockets
           /\ len' \in [Sockets -> 0 .. MaxMessage + 4] /\ buf' = [x \in Sockets |-> buf'[x]]
           /\ \A x \in Sockets : Framed(buf'[x], len'[x])
           /\ buf' = [buf EXCEPT ![driverdata[s]] =
                        WithMessage(buf[driverdata[s]], len[driverdata[s]], m)]
<1> DEFINE to == driverdata[s]
           b == buf[to]
           n == len[to]
<1>1. s \in Sockets /\ to \in Sockets
  BY HeldEnds DEF Inv, Shape
<1>2. Framed(b, n)
  BY <1>1 DEF Inv, Buffers
<1>3. /\ buf' = [buf EXCEPT ![to] = WithMessage(b, n, m)]
      /\ len' = [len EXCEPT ![to] = IntAlign(n + SizeOf(m.payload) + 4)]
  BY DEF Put, WithMessage
<1>4. /\ IntAlign(n + SizeOf(m.payload) + 4) = n + PaddedSize(m)
      /\ Framed(WithMessage(b, n, m), n + PaddedSize(m))
  <2> HIDE DEF b
  <2> QED BY <1>2, FramedPut
<1>5. n + PaddedSize(m) \in 0 .. MaxMessage + 4
  BY <1>4 DEF Framed
<1>6. len \in [Sockets -> 0 .. MaxMessage + 4] /\ buf = [x \in Sockets |-> buf[x]]
  BY DEF Inv, Shape
<1> HIDE DEF to, b, n
<1>7. len' \in [Sockets -> 0 .. MaxMessage + 4]
  BY <1>1, <1>3, <1>4, <1>5, <1>6
<1>8. DOMAIN buf = Sockets
  BY <1>6
<1>9. buf' = [x \in Sockets |-> buf'[x]]
  BY <1>3, <1>8
<1>10. /\ buf'[to] = WithMessage(b, n, m) /\ len'[to] = n + PaddedSize(m)
       /\ \A x \in Sockets : x # to => buf'[x] = buf[x] /\ len'[x] = len[x]
  BY <1>1, <1>3, <1>4, <1>6, <1>8
<1>11. ASSUME NEW x \in Sockets
       PROVE  Framed(buf'[x], len'[x])
  <2>1. CASE x = to
    BY <2>1, <1>4, <1>10
  <2>2. CASE x # to
    BY <2>2, <1>10 DEF Inv, Buffers
  <2> QED BY <2>1, <2>2
<1> QED BY <1>1, <1>3, <1>7, <1>9, <1>11 DEF to, b, n

\* Either kind of message is put into the other end's buffer, with room for it.
LEMMA SendsPut ==
    ASSUME Inv, NEW s, NEW p \in Payloads, SendMessage(s, p) \/ SendUnreliableMessage(s, p)
    PROVE  \E m \in Message :
             /\ Held(s) /\ driverdata[s] # None
             /\ len[driverdata[s]] + SizeOf(m.payload) + 3 <= MaxMessage
             /\ Put(s, m)
             /\ canSend' \in {canSend, [canSend EXCEPT ![s] = FALSE]}
             /\ canSend' = canSend \/ m.reliable
             /\ UNCHANGED <<poolVars, driverdata, loopVars, userVars>>
<1>1. CASE SendMessage(s, p)
  <2> DEFINE m == [reliable |-> TRUE, payload |-> p]
  <2>1. m \in Message /\ m.payload = p /\ m.reliable
    BY DEF Message
  <2>2. driverdata[s] \in Sockets
    BY <1>1, HeldEnds DEF SendMessage, Inv, Shape
  <2>3. len[driverdata[s]] \in Int /\ SizeOf(p) \in Int /\ MaxMessage \in Int
    BY <2>2, LoopbackAssumption DEF Inv, Shape
  <2>4. len[driverdata[s]] + SizeOf(p) + 3 <= MaxMessage
    BY <1>1, <2>3 DEF SendMessage, RoomFor
  <2> QED BY <1>1, <2>1, <2>4 DEF SendMessage
<1>2. CASE SendUnreliableMessage(s, p)
  <2> DEFINE m == [reliable |-> FALSE, payload |-> p]
  <2>1. m \in Message /\ m.payload = p
    BY DEF Message
  <2>2. driverdata[s] \in Sockets
    BY <1>2, HeldEnds DEF SendUnreliableMessage, Inv, Shape
  <2>3. len[driverdata[s]] \in Int /\ SizeOf(p) \in Int /\ MaxMessage \in Int
    BY <2>2, LoopbackAssumption DEF Inv, Shape
  <2>4. len[driverdata[s]] + SizeOf(p) + 3 <= MaxMessage
    BY <1>2, <2>3 DEF SendUnreliableMessage, RoomFor
  <2> QED BY <1>2, <2>1, <2>4 DEF SendUnreliableMessage
<1> QED BY <1>1, <1>2

LEMMA SendMessageInv ==
    ASSUME Inv, NEW s, NEW p \in Payloads, SendMessage(s, p) \/ SendUnreliableMessage(s, p)
    PROVE  Inv'
<1>1. PICK m \in Message :
         /\ Held(s) /\ driverdata[s] # None
         /\ len[driverdata[s]] + SizeOf(m.payload) + 3 <= MaxMessage
         /\ Put(s, m)
         /\ canSend' \in {canSend, [canSend EXCEPT ![s] = FALSE]}
         /\ UNCHANGED <<poolVars, driverdata, loopVars, userVars>>
  BY SendsPut
<1>2. /\ len' \in [Sockets -> 0 .. MaxMessage + 4] /\ buf' = [x \in Sockets |-> buf'[x]]
      /\ \A x \in Sockets : Framed(buf'[x], len'[x])
  BY <1>1, PutFacts
<1>3. canSend' \in [Sockets -> BOOLEAN]
  BY <1>1 DEF Inv, Shape
<1>4. Shape'
  BY <1>1, <1>2, <1>3 DEF Inv, Shape, poolVars, loopVars, userVars
<1>5. Lists'
  BY <1>1 DEF Inv, Lists, poolVars
<1>6. Ends'
  BY <1>1 DEF Inv, Ends, NoSlotTaken, poolVars, loopVars, userVars
<1>7. Buffers'
  BY <1>2 DEF Buffers
<1> QED BY <1>4, <1>5, <1>6, <1>7 DEF Inv

LEMMA GetFacts ==
    ASSUME Inv, NEW s, GetMessage(s)
    PROVE  /\ s \in Sockets /\ len[s] # 0 /\ Framed(buf[s], len[s])
           /\ len' \in [Sockets -> 0 .. MaxMessage + 4] /\ buf' = [x \in Sockets |-> buf'[x]]
           /\ \A x \in Sockets : Framed(buf'[x], len'[x])
           /\ buf' = [buf EXCEPT ![s] = Shifted(buf[s], PaddedSize(buf[s][0]))]
<1> DEFINE b == buf[s]
           n == len[s]
           k == PaddedSize(b[0])
<1>1. s \in Sockets /\ n # 0
  BY HeldEnds DEF GetMessage
<1>2. Framed(b, n)
  BY <1>1 DEF Inv, Buffers
<1>3. /\ buf' = [buf EXCEPT ![s] = Shifted(b, k)]
      /\ len' = [len EXCEPT ![s] = n - k]
  BY DEF GetMessage, Shifted
<1>4. Framed(Shifted(b, k), n - k)
  <2> HIDE DEF b, n
  <2> QED BY <1>1, <1>2, FramedGet
<1>5. n - k \in 0 .. MaxMessage + 4
  BY <1>4 DEF Framed
<1>6. len \in [Sockets -> 0 .. MaxMessage + 4] /\ buf = [x \in Sockets |-> buf[x]]
  BY DEF Inv, Shape
<1> HIDE DEF b, n, k
<1>7. len' \in [Sockets -> 0 .. MaxMessage + 4]
  BY <1>1, <1>3, <1>5, <1>6
<1>8. DOMAIN buf = Sockets
  BY <1>6
<1>9. buf' = [x \in Sockets |-> buf'[x]]
  BY <1>3, <1>8
<1>10. /\ buf'[s] = Shifted(b, k) /\ len'[s] = n - k
       /\ \A x \in Sockets : x # s => buf'[x] = buf[x] /\ len'[x] = len[x]
  BY <1>1, <1>3, <1>6, <1>8
<1>11. ASSUME NEW x \in Sockets
       PROVE  Framed(buf'[x], len'[x])
  <2>1. CASE x = s
    BY <2>1, <1>4, <1>10
  <2>2. CASE x # s
    BY <2>2, <1>10 DEF Inv, Buffers
  <2> QED BY <2>1, <2>2
<1> QED BY <1>1, <1>2, <1>3, <1>7, <1>9, <1>11 DEF b, n, k

LEMMA GetMessageInv == ASSUME Inv, NEW s, GetMessage(s) PROVE Inv'
<1>1. /\ len' \in [Sockets -> 0 .. MaxMessage + 4] /\ buf' = [x \in Sockets |-> buf'[x]]
      /\ \A x \in Sockets : Framed(buf'[x], len'[x])
  BY GetFacts
<1>2. /\ canSend' \in {canSend, [canSend EXCEPT ![driverdata[s]] = TRUE]}
      /\ UNCHANGED <<poolVars, driverdata, loopVars, userVars>>
  BY DEF GetMessage, Acknowledge
<1>3. canSend' \in [Sockets -> BOOLEAN]
  BY <1>2 DEF Inv, Shape
<1>4. Shape'
  BY <1>1, <1>2, <1>3 DEF Inv, Shape, poolVars, loopVars, userVars
<1>5. Lists'
  BY <1>2 DEF Inv, Lists, poolVars
<1>6. Ends'
  BY <1>2 DEF Inv, Ends, NoSlotTaken, poolVars, loopVars, userVars
<1>7. Buffers'
  BY <1>1 DEF Buffers
<1> QED BY <1>4, <1>5, <1>6, <1>7 DEF Inv

\* NET_Close of either end: the socket goes back to the pool, and the end that
\* stays writes to nobody.
LEMMA CloseFacts ==
    ASSUME Inv, NEW s, Close(s)
    PROVE  /\ s \in Sockets /\ ToSet(active') = ToSet(active) \ {s}
           /\ free' \in Seq(Sockets) /\ active' \in Seq(Sockets) /\ Lists'
           /\ Reset({s}) /\ UNCHANGED pending
           /\ driverdata' \in [Sockets -> Sockets \cup {None}]
           /\ driverdata' = IF driverdata[s] # None
                              THEN [driverdata EXCEPT ![driverdata[s]] = None] ELSE driverdata
           /\ s = client => /\ client' = None /\ server' = server
                            /\ server # None => driverdata'[server] = None
           /\ s # client => /\ s = server /\ server' = None /\ client' = client
                            /\ client # None => driverdata'[client] = None
<1> USE DEF Inv
<1>1. /\ Held(s) /\ Detach(s) /\ Reset({s}) /\ Forget(s) /\ FreeQSocket(s) /\ UNCHANGED pending
  BY DEF Close
<1>2. s \in Sockets /\ s # None /\ (s = client \/ s = server) /\ s \in ToSet(active)
  BY <1>1, HeldEnds DEF Held
<1>3. /\ free \in Seq(Sockets) /\ active \in Seq(Sockets)
      /\ Distinct(free) /\ Distinct(active)
      /\ ToSet(free) \cap ToSet(active) = {} /\ ToSet(free) \cup ToSet(active) = Sockets
      /\ Len(free) + Len(active) = Cardinality(Sockets)
      /\ Len(free) \in Nat /\ Len(active) \in Nat
  BY DEF Shape, Lists
<1>4. /\ active' \in Seq(Sockets) /\ Len(active') = Len(active) - 1
      /\ Distinct(active') /\ ToSet(active') = ToSet(active) \ {s}
  BY <1>1, <1>2, <1>3, UnlinkedFacts DEF FreeQSocket
<1>5. /\ free' \in Seq(Sockets) /\ Len(free') = Len(free) + 1
      /\ Distinct(free') /\ ToSet(free') = ToSet(free) \cup {s}
  <2>1. s \notin ToSet(free)
    BY <1>2, <1>3
  <2> QED BY <2>1, <1>1, <1>2, <1>3, InFront DEF FreeQSocket
<1>6. Lists'
  <2>1. ToSet(free') \cap ToSet(active') = {} /\ ToSet(free') \cup ToSet(active') = Sockets
    BY <1>2, <1>3, <1>4, <1>5
  <2>2. Len(free') + Len(active') = Cardinality(Sockets)
    BY <1>3, <1>4, <1>5
  <2> QED BY <1>4, <1>5, <2>1, <2>2 DEF Lists
<1>7. driverdata' = IF driverdata[s] # None
                      THEN [driverdata EXCEPT ![driverdata[s]] = None] ELSE driverdata
  BY <1>1 DEF Detach
<1>8. driverdata \in [Sockets -> Sockets \cup {None}] /\ None \notin Sockets
      /\ client \in Sockets \cup {None} /\ server \in Sockets \cup {None}
  BY LoopbackAssumption DEF Shape
<1>9. driverdata' \in [Sockets -> Sockets \cup {None}]
  BY <1>7, <1>8
<1>10. CASE s = client
  <2>1. client' = None /\ server' = server
    BY <1>1, <1>10 DEF Forget
  <2>2. server # None => driverdata'[server] = None
    BY <1>2, <1>7, <1>8, <1>10 DEF Ends
  <2> QED BY <1>1, <1>2, <1>4, <1>5, <1>6, <1>7, <1>9, <1>10, <2>1, <2>2
<1>11. CASE s # client
  <2>1. server' = None /\ client' = client /\ s = server
    BY <1>1, <1>2, <1>11 DEF Forget
  <2>2. client # None => driverdata'[client] = None
    BY <1>2, <1>7, <1>8, <1>11 DEF Ends
  <2> QED BY <1>1, <1>2, <1>4, <1>5, <1>6, <1>7, <1>9, <1>11, <2>1, <2>2
<1> QED BY <1>10, <1>11

LEMMA ClientCloseInv == ASSUME Inv, ClientClose PROVE Inv'
<1>1. /\ netcon # None /\ Close(netcon) /\ netcon' = None /\ UNCHANGED <<slots, conns>>
  BY DEF ClientClose
<1>2. netcon = client
  BY DEF Inv, Ends
<1>3. /\ ToSet(active') = ToSet(active) \ {client}
      /\ free' \in Seq(Sockets) /\ active' \in Seq(Sockets) /\ Lists'
      /\ Reset({client}) /\ UNCHANGED pending
      /\ driverdata' \in [Sockets -> Sockets \cup {None}]
      /\ client' = None /\ server' = server /\ (server # None => driverdata'[server] = None)
  BY <1>1, <1>2, CloseFacts
<1>4. /\ len' \in [Sockets -> 0 .. MaxMessage + 4] /\ buf' = [x \in Sockets |-> buf'[x]]
      /\ canSend' \in [Sockets -> BOOLEAN]
      /\ \A x \in Sockets : Framed(buf'[x], len'[x])
  BY <1>3, ResetFacts
<1>5. Shape'
  BY <1>1, <1>3, <1>4 DEF Inv, Shape
<1>6. Ends'
  <2>1. ToSet(active') = {client', server'} \ {None}
    BY <1>1, <1>2, <1>3 DEF Inv, Ends
  <2> QED BY <1>1, <1>3, <2>1 DEF Inv, Ends, NoSlotTaken
<1>7. Buffers'
  BY <1>4 DEF Buffers
<1> QED BY <1>3, <1>5, <1>6, <1>7 DEF Inv

LEMMA DropClientInv == ASSUME Inv, NEW i \in 1 .. MaxClients, DropClient(i) PROVE Inv'
<1>1. /\ slots[i] # None /\ slots[i] = server /\ server \in ToSet(active) /\ Held(slots[i])
      /\ server # client /\ ~ NoSlotTaken
  BY DEF DropClient, Inv, Ends, Held, NoSlotTaken
<1>2. /\ Close(server) /\ slots' = [slots EXCEPT ![i] = None] /\ conns' = conns - 1 /\ netcon' = netcon
  BY <1>1 DEF DropClient
<1>3. /\ ToSet(active') = ToSet(active) \ {server}
      /\ free' \in Seq(Sockets) /\ active' \in Seq(Sockets) /\ Lists'
      /\ Reset({server}) /\ UNCHANGED pending
      /\ driverdata' \in [Sockets -> Sockets \cup {None}]
      /\ server' = None /\ client' = client /\ (client # None => driverdata'[client] = None)
  BY <1>1, <1>2, CloseFacts
<1>4. /\ len' \in [Sockets -> 0 .. MaxMessage + 4] /\ buf' = [x \in Sockets |-> buf'[x]]
      /\ canSend' \in [Sockets -> BOOLEAN]
      /\ \A x \in Sockets : Framed(buf'[x], len'[x])
  BY <1>3, ResetFacts
<1>5. /\ slots' \in [1 .. MaxClients -> Sockets \cup {None}]
      /\ \A j \in 1 .. MaxClients : slots'[j] = None
  BY <1>1, <1>2 DEF Inv, Shape, Ends
<1>6. Shape'
  BY <1>3, <1>4, <1>5, <1>2 DEF Inv, Shape
<1>7. Ends'
  <2>1. ToSet(active') = {client', server'} \ {None}
    BY <1>1, <1>3 DEF Inv, Ends
  <2>2. conns' = 0
    BY <1>1, <1>2 DEF Inv, Ends
  <2>3. NoSlotTaken'
    BY <1>5 DEF NoSlotTaken
  <2> QED BY <1>2, <1>3, <1>5, <2>1, <2>2, <2>3 DEF Inv, Ends
<1>8. Buffers'
  BY <1>4 DEF Buffers
<1> QED BY <1>3, <1>6, <1>7, <1>8 DEF Inv

LEMMA NextInv == Inv /\ [Next]_vars /\ [ConnectsAlone]_vars => Inv'
<1> SUFFICES ASSUME Inv, [Next]_vars, [ConnectsAlone]_vars PROVE Inv'
  OBVIOUS
<1>8. CASE UNCHANGED vars
  <2> USE <1>8 DEF vars, poolVars, sockVars, loopVars, userVars
  <2>1. Shape'
    BY DEF Inv, Shape
  <2>2. Lists'
    BY DEF Inv, Lists
  <2>3. Ends'
    BY DEF Inv, Ends, NoSlotTaken
  <2>4. Buffers'
    BY DEF Inv, Buffers
  <2> QED BY <2>1, <2>2, <2>3, <2>4 DEF Inv
<1>1. CASE Connect
  <2>1. CASE UNCHANGED vars
    BY <2>1, <1>8
  <2>2. CASE ConnectsAlone
    BY <2>2, <1>1, ConnectInv DEF ConnectsAlone
  <2> QED BY <2>1, <2>2
<1>2. CASE ConnectNoClient
  <2>1. CASE UNCHANGED vars
    BY <2>1, <1>8
  <2>2. CASE ConnectsAlone
    BY <2>2, <1>2, ConnectNoClientInv DEF ConnectsAlone
  <2> QED BY <2>1, <2>2
<1>3. CASE CheckNewConnections
  BY <1>3, CheckNewConnectionsInv
<1>4. CASE \E s \in InUse, p \in Payloads : SendMessage(s, p) \/ SendUnreliableMessage(s, p)
  BY <1>4, SendMessageInv
<1>5. CASE Read
  BY <1>5, GetMessageInv DEF Read
<1>6. CASE ClientClose
  BY <1>6, ClientCloseInv
<1>7. CASE \E i \in 1 .. MaxClients : DropClient(i)
  BY <1>7, DropClientInv
<1> QED BY <1>1, <1>2, <1>3, <1>4, <1>5, <1>6, <1>7, <1>8 DEF Next

LEMMA Invariance == Spec /\ Orderly => []Inv
<1>1. Init => Inv
  BY InitInv
<1>2. Inv /\ [Next]_vars /\ [ConnectsAlone]_vars => Inv'
  BY NextInv
<1> QED BY <1>1, <1>2, PTL DEF Spec, Orderly

\* With one slot nothing is asked of the client.
LEMMA OneSlotIsOrderly == ASSUME MaxClients = 1 PROVE Spec => Orderly
<1>1. ConnectsAlone
  BY DEF ConnectsAlone, Alone
<1> QED BY <1>1, PTL DEF Orderly

LEMMA InvTypeOK == ASSUME Inv PROVE TypeOK
<1> USE DEF Inv
<1>1. ToSet(free) \cup ToSet(active) \subseteq Sockets
  BY DEF Lists
<1>2. /\ driverdata \in [Sockets -> Sockets \cup {None}] /\ canSend \in [Sockets -> BOOLEAN]
      /\ len \in [Sockets -> Nat] /\ pending \in BOOLEAN
  BY LoopbackAssumption DEF Shape
<1>3. ASSUME NEW s \in Sockets
      PROVE  DOMAIN buf[s] \subseteq Nat /\ Range(buf[s]) \subseteq Message
  <2>1. Framed(buf[s], len[s])
    BY DEF Buffers
  <2> QED BY <2>1, LoopbackAssumption DEF Framed, Range
<1>4. {client, server, netcon} \cup Range(slots) \subseteq Sockets \cup {None}
  BY DEF Shape, Ends, Range
<1>5. conns \in 0 .. MaxClients
  BY LoopbackAssumption DEF Ends
<1> QED BY <1>1, <1>2, <1>3, <1>4, <1>5 DEF TypeOK

LEMMA InvPoolSound == ASSUME Inv PROVE PoolSound
<1> USE DEF Inv
<1>1. None \notin Sockets
  BY LoopbackAssumption
<1>2. {netcon, client, server} \ {None} \subseteq ToSet(active)
  BY DEF Ends
<1>3. conns = Cardinality({i \in 1 .. MaxClients : slots[i] # None})
  <2> DEFINE taken == {i \in 1 .. MaxClients : slots[i] # None}
  <2>1. CASE NoSlotTaken
    <3>1. taken = {}
      BY <2>1 DEF NoSlotTaken
    <3>2. Cardinality(taken) = 0
      BY <3>1, FS_EmptySet
    <3> QED BY <2>1, <3>2 DEF Ends
  <2>2. CASE ~ NoSlotTaken
    <3>1. PICK i \in 1 .. MaxClients : slots[i] # None
      BY <2>2 DEF NoSlotTaken
    <3>2. taken = {i}
      BY <3>1 DEF Ends
    <3>3. Cardinality(taken) = 1
      BY <3>2, FS_Singleton
    <3> QED BY <2>2, <3>3 DEF Ends
  <2> QED BY <2>1, <2>2
<1>4. ASSUME NEW s \in ToSet(active), driverdata[s] # None
      PROVE  Held(driverdata[s]) /\ driverdata[driverdata[s]] = s
  <2>1. s \in {client, server} \ {None}
    BY DEF Ends
  <2>2. CASE s = client
    BY <2>1, <2>2, <1>4 DEF Ends, Held
  <2>3. CASE s = server
    BY <2>1, <2>3, <1>4 DEF Ends, Held
  <2> QED BY <2>1, <2>2, <2>3
<1> QED BY <1>2, <1>3, <1>4 DEF PoolSound, Lists

\* Without an end in use the whole pool is free, and it has two sockets at least.
LEMMA InvBothEndsOrNone == ASSUME Inv PROVE BothEndsOrNone
<1> SUFFICES ASSUME netcon = None, server = None PROVE Available(1) => Available(2)
  <2>1. netcon = client
    BY DEF Inv, Ends
  <2> QED BY <2>1 DEF BothEndsOrNone
<1>1. ToSet(active) = {} /\ active \in Seq(Sockets)
  BY DEF Inv, Ends, Shape
<1>2. Len(active) = 0
  <2>1. Len(active) \in Nat /\ \A i \in 1 .. Len(active) : active[i] \in ToSet(active)
    BY <1>1, InSet
  <2>2. 1 \notin 1 .. Len(active)
    BY <2>1, <1>1
  <2> QED BY <2>1, <2>2
<1>3. Len(free) = Cardinality(Sockets) /\ Len(free) \in Nat
  BY <1>2 DEF Inv, Lists, Shape
<1>4. Len(free) >= 2
  BY <1>3, LoopbackAssumption
<1> QED BY <1>4 DEF Available

\* The state of the loopback driver and of the pool keeps its types.
THEOREM TypesHold == Spec /\ Orderly => []TypeOK
<1>1. Inv => TypeOK
  BY InvTypeOK
<1> QED BY <1>1, Invariance, PTL

\* NET_NewQSocket, NET_FreeQSocket and NET_Close keep every qsocket on exactly
\* one list, and what the driver and the client designate in use.
THEOREM PoolStaysSound == Spec /\ Orderly => []PoolSound
<1>1. Inv => PoolSound
  BY InvPoolSound
<1> QED BY <1>1, Invariance, PTL

\* Loop_Connect never gets a socket for the client end and none for the server
\* end: the branch that returns NULL without giving the first back is dead.
THEOREM BothEndsOrNoneHolds == Spec /\ Orderly => []BothEndsOrNone
<1>1. Inv => BothEndsOrNone
  BY InvBothEndsOrNone
<1> QED BY <1>1, Invariance, PTL

-----------------------------------------------------------------------------
(* Where messages end.                                                       *)

EndsBy(m, o) == o + 4 + SizeOf(m.payload) <= MaxMessage + (IF m.reliable THEN 0 ELSE 1)
AllEnd(b) == \A o \in DOMAIN b : EndsBy(b[o], o)
Bounded == \A s \in Sockets : AllEnd(buf[s])

LEMMA SendsInside ==
    ASSUME Inv, Bounded, NEW s, NEW p \in Payloads,
           SendMessage(s, p) \/ SendUnreliableMessage(s, p)
    PROVE  Bounded'
<1>1. s \in Sockets /\ driverdata[s] \in Sockets
  BY HeldEnds DEF SendMessage, SendUnreliableMessage, Inv, Shape
<1> DEFINE to == driverdata[s]
           n == len[to]
           b == buf[to]
<1>2. n \in Nat /\ SizeOf(p) \in Nat /\ MaxMessage \in Nat
  BY <1>1, LoopbackAssumption DEF Inv, Shape
<1>3. PICK m \in Message : EndsBy(m, n) /\ Put(s, m)
  <2>1. CASE SendMessage(s, p)
    <3> DEFINE m == [reliable |-> TRUE, payload |-> p]
    <3>1. m \in Message /\ m.payload = p /\ m.reliable
      BY DEF Message
    <3>2. Put(s, m) /\ n + (SizeOf(p) + 4) <= MaxMessage
      BY <2>1 DEF SendMessage, RoomFor
    <3> HIDE DEF m, n
    <3>3. EndsBy(m, n)
      BY <1>2, <3>1, <3>2 DEF EndsBy
    <3> QED BY <3>1, <3>2, <3>3 DEF m
  <2>2. CASE SendUnreliableMessage(s, p)
    <3> DEFINE m == [reliable |-> FALSE, payload |-> p]
    <3>1. m \in Message /\ m.payload = p /\ ~m.reliable
      BY DEF Message
    <3>2. Put(s, m) /\ n + (SizeOf(p) + 3) <= MaxMessage
      BY <2>2 DEF SendUnreliableMessage, RoomFor
    <3> HIDE DEF m, n
    <3>3. EndsBy(m, n)
      BY <1>2, <3>1, <3>2 DEF EndsBy
    <3> QED BY <3>1, <3>2, <3>3 DEF m
  <2> QED BY <2>1, <2>2
<1>4. buf' = [buf EXCEPT ![to] = WithMessage(b, n, m)] /\ DOMAIN buf = Sockets
  BY <1>3 DEF Put, WithMessage, Inv, Shape
<1>5. AllEnd(WithMessage(b, n, m))
  <2>1. AllEnd(b)
    BY <1>1 DEF Bounded
  <2> HIDE DEF b, n
  <2> QED BY <2>1, <1>3 DEF AllEnd, WithMessage
<1> HIDE DEF to, b, n
<1>6. to \in Sockets
  BY <1>1 DEF to
<1>7. buf'[to] = WithMessage(b, n, m) /\ \A x \in Sockets : x # to => buf'[x] = buf[x]
  BY <1>4, <1>6
<1>8. ASSUME NEW x \in Sockets PROVE AllEnd(buf'[x])
  <2>1. CASE x = to
    BY <2>1, <1>5, <1>7
  <2>2. CASE x # to
    <3>1. AllEnd(buf[x]) /\ buf'[x] = buf[x]
      BY <2>2, <1>7 DEF Bounded
    <3> QED BY <3>1
  <2> QED BY <2>1, <2>2
<1> QED BY <1>8 DEF Bounded, AllEnd

LEMMA GetsInside ==
    ASSUME Inv, Bounded, NEW s, GetMessage(s)
    PROVE  Bounded'
<1> DEFINE b == buf[s]
           k == PaddedSize(b[0])
<1>1. /\ s \in Sockets /\ len[s] # 0 /\ Framed(b, len[s])
      /\ buf' = [buf EXCEPT ![s] = Shifted(b, k)]
  BY GetFacts
<1>2. AllEnd(b) /\ DOMAIN buf = Sockets
  BY <1>1 DEF Bounded, Inv, Shape
<1> HIDE DEF b
<1>3. k \in Nat
  <2>1. b[0] \in Message
    BY <1>1 DEF Framed
  <2> QED BY <2>1, Padded
<1> HIDE DEF k
<1>4. ASSUME NEW o \in DOMAIN b \ {0}
      PROVE  /\ (o - k) + k = o /\ EndsBy(b[o], o - k)
  <2>1. o \in Nat /\ b[o] \in Message
    BY <1>1, LoopbackAssumption DEF Framed
  <2>2. SizeOf(b[o].payload) \in Nat /\ MaxMessage \in Nat
    BY <2>1, Padded, LoopbackAssumption
  <2>3. EndsBy(b[o], o)
    BY <1>2 DEF AllEnd
  <2> QED BY <1>3, <2>1, <2>2, <2>3 DEF EndsBy
<1>5. AllEnd(Shifted(b, k))
  BY <1>4 DEF AllEnd, Shifted
<1>6. buf'[s] = Shifted(b, k) /\ \A x \in Sockets : x # s => buf'[x] = buf[x]
  BY <1>1, <1>2
<1>7. ASSUME NEW x \in Sockets PROVE AllEnd(buf'[x])
  <2>1. CASE x = s
    BY <2>1, <1>5, <1>6
  <2>2. CASE x # s
    <3>1. AllEnd(buf[x]) /\ buf'[x] = buf[x]
      BY <2>2, <1>6 DEF Bounded
    <3> QED BY <3>1
  <2> QED BY <2>1, <2>2
<1> QED BY <1>7 DEF Bounded, AllEnd

LEMMA ResetInside ==
    ASSUME Bounded, NEW S, Reset(S)
    PROVE  Bounded'
<1>1. buf' = [s \in Sockets |-> IF s \in S THEN Empty ELSE buf[s]]
  BY DEF Reset
<1>2. AllEnd(Empty)
  BY DEF AllEnd, Empty
<1>3. ASSUME NEW x \in Sockets PROVE AllEnd(buf'[x])
  <2>1. buf'[x] \in {Empty, buf[x]}
    BY <1>1
  <2>2. AllEnd(buf[x])
    BY DEF Bounded
  <2> QED BY <2>1, <2>2, <1>2
<1> QED BY <1>3 DEF Bounded, AllEnd

LEMMA NextInside == Inv /\ Bounded /\ [Next]_vars => Bounded'
<1> SUFFICES ASSUME Inv, Bounded, [Next]_vars PROVE Bounded'
  OBVIOUS
<1>1. CASE UNCHANGED buf
  BY <1>1 DEF Bounded, AllEnd
<1>2. CASE \E S : Reset(S)
  BY <1>2, ResetInside
<1>3. CASE \E s \in InUse, p \in Payloads : SendMessage(s, p) \/ SendUnreliableMessage(s, p)
  BY <1>3, SendsInside
<1>4. CASE Read
  BY <1>4, GetsInside DEF Read
<1>5. ASSUME Connect PROVE \E S : Reset(S)
  BY <1>5 DEF Connect
<1>6. ASSUME CheckNewConnections PROVE \E S : Reset(S)
  BY <1>6 DEF CheckNewConnections
<1>7. ASSUME ClientClose PROVE \E S : Reset(S)
  BY <1>7 DEF ClientClose, Close
<1>8. ASSUME NEW i \in 1 .. MaxClients, DropClient(i)
      PROVE  (\E S : Reset(S)) \/ UNCHANGED buf
  BY <1>8 DEF DropClient, Close, sockVars
<1>9. ConnectNoClient \/ UNCHANGED vars => UNCHANGED buf
  BY DEF ConnectNoClient, vars, sockVars
<1> QED BY <1>1, <1>2, <1>3, <1>4, <1>5, <1>6, <1>7, <1>8, <1>9 DEF Next

\* No message of Loop_SendMessage reaches behind receiveMessage, and one of
\* Loop_SendUnreliableMessage by one byte at most, as the last of its buffer.
THEOREM MessagesStayInside == Spec /\ Orderly => []MessagesInside
<1>1. Init => Bounded
  BY DEF Init, Bounded, AllEnd, Empty
<1>2. Inv /\ Bounded => MessagesInside
  <2> SUFFICES ASSUME Inv, Bounded, NEW s \in Sockets, NEW o \in DOMAIN buf[s],
                      ~(MessageEnd(s, o) <= MaxMessage)
               PROVE  /\ ~buf[s][o].reliable /\ MessageEnd(s, o) = MaxMessage + 1
                      /\ \A x \in DOMAIN buf[s] : x <= o
    BY DEF MessagesInside
  <2> DEFINE m == buf[s][o]
  <2>1. /\ MaxMessage \in Nat /\ o \in 0 .. MaxMessage /\ m \in Message
        /\ \A x \in DOMAIN buf[s] : x \in 0 .. MaxMessage /\ (o < x => o + PaddedSize(m) <= x)
    BY LoopbackAssumption DEF Inv, Buffers, Framed
  <2>2. SizeOf(m.payload) \in Nat /\ PaddedSize(m) \in Nat /\ SizeOf(m.payload) + 4 <= PaddedSize(m)
    <3>1. SizeOf(m.payload) \in Nat /\ PaddedSize(m) \in Nat
      BY <2>1, Padded
    <3>2. SizeOf(m.payload) + 4 <= IntAlign(SizeOf(m.payload) + 4)
      BY <3>1, Aligned
    <3> QED BY <3>1, <3>2 DEF PaddedSize
  <2>3. EndsBy(m, o) /\ MessageEnd(s, o) = o + 4 + SizeOf(m.payload)
    BY DEF Bounded, AllEnd, MessageEnd
  <2> HIDE DEF m
  <2>4. ~m.reliable /\ MessageEnd(s, o) = MaxMessage + 1
    BY <2>1, <2>2, <2>3 DEF EndsBy
  <2>5. ASSUME NEW x \in DOMAIN buf[s] PROVE x <= o
    BY <2>1, <2>2, <2>3, <2>4
  <2> QED BY <2>4, <2>5 DEF m
<1> QED BY <1>1, <1>2, NextInside, Invariance, PTL DEF Spec

-----------------------------------------------------------------------------
(* Senders that wait.                                                        *)

\* An end that has sent a reliable message and has not been told that it was read.
Corked(s) == Held(s) /\ driverdata[s] # None /\ ~canSend[s]

\* Where the reliable messages of a buffer are, and how much is in front of the first
\* one at the other end of s.
Reliable(b) == {o \in DOMAIN b : b[o].reliable}
Behind(s) == Min(Reliable(buf[driverdata[s]]))

Owed == \A s \in Sockets : Corked(s) => Reliable(buf[driverdata[s]]) # {}

\* No sender waits in vain: the other end is open, and the message is in its buffer.
ToBeRead == \A s \in Sockets : Corked(s) =>
    /\ Held(driverdata[s]) /\ driverdata[driverdata[s]] = s
    /\ len[driverdata[s]] # 0 /\ Reliable(buf[driverdata[s]]) # {}

\* Each message that the other end reads brings it nearer to the one waited for, and
\* nothing is ever put in front of that.
Nearer == [][ \A s \in Sockets : Corked(s) /\ Corked(s)' =>
                IF GetMessage(driverdata[s]) THEN Behind(s)' < Behind(s)
                ELSE Behind(s)' = Behind(s) ]_vars

LEMMA MinFacts ==
    ASSUME NEW S, S \subseteq Nat, S # {}
    PROVE  Min(S) \in S /\ \A k \in S : Min(S) <= k
BY LeastExists DEF Min

LEMMA MinIs ==
    ASSUME NEW S, S \subseteq Nat, NEW m \in S, \A k \in S : m <= k
    PROVE  Min(S) = m
<1>1. Min(S) \in S /\ \A k \in S : Min(S) <= k
  BY MinFacts
<1>2. Min(S) <= m /\ m <= Min(S) /\ Min(S) \in Nat /\ m \in Nat
  BY <1>1
<1> QED BY <1>2

LEMMA ReliableFacts ==
    ASSUME NEW b, NEW n, Framed(b, n)
    PROVE  /\ Reliable(b) \subseteq Nat /\ n \in Nat
           /\ \A o \in Reliable(b) : o \in DOMAIN b /\ o < n
           /\ Reliable(b) # {} => n # 0
<1>1. MaxMessage \in Nat
  BY LoopbackAssumption
<1>2. DOMAIN b \subseteq 0 .. MaxMessage /\ n \in 0 .. MaxMessage + 4 /\ \A o \in DOMAIN b : o < n
  BY DEF Framed
<1> QED BY <1>1, <1>2 DEF Reliable

LEMMA CorkedLinked ==
    ASSUME Inv, NEW s, Corked(s)
    PROVE  /\ s \in Sockets /\ driverdata[s] \in Sockets
           /\ Held(driverdata[s]) /\ driverdata[driverdata[s]] = s
           /\ Framed(buf[driverdata[s]], len[driverdata[s]])
<1>1. s \in Sockets /\ driverdata[s] \in Sockets
  BY HeldEnds DEF Corked, Inv, Shape
<1>2. Held(driverdata[s]) /\ driverdata[driverdata[s]] = s
  BY <1>1, InvPoolSound DEF PoolSound, Corked, Held
<1> QED BY <1>1, <1>2 DEF Inv, Buffers

\* A message that is put behind the others.
LEMMA PutRelieves ==
    ASSUME Inv, NEW s, NEW p \in Payloads, SendMessage(s, p) \/ SendUnreliableMessage(s, p),
           NEW x, Corked(x)', Owed
    PROVE  /\ Reliable(buf[driverdata[x]])' # {}
           /\ Corked(x) => Behind(x)' = Behind(x)
<1>1. PICK m \in Message :
         /\ Held(s) /\ driverdata[s] # None
         /\ len[driverdata[s]] + SizeOf(m.payload) + 3 <= MaxMessage
         /\ Put(s, m)
         /\ canSend' \in {canSend, [canSend EXCEPT ![s] = FALSE]}
         /\ canSend' = canSend \/ m.reliable
         /\ UNCHANGED <<poolVars, driverdata, loopVars, userVars>>
  BY SendsPut
<1>2. /\ s \in Sockets /\ driverdata[s] \in Sockets
      /\ buf' = [buf EXCEPT ![driverdata[s]] =
                   WithMessage(buf[driverdata[s]], len[driverdata[s]], m)]
  BY <1>1, PutFacts
<1>3. Held(x)' = Held(x) /\ driverdata' = driverdata
  BY <1>1 DEF Held, poolVars
<1>4. Held(x) /\ driverdata[x] # None /\ ~canSend'[x]
  BY <1>3 DEF Corked
<1>5. x \in Sockets /\ driverdata[x] \in Sockets /\ Framed(buf[driverdata[x]], len[driverdata[x]])
  BY <1>4, HeldEnds DEF Inv, Shape, Buffers
<1> DEFINE to == driverdata[x]
           b == buf[to]
           n == len[to]
<1>6. Reliable(b) \subseteq Nat /\ n \in Nat /\ \A o \in Reliable(b) : o \in DOMAIN b /\ o < n
  BY <1>5, ReliableFacts
<1>7. x # s => Corked(x)
  <2>1. canSend \in [Sockets -> BOOLEAN]
    BY DEF Inv, Shape
  <2>2. x # s => [canSend EXCEPT ![s] = FALSE][x] = canSend[x]
    BY <1>2, <1>5, <2>1
  <2>3. x # s => canSend'[x] = canSend[x]
    BY <1>1, <2>2
  <2> QED BY <1>4, <2>3 DEF Corked
<1>8. Corked(x) => Reliable(b) # {}
  BY <1>5 DEF Owed
<1>9. DOMAIN buf = Sockets
  BY DEF Inv, Shape
<1>10. CASE to # driverdata[s]
  <2>1. buf'[to] = b
    BY <1>2, <1>9, <1>10, <1>5
  <2>2. x # s
    BY <1>10
  <2> QED BY <1>3, <1>7, <1>8, <2>1, <2>2 DEF Behind
<1>11. CASE to = driverdata[s]
  <2> DEFINE c == WithMessage(b, n, m)
  <2>1. buf'[to] = c
    BY <1>2, <1>9, <1>11
  <2>2. Reliable(c) = Reliable(b) \cup (IF m.reliable THEN {n} ELSE {})
    <3>1. n \notin DOMAIN b /\ DOMAIN c = DOMAIN b \cup {n} /\ c[n] = m
          /\ \A o \in DOMAIN b : c[o] = b[o]
      <4>1. \A o \in DOMAIN b : o \in Int /\ o < n
        BY <1>5, <1>6, LoopbackAssumption DEF Framed
      <4> QED BY <4>1, <1>6 DEF WithMessage
    <3> HIDE DEF c, b, n
    <3> QED BY <3>1 DEF Reliable
  <2>3. Corked(x) => Min(Reliable(c)) = Min(Reliable(b))
    <3> HIDE DEF b, c, n
    <3> SUFFICES ASSUME Reliable(b) # {} PROVE Min(Reliable(c)) = Min(Reliable(b))
      BY <1>8
    <3>1. Min(Reliable(b)) \in Reliable(b) /\ \A k \in Reliable(b) : Min(Reliable(b)) <= k
      BY <1>6, MinFacts
    <3> DEFINE e == Min(Reliable(b))
    <3>2. e \in Reliable(c) /\ e < n /\ e \in Nat /\ Reliable(c) \subseteq Nat
      BY <3>1, <2>2, <1>6
    <3>3. \A k \in Reliable(b) : e <= k
      BY <3>1
    <3> HIDE DEF e
    <3>4. \A k \in Reliable(c) : e <= k
      BY <3>2, <3>3, <2>2, <1>6
    <3> QED BY <3>2, <3>4, MinIs DEF e
  <2>4. Reliable(c) # {}
    <3>1. CASE Corked(x)
      BY <3>1, <1>8, <2>2
    <3>2. CASE ~Corked(x)
      <4>1. ~(canSend' = canSend)
        BY <1>4, <3>2 DEF Corked
      <4> QED BY <4>1, <1>1, <2>2
    <3> QED BY <3>1, <3>2
  <2> HIDE DEF c, b
  <2> QED BY <1>3, <2>1, <2>3, <2>4 DEF Behind, b
<1> QED BY <1>10, <1>11

\* A message that is read.
LEMMA GetRelieves ==
    ASSUME Inv, NEW s, GetMessage(s), NEW x, Corked(x)', Owed
    PROVE  /\ Reliable(buf[driverdata[x]])' # {}
           /\ Corked(x)
           /\ IF driverdata[x] = s THEN Behind(x)' < Behind(x) ELSE Behind(x)' = Behind(x)
<1>1. /\ s \in Sockets /\ len[s] # 0 /\ Framed(buf[s], len[s])
      /\ buf' = [buf EXCEPT ![s] = Shifted(buf[s], PaddedSize(buf[s][0]))]
  BY GetFacts
<1>2. Held(x)' = Held(x) /\ driverdata' = driverdata
  BY DEF GetMessage, Held, poolVars
<1>3. Held(x) /\ driverdata[x] # None /\ ~canSend'[x] /\ x \in Sockets
  BY <1>2, HeldEnds DEF Corked
<1>4. canSend' = IF driverdata[s] # None /\ buf[s][0].reliable
                 THEN [canSend EXCEPT ![driverdata[s]] = TRUE] ELSE canSend
  BY DEF GetMessage, Acknowledge
<1>5. canSend \in [Sockets -> BOOLEAN] /\ DOMAIN buf = Sockets
  BY DEF Inv, Shape
<1>6. ~canSend[x]
  BY <1>3, <1>4, <1>5
<1>7. Corked(x) /\ driverdata[x] \in Sockets /\ driverdata[driverdata[x]] = x
  BY <1>3, <1>6, CorkedLinked DEF Corked
<1>8. Reliable(buf[driverdata[x]]) # {}
  BY <1>3, <1>7 DEF Owed
<1>9. CASE driverdata[x] # s
  <2>1. buf'[driverdata[x]] = buf[driverdata[x]]
    BY <1>1, <1>5, <1>7, <1>9
  <2> QED BY <1>2, <1>7, <1>8, <1>9, <2>1 DEF Behind
<1>10. CASE driverdata[x] = s
  <2> DEFINE b == buf[s]
             k == PaddedSize(b[0])
             c == Shifted(b, k)
  <2>1. buf'[s] = c
    BY <1>1, <1>5
  <2>2. 0 \in DOMAIN b /\ b[0] \in Message /\ k \in Nat /\ k > 0
    <3> HIDE DEF b
    <3>1. Framed(b, len[s])
      BY <1>1 DEF b
    <3>2. 0 \in DOMAIN b /\ b[0] \in Message
      BY <1>1, <3>1, FramedGet
    <3> QED BY <3>2, Padded
  <2>3. 0 \notin Reliable(b)
    <3>1. driverdata[s] = x /\ x # None
      BY <1>3, <1>7, <1>10, LoopbackAssumption
    <3>2. [canSend EXCEPT ![x] = TRUE][x] = TRUE
      BY <1>3, <1>5
    <3>3. ~b[0].reliable
      BY <1>3, <1>4, <3>1, <3>2
    <3> QED BY <3>3 DEF Reliable
  <2>4. Reliable(b) \subseteq Nat /\ Reliable(b) # {} /\ Framed(b, len[s])
    BY <1>1, <1>8, <1>10, ReliableFacts
  <2>5. \A o \in DOMAIN b \ {0} : k <= o /\ o \in Nat
    <3>1. \A o \in DOMAIN b : o \in Nat
      BY <1>1, LoopbackAssumption DEF Framed
    <3>2. \A o, e \in DOMAIN b : o < e => o + PaddedSize(b[o]) <= e
      BY <1>1 DEF Framed
    <3>3. \A e \in DOMAIN b \ {0} : 0 < e /\ 0 + k <= e
      BY <2>2, <3>1, <3>2
    <3> QED BY <3>1, <3>3, <2>2
  <2>6. Reliable(c) = {o - k : o \in Reliable(b)}
    <3> HIDE DEF b, k
    <3>1. DOMAIN c = {o - k : o \in DOMAIN b \ {0}}
      BY DEF Shifted
    <3>2. \A o \in DOMAIN b \ {0} : o - k \in DOMAIN c /\ (o - k) + k = o /\ c[o - k] = b[o]
      <4>1. \A o \in DOMAIN b \ {0} : (o - k) + k = o
        BY <2>2, <2>5
      <4> QED BY <4>1, <3>1 DEF Shifted
    <3> HIDE DEF c
    <3>3. Reliable(c) = {y \in DOMAIN c : c[y].reliable} /\ Reliable(b) = {y \in DOMAIN b : b[y].reliable}
      BY DEF Reliable
    <3> QED BY <2>3, <3>1, <3>2, <3>3
  <2> DEFINE e == Min(Reliable(b))
  <2>7. e \in Reliable(b) /\ \A o \in Reliable(b) : e <= o
    BY <2>4, MinFacts
  <2> HIDE DEF e, c, b, k
  <2>8. Min(Reliable(c)) = e - k /\ Reliable(c) # {}
    <3>1. e - k \in Reliable(c)
      BY <2>6, <2>7
    <3>2. \A o \in Reliable(b) : o \in Nat /\ k <= o
      <4>1. \A o \in Reliable(b) : o \in DOMAIN b
        BY DEF Reliable
      <4> QED BY <4>1, <2>3, <2>5
    <3>3. Reliable(c) \subseteq Nat
      BY <2>2, <2>6, <3>2
    <3>4. \A y \in Reliable(c) : e - k <= y
      BY <2>2, <2>6, <2>7, <3>2
    <3> QED BY <3>1, <3>3, <3>4, MinIs
  <2>9. e - k < e
    BY <2>2, <2>4, <2>7
  <2>10. Behind(x) = e /\ Behind(x)' = Min(Reliable(c))
    BY <1>2, <1>10, <2>1 DEF Behind, e, b
  <2>11. Reliable(buf[driverdata[x]])' = Reliable(c)
    BY <1>2, <1>10, <2>1
  <2> QED BY <1>7, <1>10, <2>8, <2>9, <2>10, <2>11
<1> QED BY <1>9, <1>10

\* Whoever makes, accepts or closes a connection leaves nobody waiting.
LEMMA OpeningRelieves ==
    ASSUME Inv, Connect \/ CheckNewConnections
    PROVE  \A x : ~Corked(x)'
<1> SUFFICES ASSUME NEW x, Held(x)' PROVE canSend'[x]
  BY DEF Corked
<1>1. CASE Connect
  <2>1. PICK c \in Sockets, s \in Sockets :
              /\ client = None
              /\ server # None => s = server
              /\ ToSet(active') = ToSet(active) \cup {c, s}
              /\ Reset({c, s})
    BY <1>1, ConnectFacts
  <2>2. x \in {c, s}
    BY <2>1 DEF Held, Inv, Ends
  <2>3. canSend' = [y \in Sockets |-> y \in {c, s} \/ canSend[y]]
    BY <2>1 DEF Reset, Uncork
  <2> QED BY <2>2, <2>3
<1>2. CASE CheckNewConnections
  <2>1. Reset({client, server}) /\ active' = active
    BY <1>2 DEF CheckNewConnections, poolVars
  <2>2. x \in Sockets /\ x \in {client, server}
    BY <2>1, HeldEnds DEF Held
  <2>3. canSend' = [y \in Sockets |-> y \in {client, server} \/ canSend[y]]
    BY <2>1 DEF Reset, Uncork
  <2> QED BY <2>2, <2>3
<1> QED BY <1>1, <1>2

LEMMA ClosingRelieves ==
    ASSUME Inv, NEW s, Close(s)
    PROVE  \A x : ~Corked(x)'
<1> SUFFICES ASSUME NEW x, Held(x)' PROVE driverdata'[x] = None
  BY DEF Corked
<1>1. /\ ToSet(active') = ToSet(active) \ {s}
      /\ s = client => (server # None => driverdata'[server] = None)
      /\ s # client => s = server /\ (client # None => driverdata'[client] = None)
  BY CloseFacts
<1>2. Held(x) /\ x # s
  BY <1>1 DEF Held
<1>3. x # None /\ (x = client \/ x = server)
  BY <1>2, HeldEnds
<1> QED BY <1>1, <1>2, <1>3

LEMMA Untouched ==
    ASSUME NEW x, UNCHANGED <<active, driverdata, canSend, buf>>
    PROVE  /\ Corked(x)' = Corked(x) /\ Behind(x)' = Behind(x)
           /\ Reliable(buf[driverdata[x]])' = Reliable(buf[driverdata[x]])
BY DEF Corked, Behind, Held, Reliable

LEMMA NextRelieves ==
    ASSUME Inv, Owed, [Next]_vars, NEW x \in Sockets, Corked(x)'
    PROVE  /\ Reliable(buf[driverdata[x]])' # {}
           /\ Corked(x) => IF \E s : s = driverdata[x] /\ GetMessage(s) THEN Behind(x)' < Behind(x)
                          ELSE Behind(x)' = Behind(x)
<1>1. CASE \E s : GetMessage(s) /\ s = driverdata[x]
  BY <1>1, GetRelieves
<1>2. CASE ~\E s : GetMessage(s) /\ s = driverdata[x]
  <2> SUFFICES Reliable(buf[driverdata[x]])' # {} /\ (Corked(x) => Behind(x)' = Behind(x))
    BY <1>2
  <2>1. CASE UNCHANGED <<active, driverdata, canSend, buf>>
    BY <2>1, Untouched DEF Owed
  <2>2. CASE Connect \/ CheckNewConnections
    BY <2>2, OpeningRelieves
  <2>3. CASE \E s \in InUse, p \in Payloads : SendMessage(s, p) \/ SendUnreliableMessage(s, p)
    BY <2>3, PutRelieves
  <2>4. CASE Read
    <3>1. PICK s : GetMessage(s)
      BY <2>4 DEF Read
    <3> QED BY <1>2, <3>1, GetRelieves
  <2>5. CASE ClientClose
    BY <2>5, ClosingRelieves DEF ClientClose
  <2>6. CASE \E i \in 1 .. MaxClients : DropClient(i)
    <3>1. PICK i \in 1 .. MaxClients : DropClient(i)
      BY <2>6
    <3>2. CASE Held(slots[i])
      BY <3>1, <3>2, ClosingRelieves DEF DropClient
    <3>3. CASE ~Held(slots[i])
      BY <2>1, <3>1, <3>3 DEF DropClient, poolVars, sockVars
    <3> QED BY <3>2, <3>3
  <2>7. ConnectNoClient \/ UNCHANGED vars => UNCHANGED <<active, driverdata, canSend, buf>>
    BY DEF ConnectNoClient, vars, poolVars, sockVars
  <2> QED BY <2>1, <2>2, <2>3, <2>4, <2>5, <2>6, <2>7 DEF Next
<1> QED BY <1>1, <1>2

LEMMA OwedInvariant == Spec /\ Orderly => []Owed
<1>1. Init => Owed
  BY DEF Init, Owed, Corked
<1>2. Inv /\ Owed /\ [Next]_vars => Owed'
  BY NextRelieves DEF Owed
<1> QED BY <1>1, <1>2, Invariance, PTL DEF Spec

\* NET_CanSendMessage says no only while the other end has the message still to
\* read: canSend is never left behind by a connection that is made again, accepted
\* or closed, nor cleared by anything but a message that gets through.
THEOREM NobodyWaitsInVain == Spec /\ Orderly => []ToBeRead
<1>1. Inv /\ Owed => ToBeRead
  <2> SUFFICES ASSUME Inv, Owed, NEW s \in Sockets, Corked(s)
               PROVE  /\ Held(driverdata[s]) /\ driverdata[driverdata[s]] = s
                      /\ len[driverdata[s]] # 0 /\ Reliable(buf[driverdata[s]]) # {}
    BY DEF ToBeRead
  <2>1. /\ Held(driverdata[s]) /\ driverdata[driverdata[s]] = s
        /\ Framed(buf[driverdata[s]], len[driverdata[s]])
    BY CorkedLinked
  <2>2. Reliable(buf[driverdata[s]]) # {}
    BY DEF Owed
  <2> QED BY <2>1, <2>2, ReliableFacts
<1> QED BY <1>1, Invariance, OwedInvariant, PTL

\* With every message that is read the one waited for moves to the front, whatever
\* is sent behind it meanwhile; reading on, an end comes to it.
THEOREM ReadingRelieves == Spec /\ Orderly => Nearer
<1>1. Inv /\ Owed /\ [Next]_vars
        => [ \A s \in Sockets : Corked(s) /\ Corked(s)' =>
                IF GetMessage(driverdata[s]) THEN Behind(s)' < Behind(s)
                ELSE Behind(s)' = Behind(s) ]_vars
  <2> SUFFICES ASSUME Inv, Owed, [Next]_vars, NEW s \in Sockets, Corked(s), Corked(s)'
               PROVE  IF GetMessage(driverdata[s]) THEN Behind(s)' < Behind(s)
                      ELSE Behind(s)' = Behind(s)
    OBVIOUS
  <2>1. IF \E x : x = driverdata[s] /\ GetMessage(x) THEN Behind(s)' < Behind(s)
        ELSE Behind(s)' = Behind(s)
    BY NextRelieves
  <2>2. (\E x : x = driverdata[s] /\ GetMessage(x)) <=> GetMessage(driverdata[s])
    OBVIOUS
  <2> QED BY <2>1, <2>2
<1> QED BY <1>1, Invariance, OwedInvariant, PTL DEF Spec, Nearer

-----------------------------------------------------------------------------
(* The refinement of the channel.                                            *)

Inbox == [s \in Sockets |-> Queue(buf[s])]

\* A reset of the sockets of S empties their queues.
LEMMA ResetEmpties == ASSUME Inv, NEW S, Reset(S) PROVE Inbox' = Wire!Emptied(S)
<1>1. \A s \in Sockets : buf'[s] = IF s \in S THEN Empty ELSE buf[s]
  BY ResetFacts
<1>2. \A s \in Sockets : Queue(buf'[s]) = IF s \in S THEN <<>> ELSE Queue(buf[s])
  BY <1>1, QueueEmpty
<1>3. Inbox' = [s \in Sockets |-> Queue(buf'[s])]
  BY DEF Inbox
<1> QED BY <1>2, <1>3 DEF Wire!Emptied

LEMMA ConnectOpens == ASSUME Inv, Connect PROVE Wire!Open
<1>1. PICK c \in Sockets, s \in Sockets :
              /\ client = None /\ c # s
              /\ server # None => s = server
              /\ ToSet(active') = ToSet(active) \cup {c, s}
              /\ free' \in Seq(Sockets) /\ active' \in Seq(Sockets) /\ Lists'
              /\ Reset({c, s})
              /\ driverdata' = [driverdata EXCEPT ![c] = s, ![s] = c]
              /\ client' = c /\ server' = s /\ netcon' = c /\ pending' = TRUE
              /\ UNCHANGED <<slots, conns>>
  BY ConnectFacts
<1>2. driverdata \in [Sockets -> Sockets \cup {None}]
  BY DEF Inv, Shape
<1>3. \A x \in Sockets : (x \in ToSet(active)') = (x \in ToSet(active) \/ x \in {c, s})
  BY <1>1
<1>4. Link' = [Link EXCEPT ![c] = s, ![s] = c]
  BY <1>1, <1>2, <1>3 DEF Link, Held
<1>5. Inbox' = Wire!Emptied({c, s})
  BY <1>1, ResetEmpties
<1> QED BY <1>1, <1>4, <1>5 DEF Wire!Open, Inbox

LEMMA ConnectNoClientOpens == ASSUME Inv, ConnectNoClient PROVE Wire!Open
<1>1. pending' = TRUE /\ active' = active /\ driverdata' = driverdata /\ buf' = buf
  BY DEF ConnectNoClient, poolVars, sockVars
<1>2. Link' = Link
  BY <1>1 DEF Link, Held
<1>3. Inbox' = Wire!Emptied({})
  BY <1>1 DEF Inbox, Wire!Emptied
<1>4. {} \in SUBSET Sockets /\ \A e \in {} : Link[e] = None
  OBVIOUS
<1> QED BY <1>1, <1>2, <1>3, <1>4 DEF Wire!Open, Inbox

LEMMA CheckNewConnectionsAccepts ==
    ASSUME Inv, CheckNewConnections PROVE Wire!Accept
<1>1. /\ client # None /\ server # None /\ pending /\ pending' = FALSE
      /\ Reset({client, server}) /\ active' = active /\ driverdata' = driverdata
  BY DEF CheckNewConnections, poolVars
<1>2. client \in Sockets /\ server \in Sockets /\ Held(client) /\ Held(server)
  BY <1>1 DEF Inv, Shape, Ends, Held
<1>3. Link[client] = server /\ Link[server] = client
  BY <1>1, <1>2 DEF Link, Inv, Ends
<1>4. Link' = Link
  BY <1>1 DEF Link, Held
<1>5. Inbox' = Wire!Emptied({client, server})
  BY <1>1, ResetEmpties
<1> QED BY <1>1, <1>2, <1>3, <1>4, <1>5 DEF Wire!Accept, Inbox

\* A message of either kind goes behind what the other end has not read yet.
LEMMA SendSends ==
    ASSUME Inv, NEW s, NEW p \in Payloads, SendMessage(s, p) \/ SendUnreliableMessage(s, p)
    PROVE  \E e \in Sockets, m \in Message : Wire!Send(e, m)
<1>1. PICK m \in Message :
         /\ Held(s) /\ driverdata[s] # None
         /\ len[driverdata[s]] + SizeOf(m.payload) + 3 <= MaxMessage
         /\ Put(s, m)
         /\ canSend' \in {canSend, [canSend EXCEPT ![s] = FALSE]}
         /\ UNCHANGED <<poolVars, driverdata, loopVars, userVars>>
  BY SendsPut
<1> DEFINE to == driverdata[s]
<1>2. /\ s \in Sockets /\ to \in Sockets
      /\ buf' = [buf EXCEPT ![to] = WithMessage(buf[to], len[to], m)]
  BY <1>1, PutFacts
<1>3. Framed(buf[to], len[to])
  BY <1>2 DEF Inv, Buffers
<1>4. Queue(WithMessage(buf[to], len[to], m)) = Append(Queue(buf[to]), m)
  BY <1>1, <1>3, QueuePut
<1>5. DOMAIN buf = Sockets
  BY DEF Inv, Shape
<1>6. \A x \in Sockets : Queue(buf'[x]) = IF x = to THEN Append(Queue(buf[to]), m) ELSE Queue(buf[x])
  <2> HIDE DEF to
  <2> QED BY <1>2, <1>4, <1>5
<1>7. Link[s] = to /\ Link[s] # None
  BY <1>1, <1>2 DEF Link
<1>8. Inbox' = [Inbox EXCEPT ![to] = Append(@, m)]
  <2> HIDE DEF to
  <2>1. Inbox' = [x \in Sockets |-> Queue(buf'[x])]
    BY DEF Inbox
  <2> QED BY <1>2, <1>6, <2>1 DEF Inbox
<1>9. Link' = Link /\ pending' = pending
  BY <1>1 DEF Link, Held, poolVars, loopVars
<1>10. Wire!Send(s, m)
  <2> HIDE DEF to
  <2> QED BY <1>7, <1>8, <1>9 DEF Wire!Send, Inbox
<1> QED BY <1>2, <1>10

\* The message taken out of the buffer is the first one sent.
LEMMA GetReceives == ASSUME Inv, NEW s, GetMessage(s) PROVE \E e \in Sockets : Wire!Receive(e)
<1> DEFINE b == buf[s]
           c == Shifted(b, PaddedSize(b[0]))
<1>1. s \in Sockets /\ len[s] # 0 /\ Framed(b, len[s]) /\ buf' = [buf EXCEPT ![s] = c]
  BY GetFacts
<1>2. Queue(b) # <<>> /\ Queue(c) = Tail(Queue(b))
  BY <1>1, QueueGet
<1>3. DOMAIN buf = Sockets
  BY DEF Inv, Shape
<1>4. \A x \in Sockets : Queue(buf'[x]) = IF x = s THEN Queue(c) ELSE Queue(buf[x])
  <2> HIDE DEF c
  <2> QED BY <1>1, <1>3
<1> HIDE DEF c
<1>5. Inbox' = [Inbox EXCEPT ![s] = Tail(@)]
  <2>1. Inbox' = [x \in Sockets |-> Queue(buf'[x])]
    BY DEF Inbox
  <2> QED BY <1>1, <1>2, <1>4, <2>1 DEF Inbox
<1>6. Inbox[s] # <<>>
  BY <1>1, <1>2 DEF Inbox
<1>7. Link' = Link /\ pending' = pending
  BY DEF GetMessage, Link, Held, poolVars, loopVars
<1>8. Wire!Receive(s)
  BY <1>5, <1>6, <1>7 DEF Wire!Receive, Inbox
<1> QED BY <1>1, <1>8

LEMMA CloseShuts ==
    ASSUME Inv, NEW s, Close(s) PROVE s \in Sockets /\ Wire!Shut(s)
<1>1. /\ s \in Sockets /\ ToSet(active') = ToSet(active) \ {s}
      /\ Reset({s}) /\ UNCHANGED pending
      /\ driverdata' = IF driverdata[s] # None
                         THEN [driverdata EXCEPT ![driverdata[s]] = None] ELSE driverdata
  BY CloseFacts
<1>2. /\ driverdata \in [Sockets -> Sockets \cup {None}]
      /\ s # None /\ s \in ToSet(active)
      /\ \A x \in ToSet(active) : driverdata[x] # None => driverdata[driverdata[x]] = x
  BY <1>1, InvPoolSound, LoopbackAssumption DEF PoolSound, Inv, Shape, Close, Held
<1>3. \A x \in Sockets : (x \in ToSet(active)') = (x \in ToSet(active) /\ x # s)
  BY <1>1
<1>4. \A x \in Sockets : Link[x] = IF x \in ToSet(active) THEN driverdata[x] ELSE None
  BY DEF Link, Held
<1>5. \A x \in ToSet(active) : x # s => driverdata'[x] = IF driverdata[x] = s THEN None ELSE driverdata[x]
  <2> SUFFICES ASSUME NEW x \in ToSet(active), x # s
               PROVE  driverdata'[x] = IF driverdata[x] = s THEN None ELSE driverdata[x]
    OBVIOUS
  <2>1. x \in Sockets /\ s \in Sockets /\ s # None /\ None \notin Sockets
    BY <1>1, <1>2, LoopbackAssumption DEF Inv, Lists
  <2>2. CASE driverdata[s] = x
    <3>1. driverdata[x] = s
      BY <1>2, <2>1, <2>2
    <3> QED BY <1>1, <1>2, <2>1, <2>2, <3>1
  <2>3. CASE driverdata[s] # x
    <3>1. driverdata[x] # s
      BY <1>2, <2>1, <2>3
    <3>2. driverdata'[x] = driverdata[x]
      BY <1>1, <1>2, <2>1, <2>3
    <3> QED BY <3>1, <3>2
  <2> QED BY <2>2, <2>3
<1>6. Link' = [x \in Sockets |-> IF x = s \/ Link[x] = s THEN None ELSE Link[x]]
  <2>1. Link' = [x \in Sockets |-> IF x \in ToSet(active)' THEN driverdata'[x] ELSE None]
    BY DEF Link, Held
  <2>2. \A x \in Sockets : (IF x \in ToSet(active)' THEN driverdata'[x] ELSE None)
                             = IF x = s \/ Link[x] = s THEN None ELSE Link[x]
    BY <1>2, <1>3, <1>4, <1>5
  <2> QED BY <2>1, <2>2
<1>7. Inbox' = Wire!Emptied({s})
  BY <1>1, ResetEmpties
<1> QED BY <1>1, <1>6, <1>7 DEF Wire!Shut, Inbox

\* Through framing, alignment and the moving of what is left to the front of the
\* buffer, each end reads what the other one sent, in order, once and unchanged.
THEOREM LoopbackImplementsChannel == Spec /\ Orderly => ImplementsChannel
<1>1. Init => Wire!Init
  <2> SUFFICES ASSUME Init PROVE Wire!Init
    OBVIOUS
  <2>1. \A s \in Sockets : driverdata[s] = None /\ Queue(buf[s]) = <<>>
    BY QueueEmpty DEF Init
  <2> QED BY <2>1 DEF Init, Wire!Init, Link
<1>2. Inv /\ [Next]_vars => [Wire!Next]_(Wire!vars)
  <2> SUFFICES ASSUME Inv, [Next]_vars PROVE Wire!Next \/ UNCHANGED <<Link, Inbox, pending>>
    BY DEF Wire!vars, Inbox
  <2>1. CASE Connect
    BY <2>1, ConnectOpens DEF Wire!Next
  <2>2. CASE ConnectNoClient
    BY <2>2, ConnectNoClientOpens DEF Wire!Next
  <2>3. CASE CheckNewConnections
    BY <2>3, CheckNewConnectionsAccepts DEF Wire!Next
  <2>4. CASE \E s \in InUse, p \in Payloads : SendMessage(s, p) \/ SendUnreliableMessage(s, p)
    <3>1. \E e \in Sockets, m \in Message : Wire!Send(e, m)
      BY <2>4, SendSends
    <3> QED BY <3>1 DEF Wire!Next
  <2>5. CASE Read
    <3>1. \E e \in Sockets : Wire!Receive(e)
      BY <2>5, GetReceives DEF Read
    <3> QED BY <3>1 DEF Wire!Next
  <2>6. CASE ClientClose
    <3>1. netcon \in Sockets /\ Wire!Shut(netcon)
      BY <2>6, CloseShuts DEF ClientClose
    <3> QED BY <3>1 DEF Wire!Next
  <2>7. CASE \E i \in 1 .. MaxClients : DropClient(i)
    <3>1. PICK i \in 1 .. MaxClients : DropClient(i)
      BY <2>7
    <3>2. CASE Held(slots[i])
      <4>1. slots[i] \in Sockets /\ Wire!Shut(slots[i])
        BY <3>1, <3>2, CloseShuts DEF DropClient
      <4> QED BY <4>1 DEF Wire!Next
    <3>3. CASE ~ Held(slots[i])
      <4>1. UNCHANGED <<poolVars, sockVars, loopVars>>
        BY <3>1, <3>3 DEF DropClient
      <4> QED BY <4>1 DEF poolVars, sockVars, loopVars, Link, Held, Inbox
    <3> QED BY <3>2, <3>3
  <2>8. CASE UNCHANGED vars
    BY <2>8 DEF vars, poolVars, sockVars, loopVars, Link, Held, Inbox
  <2> QED BY <2>1, <2>2, <2>3, <2>4, <2>5, <2>6, <2>7, <2>8 DEF Next
<1> QED BY <1>1, <1>2, Invariance, PTL DEF Spec, ImplementsChannel, Wire!Spec

-----------------------------------------------------------------------------
(* A session: what the game on the local machine does with this network. Its   *)
(* constants and state are those of Session; the network is the one above,     *)
(* with the one slot and the messages of a session.                            *)

CONSTANTS Lines, Exits, ExitsEarly, MaxLoads
VARIABLES pc, todo, cbuf, msg, signon, clMessage, clLevel,
          svActive, spawned, sendsignon, svMessage, issued, loads

Game == INSTANCE Session

News ==
    {<<"serverinfo", l>> : l \in Nat} \cup {<<"signon", n>> : n \in 1 .. 3}
      \cup {<<"stufftext", <<"reconnect">>>>}
      \cup {<<"names">>, <<"update">>}
Speech == {<<"prespawn">>, <<"spawn">>, <<"begin">>}
Talk == News \cup Speech \cup {<<"disconnect">>}

OneGame ==
    /\ Game!SessionAssumption
    /\ MaxClients = 1 /\ Payloads = Seq(Talk) /\ \A p : SizeOf(p) = 4

\* The network of Session is this one.
LEMMA SameVars ==
    /\ UNCHANGED Game!netVars <=> UNCHANGED vars
    /\ UNCHANGED Game!netVars => UNCHANGED <<driverdata, canSend, buf, len, pending, client, server, netcon, slots>>
BY DEF Game!netVars, vars, poolVars, sockVars, loopVars, userVars

LEMMA SameReset == ASSUME NEW S PROVE Game!Net!Reset(S) <=> Reset(S)
BY Zenon DEF Game!Net!Reset, Reset, Game!Net!Uncork, Uncork, Game!Net!Empty, Empty

LEMMA SameConnect == ASSUME OneGame, Game!Net!Connect PROVE Connect
<1>1. \A n : Game!Net!Available(n) <=> Available(n)
  BY DEF OneGame, Game!Net!Available, Available
<1>2. \A n : Game!Net!TakeFromPool(n) <=> TakeFromPool(n)
  BY DEF Game!Net!TakeFromPool, TakeFromPool, Game!Net!Reverse, Reverse
<1> QED BY <1>1, <1>2, SameReset, Zenon DEF Game!Net!Connect, Connect

LEMMA SameConnectNoClient == ASSUME OneGame, Game!Net!ConnectNoClient PROVE ConnectNoClient
BY DEF OneGame, Game!Net!ConnectNoClient, ConnectNoClient, Game!Net!Available, Available,
       Game!Net!poolVars, poolVars, Game!Net!sockVars, sockVars, Game!Net!userVars, userVars

LEMMA SameCheck == ASSUME OneGame, Game!Net!CheckNewConnections PROVE CheckNewConnections
<1>1. Game!Net!FreeSlots = FreeSlots
  BY DEF OneGame, Game!Net!FreeSlots, FreeSlots
<1>2. Game!Net!Min(FreeSlots) = Min(FreeSlots)
  BY DEF Game!Net!Min, Min
<1> QED BY <1>1, <1>2, SameReset, Zenon
    DEF Game!Net!CheckNewConnections, CheckNewConnections, Game!Net!poolVars, poolVars

LEMMA SameHeld == ASSUME NEW s PROVE Game!Net!Held(s) <=> Held(s)
BY DEF Game!Net!Held, Held, Game!Net!ToSet, ToSet

LEMMA SamePut == ASSUME OneGame, NEW s, NEW m, Game!Net!Put(s, m) PROVE Put(s, m)
<1>1. \A n : Game!Net!IntAlign(n) = IntAlign(n)
  BY DEF Game!Net!IntAlign, IntAlign
<1>2. \A p : SizeOf(p) = Game!Size(p)
  BY DEF OneGame, Game!Size
<1> QED BY <1>1, <1>2 DEF Game!Net!Put, Put

LEMMA SameSend ==
    ASSUME OneGame, NEW s, NEW p
    PROVE  /\ Game!Net!SendMessage(s, p) => SendMessage(s, p)
           /\ Game!Net!SendUnreliableMessage(s, p) => SendUnreliableMessage(s, p)
<1>1. \A n : Game!Net!RoomFor(s, n) <=> RoomFor(s, n)
  BY DEF Game!Net!RoomFor, RoomFor
<1>2. \A q : SizeOf(q) = Game!Size(q)
  BY DEF OneGame, Game!Size
<1> QED BY <1>1, <1>2, SamePut, SameHeld
    DEF Game!Net!SendMessage, SendMessage, Game!Net!SendUnreliableMessage, SendUnreliableMessage,
        Game!Net!poolVars, poolVars, Game!Net!loopVars, loopVars, Game!Net!userVars, userVars

LEMMA SameGet == ASSUME OneGame, NEW s, Game!Net!GetMessage(s) PROVE GetMessage(s)
<1>1. \A m : Game!Net!PaddedSize(m) = PaddedSize(m)
  BY DEF OneGame, Game!Size, Game!Net!PaddedSize, PaddedSize, Game!Net!IntAlign, IntAlign
<1> QED BY <1>1, SameHeld, Zenon
    DEF Game!Net!GetMessage, GetMessage, Game!Net!Acknowledge, Acknowledge,
        Game!Net!poolVars, poolVars, Game!Net!loopVars, loopVars, Game!Net!userVars, userVars

LEMMA SameClose == ASSUME NEW s, Game!Net!Close(s) PROVE Close(s)
BY SameHeld, SameReset, Zenon
   DEF Game!Net!Close, Close, Game!Net!Detach, Detach, Game!Net!Forget, Forget,
       Game!Net!FreeQSocket, FreeQSocket, Game!Net!Unlinked, Unlinked, Game!Net!RemoveAt, RemoveAt

LEMMA SameClientClose == ASSUME Game!Net!ClientClose PROVE ClientClose
BY SameClose DEF Game!Net!ClientClose, ClientClose

LEMMA SameDrop == ASSUME Game!Net!DropClient(1) PROVE DropClient(1)
BY SameClose, SameHeld, Zenon
   DEF Game!Net!DropClient, DropClient, Game!Net!poolVars, poolVars, Game!Net!sockVars, sockVars,
       Game!Net!loopVars, loopVars

-----------------------------------------------------------------------------
(* What a call does to the two ends, when there is one slot.                 *)

\* A stale slot holds the driver's server end; the client's end and the slot are
\* linked to one another as long as both exist.
LEMMA EndFacts ==
    ASSUME OneGame, Inv
    PROVE  /\ None \notin Sockets
           /\ netcon = client /\ client \in Sockets \cup {None} /\ server \in Sockets \cup {None}
           /\ Game!Slot \in {None, server} /\ slots = [i \in 1 .. 1 |-> Game!Slot]
           /\ Game!Slot # None <=> conns = 1
           /\ Game!Slot = None <=> conns = 0
           /\ client # None => client # server
           /\ netcon # None => (Game!Linked(netcon) <=> server # None)
           /\ Game!Slot # None => (Game!Linked(Game!Slot) <=> client # None)
           /\ netcon # None => driverdata[netcon] = server
           /\ Game!Slot # None => driverdata[Game!Slot] = client
           /\ \A s \in Sockets : len[s] \in 0 .. MaxMessage + 4 /\ Framed(buf[s], len[s])
           /\ canSend \in [Sockets -> BOOLEAN]
<1>1. None \notin Sockets
  BY LoopbackAssumption
<1>2. MaxClients = 1 /\ 1 \in 1 .. MaxClients /\ \A i \in 1 .. MaxClients : i = 1
  BY DEF OneGame
<1>3. /\ netcon = client /\ client \in Sockets \cup {None} /\ server \in Sockets \cup {None}
      /\ client # None => client # server
      /\ client # None => driverdata[client] = server
      /\ server # None => driverdata[server] = client
      /\ ToSet(active) = {client, server} \ {None}
  BY DEF Inv, Ends, Shape
<1>4. Game!Slot \in {None, server}
  BY <1>2 DEF Inv, Ends, Game!Slot
<1>5. slots = [i \in 1 .. 1 |-> Game!Slot]
  BY <1>2 DEF Inv, Shape, Game!Slot
<1>6. NoSlotTaken <=> Game!Slot = None
  BY <1>2 DEF NoSlotTaken, Game!Slot
<1>7. conns = IF Game!Slot = None THEN 0 ELSE 1
  BY <1>6 DEF Inv, Ends
<1>8. \A s : Game!Linked(s) <=> s \in ToSet(active) /\ driverdata[s] # None
  BY SameHeld DEF Game!Linked, Held
<1>9. \A s \in Sockets : len[s] \in 0 .. MaxMessage + 4 /\ Framed(buf[s], len[s])
  BY DEF Inv, Shape, Buffers
<1>10. canSend \in [Sockets -> BOOLEAN]
  BY DEF Inv, Shape
<1> QED BY <1>1, <1>3, <1>4, <1>5, <1>7, <1>8, <1>9, <1>10

\* Loop_Connect succeeds only with the slot free, and starts with empty buffers.
LEMMA DialEffect ==
    ASSUME OneGame, Inv, Game!Net!Connect
    PROVE  /\ Inv' /\ [Next]_vars
           /\ netcon = None /\ Game!Slot = None /\ Game!Slot' = None
           /\ netcon' \in Sockets /\ server' \in Sockets /\ netcon' # server'
           /\ len'[netcon'] = 0 /\ len'[server'] = 0 /\ pending'
           /\ buf'[netcon'] = Empty /\ buf'[server'] = Empty
<1>1. Connect
  BY SameConnect
<1>2. PICK c \in Sockets, s \in Sockets :
         /\ client = None /\ c # s
         /\ Reset({c, s})
         /\ client' = c /\ server' = s /\ netcon' = c /\ pending' = TRUE
         /\ UNCHANGED <<slots, conns>>
  BY <1>1, ConnectFacts
<1>3. buf'[c] = Empty /\ buf'[s] = Empty /\ len'[c] = 0 /\ len'[s] = 0
  BY <1>2 DEF Reset
<1>4. Game!Slot = None /\ Game!Slot' = Game!Slot
  <2>1. conns < 1
    BY <1>1, <1>2 DEF OneGame, Connect, Available
  <2>2. conns \in {0, 1}
    BY EndFacts
  <2> QED BY <1>2, <2>1, <2>2, EndFacts DEF Game!Slot
<1>5. Alone
  BY DEF Alone, OneGame
<1> QED BY <1>1, <1>2, <1>3, <1>4, <1>5, ConnectInv DEF Next, Connect

LEMMA DialFailsEffect ==
    ASSUME OneGame, Inv, Game!Net!ConnectNoClient
    PROVE  /\ Inv' /\ [Next]_vars
           /\ netcon = None
           /\ UNCHANGED <<netcon, slots, server, client, len, buf, canSend, driverdata>>
<1>1. ConnectNoClient
  BY SameConnectNoClient
<1>2. Alone
  BY DEF Alone, OneGame
<1> QED BY <1>1, <1>2, ConnectNoClientInv DEF Next, ConnectNoClient, poolVars, sockVars, userVars

LEMMA AcceptEffect ==
    ASSUME OneGame, Inv, Game!Net!CheckNewConnections
    PROVE  /\ Inv' /\ [Next]_vars
           /\ netcon # None /\ netcon' = netcon /\ server' = server /\ server # None
           /\ Game!Slot = None /\ Game!Slot' = server
           /\ len'[netcon] = 0 /\ len'[server] = 0 /\ ~pending'
           /\ buf'[netcon] = Empty /\ buf'[server] = Empty
<1>1. CheckNewConnections
  BY SameCheck
<1> DEFINE k == Min(FreeSlots)
<1>2. /\ client # None /\ server # None /\ FreeSlots # {}
      /\ pending' = FALSE /\ Reset({client, server})
      /\ slots' = [slots EXCEPT ![k] = server]
      /\ UNCHANGED <<driverdata, client, server, netcon>>
  BY <1>1 DEF CheckNewConnections
<1>3. k = 1 /\ Game!Slot = None
  <2>1. FreeSlots = {1}
    BY <1>2 DEF FreeSlots, OneGame
  <2> QED BY <2>1 DEF Min, FreeSlots, Game!Slot
<1> HIDE DEF k
<1>4. Game!Slot' = server
  BY <1>2, <1>3, EndFacts DEF Game!Slot
<1>5. client \in Sockets /\ server \in Sockets /\ netcon = client
  BY <1>2, EndFacts
<1>6. buf'[client] = Empty /\ buf'[server] = Empty /\ len'[client] = 0 /\ len'[server] = 0
  BY <1>2, <1>5 DEF Reset
<1> QED BY <1>1, <1>2, <1>3, <1>4, <1>5, <1>6, CheckNewConnectionsInv DEF Next

\* A message is put behind those in the buffer of the end that s is linked to.
LEMMA SendEffect ==
    ASSUME OneGame, Inv, NEW s, s \in {netcon, Game!Slot} \ {None}, NEW p \in Seq(Talk),
           Game!Net!SendMessage(s, p) \/ Game!Net!SendUnreliableMessage(s, p)
    PROVE  /\ Inv' /\ [Next]_vars
           /\ UNCHANGED <<driverdata, pending, client, server, netcon, slots, conns, active>>
           /\ driverdata[s] \in Sockets
           /\ \A x \in Sockets : x # driverdata[s] => buf'[x] = buf[x] /\ len'[x] = len[x]
           /\ DOMAIN buf'[driverdata[s]] = DOMAIN buf[driverdata[s]] \cup {len[driverdata[s]]}
           /\ \A o \in DOMAIN buf'[driverdata[s]] :
                 buf'[driverdata[s]][o].payload = IF o = len[driverdata[s]] THEN p
                                                  ELSE buf[driverdata[s]][o].payload
           /\ len[driverdata[s]] = 0 => len'[driverdata[s]] = 8
           /\ canSend' \in {canSend, [canSend EXCEPT ![s] = FALSE]}
           /\ Game!Net!SendMessage(s, p) => canSend' = [canSend EXCEPT ![s] = FALSE]
<1> DEFINE to == driverdata[s]
<1>1. p \in Payloads /\ SizeOf(p) = 4 /\ \A q : SizeOf(q) = 4
  BY DEF OneGame
<1>2. SendMessage(s, p) \/ SendUnreliableMessage(s, p)
  BY SameSend
<1>3. Inv'
  BY <1>1, <1>2, SendMessageInv
<1>4. s \in InUse
  <2>1. DOMAIN slots = 1 .. MaxClients /\ 1 \in 1 .. MaxClients /\ Game!Slot = slots[1]
    BY DEF Inv, Shape, OneGame, Game!Slot
  <2> QED BY <2>1 DEF InUse, Range
<1>5. Next
  BY <1>1, <1>2, <1>4 DEF Next
<1>6. PICK r \in BOOLEAN : Put(s, [reliable |-> r, payload |-> p])
  BY <1>2 DEF SendMessage, SendUnreliableMessage
<1>7. /\ UNCHANGED <<driverdata, poolVars, loopVars, userVars>>
      /\ Held(s) /\ to # None
      /\ canSend' \in {canSend, [canSend EXCEPT ![s] = FALSE]}
  BY <1>2 DEF SendMessage, SendUnreliableMessage
<1>8. Game!Net!SendMessage(s, p) => canSend' = [canSend EXCEPT ![s] = FALSE]
  BY SameSend DEF SendMessage
<1>9. to \in Sockets /\ s \in Sockets
  BY <1>7, HeldEnds DEF Inv, Shape
<1> DEFINE m == [reliable |-> r, payload |-> p]
<1>10. m.payload = p
  OBVIOUS
<1>11. /\ buf' = [buf EXCEPT ![to] = [o \in DOMAIN @ \cup {len[to]} |-> IF o = len[to] THEN m ELSE @[o]]]
       /\ len' = [len EXCEPT ![to] = IntAlign(@ + SizeOf(m.payload) + 4)]
  BY <1>6 DEF Put
<1>12. DOMAIN buf = Sockets /\ DOMAIN len = Sockets
  BY DEF Inv, Shape
<1> HIDE DEF to, m
<1>13. \A x \in Sockets : x # to => buf'[x] = buf[x] /\ len'[x] = len[x]
  BY <1>11, <1>12
<1>14. buf'[to] = [o \in DOMAIN buf[to] \cup {len[to]} |-> IF o = len[to] THEN m ELSE buf[to][o]]
  BY <1>9, <1>11, <1>12
<1>15. /\ DOMAIN buf'[to] = DOMAIN buf[to] \cup {len[to]}
       /\ \A o \in DOMAIN buf'[to] : buf'[to][o] = IF o = len[to] THEN m ELSE buf[to][o]
  BY <1>14
<1>16. \A o \in DOMAIN buf'[to] : buf'[to][o].payload = IF o = len[to] THEN p ELSE buf[to][o].payload
  BY <1>10, <1>15
<1>17. len[to] = 0 => len'[to] = 8
  <2>1. len'[to] = IntAlign(len[to] + 4 + 4)
    BY <1>1, <1>9, <1>11, <1>12
  <2>2. IntAlign(0 + 4 + 4) = 8
    BY DEF IntAlign
  <2> QED BY <2>1, <2>2
<1>18. UNCHANGED <<driverdata, pending, client, server, netcon, slots, conns, active>>
  BY <1>7 DEF poolVars, loopVars, userVars
<1> QED BY <1>3, <1>5, <1>7, <1>8, <1>9, <1>13, <1>15, <1>16, <1>17, <1>18 DEF to

\* The message in front is taken out.
LEMMA GetEffect ==
    ASSUME OneGame, Inv, NEW s, s \in {netcon, Game!Slot} \ {None}, Game!Net!GetMessage(s)
    PROVE  /\ Inv' /\ [Next]_vars
           /\ UNCHANGED <<driverdata, pending, client, server, netcon, slots, conns, active>>
           /\ s \in Sockets /\ 0 \in DOMAIN buf[s] /\ buf[s][0].payload \in Seq(Talk)
           /\ \A x \in Sockets : x # s => buf'[x] = buf[x] /\ len'[x] = len[x]
           /\ \A o \in DOMAIN buf'[s] : \E q \in DOMAIN buf[s] : buf'[s][o] = buf[s][q]
           /\ len[s] = 8 => len'[s] = 0
           /\ canSend' \in {canSend, [canSend EXCEPT ![driverdata[s]] = TRUE]}
<1>1. GetMessage(s)
  BY SameGet
<1>2. Inv'
  BY <1>1, GetMessageInv
<1>3. s \in InUse
  <2>1. DOMAIN slots = 1 .. MaxClients /\ 1 \in 1 .. MaxClients /\ Game!Slot = slots[1]
    BY DEF Inv, Shape, OneGame, Game!Slot
  <2> QED BY <2>1 DEF InUse, Range
<1>4. Next
  BY <1>1, <1>3 DEF Next, Read
<1>5. s \in Sockets /\ len[s] # 0 /\ Framed(buf[s], len[s])
      /\ buf' = [buf EXCEPT ![s] = Shifted(buf[s], PaddedSize(buf[s][0]))]
  BY <1>1, GetFacts
<1>6. 0 \in DOMAIN buf[s] /\ buf[s][0] \in Message
  BY <1>5, FramedGet
<1>7. buf[s][0].payload \in Seq(Talk)
  BY <1>6 DEF Message, OneGame
<1>8. DOMAIN buf = Sockets /\ DOMAIN len = Sockets
  BY DEF Inv, Shape
<1>9. len' = [len EXCEPT ![s] = @ - PaddedSize(buf[s][0])]
  BY <1>1 DEF GetMessage
<1>10. \A x \in Sockets : x # s => buf'[x] = buf[x] /\ len'[x] = len[x]
  BY <1>5, <1>8, <1>9
<1>11. \A o \in DOMAIN buf'[s] : \E q \in DOMAIN buf[s] : buf'[s][o] = buf[s][q]
  <2> DEFINE n == PaddedSize(buf[s][0])
  <2>1. buf'[s] = Shifted(buf[s], n)
    BY <1>5, <1>8
  <2> HIDE DEF n
  <2>2. Shifted(buf[s], n) = [o \in {x - n : x \in DOMAIN buf[s] \ {0}} |-> buf[s][o + n]]
    BY DEF Shifted
  <2>3. \A x \in DOMAIN buf[s] : x \in Int
    BY <1>5 DEF Framed
  <2>4. n \in Int
    BY <1>6, Padded DEF n
  <2>5. ASSUME NEW o \in DOMAIN buf'[s] PROVE \E q \in DOMAIN buf[s] : buf'[s][o] = buf[s][q]
    <3>1. PICK x \in DOMAIN buf[s] \ {0} : o = x - n
      BY <2>1, <2>2
    <3>2. o + n = x
      BY <3>1, <2>3, <2>4
    <3>3. buf'[s][o] = buf[s][o + n]
      BY <2>1, <2>2
    <3> QED BY <3>1, <3>2, <3>3
  <2> QED BY <2>5
<1>12. len[s] = 8 => len'[s] = 0
  <2>1. PaddedSize(buf[s][0]) = 8
    <3>1. IntAlign(4 + 4) = 8
      BY DEF IntAlign
    <3> QED BY <3>1 DEF PaddedSize, OneGame
  <2> QED BY <2>1, <1>5, <1>8, <1>9
<1>13. canSend' \in {canSend, [canSend EXCEPT ![driverdata[s]] = TRUE]}
       /\ UNCHANGED <<driverdata, poolVars, loopVars, userVars>>
  BY <1>1 DEF GetMessage, Acknowledge
<1>14. UNCHANGED <<driverdata, pending, client, server, netcon, slots, conns, active>>
  BY <1>13 DEF poolVars, loopVars, userVars
<1> QED BY <1>2, <1>4, <1>5, <1>6, <1>7, <1>10, <1>11, <1>12, <1>13, <1>14

\* The client's half of the link goes, the server's stays.
LEMMA CloseEffect ==
    ASSUME OneGame, Inv, Game!Net!ClientClose
    PROVE  /\ Inv' /\ [Next]_vars
           /\ netcon # None /\ netcon' = None /\ server' = server /\ UNCHANGED slots
<1>1. ClientClose
  BY SameClientClose
<1>2. netcon # None /\ Close(netcon) /\ netcon' = None /\ UNCHANGED <<slots, conns>>
  BY <1>1 DEF ClientClose
<1>3. server' = server
  BY <1>2, CloseFacts DEF Inv, Ends
<1> QED BY <1>1, <1>2, <1>3, ClientCloseInv DEF Next

LEMMA DropEffect ==
    ASSUME OneGame, Inv, Game!Net!DropClient(1)
    PROVE  Inv' /\ [Next]_vars /\ netcon' = netcon /\ Game!Slot' = None
<1>1. DropClient(1) /\ 1 \in 1 .. MaxClients
  BY SameDrop DEF OneGame
<1>2. slots' = [slots EXCEPT ![1] = None] /\ UNCHANGED netcon
  BY <1>1 DEF DropClient
<1>3. Game!Slot' = None
  BY <1>2, EndFacts DEF Game!Slot
<1> QED BY <1>1, <1>2, <1>3, DropClientInv DEF Next

-----------------------------------------------------------------------------
(* What is left to do, who is connected, and what is said.                   *)

hangup == <<"hangup">>
close == <<"close">>
shutdown == <<"shutdown">>
drop == <<"drop">>
notify == <<"notify">>
dial == <<"dial">>
spawn(o) == <<"spawn", o>>

\* The operations that may be left, by whether there is a client (c) and an active
\* server (a): a client hangs up before a server goes, and a server whose client
\* has gone is on its way to be shut down or to be called anew.
Agenda(t, c, a, o) ==
    \/ t \in {<<hangup, dial>>, <<shutdown, hangup>>}
    \/ (a => c) /\ t \in {<<>>, <<<<"reconnect">>>>, <<hangup, shutdown>>,
                          <<hangup, shutdown, notify, spawn(o), hangup, dial>>}
    \/ c /\ t \in {<<close, shutdown>>, <<close, dial>>,
                   <<close, shutdown, notify, spawn(o), hangup, dial>>}
    \/ ~c /\ t = <<dial>>
    \/ ~a /\ t = <<hangup>>
    \/ ~c /\ a /\ t \in {<<shutdown, shutdown>>, <<shutdown, dial>>,
                         <<shutdown, shutdown, notify, spawn(o), hangup, dial>>}
    \/ ~c /\ ~a /\ t \in {<<drop, shutdown>>, <<shutdown>>, <<drop, dial>>, <<drop, hangup>>,
                          <<drop, shutdown, notify, spawn(o), hangup, dial>>,
                          <<shutdown, notify, spawn(o), hangup, dial>>,
                          <<notify, spawn(o), hangup, dial>>, <<spawn(o), hangup, dial>>}
    \/ c /\ ~a /\ t \in {<<hangup, drop, hangup>>, <<close, drop, hangup>>, <<close>>}
    \/ c /\ a /\ t \in {<<notify, spawn(o)>>, <<spawn(o)>>}

Planned == \E o \in Game!Outcomes : Agenda(todo, Game!Connected, svActive, o)

Running == {"accept", "run", "physics", "datagram", "deliver"}

Placed ==
    /\ pc \in {"input", "commands", "send", "read", "abort"} \cup Running
    /\ todo # <<>> => pc \in {"commands", "abort"}
    /\ todo = <<>> /\ pc \in Running => svActive
    /\ msg # <<>> => todo = <<>> /\ ((pc = "run" /\ Game!Slot # None) \/ (pc = "read" /\ Game!Connected))

\* A connection that waits to be accepted has both its ends and a slot to go to.
Awaited == Game!Connected /\ pending => server # None /\ Game!Slot = None

Carries(b, S) == \A o \in DOMAIN b : b[o].payload \in Seq(S)

\* Each side hears what the other one says, but for the farewell of a client that
\* closes next.
Closing == todo # <<>> /\ Head(todo) = close

Heard ==
    /\ Game!Connected => Carries(buf[netcon], News)
    /\ Game!Connected /\ server # None /\ ~Closing => Carries(buf[server], Speech)

Spoken ==
    /\ clMessage \in Seq(Speech) /\ svMessage \in Seq(News) /\ cbuf \in Seq(Game!Commands)
    /\ msg \in IF pc = "run" THEN Seq(Speech) ELSE Seq(News)

Typed ==
    /\ svActive \in BOOLEAN /\ spawned \in BOOLEAN /\ sendsignon \in BOOLEAN /\ issued \in BOOLEAN
    /\ signon \in 0 .. 4 /\ clLevel \in Nat /\ loads \in Nat

SInv == Inv /\ Planned /\ Placed /\ Awaited /\ Heard /\ Spoken /\ Typed

LEMMA Joined ==
    ASSUME NEW U, NEW p \in Seq(U), NEW q \in Seq(U), NEW r \in Seq(U),
           Len(r) = Len(p) + Len(q),
           \A i \in 1 .. Len(p) : r[i] = p[i],
           \A i \in 1 .. Len(q) : r[Len(p) + i] = q[i]
    PROVE  p \o q = r
<1>1. /\ p \o q \in Seq(U) /\ Len(p \o q) = Len(p) + Len(q)
      /\ \A i \in 1 .. Len(p) + Len(q) : (p \o q)[i] = IF i <= Len(p) THEN p[i] ELSE q[i - Len(p)]
  BY ConcatProperties
<1>2. Len(p) \in Nat /\ Len(q) \in Nat
  OBVIOUS
<1>3. ASSUME NEW i \in 1 .. Len(p) + Len(q) PROVE (p \o q)[i] = r[i]
  <2>1. CASE i <= Len(p)
    BY <1>1, <1>2, <2>1
  <2>2. CASE ~ (i <= Len(p))
    <3>1. i - Len(p) \in 1 .. Len(q) /\ Len(p) + (i - Len(p)) = i
      BY <1>2, <2>2
    <3>2. r[Len(p) + (i - Len(p))] = q[i - Len(p)]
      BY <3>1
    <3> QED BY <1>1, <2>2, <3>1, <3>2
  <2> QED BY <2>1, <2>2
<1> QED BY <1>1, <1>3, SeqEqual

LEMMA Prepend ==
    /\ \A x : <<x>> \o <<>> = <<x>>
    /\ \A x, a : <<x>> \o <<a>> = <<x, a>>
    /\ \A x, a, b : <<x>> \o <<a, b>> = <<x, a, b>>
    /\ \A x, a, b, c, d, e : <<x>> \o <<a, b, c, d, e>> = <<x, a, b, c, d, e>>
    /\ \A x, y, a : <<x, y>> \o <<a>> = <<x, y, a>>
    /\ \A x, y, a, b : <<x, y>> \o <<a, b>> = <<x, y, a, b>>
    /\ \A x, y, a, b, c, d : <<x, y, a, b>> \o <<c, d>> = <<x, y, a, b, c, d>>
<1>1. \A x : <<x>> \o <<>> = <<x>>
  OBVIOUS
<1>2. ASSUME NEW x, NEW a
      PROVE  <<x>> \o <<a>> = <<x, a>>
  <2> DEFINE U == {x, a}
             p == <<x>>
             q == <<a>>
             r == <<x, a>>
  <2>1. /\ p \in Seq(U) /\ q \in Seq(U) /\ r \in Seq(U)
        /\ Len(p) = 1 /\ Len(q) = 1 /\ Len(r) = 1 + 1
    OBVIOUS
  <2>2. \A i \in 1 .. 1 : r[i] = p[i]
    OBVIOUS
  <2>3. \A i \in 1 .. 1 : r[1 + i] = q[i]
    OBVIOUS
  <2> HIDE DEF p, q, r, U
  <2>4. /\ \A i \in 1 .. Len(p) : r[i] = p[i]
        /\ \A i \in 1 .. Len(q) : r[Len(p) + i] = q[i]
        /\ Len(r) = Len(p) + Len(q)
    BY <2>1, <2>2, <2>3
  <2>5. p \o q = r
    BY <2>1, <2>4, Joined, Zenon
  <2> QED BY <2>5 DEF p, q, r
<1>3. ASSUME NEW x, NEW a, NEW b
      PROVE  <<x>> \o <<a, b>> = <<x, a, b>>
  <2> DEFINE U == {x, a, b}
             p == <<x>>
             q == <<a, b>>
             r == <<x, a, b>>
  <2>1. /\ p \in Seq(U) /\ q \in Seq(U) /\ r \in Seq(U)
        /\ Len(p) = 1 /\ Len(q) = 2 /\ Len(r) = 1 + 2
    OBVIOUS
  <2>2. \A i \in 1 .. 1 : r[i] = p[i]
    OBVIOUS
  <2>3. \A i \in 1 .. 2 : r[1 + i] = q[i]
    OBVIOUS
  <2> HIDE DEF p, q, r, U
  <2>4. /\ \A i \in 1 .. Len(p) : r[i] = p[i]
        /\ \A i \in 1 .. Len(q) : r[Len(p) + i] = q[i]
        /\ Len(r) = Len(p) + Len(q)
    BY <2>1, <2>2, <2>3
  <2>5. p \o q = r
    BY <2>1, <2>4, Joined, Zenon
  <2> QED BY <2>5 DEF p, q, r
<1>4. ASSUME NEW x, NEW a, NEW b, NEW c, NEW d, NEW e
      PROVE  <<x>> \o <<a, b, c, d, e>> = <<x, a, b, c, d, e>>
  <2> DEFINE U == {x, a, b, c, d, e}
             p == <<x>>
             q == <<a, b, c, d, e>>
             r == <<x, a, b, c, d, e>>
  <2>1. /\ p \in Seq(U) /\ q \in Seq(U) /\ r \in Seq(U)
        /\ Len(p) = 1 /\ Len(q) = 5 /\ Len(r) = 1 + 5
    OBVIOUS
  <2>2. \A i \in 1 .. 1 : r[i] = p[i]
    OBVIOUS
  <2>3. \A i \in 1 .. 5 : r[1 + i] = q[i]
    OBVIOUS
  <2> HIDE DEF p, q, r, U
  <2>4. /\ \A i \in 1 .. Len(p) : r[i] = p[i]
        /\ \A i \in 1 .. Len(q) : r[Len(p) + i] = q[i]
        /\ Len(r) = Len(p) + Len(q)
    BY <2>1, <2>2, <2>3
  <2>5. p \o q = r
    BY <2>1, <2>4, Joined, Zenon
  <2> QED BY <2>5 DEF p, q, r
<1>5. ASSUME NEW x, NEW y, NEW a
      PROVE  <<x, y>> \o <<a>> = <<x, y, a>>
  <2> DEFINE U == {x, y, a}
             p == <<x, y>>
             q == <<a>>
             r == <<x, y, a>>
  <2>1. /\ p \in Seq(U) /\ q \in Seq(U) /\ r \in Seq(U)
        /\ Len(p) = 2 /\ Len(q) = 1 /\ Len(r) = 2 + 1
    OBVIOUS
  <2>2. \A i \in 1 .. 2 : r[i] = p[i]
    OBVIOUS
  <2>3. \A i \in 1 .. 1 : r[2 + i] = q[i]
    OBVIOUS
  <2> HIDE DEF p, q, r, U
  <2>4. /\ \A i \in 1 .. Len(p) : r[i] = p[i]
        /\ \A i \in 1 .. Len(q) : r[Len(p) + i] = q[i]
        /\ Len(r) = Len(p) + Len(q)
    BY <2>1, <2>2, <2>3
  <2>5. p \o q = r
    BY <2>1, <2>4, Joined, Zenon
  <2> QED BY <2>5 DEF p, q, r
<1>6. ASSUME NEW x, NEW y, NEW a, NEW b
      PROVE  <<x, y>> \o <<a, b>> = <<x, y, a, b>>
  <2> DEFINE U == {x, y, a, b}
             p == <<x, y>>
             q == <<a, b>>
             r == <<x, y, a, b>>
  <2>1. /\ p \in Seq(U) /\ q \in Seq(U) /\ r \in Seq(U)
        /\ Len(p) = 2 /\ Len(q) = 2 /\ Len(r) = 2 + 2
    OBVIOUS
  <2>2. \A i \in 1 .. 2 : r[i] = p[i]
    OBVIOUS
  <2>3. \A i \in 1 .. 2 : r[2 + i] = q[i]
    OBVIOUS
  <2> HIDE DEF p, q, r, U
  <2>4. /\ \A i \in 1 .. Len(p) : r[i] = p[i]
        /\ \A i \in 1 .. Len(q) : r[Len(p) + i] = q[i]
        /\ Len(r) = Len(p) + Len(q)
    BY <2>1, <2>2, <2>3
  <2>5. p \o q = r
    BY <2>1, <2>4, Joined, Zenon
  <2> QED BY <2>5 DEF p, q, r
<1>7. ASSUME NEW x, NEW y, NEW a, NEW b, NEW c, NEW d
      PROVE  <<x, y, a, b>> \o <<c, d>> = <<x, y, a, b, c, d>>
  <2> DEFINE U == {x, y, a, b, c, d}
             p == <<x, y, a, b>>
             q == <<c, d>>
             r == <<x, y, a, b, c, d>>
  <2>1. /\ p \in Seq(U) /\ q \in Seq(U) /\ r \in Seq(U)
        /\ Len(p) = 4 /\ Len(q) = 2 /\ Len(r) = 4 + 2
    OBVIOUS
  <2>2. \A i \in 1 .. 4 : r[i] = p[i]
    OBVIOUS
  <2>3. \A i \in 1 .. 2 : r[4 + i] = q[i]
    OBVIOUS
  <2> HIDE DEF p, q, r, U
  <2>4. /\ \A i \in 1 .. Len(p) : r[i] = p[i]
        /\ \A i \in 1 .. Len(q) : r[Len(p) + i] = q[i]
        /\ Len(r) = Len(p) + Len(q)
    BY <2>1, <2>2, <2>3
  <2>5. p \o q = r
    BY <2>1, <2>4, Joined, Zenon
  <2> QED BY <2>5 DEF p, q, r
<1> QED BY <1>1, <1>2, <1>3, <1>4, <1>5, <1>6, <1>7, Zenon

LEMMA HangupNext ==
    ASSUME NEW t, NEW c \in BOOLEAN, NEW a \in BOOLEAN, NEW o, Agenda(t, c, a, o),
           t # <<>>, Head(t)[1] = "hangup"
    PROVE  /\ c => /\ Agenda(<<close>> \o Tail(t), c, a, o)
                   /\ <<close>> \o Tail(t) # <<>> /\ Head(<<close>> \o Tail(t)) = close
           /\ ~c => Agenda(<<>> \o Tail(t), c, a, o)
<1> USE DEF hangup, close, shutdown, drop, notify, dial, spawn
<1>1. \/ t = <<hangup, dial>>
      \/ (a => c) /\ t = <<hangup, shutdown>>
      \/ (a => c) /\ t = <<hangup, shutdown, notify, spawn(o), hangup, dial>>
      \/ ~a /\ t = <<hangup>>
      \/ c /\ ~a /\ t = <<hangup, drop, hangup>>
  BY DEF Agenda
<1>2. CASE t = <<hangup, dial>>
  <2>1. Tail(t) = <<dial>> /\ <<>> \o Tail(t) = <<dial>> /\ <<close>> \o Tail(t) = <<close, dial>>
    BY <1>2, Prepend
  <2> QED BY <2>1 DEF Agenda
<1>3. CASE (a => c) /\ t = <<hangup, shutdown>>
  <2>1. Tail(t) = <<shutdown>> /\ <<>> \o Tail(t) = <<shutdown>> /\ <<close>> \o Tail(t) = <<close, shutdown>>
    BY <1>3, Prepend
  <2> QED BY <1>3, <2>1 DEF Agenda
<1>4. CASE (a => c) /\ t = <<hangup, shutdown, notify, spawn(o), hangup, dial>>
  <2>1. /\ Tail(t) = <<shutdown, notify, spawn(o), hangup, dial>>
        /\ <<>> \o Tail(t) = <<shutdown, notify, spawn(o), hangup, dial>>
        /\ <<close>> \o Tail(t) = <<close, shutdown, notify, spawn(o), hangup, dial>>
    BY <1>4, Prepend
  <2> QED BY <1>4, <2>1 DEF Agenda
<1>5. CASE ~a /\ t = <<hangup>>
  <2>1. Tail(t) = <<>> /\ <<>> \o Tail(t) = <<>> /\ <<close>> \o Tail(t) = <<close>>
    BY <1>5, Prepend
  <2> QED BY <1>5, <2>1 DEF Agenda
<1>6. CASE c /\ ~a /\ t = <<hangup, drop, hangup>>
  <2>1. Tail(t) = <<drop, hangup>> /\ <<close>> \o Tail(t) = <<close, drop, hangup>>
    BY <1>6, Prepend
  <2> QED BY <1>6, <2>1 DEF Agenda
<1> QED BY <1>1, <1>2, <1>3, <1>4, <1>5, <1>6

LEMMA CloseNext ==
    ASSUME NEW t, NEW c \in BOOLEAN, NEW a \in BOOLEAN, NEW o, Agenda(t, c, a, o),
           t # <<>>, Head(t)[1] = "close"
    PROVE  /\ a => Agenda(<<shutdown>> \o Tail(t), FALSE, a, o)
           /\ ~a => Agenda(<<>> \o Tail(t), FALSE, a, o)
<1> USE DEF hangup, close, shutdown, drop, notify, dial, spawn
<1>1. \/ c /\ t = <<close, shutdown>>
      \/ c /\ t = <<close, dial>>
      \/ c /\ t = <<close, shutdown, notify, spawn(o), hangup, dial>>
      \/ c /\ ~a /\ t = <<close, drop, hangup>>
      \/ c /\ ~a /\ t = <<close>>
  BY DEF Agenda
<1>2. CASE c /\ t = <<close, shutdown>>
  <2>1. /\ Tail(t) = <<shutdown>>
        /\ <<>> \o Tail(t) = <<shutdown>>
        /\ <<shutdown>> \o Tail(t) = <<shutdown, shutdown>>
    BY <1>2, Prepend
  <2> QED BY <1>2, <2>1 DEF Agenda
<1>3. CASE c /\ t = <<close, dial>>
  <2>1. /\ Tail(t) = <<dial>>
        /\ <<>> \o Tail(t) = <<dial>>
        /\ <<shutdown>> \o Tail(t) = <<shutdown, dial>>
    BY <1>3, Prepend
  <2> QED BY <1>3, <2>1 DEF Agenda
<1>4. CASE c /\ t = <<close, shutdown, notify, spawn(o), hangup, dial>>
  <2>1. /\ Tail(t) = <<shutdown, notify, spawn(o), hangup, dial>>
        /\ <<>> \o Tail(t) = <<shutdown, notify, spawn(o), hangup, dial>>
        /\ <<shutdown>> \o Tail(t) = <<shutdown, shutdown, notify, spawn(o), hangup, dial>>
    BY <1>4, Prepend
  <2> QED BY <1>4, <2>1 DEF Agenda
<1>5. CASE c /\ ~a /\ t = <<close, drop, hangup>>
  <2>1. /\ Tail(t) = <<drop, hangup>>
        /\ <<>> \o Tail(t) = <<drop, hangup>>
    BY <1>5, Prepend
  <2> QED BY <1>5, <2>1 DEF Agenda
<1>6. CASE c /\ ~a /\ t = <<close>>
  <2>1. /\ Tail(t) = <<>>
        /\ <<>> \o Tail(t) = <<>>
    BY <1>6, Prepend
  <2> QED BY <1>6, <2>1 DEF Agenda
<1> QED BY <1>1, <1>2, <1>3, <1>4, <1>5, <1>6

LEMMA ShutdownNext ==
    ASSUME NEW t, NEW c \in BOOLEAN, NEW a \in BOOLEAN, NEW o, Agenda(t, c, a, o),
           t # <<>>, Head(t)[1] = "shutdown"
    PROVE  /\ ~a => Agenda(<<>> \o Tail(t), c, FALSE, o)
           /\ a /\ c => Agenda(<<hangup, drop>> \o Tail(t), c, FALSE, o)
           /\ a /\ ~c => Agenda(<<drop>> \o Tail(t), c, FALSE, o)
<1> USE DEF hangup, close, shutdown, drop, notify, dial, spawn
<1>1. \/ t = <<shutdown, hangup>>
      \/ ~c /\ a /\ t = <<shutdown, shutdown>>
      \/ ~c /\ a /\ t = <<shutdown, dial>>
      \/ ~c /\ a /\ t = <<shutdown, shutdown, notify, spawn(o), hangup, dial>>
      \/ ~c /\ ~a /\ t = <<shutdown>>
      \/ ~c /\ ~a /\ t = <<shutdown, notify, spawn(o), hangup, dial>>
  BY DEF Agenda
<1>2. CASE t = <<shutdown, hangup>>
  <2>1. /\ Tail(t) = <<hangup>>
        /\ <<>> \o Tail(t) = <<hangup>>
        /\ <<drop>> \o Tail(t) = <<drop, hangup>>
        /\ <<hangup, drop>> \o Tail(t) = <<hangup, drop, hangup>>
    BY <1>2, Prepend
  <2> QED BY <1>2, <2>1 DEF Agenda
<1>3. CASE ~c /\ a /\ t = <<shutdown, shutdown>>
  <2>1. /\ Tail(t) = <<shutdown>>
        /\ <<drop>> \o Tail(t) = <<drop, shutdown>>
    BY <1>3, Prepend
  <2> QED BY <1>3, <2>1 DEF Agenda
<1>4. CASE ~c /\ a /\ t = <<shutdown, dial>>
  <2>1. /\ Tail(t) = <<dial>>
        /\ <<drop>> \o Tail(t) = <<drop, dial>>
    BY <1>4, Prepend
  <2> QED BY <1>4, <2>1 DEF Agenda
<1>5. CASE ~c /\ a /\ t = <<shutdown, shutdown, notify, spawn(o), hangup, dial>>
  <2>1. /\ Tail(t) = <<shutdown, notify, spawn(o), hangup, dial>>
        /\ <<drop>> \o Tail(t) = <<drop, shutdown, notify, spawn(o), hangup, dial>>
    BY <1>5, Prepend
  <2> QED BY <1>5, <2>1 DEF Agenda
<1>6. CASE ~c /\ ~a /\ t = <<shutdown>>
  <2>1. /\ Tail(t) = <<>>
        /\ <<>> \o Tail(t) = <<>>
    BY <1>6, Prepend
  <2> QED BY <1>6, <2>1 DEF Agenda
<1>7. CASE ~c /\ ~a /\ t = <<shutdown, notify, spawn(o), hangup, dial>>
  <2>1. /\ Tail(t) = <<notify, spawn(o), hangup, dial>>
        /\ <<>> \o Tail(t) = <<notify, spawn(o), hangup, dial>>
    BY <1>7, Prepend
  <2> QED BY <1>7, <2>1 DEF Agenda
<1> QED BY <1>1, <1>2, <1>3, <1>4, <1>5, <1>6, <1>7

LEMMA DropNext ==
    ASSUME NEW t, NEW c \in BOOLEAN, NEW a \in BOOLEAN, NEW o, Agenda(t, c, a, o),
           t # <<>>, Head(t)[1] = "drop"
    PROVE  ~c /\ ~a /\ Agenda(<<>> \o Tail(t), c, a, o)
<1> USE DEF hangup, close, shutdown, drop, notify, dial, spawn
<1>1. \/ ~c /\ ~a /\ t = <<drop, shutdown>>
      \/ ~c /\ ~a /\ t = <<drop, dial>>
      \/ ~c /\ ~a /\ t = <<drop, hangup>>
      \/ ~c /\ ~a /\ t = <<drop, shutdown, notify, spawn(o), hangup, dial>>
  BY DEF Agenda
<1>2. CASE ~c /\ ~a /\ t = <<drop, shutdown>>
  <2>1. /\ Tail(t) = <<shutdown>>
        /\ <<>> \o Tail(t) = <<shutdown>>
    BY <1>2, Prepend
  <2> QED BY <1>2, <2>1 DEF Agenda
<1>3. CASE ~c /\ ~a /\ t = <<drop, dial>>
  <2>1. /\ Tail(t) = <<dial>>
        /\ <<>> \o Tail(t) = <<dial>>
    BY <1>3, Prepend
  <2> QED BY <1>3, <2>1 DEF Agenda
<1>4. CASE ~c /\ ~a /\ t = <<drop, hangup>>
  <2>1. /\ Tail(t) = <<hangup>>
        /\ <<>> \o Tail(t) = <<hangup>>
    BY <1>4, Prepend
  <2> QED BY <1>4, <2>1 DEF Agenda
<1>5. CASE ~c /\ ~a /\ t = <<drop, shutdown, notify, spawn(o), hangup, dial>>
  <2>1. /\ Tail(t) = <<shutdown, notify, spawn(o), hangup, dial>>
        /\ <<>> \o Tail(t) = <<shutdown, notify, spawn(o), hangup, dial>>
    BY <1>5, Prepend
  <2> QED BY <1>5, <2>1 DEF Agenda
<1> QED BY <1>1, <1>2, <1>3, <1>4, <1>5

LEMMA NotifyNext ==
    ASSUME NEW t, NEW c \in BOOLEAN, NEW a \in BOOLEAN, NEW o, Agenda(t, c, a, o),
           t # <<>>, Head(t)[1] = "notify"
    PROVE  Agenda(<<>> \o Tail(t), c, a, o) /\ (a => c /\ t = <<notify, spawn(o)>>)
<1> USE DEF hangup, close, shutdown, drop, notify, dial, spawn
<1>1. \/ ~c /\ ~a /\ t = <<notify, spawn(o), hangup, dial>>
      \/ c /\ a /\ t = <<notify, spawn(o)>>
  BY DEF Agenda
<1>2. CASE ~c /\ ~a /\ t = <<notify, spawn(o), hangup, dial>>
  <2>1. /\ Tail(t) = <<spawn(o), hangup, dial>>
        /\ <<>> \o Tail(t) = <<spawn(o), hangup, dial>>
    BY <1>2, Prepend
  <2> QED BY <1>2, <2>1 DEF Agenda
<1>3. CASE c /\ a /\ t = <<notify, spawn(o)>>
  <2>1. /\ Tail(t) = <<spawn(o)>>
        /\ <<>> \o Tail(t) = <<spawn(o)>>
    BY <1>3, Prepend
  <2> QED BY <1>3, <2>1 DEF Agenda
<1> QED BY <1>1, <1>2, <1>3

LEMMA SpawnNext ==
    ASSUME NEW t, NEW c \in BOOLEAN, NEW a \in BOOLEAN, NEW o, Agenda(t, c, a, o),
           t # <<>>, Head(t)[1] = "spawn"
    PROVE  /\ Head(t)[2] = o
           /\ Agenda(<<>> \o Tail(t), c, TRUE, o)
           /\ c <=> a
<1> USE DEF hangup, close, shutdown, drop, notify, dial, spawn
<1>1. \/ ~c /\ ~a /\ t = <<spawn(o), hangup, dial>>
      \/ c /\ a /\ t = <<spawn(o)>>
  BY DEF Agenda
<1>2. CASE ~c /\ ~a /\ t = <<spawn(o), hangup, dial>>
  <2>1. /\ Tail(t) = <<hangup, dial>>
        /\ <<>> \o Tail(t) = <<hangup, dial>>
    BY <1>2, Prepend
  <2> QED BY <1>2, <2>1 DEF Agenda
<1>3. CASE c /\ a /\ t = <<spawn(o)>>
  <2>1. /\ Tail(t) = <<>>
        /\ <<>> \o Tail(t) = <<>>
    BY <1>3, Prepend
  <2> QED BY <1>3, <2>1 DEF Agenda
<1> QED BY <1>1, <1>2, <1>3

LEMMA DialNext ==
    ASSUME NEW t, NEW c \in BOOLEAN, NEW a \in BOOLEAN, NEW o, Agenda(t, c, a, o),
           t # <<>>, Head(t)[1] = "dial"
    PROVE  ~c /\ t = <<dial>> /\ <<>> \o Tail(t) = <<>>
<1> USE DEF hangup, close, shutdown, drop, notify, dial, spawn
<1>1. \/ ~c /\ t = <<dial>>
  BY DEF Agenda
<1>2. CASE ~c /\ t = <<dial>>
  <2>1. /\ Tail(t) = <<>>
        /\ <<>> \o Tail(t) = <<>>
    BY <1>2, Prepend
  <2> QED BY <1>2, <2>1 DEF Agenda
<1> QED BY <1>1, <1>2

LEMMA ReconnectNext ==
    ASSUME NEW t, NEW c \in BOOLEAN, NEW a \in BOOLEAN, NEW o, Agenda(t, c, a, o),
           t # <<>>, Head(t)[1] = "reconnect"
    PROVE  (a => c) /\ t = <<<<"reconnect">>>> /\ <<>> \o Tail(t) = <<>>
<1> USE DEF hangup, close, shutdown, drop, notify, dial, spawn
<1>1. \/ (a => c) /\ t = <<<<"reconnect">>>>
  BY DEF Agenda
<1>2. CASE (a => c) /\ t = <<<<"reconnect">>>>
  <2>1. /\ Tail(t) = <<>>
        /\ <<>> \o Tail(t) = <<>>
    BY <1>2, Prepend
  <2> QED BY <1>2, <2>1 DEF Agenda
<1> QED BY <1>1, <1>2

\* A command that is executed.
LEMMA OpsNext ==
    ASSUME NEW c \in BOOLEAN, svActive \in BOOLEAN, svActive => c,
           NEW k \in Game!Commands, k # <<"wait">>
    PROVE  \E o \in Game!Outcomes : Agenda(Game!OpsOf(k), c, svActive, o)
<1> USE DEF hangup, close, shutdown, drop, notify, dial, spawn
<1>1. "ok" \in Game!Outcomes
  BY DEF Game!Outcomes
<1>2. CASE \E o \in Game!Outcomes : k = <<"map", o>>
  <2>1. PICK o \in Game!Outcomes : k = <<"map", o>>
    BY <1>2
  <2>2. Game!OpsOf(k) = <<hangup, shutdown>> \o <<notify, spawn(o)>> \o <<hangup, dial>>
    BY <2>1 DEF Game!OpsOf, Game!SpawnOps
  <2>3. \A x, y, d, e : <<x, y>> \o <<d, e>> = <<x, y, d, e>>
    BY Prepend
  <2>4. \A x, y, d, e, f, g : <<x, y, d, e>> \o <<f, g>> = <<x, y, d, e, f, g>>
    BY Prepend
  <2>5. <<hangup, shutdown>> \o <<notify, spawn(o)>> = <<hangup, shutdown, notify, spawn(o)>>
    BY <2>3, Zenon
  <2>6. <<hangup, shutdown, notify, spawn(o)>> \o <<hangup, dial>> = <<hangup, shutdown, notify, spawn(o), hangup, dial>>
    BY <2>4
  <2>7. Game!OpsOf(k) = <<hangup, shutdown, notify, spawn(o), hangup, dial>>
    BY <2>2, <2>5, <2>6, Zenon
  <2> QED BY <2>7 DEF Agenda
<1>3. CASE \E o \in Game!Outcomes : k = <<"changelevel", o>>
  <2>1. PICK o \in Game!Outcomes : k = <<"changelevel", o>>
    BY <1>3
  <2>2. Game!OpsOf(k) = IF svActive THEN <<notify, spawn(o)>> ELSE <<>>
    BY <2>1 DEF Game!OpsOf, Game!SpawnOps
  <2> QED BY <2>2 DEF Agenda
<1>4. CASE k \in {<<"restart">>, <<"disconnect">>, <<"connect">>, <<"reconnect">>}
  <2>1. CASE k = <<"restart">>
    <3>1. Game!OpsOf(k) = IF svActive THEN <<notify, spawn("ok")>> ELSE <<>>
      BY <2>1 DEF Game!OpsOf, Game!SpawnOps
    <3> QED BY <3>1, <1>1 DEF Agenda
  <2>2. CASE k = <<"disconnect">>
    <3>1. Game!OpsOf(k) = <<hangup, shutdown>>
      BY <2>2 DEF Game!OpsOf
    <3> QED BY <3>1, <1>1 DEF Agenda
  <2>3. CASE k = <<"connect">>
    <3>1. Game!OpsOf(k) = <<hangup, dial>>
      BY <2>3 DEF Game!OpsOf
    <3> QED BY <3>1, <1>1 DEF Agenda
  <2>4. CASE k = <<"reconnect">>
    <3>1. Game!OpsOf(k) = <<<<"reconnect">>>>
      BY <2>4 DEF Game!OpsOf
    <3> QED BY <3>1, <1>1 DEF Agenda
  <2> QED BY <1>4, <2>1, <2>2, <2>3, <2>4
<1> QED BY <1>2, <1>3, <1>4 DEF Game!Commands

\* Nothing happens to the network.
LEMMA Still ==
    ASSUME OneGame, Inv, UNCHANGED Game!netVars
    PROVE  /\ Inv' /\ [Next]_vars
           /\ UNCHANGED <<free, active, driverdata, canSend, buf, len>>
           /\ UNCHANGED <<pending, client, server, netcon, slots, conns>>
           /\ Game!Slot' = Game!Slot
           /\ Game!Connected' = Game!Connected
<1>1. UNCHANGED vars
  BY SameVars
<1>2. Inv'
  <2>1. [Next]_vars /\ [ConnectsAlone]_vars
    BY <1>1
  <2> QED BY <2>1, NextInv
<1> QED BY <1>1, <1>2 DEF Game!netVars, Game!Slot, Game!Connected

LEMMA HeardStill ==
    ASSUME OneGame, Inv, UNCHANGED Game!netVars, Heard, ~Closing
    PROVE  Heard'
<1>1. /\ UNCHANGED <<buf, netcon, server>>
      /\ Game!Connected' = Game!Connected
  BY Still
<1> QED BY <1>1 DEF Heard, Carries

LEMMA HangupSInv == ASSUME OneGame, SInv, Game!Hangup PROVE SInv' /\ [Next]_vars
<1>1. PICK o \in Game!Outcomes : Agenda(todo, Game!Connected, svActive, o)
  BY DEF SInv, Planned
<1>2. /\ todo # <<>> /\ Head(todo)[1] = "hangup"
      /\ UNCHANGED <<pc, msg, cbuf, clLevel, svActive, spawned, sendsignon, svMessage, issued, loads>>
  BY DEF Game!Hangup, Game!Op, Game!After, Game!serverVars, Game!slotVars
<1>3. svActive \in BOOLEAN /\ Game!Connected \in BOOLEAN
  BY DEF SInv, Typed, Game!Connected
<1>4. msg = <<>> /\ pc \in {"commands", "abort"}
  BY <1>2 DEF SInv, Placed, Running
<1>6. CASE ~Game!Connected
  <2>1. /\ signon' = 0 /\ todo' = <<>> \o Tail(todo) /\ UNCHANGED <<Game!netVars, clMessage>>
    BY <1>6 DEF Game!Hangup, Game!After
  <2>2. Inv' /\ [Next]_vars /\ (Game!Connected' = Game!Connected) /\ Game!Slot' = Game!Slot
    BY <2>1, Still DEF SInv
  <2>3. Planned'
    <3>1. Agenda(<<>> \o Tail(todo), Game!Connected, svActive, o)
      BY <1>1, <1>2, <1>3, <1>6, HangupNext
    <3>2. Agenda(todo', Game!Connected', svActive', o)
      BY <3>1, <2>1, <2>2, <1>2
    <3> QED BY <3>2 DEF Planned
  <2>4. Placed'
    BY <1>2, <1>4, <2>2 DEF SInv, Placed, Running
  <2>5. Awaited' /\ Heard'
    BY <1>6, <2>2 DEF Awaited, Heard
  <2>6. Spoken' /\ Typed'
    BY <1>2, <1>4, <2>1 DEF SInv, Spoken, Typed, Game!clientVars
  <2> QED BY <2>2, <2>3, <2>4, <2>5, <2>6 DEF SInv
<1>7. CASE Game!Connected
  <2>1. /\ clMessage' = <<>> /\ signon' = signon
        /\ todo' = <<close>> \o Tail(todo)
        /\ IF Game!Linked(netcon)
             THEN Game!Net!SendUnreliableMessage(netcon, <<<<"disconnect">>>>)
             ELSE UNCHANGED Game!netVars
    BY <1>7 DEF Game!Hangup, Game!After, close
  <2>2. /\ Agenda(todo', Game!Connected, svActive, o)
        /\ todo' # <<>> /\ Head(todo') = close
    BY <1>1, <1>2, <1>3, <1>7, <2>1, HangupNext
  <2>3. /\ Inv' /\ [Next]_vars /\ (Game!Connected' = Game!Connected) /\ Game!Slot' = Game!Slot
        /\ UNCHANGED <<pending, server, netcon>> /\ buf'[netcon] = buf[netcon]
    <3>1. CASE ~Game!Linked(netcon)
      BY <2>1, <3>1, Still DEF SInv
    <3>2. CASE Game!Linked(netcon)
      <4>1. <<<<"disconnect">>>> \in Seq(Talk)
        BY DEF Talk
      <4>2. netcon \in {netcon, Game!Slot} \ {None} /\ netcon \in Sockets /\ driverdata[netcon] # netcon
        BY <1>7, EndFacts DEF SInv, Game!Connected
      <4>3. Game!Net!SendUnreliableMessage(netcon, <<<<"disconnect">>>>)
        BY <2>1, <3>2
      <4> QED BY <4>1, <4>2, <4>3, SendEffect DEF SInv, Game!Connected, Game!Slot
    <3> QED BY <3>1, <3>2
  <2>4. Planned'
    <3>1. Agenda(todo', Game!Connected', svActive', o)
      BY <1>2, <2>2, <2>3
    <3> QED BY <3>1 DEF Planned
  <2>5. Placed'
    BY <1>2, <1>4, <2>2 DEF SInv, Placed, Running
  <2>6. Awaited' /\ Heard'
    BY <1>7, <2>2, <2>3 DEF SInv, Awaited, Heard, Closing, Carries
  <2>7. Spoken' /\ Typed'
    BY <1>2, <1>4, <2>1 DEF SInv, Spoken, Typed
  <2> QED BY <2>3, <2>4, <2>5, <2>6, <2>7 DEF SInv
<1> QED BY <1>6, <1>7

LEMMA CloseClientSInv == ASSUME OneGame, SInv, Game!CloseClient PROVE SInv' /\ [Next]_vars
<1>1. PICK o \in Game!Outcomes : Agenda(todo, Game!Connected, svActive, o)
  BY DEF SInv, Planned
<1>2. /\ todo # <<>> /\ Head(todo)[1] = "close"
      /\ Game!Net!ClientClose /\ signon' = 0
      /\ todo' = (IF svActive THEN <<shutdown>> ELSE <<>>) \o Tail(todo)
      /\ UNCHANGED <<pc, msg, cbuf, clMessage, clLevel, svActive, spawned, sendsignon, svMessage, issued, loads>>
  BY DEF Game!CloseClient, Game!Op, Game!After, Game!serverVars, Game!slotVars, shutdown
<1>3. svActive \in BOOLEAN /\ Game!Connected \in BOOLEAN
  BY DEF SInv, Typed, Game!Connected
<1>4. msg = <<>> /\ pc \in {"commands", "abort"}
  BY <1>2 DEF SInv, Placed
<1>5. Inv' /\ [Next]_vars /\ Game!Connected' = FALSE
  BY <1>2, CloseEffect DEF SInv, Game!Connected
<1>6. Planned'
  <2>1. /\ svActive => Agenda(<<shutdown>> \o Tail(todo), FALSE, svActive, o)
        /\ ~svActive => Agenda(<<>> \o Tail(todo), FALSE, svActive, o)
    BY <1>1, <1>2, <1>3, CloseNext
  <2>2. Agenda(todo', FALSE, svActive, o)
    BY <2>1, <1>2, <1>3
  <2>3. Agenda(todo', Game!Connected', svActive', o)
    BY <2>2, <1>2, <1>5
  <2> QED BY <2>3 DEF Planned
<1>7. Placed'
  BY <1>2, <1>4 DEF SInv, Placed, Running
<1>8. Awaited' /\ Heard'
  BY <1>5 DEF Awaited, Heard
<1>9. Spoken' /\ Typed'
  BY <1>2, <1>4 DEF SInv, Spoken, Typed
<1> QED BY <1>5, <1>6, <1>7, <1>8, <1>9 DEF SInv

LEMMA ShutdownSInv == ASSUME OneGame, SInv, Game!Shutdown PROVE SInv' /\ [Next]_vars
<1>1. PICK o \in Game!Outcomes : Agenda(todo, Game!Connected, svActive, o)
  BY DEF SInv, Planned
<1>2. /\ todo # <<>> /\ Head(todo)[1] = "shutdown" /\ svActive' = FALSE
      /\ todo' = (CASE ~svActive -> <<>>
                    [] svActive /\ Game!Connected -> <<hangup, drop>>
                    [] svActive /\ ~Game!Connected -> <<drop>>) \o Tail(todo)
      /\ UNCHANGED <<Game!netVars, pc, msg, cbuf, signon, clMessage, clLevel, spawned, sendsignon, svMessage, issued, loads>>
  BY DEF Game!Shutdown, Game!Op, Game!After, Game!clientVars, Game!slotVars, hangup, drop
<1>3. svActive \in BOOLEAN /\ Game!Connected \in BOOLEAN
  BY DEF SInv, Typed, Game!Connected
<1>4. msg = <<>> /\ pc \in {"commands", "abort"}
  BY <1>2 DEF SInv, Placed
<1>5. /\ Inv' /\ [Next]_vars /\ Game!Connected' = Game!Connected /\ Game!Slot' = Game!Slot
      /\ UNCHANGED <<pending, server>>
  BY <1>2, Still DEF SInv
<1>6. Planned'
  <2>1. Agenda(todo', Game!Connected, FALSE, o)
    <3>1. /\ ~svActive => Agenda(<<>> \o Tail(todo), Game!Connected, FALSE, o)
          /\ svActive /\ Game!Connected => Agenda(<<hangup, drop>> \o Tail(todo), Game!Connected, FALSE, o)
          /\ svActive /\ ~Game!Connected => Agenda(<<drop>> \o Tail(todo), Game!Connected, FALSE, o)
      BY <1>1, <1>2, <1>3, ShutdownNext
    <3>2. CASE ~svActive
      BY <1>2, <3>1, <3>2
    <3>3. CASE svActive /\ Game!Connected
      BY <1>2, <3>1, <3>3
    <3>4. CASE svActive /\ ~Game!Connected
      BY <1>2, <3>1, <3>4
    <3> QED BY <3>2, <3>3, <3>4, <1>3
  <2>2. Agenda(todo', Game!Connected', svActive', o)
    BY <2>1, <1>2, <1>5
  <2> QED BY <2>2 DEF Planned
<1>7. Placed'
  BY <1>2, <1>4 DEF SInv, Placed, Running
<1>8. ~Closing
  BY <1>2 DEF Closing, close
<1>9. Awaited' /\ Heard'
  BY <1>2, <1>5, <1>8, HeardStill DEF SInv, Awaited
<1>10. Spoken' /\ Typed'
  BY <1>2, <1>4 DEF SInv, Spoken, Typed
<1> QED BY <1>5, <1>6, <1>7, <1>9, <1>10 DEF SInv

LEMMA DropClientsSInv == ASSUME OneGame, SInv, Game!DropClients PROVE SInv' /\ [Next]_vars
<1>1. PICK o \in Game!Outcomes : Agenda(todo, Game!Connected, svActive, o)
  BY DEF SInv, Planned
<1>2. /\ todo # <<>> /\ Head(todo)[1] = "drop"
      /\ IF Game!Slot # None THEN Game!Net!DropClient(1) ELSE UNCHANGED Game!netVars
      /\ spawned' = FALSE /\ sendsignon' = FALSE /\ svMessage' = <<>>
      /\ todo' = <<>> \o Tail(todo)
      /\ UNCHANGED <<pc, msg, cbuf, signon, clMessage, clLevel, svActive, issued, loads>>
  BY DEF Game!DropClients, Game!Op, Game!After, Game!clientVars
<1>3. svActive \in BOOLEAN /\ Game!Connected \in BOOLEAN
  BY DEF SInv, Typed, Game!Connected
<1>4. msg = <<>> /\ pc \in {"commands", "abort"}
  BY <1>2 DEF SInv, Placed
<1>5. Inv' /\ [Next]_vars /\ Game!Connected' = Game!Connected
  <2>1. CASE Game!Slot # None
    BY <1>2, <2>1, DropEffect DEF SInv, Game!Connected
  <2>2. CASE Game!Slot = None
    BY <1>2, <2>2, Still DEF SInv
  <2> QED BY <2>1, <2>2
<1>6. Planned' /\ Game!Connected = FALSE
  <2>1. ~Game!Connected /\ Agenda(todo', Game!Connected, svActive, o)
    BY <1>1, <1>2, <1>3, DropNext
  <2>2. Agenda(todo', Game!Connected', svActive', o)
    BY <2>1, <1>2, <1>5
  <2> QED BY <2>1, <2>2, <1>3 DEF Planned
<1>7. Placed'
  BY <1>2, <1>4 DEF SInv, Placed, Running
<1>8. Awaited' /\ Heard'
  BY <1>5, <1>6 DEF Awaited, Heard
<1>9. Spoken' /\ Typed'
  BY <1>2, <1>4 DEF SInv, Spoken, Typed
<1> QED BY <1>5, <1>6, <1>7, <1>8, <1>9 DEF SInv

\* A message from the server reaches the client's buffer and no other.
LEMMA NewsArrives ==
    ASSUME OneGame, Inv, Heard, ~Closing, Game!Slot # None, NEW p \in Seq(News),
           Game!Net!SendMessage(Game!Slot, p) \/ Game!Net!SendUnreliableMessage(Game!Slot, p)
    PROVE  /\ Inv' /\ [Next]_vars
           /\ UNCHANGED <<pending, client, server, netcon, slots>>
           /\ Game!Connected' = Game!Connected /\ Game!Slot' = Game!Slot
           /\ todo' = todo => Heard'
           /\ Carries(buf'[netcon], News)
           /\ buf'[server] = buf[server]
<1>1. p \in Seq(Talk)
  BY DEF Talk
<1>2. Game!Slot \in {netcon, Game!Slot} \ {None} /\ Game!Slot = server /\ driverdata[Game!Slot] = client /\ netcon = client
  BY EndFacts
<1>11. PICK s : s = Game!Slot
  OBVIOUS
<1>12. Game!Net!SendMessage(s, p) \/ Game!Net!SendUnreliableMessage(s, p)
  BY <1>11
<1>13. s \in {netcon, Game!Slot} \ {None}
  BY <1>2, <1>11
<1> DEFINE to == driverdata[s]
<1>9. /\ Inv' /\ [Next]_vars
      /\ UNCHANGED <<driverdata, pending, client, server, netcon, slots, conns, active>>
      /\ to \in Sockets
      /\ \A x \in Sockets : x # to => buf'[x] = buf[x] /\ len'[x] = len[x]
      /\ DOMAIN buf'[to] = DOMAIN buf[to] \cup {len[to]}
      /\ \A o \in DOMAIN buf'[to] :
            buf'[to][o].payload = IF o = len[to] THEN p ELSE buf[to][o].payload
  BY <1>1, <1>12, <1>13, SendEffect
<1>10. to = client
  BY <1>2, <1>11
<1> HIDE DEF to
<1>3. /\ Inv' /\ [Next]_vars
      /\ UNCHANGED <<driverdata, pending, client, server, netcon, slots, conns, active>>
      /\ client \in Sockets
      /\ \A x \in Sockets : x # client => buf'[x] = buf[x] /\ len'[x] = len[x]
      /\ DOMAIN buf'[client] = DOMAIN buf[client] \cup {len[client]}
      /\ \A o \in DOMAIN buf'[client] :
            buf'[client][o].payload = IF o = len[client] THEN p ELSE buf[client][o].payload
  BY <1>9, <1>10
<1>4. client # server /\ server \in Sockets /\ client # None
  BY <1>2, <1>3, EndFacts
<1>5. Carries(buf'[client], News)
  <2>1. Carries(buf[client], News)
    BY <1>2, <1>4 DEF Heard, Game!Connected
  <2> QED BY <1>3, <2>1 DEF Carries
<1>6. buf'[server] = buf[server]
  BY <1>3, <1>4
<1>7. Game!Connected' = Game!Connected /\ Game!Slot' = Game!Slot
  BY <1>3 DEF Game!Connected, Game!Slot
<1>8. ASSUME todo' = todo PROVE Heard'
  <2>1. Carries(buf[server], Speech)
    BY <1>2, <1>4 DEF Heard, Game!Connected
  <2> QED BY <1>2, <1>3, <1>5, <1>6, <2>1 DEF Heard, Carries
<1> QED BY <1>2, <1>3, <1>5, <1>6, <1>7, <1>8

LEMMA NotifySInv == ASSUME OneGame, SInv, Game!Notify PROVE SInv' /\ [Next]_vars
<1>1. PICK o \in Game!Outcomes : Agenda(todo, Game!Connected, svActive, o)
  BY DEF SInv, Planned
<1>2. /\ todo # <<>> /\ Head(todo)[1] = "notify"
      /\ IF svActive /\ Game!Slot # None /\ Game!Linked(Game!Slot)
           THEN Game!Net!SendMessage(Game!Slot, <<<<"stufftext", <<"reconnect">>>>>>)
           ELSE UNCHANGED Game!netVars
      /\ signon' = IF svActive THEN 0 ELSE signon
      /\ todo' = <<>> \o Tail(todo)
      /\ UNCHANGED <<pc, msg, cbuf, clMessage, clLevel, svActive, spawned, sendsignon, svMessage, issued, loads>>
  BY DEF Game!Notify, Game!Op, Game!After, Game!serverVars, Game!slotVars
<1>3. svActive \in BOOLEAN /\ Game!Connected \in BOOLEAN
  BY DEF SInv, Typed, Game!Connected
<1>4. msg = <<>> /\ pc \in {"commands", "abort"}
  BY <1>2 DEF SInv, Placed
<1>5. ~Closing
  BY <1>2 DEF Closing, close
<1>6. /\ Inv' /\ [Next]_vars /\ Game!Connected' = Game!Connected /\ Game!Slot' = Game!Slot
      /\ UNCHANGED <<pending, server, netcon>>
      /\ Game!Connected => Carries(buf'[netcon], News)
      /\ buf'[server] = buf[server]
  <2>1. CASE svActive /\ Game!Slot # None /\ Game!Linked(Game!Slot)
    <3>1. <<<<"stufftext", <<"reconnect">>>>>> \in Seq(News)
      BY DEF News
    <3>2. Game!Net!SendMessage(Game!Slot, <<<<"stufftext", <<"reconnect">>>>>>)
      BY <1>2, <2>1
    <3> QED BY <2>1, <3>1, <3>2, <1>5, NewsArrives DEF SInv
  <2>2. CASE ~(svActive /\ Game!Slot # None /\ Game!Linked(Game!Slot))
    <3>1. UNCHANGED Game!netVars
      BY <1>2, <2>2
    <3>2. Game!Connected => Carries(buf[netcon], News)
      BY DEF SInv, Heard
    <3> QED BY <3>1, <3>2, Still DEF SInv
  <2> QED BY <2>1, <2>2
<1>7. Planned'
  <2>1. Agenda(todo', Game!Connected, svActive, o)
    BY <1>1, <1>2, <1>3, NotifyNext
  <2>2. Agenda(todo', Game!Connected', svActive', o)
    BY <2>1, <1>2, <1>6
  <2> QED BY <2>2 DEF Planned
<1>8. Placed'
  BY <1>2, <1>4 DEF SInv, Placed, Running
<1>9. Awaited'
  BY <1>6 DEF SInv, Awaited
<1>10. Heard'
  BY <1>5, <1>6 DEF SInv, Heard, Carries
<1>11. Spoken' /\ Typed'
  BY <1>2, <1>4 DEF SInv, Spoken, Typed
<1> QED BY <1>6, <1>7, <1>8, <1>9, <1>10, <1>11 DEF SInv

LEMMA PairIsSeq == ASSUME NEW U, NEW x \in U, NEW y \in U PROVE <<x, y>> \in Seq(U)
OBVIOUS

LEMMA SpawnServerSInv == ASSUME OneGame, SInv, Game!SpawnServer PROVE SInv' /\ [Next]_vars
<1>1. PICK o \in Game!Outcomes : Agenda(todo, Game!Connected, svActive, o)
  BY DEF SInv, Planned
<1>2. /\ todo # <<>> /\ Head(todo)[1] = "spawn" /\ issued' = FALSE
      /\ signon' = 0 /\ clLevel' = 0 /\ UNCHANGED <<clMessage, Game!netVars, cbuf>>
  BY DEF Game!SpawnServer, Game!Op, Game!ClearMemory
<1>3. svActive \in BOOLEAN /\ Game!Connected \in BOOLEAN
  BY DEF SInv, Typed, Game!Connected
<1>4. /\ Head(todo)[2] = o /\ Agenda(<<>> \o Tail(todo), Game!Connected, TRUE, o)
  BY <1>1, <1>2, <1>3, SpawnNext, Zenon
<1>5. /\ svActive' = (o = "ok")
      /\ loads' = IF o = "ok" THEN loads + 1 ELSE loads
      /\ IF o = "ok" /\ Game!Slot # None
           THEN Game!SendServerinfo(svMessage, loads + 1)
           ELSE UNCHANGED <<spawned, sendsignon, svMessage>>
      /\ o = "ok" => todo' = <<>> \o Tail(todo) /\ UNCHANGED <<pc, msg>>
      /\ o = "bad" => todo' = <<>> /\ UNCHANGED <<pc, msg>>
      /\ o = "error" => todo' = <<shutdown, hangup>> /\ pc' = "abort" /\ msg' = <<>>
  <2>1. Head(todo)[2] = o
    BY <1>4
  <2>2. svActive' = (o = "ok") /\ loads' = IF o = "ok" THEN loads + 1 ELSE loads
    BY <2>1, Zenon DEF Game!SpawnServer
  <2>3. IF o = "ok" /\ Game!Slot # None
           THEN Game!SendServerinfo(svMessage, loads + 1)
           ELSE UNCHANGED <<spawned, sendsignon, svMessage>>
    BY <2>1, Zenon DEF Game!SpawnServer, Game!slotVars
  <2>4. Head(todo)[2] = "ok" => todo' = <<>> \o Tail(todo) /\ UNCHANGED <<pc, msg>>
    BY DEF Game!SpawnServer, Game!After
  <2>5. Head(todo)[2] = "bad" => todo' = <<>> /\ UNCHANGED <<pc, msg>>
    BY DEF Game!SpawnServer
  <2>6. Head(todo)[2] = "error" => todo' = <<shutdown, hangup>> /\ pc' = "abort" /\ msg' = <<>>
    BY DEF Game!SpawnServer, Game!HostError, Game!ErrorOps, shutdown, hangup
  <2> QED BY <2>1, <2>2, <2>3, <2>4, <2>5, <2>6, Zenon
<1>6. msg = <<>> /\ pc \in {"commands", "abort"}
  BY <1>2 DEF SInv, Placed
<1>7. /\ Inv' /\ [Next]_vars /\ Game!Connected' = Game!Connected /\ Game!Slot' = Game!Slot
      /\ UNCHANGED <<pending, server>>
  BY <1>2, Still DEF SInv
<1>8. o \in {"ok", "bad", "error"}
  BY DEF Game!Outcomes
<1>9. Planned' /\ msg' = <<>> /\ pc' \in {"commands", "abort"}
  <2>1. CASE o = "ok"
    <3>1. Agenda(todo', Game!Connected, TRUE, o) /\ svActive' = TRUE /\ pc' = pc /\ msg' = msg
      BY <1>4, <1>5, <2>1
    <3>2. Agenda(todo', Game!Connected', svActive', o)
      BY <3>1, <1>7
    <3> QED BY <3>1, <3>2, <1>6 DEF Planned
  <2>2. CASE o = "bad"
    <3>1. svActive' = FALSE /\ todo' = <<>> /\ pc' = pc /\ msg' = msg
      BY <1>5, <2>2
    <3>2. Agenda(todo', Game!Connected', svActive', o)
      BY <3>1 DEF Agenda
    <3> QED BY <3>1, <3>2, <1>6 DEF Planned
  <2>3. CASE o = "error"
    <3>1. todo' = <<shutdown, hangup>> /\ pc' = "abort" /\ msg' = <<>>
      BY <1>5, <2>3
    <3>2. Agenda(todo', Game!Connected', svActive', o)
      BY <3>1 DEF Agenda
    <3> QED BY <3>1, <3>2 DEF Planned
  <2> QED BY <1>8, <2>1, <2>2, <2>3
<1>10. Placed'
  BY <1>9 DEF Placed, Running
<1>11. ~Closing
  BY <1>2 DEF Closing, close
<1>12. Awaited' /\ Heard'
  BY <1>2, <1>7, <1>11, HeardStill DEF SInv, Awaited
<1>13. Typed' /\ svMessage' \in Seq(News)
  <2>1. loads \in Nat /\ loads' \in Nat /\ svActive' \in BOOLEAN
    BY <1>5 DEF SInv, Typed
  <2>2. svMessage' \in Seq(News) /\ spawned' \in BOOLEAN /\ sendsignon' \in BOOLEAN
    <3>1. CASE o = "ok" /\ Game!Slot # None
      <4>1. <<<<"serverinfo", loads + 1>>, <<"signon", 1>>>> \in Seq(News)
        <5>1. <<"serverinfo", loads + 1>> \in News /\ <<"signon", 1>> \in News
          BY <2>1 DEF News
        <5> QED BY <5>1, PairIsSeq
      <4>2. svMessage \in Seq(News)
        BY DEF SInv, Spoken
      <4>3. /\ svMessage' = svMessage \o <<<<"serverinfo", loads + 1>>, <<"signon", 1>>>>
            /\ sendsignon' = TRUE /\ spawned' = FALSE
        BY <1>5, <3>1 DEF Game!SendServerinfo
      <4>4. svMessage' \in Seq(News)
        <5> DEFINE more == <<<<"serverinfo", loads + 1>>, <<"signon", 1>>>>
        <5>1. more \in Seq(News) /\ svMessage' = svMessage \o more
          BY <4>1, <4>3
        <5> HIDE DEF more
        <5>2. svMessage \o more \in Seq(News)
          BY <4>2, <5>1, ConcatProperties
        <5> QED BY <5>1, <5>2
      <4> QED BY <4>3, <4>4
    <3>2. CASE ~(o = "ok" /\ Game!Slot # None)
      BY <1>5, <3>2 DEF SInv, Spoken, Typed
    <3> QED BY <3>1, <3>2
  <2>3. issued' \in BOOLEAN
    BY <1>2, Zenon
  <2>4. signon' \in 0 .. 4 /\ clLevel' \in Nat
    BY <1>2
  <2> QED BY <2>1, <2>2, <2>3, <2>4, Zenon DEF Typed
<1>14. Spoken'
  BY <1>2, <1>9, <1>13 DEF SInv, Spoken
<1> QED BY <1>7, <1>9, <1>10, <1>12, <1>13, <1>14 DEF SInv

LEMMA DialSInv == ASSUME OneGame, SInv, Game!Dial PROVE SInv' /\ [Next]_vars
<1>1. PICK o \in Game!Outcomes : Agenda(todo, Game!Connected, svActive, o)
  BY DEF SInv, Planned
<1>2. /\ todo # <<>> /\ Head(todo)[1] = "dial" /\ Game!Net!Connect
      /\ signon' = 0 /\ todo' = <<>> \o Tail(todo)
      /\ UNCHANGED <<pc, msg, cbuf, clMessage, clLevel, svActive, spawned, sendsignon, svMessage, issued, loads>>
  BY DEF Game!Dial, Game!Op, Game!After, Game!serverVars, Game!slotVars
<1>3. svActive \in BOOLEAN /\ Game!Connected \in BOOLEAN
  BY DEF SInv, Typed, Game!Connected
<1>4. msg = <<>> /\ pc \in {"commands", "abort"}
  BY <1>2 DEF SInv, Placed
<1>5. todo' = <<>>
  BY <1>1, <1>2, <1>3, DialNext
<1>6. /\ Inv' /\ [Next]_vars
      /\ netcon' \in Sockets /\ server' \in Sockets /\ Game!Slot' = None
      /\ buf'[netcon'] = Empty /\ buf'[server'] = Empty
  BY <1>2, DialEffect DEF SInv
<1>7. None \notin Sockets
  BY LoopbackAssumption
<1>8. Game!Connected' = TRUE
  BY <1>6, <1>7 DEF Game!Connected
<1>9. Planned'
  <2>1. Agenda(todo', Game!Connected', svActive', o)
    BY <1>5, <1>8 DEF Agenda
  <2> QED BY <2>1 DEF Planned
<1>10. Placed'
  BY <1>2, <1>4 DEF SInv, Placed, Running
<1>11. Awaited'
  BY <1>6, <1>7 DEF Awaited
<1>12. Heard'
  <2>1. DOMAIN Empty = {}
    BY DEF Empty
  <2> QED BY <1>6, <2>1 DEF Heard, Carries
<1>13. Spoken' /\ Typed'
  BY <1>2, <1>4 DEF SInv, Spoken, Typed
<1> QED BY <1>6, <1>9, <1>10, <1>11, <1>12, <1>13 DEF SInv

LEMMA DialFailsSInv == ASSUME OneGame, SInv, Game!DialFails PROVE SInv' /\ [Next]_vars
<1>1. /\ Game!Net!ConnectNoClient
      /\ todo' = <<shutdown, hangup>> /\ pc' = "abort" /\ msg' = <<>>
      /\ UNCHANGED <<cbuf, signon, clMessage, clLevel, svActive, spawned, sendsignon, svMessage, issued, loads>>
  BY DEF Game!DialFails, Game!HostError, Game!ErrorOps, Game!clientVars, Game!serverVars, Game!slotVars, shutdown, hangup
<1>2. Inv' /\ [Next]_vars /\ netcon' = None
  BY <1>1, DialFailsEffect DEF SInv
<1>3. Planned'
  <2>1. "ok" \in Game!Outcomes
    BY DEF Game!Outcomes
  <2>2. Agenda(todo', Game!Connected', svActive', "ok")
    BY <1>1 DEF Agenda
  <2> QED BY <2>1, <2>2 DEF Planned
<1>4. Placed'
  BY <1>1 DEF Placed, Running
<1>5. Awaited' /\ Heard'
  BY <1>2 DEF Awaited, Heard, Game!Connected
<1>6. Spoken' /\ Typed'
  BY <1>1 DEF SInv, Spoken, Typed
<1> QED BY <1>2, <1>3, <1>4, <1>5, <1>6 DEF SInv

LEMMA ReconnectSInv == ASSUME OneGame, SInv, Game!Reconnect PROVE SInv' /\ [Next]_vars
<1>1. PICK o \in Game!Outcomes : Agenda(todo, Game!Connected, svActive, o)
  BY DEF SInv, Planned
<1>2. /\ todo # <<>> /\ Head(todo)[1] = "reconnect"
      /\ signon' = 0 /\ todo' = <<>> \o Tail(todo)
      /\ UNCHANGED <<Game!netVars, pc, msg, cbuf, clMessage, clLevel, svActive, spawned, sendsignon, svMessage, issued, loads>>
  BY DEF Game!Reconnect, Game!Op, Game!After, Game!serverVars, Game!slotVars
<1>3. svActive \in BOOLEAN /\ Game!Connected \in BOOLEAN
  BY DEF SInv, Typed, Game!Connected
<1>4. msg = <<>> /\ pc \in {"commands", "abort"}
  BY <1>2 DEF SInv, Placed
<1>5. /\ Inv' /\ [Next]_vars /\ Game!Connected' = Game!Connected /\ Game!Slot' = Game!Slot
      /\ UNCHANGED <<pending, server>>
  BY <1>2, Still DEF SInv
<1>6. todo' = <<>> /\ (svActive => Game!Connected)
  BY <1>1, <1>2, <1>3, ReconnectNext
<1>7. Planned'
  <2>1. Agenda(todo', Game!Connected', svActive', o)
    BY <1>2, <1>5, <1>6 DEF Agenda
  <2> QED BY <2>1 DEF Planned
<1>8. Placed'
  BY <1>2, <1>4 DEF SInv, Placed, Running
<1>9. ~Closing
  BY <1>2 DEF Closing, close
<1>10. Awaited' /\ Heard'
  BY <1>2, <1>5, <1>9, HeardStill DEF SInv, Awaited
<1>11. Spoken' /\ Typed'
  BY <1>2, <1>4 DEF SInv, Spoken, Typed
<1> QED BY <1>5, <1>7, <1>8, <1>10, <1>11 DEF SInv

\* A step of a frame that leaves the network and the server's state alone.
LEMMA StillSInv ==
    ASSUME OneGame, SInv, todo = <<>>, UNCHANGED Game!netVars,
           Planned', Placed', Spoken', Typed'
    PROVE  SInv' /\ [Next]_vars
<1>1. /\ Inv' /\ [Next]_vars /\ Game!Connected' = Game!Connected /\ Game!Slot' = Game!Slot
      /\ UNCHANGED <<pending, server>>
  BY Still DEF SInv
<1>2. ~Closing
  BY DEF Closing
<1>3. Awaited' /\ Heard'
  BY <1>1, <1>2, HeardStill DEF SInv, Awaited
<1> QED BY <1>1, <1>3 DEF SInv

\* ... or goes on to another phase with nothing else to do.
LEMMA PlannedStill ==
    ASSUME OneGame, SInv, todo = <<>>, todo' = <<>>,
           Game!Connected' = Game!Connected, svActive' = svActive
    PROVE  Planned' /\ (svActive => Game!Connected)
<1>1. PICK o \in Game!Outcomes : Agenda(todo, Game!Connected, svActive, o)
  BY DEF SInv, Planned
<1>2. svActive \in BOOLEAN
  BY DEF SInv, Typed
<1>3. svActive => Game!Connected
  BY <1>1 DEF Agenda
<1>4. Agenda(todo', Game!Connected', svActive', o)
  BY <1>2, <1>3 DEF Agenda
<1> QED BY <1>1, <1>3, <1>4 DEF Planned

LEMMA GoSInv ==
    ASSUME OneGame, SInv, todo = <<>>, todo' = <<>>, msg = <<>>, msg' = <<>>,
           cbuf' \in Seq(Game!Commands),
           UNCHANGED Game!netVars, UNCHANGED <<signon, clMessage, clLevel>>,
           UNCHANGED <<svActive, spawned, sendsignon, svMessage, loads>>,
           issued' \in BOOLEAN,
           pc' \in {"input", "commands", "send", "read"} \cup Running,
           pc' \in Running => svActive
    PROVE  SInv' /\ [Next]_vars
<1>1. Game!Connected' = Game!Connected
  BY Still DEF SInv
<1>2. Planned'
  BY <1>1, PlannedStill
<1>3. Placed'
  BY DEF Placed
<1>4. Spoken'
  BY DEF SInv, Spoken
<1>5. Typed'
  BY DEF SInv, Typed
<1> QED BY <1>2, <1>3, <1>4, <1>5, StillSInv

LEMMA TypeSInv == ASSUME OneGame, SInv, Game!Type PROVE SInv' /\ [Next]_vars
<1>1. PICK line \in Lines : cbuf' = cbuf \o line
  BY DEF Game!Type
<1>2. line \in Seq(Game!Commands) /\ cbuf \in Seq(Game!Commands)
  BY DEF OneGame, Game!SessionAssumption, SInv, Spoken
<1>3. cbuf' \in Seq(Game!Commands)
  BY <1>1, <1>2, ConcatProperties
<1>4. /\ todo = <<>> /\ todo' = <<>> /\ pc = "input" /\ pc' = "commands" /\ msg' = msg
      /\ UNCHANGED Game!netVars
      /\ UNCHANGED <<signon, clMessage, clLevel, svActive, spawned, sendsignon, svMessage, issued, loads>>
  BY DEF Game!Type, Game!At, Game!Go, Game!clientVars, Game!serverVars, Game!slotVars
<1>5. msg = <<>> /\ issued \in BOOLEAN
  BY <1>4 DEF SInv, Placed, Typed
<1> QED BY <1>3, <1>4, <1>5, GoSInv DEF Running

LEMMA NoInputSInv == ASSUME OneGame, SInv, Game!NoInput PROVE SInv' /\ [Next]_vars
<1>1. /\ todo = <<>> /\ todo' = <<>> /\ pc = "input" /\ pc' = "commands" /\ msg' = msg /\ cbuf' = cbuf
      /\ UNCHANGED Game!netVars
      /\ UNCHANGED <<signon, clMessage, clLevel, svActive, spawned, sendsignon, svMessage, issued, loads>>
  BY DEF Game!NoInput, Game!At, Game!Go, Game!clientVars, Game!serverVars, Game!slotVars
<1>2. msg = <<>> /\ issued \in BOOLEAN /\ cbuf \in Seq(Game!Commands)
  BY <1>1 DEF SInv, Placed, Spoken, Typed
<1> QED BY <1>1, <1>2, GoSInv DEF Running

LEMMA LongJumpSInv == ASSUME OneGame, SInv, Game!LongJump PROVE SInv' /\ [Next]_vars
<1>1. /\ todo = <<>> /\ todo' = <<>> /\ pc = "abort" /\ pc' = "input" /\ msg' = msg /\ cbuf' = cbuf
      /\ UNCHANGED Game!netVars
      /\ UNCHANGED <<signon, clMessage, clLevel, svActive, spawned, sendsignon, svMessage, issued, loads>>
  BY DEF Game!LongJump, Game!At, Game!Go, Game!clientVars, Game!serverVars, Game!slotVars
<1>2. msg = <<>> /\ issued \in BOOLEAN /\ cbuf \in Seq(Game!Commands)
  BY <1>1 DEF SInv, Placed, Spoken, Typed
<1> QED BY <1>1, <1>2, GoSInv DEF Running

LEMMA CommandsDoneSInv == ASSUME OneGame, SInv, Game!CommandsDone PROVE SInv' /\ [Next]_vars
<1>1. /\ todo = <<>> /\ todo' = <<>> /\ pc = "commands" /\ pc' = "send" /\ msg' = msg /\ cbuf' = cbuf
      /\ UNCHANGED Game!netVars
      /\ UNCHANGED <<signon, clMessage, clLevel, svActive, spawned, sendsignon, svMessage, issued, loads>>
  BY DEF Game!CommandsDone, Game!At, Game!Go, Game!clientVars, Game!serverVars, Game!slotVars
<1>2. msg = <<>> /\ issued \in BOOLEAN /\ cbuf \in Seq(Game!Commands)
  BY <1>1 DEF SInv, Placed, Spoken, Typed
<1> QED BY <1>1, <1>2, GoSInv DEF Running

LEMMA NothingToAcceptSInv == ASSUME OneGame, SInv, Game!NothingToAccept PROVE SInv' /\ [Next]_vars
<1>1. /\ todo = <<>> /\ todo' = <<>> /\ pc = "accept" /\ pc' = "run" /\ msg' = msg /\ cbuf' = cbuf
      /\ UNCHANGED Game!netVars
      /\ UNCHANGED <<signon, clMessage, clLevel, svActive, spawned, sendsignon, svMessage, issued, loads>>
  BY DEF Game!NothingToAccept, Game!At, Game!Go, Game!clientVars, Game!serverVars, Game!slotVars
<1>2. msg = <<>> /\ issued \in BOOLEAN /\ cbuf \in Seq(Game!Commands) /\ svActive
  BY <1>1 DEF SInv, Placed, Spoken, Typed, Running
<1> QED BY <1>1, <1>2, GoSInv DEF Running

LEMMA PhysicsSInv == ASSUME OneGame, SInv, Game!Physics PROVE SInv' /\ [Next]_vars
<1>1. /\ todo = <<>> /\ todo' = <<>> /\ pc = "physics" /\ pc' = "datagram" /\ msg' = msg /\ cbuf' = cbuf
      /\ UNCHANGED Game!netVars
      /\ UNCHANGED <<signon, clMessage, clLevel, svActive, spawned, sendsignon, svMessage, issued, loads>>
  BY DEF Game!Physics, Game!At, Game!Go, Game!clientVars, Game!serverVars, Game!slotVars
<1>2. msg = <<>> /\ issued \in BOOLEAN /\ cbuf \in Seq(Game!Commands) /\ svActive
  BY <1>1 DEF SInv, Placed, Spoken, Typed, Running
<1> QED BY <1>1, <1>2, GoSInv DEF Running

LEMMA AllReadSInv ==
    ASSUME OneGame, SInv,
           Game!AllRead("run", Game!Slot, "physics") \/ Game!AllRead("read", netcon, "input")
    PROVE  SInv' /\ [Next]_vars
<1>1. /\ todo = <<>> /\ todo' = <<>> /\ msg = <<>> /\ msg' = msg /\ cbuf' = cbuf
      /\ (pc = "run" /\ pc' = "physics") \/ (pc = "read" /\ pc' = "input")
      /\ UNCHANGED Game!netVars
      /\ UNCHANGED <<signon, clMessage, clLevel, svActive, spawned, sendsignon, svMessage, issued, loads>>
  BY DEF Game!AllRead, Game!At, Game!Go, Game!clientVars, Game!serverVars, Game!slotVars
<1>2. issued \in BOOLEAN /\ cbuf \in Seq(Game!Commands) /\ (pc = "run" => svActive)
  BY <1>1 DEF SInv, Placed, Spoken, Typed, Running
<1> QED BY <1>1, <1>2, GoSInv DEF Running

LEMMA ExitSInv == ASSUME OneGame, SInv, Game!Exit PROVE SInv' /\ [Next]_vars
<1>1. PICK o \in Exits : cbuf' = Append(cbuf, <<"changelevel", o>>)
  BY DEF Game!Exit
<1>2. <<"changelevel", o>> \in Game!Commands /\ cbuf \in Seq(Game!Commands)
  BY DEF OneGame, Game!SessionAssumption, Game!Commands, SInv, Spoken
<1>3. cbuf' \in Seq(Game!Commands)
  BY <1>1, <1>2, AppendProperties
<1>4. /\ todo = <<>> /\ todo' = <<>> /\ pc = "physics" /\ pc' = "datagram" /\ msg' = msg
      /\ issued' = TRUE /\ UNCHANGED Game!netVars
      /\ UNCHANGED <<signon, clMessage, clLevel, svActive, spawned, sendsignon, svMessage, loads>>
  BY DEF Game!Exit, Game!At, Game!Go, Game!clientVars, Game!serverVars, Game!slotVars
<1>5. msg = <<>> /\ svActive /\ issued' \in BOOLEAN
  BY <1>4 DEF SInv, Placed, Running
<1> QED BY <1>3, <1>4, <1>5, GoSInv DEF Running

LEMMA HostErrorPlanned == ASSUME Game!HostError PROVE Planned' /\ Placed' /\ msg' = <<>>
<1>1. todo' = <<shutdown, hangup>> /\ pc' = "abort" /\ msg' = <<>>
  BY DEF Game!HostError, Game!ErrorOps, shutdown, hangup
<1>2. "ok" \in Game!Outcomes
  BY DEF Game!Outcomes
<1>3. Agenda(todo', Game!Connected', svActive', "ok")
  BY <1>1 DEF Agenda
<1> QED BY <1>1, <1>2, <1>3 DEF Planned, Placed, Running

LEMMA ProgramErrorSInv == ASSUME OneGame, SInv, Game!ProgramError PROVE SInv' /\ [Next]_vars
<1>1. /\ todo = <<>> /\ Game!HostError /\ UNCHANGED Game!netVars
      /\ UNCHANGED <<cbuf, signon, clMessage, clLevel, svActive, spawned, sendsignon, svMessage, issued, loads>>
  BY DEF Game!ProgramError, Game!At, Game!clientVars, Game!serverVars, Game!slotVars
<1>2. Planned' /\ Placed' /\ msg' = <<>>
  BY <1>1, HostErrorPlanned
<1>3. Spoken' /\ Typed'
  BY <1>1, <1>2 DEF SInv, Spoken, Typed
<1> QED BY <1>1, <1>2, <1>3, StillSInv

LEMMA ExecuteCommandSInv == ASSUME OneGame, SInv, Game!ExecuteCommand PROVE SInv' /\ [Next]_vars
<1> DEFINE k == Head(cbuf)
<1>1. /\ todo = <<>> /\ pc = "commands" /\ cbuf # <<>> /\ cbuf' = Tail(cbuf) /\ msg' = msg
      /\ k = <<"wait">> => pc' = "send" /\ todo' = todo
      /\ k # <<"wait">> => todo' = Game!OpsOf(k) /\ pc' = pc
      /\ UNCHANGED Game!netVars
      /\ UNCHANGED <<signon, clMessage, clLevel, svActive, spawned, sendsignon, svMessage, issued, loads>>
  BY DEF Game!ExecuteCommand, Game!At, Game!Go, Game!clientVars, Game!serverVars, Game!slotVars
<1>2. k \in Game!Commands /\ cbuf' \in Seq(Game!Commands)
  <2>1. cbuf \in Seq(Game!Commands)
    BY DEF SInv, Spoken
  <2> QED BY <1>1, <2>1, HeadTailProperties
<1>3. msg = <<>> /\ issued \in BOOLEAN /\ svActive \in BOOLEAN
  BY <1>1 DEF SInv, Placed, Typed
<1> HIDE DEF k
<1>4. CASE k = <<"wait">>
  <2>1. pc' = "send" /\ todo' = <<>>
    BY <1>1, <1>4
  <2> QED BY <1>1, <1>2, <1>3, <2>1, GoSInv DEF Running
<1>5. CASE k # <<"wait">>
  <2>1. Game!Connected' = Game!Connected
    BY <1>1, Still DEF SInv
  <2>2. Planned'
    <3>1. PICK p \in Game!Outcomes : Agenda(todo, Game!Connected, svActive, p)
      BY DEF SInv, Planned
    <3>2. (svActive => Game!Connected) /\ Game!Connected \in BOOLEAN
      BY <1>1, <3>1 DEF Agenda, Game!Connected
    <3>3. PICK c \in BOOLEAN : c = Game!Connected
      BY <3>2
    <3>4. PICK o \in Game!Outcomes : Agenda(Game!OpsOf(k), c, svActive, o)
      BY <1>2, <1>3, <1>5, <3>2, <3>3, OpsNext, Zenon
    <3>5. Agenda(todo', Game!Connected', svActive', o)
      BY <1>1, <1>5, <2>1, <3>3, <3>4
    <3> QED BY <3>5 DEF Planned
  <2>3. Placed'
    BY <1>1, <1>3, <1>5 DEF SInv, Placed, Running
  <2>4. Spoken' /\ Typed'
    BY <1>1, <1>2, <1>3, <1>5 DEF SInv, Spoken, Typed
  <2> QED BY <1>1, <2>2, <2>3, <2>4, StillSInv
<1> QED BY <1>4, <1>5

LEMMA ServerCommandSInv == ASSUME OneGame, SInv, Game!ServerCommand PROVE SInv' /\ [Next]_vars
<1>1. /\ todo = <<>> /\ pc = "run" /\ msg # <<>> /\ msg' = Tail(msg)
      /\ UNCHANGED <<Game!netVars, pc, todo, cbuf>>
      /\ UNCHANGED <<signon, clMessage, clLevel, svActive, issued, loads>>
  BY DEF Game!ServerCommand, Game!At, Game!clientVars
<1>2. msg \in Seq(Speech) /\ svMessage \in Seq(News) /\ svActive /\ Game!Slot # None
  BY <1>1 DEF SInv, Spoken, Placed, Running
<1>3. Head(msg) \in Speech /\ msg' \in Seq(Speech)
  BY <1>1, <1>2, HeadTailProperties
<1>4. svMessage' \in Seq(News) /\ spawned' \in BOOLEAN /\ sendsignon' \in BOOLEAN
  <2>1. spawned \in BOOLEAN /\ sendsignon \in BOOLEAN
    BY DEF SInv, Typed
  <2>2. CASE Head(msg) = <<"prespawn">>
    <3>4. ~(Head(msg) = <<"spawn">>) /\ ~(Head(msg) = <<"begin">>)
      BY <2>2
    <3>1. Game!Stage(Append(svMessage, <<"signon", 2>>))
      BY <2>2, <3>4, Zenon DEF Game!ServerCommand
    <3>2. <<"signon", 2>> \in News
      BY DEF News
    <3>3. Append(svMessage, <<"signon", 2>>) \in Seq(News)
      BY <1>2, <3>2, AppendProperties
    <3> QED BY <1>2, <2>1, <3>1, <3>3 DEF Game!Stage, Game!slotVars
  <2>3. CASE Head(msg) = <<"spawn">>
    <3>4. ~(Head(msg) = <<"prespawn">>) /\ ~(Head(msg) = <<"begin">>)
      BY <2>3
    <3>1. Game!Stage(Game!NamesFor(svMessage))
      BY <2>3, <3>4, Zenon DEF Game!ServerCommand
    <3>2. <<"signon", 3>> \in News /\ <<"names">> \in News
      BY DEF News
    <3>3. Game!NamesFor(svMessage) \in Seq(News)
      BY <3>2, PairIsSeq DEF Game!NamesFor
    <3> QED BY <1>2, <2>1, <3>1, <3>3 DEF Game!Stage, Game!slotVars
  <2>4. CASE Head(msg) = <<"begin">>
    <3>4. ~(Head(msg) = <<"prespawn">>) /\ ~(Head(msg) = <<"spawn">>)
      BY <2>4
    <3>1. spawned' = TRUE /\ UNCHANGED <<sendsignon, svMessage>>
      BY <2>4, <3>4, Zenon DEF Game!ServerCommand
    <3> QED BY <1>2, <2>1, <3>1
  <2> QED BY <1>3, <2>2, <2>3, <2>4 DEF Speech
<1>5. /\ Game!Connected' = Game!Connected /\ Game!Slot' = Game!Slot
  BY <1>1, Still DEF SInv
<1>6. Planned'
  BY <1>1, <1>5, PlannedStill
<1>7. Placed'
  BY <1>1, <1>2, <1>5 DEF Placed, Running
<1>8. Spoken'
  BY <1>1, <1>3, <1>4 DEF SInv, Spoken
<1>9. Typed'
  BY <1>1, <1>4 DEF SInv, Typed
<1> QED BY <1>1, <1>6, <1>7, <1>8, <1>9, StillSInv

\* The client has parsed an item, or fails to.
LEMMA ParsedSInv ==
    ASSUME OneGame, SInv, todo = <<>>, pc = "read", msg # <<>>, Game!Parsed,
           UNCHANGED Game!netVars, UNCHANGED Game!serverVars,
           cbuf' \in Seq(Game!Commands), clMessage' \in Seq(Speech),
           signon' \in 0 .. 4, clLevel' \in Nat
    PROVE  SInv' /\ [Next]_vars
<1>1. /\ msg' = Tail(msg) /\ pc' = "read" /\ todo' = <<>>
      /\ UNCHANGED <<svActive, spawned, sendsignon, svMessage, issued, loads>>
  BY DEF Game!Parsed, Game!serverVars, Game!slotVars
<1>2. msg \in Seq(News) /\ Game!Connected
  BY DEF SInv, Spoken, Placed
<1>3. msg' \in Seq(News)
  BY <1>1, <1>2, HeadTailProperties
<1>4. Game!Connected' = Game!Connected
  BY Still DEF SInv
<1>5. Planned'
  BY <1>1, <1>4, PlannedStill
<1>6. Placed'
  BY <1>1, <1>2, <1>4 DEF Placed, Running
<1>7. Spoken'
  BY <1>1, <1>3 DEF SInv, Spoken
<1>8. Typed'
  BY <1>1 DEF SInv, Typed
<1> QED BY <1>5, <1>6, <1>7, <1>8, StillSInv

LEMMA NotParsedSInv ==
    ASSUME OneGame, SInv, todo = <<>>, Game!HostError,
           UNCHANGED Game!netVars, UNCHANGED Game!serverVars,
           UNCHANGED <<cbuf, signon, clMessage, clLevel>>
    PROVE  SInv' /\ [Next]_vars
<1>1. UNCHANGED <<svActive, spawned, sendsignon, svMessage, issued, loads>>
  BY DEF Game!serverVars, Game!slotVars
<1>2. Planned' /\ Placed' /\ msg' = <<>>
  BY HostErrorPlanned
<1>3. Spoken' /\ Typed'
  BY <1>1, <1>2 DEF SInv, Spoken, Typed
<1> QED BY <1>2, <1>3, StillSInv

LEMMA ParseServerMessageSInv ==
    ASSUME OneGame, SInv, Game!ParseServerMessage PROVE SInv' /\ [Next]_vars
<1> DEFINE item == Head(msg)
<1>1. /\ todo = <<>> /\ pc = "read" /\ msg # <<>>
      /\ UNCHANGED Game!netVars /\ UNCHANGED Game!serverVars
  BY DEF Game!ParseServerMessage, Game!At
<1>2. item \in News
  <2>1. msg \in Seq(News)
    BY <1>1 DEF SInv, Spoken
  <2> QED BY <1>1, <2>1, HeadTailProperties
<1>3. /\ cbuf \in Seq(Game!Commands) /\ clMessage \in Seq(Speech)
      /\ signon \in 0 .. 4 /\ clLevel \in Nat
  BY DEF SInv, Spoken, Typed
<1>4. (CASE item[1] = "serverinfo" -> Game!ParseServerinfo(item[2])
         [] item[1] = "signon" -> Game!ParseSignon(item[2])
         [] item[1] = "names" -> Game!ParseNames
         [] item[1] = "update" -> Game!ParseUpdate
         [] item[1] = "stufftext" -> Game!ParseStufftext(item[2]))
  BY Zenon DEF Game!ParseServerMessage
<1> HIDE DEF item
<1>5. CASE \E l \in Nat : item = <<"serverinfo", l>>
  <2>1. PICK l \in Nat : item = <<"serverinfo", l>>
    BY <1>5
  <2>2. item[1] = "serverinfo" /\ item[2] = l
    BY <2>1
  <2>3. /\ item[1] # "signon" /\ item[1] # "names" /\ item[1] # "update" /\ item[1] # "stufftext"
    BY <2>2
  <2>4. Game!ParseServerinfo(l)
    BY <1>4, <2>2, <2>3, Zenon
  <2>5. clMessage' = <<>> /\ clLevel' = l /\ signon' \in {0, signon} /\ cbuf' = cbuf /\ Game!Parsed
    BY <2>4 DEF Game!ParseServerinfo
  <2> QED BY <1>1, <1>3, <2>5, ParsedSInv
<1>6. CASE \E n \in 1 .. 3 : item = <<"signon", n>>
  <2>1. PICK n \in 1 .. 3 : item = <<"signon", n>>
    BY <1>6
  <2>2. item[1] = "signon" /\ item[2] = n
    BY <2>1
  <2>3. /\ item[1] # "serverinfo" /\ item[1] # "names" /\ item[1] # "update" /\ item[1] # "stufftext"
    BY <2>2
  <2>4. Game!ParseSignon(n)
    BY <1>4, <2>2, <2>3, Zenon
  <2>5. CASE n <= signon
    BY <1>1, <2>4, <2>5, NotParsedSInv DEF Game!ParseSignon
  <2>6. CASE ~(n <= signon)
    <3>1. /\ signon' = n /\ clMessage' = clMessage \o Game!Reply(n) /\ Game!Parsed
          /\ UNCHANGED <<cbuf, clLevel>>
      BY <2>4, <2>6 DEF Game!ParseSignon
    <3>2. Game!Reply(n) \in Seq(Speech)
      BY <2>1 DEF Game!Reply, Speech
    <3>3. clMessage' \in Seq(Speech)
      BY <1>3, <3>1, <3>2, ConcatProperties
    <3> QED BY <1>1, <1>3, <2>1, <3>1, <3>3, ParsedSInv
  <2> QED BY <2>5, <2>6
<1>7. CASE item = <<"names">>
  <2>2. item[1] = "names"
    BY <1>7
  <2>3. /\ item[1] # "serverinfo" /\ item[1] # "signon" /\ item[1] # "update" /\ item[1] # "stufftext"
    BY <2>2
  <2>4. Game!ParseNames
    BY <1>4, <2>2, <2>3, Zenon
  <2>5. (Game!HostError \/ Game!Parsed) /\ UNCHANGED <<cbuf, signon, clMessage, clLevel>>
    BY <2>4 DEF Game!ParseNames, Game!clientVars
  <2>6. CASE Game!HostError
    BY <1>1, <2>5, <2>6, NotParsedSInv
  <2>7. CASE Game!Parsed
    BY <1>1, <1>3, <2>5, <2>7, ParsedSInv
  <2> QED BY <2>5, <2>6, <2>7
<1>8. CASE item = <<"update">>
  <2>2. item[1] = "update"
    BY <1>8
  <2>3. /\ item[1] # "serverinfo" /\ item[1] # "signon" /\ item[1] # "names" /\ item[1] # "stufftext"
    BY <2>2
  <2>4. Game!ParseUpdate
    BY <1>4, <2>2, <2>3, Zenon
  <2>5. signon' \in {4, signon} /\ UNCHANGED <<cbuf, clMessage, clLevel>> /\ Game!Parsed
    BY <2>4 DEF Game!ParseUpdate
  <2> QED BY <1>1, <1>3, <2>5, ParsedSInv
<1>9. CASE item = <<"stufftext", <<"reconnect">>>>
  <2>2. item[1] = "stufftext" /\ item[2] = <<"reconnect">>
    BY <1>9
  <2>3. /\ item[1] # "serverinfo" /\ item[1] # "signon" /\ item[1] # "names" /\ item[1] # "update"
    BY <2>2
  <2>4. Game!ParseStufftext(<<"reconnect">>)
    BY <1>4, <2>2, <2>3, Zenon
  <2>5. cbuf' = Append(cbuf, <<"reconnect">>) /\ UNCHANGED <<signon, clMessage, clLevel>> /\ Game!Parsed
    BY <2>4 DEF Game!ParseStufftext, Game!clientVars
  <2>6. <<"reconnect">> \in Game!Commands
    BY DEF Game!Commands
  <2>7. cbuf' \in Seq(Game!Commands)
    BY <1>3, <2>5, <2>6, AppendProperties
  <2> QED BY <1>1, <1>3, <2>5, <2>7, ParsedSInv
<1> QED BY <1>2, <1>5, <1>6, <1>7, <1>8, <1>9 DEF News

\* A message from the client reaches the server's buffer and no other.
LEMMA SpeechArrives ==
    ASSUME OneGame, Inv, Heard, ~Closing, todo' = todo, Game!Connected, Game!Linked(netcon),
           NEW p \in Seq(Speech), Game!Net!SendMessage(netcon, p)
    PROVE  /\ Inv' /\ [Next]_vars
           /\ UNCHANGED <<pending, client, server, netcon, slots>>
           /\ Heard'
<1>1. p \in Seq(Talk)
  BY DEF Talk
<1>2. /\ netcon \in {netcon, Game!Slot} \ {None} /\ driverdata[netcon] = server /\ netcon = client
      /\ netcon \in Sockets /\ server \in Sockets /\ netcon # server
  BY EndFacts DEF Game!Connected
<1>10. PICK s : s = netcon
  OBVIOUS
<1>11. /\ s \in {netcon, Game!Slot} \ {None}
       /\ Game!Net!SendMessage(s, p) \/ Game!Net!SendUnreliableMessage(s, p)
  BY <1>2, <1>10
<1> DEFINE to == driverdata[s]
<1>3. /\ Inv' /\ [Next]_vars
      /\ UNCHANGED <<driverdata, pending, client, server, netcon, slots, conns, active>>
      /\ \A x \in Sockets : x # to => buf'[x] = buf[x] /\ len'[x] = len[x]
      /\ DOMAIN buf'[to] = DOMAIN buf[to] \cup {len[to]}
      /\ \A o \in DOMAIN buf'[to] :
            buf'[to][o].payload = IF o = len[to] THEN p ELSE buf[to][o].payload
  BY <1>1, <1>11, SendEffect
<1>8. to = server
  BY <1>2, <1>10
<1> HIDE DEF to
<1>4. /\ DOMAIN buf'[server] = DOMAIN buf[server] \cup {len[server]}
      /\ \A o \in DOMAIN buf'[server] :
            buf'[server][o].payload = IF o = len[server] THEN p ELSE buf[server][o].payload
  BY <1>3, <1>8
<1>9. buf'[netcon] = buf[netcon]
  BY <1>2, <1>3, <1>8
<1>5. Carries(buf[server], Speech) /\ Carries(buf[netcon], News) /\ server # None
  BY <1>2, LoopbackAssumption DEF Heard
<1>6. Carries(buf'[server], Speech)
  BY <1>4, <1>5 DEF Carries
<1>7. Heard'
  BY <1>3, <1>5, <1>6, <1>9 DEF Heard, Game!Connected
<1> QED BY <1>3, <1>7

\* What is left in the buffers after a message has been read was there before.
LEMMA RestHeard ==
    ASSUME OneGame, Inv, Heard, ~Closing, todo' = todo,
           NEW s, s \in {netcon, Game!Slot} \ {None}, Game!Net!GetMessage(s)
    PROVE  /\ Inv' /\ [Next]_vars
           /\ UNCHANGED <<pending, client, server, netcon, slots>>
           /\ Heard' /\ 0 \in DOMAIN buf[s]
<1>1. /\ Inv' /\ [Next]_vars
      /\ UNCHANGED <<driverdata, pending, client, server, netcon, slots, conns, active>>
      /\ s \in Sockets /\ 0 \in DOMAIN buf[s]
      /\ \A x \in Sockets : x # s => buf'[x] = buf[x] /\ len'[x] = len[x]
      /\ \A o \in DOMAIN buf'[s] : \E q \in DOMAIN buf[s] : buf'[s][o] = buf[s][q]
  BY GetEffect
<1>2. netcon = client /\ client \in Sockets \cup {None} /\ server \in Sockets \cup {None} /\ None \notin Sockets
  BY EndFacts
<1>3. ASSUME NEW x \in Sockets, NEW S, Carries(buf[x], S)
      PROVE  Carries(buf'[x], S)
  <2>1. CASE x # s
    BY <1>1, <1>3, <2>1
  <2>2. CASE x = s
    BY <1>1, <1>3, <2>2 DEF Carries
  <2> QED BY <2>1, <2>2
<1>4. netcon # None => Carries(buf'[netcon], News)
  BY <1>2, <1>3 DEF Heard, Game!Connected
<1>5. netcon # None /\ server # None => Carries(buf'[server], Speech)
  BY <1>2, <1>3 DEF Heard, Game!Connected
<1>6. Heard'
  BY <1>1, <1>4, <1>5 DEF Heard, Game!Connected
<1> QED BY <1>1, <1>6

LEMMA SendCmdSInv == ASSUME OneGame, SInv, Game!SendCmd PROVE SInv' /\ [Next]_vars
<1>1. /\ todo = <<>> /\ todo' = <<>> /\ pc = "send" /\ msg' = msg /\ cbuf' = cbuf
      /\ svActive => pc' = "accept"
      /\ ~svActive => pc' = "read"
      /\ UNCHANGED <<signon, clLevel, svActive, spawned, sendsignon, svMessage, issued, loads>>
  BY DEF Game!SendCmd, Game!At, Game!Go, Game!serverVars, Game!slotVars
<1>2. /\ msg = <<>> /\ issued \in BOOLEAN /\ cbuf \in Seq(Game!Commands) /\ svActive \in BOOLEAN
      /\ clMessage \in Seq(Speech) /\ ~Closing
  BY <1>1 DEF SInv, Placed, Spoken, Typed, Closing
<1>3. CASE Game!Connected /\ clMessage # <<>> /\ Game!CanSendMessage(netcon)
  <2>1. Game!Net!SendMessage(netcon, clMessage) /\ clMessage' = <<>> /\ Game!Linked(netcon)
    BY <1>3 DEF Game!SendCmd, Game!CanSendMessage
  <2>2. PICK p \in Seq(Speech) : p = clMessage
    BY <1>2
  <2>3. Game!Net!SendMessage(netcon, p)
    BY <2>1, <2>2
  <2>4. /\ Inv' /\ [Next]_vars /\ UNCHANGED <<pending, client, server, netcon, slots>> /\ Heard'
    BY <1>1, <1>2, <1>3, <2>1, <2>3, SpeechArrives DEF SInv
  <2>5. Game!Connected' = Game!Connected /\ Game!Slot' = Game!Slot
    BY <2>4 DEF Game!Connected, Game!Slot
  <2>6. Planned'
    BY <1>1, <2>5, PlannedStill
  <2>7. Placed'
    BY <1>1, <1>2 DEF Placed, Running
  <2>8. Awaited'
    BY <2>4, <2>5 DEF SInv, Awaited
  <2>9. Spoken' /\ Typed'
    BY <1>1, <1>2, <2>1 DEF SInv, Spoken, Typed
  <2> QED BY <2>4, <2>6, <2>7, <2>8, <2>9 DEF SInv
<1>4. CASE ~(Game!Connected /\ clMessage # <<>> /\ Game!CanSendMessage(netcon))
  <2>1. UNCHANGED Game!netVars /\ clMessage' = clMessage
    BY <1>4 DEF Game!SendCmd
  <2> QED BY <1>1, <1>2, <2>1, GoSInv DEF Running
<1> QED BY <1>3, <1>4

LEMMA AcceptSInv == ASSUME OneGame, SInv, Game!Accept PROVE SInv' /\ [Next]_vars
<1>1. /\ todo = <<>> /\ todo' = <<>> /\ pc = "accept" /\ pc' = "run" /\ msg' = msg /\ cbuf' = cbuf
      /\ Game!Net!CheckNewConnections
      /\ svMessage' = <<>> \o <<<<"serverinfo", loads>>, <<"signon", 1>>>>
      /\ sendsignon' = TRUE /\ spawned' = FALSE
      /\ UNCHANGED <<signon, clMessage, clLevel, svActive, issued, loads>>
  BY DEF Game!Accept, Game!At, Game!Go, Game!clientVars, Game!SendServerinfo
<1>2. msg = <<>> /\ svActive /\ loads \in Nat
  BY <1>1 DEF SInv, Placed, Running, Typed
<1>3. /\ Inv' /\ [Next]_vars
      /\ netcon' = netcon /\ server' = server /\ ~pending'
      /\ buf'[netcon] = Empty /\ buf'[server] = Empty
  BY <1>1, AcceptEffect DEF SInv
<1>4. Game!Connected' = Game!Connected
  BY <1>3 DEF Game!Connected
<1>5. Planned'
  BY <1>1, <1>4, PlannedStill
<1>6. Placed'
  BY <1>1, <1>2 DEF Placed, Running
<1>7. Awaited'
  BY <1>3 DEF Awaited
<1>8. Heard'
  <2>1. DOMAIN Empty = {}
    BY DEF Empty
  <2> QED BY <1>3, <2>1 DEF Heard, Carries
<1>9. svMessage' \in Seq(News)
  <2>1. <<"serverinfo", loads>> \in News /\ <<"signon", 1>> \in News
    BY <1>2 DEF News
  <2> DEFINE m == <<<<"serverinfo", loads>>, <<"signon", 1>>>>
  <2>2. m \in Seq(News) /\ svMessage' = <<>> \o m
    BY <1>1, <2>1, PairIsSeq
  <2> HIDE DEF m
  <2>3. <<>> \in Seq(News)
    OBVIOUS
  <2>4. <<>> \o m \in Seq(News)
    BY <2>2, <2>3, ConcatProperties
  <2> QED BY <2>2, <2>4
<1>10. Spoken'
  BY <1>1, <1>2, <1>9 DEF SInv, Spoken
<1>11. Typed'
  BY <1>1 DEF SInv, Typed
<1> QED BY <1>3, <1>5, <1>6, <1>7, <1>8, <1>10, <1>11 DEF SInv

LEMMA ReadCommandSInv ==
    ASSUME OneGame, SInv, Game!ReadMessage("run", Game!Slot) PROVE SInv' /\ [Next]_vars
<1>1. /\ todo = <<>> /\ todo' = <<>> /\ pc = "run" /\ pc' = "run" /\ cbuf' = cbuf /\ msg = <<>>
      /\ Game!Slot # None /\ msg' = buf[Game!Slot][0].payload
      /\ Game!Net!GetMessage(Game!Slot)
      /\ UNCHANGED <<signon, clMessage, clLevel, svActive, spawned, sendsignon, svMessage, issued, loads>>
  BY DEF Game!ReadMessage, Game!Waiting, Game!At, Game!clientVars, Game!serverVars, Game!slotVars
<1>2. ~Closing /\ svActive
  BY <1>1 DEF SInv, Closing, Placed, Running
<1>3. PICK s : s = Game!Slot
  OBVIOUS
<1>4. s \in {netcon, Game!Slot} \ {None} /\ Game!Net!GetMessage(s)
  BY <1>1, <1>3
<1>5. /\ Inv' /\ [Next]_vars
      /\ UNCHANGED <<pending, client, server, netcon, slots>>
      /\ Heard' /\ 0 \in DOMAIN buf[s]
  BY <1>1, <1>2, <1>4, RestHeard DEF SInv
<1>6. Game!Connected' = Game!Connected /\ Game!Slot' = Game!Slot
  BY <1>5 DEF Game!Connected, Game!Slot
<1>7. Planned' /\ Game!Connected
  BY <1>1, <1>2, <1>6, PlannedStill
<1>8. msg' \in Seq(Speech)
  <2>1. s = server /\ server # None
    BY <1>1, <1>3, EndFacts DEF SInv
  <2>2. Carries(buf[s], Speech)
    BY <1>2, <1>7, <2>1 DEF SInv, Heard
  <2> QED BY <1>1, <1>3, <1>5, <2>2 DEF Carries
<1>9. Placed'
  BY <1>1, <1>2, <1>6 DEF Placed, Running
<1>10. Awaited'
  BY <1>5, <1>6 DEF SInv, Awaited
<1>11. Spoken' /\ Typed'
  BY <1>1, <1>8 DEF SInv, Spoken, Typed
<1> QED BY <1>5, <1>7, <1>9, <1>10, <1>11 DEF SInv

LEMMA ReadServerMessageSInv ==
    ASSUME OneGame, SInv, Game!ReadMessage("read", netcon) PROVE SInv' /\ [Next]_vars
<1>1. /\ todo = <<>> /\ todo' = <<>> /\ pc = "read" /\ pc' = "read" /\ cbuf' = cbuf /\ msg = <<>>
      /\ netcon # None /\ msg' = buf[netcon][0].payload
      /\ Game!Net!GetMessage(netcon)
      /\ UNCHANGED <<signon, clMessage, clLevel, svActive, spawned, sendsignon, svMessage, issued, loads>>
  BY DEF Game!ReadMessage, Game!Waiting, Game!At, Game!clientVars, Game!serverVars, Game!slotVars
<1>2. ~Closing
  BY <1>1 DEF Closing
<1>3. PICK s : s = netcon
  OBVIOUS
<1>4. s \in {netcon, Game!Slot} \ {None} /\ Game!Net!GetMessage(s)
  BY <1>1, <1>3
<1>5. /\ Inv' /\ [Next]_vars
      /\ UNCHANGED <<pending, client, server, netcon, slots>>
      /\ Heard' /\ 0 \in DOMAIN buf[s]
  BY <1>1, <1>2, <1>4, RestHeard DEF SInv
<1>6. Game!Connected' = Game!Connected /\ Game!Slot' = Game!Slot /\ Game!Connected
  BY <1>1, <1>5 DEF Game!Connected, Game!Slot
<1>7. Planned'
  BY <1>1, <1>6, PlannedStill
<1>8. msg' \in Seq(News)
  <2>1. Carries(buf[s], News)
    BY <1>3, <1>6 DEF SInv, Heard
  <2> QED BY <1>1, <1>3, <1>5, <2>1 DEF Carries
<1>9. Placed'
  BY <1>1, <1>6 DEF Placed, Running
<1>10. Awaited'
  BY <1>5, <1>6 DEF SInv, Awaited
<1>11. Spoken' /\ Typed'
  BY <1>1, <1>8 DEF SInv, Spoken, Typed
<1> QED BY <1>5, <1>7, <1>9, <1>10, <1>11 DEF SInv

LEMMA DatagramSInv == ASSUME OneGame, SInv, Game!Datagram PROVE SInv' /\ [Next]_vars
<1>1. /\ todo = <<>> /\ todo' = <<>> /\ pc = "datagram" /\ pc' = "deliver" /\ msg' = msg /\ cbuf' = cbuf
      /\ UNCHANGED <<signon, clMessage, clLevel, svActive, spawned, sendsignon, svMessage, issued, loads>>
  BY DEF Game!Datagram, Game!At, Game!Go, Game!clientVars, Game!serverVars, Game!slotVars
<1>2. msg = <<>> /\ issued \in BOOLEAN /\ cbuf \in Seq(Game!Commands) /\ svActive /\ ~Closing
  BY <1>1 DEF SInv, Placed, Spoken, Typed, Running, Closing
<1>3. CASE Game!Slot # None /\ spawned /\ Game!Linked(Game!Slot)
  <2>1. Game!Net!SendUnreliableMessage(Game!Slot, <<<<"update">>>>)
    BY <1>3 DEF Game!Datagram
  <2>2. <<<<"update">>>> \in Seq(News)
    BY DEF News
  <2>3. /\ Inv' /\ [Next]_vars /\ UNCHANGED <<pending, client, server, netcon, slots>>
        /\ Game!Connected' = Game!Connected /\ Game!Slot' = Game!Slot
        /\ Heard'
    BY <1>1, <1>2, <1>3, <2>1, <2>2, NewsArrives DEF SInv
  <2>4. Planned'
    BY <1>1, <2>3, PlannedStill
  <2>5. Placed'
    BY <1>1, <1>2 DEF Placed, Running
  <2>6. Awaited'
    BY <2>3 DEF SInv, Awaited
  <2>7. Spoken' /\ Typed'
    BY <1>1, <1>2 DEF SInv, Spoken, Typed
  <2> QED BY <2>3, <2>4, <2>5, <2>6, <2>7 DEF SInv
<1>4. CASE ~(Game!Slot # None /\ spawned /\ Game!Linked(Game!Slot))
  <2>1. UNCHANGED Game!netVars
    BY <1>4 DEF Game!Datagram
  <2> QED BY <1>1, <1>2, <2>1, GoSInv DEF Running
<1> QED BY <1>3, <1>4

LEMMA DeliverSInv == ASSUME OneGame, SInv, Game!Deliver PROVE SInv' /\ [Next]_vars
<1> DEFINE due == Game!Slot # None /\ (spawned \/ sendsignon) /\ svMessage # <<>> /\ Game!CanSendMessage(Game!Slot)
<1>1. /\ todo = <<>> /\ todo' = <<>> /\ pc = "deliver" /\ pc' = "read" /\ msg' = msg /\ cbuf' = cbuf
      /\ UNCHANGED <<signon, clMessage, clLevel, svActive, spawned, issued, loads>>
  BY DEF Game!Deliver, Game!At, Game!Go, Game!clientVars
<1>2. /\ msg = <<>> /\ issued \in BOOLEAN /\ cbuf \in Seq(Game!Commands) /\ ~Closing
      /\ svMessage \in Seq(News)
  BY <1>1 DEF SInv, Placed, Spoken, Typed, Closing
<1>3. CASE due
  <2>1. Game!Net!SendMessage(Game!Slot, svMessage) /\ svMessage' = <<>> /\ sendsignon' = FALSE
    BY <1>3 DEF Game!Deliver
  <2>2. PICK p \in Seq(News) : p = svMessage
    BY <1>2
  <2>3. Game!Net!SendMessage(Game!Slot, p)
    BY <2>1, <2>2
  <2>4. /\ Inv' /\ [Next]_vars /\ UNCHANGED <<pending, client, server, netcon, slots>>
        /\ Game!Connected' = Game!Connected /\ Game!Slot' = Game!Slot
        /\ Heard'
    BY <1>1, <1>2, <1>3, <2>3, NewsArrives DEF SInv
  <2>5. Planned'
    BY <1>1, <2>4, PlannedStill
  <2>6. Placed'
    BY <1>1, <1>2 DEF Placed, Running
  <2>7. Awaited'
    BY <2>4 DEF SInv, Awaited
  <2>8. Spoken' /\ Typed'
    BY <1>1, <1>2, <2>1 DEF SInv, Spoken, Typed
  <2> QED BY <2>4, <2>5, <2>6, <2>7, <2>8 DEF SInv
<1>4. CASE ~due
  <2>1. UNCHANGED Game!netVars /\ UNCHANGED <<svMessage, sendsignon>>
    BY <1>4 DEF Game!Deliver
  <2> QED BY <1>1, <1>2, <2>1, GoSInv DEF Running
<1> QED BY <1>3, <1>4

\* Every step of the game.
LEMMA GameNextSInv ==
    ASSUME OneGame, SInv, [Game!Next]_Game!vars PROVE SInv' /\ [Next]_vars
<1>1. CASE UNCHANGED Game!vars
  <2>1. /\ UNCHANGED Game!netVars
        /\ UNCHANGED <<pc, todo, cbuf, msg, signon, clMessage, clLevel>>
        /\ UNCHANGED <<svActive, spawned, sendsignon, svMessage, issued, loads>>
    BY <1>1 DEF Game!vars, Game!clientVars, Game!serverVars, Game!slotVars
  <2>2. /\ Inv' /\ [Next]_vars /\ Game!Connected' = Game!Connected /\ Game!Slot' = Game!Slot
        /\ UNCHANGED <<buf, netcon, server, pending>>
    BY <2>1, Still DEF SInv
  <2>3. Planned'
    <3>1. PICK o \in Game!Outcomes : Agenda(todo, Game!Connected, svActive, o)
      BY DEF SInv, Planned
    <3>2. Agenda(todo', Game!Connected', svActive', o)
      BY <2>1, <2>2, <3>1
    <3> QED BY <3>2 DEF Planned
  <2>4. Placed'
    BY <2>1, <2>2 DEF SInv, Placed
  <2>5. Awaited' /\ Heard'
    BY <2>1, <2>2 DEF SInv, Awaited, Heard, Closing, Carries
  <2>6. Spoken' /\ Typed'
    BY <2>1 DEF SInv, Spoken, Typed
  <2> QED BY <2>2, <2>3, <2>4, <2>5, <2>6 DEF SInv
<1>2. CASE Game!Type
  BY <1>2, TypeSInv
<1>3. CASE Game!Operation
  BY <1>3, HangupSInv, CloseClientSInv, ShutdownSInv, DropClientsSInv, NotifySInv, SpawnServerSInv,
     DialSInv, DialFailsSInv, ReconnectSInv, Zenon DEF Game!Operation
<1>4. CASE Game!Frame
  BY <1>3, <1>4, NoInputSInv, LongJumpSInv, ExecuteCommandSInv, CommandsDoneSInv, SendCmdSInv,
     AcceptSInv, NothingToAcceptSInv, ReadCommandSInv, AllReadSInv, ServerCommandSInv, PhysicsSInv,
     ExitSInv, ProgramErrorSInv, DatagramSInv, DeliverSInv, ReadServerMessageSInv,
     ParseServerMessageSInv, Zenon DEF Game!Frame
<1> QED BY <1>1, <1>2, <1>4, Zenon DEF Game!Next

LEMMA GameInit == ASSUME OneGame, Game!Init PROVE Init /\ SInv
<1>1. Init
  <2>1. Game!Net!SetToSeq(Sockets) = SetToSeq(Sockets)
    BY Zenon DEF Game!Net!SetToSeq, SetToSeq, Game!Net!IsInjective, IsInjective,
                 Game!Net!Cardinality, Cardinality
  <2>2. /\ free = SetToSeq(Sockets) /\ active = <<>>
        /\ driverdata = [s \in Sockets |-> None]
        /\ canSend = [s \in Sockets |-> FALSE]
        /\ buf = [s \in Sockets |-> Empty] /\ len = [s \in Sockets |-> 0]
        /\ pending = FALSE /\ client = None /\ server = None /\ netcon = None /\ conns = 0
    BY <2>1, Zenon DEF Game!Init, Game!Net!Init, Game!Net!Empty, Empty
  <2>3. slots = [i \in 1 .. 1 |-> None]
    BY DEF Game!Init, Game!Net!Init
  <2>4. slots = [i \in 1 .. MaxClients |-> None]
    BY <2>3 DEF OneGame
  <2> QED BY <2>2, <2>4, Zenon DEF Init
<1>2. Inv
  BY <1>1, InitInv
<1>3. /\ pc = "input" /\ todo = <<>> /\ cbuf = <<>> /\ msg = <<>>
      /\ signon = 0 /\ clMessage = <<>> /\ clLevel = 0
      /\ svActive = FALSE /\ spawned = FALSE /\ sendsignon = FALSE /\ svMessage = <<>>
      /\ issued = FALSE /\ loads = 0
  BY DEF Game!Init
<1>4. netcon = None /\ ~Game!Connected
  BY <1>1 DEF Init, Game!Connected
<1>5. Planned
  <2>1. "ok" \in Game!Outcomes
    BY DEF Game!Outcomes
  <2>2. Agenda(todo, Game!Connected, svActive, "ok")
    BY <1>3 DEF Agenda
  <2> QED BY <2>1, <2>2 DEF Planned
<1>6. Placed /\ Awaited /\ Heard
  BY <1>3, <1>4 DEF Placed, Running, Awaited, Heard
<1>7. Spoken
  BY <1>3 DEF Spoken
<1>8. Typed
  <2>1. svActive \in BOOLEAN /\ spawned \in BOOLEAN /\ sendsignon \in BOOLEAN /\ issued \in BOOLEAN
    BY <1>3, Zenon
  <2>2. signon \in 0 .. 4 /\ clLevel \in Nat /\ loads \in Nat
    BY <1>3
  <2> QED BY <2>1, <2>2, Zenon DEF Typed
<1> QED BY <1>1, <1>2, <1>5, <1>6, <1>7, <1>8 DEF SInv

\* What a phase of the server takes for granted when it accepts.
LEMMA SInvEnds == ASSUME OneGame, SInv PROVE Game!AcceptHasEnds
<1> SUFFICES ASSUME todo = <<>>, pc = "accept", pending
             PROVE  client # None /\ server # None /\ Game!Slot = None
  BY DEF Game!AcceptHasEnds, Game!At
<1>1. svActive
  BY DEF SInv, Placed, Running
<1>2. PICK o \in Game!Outcomes : Agenda(todo, Game!Connected, svActive, o)
  BY DEF SInv, Planned
<1>3. Game!Connected
  BY <1>1, <1>2 DEF Agenda
<1>4. client # None
  BY <1>3, EndFacts DEF SInv, Game!Connected
<1> QED BY <1>3, <1>4 DEF SInv, Awaited

\* What Host_Frame, its commands and its errors do to the network are steps of
\* Loopback, and with the one slot orderly ones: everything proved of the network
\* above (the pool, both ends or none, the channel) holds in every session.
THEOREM SessionIsLoopback == OneGame => (Game!Spec => Spec /\ Orderly)
<1> SUFFICES ASSUME OneGame PROVE Game!Spec => Spec /\ Orderly
  OBVIOUS
<1>1. Game!Init => Init /\ SInv
  BY GameInit
<1>2. SInv /\ [Game!Next]_Game!vars => SInv' /\ [Next]_vars
  BY GameNextSInv
<1>3. Spec => Orderly
  BY OneSlotIsOrderly DEF OneGame
<1>4. Game!Spec => Spec
  BY <1>1, <1>2, PTL DEF Game!Spec, Spec
<1> QED BY <1>3, <1>4, PTL

\* SV_CheckForNewClients never meets a connection without the ends that
\* Loop_CheckNewConnections writes through, or without a free slot: the server comes
\* up only with its old client on the slot or none, a client that connects to a dead
\* server has hung up before the next one runs, and errors on the way take both down.
THEOREM AcceptAlwaysHasEnds == OneGame => (Game!Spec => []Game!AcceptHasEnds)
<1> SUFFICES ASSUME OneGame PROVE Game!Spec => []Game!AcceptHasEnds
  OBVIOUS
<1>1. Game!Init => SInv
  BY GameInit
<1>2. SInv /\ [Game!Next]_Game!vars => SInv'
  BY GameNextSInv
<1>3. SInv => Game!AcceptHasEnds
  BY SInvEnds
<1> QED BY <1>1, <1>2, <1>3, PTL DEF Game!Spec

-----------------------------------------------------------------------------
(* The handshake.  It goes in step as long as levels change the way the game   *)
(* changes them: at an exit that a player who has begun reaches, and by lines   *)
(* that start, end and join games.  A wait may put off only such a command: one *)
(* that put off the reconnect of a level would let the handshake go on before   *)
(* the client starts again.                                                     *)

wait == <<"wait">>
reconnect == <<"reconnect">>
Leavers == {<<"map", o>> : o \in Game!Outcomes} \cup {<<"disconnect">>, <<"connect">>}

Hasty(c) == \A i \in 1 .. Len(c) : c[i] = wait => i < Len(c) /\ c[i + 1] \in Leavers
Ready(c) == c = <<>> \/ Head(c) \in Leavers \cup {wait}
Settled(c) == c = <<>> \/ Head(c) \in Leavers

OrdinaryGame ==
    /\ ~ExitsEarly
    /\ \A line \in Lines : line \in Seq(Leavers \cup {wait}) /\ Hasty(line)

\* What is on its way to the end s, which reads it in its phase; never more than one
\* message, and nothing behind one that is being read.
InTransit(s, phase) ==
    IF len[s] # 0 THEN buf[s][0].payload ELSE IF pc = phase THEN msg ELSE <<>>
OneAtMost(s, phase) ==
    /\ len[s] \in {0, 8}
    /\ len[s] # 0 => buf[s][0].payload # <<>> /\ (pc = phase => msg = <<>>)

Hear == InTransit(netcon, "read")
Say == IF clMessage # <<>> THEN clMessage ELSE InTransit(Game!Slot, "run")
Clean ==
    /\ OneAtMost(netcon, "read") /\ OneAtMost(Game!Slot, "run")
    /\ clMessage # <<>> => InTransit(Game!Slot, "run") = <<>>

\* The stages: the client is told to start again while the first stage is due; a
\* stage is due, sent, and answered; and the player has begun.
Recall == <<<<"stufftext", reconnect>>>>
Told(k, l) == CASE k = 1 -> <<<<"serverinfo", l>>, <<"signon", 1>>>>
                [] k = 2 -> <<<<"signon", 2>>>>
                [] k = 3 -> <<<<"names">>, <<"signon", 3>>>>

Recalled == /\ Hear = Recall /\ Say = <<>> /\ svMessage = Told(1, loads)
            /\ ~spawned /\ signon = 0
Due(k) == /\ Hear = <<>> /\ Say = <<>> /\ svMessage = Told(k, loads)
          /\ ~spawned /\ signon = k - 1 /\ (k # 1 => clLevel = loads)
Sent(k) == /\ Say = <<>> /\ svMessage = <<>>
           /\ ~spawned /\ signon = k - 1
           /\ \/ Hear = Told(k, loads) /\ (k # 1 => clLevel = loads)
              \/ Hear = <<<<"signon", k>>>> /\ clLevel = loads
Asked(k) == /\ Hear = <<>> /\ Say = Game!Reply(k) /\ svMessage = <<>>
            /\ ~spawned /\ signon = k /\ clLevel = loads
Begun == /\ Hear \in {<<>>, <<<<"update">>>>} /\ Say = <<>> /\ svMessage = <<>>
         /\ spawned /\ signon \in {3, 4} /\ clLevel = loads
Stages == Recalled \/ Begun \/ \E k \in 1 .. 3 : Due(k) \/ Sent(k) \/ Asked(k)

\* In front of what may wait there is at most the change of a level that the player
\* has begun, or the reconnect that the next stage is due after.
Queued ==
    \/ Ready(cbuf)
    \/ /\ cbuf # <<>> /\ Ready(Tail(cbuf))
       /\ \/ Head(cbuf)[1] = "changelevel" /\ Begun
          \/ Head(cbuf) = reconnect /\ Due(1) /\ pc \in {"read", "input", "commands"}

Quiet == todo \in {<<>>, <<reconnect>>}
Changing == \E o \in Game!Outcomes : todo = <<notify, spawn(o)>>
Recalling == \E o \in Game!Outcomes : todo = <<spawn(o)>>
Calm == Quiet \/ Changing \/ Recalling

InTurn == Hasty(cbuf) /\ (pc \in {"send", "accept", "run", "physics"} => Settled(cbuf))
Unsaid == clMessage # <<>> => Game!Connected /\ ~Closing
NobodyBegun == Game!Slot = None => ~spawned

Fresh == signon = 0 /\ clMessage = <<>> /\ len[netcon] = 0 /\ (pc = "read" => msg = <<>>)
Waits == svActive /\ Game!Connected /\ Game!Slot = None /\ Calm => Fresh

Deserted == Game!Connected /\ ~svActive /\ Quiet =>
    Hear \in {<<>>, Recall} /\ OneAtMost(netcon, "read")

Playing == svActive /\ Game!Connected /\ Game!Slot # None
InStep ==
    /\ Stages /\ Queued
    /\ Recalled /\ len[netcon] # 0 => ~canSend[Game!Slot]
    /\ Begun /\ Hear # <<>> => pc \in {"deliver", "read"}
Plays == Playing /\ Calm =>
    /\ Clean
    /\ todo = <<>> => InStep
    /\ todo # <<>> => pc = "commands" /\ Ready(cbuf)
    /\ todo = <<reconnect>> => Due(1)
    /\ Changing => Begun /\ Hear = <<>>
    /\ Recalling => /\ Hear = Recall /\ Say = <<>> /\ svMessage = <<>>
                    /\ signon = 0 /\ ~canSend[Game!Slot]

Order == InTurn /\ Unsaid /\ NobodyBegun /\ Waits /\ Deserted /\ Plays

LEMMA LineKinds ==
    /\ \A x \in Leavers : x # wait /\ x # reconnect /\ x[1] # "changelevel"
    /\ \A o : <<"changelevel", o>> # wait
    /\ reconnect # wait /\ wait[1] # "changelevel" /\ reconnect[1] # "changelevel"
BY DEF Leavers, wait, reconnect

LEMMA HastyTail ==
    ASSUME NEW S, NEW c \in Seq(S), c # <<>>, Hasty(c)
    PROVE  Hasty(Tail(c)) /\ (Head(c) = wait => Settled(Tail(c)))
<1>1. /\ Len(c) \in Nat /\ Len(c) # 0 /\ Len(Tail(c)) = Len(c) - 1 /\ Head(c) = c[1]
      /\ \A i \in 1 .. Len(c) - 1 : Tail(c)[i] = c[i + 1]
      /\ Tail(c) # <<>> => Head(Tail(c)) = Tail(c)[1] /\ Len(c) - 1 # 0
  <2>1. Len(c) \in Nat /\ Len(c) # 0 /\ Tail(c) \in Seq(S) /\ Len(Tail(c)) = Len(c) - 1 /\ Head(c) = c[1]
        /\ \A i \in 1 .. Len(c) - 1 : Tail(c)[i] = c[i + 1]
    BY HeadTailProperties, EmptySeq, LenProperties
  <2>2. Tail(c) # <<>> => Head(Tail(c)) = Tail(c)[1] /\ Len(c) - 1 # 0
    BY <2>1, EmptySeq
  <2> QED BY <2>1, <2>2
<1>2. \A i \in 1 .. Len(c) : c[i] = wait => i < Len(c) /\ c[i + 1] \in Leavers
  BY DEF Hasty
<1>3. Hasty(Tail(c))
  <2>1. ASSUME NEW i \in 1 .. Len(Tail(c)), Tail(c)[i] = wait
        PROVE  i < Len(Tail(c)) /\ Tail(c)[i + 1] \in Leavers
    <3>1. i \in 1 .. Len(c) - 1 /\ c[i + 1] = wait /\ i + 1 \in 1 .. Len(c)
      BY <1>1, <2>1
    <3>2. i + 1 < Len(c) /\ c[(i + 1) + 1] \in Leavers
      BY <1>2, <3>1
    <3>3. i + 1 \in 1 .. Len(c) - 1
      BY <1>1, <3>1, <3>2
    <3> QED BY <1>1, <3>1, <3>2, <3>3
  <2> QED BY <2>1 DEF Hasty
<1>4. ASSUME Head(c) = wait, Tail(c) # <<>> PROVE Head(Tail(c)) \in Leavers
  <2>1. c[1] = wait /\ 1 \in 1 .. Len(c)
    BY <1>1, <1>4
  <2>2. 1 < Len(c) /\ c[1 + 1] \in Leavers
    BY <1>2, <2>1
  <2>3. Tail(c)[1] = c[1 + 1]
    BY <1>1, <2>2
  <2> QED BY <1>1, <1>4, <2>2, <2>3
<1> QED BY <1>3, <1>4 DEF Settled

LEMMA HastyJoined ==
    ASSUME NEW S, NEW c \in Seq(S), NEW d \in Seq(S), Hasty(c), Hasty(d)
    PROVE  Hasty(c \o d)
<1>1. /\ Len(c) \in Nat /\ Len(d) \in Nat /\ Len(c \o d) = Len(c) + Len(d)
      /\ \A i \in 1 .. Len(c) + Len(d) : (c \o d)[i] = IF i <= Len(c) THEN c[i] ELSE d[i - Len(c)]
  BY ConcatProperties, LenProperties
<1> DEFINE e == c \o d
<1> HIDE DEF e
<1>2. /\ Len(e) = Len(c) + Len(d)
      /\ \A i \in 1 .. Len(c) + Len(d) : e[i] = IF i <= Len(c) THEN c[i] ELSE d[i - Len(c)]
  BY <1>1 DEF e
<1>3. ASSUME NEW i \in 1 .. Len(e), e[i] = wait
      PROVE  i < Len(e) /\ e[i + 1] \in Leavers
  <2>1. CASE i <= Len(c)
    <3>1. i \in 1 .. Len(c) /\ c[i] = wait
      BY <1>1, <1>2, <1>3, <2>1
    <3>2. i < Len(c) /\ c[i + 1] \in Leavers
      BY <3>1 DEF Hasty
    <3>3. i + 1 \in 1 .. Len(c) + Len(d) /\ i + 1 <= Len(c)
      BY <1>1, <3>1, <3>2
    <3> QED BY <1>1, <1>2, <3>2, <3>3
  <2>2. CASE ~(i <= Len(c))
    <3> DEFINE j == i - Len(c)
    <3>1. j \in 1 .. Len(d) /\ d[j] = wait
      BY <1>1, <1>2, <1>3, <2>2
    <3>2. j < Len(d) /\ d[j + 1] \in Leavers
      BY <3>1 DEF Hasty
    <3>3. i + 1 \in 1 .. Len(c) + Len(d) /\ ~(i + 1 <= Len(c)) /\ (i + 1) - Len(c) = j + 1 /\ i < Len(e)
      BY <1>1, <1>2, <2>2, <3>1, <3>2
    <3> HIDE DEF j
    <3> QED BY <1>2, <3>2, <3>3
  <2> QED BY <2>1, <2>2
<1> QED BY <1>3 DEF Hasty, e

LEMMA JoinedFront ==
    ASSUME NEW S, NEW c \in Seq(S), NEW d \in Seq(S)
    PROVE  /\ c # <<>> => c \o d # <<>> /\ Head(c \o d) = Head(c) /\ Tail(c \o d) = Tail(c) \o d
           /\ c = <<>> => c \o d = d
OBVIOUS

LEMMA ReadyJoined ==
    ASSUME NEW c \in Seq(Game!Commands), NEW d \in Seq(Leavers \cup {wait}), Ready(c), d \in Seq(Game!Commands)
    PROVE  Ready(c \o d)
<1>1. d = <<>> \/ Head(d) \in Leavers \cup {wait}
  BY HeadTailProperties
<1> QED BY <1>1, JoinedFront DEF Ready

LEMMA Appended ==
    ASSUME NEW S, NEW c \in Seq(S), NEW x \in S, x # wait, Hasty(c)
    PROVE  /\ Hasty(Append(c, x))
           /\ c # <<>> => Head(Append(c, x)) = Head(c) /\ Append(c, x) # <<>>
           /\ c = <<>> => Append(c, x) # <<>> /\ Head(Append(c, x)) = x /\ Tail(Append(c, x)) = <<>>
<1>1. <<x>> \in Seq(S) /\ Append(c, x) = c \o <<x>>
  OBVIOUS
<1>2. Hasty(<<x>>)
  BY DEF Hasty
<1>3. Hasty(Append(c, x))
  BY <1>1, <1>2, HastyJoined
<1>4. Head(<<x>>) = x /\ Tail(<<x>>) = <<>> /\ <<x>> # <<>>
  OBVIOUS
<1> QED BY <1>1, <1>3, <1>4, JoinedFront

LEMMA LineCommands == Leavers \cup {wait} \subseteq Game!Commands
BY DEF Leavers, wait, Game!Commands

LEMMA Texts ==
    ASSUME NEW l
    PROVE  /\ \A k \in 1 .. 3 : Told(k, l) # <<>> /\ Game!Reply(k) # <<>>
           /\ Recall # <<>> /\ Head(Recall) = <<"stufftext", reconnect>> /\ Tail(Recall) = <<>>
           /\ Told(1, l) = <<<<"serverinfo", l>>, <<"signon", 1>>>>
           /\ Told(2, l) = <<<<"signon", 2>>>>
           /\ Told(3, l) = <<<<"names">>, <<"signon", 3>>>>
           /\ \A k : <<<<"signon", k>>>> # <<>> /\ Tail(<<<<"signon", k>>>>) = <<>>
           /\ Game!Reply(1) = <<<<"prespawn">>>> /\ Game!Reply(2) = <<<<"spawn">>>>
           /\ Game!Reply(3) = <<<<"begin">>>>
<1>1. /\ Told(1, l) = <<<<"serverinfo", l>>, <<"signon", 1>>>>
      /\ Told(2, l) = <<<<"signon", 2>>>>
      /\ Told(3, l) = <<<<"names">>, <<"signon", 3>>>>
  BY DEF Told
<1>2. /\ Game!Reply(1) = <<<<"prespawn">>>> /\ Game!Reply(2) = <<<<"spawn">>>>
      /\ Game!Reply(3) = <<<<"begin">>>>
  BY DEF Game!Reply
<1>3. \A k \in 1 .. 3 : k = 1 \/ k = 2 \/ k = 3
  OBVIOUS
<1>4. ASSUME NEW k \in 1 .. 3 PROVE Told(k, l) # <<>> /\ Game!Reply(k) # <<>>
  BY <1>1, <1>2, <1>3
<1>5. /\ Recall # <<>> /\ Head(Recall) = <<"stufftext", reconnect>> /\ Tail(Recall) = <<>>
      /\ \A k : <<<<"signon", k>>>> # <<>> /\ Tail(<<<<"signon", k>>>>) = <<>>
  BY DEF Recall
<1> QED BY <1>1, <1>2, <1>4, <1>5

\* Nothing is said or heard.
LEMMA TalkStill ==
    ASSUME OneGame, Inv, UNCHANGED Game!netVars, clMessage' = clMessage, msg' = msg,
           pc' = pc \/ msg = <<>>
    PROVE  /\ Hear' = Hear /\ Say' = Say /\ Clean' = Clean
           /\ OneAtMost(netcon, "read")' = OneAtMost(netcon, "read")
           /\ UNCHANGED <<canSend, buf, len, netcon, Game!Slot, Game!Connected>>
<1>1. UNCHANGED <<canSend, buf, len, netcon, Game!Slot, Game!Connected>>
  BY Still
<1>2. Hear' = Hear /\ InTransit(Game!Slot, "run")' = InTransit(Game!Slot, "run")
  BY <1>1 DEF Hear, InTransit
<1>3. Say' = Say
  BY <1>2 DEF Say
<1>4. /\ OneAtMost(netcon, "read")' = OneAtMost(netcon, "read")
      /\ OneAtMost(Game!Slot, "run")' = OneAtMost(Game!Slot, "run")
  BY <1>1 DEF OneAtMost
<1>5. Clean' = Clean
  BY <1>2, <1>4 DEF Clean
<1> QED BY <1>1, <1>2, <1>3, <1>4, <1>5

LEMMA StageStill ==
    ASSUME Hear' = Hear, Say' = Say, UNCHANGED <<svMessage, spawned, signon, clLevel, loads>>
    PROVE  /\ Recalled' = Recalled /\ Begun' = Begun /\ Stages' = Stages
           /\ \A k : Due(k)' = Due(k)
<1>1. Recalled' = Recalled /\ Begun' = Begun
  BY DEF Recalled, Begun
<1>2. ASSUME NEW k PROVE Due(k)' = Due(k) /\ Sent(k)' = Sent(k) /\ Asked(k)' = Asked(k)
  BY DEF Due, Sent, Asked
<1>3. Stages' = Stages
  BY <1>1, <1>2, Zenon DEF Stages
<1> QED BY <1>1, <1>2, <1>3

LEMMA Apart ==
    /\ Recalled => ~Begun
    /\ \A k \in 1 .. 3 : Due(k) => ~Begun /\ ~Recalled
    /\ \A k \in 1 .. 3 : Sent(k) => ~Begun /\ ~Due(1) /\ ~Recalled
    /\ \A k \in 1 .. 3 : Asked(k) => ~Begun /\ ~Due(1) /\ ~Recalled
    /\ Recalled => ~Due(1)
    /\ Stages /\ spawned => Begun
    /\ Stages /\ svMessage # <<>> => Recalled \/ \E k \in 1 .. 3 : Due(k)
    /\ Stages /\ Say # <<>> => \E k \in 1 .. 3 : Asked(k)
    /\ Stages /\ Hear # <<>> => Recalled \/ Begun \/ \E k \in 1 .. 3 : Sent(k)
<1>1. /\ Recall # <<>> /\ \A k \in 1 .. 3 : Told(k, loads) # <<>> /\ Game!Reply(k) # <<>>
  BY Texts
<1>2. /\ Recalled => /\ ~Begun /\ ~Due(1) /\ Say = <<>> /\ svMessage # <<>> /\ Hear # <<>> /\ ~spawned
      /\ Begun => Say = <<>> /\ svMessage = <<>>
  BY <1>1 DEF Recalled, Begun, Due
<1>3. ASSUME NEW k \in 1 .. 3
      PROVE  /\ Due(k) => ~Begun /\ ~Recalled /\ Hear = <<>> /\ Say = <<>> /\ svMessage # <<>> /\ ~spawned
             /\ Sent(k) => ~Begun /\ ~Recalled /\ ~Due(1) /\ Say = <<>> /\ svMessage = <<>> /\ ~spawned
             /\ Asked(k) => ~Begun /\ ~Recalled /\ ~Due(1) /\ Hear = <<>> /\ svMessage = <<>> /\ ~spawned
  <2>1. Told(k, loads) # <<>> /\ Game!Reply(k) # <<>> /\ Told(1, loads) # <<>>
    BY <1>1
  <2>2. Due(k) => ~Begun /\ ~Recalled /\ Hear = <<>> /\ Say = <<>> /\ svMessage # <<>> /\ ~spawned
    BY <1>1, <2>1 DEF Due, Begun, Recalled
  <2>3. Sent(k) => ~Begun /\ ~Recalled /\ ~Due(1) /\ Say = <<>> /\ svMessage = <<>> /\ ~spawned
    BY <1>1, <2>1 DEF Sent, Begun, Recalled, Due
  <2>4. Asked(k) => ~Begun /\ ~Recalled /\ ~Due(1) /\ Hear = <<>> /\ svMessage = <<>> /\ ~spawned
    BY <1>1, <2>1 DEF Asked, Begun, Recalled, Due
  <2> QED BY <2>2, <2>3, <2>4
<1>4. Stages <=> Recalled \/ Begun \/ \E k \in 1 .. 3 : Due(k) \/ Sent(k) \/ Asked(k)
  BY DEF Stages
<1> QED BY <1>2, <1>3, <1>4, Zenon

\* Nobody is in the middle of the handshake.
LEMMA Moot ==
    ASSUME InTurn', Unsaid', NobodyBegun', ~Calm' \/ ~Game!Connected'
    PROVE  Order'
<1>1. Waits' /\ Deserted' /\ Plays'
  BY DEF Waits, Deserted, Plays, Playing, Calm
<1> QED BY <1>1 DEF Order

\* The frame goes on, and at most the command text and the game's memory of having
\* asked for a level have changed.
LEMMA GoOrder ==
    ASSUME OneGame, SInv, Order, todo = <<>>, todo' = <<>>, msg = <<>>, msg' = <<>>,
           UNCHANGED Game!netVars, UNCHANGED <<signon, clMessage, clLevel>>,
           UNCHANGED <<svActive, spawned, svMessage, loads>>,
           InTurn', Playing => Queued',
           Playing /\ Begun /\ Hear # <<>> => pc' \in {"deliver", "read"}
    PROVE  Order'
<1>1. /\ Hear' = Hear /\ Say' = Say /\ Clean' = Clean
      /\ OneAtMost(netcon, "read")' = OneAtMost(netcon, "read")
      /\ UNCHANGED <<canSend, buf, len, netcon, Game!Slot, Game!Connected>>
  BY TalkStill DEF SInv
<1>2. /\ Recalled' = Recalled /\ Begun' = Begun /\ Stages' = Stages
  BY <1>1, StageStill
<1>3. ~Closing' /\ Calm /\ Quiet
  BY DEF Closing, Calm, Quiet
<1>4. Unsaid' /\ NobodyBegun'
  BY <1>1, <1>3 DEF Order, Unsaid, NobodyBegun
<1>5. Waits'
  BY <1>1, <1>3 DEF Order, Waits, Fresh
<1>6. Deserted'
  BY <1>1, <1>3 DEF Order, Deserted
<1>7. ASSUME Playing' PROVE Clean' /\ InStep'
  <2>1. Playing
    BY <1>1, <1>7 DEF Playing
  <2>2. Clean /\ InStep
    BY <1>3, <2>1 DEF Order, Plays
  <2> QED BY <1>1, <1>2, <2>1, <2>2 DEF InStep
<1>8. ~Changing' /\ ~Recalling'
  BY DEF Changing, Recalling
<1>9. Plays'
  BY <1>7, <1>8 DEF Plays
<1> QED BY <1>4, <1>5, <1>6, <1>9 DEF Order

\* The command text waits for its turn while the frame goes on without it.
LEMMA QueuedStill ==
    ASSUME Queued, cbuf' = cbuf, Begun' = Begun, Due(1)' = Due(1),
           pc' \in {"read", "input", "commands"} \/ pc \notin {"read", "input", "commands"} \/ Ready(cbuf)
    PROVE  Queued'
<1>1. Ready(cbuf') <=> Ready(cbuf)
  OBVIOUS
<1> QED BY <1>1 DEF Queued

LEMMA GoStill ==
    ASSUME OneGame, SInv, Order, todo = <<>>, todo' = <<>>, msg = <<>>, msg' = <<>>,
           UNCHANGED Game!netVars, UNCHANGED <<signon, clMessage, clLevel, cbuf>>,
           UNCHANGED <<svActive, spawned, svMessage, loads>>,
           pc' \in {"read", "input", "commands"} \/ pc \notin {"read", "input", "commands"} \/ Ready(cbuf),
           pc' \in {"send", "accept", "run", "physics"} =>
               pc \in {"send", "accept", "run", "physics"} \/ cbuf = <<>>,
           Playing /\ Begun /\ Hear # <<>> => pc' \in {"deliver", "read"}
    PROVE  Order'
<1>1. InTurn'
  BY DEF Order, InTurn, Settled
<1>2. ASSUME Playing PROVE Queued'
  <2>1. Queued
    BY <1>2 DEF Order, Plays, InStep, Calm, Quiet
  <2>2. Begun' = Begun /\ Due(1)' = Due(1)
    <3>1. Hear' = Hear /\ Say' = Say
      BY TalkStill DEF SInv
    <3> QED BY <3>1, StageStill
  <2> QED BY <2>1, <2>2, QueuedStill
<1> QED BY <1>1, <1>2, GoOrder

\* What the player who has begun hears is heard before the frame ends.
LEMMA HeardInTime ==
    ASSUME Order, todo = <<>>, Playing, Begun, Hear # <<>>
    PROVE  pc \in {"deliver", "read"}
BY DEF Order, Plays, InStep, Calm, Quiet

LEMMA TypeOrder == ASSUME OneGame, OrdinaryGame, SInv, Order, Game!Type PROVE Order'
<1>1. PICK line \in Lines : cbuf' = cbuf \o line
  BY DEF Game!Type
<1>2. line \in Seq(Game!Commands) /\ cbuf \in Seq(Game!Commands) /\ line \in Seq(Leavers \cup {wait})
  BY DEF OneGame, Game!SessionAssumption, SInv, Spoken, OrdinaryGame
<1>4. /\ todo = <<>> /\ todo' = <<>> /\ pc = "input" /\ pc' = "commands" /\ msg' = msg
      /\ UNCHANGED Game!netVars
      /\ UNCHANGED <<signon, clMessage, clLevel, svActive, spawned, sendsignon, svMessage, issued, loads>>
  BY DEF Game!Type, Game!At, Game!Go, Game!clientVars, Game!serverVars, Game!slotVars
<1>5. msg = <<>>
  BY <1>4 DEF SInv, Placed
<1>6. Hasty(cbuf) /\ Hasty(line)
  BY DEF Order, InTurn, OrdinaryGame
<1>7. Hasty(cbuf \o line)
  BY <1>2, <1>6, HastyJoined
<1>8. InTurn'
  BY <1>1, <1>4, <1>7 DEF InTurn
<1>9. ASSUME Playing PROVE Queued'
  <2>1. Queued
    BY <1>4, <1>9 DEF Order, Plays, InStep, Calm, Quiet
  <2>2. Begun' = Begun /\ Due(1)' = Due(1)
    <3>1. Hear' = Hear /\ Say' = Say
      BY <1>4, <1>5, TalkStill DEF SInv
    <3> QED BY <1>4, <3>1, StageStill
  <2>3. CASE Ready(cbuf)
    <3>1. Ready(cbuf \o line)
      BY <1>2, <2>3, ReadyJoined
    <3> QED BY <1>1, <3>1 DEF Queued
  <2>4. CASE ~Ready(cbuf)
    <3>1. /\ cbuf # <<>> /\ Ready(Tail(cbuf))
          /\ \/ Head(cbuf)[1] = "changelevel" /\ Begun
             \/ Head(cbuf) = reconnect /\ Due(1)
      BY <2>1, <2>4 DEF Queued
    <3>2. cbuf' # <<>> /\ Head(cbuf') = Head(cbuf) /\ Tail(cbuf') = Tail(cbuf) \o line
      BY <1>1, <1>2, <3>1, JoinedFront
    <3>3. Tail(cbuf) \in Seq(Game!Commands)
      BY <1>2, <3>1, HeadTailProperties
    <3>4. Ready(Tail(cbuf) \o line)
      BY <1>2, <3>1, <3>3, ReadyJoined
    <3> QED BY <1>4, <2>2, <3>1, <3>2, <3>4 DEF Queued
  <2> QED BY <2>3, <2>4
<1>10. ~(Playing /\ Begun /\ Hear # <<>>)
  BY <1>4, HeardInTime
<1> QED BY <1>4, <1>5, <1>8, <1>9, <1>10, GoOrder

LEMMA NoInputOrder == ASSUME OneGame, SInv, Order, Game!NoInput PROVE Order'
<1>1. /\ todo = <<>> /\ todo' = <<>> /\ pc = "input" /\ pc' = "commands" /\ msg' = msg /\ cbuf' = cbuf
      /\ UNCHANGED Game!netVars
      /\ UNCHANGED <<signon, clMessage, clLevel, svActive, spawned, sendsignon, svMessage, issued, loads>>
  BY DEF Game!NoInput, Game!At, Game!Go, Game!clientVars, Game!serverVars, Game!slotVars
<1>2. msg = <<>>
  BY <1>1 DEF SInv, Placed
<1>3. ~(Playing /\ Begun /\ Hear # <<>>)
  BY <1>1, HeardInTime
<1> QED BY <1>1, <1>2, <1>3, GoStill

LEMMA LongJumpOrder == ASSUME OneGame, SInv, Order, Game!LongJump PROVE Order'
<1>1. /\ todo = <<>> /\ todo' = <<>> /\ pc = "abort" /\ pc' = "input" /\ msg' = msg /\ cbuf' = cbuf
      /\ UNCHANGED Game!netVars
      /\ UNCHANGED <<signon, clMessage, clLevel, svActive, spawned, sendsignon, svMessage, issued, loads>>
  BY DEF Game!LongJump, Game!At, Game!Go, Game!clientVars, Game!serverVars, Game!slotVars
<1>2. msg = <<>>
  BY <1>1 DEF SInv, Placed
<1>3. ~(Playing /\ Begun /\ Hear # <<>>)
  BY <1>1, HeardInTime
<1> QED BY <1>1, <1>2, <1>3, GoStill

LEMMA CommandsDoneOrder == ASSUME OneGame, SInv, Order, Game!CommandsDone PROVE Order'
<1>1. /\ todo = <<>> /\ todo' = <<>> /\ pc = "commands" /\ pc' = "send" /\ msg' = msg /\ cbuf' = cbuf
      /\ cbuf = <<>> /\ Ready(cbuf)
      /\ UNCHANGED Game!netVars
      /\ UNCHANGED <<signon, clMessage, clLevel, svActive, spawned, sendsignon, svMessage, issued, loads>>
  BY DEF Game!CommandsDone, Game!At, Game!Go, Game!clientVars, Game!serverVars, Game!slotVars, Ready
<1>2. msg = <<>>
  BY <1>1 DEF SInv, Placed
<1>3. ~(Playing /\ Begun /\ Hear # <<>>)
  BY <1>1, HeardInTime
<1> QED BY <1>1, <1>2, <1>3, GoStill

LEMMA NothingToAcceptOrder == ASSUME OneGame, SInv, Order, Game!NothingToAccept PROVE Order'
<1>1. /\ todo = <<>> /\ todo' = <<>> /\ pc = "accept" /\ pc' = "run" /\ msg' = msg /\ cbuf' = cbuf
      /\ UNCHANGED Game!netVars
      /\ UNCHANGED <<signon, clMessage, clLevel, svActive, spawned, sendsignon, svMessage, issued, loads>>
  BY DEF Game!NothingToAccept, Game!At, Game!Go, Game!clientVars, Game!serverVars, Game!slotVars
<1>2. msg = <<>>
  BY <1>1 DEF SInv, Placed
<1>3. ~(Playing /\ Begun /\ Hear # <<>>)
  BY <1>1, HeardInTime
<1> QED BY <1>1, <1>2, <1>3, GoStill

LEMMA PhysicsOrder == ASSUME OneGame, SInv, Order, Game!Physics PROVE Order'
<1>1. /\ todo = <<>> /\ todo' = <<>> /\ pc = "physics" /\ pc' = "datagram" /\ msg' = msg /\ cbuf' = cbuf
      /\ UNCHANGED Game!netVars
      /\ UNCHANGED <<signon, clMessage, clLevel, svActive, spawned, sendsignon, svMessage, issued, loads>>
  BY DEF Game!Physics, Game!At, Game!Go, Game!clientVars, Game!serverVars, Game!slotVars
<1>2. msg = <<>>
  BY <1>1 DEF SInv, Placed
<1>3. ~(Playing /\ Begun /\ Hear # <<>>)
  BY <1>1, HeardInTime
<1> QED BY <1>1, <1>2, <1>3, GoStill

LEMMA AllReadOrder ==
    ASSUME OneGame, SInv, Order,
           Game!AllRead("run", Game!Slot, "physics") \/ Game!AllRead("read", netcon, "input")
    PROVE  Order'
<1>1. /\ todo = <<>> /\ todo' = <<>> /\ msg = <<>> /\ msg' = msg /\ cbuf' = cbuf
      /\ \/ pc = "run" /\ pc' = "physics"
         \/ pc = "read" /\ pc' = "input" /\ (netcon = None \/ len[netcon] = 0)
      /\ UNCHANGED Game!netVars
      /\ UNCHANGED <<signon, clMessage, clLevel, svActive, spawned, sendsignon, svMessage, issued, loads>>
  BY DEF Game!AllRead, Game!At, Game!Go, Game!Waiting, Game!clientVars, Game!serverVars, Game!slotVars
<1>2. pc = "read" /\ Playing => Hear = <<>>
  BY <1>1 DEF Playing, Game!Connected, Hear, InTransit
<1>3. ~(Playing /\ Begun /\ Hear # <<>>)
  BY <1>1, <1>2, HeardInTime
<1> QED BY <1>1, <1>3, GoStill

LEMMA ExitOrder == ASSUME OneGame, OrdinaryGame, SInv, Order, Game!Exit PROVE Order'
<1>1. PICK o \in Exits : cbuf' = Append(cbuf, <<"changelevel", o>>)
  BY DEF Game!Exit
<1> DEFINE x == <<"changelevel", o>>
<1>2. x \in Game!Commands /\ cbuf \in Seq(Game!Commands) /\ x # wait /\ x[1] = "changelevel" /\ cbuf' = Append(cbuf, x)
  BY <1>1 DEF OneGame, Game!SessionAssumption, Game!Commands, SInv, Spoken, wait
<1> HIDE DEF x
<1>4. /\ todo = <<>> /\ todo' = <<>> /\ pc = "physics" /\ pc' = "datagram" /\ msg' = msg
      /\ Game!Slot # None /\ spawned
      /\ UNCHANGED Game!netVars
      /\ UNCHANGED <<signon, clMessage, clLevel, svActive, spawned, sendsignon, svMessage, loads>>
  BY DEF Game!Exit, Game!At, Game!Go, Game!clientVars, Game!slotVars, OrdinaryGame
<1>5. msg = <<>>
  BY <1>4 DEF SInv, Placed
<1>6. Hasty(cbuf) /\ Settled(cbuf)
  BY <1>4 DEF Order, InTurn
<1>7. /\ Hasty(cbuf')
      /\ cbuf # <<>> => Head(cbuf') = Head(cbuf) /\ cbuf' # <<>>
      /\ cbuf = <<>> => cbuf' # <<>> /\ Head(cbuf') = x /\ Tail(cbuf') = <<>>
  BY <1>2, <1>6, Appended
<1>8. InTurn'
  BY <1>4, <1>7 DEF InTurn
<1>9. ASSUME Playing PROVE Queued'
  <2>1. Begun
    BY <1>4, <1>9, Apart DEF Order, Plays, InStep, Calm, Quiet
  <2>2. Begun'
    <3>1. Hear' = Hear /\ Say' = Say
      BY <1>4, <1>5, TalkStill DEF SInv
    <3> QED BY <1>4, <2>1, <3>1, StageStill
  <2>3. CASE cbuf = <<>>
    <3>1. Ready(Tail(cbuf')) /\ Head(cbuf')[1] = "changelevel"
      BY <1>2, <1>7, <2>3 DEF Ready
    <3> QED BY <1>7, <2>2, <2>3, <3>1 DEF Queued
  <2>4. CASE cbuf # <<>>
    BY <1>6, <1>7, <2>4 DEF Queued, Settled, Ready
  <2> QED BY <2>3, <2>4
<1>10. ~(Playing /\ Begun /\ Hear # <<>>)
  BY <1>4, HeardInTime
<1> QED BY <1>4, <1>5, <1>8, <1>9, <1>10, GoOrder

\* Host_Error takes the server and its client down.
LEMMA ErrorOrder ==
    ASSUME Order, Game!HostError, UNCHANGED <<cbuf, clMessage, spawned>>,
           Game!Slot' = Game!Slot, Game!Connected' = Game!Connected
    PROVE  Order'
<1>1. todo' = <<shutdown, hangup>> /\ pc' = "abort"
  BY DEF Game!HostError, Game!ErrorOps, shutdown, hangup
<1>2. ~Calm' /\ ~Closing'
  BY <1>1 DEF Calm, Quiet, Changing, Recalling, Closing, notify, shutdown, close
<1>3. InTurn' /\ Unsaid' /\ NobodyBegun'
  BY <1>1, <1>2 DEF Order, InTurn, Unsaid, NobodyBegun
<1> QED BY <1>2, <1>3, Moot

LEMMA ProgramErrorOrder == ASSUME OneGame, SInv, Order, Game!ProgramError PROVE Order'
<1>1. /\ Game!HostError /\ UNCHANGED Game!netVars /\ UNCHANGED <<cbuf, clMessage, spawned>>
  BY DEF Game!ProgramError, Game!clientVars, Game!serverVars, Game!slotVars
<1>2. Game!Slot' = Game!Slot /\ Game!Connected' = Game!Connected
  BY <1>1, Still DEF SInv
<1> QED BY <1>1, <1>2, ErrorOrder

LEMMA OpsStart ==
    ASSUME NEW k \in Game!Commands, svActive \in BOOLEAN
    PROVE  /\ k \in Leavers => Game!OpsOf(k) # <<>> /\ Head(Game!OpsOf(k)) = hangup
           /\ k[1] = "changelevel" => IF svActive THEN \E o \in Game!Outcomes : Game!OpsOf(k) = <<notify, spawn(o)>>
                                                  ELSE Game!OpsOf(k) = <<>>
           /\ k = reconnect => Game!OpsOf(k) = <<reconnect>>
           /\ Game!OpsOf(k) = <<>> \/ Head(Game!OpsOf(k)) # close
<1> USE DEF hangup, close, shutdown, notify, dial, spawn, reconnect
<1>1. CASE \E o \in Game!Outcomes : k = <<"map", o>>
  <2>1. PICK o \in Game!Outcomes : k = <<"map", o>>
    BY <1>1
  <2>2. Game!OpsOf(k) = <<hangup, shutdown>> \o <<notify, spawn(o)>> \o <<hangup, dial>>
    BY <2>1 DEF Game!OpsOf, Game!SpawnOps
  <2>3. \A x, y, d, e : <<x, y>> \o <<d, e>> = <<x, y, d, e>>
    BY Prepend
  <2>4. \A x, y, d, e, f, g : <<x, y, d, e>> \o <<f, g>> = <<x, y, d, e, f, g>>
    BY Prepend
  <2>5. <<hangup, shutdown>> \o <<notify, spawn(o)>> = <<hangup, shutdown, notify, spawn(o)>>
    BY <2>3, Zenon
  <2>6. <<hangup, shutdown, notify, spawn(o)>> \o <<hangup, dial>> = <<hangup, shutdown, notify, spawn(o), hangup, dial>>
    BY <2>4
  <2>7. Game!OpsOf(k) = <<hangup, shutdown, notify, spawn(o), hangup, dial>>
    BY <2>2, <2>5, <2>6, Zenon
  <2> QED BY <2>1, <2>7
<1>2. CASE \E o \in Game!Outcomes : k = <<"changelevel", o>>
  <2>1. PICK o \in Game!Outcomes : k = <<"changelevel", o>>
    BY <1>2
  <2>2. Game!OpsOf(k) = IF svActive THEN <<notify, spawn(o)>> ELSE <<>>
    BY <2>1 DEF Game!OpsOf, Game!SpawnOps
  <2> QED BY <2>1, <2>2 DEF Leavers
<1>3. CASE k = <<"restart">>
  <2>1. Game!OpsOf(k) = IF svActive THEN <<notify, spawn("ok")>> ELSE <<>>
    BY <1>3 DEF Game!OpsOf, Game!SpawnOps
  <2> QED BY <1>3, <2>1 DEF Leavers
<1>4. CASE k = <<"disconnect">>
  <2>1. Game!OpsOf(k) = <<hangup, shutdown>>
    BY <1>4 DEF Game!OpsOf
  <2> QED BY <1>4, <2>1
<1>5. CASE k = <<"connect">>
  <2>1. Game!OpsOf(k) = <<hangup, dial>>
    BY <1>5 DEF Game!OpsOf
  <2> QED BY <1>5, <2>1
<1>6. CASE k = <<"reconnect">>
  <2>1. Game!OpsOf(k) = <<<<"reconnect">>>>
    BY <1>6 DEF Game!OpsOf
  <2> QED BY <1>6, <2>1 DEF Leavers
<1>7. CASE k = <<"wait">>
  <2>1. Game!OpsOf(k) = <<>>
    BY <1>7 DEF Game!OpsOf
  <2> QED BY <1>7, <2>1 DEF Leavers
<1> QED BY <1>1, <1>2, <1>3, <1>4, <1>5, <1>6, <1>7 DEF Game!Commands

LEMMA TodoKinds ==
    /\ todo = <<>> => Quiet /\ Calm /\ ~Changing /\ ~Recalling /\ ~Closing
    /\ todo = <<reconnect>> => Quiet /\ Calm /\ ~Changing /\ ~Recalling /\ ~Closing
    /\ Changing => Calm /\ ~Quiet /\ ~Recalling /\ ~Closing /\ todo # <<>>
    /\ Recalling => Calm /\ ~Quiet /\ ~Changing /\ ~Closing /\ todo # <<>>
    /\ todo # <<>> /\ Head(todo) \in {hangup, shutdown, close, drop, dial} => ~Calm
<1>1. /\ reconnect # spawn("x") /\ \A o : reconnect # spawn(o) /\ spawn(o) # close /\ notify # close
      /\ reconnect \notin {hangup, shutdown, close, drop, dial} /\ notify \notin {hangup, shutdown, close, drop, dial}
      /\ \A o : spawn(o) \notin {hangup, shutdown, close, drop, dial}
  BY DEF reconnect, spawn, notify, close, hangup, shutdown, drop, dial
<1> QED BY <1>1 DEF Quiet, Changing, Recalling, Calm, Closing

LEMMA NextKinds ==
    /\ todo' = <<>> => Quiet' /\ Calm' /\ ~Changing' /\ ~Recalling' /\ ~Closing'
    /\ todo' = <<reconnect>> => Quiet' /\ Calm' /\ ~Changing' /\ ~Recalling' /\ ~Closing'
    /\ \A o \in Game!Outcomes : todo' = <<notify, spawn(o)>> =>
         Changing' /\ Calm' /\ ~Quiet' /\ ~Recalling' /\ ~Closing' /\ todo' # <<>> /\ todo' # <<reconnect>>
    /\ \A o \in Game!Outcomes : todo' = <<spawn(o)>> =>
         Recalling' /\ Calm' /\ ~Quiet' /\ ~Changing' /\ ~Closing' /\ todo' # <<>> /\ todo' # <<reconnect>>
    /\ todo' # <<>> /\ Head(todo') \in {hangup, shutdown, close, drop, dial} => ~Calm'
<1>1. /\ \A o : reconnect # spawn(o) /\ spawn(o) # close /\ notify # close /\ spawn(o) # notify
      /\ reconnect \notin {hangup, shutdown, close, drop, dial} /\ notify \notin {hangup, shutdown, close, drop, dial}
      /\ \A o : spawn(o) \notin {hangup, shutdown, close, drop, dial}
      /\ reconnect # notify
  BY DEF reconnect, spawn, notify, close, hangup, shutdown, drop, dial
<1> QED BY <1>1 DEF Quiet, Changing, Recalling, Calm, Closing

LEMMA ExecuteCommandOrder ==
    ASSUME OneGame, OrdinaryGame, SInv, Order, Game!ExecuteCommand PROVE Order'
<1> DEFINE k == Head(cbuf)
<1>1. /\ todo = <<>> /\ pc = "commands" /\ cbuf # <<>> /\ cbuf' = Tail(cbuf) /\ msg' = msg
      /\ k = wait => pc' = "send" /\ todo' = todo
      /\ k # wait => todo' = Game!OpsOf(k) /\ pc' = pc
      /\ UNCHANGED Game!netVars
      /\ UNCHANGED <<signon, clMessage, clLevel, svActive, spawned, sendsignon, svMessage, issued, loads>>
  BY DEF Game!ExecuteCommand, Game!At, Game!Go, Game!clientVars, Game!serverVars, Game!slotVars, wait
<1>2. k \in Game!Commands /\ cbuf \in Seq(Game!Commands)
  <2>1. cbuf \in Seq(Game!Commands)
    BY DEF SInv, Spoken
  <2> QED BY <1>1, <2>1, HeadTailProperties
<1>3. msg = <<>> /\ svActive \in BOOLEAN
  BY <1>1 DEF SInv, Placed, Typed
<1>4. Hasty(cbuf') /\ (k = wait => Settled(cbuf'))
  <2>1. Hasty(cbuf)
    BY DEF Order, InTurn
  <2> QED BY <1>1, <1>2, <2>1, HastyTail
<1>5. /\ Hear' = Hear /\ Say' = Say /\ Clean' = Clean
      /\ OneAtMost(netcon, "read")' = OneAtMost(netcon, "read")
      /\ UNCHANGED <<canSend, buf, len, netcon, Game!Slot, Game!Connected>>
  BY <1>1, <1>3, TalkStill DEF SInv
<1>6. Recalled' = Recalled /\ Begun' = Begun /\ Stages' = Stages /\ Due(1)' = Due(1)
  BY <1>1, <1>5, StageStill
<1>7. Playing => Clean /\ InStep
  BY <1>1, TodoKinds DEF Order, Plays
<1>8. ~(Playing /\ Begun /\ Hear # <<>>)
  BY <1>1, HeardInTime
<1> HIDE DEF k
<1>9. CASE k = wait
  <2>1. InTurn'
    BY <1>1, <1>4, <1>9 DEF InTurn
  <2>2. Queued'
    BY <1>4, <1>9 DEF Queued, Ready, Settled
  <2> QED BY <1>1, <1>3, <1>8, <1>9, <2>1, <2>2, GoOrder
<1>10. CASE k # wait
  <2>1. /\ k \in Leavers => Game!OpsOf(k) # <<>> /\ Head(Game!OpsOf(k)) = hangup
        /\ k[1] = "changelevel" => IF svActive THEN \E o \in Game!Outcomes : Game!OpsOf(k) = <<notify, spawn(o)>>
                                               ELSE Game!OpsOf(k) = <<>>
        /\ k = reconnect => Game!OpsOf(k) = <<reconnect>>
        /\ Game!OpsOf(k) = <<>> \/ Head(Game!OpsOf(k)) # close
    BY <1>2, <1>3, OpsStart, Zenon
  <2>2. todo' = Game!OpsOf(k) /\ pc' = "commands"
    BY <1>1, <1>10
  <2>3. InTurn'
    BY <1>4, <2>2 DEF InTurn
  <2>4. ~Closing'
    BY <2>1, <2>2 DEF Closing
  <2>5. Unsaid' /\ NobodyBegun'
    BY <1>1, <1>5, <2>4 DEF Order, Unsaid, NobodyBegun
  <2>6. Waits'
    BY <1>1, <1>3, <1>5, <2>2, TodoKinds DEF Order, Waits, Fresh
  <2>7. Deserted'
    BY <1>1, <1>5, TodoKinds DEF Order, Deserted
  <2>8. ASSUME Playing PROVE Plays'
    <3>1. Clean /\ InStep /\ Queued
      BY <1>7, <2>8 DEF InStep
    <3>2. CASE Ready(cbuf)
      <4>1. k \in Leavers
        BY <1>1, <1>10, <3>2 DEF Ready, k
      <4>2. ~Calm'
        BY <2>1, <2>2, <4>1, NextKinds
      <4> QED BY <4>2 DEF Plays
    <3>3. CASE k[1] = "changelevel" /\ Begun /\ Ready(cbuf')
      <4>1. PICK o \in Game!Outcomes : todo' = <<notify, spawn(o)>>
        BY <2>1, <2>2, <2>8, <3>3 DEF Playing
      <4>2. Changing' /\ ~Recalling' /\ todo' # <<>> /\ todo' # <<reconnect>>
        BY <4>1, NextKinds
      <4>3. Hear' = <<>> /\ Begun' /\ Clean'
        BY <1>5, <1>6, <1>8, <2>8, <3>1, <3>3
      <4> QED BY <2>2, <3>3, <4>2, <4>3 DEF Plays
    <3>4. CASE k = reconnect /\ Due(1) /\ Ready(cbuf')
      <4>1. todo' = <<reconnect>>
        BY <2>1, <2>2, <3>4
      <4>2. ~Changing' /\ ~Recalling' /\ todo' # <<>>
        BY <4>1, NextKinds
      <4> QED BY <1>5, <1>6, <2>2, <3>1, <3>4, <4>2 DEF Plays
    <3>5. \/ Ready(cbuf)
          \/ k[1] = "changelevel" /\ Begun /\ Ready(cbuf')
          \/ k = reconnect /\ Due(1) /\ Ready(cbuf')
      BY <1>1, <3>1 DEF Queued, k
    <3> QED BY <3>2, <3>3, <3>4, <3>5
  <2>9. ~Playing => Plays'
    BY <1>1, <1>5 DEF Playing, Plays
  <2> QED BY <2>3, <2>5, <2>6, <2>7, <2>8, <2>9 DEF Order
<1> QED BY <1>9, <1>10

\* A message to an end that has nothing waiting is all that is on its way to it.
LEMMA MessagePut ==
    ASSUME OneGame, Inv, NEW s, s \in {netcon, Game!Slot} \ {None}, NEW p \in Seq(Talk), p # <<>>,
           Game!Net!SendMessage(s, p) \/ Game!Net!SendUnreliableMessage(s, p)
    PROVE  \A r : r = driverdata[s] /\ len[r] = 0 =>
           /\ UNCHANGED <<netcon, Game!Slot, Game!Connected>>
           /\ r \in Sockets /\ len'[r] = 8 /\ buf'[r][0].payload = p
           /\ \A x \in Sockets : x # r => buf'[x] = buf[x] /\ len'[x] = len[x]
           /\ \A x \in Sockets : x # s => canSend'[x] = canSend[x]
           /\ Game!Net!SendMessage(s, p) => ~canSend'[s]
<1>1. /\ UNCHANGED <<driverdata, pending, client, server, netcon, slots, conns, active>>
      /\ driverdata[s] \in Sockets
      /\ \A x \in Sockets : x # driverdata[s] => buf'[x] = buf[x] /\ len'[x] = len[x]
      /\ DOMAIN buf'[driverdata[s]] = DOMAIN buf[driverdata[s]] \cup {len[driverdata[s]]}
      /\ \A o \in DOMAIN buf'[driverdata[s]] :
            buf'[driverdata[s]][o].payload = IF o = len[driverdata[s]] THEN p
                                             ELSE buf[driverdata[s]][o].payload
      /\ len[driverdata[s]] = 0 => len'[driverdata[s]] = 8
      /\ canSend' \in {canSend, [canSend EXCEPT ![s] = FALSE]}
      /\ Game!Net!SendMessage(s, p) => canSend' = [canSend EXCEPT ![s] = FALSE]
  BY SendEffect
<1>2. canSend \in [Sockets -> BOOLEAN] /\ s \in Sockets
  BY EndFacts
<1>7. TAKE r
<1>8. HAVE r = driverdata[s] /\ len[r] = 0
<1>3. UNCHANGED <<netcon, Game!Slot, Game!Connected>>
  BY <1>1 DEF Game!Slot, Game!Connected
<1>4. /\ r \in Sockets /\ len'[r] = 8
      /\ \A x \in Sockets : x # r => buf'[x] = buf[x] /\ len'[x] = len[x]
  BY <1>1, <1>8
<1>5. buf'[r][0].payload = p
  BY <1>1, <1>8
<1>6. /\ \A x \in Sockets : x # s => canSend'[x] = canSend[x]
      /\ Game!Net!SendMessage(s, p) => ~canSend'[s]
  BY <1>1, <1>2
<1> QED BY <1>3, <1>4, <1>5, <1>6

LEMMA MessageTaken ==
    ASSUME OneGame, Inv, NEW s, s \in {netcon, Game!Slot} \ {None}, Game!Net!GetMessage(s), len[s] = 8
    PROVE  /\ UNCHANGED <<netcon, Game!Slot, Game!Connected>>
           /\ s \in Sockets /\ len'[s] = 0
           /\ \A x \in Sockets : x # s => buf'[x] = buf[x] /\ len'[x] = len[x]
           /\ \A x \in Sockets : x # driverdata[s] => canSend'[x] = canSend[x]
<1>1. /\ UNCHANGED <<driverdata, pending, client, server, netcon, slots, conns, active>>
      /\ s \in Sockets
      /\ \A x \in Sockets : x # s => buf'[x] = buf[x] /\ len'[x] = len[x]
      /\ len[s] = 8 => len'[s] = 0
      /\ canSend' \in {canSend, [canSend EXCEPT ![driverdata[s]] = TRUE]}
  BY GetEffect
<1>2. canSend \in [Sockets -> BOOLEAN]
  BY EndFacts
<1>3. UNCHANGED <<netcon, Game!Slot, Game!Connected>>
  BY <1>1 DEF Game!Slot, Game!Connected
<1>4. \A x \in Sockets : x # driverdata[s] => canSend'[x] = canSend[x]
  BY <1>1, <1>2
<1> QED BY <1>1, <1>3, <1>4

LEMMA Opposite ==
    ASSUME OneGame, Inv, Playing
    PROVE  /\ netcon \in Sockets /\ Game!Slot \in Sockets /\ netcon # Game!Slot
           /\ netcon # None /\ Game!Slot # None
           /\ driverdata[netcon] = Game!Slot /\ driverdata[Game!Slot] = netcon
           /\ Game!Linked(Game!Slot)
BY EndFacts DEF Playing, Game!Connected

LEMMA SendCmdOrder == ASSUME OneGame, SInv, Order, Game!SendCmd PROVE Order'
<1>1. /\ todo = <<>> /\ todo' = <<>> /\ pc = "send" /\ msg' = msg /\ cbuf' = cbuf
      /\ pc' \in {"accept", "read"} /\ (svActive => pc' = "accept")
      /\ UNCHANGED <<signon, clLevel, svActive, spawned, sendsignon, svMessage, issued, loads>>
  BY DEF Game!SendCmd, Game!At, Game!Go, Game!serverVars, Game!slotVars
<1>2. /\ msg = <<>> /\ clMessage \in Seq(Speech) /\ svActive \in BOOLEAN
  BY <1>1 DEF SInv, Placed, Spoken, Typed
<1>3. ~(Playing /\ Begun /\ Hear # <<>>)
  BY <1>1, HeardInTime
<1>11. Settled(cbuf) /\ Ready(cbuf) /\ Hasty(cbuf)
  BY <1>1 DEF Order, InTurn, Settled, Ready
<1>4. CASE ~(Game!Connected /\ clMessage # <<>> /\ Game!CanSendMessage(netcon))
  <2>1. UNCHANGED Game!netVars /\ clMessage' = clMessage
    BY <1>4 DEF Game!SendCmd
  <2>2. InTurn'
    BY <1>1, <1>11 DEF InTurn
  <2>3. Queued'
    BY <1>1, <1>11 DEF Queued
  <2> QED BY <1>1, <1>2, <1>3, <2>1, <2>2, <2>3, GoOrder
<1>5. CASE Game!Connected /\ clMessage # <<>> /\ Game!CanSendMessage(netcon)
  <2>1. Game!Net!SendMessage(netcon, clMessage) /\ clMessage' = <<>> /\ Game!Linked(netcon)
    BY <1>5 DEF Game!SendCmd, Game!CanSendMessage
  <2>2. clMessage \in Seq(Talk)
    BY <1>2 DEF Talk
  <2>3. netcon \in {netcon, Game!Slot} \ {None} /\ netcon \in Sockets /\ server # None /\ driverdata[netcon] = server
        /\ server # netcon
    BY <1>5, <2>1, EndFacts DEF SInv, Game!Connected
  <2>4. PICK s, p : s = netcon /\ p = clMessage
    OBVIOUS
  <2>5. s \in {netcon, Game!Slot} \ {None} /\ p \in Seq(Talk) /\ p # <<>> /\ Game!Net!SendMessage(s, p)
    BY <1>5, <2>1, <2>2, <2>3, <2>4
  <2>6. /\ UNCHANGED <<driverdata, pending, client, server, netcon, slots, conns, active>>
        /\ \A x \in Sockets : x # driverdata[s] => buf'[x] = buf[x] /\ len'[x] = len[x]
    BY <2>5, SendEffect DEF SInv
  <2>7. UNCHANGED <<Game!Slot, Game!Connected, netcon>> /\ buf'[netcon] = buf[netcon] /\ len'[netcon] = len[netcon]
    BY <2>3, <2>4, <2>6 DEF Game!Slot, Game!Connected
  <2>8. /\ Hear' = Hear
        /\ OneAtMost(netcon, "read") => OneAtMost(netcon, "read")'
    BY <1>1, <1>2, <2>7 DEF Hear, InTransit, OneAtMost
  <2>9. InTurn'
    BY <1>1, <1>11 DEF InTurn
  <2>10. Unsaid' /\ NobodyBegun'
    BY <1>1, <2>1, <2>7 DEF Order, Unsaid, NobodyBegun
  <2>11. Waits'
    <3>1. ~(svActive /\ Game!Slot = None)
      BY <1>1, <1>5, TodoKinds DEF Order, Waits, Fresh
    <3> QED BY <1>1, <2>7, <3>1 DEF Waits
  <2>12. Deserted'
    BY <1>1, <2>7, <2>8, TodoKinds DEF Order, Deserted
  <2>13. ASSUME Playing' PROVE Clean' /\ InStep'
    <3>1. Playing
      BY <1>1, <2>7, <2>13 DEF Playing
    <3>2. Clean /\ InStep
      BY <1>1, <3>1, TodoKinds DEF Order, Plays
    <3> DEFINE r == Game!Slot
    <3>3. r \in Sockets /\ r # netcon /\ r = driverdata[s]
      BY <2>4, <3>1, Opposite DEF SInv
    <3>4. len[r] = 0
      BY <1>1, <1>5, <3>2 DEF Clean, OneAtMost, InTransit
    <3> HIDE DEF r
    <3>5. /\ len'[r] = 8 /\ buf'[r][0].payload = p
          /\ \A x \in Sockets : x # s => canSend'[x] = canSend[x]
      BY <2>5, <3>3, <3>4, MessagePut DEF SInv
    <3>6. len'[Game!Slot'] = 8 /\ buf'[Game!Slot'][0].payload = clMessage /\ canSend'[Game!Slot'] = canSend[Game!Slot]
      BY <2>4, <2>7, <3>3, <3>5 DEF r
    <3>7. InTransit(Game!Slot, "run")' = clMessage
      BY <3>6 DEF InTransit
    <3>8. Say' = Say
      BY <1>5, <2>1, <3>7 DEF Say
    <3>9. Recalled' = Recalled /\ Begun' = Begun /\ Stages' = Stages
      BY <1>1, <2>8, <3>8, StageStill
    <3>10. OneAtMost(Game!Slot, "run")'
      BY <1>1, <1>5, <3>6 DEF OneAtMost
    <3>11. Clean'
      BY <2>1, <2>8, <3>2, <3>10 DEF Clean
    <3>12. Queued'
      BY <1>1, <1>11 DEF Queued
    <3> QED BY <1>3, <2>7, <2>8, <3>1, <3>2, <3>6, <3>9, <3>11, <3>12 DEF InStep
  <2>14. Plays'
    BY <1>1, <2>13, NextKinds DEF Plays
  <2> QED BY <2>9, <2>10, <2>11, <2>12, <2>14 DEF Order
<1> QED BY <1>4, <1>5

LEMMA EmptyJoined == \A x, y : <<>> \o <<x, y>> = <<x, y>>
OBVIOUS

LEMMA AcceptOrder == ASSUME OneGame, SInv, Order, Game!Accept PROVE Order'
<1>1. /\ todo = <<>> /\ todo' = <<>> /\ pc = "accept" /\ pc' = "run" /\ msg' = msg /\ cbuf' = cbuf
      /\ Game!Net!CheckNewConnections
      /\ svMessage' = <<>> \o <<<<"serverinfo", loads>>, <<"signon", 1>>>>
      /\ sendsignon' = TRUE /\ spawned' = FALSE
      /\ UNCHANGED <<signon, clMessage, clLevel, svActive, issued, loads>>
  BY DEF Game!Accept, Game!At, Game!Go, Game!clientVars, Game!SendServerinfo
<1>2. msg = <<>> /\ svActive
  BY <1>1 DEF SInv, Placed, Running
<1>3. /\ netcon # None /\ netcon' = netcon /\ Game!Slot = None /\ Game!Slot' = server /\ server # None
      /\ len'[netcon] = 0 /\ len'[server] = 0
  BY <1>1, AcceptEffect DEF SInv
<1>4. Game!Connected /\ Game!Connected'
  BY <1>3 DEF Game!Connected
<1>5. Fresh
  BY <1>1, <1>2, <1>3, <1>4, TodoKinds DEF Order, Waits
<1>6. Settled(cbuf) /\ Ready(cbuf) /\ Hasty(cbuf)
  BY <1>1 DEF Order, InTurn, Settled, Ready
<1>7. InTurn'
  BY <1>1, <1>6 DEF InTurn
<1>8. Unsaid' /\ NobodyBegun'
  BY <1>1, <1>5 DEF Unsaid, NobodyBegun, Fresh
<1>9. Waits' /\ Deserted'
  BY <1>1, <1>2, <1>3 DEF Waits, Deserted
<1>10. Hear' = <<>> /\ InTransit(Game!Slot, "run")' = <<>>
  BY <1>1, <1>2, <1>3 DEF Hear, InTransit
<1>11. Say' = <<>> /\ clMessage' = <<>>
  BY <1>1, <1>5, <1>10 DEF Say, Fresh
<1>12. Clean'
  BY <1>3, <1>11 DEF Clean, OneAtMost
<1>13. svMessage' = Told(1, loads)
  BY <1>1, EmptyJoined, Texts
<1>14. Due(1)'
  BY <1>1, <1>5, <1>10, <1>11, <1>13 DEF Due, Fresh
<1>15. Stages' /\ ~Recalled' /\ ~Begun'
  <2>1. Stages'
    BY <1>14 DEF Stages
  <2>2. ~Recalled' /\ ~Begun'
    BY <1>1, <1>10, Texts DEF Recalled, Begun
  <2> QED BY <2>1, <2>2
<1>16. InStep'
  BY <1>1, <1>6, <1>15 DEF InStep, Queued
<1>17. Plays'
  BY <1>1, <1>12, <1>16, NextKinds DEF Plays
<1> QED BY <1>7, <1>8, <1>9, <1>17 DEF Order

LEMMA ReadCommandOrder ==
    ASSUME OneGame, SInv, Order, Game!ReadMessage("run", Game!Slot) PROVE Order'
<1>1. /\ todo = <<>> /\ todo' = <<>> /\ pc = "run" /\ pc' = "run" /\ cbuf' = cbuf /\ msg = <<>>
      /\ Game!Slot # None /\ len[Game!Slot] # 0 /\ msg' = buf[Game!Slot][0].payload
      /\ Game!Net!GetMessage(Game!Slot)
      /\ UNCHANGED <<signon, clMessage, clLevel, svActive, spawned, sendsignon, svMessage, issued, loads>>
  BY DEF Game!ReadMessage, Game!Waiting, Game!At, Game!clientVars, Game!serverVars, Game!slotVars
<1>2. svActive
  BY <1>1 DEF SInv, Placed, Running
<1>3. Game!Connected
  BY <1>1, <1>2, PlannedStill DEF SInv, Planned, Agenda
<1>4. Playing
  BY <1>1, <1>2, <1>3 DEF Playing
<1>5. Clean /\ InStep
  BY <1>1, <1>4, TodoKinds DEF Order, Plays
<1> DEFINE r == Game!Slot
<1>6. /\ netcon \in Sockets /\ r \in Sockets /\ netcon # r /\ driverdata[r] = netcon /\ r # None
  BY <1>4, Opposite DEF SInv
<1>7. len[r] = 8 /\ r \in {netcon, Game!Slot} \ {None} /\ Game!Net!GetMessage(r)
  BY <1>1, <1>5, <1>6 DEF Clean, OneAtMost
<1>8. PICK s : s = r
  OBVIOUS
<1> HIDE DEF r
<1>9. s \in {netcon, Game!Slot} \ {None} /\ Game!Net!GetMessage(s) /\ len[s] = 8
  BY <1>7, <1>8
<1>10. /\ UNCHANGED <<netcon, Game!Slot, Game!Connected>>
       /\ s \in Sockets /\ len'[s] = 0
       /\ \A x \in Sockets : x # s => buf'[x] = buf[x] /\ len'[x] = len[x]
       /\ \A x \in Sockets : x # driverdata[s] => canSend'[x] = canSend[x]
  BY <1>9, MessageTaken DEF SInv
<1>11. len'[Game!Slot'] = 0 /\ buf'[netcon'] = buf[netcon] /\ len'[netcon'] = len[netcon]
       /\ canSend'[Game!Slot'] = canSend[Game!Slot]
  BY <1>6, <1>8, <1>10 DEF r
<1>12. Hear' = Hear /\ OneAtMost(netcon, "read")'
  BY <1>1, <1>5, <1>11 DEF Clean, Hear, InTransit, OneAtMost
<1>13. InTransit(Game!Slot, "run")' = InTransit(Game!Slot, "run") /\ clMessage = <<>>
  BY <1>1, <1>5, <1>11 DEF Clean, OneAtMost, InTransit
<1>14. Say' = Say
  BY <1>1, <1>13 DEF Say
<1>15. Clean'
  BY <1>1, <1>11, <1>12, <1>13 DEF Clean, OneAtMost
<1>16. Recalled' = Recalled /\ Begun' = Begun /\ Stages' = Stages /\ Due(1)' = Due(1)
  BY <1>1, <1>12, <1>14, StageStill
<1>17. Queued'
  BY <1>1, <1>5, <1>16, QueuedStill DEF InStep
<1>18. InStep'
  BY <1>1, <1>5, <1>11, <1>12, <1>16, <1>17 DEF InStep
<1>19. InTurn' /\ Unsaid' /\ NobodyBegun'
  BY <1>1, <1>10, TodoKinds, NextKinds DEF Order, InTurn, Unsaid, NobodyBegun
<1>20. Waits' /\ Deserted'
  BY <1>1, <1>2, <1>10 DEF Waits, Deserted
<1>21. Plays'
  BY <1>1, <1>15, <1>18, NextKinds DEF Plays
<1> QED BY <1>19, <1>20, <1>21 DEF Order

LEMMA ReadServerMessageOrder ==
    ASSUME OneGame, SInv, Order, Game!ReadMessage("read", netcon) PROVE Order'
<1>1. /\ todo = <<>> /\ todo' = <<>> /\ pc = "read" /\ pc' = "read" /\ cbuf' = cbuf /\ msg = <<>>
      /\ netcon # None /\ len[netcon] # 0 /\ msg' = buf[netcon][0].payload
      /\ Game!Net!GetMessage(netcon)
      /\ UNCHANGED <<signon, clMessage, clLevel, svActive, spawned, sendsignon, svMessage, issued, loads>>
  BY DEF Game!ReadMessage, Game!Waiting, Game!At, Game!clientVars, Game!serverVars, Game!slotVars
<1>2. Game!Connected /\ Quiet /\ Calm /\ svActive \in BOOLEAN /\ ~Closing
  BY <1>1, TodoKinds DEF Game!Connected, SInv, Typed
<1>3. CASE svActive /\ Game!Slot = None
  BY <1>1, <1>2, <1>3 DEF Order, Waits, Fresh
<1>4. CASE ~(svActive /\ Game!Slot = None)
  <2>1. OneAtMost(netcon, "read") /\ (Playing => Clean /\ InStep) /\ (svActive => Playing)
    BY <1>1, <1>2, <1>4 DEF Order, Plays, Deserted, Clean, Playing
  <2>2. PICK s : s = netcon
    OBVIOUS
  <2>3. s \in {netcon, Game!Slot} \ {None} /\ Game!Net!GetMessage(s) /\ len[s] = 8
    BY <1>1, <2>1, <2>2 DEF OneAtMost
  <2>4. /\ UNCHANGED <<netcon, Game!Slot, Game!Connected>>
        /\ s \in Sockets /\ len'[s] = 0
        /\ \A x \in Sockets : x # s => buf'[x] = buf[x] /\ len'[x] = len[x]
    BY <2>3, MessageTaken DEF SInv
  <2>5. len'[netcon'] = 0 /\ len'[netcon] = 0 /\ netcon' = netcon
    BY <2>2, <2>4
  <2>6. Hear' = Hear /\ OneAtMost(netcon, "read")'
    BY <1>1, <2>5 DEF Hear, InTransit, OneAtMost
  <2>7. InTurn' /\ Unsaid' /\ NobodyBegun'
    BY <1>1, <2>4, TodoKinds, NextKinds DEF Order, InTurn, Unsaid, NobodyBegun
  <2>8. Waits'
    BY <1>1, <1>4, <2>4 DEF Waits
  <2>9. Deserted'
    BY <1>1, <1>2, <2>4, <2>6 DEF Order, Deserted
  <2>10. ASSUME Playing' PROVE Clean' /\ InStep'
    <3>1. Playing
      BY <1>1, <2>4, <2>10 DEF Playing
    <3>2. Game!Slot \in Sockets /\ Game!Slot # netcon
      BY <3>1, Opposite DEF SInv
    <3>3. buf'[Game!Slot'] = buf[Game!Slot] /\ len'[Game!Slot'] = len[Game!Slot]
      <4>1. \A x \in Sockets : x # netcon => buf'[x] = buf[x] /\ len'[x] = len[x]
        BY <2>2, <2>4
      <4>2. Game!Slot' = Game!Slot
        BY <2>4
      <4> QED BY <3>2, <4>1, <4>2
    <3>4. InTransit(Game!Slot, "run")' = InTransit(Game!Slot, "run")
      BY <1>1, <3>3 DEF InTransit
    <3>5. Say' = Say
      BY <1>1, <3>4 DEF Say
    <3>6. Clean'
      BY <1>1, <2>1, <2>6, <3>1, <3>3, <3>4 DEF Clean, OneAtMost
    <3>7. Recalled' = Recalled /\ Begun' = Begun /\ Stages' = Stages /\ Due(1)' = Due(1)
      BY <1>1, <2>6, <3>5, StageStill
    <3>8. Queued'
      BY <1>1, <2>1, <3>1, <3>7, QueuedStill DEF InStep
    <3> QED BY <1>1, <2>1, <2>5, <3>1, <3>6, <3>7, <3>8 DEF InStep
  <2>11. Plays'
    BY <1>1, <2>10, NextKinds DEF Plays
  <2> QED BY <2>7, <2>8, <2>9, <2>11 DEF Order
<1> QED BY <1>3, <1>4

\* The server does what the client asks for.
LEMMA ServerCommandOrder == ASSUME OneGame, SInv, Order, Game!ServerCommand PROVE Order'
<1>1. /\ todo = <<>> /\ todo' = <<>> /\ pc = "run" /\ pc' = "run" /\ msg # <<>> /\ msg' = Tail(msg)
      /\ UNCHANGED Game!netVars
      /\ UNCHANGED <<cbuf, signon, clMessage, clLevel, svActive, issued, loads>>
  BY DEF Game!ServerCommand, Game!At, Game!clientVars
<1>2. svActive /\ Game!Slot # None
  BY <1>1 DEF SInv, Placed, Running
<1>3. Game!Connected
  BY <1>1, <1>2, PlannedStill DEF SInv, Planned, Agenda
<1>4. Playing
  BY <1>1, <1>2, <1>3 DEF Playing
<1>5. Clean /\ InStep
  BY <1>1, <1>4, TodoKinds DEF Order, Plays
<1>6. UNCHANGED <<canSend, buf, len, netcon, Game!Slot, Game!Connected>>
  BY <1>1, Still DEF SInv
<1>7. len[Game!Slot] = 0 /\ clMessage = <<>> /\ Say = msg
  BY <1>1, <1>5 DEF Clean, OneAtMost, InTransit, Say
<1>8. PICK k \in 1 .. 3 : Asked(k)
  BY <1>1, <1>5, <1>7, Apart DEF InStep
<1>9. /\ Hear = <<>> /\ msg = Game!Reply(k) /\ svMessage = <<>> /\ spawned = FALSE /\ signon = k /\ clLevel = loads
  BY <1>7, <1>8 DEF Asked, SInv, Typed
<1>10. k = 1 \/ k = 2 \/ k = 3
  OBVIOUS
<1>11. msg' = <<>>
  BY <1>1, <1>9, <1>10, Texts
<1>12. Hear' = <<>> /\ Say' = <<>> /\ Clean'
  <2>1. Hear' = Hear
    BY <1>1, <1>6 DEF Hear, InTransit
  <2>2. InTransit(Game!Slot, "run")' = <<>>
    BY <1>1, <1>6, <1>7, <1>11 DEF InTransit
  <2>3. Say' = <<>>
    BY <1>1, <1>7, <2>2 DEF Say
  <2>4. Clean'
    BY <1>1, <1>5, <1>6, <1>7, <2>2 DEF Clean, OneAtMost
  <2> QED BY <1>9, <2>1, <2>3, <2>4
<1>13. Stages' /\ ~Recalled' /\ NobodyBegun'
  <2>0. ~Recalled'
    BY <1>12, Texts DEF Recalled
  <2>1. CASE k = 1
    <3>1. Head(msg) = <<"prespawn">> /\ ~(Head(msg) = <<"spawn">>) /\ ~(Head(msg) = <<"begin">>)
      BY <1>9, <2>1, Texts
    <3>2. Game!Stage(Append(svMessage, <<"signon", 2>>))
      BY <3>1, Zenon DEF Game!ServerCommand
    <3>3. svMessage' = Append(<<>>, <<"signon", 2>>) /\ spawned' = spawned
      BY <1>9, <3>2 DEF Game!Stage
    <3>4. svMessage' = Told(2, loads')
      BY <1>1, <3>3, Texts
    <3>5. Due(2)'
      BY <1>1, <1>9, <1>12, <2>1, <3>3, <3>4 DEF Due
    <3> QED BY <1>9, <2>0, <3>3, <3>5 DEF Stages, NobodyBegun
  <2>2. CASE k = 2
    <3>1. Head(msg) = <<"spawn">> /\ ~(Head(msg) = <<"prespawn">>) /\ ~(Head(msg) = <<"begin">>)
      BY <1>9, <2>2, Texts
    <3>2. Game!Stage(Game!NamesFor(svMessage))
      BY <3>1, Zenon DEF Game!ServerCommand
    <3>3. svMessage' = <<<<"names">>, <<"signon", 3>>>> /\ spawned' = spawned
      BY <1>9, <3>2 DEF Game!Stage, Game!NamesFor
    <3>4. svMessage' = Told(3, loads')
      BY <1>1, <3>3, Texts
    <3>5. Due(3)'
      BY <1>1, <1>9, <1>12, <2>2, <3>3, <3>4 DEF Due
    <3> QED BY <1>9, <2>0, <3>3, <3>5 DEF Stages, NobodyBegun
  <2>3. CASE k = 3
    <3>1. Head(msg) = <<"begin">> /\ ~(Head(msg) = <<"prespawn">>) /\ ~(Head(msg) = <<"spawn">>)
      BY <1>9, <2>3, Texts
    <3>2. spawned' = TRUE /\ UNCHANGED svMessage
      BY <3>1, Zenon DEF Game!ServerCommand
    <3>3. Begun'
      BY <1>1, <1>9, <1>12, <2>3, <3>2 DEF Begun
    <3> QED BY <1>2, <1>6, <2>0, <3>3 DEF Stages, NobodyBegun
  <2> QED BY <1>10, <2>1, <2>2, <2>3
<1>14. Settled(cbuf) /\ Ready(cbuf)
  BY <1>1 DEF Order, InTurn, Settled, Ready
<1>15. InStep'
  BY <1>1, <1>12, <1>13, <1>14 DEF InStep, Queued
<1>16. InTurn' /\ Unsaid'
  BY <1>1, <1>6, TodoKinds, NextKinds DEF Order, InTurn, Unsaid
<1>17. Waits' /\ Deserted'
  BY <1>1, <1>2, <1>6 DEF Waits, Deserted
<1>18. Plays'
  BY <1>1, <1>12, <1>15, NextKinds DEF Plays
<1> QED BY <1>13, <1>16, <1>17, <1>18 DEF Order

LEMMA DatagramOrder == ASSUME OneGame, SInv, Order, Game!Datagram PROVE Order'
<1>1. /\ todo = <<>> /\ todo' = <<>> /\ pc = "datagram" /\ pc' = "deliver" /\ msg' = msg /\ cbuf' = cbuf
      /\ UNCHANGED <<signon, clMessage, clLevel, svActive, spawned, sendsignon, svMessage, issued, loads>>
  BY DEF Game!Datagram, Game!At, Game!Go, Game!clientVars, Game!serverVars, Game!slotVars
<1>2. msg = <<>> /\ svActive
  BY <1>1 DEF SInv, Placed, Running
<1>3. ~(Playing /\ Begun /\ Hear # <<>>)
  BY <1>1, HeardInTime
<1>4. CASE ~(Game!Slot # None /\ spawned /\ Game!Linked(Game!Slot))
  <2>1. UNCHANGED Game!netVars
    BY <1>4 DEF Game!Datagram
  <2> QED BY <1>1, <1>2, <1>3, <2>1, GoStill
<1>5. CASE Game!Slot # None /\ spawned /\ Game!Linked(Game!Slot)
  <2>1. Game!Net!SendUnreliableMessage(Game!Slot, <<<<"update">>>>)
    BY <1>5 DEF Game!Datagram
  <2>2. Game!Connected
    BY <1>1, <1>2, PlannedStill DEF SInv, Planned, Agenda
  <2>3. Playing
    BY <1>2, <1>5, <2>2 DEF Playing
  <2>4. Clean /\ InStep
    BY <1>1, <2>3, TodoKinds DEF Order, Plays
  <2>5. Begun
    BY <1>5, <2>4, Apart DEF InStep
  <2> DEFINE up == <<<<"update">>>>
  <2>6. up # <<>> /\ up \in Seq(Talk) /\ Game!Net!SendUnreliableMessage(Game!Slot, up)
    BY <2>1 DEF Talk, News
  <2>7. /\ netcon \in Sockets /\ Game!Slot \in Sockets /\ netcon # Game!Slot
        /\ netcon # None /\ driverdata[Game!Slot] = netcon
    BY <2>3, Opposite DEF SInv
  <2>8. Hear = <<>> /\ len[netcon] = 0
    BY <1>1, <1>3, <2>3, <2>4, <2>5 DEF Clean, OneAtMost, Hear, InTransit
  <2>9. PICK s, p, r : s = Game!Slot /\ p = up /\ r = netcon
    OBVIOUS
  <2> HIDE DEF up
  <2>10. /\ s \in {netcon, Game!Slot} \ {None} /\ p \in Seq(Talk) /\ p # <<>>
         /\ Game!Net!SendUnreliableMessage(s, p)
         /\ r = driverdata[s] /\ len[r] = 0
    BY <1>5, <2>6, <2>7, <2>8, <2>9
  <2>11. /\ UNCHANGED <<netcon, Game!Slot, Game!Connected>>
         /\ len'[r] = 8 /\ buf'[r][0].payload = p
         /\ \A x \in Sockets : x # r => buf'[x] = buf[x] /\ len'[x] = len[x]
    BY <2>10, MessagePut DEF SInv
  <2>12. /\ len'[netcon'] = 8 /\ buf'[netcon'][0].payload = up
         /\ buf'[Game!Slot'] = buf[Game!Slot] /\ len'[Game!Slot'] = len[Game!Slot]
    BY <2>7, <2>9, <2>11
  <2>13. Hear' = up
    BY <2>12 DEF Hear, InTransit
  <2>14. InTransit(Game!Slot, "run")' = InTransit(Game!Slot, "run")
    BY <1>1, <1>2, <2>12 DEF InTransit
  <2>15. Say' = Say /\ Say = <<>>
    BY <1>1, <2>5, <2>14 DEF Say, Begun
  <2>16. Clean'
    BY <1>1, <1>2, <2>4, <2>6, <2>12, <2>14 DEF Clean, OneAtMost
  <2>17. Begun'
    BY <1>1, <2>5, <2>13, <2>15 DEF Begun, up
  <2>18. ~Recalled'
    BY <1>1, <1>5 DEF Recalled
  <2>19. Queued'
    <3>1. ~Due(1)
      BY <2>5, Apart
    <3> QED BY <1>1, <2>4, <2>17, <3>1 DEF InStep, Queued
  <2>20. InStep'
    BY <1>1, <2>17, <2>18, <2>19 DEF InStep, Stages
  <2>21. InTurn' /\ Unsaid' /\ NobodyBegun'
    BY <1>1, <2>11, TodoKinds, NextKinds DEF Order, InTurn, Unsaid, NobodyBegun
  <2>22. Waits' /\ Deserted'
    BY <1>1, <1>2, <1>5, <2>11 DEF Waits, Deserted
  <2>23. Plays'
    BY <1>1, <2>16, <2>20, NextKinds DEF Plays
  <2> QED BY <2>21, <2>22, <2>23 DEF Order
<1> QED BY <1>4, <1>5

LEMMA DeliverOrder == ASSUME OneGame, SInv, Order, Game!Deliver PROVE Order'
<1> DEFINE due == Game!Slot # None /\ (spawned \/ sendsignon) /\ svMessage # <<>> /\ Game!CanSendMessage(Game!Slot)
<1>1. /\ todo = <<>> /\ todo' = <<>> /\ pc = "deliver" /\ pc' = "read" /\ msg' = msg /\ cbuf' = cbuf
      /\ UNCHANGED <<signon, clMessage, clLevel, svActive, spawned, issued, loads>>
  BY DEF Game!Deliver, Game!At, Game!Go, Game!clientVars
<1>2. msg = <<>> /\ svActive
  BY <1>1 DEF SInv, Placed, Running
<1>3. CASE ~due
  <2>1. UNCHANGED Game!netVars /\ UNCHANGED <<svMessage, sendsignon>>
    BY <1>3 DEF Game!Deliver
  <2> QED BY <1>1, <1>2, <2>1, GoStill
<1>4. CASE due
  <2>1. /\ Game!Net!SendMessage(Game!Slot, svMessage) /\ svMessage' = <<>>
        /\ Game!Slot # None /\ svMessage # <<>> /\ canSend[Game!Slot]
    BY <1>4 DEF Game!Deliver, Game!CanSendMessage
  <2>2. Game!Connected
    BY <1>1, <1>2, PlannedStill DEF SInv, Planned, Agenda
  <2>3. Playing
    BY <1>2, <2>1, <2>2 DEF Playing
  <2>4. Clean /\ InStep
    BY <1>1, <2>3, TodoKinds DEF Order, Plays
  <2>5. ~Recalled
    <3>1. Recalled => len[netcon] # 0
      BY <1>1, Texts DEF Recalled, Hear, InTransit
    <3> QED BY <2>1, <2>4, <3>1 DEF InStep
  <2>6. PICK k \in 1 .. 3 : Due(k)
    BY <2>1, <2>4, <2>5, Apart DEF InStep
  <2>7. /\ Hear = <<>> /\ Say = <<>> /\ svMessage = Told(k, loads)
        /\ ~spawned /\ signon = k - 1 /\ (k # 1 => clLevel = loads) /\ ~Begun
    BY <2>6, Apart DEF Due
  <2>8. /\ netcon \in Sockets /\ Game!Slot \in Sockets /\ netcon # Game!Slot
        /\ netcon # None /\ driverdata[Game!Slot] = netcon
    BY <2>3, Opposite DEF SInv
  <2>9. len[netcon] = 0
    BY <1>1, <2>4, <2>7 DEF Clean, OneAtMost, Hear, InTransit
  <2>10. svMessage \in Seq(Talk)
    BY DEF SInv, Spoken, Talk
  <2>11. PICK s, p, r : s = Game!Slot /\ p = svMessage /\ r = netcon
    OBVIOUS
  <2>12. /\ s \in {netcon, Game!Slot} \ {None} /\ p \in Seq(Talk) /\ p # <<>>
         /\ Game!Net!SendMessage(s, p)
         /\ r = driverdata[s] /\ len[r] = 0
    BY <2>1, <2>8, <2>9, <2>10, <2>11
  <2>13. /\ UNCHANGED <<netcon, Game!Slot, Game!Connected>>
         /\ len'[r] = 8 /\ buf'[r][0].payload = p
         /\ \A x \in Sockets : x # r => buf'[x] = buf[x] /\ len'[x] = len[x]
    BY <2>12, MessagePut DEF SInv
  <2>14. /\ len'[netcon'] = 8 /\ buf'[netcon'][0].payload = svMessage
         /\ buf'[Game!Slot'] = buf[Game!Slot] /\ len'[Game!Slot'] = len[Game!Slot]
    BY <2>8, <2>11, <2>13
  <2>15. Hear' = Told(k, loads)
    BY <2>7, <2>14 DEF Hear, InTransit
  <2>16. InTransit(Game!Slot, "run")' = InTransit(Game!Slot, "run")
    BY <1>1, <1>2, <2>14 DEF InTransit
  <2>17. Say' = <<>>
    BY <1>1, <2>7, <2>16 DEF Say
  <2>18. Clean'
    BY <1>1, <1>2, <2>1, <2>4, <2>14, <2>16 DEF Clean, OneAtMost
  <2>19. Sent(k)'
    BY <1>1, <2>1, <2>7, <2>15, <2>17 DEF Sent
  <2>20. ~Recalled' /\ ~Begun'
    <3>1. Told(1, loads') # <<>>
      BY Texts
    <3> QED BY <1>1, <2>1, <2>7, <3>1 DEF Recalled, Begun
  <2>21. Queued'
    BY <1>1, <2>4, <2>7 DEF InStep, Queued
  <2>22. Stages'
    BY <2>19 DEF Stages
  <2>23. InStep'
    BY <2>20, <2>21, <2>22 DEF InStep
  <2>24. InTurn' /\ Unsaid' /\ NobodyBegun'
    BY <1>1, <2>13, TodoKinds, NextKinds DEF Order, InTurn, Unsaid, NobodyBegun
  <2>25. Waits' /\ Deserted'
    BY <1>1, <1>2, <2>1, <2>13 DEF Waits, Deserted
  <2>26. Plays'
    BY <1>1, <2>18, <2>23, NextKinds DEF Plays
  <2> QED BY <2>24, <2>25, <2>26 DEF Order
<1> QED BY <1>3, <1>4

\* The client obeys the first thing it is told.
LEMMA Obeyed ==
    ASSUME Game!ParseServerMessage
    PROVE  /\ todo = <<>> /\ pc = "read" /\ msg # <<>>
           /\ UNCHANGED Game!netVars
           /\ UNCHANGED <<svActive, spawned, sendsignon, svMessage, issued, loads>>
           /\ Head(msg) = <<"stufftext", reconnect>> =>
                cbuf' = Append(cbuf, reconnect) /\ Game!Parsed /\ UNCHANGED <<signon, clMessage, clLevel>>
           /\ \A l : Head(msg) = <<"serverinfo", l>> => Game!ParseServerinfo(l)
           /\ \A n : Head(msg) = <<"signon", n>> => Game!ParseSignon(n)
           /\ Head(msg) = <<"names">> => Game!ParseNames
           /\ Head(msg) = <<"update">> => Game!ParseUpdate
<1>1. /\ todo = <<>> /\ pc = "read" /\ msg # <<>>
      /\ UNCHANGED Game!netVars
      /\ UNCHANGED <<svActive, spawned, sendsignon, svMessage, issued, loads>>
  BY DEF Game!ParseServerMessage, Game!At, Game!serverVars, Game!slotVars
<1>2. /\ "serverinfo" # "signon" /\ "serverinfo" # "names" /\ "serverinfo" # "update" /\ "serverinfo" # "stufftext"
      /\ "signon" # "names" /\ "signon" # "update" /\ "signon" # "stufftext"
      /\ "names" # "update" /\ "names" # "stufftext" /\ "update" # "stufftext"
  OBVIOUS
<1>3. /\ Head(msg)[1] = "serverinfo" => Game!ParseServerinfo(Head(msg)[2])
      /\ Head(msg)[1] = "signon" => Game!ParseSignon(Head(msg)[2])
      /\ Head(msg)[1] = "names" => Game!ParseNames
      /\ Head(msg)[1] = "update" => Game!ParseUpdate
      /\ Head(msg)[1] = "stufftext" => Game!ParseStufftext(Head(msg)[2])
  BY <1>2, Zenon DEF Game!ParseServerMessage
<1>4. Head(msg) = <<"stufftext", reconnect>> =>
        cbuf' = Append(cbuf, reconnect) /\ Game!Parsed /\ UNCHANGED <<signon, clMessage, clLevel>>
  <2>1. Head(msg) = <<"stufftext", reconnect>> => Head(msg)[1] = "stufftext" /\ Head(msg)[2] = reconnect
    OBVIOUS
  <2> QED BY <1>3, <2>1 DEF Game!ParseStufftext, Game!clientVars
<1>5. ASSUME NEW l, Head(msg) = <<"serverinfo", l>> PROVE Game!ParseServerinfo(l)
  <2>1. Head(msg)[1] = "serverinfo" /\ Head(msg)[2] = l
    BY <1>5
  <2> QED BY <1>3, <2>1, Zenon
<1>6. ASSUME NEW n, Head(msg) = <<"signon", n>> PROVE Game!ParseSignon(n)
  <2>1. Head(msg)[1] = "signon" /\ Head(msg)[2] = n
    BY <1>6
  <2> QED BY <1>3, <2>1, Zenon
<1>7. /\ Head(msg) = <<"names">> => Head(msg)[1] = "names"
      /\ Head(msg) = <<"update">> => Head(msg)[1] = "update"
  OBVIOUS
<1> QED BY <1>1, <1>3, <1>4, <1>5, <1>6, <1>7, Zenon

\* What a client that hears something is being told, and at what stage.
LEMMA BeingTold ==
    ASSUME OneGame, SInv, Order, todo = <<>>, pc = "read", msg # <<>>
    PROVE  /\ Hear = msg /\ len[netcon] = 0 /\ Game!Connected
           /\ ~svActive => msg = Recall
           /\ svActive => Playing /\ Clean /\ InStep /\ (Recalled \/ Begun \/ \E k \in 1 .. 3 : Sent(k))
<1>1. Game!Connected /\ Quiet /\ Calm
  BY TodoKinds DEF SInv, Placed
<1>2. svActive => Game!Slot # None
  BY <1>1 DEF Order, Waits, Fresh
<1>3. svActive => Playing /\ Clean /\ InStep
  BY <1>1, <1>2 DEF Playing, Order, Plays
<1>4. OneAtMost(netcon, "read")
  BY <1>1, <1>3 DEF Order, Deserted, Clean
<1>5. len[netcon] = 0 /\ Hear = msg
  BY <1>4 DEF OneAtMost, Hear, InTransit
<1>6. ~svActive => msg = Recall
  BY <1>1, <1>5 DEF Order, Deserted
<1>7. svActive => Recalled \/ Begun \/ \E k \in 1 .. 3 : Sent(k)
  BY <1>3, <1>5, Apart DEF InStep
<1> QED BY <1>1, <1>3, <1>5, <1>6, <1>7

\* The client has parsed an item and goes on with the rest.
LEMMA ParsedOrder ==
    ASSUME OneGame, SInv, Order, todo = <<>>, pc = "read", msg # <<>>, svActive,
           Game!Parsed, UNCHANGED Game!netVars,
           UNCHANGED <<svActive, spawned, svMessage, loads>>,
           Hasty(cbuf'), Queued', Stages', ~Recalled', Begun' => Begun,
           clMessage' # <<>> => InTransit(Game!Slot, "run") = <<>>
    PROVE  Order'
<1>1. Hear = msg /\ len[netcon] = 0 /\ Game!Connected /\ Playing /\ Clean /\ InStep
  BY BeingTold
<1>2. todo' = <<>> /\ pc' = "read" /\ msg' = Tail(msg)
  BY DEF Game!Parsed
<1>3. UNCHANGED <<canSend, buf, len, netcon, Game!Slot, Game!Connected>>
  BY Still DEF SInv
<1>4. InTransit(Game!Slot, "run")' = InTransit(Game!Slot, "run")
  BY <1>2, <1>3 DEF InTransit
<1>5. OneAtMost(netcon, "read")' /\ OneAtMost(Game!Slot, "run")'
  BY <1>1, <1>2, <1>3 DEF Clean, OneAtMost
<1>6. Clean'
  BY <1>4, <1>5 DEF Clean
<1>7. InStep'
  BY <1>2 DEF InStep
<1>8. Plays'
  BY <1>2, <1>6, <1>7, NextKinds DEF Plays
<1>9. InTurn'
  BY <1>2 DEF InTurn
<1>10. Unsaid' /\ NobodyBegun'
  BY <1>1, <1>2, <1>3, NextKinds DEF Order, Unsaid, NobodyBegun
<1>11. Waits' /\ Deserted'
  BY <1>1, <1>3 DEF Waits, Deserted, Playing
<1> QED BY <1>8, <1>9, <1>10, <1>11 DEF Order

LEMMA RecalledOrder ==
    ASSUME OneGame, SInv, Order, Game!ParseServerMessage, svActive, Recalled PROVE Order'
<1>1. /\ todo = <<>> /\ pc = "read" /\ msg # <<>>
      /\ UNCHANGED Game!netVars /\ UNCHANGED <<svActive, spawned, sendsignon, svMessage, issued, loads>>
  BY Obeyed
<1>2. Hear = msg /\ len[netcon] = 0 /\ Playing /\ Clean /\ InStep
  BY <1>1, BeingTold
<1>3. /\ msg = Recall /\ Say = <<>> /\ svMessage = Told(1, loads) /\ ~spawned /\ signon = 0
      /\ ~Begun /\ ~Due(1)
  BY <1>2, Apart DEF Recalled
<1>4. cbuf' = Append(cbuf, reconnect) /\ Game!Parsed /\ UNCHANGED <<signon, clMessage, clLevel>>
  BY <1>3, Obeyed, Texts
<1>5. todo' = <<>> /\ pc' = "read" /\ msg' = <<>>
  BY <1>1, <1>3, <1>4, Texts DEF Game!Parsed
<1>6. UNCHANGED <<canSend, buf, len, netcon, Game!Slot, Game!Connected>>
  BY <1>1, Still DEF SInv
<1>7. Hear' = <<>> /\ InTransit(Game!Slot, "run")' = InTransit(Game!Slot, "run")
  BY <1>1, <1>2, <1>5, <1>6 DEF Hear, InTransit
<1>8. Say' = <<>> /\ clMessage = <<>>
  BY <1>3, <1>4, <1>7 DEF Say
<1>9. Due(1)'
  BY <1>1, <1>3, <1>4, <1>7, <1>8 DEF Due
<1>10. Stages' /\ ~Recalled' /\ ~Begun'
  <2>1. Stages'
    BY <1>9 DEF Stages
  <2>2. ~Recalled' /\ ~Begun'
    BY <1>1, <1>3, <1>7, Texts DEF Recalled, Begun
  <2> QED BY <2>1, <2>2
<1>11. Ready(cbuf)
  BY <1>2, <1>3 DEF InStep, Queued
<1>12. /\ reconnect \in Game!Commands /\ reconnect # wait /\ cbuf \in Seq(Game!Commands) /\ Hasty(cbuf)
  BY LineKinds DEF reconnect, Game!Commands, SInv, Spoken, Order, InTurn
<1>13. /\ Hasty(cbuf')
       /\ cbuf # <<>> => Head(cbuf') = Head(cbuf) /\ cbuf' # <<>>
       /\ cbuf = <<>> => cbuf' # <<>> /\ Head(cbuf') = reconnect /\ Tail(cbuf') = <<>>
  BY <1>4, <1>12, Appended
<1>14. Queued'
  <2>1. CASE cbuf = <<>>
    <3>1. Ready(Tail(cbuf'))
      BY <1>13, <2>1 DEF Ready
    <3> QED BY <1>5, <1>9, <1>13, <2>1, <3>1 DEF Queued
  <2>2. CASE cbuf # <<>>
    BY <1>11, <1>13, <2>2 DEF Queued, Ready
  <2> QED BY <2>1, <2>2
<1> QED BY <1>1, <1>4, <1>8, <1>10, <1>13, <1>14, ParsedOrder

LEMMA DesertedOrder ==
    ASSUME OneGame, SInv, Order, Game!ParseServerMessage, ~svActive PROVE Order'
<1>1. /\ todo = <<>> /\ pc = "read" /\ msg # <<>>
      /\ UNCHANGED Game!netVars /\ UNCHANGED <<svActive, spawned, sendsignon, svMessage, issued, loads>>
  BY Obeyed
<1>2. msg = Recall /\ len[netcon] = 0
  BY <1>1, BeingTold
<1>4. cbuf' = Append(cbuf, reconnect) /\ Game!Parsed /\ UNCHANGED <<signon, clMessage, clLevel>>
  BY <1>2, Obeyed, Texts
<1>5. todo' = <<>> /\ pc' = "read" /\ msg' = <<>>
  BY <1>1, <1>2, <1>4, Texts DEF Game!Parsed
<1>6. UNCHANGED <<canSend, buf, len, netcon, Game!Slot, Game!Connected>>
  BY <1>1, Still DEF SInv
<1>7. Hear' = <<>> /\ OneAtMost(netcon, "read")'
  BY <1>2, <1>5, <1>6 DEF Hear, InTransit, OneAtMost
<1>12. /\ reconnect \in Game!Commands /\ reconnect # wait /\ cbuf \in Seq(Game!Commands) /\ Hasty(cbuf)
  BY LineKinds DEF reconnect, Game!Commands, SInv, Spoken, Order, InTurn
<1>13. Hasty(cbuf')
  BY <1>4, <1>12, Appended
<1>14. InTurn' /\ Unsaid' /\ NobodyBegun'
  BY <1>1, <1>4, <1>5, <1>6, <1>13, TodoKinds, NextKinds DEF Order, InTurn, Unsaid, NobodyBegun
<1>15. Waits' /\ Deserted' /\ Plays'
  BY <1>1, <1>7 DEF Waits, Deserted, Plays, Playing
<1> QED BY <1>14, <1>15 DEF Order

LEMMA BegunOrder ==
    ASSUME OneGame, SInv, Order, Game!ParseServerMessage, svActive, Begun PROVE Order'
<1>1. /\ todo = <<>> /\ pc = "read" /\ msg # <<>>
      /\ UNCHANGED Game!netVars /\ UNCHANGED <<svActive, spawned, sendsignon, svMessage, issued, loads>>
  BY Obeyed
<1>2. Hear = msg /\ len[netcon] = 0 /\ Playing /\ Clean /\ InStep
  BY <1>1, BeingTold
<1>3. /\ msg = <<<<"update">>>> /\ Say = <<>> /\ svMessage = <<>> /\ spawned
      /\ signon \in {3, 4} /\ clLevel = loads
  BY <1>1, <1>2 DEF Begun
<1>4. Head(msg) = <<"update">> /\ Tail(msg) = <<>>
  BY <1>3
<1>5. /\ signon' = IF signon = 3 THEN 4 ELSE signon
      /\ Game!Parsed /\ UNCHANGED <<cbuf, clMessage, clLevel>>
  BY <1>4, Obeyed DEF Game!ParseUpdate
<1>6. todo' = <<>> /\ pc' = "read" /\ msg' = <<>>
  BY <1>1, <1>4, <1>5 DEF Game!Parsed
<1>7. UNCHANGED <<canSend, buf, len, netcon, Game!Slot, Game!Connected>>
  BY <1>1, Still DEF SInv
<1>8. Hear' = <<>> /\ InTransit(Game!Slot, "run")' = InTransit(Game!Slot, "run")
  BY <1>1, <1>2, <1>6, <1>7 DEF Hear, InTransit
<1>9. Say' = <<>> /\ clMessage = <<>>
  BY <1>3, <1>5, <1>8 DEF Say
<1>10. Begun'
  BY <1>1, <1>3, <1>5, <1>8, <1>9 DEF Begun
<1>11. Stages' /\ ~Recalled'
  BY <1>1, <1>3, <1>10 DEF Stages, Recalled
<1>12. Queued'
  <2>1. ~Due(1)
    BY Apart
  <2> QED BY <1>2, <1>5, <1>10, <2>1 DEF InStep, Queued
<1>13. Hasty(cbuf')
  BY <1>5 DEF Order, InTurn
<1> QED BY <1>1, <1>5, <1>9, <1>11, <1>12, <1>13, ParsedOrder

LEMMA SentOrder ==
    ASSUME OneGame, SInv, Order, Game!ParseServerMessage, svActive, NEW k \in 1 .. 3, Sent(k) PROVE Order'
<1>1. /\ todo = <<>> /\ pc = "read" /\ msg # <<>>
      /\ UNCHANGED Game!netVars /\ UNCHANGED <<svActive, spawned, sendsignon, svMessage, issued, loads>>
  BY Obeyed
<1>2. Hear = msg /\ len[netcon] = 0 /\ Playing /\ Clean /\ InStep
  BY <1>1, BeingTold
<1>3. /\ Say = <<>> /\ svMessage = <<>> /\ ~spawned /\ signon = k - 1 /\ ~Begun /\ ~Due(1)
      /\ \/ msg = Told(k, loads) /\ (k # 1 => clLevel = loads)
         \/ msg = <<<<"signon", k>>>> /\ clLevel = loads
  BY <1>2, Apart DEF Sent
<1>4. UNCHANGED <<canSend, buf, len, netcon, Game!Slot, Game!Connected>>
  BY <1>1, Still DEF SInv
<1>5. clMessage = <<>> /\ InTransit(Game!Slot, "run") = <<>>
  BY <1>3 DEF Say
<1>6. Ready(cbuf) /\ Hasty(cbuf)
  BY <1>2, <1>3 DEF InStep, Queued, Order, InTurn
<1>7. k = 1 \/ k = 2 \/ k = 3
  OBVIOUS
<1>8. Game!Parsed => /\ todo' = <<>> /\ pc' = "read" /\ msg' = Tail(msg) /\ Hear' = msg'
                     /\ InTransit(Game!Slot, "run")' = <<>>
  BY <1>1, <1>2, <1>4, <1>5 DEF Game!Parsed, Hear, InTransit
<1>9. ASSUME cbuf' = cbuf PROVE Hasty(cbuf') /\ Queued'
  BY <1>6, <1>9 DEF Queued
<1>10. ~Begun' /\ ~Recalled'
  BY <1>1, <1>3, Texts DEF Begun, Recalled
<1>11. CASE msg = <<<<"serverinfo", loads>>, <<"signon", 1>>>> /\ k = 1
  <2>1. Head(msg) = <<"serverinfo", loads>> /\ Tail(msg) = <<<<"signon", 1>>>>
    BY <1>11
  <2>2. clMessage' = <<>> /\ clLevel' = loads /\ signon' = signon /\ Game!Parsed /\ cbuf' = cbuf
    BY <2>1, Obeyed DEF Game!ParseServerinfo
  <2>3. Hear' = <<<<"signon", 1>>>> /\ Say' = <<>>
    BY <1>8, <2>1, <2>2 DEF Say
  <2>4. Sent(1)'
    BY <1>1, <1>3, <1>11, <2>2, <2>3 DEF Sent
  <2>5. Stages'
    BY <2>4 DEF Stages
  <2> QED BY <1>1, <1>9, <1>10, <2>2, <2>5, ParsedOrder
<1>12. CASE msg = <<<<"names">>, <<"signon", 3>>>> /\ k = 3
  <2>1. Head(msg) = <<"names">> /\ Tail(msg) = <<<<"signon", 3>>>>
    BY <1>12
  <2>2. /\ UNCHANGED <<cbuf, signon, clMessage, clLevel>>
        /\ IF clLevel = 0 THEN Game!HostError ELSE Game!Parsed
    BY <2>1, Obeyed DEF Game!ParseNames, Game!clientVars
  <2>3. CASE clLevel = 0
    BY <1>1, <1>4, <2>2, <2>3, ErrorOrder
  <2>4. CASE clLevel # 0
    <3>1. Game!Parsed /\ Hear' = <<<<"signon", 3>>>>
      BY <1>8, <2>1, <2>2, <2>4
    <3>2. Say' = <<>>
      BY <1>5, <1>8, <2>2, <3>1 DEF Say
    <3>3. clLevel = loads
      BY <1>3, <1>12
    <3>4. Sent(3)'
      BY <1>1, <1>3, <1>12, <2>2, <3>1, <3>2, <3>3 DEF Sent
    <3>5. Stages'
      BY <3>4 DEF Stages
    <3> QED BY <1>1, <1>5, <1>9, <1>10, <2>2, <3>1, <3>5, ParsedOrder
  <2> QED BY <2>3, <2>4
<1>13. CASE msg = <<<<"signon", k>>>> /\ clLevel = loads
  <2>1. Head(msg) = <<"signon", k>> /\ Tail(msg) = <<>>
    BY <1>13
  <2>2. ~(k <= signon)
    BY <1>3
  <2>3. signon' = k /\ clMessage' = clMessage \o Game!Reply(k) /\ Game!Parsed /\ cbuf' = cbuf /\ clLevel' = clLevel
    BY <2>1, <2>2, Obeyed DEF Game!ParseSignon
  <2>4. clMessage' = Game!Reply(k) /\ Game!Reply(k) # <<>>
    <3>1. Game!Reply(k) = <<<<"prespawn">>>> \/ Game!Reply(k) = <<<<"spawn">>>> \/ Game!Reply(k) = <<<<"begin">>>>
      BY <1>7, Texts
    <3>2. \A x : <<>> \o <<x>> = <<x>>
      OBVIOUS
    <3> QED BY <1>5, <2>3, <3>1, <3>2, Texts
  <2>5. Hear' = <<>> /\ Say' = Game!Reply(k)
    BY <1>8, <2>1, <2>3, <2>4 DEF Say
  <2>6. Asked(k)'
    BY <1>1, <1>3, <1>13, <2>3, <2>5 DEF Asked
  <2>7. Stages'
    BY <2>6 DEF Stages
  <2> QED BY <1>1, <1>5, <1>9, <1>10, <2>3, <2>7, ParsedOrder
<1>14. \/ msg = <<<<"serverinfo", loads>>, <<"signon", 1>>>> /\ k = 1
       \/ msg = <<<<"names">>, <<"signon", 3>>>> /\ k = 3
       \/ msg = <<<<"signon", k>>>> /\ clLevel = loads
  BY <1>3, <1>7, Texts
<1> QED BY <1>11, <1>12, <1>13, <1>14

LEMMA ParseServerMessageOrder ==
    ASSUME OneGame, SInv, Order, Game!ParseServerMessage PROVE Order'
<1>1. todo = <<>> /\ pc = "read" /\ msg # <<>>
  BY Obeyed
<1>2. svActive => Recalled \/ Begun \/ \E k \in 1 .. 3 : Sent(k)
  BY <1>1, BeingTold
<1> QED BY <1>2, RecalledOrder, DesertedOrder, BegunOrder, SentOrder

\* What is left to do when there is a client.
LEMMA AgendaFacts ==
    ASSUME NEW t, NEW c \in BOOLEAN, NEW a \in BOOLEAN, NEW o, Agenda(t, c, a, o), t # <<>>
    PROVE  /\ c /\ Head(t)[1] = "shutdown" => t = <<shutdown, hangup>>
           /\ c => Head(t)[1] # "drop" /\ Head(t)[1] # "dial"
           /\ c /\ Head(t)[1] = "notify" => a /\ t = <<notify, spawn(o)>>
           /\ c /\ Head(t)[1] = "spawn" => a /\ t = <<spawn(o)>>
           /\ Head(t)[1] = "reconnect" => t = <<reconnect>>
<1> USE DEF hangup, close, shutdown, drop, notify, dial, spawn, reconnect
<1>1. CASE t \in {<<hangup, dial>>, <<shutdown, hangup>>}
  BY <1>1
<1>2. CASE t \in {<<>>, <<<<"reconnect">>>>, <<hangup, shutdown>>,
                  <<hangup, shutdown, notify, spawn(o), hangup, dial>>}
  BY <1>2
<1>3. CASE t \in {<<close, shutdown>>, <<close, dial>>,
                   <<close, shutdown, notify, spawn(o), hangup, dial>>}
  BY <1>3
<1>4. CASE ~c /\ t = <<dial>>
  BY <1>4
<1>5. CASE t = <<hangup>>
  BY <1>5
<1>6. CASE ~c /\ t \in {<<shutdown, shutdown>>, <<shutdown, dial>>,
                        <<shutdown, shutdown, notify, spawn(o), hangup, dial>>}
  BY <1>6
<1>7. CASE ~c /\ t \in {<<drop, shutdown>>, <<shutdown>>, <<drop, dial>>, <<drop, hangup>>,
                          <<drop, shutdown, notify, spawn(o), hangup, dial>>,
                          <<shutdown, notify, spawn(o), hangup, dial>>,
                          <<notify, spawn(o), hangup, dial>>, <<spawn(o), hangup, dial>>}
  BY <1>7
<1>8. CASE t \in {<<hangup, drop, hangup>>, <<close, drop, hangup>>, <<close>>}
  BY <1>8
<1>9. CASE a /\ t \in {<<notify, spawn(o)>>, <<spawn(o)>>}
  BY <1>9
<1> QED BY <1>1, <1>2, <1>3, <1>4, <1>5, <1>6, <1>7, <1>8, <1>9 DEF Agenda

LEMMA TodoOf ==
    ASSUME SInv, Game!Connected, todo # <<>>
    PROVE  /\ Head(todo)[1] = "shutdown" => todo = <<shutdown, hangup>>
           /\ Head(todo)[1] # "drop" /\ Head(todo)[1] # "dial"
           /\ Head(todo)[1] = "notify" => svActive /\ \E o \in Game!Outcomes : todo = <<notify, spawn(o)>>
           /\ Head(todo)[1] = "spawn" => svActive /\ \E o \in Game!Outcomes : todo = <<spawn(o)>>
           /\ Head(todo)[1] = "reconnect" => todo = <<reconnect>>
<1>1. PICK o \in Game!Outcomes : Agenda(todo, Game!Connected, svActive, o)
  BY DEF SInv, Planned
<1>2. PICK c \in BOOLEAN : c = Game!Connected /\ c
  OBVIOUS
<1>3. Agenda(todo, c, svActive, o) /\ svActive \in BOOLEAN
  BY <1>1, <1>2 DEF SInv, Typed
<1>4. /\ Head(todo)[1] = "shutdown" => todo = <<shutdown, hangup>>
      /\ Head(todo)[1] # "drop" /\ Head(todo)[1] # "dial"
      /\ Head(todo)[1] = "notify" => svActive /\ todo = <<notify, spawn(o)>>
      /\ Head(todo)[1] = "spawn" => svActive /\ todo = <<spawn(o)>>
      /\ Head(todo)[1] = "reconnect" => todo = <<reconnect>>
  BY <1>2, <1>3, AgendaFacts, Zenon
<1> QED BY <1>4

LEMMA HangupOrder == ASSUME OneGame, SInv, Order, Game!Hangup PROVE Order'
<1>1. /\ todo # <<>> /\ Head(todo)[1] = "hangup"
      /\ UNCHANGED <<pc, msg, cbuf, clLevel, svActive, spawned, sendsignon, svMessage, issued, loads>>
  BY DEF Game!Hangup, Game!Op, Game!After, Game!serverVars, Game!slotVars
<1>2. InTurn'
  BY <1>1 DEF Order, InTurn
<1>3. CASE ~Game!Connected
  <2>1. UNCHANGED <<Game!netVars, clMessage>>
    BY <1>3 DEF Game!Hangup
  <2>2. UNCHANGED <<Game!Connected, Game!Slot>>
    BY <2>1, Still DEF SInv
  <2>3. Unsaid' /\ NobodyBegun'
    BY <1>1, <1>3, <2>1, <2>2 DEF Order, Unsaid, NobodyBegun
  <2> QED BY <1>2, <1>3, <2>2, <2>3, Moot
<1>4. CASE Game!Connected
  <2>1. /\ clMessage' = <<>> /\ todo' = <<close>> \o Tail(todo)
        /\ IF Game!Linked(netcon)
             THEN Game!Net!SendUnreliableMessage(netcon, <<<<"disconnect">>>>)
             ELSE UNCHANGED Game!netVars
    BY <1>4 DEF Game!Hangup, Game!After, close
  <2>2. Game!Slot' = Game!Slot
    <3>1. CASE ~Game!Linked(netcon)
      BY <2>1, <3>1, Still DEF SInv
    <3>2. CASE Game!Linked(netcon)
      <4>1. <<<<"disconnect">>>> \in Seq(Talk)
        BY DEF Talk
      <4>2. netcon \in {netcon, Game!Slot} \ {None}
        BY <1>4 DEF Game!Connected
      <4>3. Game!Net!SendUnreliableMessage(netcon, <<<<"disconnect">>>>)
        BY <2>1, <3>2
      <4> QED BY <4>1, <4>2, <4>3, SendEffect DEF SInv, Game!Slot
    <3> QED BY <3>1, <3>2
  <2>3. todo' # <<>> /\ Head(todo') = close
    <3>1. PICK o \in Game!Outcomes : Agenda(todo, Game!Connected, svActive, o)
      BY DEF SInv, Planned
    <3>2. svActive \in BOOLEAN /\ Game!Connected \in BOOLEAN
      BY <1>4 DEF SInv, Typed
    <3> QED BY <1>1, <1>4, <2>1, <3>1, <3>2, HangupNext
  <2>4. ~Calm'
    BY <2>3, NextKinds
  <2>5. Unsaid' /\ NobodyBegun'
    BY <1>1, <2>1, <2>2 DEF Order, Unsaid, NobodyBegun
  <2> QED BY <1>2, <2>4, <2>5, Moot
<1> QED BY <1>3, <1>4

LEMMA CloseClientOrder == ASSUME OneGame, SInv, Order, Game!CloseClient PROVE Order'
<1>1. /\ todo # <<>> /\ Head(todo) = close /\ Game!Net!ClientClose
      /\ UNCHANGED <<pc, msg, cbuf, clMessage, svActive, spawned, svMessage, loads>>
  <2>1. /\ todo # <<>> /\ Head(todo)[1] = "close" /\ Game!Net!ClientClose
        /\ UNCHANGED <<pc, msg, cbuf, clMessage, svActive, spawned, svMessage, loads>>
    BY DEF Game!CloseClient, Game!Op, Game!After, Game!serverVars, Game!slotVars
  <2>2. PICK o \in Game!Outcomes : Agenda(todo, Game!Connected, svActive, o)
    BY DEF SInv, Planned
  <2>3. Head(todo) = close
    BY <2>1, <2>2 DEF Agenda, hangup, close, shutdown, drop, notify, dial, spawn
  <2> QED BY <2>1, <2>3
<1>2. ~Game!Connected' /\ Game!Slot' = Game!Slot
  BY <1>1, CloseEffect DEF SInv, Game!Connected, Game!Slot
<1>3. clMessage = <<>>
  BY <1>1 DEF Order, Unsaid, Closing
<1>4. InTurn' /\ Unsaid' /\ NobodyBegun'
  BY <1>1, <1>2, <1>3 DEF Order, InTurn, Unsaid, NobodyBegun
<1> QED BY <1>2, <1>4, Moot

LEMMA ShutdownOrder == ASSUME OneGame, SInv, Order, Game!Shutdown PROVE Order'
<1>1. /\ todo # <<>> /\ Head(todo)[1] = "shutdown" /\ svActive' = FALSE
      /\ todo' = (CASE ~svActive -> <<>>
                    [] svActive /\ Game!Connected -> <<hangup, drop>>
                    [] svActive /\ ~Game!Connected -> <<drop>>) \o Tail(todo)
      /\ UNCHANGED <<Game!netVars, pc, msg, cbuf, clMessage, spawned>>
  BY DEF Game!Shutdown, Game!Op, Game!After, Game!clientVars, Game!slotVars, hangup, drop
<1>2. UNCHANGED <<Game!Connected, Game!Slot>>
  BY <1>1, Still DEF SInv
<1>3. InTurn' /\ NobodyBegun'
  BY <1>1, <1>2 DEF Order, InTurn, NobodyBegun
<1>4. CASE ~Game!Connected
  <2>1. Unsaid'
    BY <1>1, <1>4 DEF Order, Unsaid
  <2> QED BY <1>2, <1>3, <1>4, <2>1, Moot
<1>5. CASE Game!Connected
  <2>1. todo = <<shutdown, hangup>> /\ Tail(todo) = <<hangup>>
    <3>1. todo = <<shutdown, hangup>>
      BY <1>1, <1>5, TodoOf
    <3>2. \A x, y : Tail(<<x, y>>) = <<y>>
      OBVIOUS
    <3> QED BY <3>1, <3>2
  <2>2. svActive \in BOOLEAN
    BY DEF SInv, Typed
  <2>3. todo' = <<>> \o <<hangup>> \/ todo' = <<hangup, drop>> \o <<hangup>>
    <3>1. ~svActive => todo' = <<>> \o <<hangup>>
      BY <1>1, <2>1
    <3>2. svActive => todo' = <<hangup, drop>> \o <<hangup>>
      BY <1>1, <1>5, <2>1
    <3> QED BY <2>2, <3>1, <3>2
  <2>4. todo' # <<>> /\ Head(todo') = hangup
    <3>1. \A x : <<>> \o <<x>> = <<x>>
      OBVIOUS
    <3>2. \A x, y : <<x, y>> \o <<x>> = <<x, y, x>>
      BY Prepend
    <3>3. todo' = <<hangup>> \/ todo' = <<hangup, drop, hangup>>
      BY <2>3, <3>1, <3>2
    <3> QED BY <3>3
  <2>5. ~Calm'
    BY <2>4, NextKinds
  <2>6. ~Closing'
    BY <2>4 DEF Closing, hangup, close
  <2>7. Unsaid'
    BY <1>1, <1>2, <2>6 DEF Order, Unsaid
  <2> QED BY <1>3, <2>5, <2>7, Moot
<1> QED BY <1>4, <1>5

LEMMA DropClientsOrder == ASSUME OneGame, SInv, Order, Game!DropClients PROVE Order'
<1>1. /\ todo # <<>> /\ Head(todo)[1] = "drop"
      /\ IF Game!Slot # None THEN Game!Net!DropClient(1) ELSE UNCHANGED Game!netVars
      /\ spawned' = FALSE /\ UNCHANGED <<pc, msg, cbuf, clMessage>>
  BY DEF Game!DropClients, Game!Op, Game!After, Game!clientVars
<1>2. ~Game!Connected
  BY <1>1, TodoOf
<1>3. netcon' = netcon
  BY <1>1, DropEffect, Still DEF SInv
<1>4. ~Game!Connected'
  BY <1>2, <1>3 DEF Game!Connected
<1>5. InTurn' /\ Unsaid' /\ NobodyBegun'
  BY <1>1, <1>2 DEF Order, InTurn, Unsaid, NobodyBegun
<1> QED BY <1>4, <1>5, Moot

LEMMA DialOrder == ASSUME OneGame, SInv, Order, Game!Dial PROVE Order'
<1>1. /\ todo # <<>> /\ Game!Net!Connect /\ signon' = 0
      /\ UNCHANGED <<pc, msg, cbuf, clMessage, clLevel, svActive, spawned, svMessage, loads>>
  BY DEF Game!Dial, Game!Op, Game!After, Game!serverVars, Game!slotVars
<1>2. /\ netcon = None /\ Game!Slot = None /\ Game!Slot' = None
      /\ netcon' \in Sockets /\ len'[netcon'] = 0
  BY <1>1, DialEffect DEF SInv
<1>3. clMessage = <<>> /\ msg = <<>> /\ ~spawned
  BY <1>1, <1>2 DEF Order, Unsaid, NobodyBegun, Game!Connected, SInv, Placed
<1>4. Fresh'
  BY <1>1, <1>2, <1>3 DEF Fresh
<1>5. Hear' = <<>> /\ OneAtMost(netcon, "read")'
  BY <1>1, <1>2, <1>3 DEF Hear, InTransit, OneAtMost
<1>6. InTurn' /\ Unsaid' /\ NobodyBegun'
  BY <1>1, <1>3 DEF Order, InTurn, Unsaid, NobodyBegun
<1>7. Waits' /\ Deserted' /\ Plays'
  BY <1>2, <1>4, <1>5 DEF Waits, Deserted, Plays, Playing
<1> QED BY <1>6, <1>7 DEF Order

LEMMA DialFailsOrder == ASSUME OneGame, SInv, Order, Game!DialFails PROVE Order'
<1>1. /\ Game!Net!ConnectNoClient /\ Game!HostError /\ UNCHANGED <<cbuf, clMessage, spawned>>
  BY DEF Game!DialFails, Game!clientVars, Game!serverVars, Game!slotVars
<1>2. Game!Slot' = Game!Slot /\ Game!Connected' = Game!Connected
  BY <1>1, DialFailsEffect DEF SInv, Game!Slot, Game!Connected
<1> QED BY <1>1, <1>2, ErrorOrder

LEMMA ReconnectOrder == ASSUME OneGame, SInv, Order, Game!Reconnect PROVE Order'
<1>1. /\ todo # <<>> /\ Head(todo)[1] = "reconnect" /\ signon' = 0 /\ UNCHANGED Game!netVars
      /\ UNCHANGED <<pc, msg, cbuf, clMessage, clLevel, svActive, spawned, svMessage, loads>>
      /\ todo' = <<>> \o Tail(todo)
  BY DEF Game!Reconnect, Game!Op, Game!After, Game!serverVars, Game!slotVars
<1>2. UNCHANGED <<canSend, buf, len, netcon, Game!Slot, Game!Connected>>
  BY <1>1, Still DEF SInv
<1>3. CASE ~Game!Connected
  <2>1. InTurn' /\ Unsaid' /\ NobodyBegun'
    BY <1>1, <1>2, <1>3 DEF Order, InTurn, Unsaid, NobodyBegun
  <2> QED BY <1>2, <1>3, <2>1, Moot
<1>4. CASE Game!Connected
  <2>1. todo = <<reconnect>> /\ todo' = <<>>
    <3>1. todo = <<reconnect>>
      BY <1>1, <1>4, TodoOf
    <3>2. Tail(todo) = <<>> /\ <<>> \o <<>> = <<>>
      BY <3>1
    <3> QED BY <1>1, <3>1, <3>2
  <2>2. /\ Hear' = Hear /\ Say' = Say /\ Clean' = Clean
        /\ OneAtMost(netcon, "read")' = OneAtMost(netcon, "read")
    BY <1>1, TalkStill DEF SInv
  <2>3. InTurn' /\ Unsaid' /\ NobodyBegun'
    BY <1>1, <1>2, <2>1, NextKinds DEF Order, InTurn, Unsaid, NobodyBegun
  <2>4. Waits'
    BY <1>1, <1>2, <2>1, TodoKinds DEF Order, Waits, Fresh
  <2>5. Deserted'
    BY <1>1, <1>2, <2>1, <2>2, TodoKinds DEF Order, Deserted
  <2>6. ASSUME Playing' PROVE Clean' /\ InStep'
    <3>1. Playing /\ Calm
      BY <1>1, <1>2, <2>1, <2>6, TodoKinds DEF Playing
    <3>2. Clean /\ Due(1) /\ Ready(cbuf)
      BY <2>1, <3>1 DEF Order, Plays
    <3>3. Due(1)' /\ ~Recalled' /\ ~Begun'
      <4>1. Due(1)'
        BY <1>1, <2>2, <3>2 DEF Due
      <4>2. Hear' = <<>> /\ ~spawned'
        BY <1>1, <2>2, <3>2 DEF Due
      <4> QED BY <4>1, <4>2, Texts DEF Recalled, Begun
    <3>4. Stages'
      BY <3>3 DEF Stages
    <3> QED BY <1>1, <2>2, <3>2, <3>3, <3>4 DEF InStep, Queued
  <2>7. Plays'
    BY <2>1, <2>6, NextKinds DEF Plays
  <2> QED BY <2>3, <2>4, <2>5, <2>7 DEF Order
<1> QED BY <1>3, <1>4

LEMMA NotifyOrder == ASSUME OneGame, SInv, Order, Game!Notify PROVE Order'
<1>1. /\ todo # <<>> /\ Head(todo)[1] = "notify" /\ todo' = <<>> \o Tail(todo)
      /\ IF svActive /\ Game!Slot # None /\ Game!Linked(Game!Slot)
           THEN Game!Net!SendMessage(Game!Slot, Recall)
           ELSE UNCHANGED Game!netVars
      /\ signon' = IF svActive THEN 0 ELSE signon
      /\ UNCHANGED <<pc, msg, cbuf, clMessage, clLevel, svActive, spawned, svMessage, loads>>
  BY DEF Game!Notify, Game!Op, Game!After, Game!serverVars, Game!slotVars, Recall, reconnect
<1>2. InTurn'
  BY <1>1 DEF Order, InTurn
<1>3. CASE ~Game!Connected
  <2>1. ~(Game!Slot # None /\ Game!Linked(Game!Slot))
    BY <1>3, EndFacts DEF SInv, Game!Connected
  <2>2. UNCHANGED Game!netVars
    BY <1>1, <2>1
  <2>3. UNCHANGED <<Game!Connected, Game!Slot>>
    BY <2>2, Still DEF SInv
  <2>4. Unsaid' /\ NobodyBegun'
    BY <1>1, <1>3, <2>3 DEF Order, Unsaid, NobodyBegun
  <2> QED BY <1>2, <1>3, <2>3, <2>4, Moot
<1>4. CASE Game!Connected
  <2>1. svActive /\ \E o \in Game!Outcomes : todo = <<notify, spawn(o)>>
    BY <1>1, <1>4, TodoOf
  <2>2. PICK o \in Game!Outcomes : todo = <<notify, spawn(o)>>
    BY <2>1
  <2>3. todo' = <<spawn(o)>>
    <3>1. Tail(todo) = <<spawn(o)>> /\ \A x : <<>> \o <<x>> = <<x>>
      BY <2>2
    <3> QED BY <1>1, <3>1
  <2>4. /\ Recalling' /\ Calm' /\ ~Quiet' /\ ~Changing' /\ ~Closing' /\ todo' # <<>> /\ todo' # <<reconnect>>
    BY <2>3, NextKinds
  <2>5. Changing /\ Calm
    BY <2>2 DEF Changing, Calm
  <2>6. signon' = 0 /\ msg = <<>> /\ todo # <<>>
    BY <1>1, <2>1 DEF SInv, Placed
  <2>7. Deserted'
    BY <2>4 DEF Deserted
  <2>8. CASE Game!Slot = None
    <3>1. UNCHANGED Game!netVars
      BY <1>1, <2>8
    <3>2. UNCHANGED <<canSend, buf, len, netcon, Game!Slot, Game!Connected>>
      BY <3>1, Still DEF SInv
    <3>3. Unsaid' /\ NobodyBegun'
      BY <1>1, <2>4, <3>2 DEF Order, Unsaid, NobodyBegun
    <3>4. Waits'
      BY <1>1, <2>5, <2>6, <3>2 DEF Order, Waits, Fresh
    <3>5. Plays'
      BY <2>8, <3>2 DEF Plays, Playing
    <3> QED BY <1>2, <2>7, <3>3, <3>4, <3>5 DEF Order
  <2>9. CASE Game!Slot # None
    <3>1. Playing
      BY <1>4, <2>1, <2>9 DEF Playing
    <3>2. /\ Clean /\ Begun /\ Hear = <<>> /\ Ready(cbuf) /\ pc = "commands"
      BY <2>5, <2>6, <3>1 DEF Order, Plays
    <3>3. /\ netcon \in Sockets /\ Game!Slot \in Sockets /\ netcon # Game!Slot
          /\ netcon # None /\ driverdata[Game!Slot] = netcon /\ Game!Linked(Game!Slot)
      BY <3>1, Opposite DEF SInv
    <3>4. len[netcon] = 0
      BY <3>2 DEF Clean, OneAtMost, Hear, InTransit
    <3>5. Recall \in Seq(Talk) /\ Recall # <<>>
      BY Texts DEF Recall, reconnect, Talk, News
    <3>6. PICK s, p, r : s = Game!Slot /\ p = Recall /\ r = netcon
      OBVIOUS
    <3>7. /\ s \in {netcon, Game!Slot} \ {None} /\ p \in Seq(Talk) /\ p # <<>>
          /\ Game!Net!SendMessage(s, p)
          /\ r = driverdata[s] /\ len[r] = 0
      BY <1>1, <2>1, <2>9, <3>3, <3>4, <3>5, <3>6
    <3>8. /\ UNCHANGED <<netcon, Game!Slot, Game!Connected>>
          /\ len'[r] = 8 /\ buf'[r][0].payload = p /\ ~canSend'[s]
          /\ \A x \in Sockets : x # r => buf'[x] = buf[x] /\ len'[x] = len[x]
      BY <3>7, MessagePut DEF SInv
    <3>9. /\ len'[netcon'] = 8 /\ buf'[netcon'][0].payload = Recall /\ ~canSend'[Game!Slot']
          /\ buf'[Game!Slot'] = buf[Game!Slot] /\ len'[Game!Slot'] = len[Game!Slot]
      BY <3>3, <3>6, <3>8
    <3>10. Hear' = Recall
      BY <3>9 DEF Hear, InTransit
    <3>11. InTransit(Game!Slot, "run")' = InTransit(Game!Slot, "run")
      BY <1>1, <3>9 DEF InTransit
    <3>12. Say' = <<>> /\ svMessage = <<>>
      BY <1>1, <3>2, <3>11 DEF Say, Begun
    <3>13. Clean'
      BY <1>1, <2>6, <3>2, <3>5, <3>9, <3>11 DEF Clean, OneAtMost
    <3>14. Plays'
      BY <1>1, <2>4, <2>6, <3>2, <3>9, <3>10, <3>12, <3>13 DEF Plays
    <3>15. Unsaid' /\ NobodyBegun' /\ Waits'
      BY <1>1, <2>4, <2>9, <3>8 DEF Order, Unsaid, NobodyBegun, Waits
    <3> QED BY <1>2, <2>7, <3>14, <3>15 DEF Order
  <2> QED BY <2>8, <2>9
<1> QED BY <1>3, <1>4

LEMMA SpawnServerOrder == ASSUME OneGame, SInv, Order, Game!SpawnServer PROVE Order'
<1>1. /\ todo # <<>> /\ Head(todo)[1] = "spawn" /\ signon' = 0 /\ clLevel' = 0
      /\ UNCHANGED <<clMessage, cbuf>> /\ UNCHANGED Game!netVars
  BY DEF Game!SpawnServer, Game!Op, Game!ClearMemory
<1>2. UNCHANGED <<canSend, buf, len, netcon, Game!Slot, Game!Connected>>
  BY <1>1, Still DEF SInv
<1>3. msg = <<>> /\ pc \in {"commands", "abort"}
  BY <1>1 DEF SInv, Placed
<1>4. PICK o : Head(todo)[2] = o
  OBVIOUS
<1>5. /\ o \in Game!Outcomes
      /\ svActive' = (o = "ok")
      /\ loads' = IF o = "ok" THEN loads + 1 ELSE loads
      /\ IF o = "ok" /\ Game!Slot # None
           THEN Game!SendServerinfo(svMessage, loads + 1)
           ELSE UNCHANGED <<spawned, sendsignon, svMessage>>
      /\ o = "ok" => todo' = <<>> \o Tail(todo) /\ UNCHANGED <<pc, msg>>
      /\ o = "bad" => todo' = <<>> /\ UNCHANGED <<pc, msg>>
      /\ o = "error" => Game!HostError
  <2>1. o \in Game!Outcomes
    <3>1. PICK p \in Game!Outcomes : Agenda(todo, Game!Connected, svActive, p)
      BY DEF SInv, Planned
    <3>2. svActive \in BOOLEAN /\ Game!Connected \in BOOLEAN
      BY DEF SInv, Typed, Game!Connected
    <3>3. Head(todo)[2] = p
      BY <1>1, <3>1, <3>2, SpawnNext
    <3> QED BY <1>4, <3>3
  <2>2. svActive' = (o = "ok") /\ loads' = IF o = "ok" THEN loads + 1 ELSE loads
    BY <1>4, Zenon DEF Game!SpawnServer
  <2>3. IF o = "ok" /\ Game!Slot # None
           THEN Game!SendServerinfo(svMessage, loads + 1)
           ELSE UNCHANGED <<spawned, sendsignon, svMessage>>
    BY <1>4, Zenon DEF Game!SpawnServer, Game!slotVars
  <2>4. Head(todo)[2] = "ok" => todo' = <<>> \o Tail(todo) /\ UNCHANGED <<pc, msg>>
    BY DEF Game!SpawnServer, Game!After
  <2>5. Head(todo)[2] = "bad" => todo' = <<>> /\ UNCHANGED <<pc, msg>>
    BY DEF Game!SpawnServer
  <2>6. Head(todo)[2] = "error" => Game!HostError
    BY DEF Game!SpawnServer
  <2> QED BY <1>4, <2>1, <2>2, <2>3, <2>4, <2>5, <2>6, Zenon
<1>6. o \in {"ok", "bad", "error"}
  BY <1>5 DEF Game!Outcomes
<1>7. NobodyBegun'
  BY <1>2, <1>5 DEF Order, NobodyBegun
<1>8. CASE o = "error"
  <2>1. todo' = <<shutdown, hangup>> /\ pc' = "abort"
    BY <1>5, <1>8 DEF Game!HostError, Game!ErrorOps, shutdown, hangup
  <2>2. ~Calm' /\ ~Closing'
    BY <2>1, NextKinds DEF Closing, shutdown, close
  <2>3. InTurn' /\ Unsaid'
    BY <1>1, <1>2, <2>1, <2>2 DEF Order, InTurn, Unsaid
  <2> QED BY <1>7, <2>2, <2>3, Moot
<1>9. CASE ~Game!Connected /\ o # "error"
  <2>1. pc' = pc
    BY <1>5, <1>6, <1>9
  <2>2. InTurn' /\ Unsaid'
    BY <1>1, <1>2, <1>9, <2>1 DEF Order, InTurn, Unsaid
  <2> QED BY <1>2, <1>7, <1>9, <2>2, Moot
<1>10. CASE Game!Connected /\ o # "error"
  <2>1. svActive /\ \E p \in Game!Outcomes : todo = <<spawn(p)>>
    BY <1>1, <1>10, TodoOf
  <2>2. PICK p \in Game!Outcomes : todo = <<spawn(p)>>
    BY <2>1
  <2>3. todo' = <<>> /\ UNCHANGED <<pc, msg>>
    <3>1. Tail(todo) = <<>> /\ <<>> \o <<>> = <<>>
      BY <2>2
    <3> QED BY <1>5, <1>6, <1>10, <3>1
  <2>4. Recalling /\ Calm
    BY <2>2 DEF Recalling, Calm
  <2>5. /\ Hear' = Hear /\ Say' = Say /\ Clean' = Clean
        /\ OneAtMost(netcon, "read")' = OneAtMost(netcon, "read")
    BY <1>1, <2>3, TalkStill DEF SInv
  <2>6. InTurn' /\ Unsaid'
    BY <1>1, <1>2, <2>3, NextKinds, TodoKinds DEF Order, InTurn, Unsaid
  <2>7. Game!Slot = None => Fresh
    BY <1>10, <2>1, <2>4 DEF Order, Waits
  <2>8. Waits'
    BY <1>1, <1>2, <2>3, <2>7 DEF Waits, Fresh
  <2>9. Playing => Clean /\ Hear = Recall /\ Say = <<>> /\ svMessage = <<>> /\ ~canSend[Game!Slot]
                   /\ Ready(cbuf) /\ pc = "commands"
    BY <1>1, <2>4 DEF Order, Plays
  <2>10. Game!Slot # None => Playing
    BY <1>10, <2>1 DEF Playing
  <2>11. Deserted'
    <3>1. CASE Game!Slot = None
      BY <1>3, <2>5, <2>7, <3>1 DEF Deserted, Fresh, Hear, InTransit, OneAtMost
    <3>2. CASE Game!Slot # None
      BY <2>5, <2>9, <2>10, <3>2 DEF Deserted, Clean
    <3> QED BY <3>1, <3>2
  <2>12. ASSUME Playing' PROVE Clean' /\ InStep'
    <3>1. Game!Slot # None /\ o = "ok"
      BY <1>2, <1>5, <1>6, <2>12 DEF Playing
    <3>2. /\ Clean /\ Hear = Recall /\ Say = <<>> /\ svMessage = <<>> /\ ~canSend[Game!Slot]
          /\ Ready(cbuf) /\ pc = "commands"
      BY <2>9, <2>10, <3>1
    <3>3. svMessage' = svMessage \o <<<<"serverinfo", loads + 1>>, <<"signon", 1>>>> /\ spawned' = FALSE /\ loads' = loads + 1
      BY <1>5, <3>1 DEF Game!SendServerinfo
    <3>4. svMessage' = Told(1, loads')
      <4>1. svMessage' = <<>> \o <<<<"serverinfo", loads'>>, <<"signon", 1>>>>
        BY <3>2, <3>3
      <4>2. PICK x, y : x = <<"serverinfo", loads'>> /\ y = <<"signon", 1>>
        OBVIOUS
      <4>3. svMessage' = <<x, y>>
        BY <4>1, <4>2, EmptyJoined
      <4> QED BY <4>2, <4>3, Texts
    <3>5. Recalled'
      BY <1>1, <2>5, <3>2, <3>3, <3>4 DEF Recalled
    <3>6. ~Begun' /\ Stages'
      BY <3>3, <3>5 DEF Begun, Stages
    <3>7. ~canSend'[Game!Slot'] /\ Queued' /\ Clean'
      BY <1>1, <1>2, <2>3, <2>5, <3>2 DEF Queued
    <3> QED BY <3>5, <3>6, <3>7 DEF InStep
  <2>13. Plays'
    BY <2>3, <2>12, NextKinds DEF Plays
  <2> QED BY <1>7, <2>6, <2>8, <2>11, <2>13 DEF Order
<1> QED BY <1>8, <1>9, <1>10

LEMMA GameNextOrder ==
    ASSUME OneGame, OrdinaryGame, SInv, Order, [Game!Next]_Game!vars PROVE Order'
<1>1. CASE UNCHANGED Game!vars
  <2>1. /\ UNCHANGED Game!netVars
        /\ UNCHANGED <<pc, todo, cbuf, msg, signon, clMessage, clLevel>>
        /\ UNCHANGED <<svActive, spawned, sendsignon, svMessage, issued, loads>>
    BY <1>1 DEF Game!vars, Game!clientVars, Game!serverVars, Game!slotVars
  <2>2. /\ Hear' = Hear /\ Say' = Say /\ Clean' = Clean
        /\ OneAtMost(netcon, "read")' = OneAtMost(netcon, "read")
        /\ UNCHANGED <<canSend, buf, len, netcon, Game!Slot, Game!Connected>>
    BY <2>1, TalkStill DEF SInv
  <2>3. /\ Recalled' = Recalled /\ Begun' = Begun /\ Stages' = Stages /\ \A k : Due(k)' = Due(k)
    BY <2>1, <2>2, StageStill
  <2>4. Quiet' = Quiet /\ Changing' = Changing /\ Recalling' = Recalling /\ Closing' = Closing
    BY <2>1 DEF Quiet, Changing, Recalling, Closing
  <2>5. Calm' = Calm
    BY <2>4 DEF Calm
  <2>6. InTurn' /\ Unsaid' /\ NobodyBegun'
    BY <2>1, <2>2, <2>4 DEF Order, InTurn, Unsaid, NobodyBegun
  <2>7. Waits' /\ Deserted'
    BY <2>1, <2>2, <2>4, <2>5 DEF Order, Waits, Fresh, Deserted
  <2>8. Playing' = Playing
    BY <2>1, <2>2 DEF Playing
  <2>9. Queued' = Queued
    BY <2>1, <2>3 DEF Queued, Ready
  <2>10. InStep' = InStep
    BY <2>1, <2>2, <2>3, <2>9 DEF InStep
  <2>11. Plays' = Plays
    BY <2>1, <2>2, <2>3, <2>4, <2>5, <2>8, <2>10 DEF Plays
  <2>12. Plays'
    BY <2>11 DEF Order
  <2> QED BY <2>6, <2>7, <2>12 DEF Order
<1>2. CASE Game!Type
  BY <1>2, TypeOrder
<1>3. CASE Game!Operation
  BY <1>3, HangupOrder, CloseClientOrder, ShutdownOrder, DropClientsOrder, NotifyOrder,
     SpawnServerOrder, DialOrder, DialFailsOrder, ReconnectOrder, Zenon DEF Game!Operation
<1>4. CASE Game!Frame
  BY <1>3, <1>4, NoInputOrder, LongJumpOrder, ExecuteCommandOrder, CommandsDoneOrder, SendCmdOrder,
     AcceptOrder, NothingToAcceptOrder, ReadCommandOrder, AllReadOrder, ServerCommandOrder, PhysicsOrder,
     ExitOrder, ProgramErrorOrder, DatagramOrder, DeliverOrder, ReadServerMessageOrder,
     ParseServerMessageOrder, Zenon DEF Game!Frame
<1> QED BY <1>1, <1>2, <1>4, Zenon DEF Game!Next

LEMMA GameInitOrder == ASSUME OneGame, Game!Init PROVE Order
<1>1. /\ pc = "input" /\ todo = <<>> /\ cbuf = <<>> /\ msg = <<>> /\ clMessage = <<>> /\ spawned = FALSE
  BY DEF Game!Init
<1>2. ~Game!Connected
  BY GameInit DEF Init, Game!Connected
<1>3. InTurn
  BY <1>1 DEF InTurn, Hasty
<1>4. Unsaid /\ NobodyBegun
  BY <1>1 DEF Unsaid, NobodyBegun
<1>5. Waits /\ Deserted /\ Plays
  BY <1>2 DEF Waits, Deserted, Plays, Playing
<1> QED BY <1>3, <1>4, <1>5 DEF Order

\* What a client in the middle of the handshake reads next.
LEMMA OrderInStep == ASSUME OneGame, SInv, Order PROVE Game!SignonInStep
<1> SUFFICES ASSUME todo = <<>>, pc = "read", msg # <<>>, Head(msg)[1] = "signon"
             PROVE  Head(msg)[2] = signon + 1
  BY DEF Game!SignonInStep, Game!At
<1>1. /\ Hear = msg
      /\ ~svActive => msg = Recall
      /\ svActive => Recalled \/ Begun \/ \E k \in 1 .. 3 : Sent(k)
  BY BeingTold
<1>2. msg # Recall
  BY DEF Recall
<1>3. svActive
  BY <1>1, <1>2
<1>4. ~Recalled
  BY <1>1, <1>2 DEF Recalled
<1>5. ~Begun
  BY <1>1 DEF Begun
<1>6. PICK k \in 1 .. 3 : Sent(k)
  BY <1>1, <1>3, <1>4, <1>5
<1>7. signon = k - 1 /\ (msg = Told(k, loads) \/ msg = <<<<"signon", k>>>>)
  BY <1>1, <1>6 DEF Sent
<1>8. msg = <<<<"signon", k>>>>
  <2>1. CASE msg = Told(k, loads)
    <3>1. k = 1 => Head(msg)[1] = "serverinfo"
      BY <2>1, Texts
    <3>2. k = 3 => Head(msg)[1] = "names"
      BY <2>1, Texts
    <3>3. k = 2 \/ k = 1 \/ k = 3
      OBVIOUS
    <3>4. k = 2
      BY <3>1, <3>2, <3>3
    <3> QED BY <2>1, <3>4, Texts
  <2> QED BY <1>7, <2>1
<1>9. Head(msg)[2] = k
  BY <1>8
<1> QED BY <1>7, <1>9

LEMMA OrderBegun == ASSUME OneGame, SInv, Order PROVE Game!BegunInOrder
<1> SUFFICES ASSUME todo = <<>>, svActive, spawned PROVE signon >= 3 /\ clLevel = loads
  BY DEF Game!BegunInOrder
<1>1. Game!Slot # None
  BY DEF Order, NobodyBegun
<1>2. Game!Connected
  <2>1. PICK o \in Game!Outcomes : Agenda(todo, Game!Connected, svActive, o)
    BY DEF SInv, Planned
  <2> QED BY <2>1 DEF Agenda
<1>3. Playing /\ Calm
  BY <1>1, <1>2, TodoKinds DEF Playing
<1>4. Stages
  BY <1>3 DEF Order, Plays, InStep
<1>5. Begun
  BY <1>4, Apart
<1> QED BY <1>5 DEF Begun

\* The client is never given a stage of the sign-on but the next one.  A level that
\* follows another tells the client to start again and is silent until the client
\* has obeyed (canSend); Host_Spawn_f clears what it finds in the message; and a
\* command text in which no wait comes between keeps the order of both sides.
THEOREM SignonGoesInStep == OneGame /\ OrdinaryGame => (Game!Spec => []Game!SignonInStep)
<1> SUFFICES ASSUME OneGame, OrdinaryGame PROVE Game!Spec => []Game!SignonInStep
  OBVIOUS
<1>1. Game!Init => SInv /\ Order
  BY GameInit, GameInitOrder
<1>2. SInv /\ Order /\ [Game!Next]_Game!vars => (SInv /\ Order)'
  BY GameNextSInv, GameNextOrder
<1>3. SInv /\ Order => Game!SignonInStep
  BY OrderInStep
<1> QED BY <1>1, <1>2, <1>3, PTL DEF Game!Spec

\* A player who takes part in a level (spawned) has been told that level's
\* serverinfo and all its stages, however the level came to follow the one before:
\* the handshake of a level that is left is never finished in the next one.
THEOREM BegunAlwaysInOrder == OneGame /\ OrdinaryGame => (Game!Spec => []Game!BegunInOrder)
<1> SUFFICES ASSUME OneGame, OrdinaryGame PROVE Game!Spec => []Game!BegunInOrder
  OBVIOUS
<1>1. Game!Init => SInv /\ Order
  BY GameInit, GameInitOrder
<1>2. SInv /\ Order /\ [Game!Next]_Game!vars => (SInv /\ Order)'
  BY GameNextSInv, GameNextOrder
<1>3. SInv /\ Order => Game!BegunInOrder
  BY OrderBegun
<1> QED BY <1>1, <1>2, <1>3, PTL DEF Game!Spec

-----------------------------------------------------------------------------
(* What a session does to the network, and what keeps it going.              *)

Says(s, p) == Game!Net!SendMessage(s, p) \/ Game!Net!SendUnreliableMessage(s, p)

\* Every step of the game makes one call to the network or none.
LEMMA Calls ==
    ASSUME OneGame, SInv, Game!Next
    PROVE  \/ UNCHANGED Game!netVars
           \/ ~Closing /\ Game!Slot # None /\ \E p \in Seq(Talk) : Says(Game!Slot, p)
           \/ ~Closing /\ Game!Slot # None /\ Game!Net!GetMessage(Game!Slot)
           \/ ~Closing /\ netcon # None /\ Game!Net!GetMessage(netcon)
           \/ Game!SendCmd /\ Game!Connected /\ Game!CanSendMessage(netcon)
              /\ Game!Net!SendMessage(netcon, clMessage) /\ clMessage \in Seq(Talk)
           \/ Game!Hangup /\ Game!Connected /\ Game!Linked(netcon)
              /\ Game!Net!SendUnreliableMessage(netcon, <<<<"disconnect">>>>)
              /\ <<<<"disconnect">>>> \in Seq(Talk)
           \/ Game!Net!ClientClose
           \/ Game!DropClients /\ Game!Net!DropClient(1)
           \/ Game!Net!Connect \/ Game!Net!ConnectNoClient \/ Game!Net!CheckNewConnections
<1>1. Seq(News) \subseteq Seq(Talk) /\ Seq(Speech) \subseteq Seq(Talk)
  BY DEF Talk
<1>2. /\ clMessage \in Seq(Talk) /\ svMessage \in Seq(Talk)
      /\ <<<<"disconnect">>>> \in Seq(Talk) /\ <<<<"update">>>> \in Seq(Talk)
      /\ <<<<"stufftext", <<"reconnect">>>>>> \in Seq(Talk)
  <2>1. clMessage \in Seq(Talk) /\ svMessage \in Seq(Talk)
    BY <1>1 DEF SInv, Spoken
  <2>2. <<"disconnect">> \in Talk /\ <<"update">> \in Talk /\ <<"stufftext", <<"reconnect">>>> \in Talk
    BY DEF Talk, News
  <2> QED BY <2>1, <2>2
<1>3. todo = <<>> => ~Closing
  BY DEF Closing
<1>4. CASE Game!Hangup
  BY <1>2, <1>4, Zenon DEF Game!Hangup
<1>5. CASE Game!CloseClient \/ Game!Dial \/ Game!DialFails \/ Game!Accept
  BY <1>5, Zenon DEF Game!CloseClient, Game!Dial, Game!DialFails, Game!Accept
<1>6. CASE Game!DropClients
  BY <1>6, Zenon DEF Game!DropClients
<1>7. CASE Game!Notify
  <2>1. ~Closing
    BY <1>7 DEF Game!Notify, Game!Op, Closing, close
  <2> QED BY <1>2, <1>7, <2>1, Zenon DEF Game!Notify, Says
<1>8. CASE Game!SendCmd
  BY <1>2, <1>8, Zenon DEF Game!SendCmd
<1>9. CASE Game!Datagram \/ Game!Deliver
  <2>1. ~Closing
    BY <1>3, <1>9, Zenon DEF Game!Datagram, Game!Deliver, Game!At
  <2>2. CASE Game!Datagram
    BY <1>2, <2>1, <2>2, Zenon DEF Game!Datagram, Says
  <2>3. CASE Game!Deliver
    BY <1>2, <2>1, <2>3, Zenon DEF Game!Deliver, Says
  <2> QED BY <1>9, <2>2, <2>3
<1>10. CASE Game!ReadMessage("run", Game!Slot) \/ Game!ReadMessage("read", netcon)
  <2>1. ~Closing
    BY <1>3, <1>10, Zenon DEF Game!ReadMessage, Game!At
  <2> QED BY <1>10, <2>1, Zenon DEF Game!ReadMessage, Game!Waiting
<1>11. CASE Game!Shutdown \/ Game!SpawnServer \/ Game!Reconnect
  BY <1>11, Zenon DEF Game!Shutdown, Game!SpawnServer, Game!Reconnect
<1>12. CASE \/ Game!Type \/ Game!NoInput \/ Game!LongJump \/ Game!ExecuteCommand
            \/ Game!CommandsDone \/ Game!NothingToAccept \/ Game!AllRead("run", Game!Slot, "physics")
            \/ Game!AllRead("read", netcon, "input")
  BY <1>12, Zenon DEF Game!Type, Game!NoInput, Game!LongJump, Game!ExecuteCommand,
     Game!CommandsDone, Game!NothingToAccept, Game!AllRead
<1>13. CASE Game!ServerCommand \/ Game!Physics \/ Game!Exit \/ Game!ProgramError \/ Game!ParseServerMessage
  BY <1>13, Zenon DEF Game!ServerCommand, Game!Physics, Game!Exit, Game!ProgramError,
     Game!ParseServerMessage
<1> QED BY <1>4, <1>5, <1>6, <1>7, <1>8, <1>9, <1>10, <1>11, <1>12, <1>13, Zenon
        DEF Game!Next, Game!Frame, Game!Operation

\* A message that is sent or read leaves the connections as they are.
LEMMA TalkKeeps ==
    ASSUME OneGame, Inv, NEW s, s \in {netcon, Game!Slot} \ {None},
           (\E p \in Seq(Talk) : Says(s, p)) \/ Game!Net!GetMessage(s)
    PROVE  UNCHANGED <<pending, client, server, netcon, slots, driverdata>>
           /\ Game!Slot' = Game!Slot /\ Game!Connected' = Game!Connected
<1>1. UNCHANGED <<pending, client, server, netcon, slots, driverdata>>
  <2>1. CASE \E p \in Seq(Talk) : Says(s, p)
    BY <2>1, SendEffect DEF Says
  <2>2. CASE Game!Net!GetMessage(s)
    BY <2>2, GetEffect
  <2> QED BY <2>1, <2>2
<1> QED BY <1>1 DEF Game!Slot, Game!Connected

\* A message to the client is due (sendsignon) or needs not wait for that, and a
\* client that is connected waits to be accepted or has been.
Pledged == svMessage # <<>> => sendsignon \/ spawned
Admitted == Game!Connected => pending \/ Game!Slot # None

LEMMA PledgedNext == ASSUME SInv, Pledged, Game!Next PROVE Pledged'
<1>1. CASE UNCHANGED Game!slotVars
  BY <1>1 DEF Pledged, Game!slotVars
<1>2. CASE Game!DropClients
  BY <1>2 DEF Game!DropClients, Pledged
<1>3. CASE Game!SpawnServer
  <2>1. UNCHANGED Game!slotVars \/ sendsignon' = TRUE
    BY <1>3, Zenon DEF Game!SpawnServer, Game!SendServerinfo
  <2> QED BY <1>1, <2>1 DEF Pledged
<1>4. CASE Game!Accept
  BY <1>4 DEF Game!Accept, Game!SendServerinfo, Pledged
<1>5. CASE Game!ServerCommand
  <2>1. UNCHANGED Game!slotVars \/ sendsignon' = TRUE \/ spawned' = TRUE
    <3>1. \A m : Game!Stage(m) => UNCHANGED Game!slotVars \/ sendsignon' = TRUE
      BY DEF Game!Stage
    <3>2. Head(msg) \in Speech
      BY <1>5 DEF Game!ServerCommand, Game!At, SInv, Spoken
    <3>3. CASE Head(msg) = <<"prespawn">>
      <4>1. ~(Head(msg) = <<"spawn">>) /\ ~(Head(msg) = <<"begin">>)
        BY <3>3
      <4> QED BY <1>5, <3>1, <3>3, <4>1, Zenon DEF Game!ServerCommand
    <3>4. CASE Head(msg) = <<"spawn">>
      <4>1. ~(Head(msg) = <<"prespawn">>) /\ ~(Head(msg) = <<"begin">>)
        BY <3>4
      <4> QED BY <1>5, <3>1, <3>4, <4>1, Zenon DEF Game!ServerCommand
    <3>5. CASE Head(msg) = <<"begin">>
      <4>1. ~(Head(msg) = <<"prespawn">>) /\ ~(Head(msg) = <<"spawn">>)
        BY <3>5
      <4> QED BY <1>5, <3>5, <4>1, Zenon DEF Game!ServerCommand
    <3> QED BY <3>2, <3>3, <3>4, <3>5 DEF Speech
  <2> QED BY <1>1, <2>1 DEF Pledged
<1>6. CASE Game!Deliver
  BY <1>6 DEF Game!Deliver, Pledged
<1>7. CASE \/ Game!Hangup \/ Game!CloseClient \/ Game!Shutdown \/ Game!Notify
           \/ Game!Dial \/ Game!DialFails \/ Game!Reconnect
  <2>1. UNCHANGED Game!slotVars
    BY <1>7, Zenon DEF Game!Hangup, Game!CloseClient, Game!Shutdown, Game!Notify, Game!Dial,
       Game!DialFails, Game!Reconnect, Game!serverVars
  <2> QED BY <1>1, <2>1
<1>8. CASE \/ Game!Type \/ Game!NoInput \/ Game!LongJump \/ Game!ExecuteCommand
           \/ Game!CommandsDone \/ Game!SendCmd \/ Game!NothingToAccept
           \/ Game!ReadMessage("run", Game!Slot) \/ Game!AllRead("run", Game!Slot, "physics")
  <2>1. UNCHANGED Game!slotVars
    BY <1>8, Zenon DEF Game!Type, Game!NoInput, Game!LongJump, Game!ExecuteCommand, Game!SendCmd,
       Game!CommandsDone, Game!NothingToAccept, Game!ReadMessage, Game!AllRead, Game!serverVars
  <2> QED BY <1>1, <2>1
<1>9. CASE \/ Game!Physics \/ Game!Exit \/ Game!ProgramError \/ Game!Datagram
           \/ Game!ReadMessage("read", netcon) \/ Game!AllRead("read", netcon, "input")
           \/ Game!ParseServerMessage
  <2>1. UNCHANGED Game!slotVars
    BY <1>9, Zenon DEF Game!Physics, Game!Exit, Game!ProgramError, Game!Datagram, Game!ReadMessage,
       Game!AllRead, Game!ParseServerMessage, Game!serverVars
  <2> QED BY <1>1, <2>1
<1> QED BY <1>2, <1>3, <1>4, <1>5, <1>6, <1>7, <1>8, <1>9, Zenon
        DEF Game!Next, Game!Frame, Game!Operation

LEMMA AdmittedNext == ASSUME OneGame, SInv, Admitted, Game!Next PROVE Admitted'
<1> USE DEF SInv
<1>1. CASE UNCHANGED Game!netVars
  BY <1>1, Still DEF Admitted
<1>2. CASE \E s : s \in {netcon, Game!Slot} \ {None}
                  /\ ((\E p \in Seq(Talk) : Says(s, p)) \/ Game!Net!GetMessage(s))
  <2>1. UNCHANGED pending /\ Game!Slot' = Game!Slot /\ Game!Connected' = Game!Connected
    BY <1>2, TalkKeeps
  <2> QED BY <2>1 DEF Admitted
<1>3. CASE Game!Net!ClientClose
  BY <1>3, CloseEffect DEF Admitted, Game!Connected
<1>4. CASE Game!DropClients /\ Game!Net!DropClient(1)
  <2>1. netcon' = netcon
    BY <1>4, DropEffect
  <2>2. ~Game!Connected
    <3>1. todo # <<>> /\ Head(todo)[1] = "drop"
      BY <1>4 DEF Game!DropClients, Game!Op
    <3>2. PICK o \in Game!Outcomes : Agenda(todo, Game!Connected, svActive, o)
      BY DEF Planned
    <3> QED BY <3>1, <3>2, DropNext DEF Typed, Game!Connected
  <2> QED BY <2>1, <2>2 DEF Admitted, Game!Connected
<1>5. CASE Game!Net!Connect
  BY <1>5, DialEffect DEF Admitted
<1>6. CASE Game!Net!ConnectNoClient
  BY <1>6, DialFailsEffect DEF Admitted, Game!Connected
<1>7. CASE Game!Net!CheckNewConnections
  BY <1>7, AcceptEffect DEF Admitted
<1>8. netcon # None <=> Game!Connected
  BY DEF Game!Connected
<1> QED BY <1>1, <1>2, <1>3, <1>4, <1>5, <1>6, <1>7, <1>8, Calls DEF Says

\* What the next frame can do for the handshake: the server takes the client in, one
\* side reads something or says something.
MayAccept == pending /\ client # None /\ server # None /\ Game!Slot = None
ClientReads == Game!Waiting(netcon) \/ (pc = "read" /\ msg # <<>>)
ServerReads == Game!Waiting(Game!Slot) \/ (pc = "run" /\ msg # <<>>)
ClientSays == clMessage # <<>> /\ Game!CanSendMessage(netcon)
ServerSays == /\ Game!Slot # None /\ Game!Linked(Game!Slot)
              /\ spawned \/ (sendsignon /\ svMessage # <<>> /\ canSend[Game!Slot])

GoesOn == svActive /\ Game!Connected /\ todo = <<>> =>
    MayAccept \/ ClientReads \/ ServerReads \/ ClientSays \/ ServerSays

\* Nothing said is nothing on its way.
LEMMA HearOrRead ==
    ASSUME Clean, Game!Connected, Game!Slot # None
    PROVE  /\ Hear # <<>> => ClientReads
           /\ len[netcon] # 0 => ClientReads
           /\ clMessage = <<>> /\ Say # <<>> => ServerReads
           /\ clMessage # <<>> /\ len[Game!Slot] # 0 => ServerReads
BY DEF Clean, Hear, Say, InTransit, ClientReads, ServerReads, Game!Waiting, Game!Connected

LEMMA OrderGoesOn ==
    ASSUME OneGame, SInv, Order, Pledged, Admitted, ToBeRead PROVE GoesOn
<1> SUFFICES ASSUME svActive, Game!Connected, todo = <<>>
             PROVE  MayAccept \/ ClientReads \/ ServerReads \/ ClientSays \/ ServerSays
  BY DEF GoesOn
<1>1. /\ netcon = client /\ client # None /\ client \in Sockets
      /\ Game!Slot \in {None, server}
      /\ Game!Linked(netcon) <=> server # None
      /\ Game!Slot # None => (Game!Linked(Game!Slot) <=> client # None)
      /\ driverdata[netcon] = server
      /\ Game!Slot # None => driverdata[Game!Slot] = client
      /\ server \in Sockets \cup {None}
  BY EndFacts DEF SInv, Game!Connected
<1>2. CASE Game!Slot = None
  <2>1. pending /\ server # None
    BY <1>2 DEF Admitted, SInv, Awaited
  <2> QED BY <1>1, <1>2, <2>1 DEF MayAccept
<1>3. CASE Game!Slot # None
  <2>1. Playing /\ Calm
    BY <1>3, TodoKinds DEF Playing
  <2>2. Clean /\ Stages
    BY <2>1 DEF Order, Plays, InStep
  <2>3. /\ Game!Linked(netcon) /\ Game!Linked(Game!Slot)
        /\ netcon \in Sockets /\ Game!Slot \in Sockets
        /\ driverdata[netcon] = Game!Slot /\ driverdata[Game!Slot] = netcon
    BY <1>1, <1>3
  <2>4. /\ ~canSend[Game!Slot] => len[netcon] # 0
        /\ ~canSend[netcon] => len[Game!Slot] # 0
    <3>1. \A s \in Sockets : Game!Linked(s) /\ ~canSend[s] => len[driverdata[s]] # 0
      BY SameHeld DEF ToBeRead, Corked, Game!Linked
    <3> QED BY <2>3, <3>1
  <2>5. CASE Hear # <<>> \/ len[netcon] # 0
    BY <1>3, <2>2, <2>5, HearOrRead
  <2>6. CASE Say # <<>>
    <3>1. CASE clMessage = <<>>
      BY <1>3, <2>2, <2>6, <3>1, HearOrRead
    <3>2. CASE clMessage # <<>>
      BY <1>3, <2>2, <2>3, <2>4, <3>2, HearOrRead DEF ClientSays, Game!CanSendMessage
    <3> QED BY <3>1, <3>2
  <2>7. CASE Begun
    BY <1>3, <2>3, <2>7 DEF Begun, ServerSays
  <2>8. CASE Hear = <<>> /\ len[netcon] = 0 /\ Say = <<>> /\ ~Begun
    <3>1. svMessage # <<>>
      <4>1. /\ Recall # <<>>
            /\ \A k \in 1 .. 3 : Told(k, loads) # <<>> /\ Game!Reply(k) # <<>>
        BY Texts
      <4>2. ~Recalled /\ \A k \in 1 .. 3 : ~Sent(k) /\ ~Asked(k)
        BY <2>8, <4>1 DEF Recalled, Sent, Asked
      <4>3. PICK k \in 1 .. 3 : Due(k)
        BY <2>2, <2>8, <4>2 DEF Stages
      <4> QED BY <4>1, <4>3 DEF Due
    <3> QED BY <1>3, <2>3, <2>4, <2>8, <3>1 DEF Pledged, ServerSays
  <2> QED BY <2>5, <2>6, <2>7, <2>8
<1> QED BY <1>2, <1>3

\* The handshake never comes to rest: whenever a client is connected to a running
\* server, the next frame accepts it, has something to read, or has something to say
\* that canSend lets pass.  No stage is left with its message unsent, no sender waits
\* for a message that nobody will read, and no client is left out of the slot.
THEOREM HandshakeNeverStalls == OneGame /\ OrdinaryGame => (Game!Spec => []GoesOn)
<1> SUFFICES ASSUME OneGame, OrdinaryGame PROVE Game!Spec => []GoesOn
  OBVIOUS
<1> DEFINE GInv == SInv /\ Order /\ Pledged /\ Admitted
<1>1. Game!Init => GInv
  <2> SUFFICES ASSUME Game!Init PROVE Pledged /\ Admitted
    BY GameInit, GameInitOrder
  <2>1. svMessage = <<>>
    BY DEF Game!Init
  <2>2. ~Game!Connected
    BY GameInit DEF Init, Game!Connected
  <2> QED BY <2>1, <2>2 DEF Pledged, Admitted
<1>2. GInv /\ [Game!Next]_Game!vars => GInv'
  <2> SUFFICES ASSUME GInv, [Game!Next]_Game!vars PROVE Pledged' /\ Admitted'
    BY GameNextSInv, GameNextOrder
  <2>1. CASE Game!Next
    BY <2>1, PledgedNext, AdmittedNext
  <2>2. CASE UNCHANGED Game!vars
    <3>1. /\ UNCHANGED Game!netVars
          /\ UNCHANGED <<spawned, sendsignon, svMessage>>
      BY <2>2 DEF Game!vars, Game!serverVars, Game!slotVars
    <3> QED BY <3>1, Still DEF SInv, Pledged, Admitted
  <2> QED BY <2>1, <2>2
<1>3. GInv /\ ToBeRead => GoesOn
  BY OrderGoesOn
<1>4. Game!Spec => []ToBeRead
  BY SessionIsLoopback, NobodyWaitsInVain, PTL
<1> QED BY <1>1, <1>2, <1>3, <1>4, PTL DEF Game!Spec

\* An operation that is due comes before anything else.
LEMMA OnlyCloses ==
    ASSUME todo # <<>>, Head(todo)[1] = "close", Game!Next PROVE Game!CloseClient
<1>1. /\ "close" # "hangup" /\ "close" # "shutdown" /\ "close" # "drop" /\ "close" # "notify"
      /\ "close" # "spawn" /\ "close" # "dial" /\ "close" # "reconnect"
  OBVIOUS
<1>2. /\ ~Game!Hangup /\ ~Game!Shutdown /\ ~Game!DropClients /\ ~Game!Notify /\ ~Game!SpawnServer
      /\ ~Game!Dial /\ ~Game!DialFails /\ ~Game!Reconnect
  BY <1>1, Zenon DEF Game!Hangup, Game!Shutdown, Game!DropClients, Game!Notify, Game!SpawnServer,
     Game!Dial, Game!DialFails, Game!Reconnect, Game!Op
<1>3. /\ ~Game!Type /\ ~Game!NoInput /\ ~Game!LongJump /\ ~Game!ExecuteCommand /\ ~Game!CommandsDone
      /\ ~Game!SendCmd /\ ~Game!Accept /\ ~Game!NothingToAccept
      /\ \A phase, s : ~Game!ReadMessage(phase, s)
      /\ \A phase, s, next : ~Game!AllRead(phase, s, next)
      /\ ~Game!ServerCommand /\ ~Game!Physics /\ ~Game!Exit /\ ~Game!ProgramError
      /\ ~Game!Datagram /\ ~Game!Deliver /\ ~Game!ParseServerMessage
  BY Zenon DEF Game!Type, Game!NoInput, Game!LongJump, Game!ExecuteCommand, Game!CommandsDone,
     Game!SendCmd, Game!Accept, Game!NothingToAccept, Game!ReadMessage, Game!AllRead,
     Game!ServerCommand, Game!Physics, Game!Exit, Game!ProgramError, Game!Datagram, Game!Deliver,
     Game!ParseServerMessage, Game!At
<1> QED BY <1>2, <1>3, Zenon DEF Game!Next, Game!Frame, Game!Operation

-----------------------------------------------------------------------------
(* Room for what is said.                                                    *)

\* A message that is put behind one other.
LEMMA SecondPut ==
    ASSUME OneGame, Inv, NEW s, s \in {netcon, Game!Slot} \ {None}, NEW p \in Seq(Talk), Says(s, p),
           len[driverdata[s]] = 8
    PROVE  len'[driverdata[s]] = 16
<1>1. PICK r \in BOOLEAN : Put(s, [reliable |-> r, payload |-> p])
  BY SameSend DEF SendMessage, SendUnreliableMessage, Says
<1>2. len' = [len EXCEPT ![driverdata[s]] = IntAlign(@ + SizeOf(p) + 4)]
  BY <1>1 DEF Put
<1>3. driverdata[s] \in Sockets /\ DOMAIN len = Sockets /\ SizeOf(p) = 4
  BY SendEffect DEF Says, OneGame, Inv, Shape
<1>4. len'[driverdata[s]] = IntAlign(8 + 4 + 4)
  BY <1>2, <1>3
<1>5. IntAlign(8 + 4 + 4) = 16
  BY DEF IntAlign
<1> QED BY <1>4, <1>5

\* The server has at most one message of the client to read, the last word of one
\* that closes apart; and as long as it has, the client may send no other.
OneAtATime == len[server] \in {0, 8} /\ (len[server] # 0 => ~canSend[netcon])
OneWord == Game!Connected /\ server # None =>
    IF Closing THEN len[server] \in {0, 8, 16} ELSE OneAtATime

LEMMA OneWordNext == ASSUME OneGame, SInv, OneWord, Game!Next PROVE OneWord'
<1>1. /\ Game!Connected <=> netcon # None
      /\ Game!Connected' <=> netcon' # None
  BY DEF Game!Connected
<1>2. OneAtATime' => OneWord'
  BY DEF OneWord, OneAtATime
<1>3. /\ netcon = client /\ client \in Sockets \cup {None} /\ server \in Sockets \cup {None}
      /\ Game!Slot \in {None, server}
      /\ client # None => client # server
      /\ netcon # None => driverdata[netcon] = server
      /\ Game!Slot # None => driverdata[Game!Slot] = client
      /\ canSend \in [Sockets -> BOOLEAN]
      /\ None \notin Sockets
  BY EndFacts DEF SInv
<1>4. CASE Closing
  <2>1. Game!CloseClient
    <3>1. todo # <<>> /\ Head(todo)[1] = "close"
      BY <1>4 DEF Closing, close
    <3> QED BY <3>1, OnlyCloses
  <2>2. netcon' = None
    BY <2>1, CloseEffect DEF Game!CloseClient, SInv
  <2> QED BY <1>1, <2>2 DEF OneWord
<1>5. CASE ~Closing
  <2>1. netcon # None /\ server # None => OneAtATime
    BY <1>1, <1>5 DEF OneWord
  <2>2. CASE UNCHANGED Game!netVars
    <3>1. UNCHANGED <<netcon, server, len, canSend>>
      BY <2>2, Still DEF SInv
    <3> QED BY <1>1, <2>1, <3>1 DEF OneWord, OneAtATime
  <2>3. CASE Game!Slot # None /\ \E p \in Seq(Talk) : Says(Game!Slot, p)
    <3>1. PICK s : s = Game!Slot
      OBVIOUS
    <3>2. PICK p \in Seq(Talk) : Says(s, p)
      BY <2>3, <3>1
    <3>3. /\ UNCHANGED <<netcon, server>>
          /\ driverdata[s] \in Sockets
          /\ \A x \in Sockets : x # driverdata[s] => len'[x] = len[x]
          /\ canSend' \in {canSend, [canSend EXCEPT ![s] = FALSE]}
      BY <2>3, <3>1, <3>2, SendEffect DEF SInv, Says
    <3>4. s = server /\ driverdata[s] = netcon /\ server # netcon
      BY <1>3, <2>3, <3>1, <3>3
    <3>5. netcon # None /\ server # None => len'[server] = len[server] /\ canSend'[netcon] = canSend[netcon]
      BY <1>3, <3>3, <3>4
    <3> QED BY <1>1, <2>1, <3>3, <3>5 DEF OneWord, OneAtATime
  <2>4. CASE Game!Slot # None /\ Game!Net!GetMessage(Game!Slot)
    <3>1. PICK s : s = Game!Slot
      OBVIOUS
    <3>2. /\ UNCHANGED <<netcon, server>> /\ len[s] # 0
          /\ len[s] = 8 => len'[s] = 0
      BY <2>4, <3>1, GetEffect, GetFacts, SameGet DEF SInv
    <3>3. s = server
      BY <1>3, <2>4, <3>1
    <3>4. netcon # None /\ server # None => len'[server] = 0
      BY <2>1, <3>2, <3>3 DEF OneAtATime
    <3> QED BY <1>1, <1>2, <3>2, <3>4 DEF OneWord, OneAtATime
  <2>5. CASE netcon # None /\ Game!Net!GetMessage(netcon)
    <3>1. PICK s : s = netcon
      OBVIOUS
    <3>2. /\ UNCHANGED <<netcon, server>>
          /\ \A x \in Sockets : x # s => len'[x] = len[x]
          /\ canSend' \in {canSend, [canSend EXCEPT ![driverdata[s]] = TRUE]}
      BY <2>5, <3>1, GetEffect DEF SInv
    <3>3. driverdata[s] = server /\ s # server
      BY <1>3, <2>5, <3>1
    <3>4. server # None => len'[server] = len[server] /\ canSend'[netcon] = canSend[netcon]
      BY <1>3, <2>5, <3>1, <3>2, <3>3
    <3> QED BY <1>1, <2>1, <3>2, <3>4 DEF OneWord, OneAtATime
  <2>6. CASE Game!Connected /\ Game!CanSendMessage(netcon)
             /\ Game!Net!SendMessage(netcon, clMessage) /\ clMessage \in Seq(Talk)
    <3>1. PICK s, p : s = netcon /\ p = clMessage
      OBVIOUS
    <3>2. /\ UNCHANGED <<netcon, server>>
          /\ driverdata[s] \in Sockets
          /\ len[driverdata[s]] = 0 => len'[driverdata[s]] = 8
          /\ canSend' = [canSend EXCEPT ![s] = FALSE]
      BY <1>1, <2>6, <3>1, SendEffect DEF SInv
    <3>3. driverdata[s] = server /\ canSend[netcon] /\ server # None
      BY <1>1, <1>3, <2>6, <3>1, <3>2 DEF Game!CanSendMessage
    <3>4. len'[server] = 8
      BY <1>1, <2>1, <2>6, <3>2, <3>3 DEF OneAtATime
    <3>5. ~canSend'[netcon]
      BY <1>1, <1>3, <2>6, <3>1, <3>2
    <3> QED BY <1>1, <1>2, <3>2, <3>4, <3>5 DEF OneWord, OneAtATime
  <2>7. CASE Game!Hangup /\ Game!Connected /\ Game!Linked(netcon)
             /\ Game!Net!SendUnreliableMessage(netcon, <<<<"disconnect">>>>)
             /\ <<<<"disconnect">>>> \in Seq(Talk)
    <3>1. PICK s, p : s = netcon /\ p = <<<<"disconnect">>>>
      OBVIOUS
    <3>2. /\ UNCHANGED <<netcon, server>>
          /\ driverdata[s] \in Sockets
          /\ len[driverdata[s]] = 0 => len'[driverdata[s]] = 8
          /\ len[driverdata[s]] = 8 => len'[driverdata[s]] = 16
      BY <1>1, <2>7, <3>1, SendEffect, SecondPut DEF SInv, Says
    <3>3. driverdata[s] = server /\ server # None
      BY <1>1, <1>3, <2>7, <3>1, <3>2
    <3>4. len'[server] \in {8, 16}
      BY <1>1, <2>1, <2>7, <3>2, <3>3 DEF OneAtATime
    <3>5. Closing'
      <4>1. todo' = <<close>> \o Tail(todo)
        BY <2>7 DEF Game!Hangup, Game!After, close
      <4>2. PICK o \in Game!Outcomes : Agenda(todo, Game!Connected, svActive, o)
        BY DEF SInv, Planned
      <4>3. svActive \in BOOLEAN /\ Game!Connected \in BOOLEAN /\ todo # <<>> /\ Head(todo)[1] = "hangup"
        BY <2>7 DEF SInv, Typed, Game!Connected, Game!Hangup, Game!Op
      <4> QED BY <2>7, <4>1, <4>2, <4>3, HangupNext DEF Closing
    <3> QED BY <3>2, <3>4, <3>5 DEF OneWord
  <2>8. CASE Game!Net!ClientClose
    BY <1>1, <2>8, CloseEffect DEF SInv, OneWord
  <2>9. CASE Game!DropClients /\ Game!Net!DropClient(1)
    <3>1. netcon' = netcon
      BY <2>9, DropEffect DEF SInv
    <3>2. ~Game!Connected
      <4>1. todo # <<>> /\ Head(todo)[1] = "drop"
        BY <2>9 DEF Game!DropClients, Game!Op
      <4>2. PICK o \in Game!Outcomes : Agenda(todo, Game!Connected, svActive, o)
        BY DEF SInv, Planned
      <4> QED BY <4>1, <4>2, DropNext DEF SInv, Typed, Game!Connected
    <3> QED BY <1>1, <3>1, <3>2 DEF OneWord
  <2>10. CASE Game!Net!Connect
    <3>1. len'[server'] = 0
      BY <2>10, DialEffect DEF SInv
    <3> QED BY <1>2, <3>1 DEF OneAtATime
  <2>11. CASE Game!Net!ConnectNoClient
    BY <1>1, <2>11, DialFailsEffect DEF SInv, OneWord
  <2>12. CASE Game!Net!CheckNewConnections
    <3>1. len'[server'] = 0
      BY <2>12, AcceptEffect DEF SInv
    <3> QED BY <1>2, <3>1 DEF OneAtATime
  <2> QED BY <2>2, <2>3, <2>4, <2>5, <2>6, <2>7, <2>8, <2>9, <2>10, <2>11, <2>12, Calls
<1> QED BY <1>4, <1>5

\* A side that says something finds the other one's buffer empty, so that any message
\* that fits a buffer fits; the client says goodbye behind one message at most.
ClientFits ==
    /\ Game!At("send") /\ Game!Connected /\ Game!CanSendMessage(netcon) => len[driverdata[netcon]] = 0
    /\ Game!Op("hangup") /\ Game!Connected /\ Game!Linked(netcon) => len[driverdata[netcon]] \in {0, 8}

ServerFits ==
    /\ Game!Op("notify") /\ svActive /\ Game!Slot # None /\ Game!Linked(Game!Slot)
         => len[driverdata[Game!Slot]] = 0
    /\ Game!At("datagram") /\ Game!Slot # None /\ spawned /\ Game!Linked(Game!Slot)
         => len[driverdata[Game!Slot]] = 0
    /\ Game!At("deliver") /\ Game!Slot # None /\ svMessage # <<>> /\ Game!CanSendMessage(Game!Slot)
         => len[driverdata[Game!Slot]] = 0

\* Whatever the user types and whatever fails, CL_SendCmd never meets the Sys_Error of
\* Loop_SendMessage, nor does the farewell of CL_Disconnect find its room taken by
\* more than a message: canSend stays false until the server has read.
THEOREM ClientNeverOverflows == OneGame => (Game!Spec => []ClientFits)
<1> SUFFICES ASSUME OneGame PROVE Game!Spec => []ClientFits
  OBVIOUS
<1>1. Game!Init => SInv /\ OneWord
  <2> SUFFICES ASSUME Game!Init PROVE SInv /\ ~Game!Connected
    BY DEF OneWord
  <2> QED BY GameInit DEF Init, Game!Connected
<1>2. SInv /\ OneWord /\ [Game!Next]_Game!vars => (SInv /\ OneWord)'
  <2> SUFFICES ASSUME SInv, OneWord, [Game!Next]_Game!vars PROVE OneWord'
    BY GameNextSInv
  <2>1. CASE Game!Next
    BY <2>1, OneWordNext
  <2>2. CASE UNCHANGED Game!vars
    <3>1. UNCHANGED Game!netVars /\ todo' = todo
      BY <2>2 DEF Game!vars
    <3>2. UNCHANGED <<netcon, server, len, canSend>> /\ Game!Connected' = Game!Connected
      BY <3>1, Still DEF SInv
    <3> QED BY <3>1, <3>2 DEF OneWord, OneAtATime, Closing
  <2> QED BY <2>1, <2>2
<1>3. SInv /\ OneWord => ClientFits
  <2> SUFFICES ASSUME SInv, OneWord, Game!Connected, Game!Linked(netcon), ~Closing
               PROVE  len[driverdata[netcon]] \in {0, 8}
                      /\ (canSend[netcon] => len[driverdata[netcon]] = 0)
    <3>1. Game!At("send") \/ Game!Op("hangup") => ~Closing
      BY DEF Game!At, Game!Op, Closing, close
    <3> QED BY <3>1 DEF ClientFits, Game!CanSendMessage
  <2>1. driverdata[netcon] = server /\ server # None
    BY EndFacts DEF SInv, Game!Connected
  <2> QED BY <2>1 DEF OneWord, OneAtATime
<1> QED BY <1>1, <1>2, <1>3, PTL DEF Game!Spec

LEMMA OrderFits == ASSUME OneGame, SInv, Order PROVE ServerFits
<1>1. Game!Slot # None /\ Game!Linked(Game!Slot) => driverdata[Game!Slot] = netcon /\ netcon # None
  BY EndFacts DEF SInv
<1>2. PICK o \in Game!Outcomes : Agenda(todo, Game!Connected, svActive, o)
  BY DEF SInv, Planned
<1>3. Clean /\ Hear = <<>> => len[netcon] = 0
  BY DEF Clean, OneAtMost, Hear, InTransit
<1>4. ASSUME Game!Op("notify"), svActive, Game!Slot # None PROVE Clean /\ Hear = <<>>
  <2>1. Game!Connected /\ todo = <<notify, spawn(o)>>
    BY <1>2, <1>4, NotifyNext DEF Game!Op, SInv, Typed, Game!Connected
  <2>2. Changing
    BY <2>1 DEF Changing
  <2>3. Playing /\ Calm
    BY <1>4, <2>1, <2>2 DEF Playing, Calm
  <2> QED BY <2>2, <2>3 DEF Order, Plays
<1>5. ASSUME todo = <<>>, pc \in Running, Game!Slot # None PROVE Clean /\ InStep
  <2>1. svActive /\ Calm
    BY <1>5, TodoKinds DEF SInv, Placed
  <2>2. Game!Connected
    BY <1>2, <1>5, <2>1 DEF Agenda
  <2> QED BY <1>5, <2>1, <2>2 DEF Playing, Order, Plays
<1>6. ASSUME Game!At("datagram"), Game!Slot # None, spawned PROVE Clean /\ Hear = <<>>
  <2>1. Clean /\ InStep
    BY <1>5, <1>6 DEF Game!At, Running
  <2>2. Begun
    BY <1>6, <2>1, Apart DEF InStep
  <2> QED BY <1>6, <2>1, <2>2 DEF InStep, Game!At
<1>7. ASSUME Game!At("deliver"), Game!Slot # None, svMessage # <<>>, canSend[Game!Slot]
      PROVE  len[netcon] = 0
  <2>1. Clean /\ InStep
    BY <1>5, <1>7 DEF Game!At, Running
  <2>2. CASE Recalled
    BY <1>7, <2>1, <2>2 DEF InStep
  <2>3. CASE \E k \in 1 .. 3 : Due(k)
    BY <1>3, <2>1, <2>3 DEF Due
  <2> QED BY <1>7, <2>1, <2>2, <2>3, Apart DEF InStep
<1>8. /\ Game!Op("notify") /\ svActive /\ Game!Slot # None /\ Game!Linked(Game!Slot)
           => len[driverdata[Game!Slot]] = 0
      /\ Game!At("datagram") /\ Game!Slot # None /\ spawned /\ Game!Linked(Game!Slot)
           => len[driverdata[Game!Slot]] = 0
  BY <1>1, <1>3, <1>4, <1>6
<1>9. Game!At("deliver") /\ Game!Slot # None /\ svMessage # <<>> /\ Game!CanSendMessage(Game!Slot)
        => len[driverdata[Game!Slot]] = 0
  BY <1>1, <1>7 DEF Game!CanSendMessage
<1> QED BY <1>8, <1>9 DEF ServerFits

\* Nor does the server, which sends the reconnect of a new level whatever canSend says
\* (SV_SendReconnect) and the datagram in every frame: the client, which comes last in
\* a frame, has always read before.
THEOREM ServerNeverOverflows == OneGame /\ OrdinaryGame => (Game!Spec => []ServerFits)
<1> SUFFICES ASSUME OneGame, OrdinaryGame PROVE Game!Spec => []ServerFits
  OBVIOUS
<1>1. Game!Init => SInv /\ Order
  BY GameInit, GameInitOrder
<1>2. SInv /\ Order /\ [Game!Next]_Game!vars => (SInv /\ Order)'
  BY GameNextSInv, GameNextOrder
<1>3. SInv /\ Order => ServerFits
  BY OrderFits
<1> QED BY <1>1, <1>2, <1>3, PTL DEF Game!Spec

-----------------------------------------------------------------------------
(* The handshake only climbs.                                                *)

\* How far the handshake of a level has come: for each stage the server has it to
\* send, has sent it, and has the client's answer; then the player has begun.
Rung ==
    IF spawned THEN 16
    ELSE 4 * signon + (IF svMessage # <<>> /\ Hear = <<>> THEN 1
                       ELSE IF svMessage = <<>> /\ Hear # <<>> THEN 2 ELSE 0)

SameLevel == Playing /\ Quiet
Climbs == [][SameLevel /\ SameLevel' => Rung' >= Rung]_Game!vars

LEMMA HearStill ==
    ASSUME OneGame, Inv, UNCHANGED Game!netVars, msg' = msg, pc' = pc \/ msg = <<>>
    PROVE  Hear' = Hear
BY Still DEF Hear, InTransit

LEMMA RungStill ==
    ASSUME Hear' = Hear, UNCHANGED <<signon, spawned, svMessage>>
    PROVE  Rung' = Rung
BY DEF Rung

LEMMA RungFacts ==
    ASSUME SInv
    PROVE  /\ Rung \in Nat /\ (spawned => Rung = 16)
           /\ ~spawned => 4 * signon <= Rung /\ Rung <= 4 * signon + 2
<1>1. signon \in Nat /\ spawned \in BOOLEAN
  BY DEF SInv, Typed
<1>3. spawned => Rung = 16
  BY DEF Rung
<1>4. ~spawned => \E n \in 0 .. 2 : Rung = 4 * signon + n
  BY DEF Rung
<1> QED BY <1>1, <1>3, <1>4

LEMMA RungNextFacts ==
    ASSUME SInv'
    PROVE  /\ Rung' \in Nat /\ (spawned' => Rung' = 16)
           /\ ~spawned' => 4 * signon' <= Rung' /\ Rung' <= 4 * signon' + 2
<1>1. signon' \in Nat /\ spawned' \in BOOLEAN
  BY DEF SInv, Typed
<1>2. spawned' => Rung' = 16
  BY DEF Rung
<1>3. ~spawned' => \E n \in 0 .. 2 : Rung' = 4 * signon' + n
  BY DEF Rung
<1> QED BY <1>1, <1>2, <1>3

\* Of the operations only reconnect comes while the level goes on.
LEMMA OnlyReconnects ==
    ASSUME todo = <<reconnect>>, Game!Next PROVE Game!Reconnect
<1>1. /\ todo # <<>> /\ Head(todo)[1] = "reconnect"
  BY DEF reconnect
<1>2. /\ "reconnect" # "hangup" /\ "reconnect" # "shutdown" /\ "reconnect" # "drop"
      /\ "reconnect" # "notify" /\ "reconnect" # "spawn" /\ "reconnect" # "dial" /\ "reconnect" # "close"
  OBVIOUS
<1>3. /\ ~Game!Hangup /\ ~Game!Shutdown /\ ~Game!DropClients /\ ~Game!Notify /\ ~Game!SpawnServer
      /\ ~Game!Dial /\ ~Game!DialFails /\ ~Game!CloseClient
  BY <1>1, <1>2, Zenon DEF Game!Hangup, Game!Shutdown, Game!DropClients, Game!Notify, Game!SpawnServer,
     Game!Dial, Game!DialFails, Game!CloseClient, Game!Op
<1>4. /\ ~Game!Type /\ ~Game!NoInput /\ ~Game!LongJump /\ ~Game!ExecuteCommand /\ ~Game!CommandsDone
      /\ ~Game!SendCmd /\ ~Game!Accept /\ ~Game!NothingToAccept
      /\ \A phase, s : ~Game!ReadMessage(phase, s)
      /\ \A phase, s, next : ~Game!AllRead(phase, s, next)
      /\ ~Game!ServerCommand /\ ~Game!Physics /\ ~Game!Exit /\ ~Game!ProgramError
      /\ ~Game!Datagram /\ ~Game!Deliver /\ ~Game!ParseServerMessage
  BY <1>1, Zenon DEF Game!Type, Game!NoInput, Game!LongJump, Game!ExecuteCommand, Game!CommandsDone,
     Game!SendCmd, Game!Accept, Game!NothingToAccept, Game!ReadMessage, Game!AllRead,
     Game!ServerCommand, Game!Physics, Game!Exit, Game!ProgramError, Game!Datagram, Game!Deliver,
     Game!ParseServerMessage, Game!At
<1> QED BY <1>3, <1>4, Zenon DEF Game!Next, Game!Frame, Game!Operation

LEMMA ReconnectClimbs ==
    ASSUME OneGame, SInv, Order, SameLevel, todo = <<reconnect>>, Game!Reconnect PROVE Rung' >= Rung
<1>1. UNCHANGED Game!netVars /\ UNCHANGED <<pc, msg, spawned, svMessage>> /\ signon' = 0
  BY DEF Game!Reconnect, Game!After, Game!serverVars, Game!slotVars
<1>2. Due(1)
  BY TodoKinds DEF Order, Plays, SameLevel
<1>3. signon' = signon
  BY <1>1, <1>2 DEF Due
<1>4. Rung' = Rung
  BY <1>1, <1>3, HearStill, RungStill DEF SInv
<1> QED BY <1>4, RungFacts

LEMMA SendCmdClimbs ==
    ASSUME OneGame, SInv, Order, SameLevel, Game!SendCmd PROVE Rung' >= Rung
<1>1. /\ todo = <<>> /\ pc = "send" /\ pc' \in {"accept", "read"} /\ msg' = msg
      /\ UNCHANGED <<signon, spawned, svMessage>>
  BY DEF Game!SendCmd, Game!At, Game!Go, Game!serverVars, Game!slotVars
<1>2. msg = <<>> /\ clMessage \in Seq(Talk)
  BY <1>1 DEF SInv, Placed, Spoken, Talk
<1>3. CASE UNCHANGED Game!netVars
  BY <1>1, <1>2, <1>3, HearStill, RungStill, RungFacts DEF SInv
<1>4. CASE Game!Net!SendMessage(netcon, clMessage)
  <2>1. PICK s, p : s = netcon /\ p = clMessage
    OBVIOUS
  <2>2. netcon \in Sockets /\ Game!Slot # netcon /\ driverdata[netcon] = Game!Slot /\ netcon # None
    BY Opposite DEF SInv, SameLevel
  <2>3. /\ netcon' = netcon
        /\ \A x \in Sockets : x # driverdata[s] => buf'[x] = buf[x] /\ len'[x] = len[x]
    BY <1>2, <1>4, <2>1, <2>2, SendEffect DEF SInv
  <2>4. Hear' = Hear
    BY <1>1, <1>2, <2>1, <2>2, <2>3 DEF Hear, InTransit
  <2> QED BY <1>1, <2>4, RungStill, RungFacts
<1> QED BY <1>3, <1>4 DEF Game!SendCmd

LEMMA ReadingClimbs ==
    ASSUME OneGame, SInv, Order, SameLevel,
           Game!ReadMessage("run", Game!Slot) \/ Game!ReadMessage("read", netcon)
    PROVE  Rung' >= Rung
<1>1. /\ netcon \in Sockets /\ Game!Slot \in Sockets /\ netcon # Game!Slot
      /\ netcon # None /\ Game!Slot # None
  BY Opposite DEF SInv, SameLevel
<1>2. todo = <<>> /\ UNCHANGED <<pc, signon, spawned, svMessage>> /\ msg = <<>>
  BY DEF Game!ReadMessage, Game!At, Game!clientVars, Game!serverVars, Game!slotVars
<1>3. Clean
  BY <1>2, TodoKinds DEF SameLevel, Order, Plays
<1>4. PICK s : /\ s \in {netcon, Game!Slot} /\ Game!Net!GetMessage(s) /\ len[s] # 0
               /\ msg' = buf[s][0].payload
               /\ pc = IF s = netcon THEN "read" ELSE "run"
  BY <1>1 DEF Game!ReadMessage, Game!Waiting, Game!At
<1>5. len[s] = 8
  BY <1>3, <1>4 DEF Clean, OneAtMost
<1>6. /\ netcon' = netcon /\ len'[s] = 0
      /\ \A x \in Sockets : x # s => buf'[x] = buf[x] /\ len'[x] = len[x]
  BY <1>1, <1>4, <1>5, MessageTaken DEF SInv
<1>7. Hear' = Hear
  <2>1. CASE s = netcon
    BY <1>2, <1>4, <1>6, <2>1 DEF Hear, InTransit
  <2>2. CASE s # netcon
    BY <1>1, <1>2, <1>4, <1>6, <2>2 DEF Hear, InTransit
  <2> QED BY <2>1, <2>2
<1> QED BY <1>2, <1>7, RungStill, RungFacts

LEMMA ServerCommandClimbs ==
    ASSUME OneGame, SInv, SInv', Order, SameLevel, Game!ServerCommand PROVE Rung' >= Rung
<1>1. /\ todo = <<>> /\ pc = "run" /\ msg # <<>> /\ signon' = signon
  BY DEF Game!ServerCommand, Game!At, Game!clientVars
<1>2. Clean /\ Stages
  BY <1>1, TodoKinds DEF SameLevel, Order, Plays, InStep
<1>3. Say # <<>>
  BY <1>1, <1>2 DEF Clean, OneAtMost, Say, InTransit
<1>4. PICK k \in 1 .. 3 : Asked(k)
  BY <1>2, <1>3, Apart
<1>5. Rung = 4 * signon /\ signon = k
  BY <1>4 DEF Asked, Rung
<1> QED BY <1>1, <1>5, RungNextFacts

LEMMA DatagramClimbs ==
    ASSUME OneGame, SInv, Order, SameLevel, Game!Datagram PROVE Rung' >= Rung
<1>1. /\ pc = "datagram" /\ msg' = msg /\ UNCHANGED <<signon, spawned, svMessage>>
      /\ UNCHANGED Game!netVars \/ spawned
  BY DEF Game!Datagram, Game!At, Game!Go, Game!clientVars, Game!serverVars, Game!slotVars
<1>2. msg = <<>>
  BY <1>1 DEF SInv, Placed
<1>3. CASE UNCHANGED Game!netVars
  BY <1>1, <1>2, <1>3, HearStill, RungStill, RungFacts DEF SInv
<1>4. CASE spawned
  <2>1. Rung' = 16 /\ Rung = 16
    BY <1>1, <1>4 DEF Rung
  <2> QED BY <2>1
<1> QED BY <1>1, <1>3, <1>4

LEMMA DeliverClimbs ==
    ASSUME OneGame, SInv, SInv', Order, SameLevel, Game!Deliver PROVE Rung' >= Rung
<1> DEFINE due == Game!Slot # None /\ (spawned \/ sendsignon) /\ svMessage # <<>> /\ Game!CanSendMessage(Game!Slot)
<1>1. /\ todo = <<>> /\ pc = "deliver" /\ pc' = "read" /\ msg' = msg
      /\ UNCHANGED <<signon, spawned>>
  BY DEF Game!Deliver, Game!At, Game!Go, Game!clientVars
<1>2. msg = <<>>
  BY <1>1 DEF SInv, Placed
<1>3. CASE ~due
  <2>1. UNCHANGED Game!netVars /\ UNCHANGED svMessage
    BY <1>3 DEF Game!Deliver
  <2> QED BY <1>1, <1>2, <2>1, HearStill, RungStill, RungFacts DEF SInv
<1>4. CASE due
  <2>1. /\ Game!Net!SendMessage(Game!Slot, svMessage) /\ svMessage' = <<>>
        /\ svMessage # <<>> /\ canSend[Game!Slot]
    BY <1>4 DEF Game!Deliver, Game!CanSendMessage
  <2>2. Clean /\ InStep
    BY <1>1, TodoKinds DEF SameLevel, Order, Plays
  <2>3. ~Recalled
    <3>1. Recalled => len[netcon] # 0
      BY <1>1, Texts DEF Recalled, Hear, InTransit
    <3> QED BY <2>1, <2>2, <3>1 DEF InStep
  <2>4. PICK k \in 1 .. 3 : Due(k)
    BY <2>1, <2>2, <2>3, Apart DEF InStep
  <2>5. Hear = <<>> /\ ~spawned
    BY <2>4 DEF Due
  <2>6. len[netcon] = 0
    BY <1>1, <2>2, <2>5 DEF Clean, OneAtMost, Hear, InTransit
  <2>7. /\ Game!Slot # None /\ driverdata[Game!Slot] = netcon /\ svMessage \in Seq(Talk)
    BY Opposite DEF SInv, SameLevel, Spoken, Talk
  <2>8. PICK s, p, r : s = Game!Slot /\ p = svMessage /\ r = netcon
    OBVIOUS
  <2>9. /\ s \in {netcon, Game!Slot} \ {None} /\ p \in Seq(Talk) /\ p # <<>>
        /\ Game!Net!SendMessage(s, p) /\ r = driverdata[s] /\ len[r] = 0
    BY <2>1, <2>6, <2>7, <2>8
  <2>10. netcon' = netcon /\ len'[r] = 8 /\ buf'[r][0].payload = p
    BY <2>9, MessagePut DEF SInv
  <2>11. Hear' # <<>>
    <3>1. len'[netcon'] = 8 /\ buf'[netcon'][0].payload = svMessage
      BY <2>8, <2>10
    <3> QED BY <2>1, <3>1 DEF Hear, InTransit
  <2>12. Rung' = 4 * signon + 2
    BY <1>1, <2>1, <2>5, <2>11 DEF Rung
  <2> QED BY <2>5, <2>12, RungFacts
<1> QED BY <1>3, <1>4

LEMMA ParsingClimbs ==
    ASSUME OneGame, SInv, SInv', Order, SameLevel, Quiet', Game!ParseServerMessage PROVE Rung' >= Rung
<1>1. /\ todo = <<>> /\ pc = "read" /\ msg # <<>>
      /\ UNCHANGED Game!netVars /\ UNCHANGED <<svActive, spawned, sendsignon, svMessage, issued, loads>>
  BY Obeyed
<1>2. /\ Hear = msg /\ len[netcon] = 0 /\ svActive /\ Stages
      /\ Recalled \/ Begun \/ \E k \in 1 .. 3 : Sent(k)
  BY <1>1, BeingTold DEF SameLevel, Playing, InStep
<1>3. CASE Recalled
  <2>1. Rung = 0
    BY <1>2, <1>3, Texts DEF Recalled, Rung
  <2> QED BY <2>1, RungNextFacts
<1>4. CASE Begun
  <2>1. Rung' = 16 /\ Rung = 16
    BY <1>1, <1>4 DEF Begun, Rung
  <2> QED BY <2>1
<1>5. ASSUME NEW k \in 1 .. 3, Sent(k) PROVE Rung' >= Rung
  <2>1. /\ svMessage = <<>> /\ ~spawned /\ signon = k - 1
        /\ msg = Told(k, loads) \/ msg = <<<<"signon", k>>>>
    BY <1>2, <1>5 DEF Sent
  <2>2. ~Game!HostError
    <3>1. Game!HostError => todo' = <<shutdown, hangup>>
      BY DEF Game!HostError, Game!ErrorOps, shutdown, hangup
    <3>2. <<shutdown, hangup>> # <<>> /\ <<shutdown, hangup>> # <<reconnect>>
      BY DEF shutdown, hangup, reconnect
    <3> QED BY <3>1, <3>2 DEF Quiet
  <2>3. CASE Head(msg) = <<"signon", k>>
    <3>1. signon' = k
      BY <2>1, <2>2, <2>3, Obeyed DEF Game!ParseSignon
    <3> QED BY <1>1, <2>1, <3>1, RungFacts, RungNextFacts
  <2>4. CASE /\ Tail(msg) # <<>>
             /\ Head(msg) = <<"serverinfo", loads>> \/ Head(msg) = <<"names">>
    <3>1. signon' = signon /\ Game!Parsed
      BY <1>2, <2>2, <2>4, Obeyed DEF Game!ParseServerinfo, Game!ParseNames, Game!clientVars
    <3>2. Hear' = Tail(msg)
      BY <1>1, <1>2, <3>1, Still DEF SInv, Game!Parsed, Hear, InTransit
    <3>3. Rung' = 4 * signon + 2
      BY <1>1, <2>1, <2>4, <3>1, <3>2 DEF Rung
    <3> QED BY <2>1, <3>3, RungFacts
  <2>5. \/ Head(msg) = <<"signon", k>>
        \/ Tail(msg) # <<>> /\ (Head(msg) = <<"serverinfo", loads>> \/ Head(msg) = <<"names">>)
    <3>1. k = 1 \/ k = 2 \/ k = 3
      OBVIOUS
    <3>2. \/ msg = <<<<"signon", k>>>>
          \/ msg = <<<<"serverinfo", loads>>, <<"signon", 1>>>>
          \/ msg = <<<<"names">>, <<"signon", 3>>>>
      BY <2>1, <3>1, Texts
    <3>3. CASE msg = <<<<"signon", k>>>>
      BY <3>3
    <3>4. CASE msg = <<<<"serverinfo", loads>>, <<"signon", 1>>>>
      <4>1. Head(msg) = <<"serverinfo", loads>> /\ Tail(msg) = <<<<"signon", 1>>>>
        BY <3>4
      <4>2. Tail(msg) # <<>>
        BY <4>1
      <4> QED BY <4>1, <4>2, Zenon
    <3>5. CASE msg = <<<<"names">>, <<"signon", 3>>>>
      <4>1. Head(msg) = <<"names">> /\ Tail(msg) = <<<<"signon", 3>>>>
        BY <3>5
      <4>2. Tail(msg) # <<>>
        BY <4>1
      <4> QED BY <4>1, <4>2, Zenon
    <3> QED BY <3>2, <3>3, <3>4, <3>5
  <2> QED BY <2>3, <2>4, <2>5
<1> QED BY <1>2, <1>3, <1>4, <1>5

\* The other steps touch neither the network nor the handshake.
LEMMA OthersClimb ==
    ASSUME OneGame, SInv, SameLevel, SameLevel', todo = <<>>, Game!Next,
           ~Game!SendCmd, ~Game!ServerCommand, ~Game!Datagram, ~Game!Deliver, ~Game!ParseServerMessage,
           ~Game!ReadMessage("run", Game!Slot), ~Game!ReadMessage("read", netcon)
    PROVE  Rung' = Rung
<1>1. ~Game!Operation
  BY Zenon DEF Game!Operation, Game!Hangup, Game!CloseClient, Game!Shutdown, Game!DropClients, Game!Notify,
     Game!SpawnServer, Game!Dial, Game!DialFails, Game!Reconnect, Game!Op
<1>2. ~Game!Accept
  <2>1. Game!Slot # None
    BY DEF SameLevel, Playing
  <2> QED BY <2>1, AcceptEffect DEF Game!Accept, SInv
<1>3. ~Game!ProgramError
  <2>1. Game!ProgramError => todo' = <<shutdown, hangup>>
    BY DEF Game!ProgramError, Game!HostError, Game!ErrorOps, shutdown, hangup
  <2>2. <<shutdown, hangup>> # <<>> /\ <<shutdown, hangup>> # <<reconnect>>
    BY DEF shutdown, hangup, reconnect
  <2> QED BY <2>1, <2>2 DEF SameLevel, Quiet
<1>4. \/ Game!Type \/ Game!NoInput \/ Game!LongJump \/ Game!ExecuteCommand \/ Game!CommandsDone
      \/ Game!NothingToAccept \/ Game!AllRead("run", Game!Slot, "physics")
      \/ Game!AllRead("read", netcon, "input") \/ Game!Physics \/ Game!Exit
  BY <1>1, <1>2, <1>3, Zenon DEF Game!Next, Game!Frame
<1>5. UNCHANGED Game!netVars /\ msg' = msg /\ UNCHANGED <<signon, spawned, svMessage>>
  <2>1. UNCHANGED Game!netVars /\ msg' = msg /\ UNCHANGED Game!clientVars /\ UNCHANGED Game!slotVars
    BY <1>4, Zenon DEF Game!Type, Game!NoInput, Game!LongJump, Game!ExecuteCommand, Game!CommandsDone,
       Game!NothingToAccept, Game!AllRead, Game!Physics, Game!Exit, Game!serverVars
  <2> QED BY <2>1 DEF Game!clientVars, Game!slotVars
<1>6. msg = <<>>
  <2>1. msg = <<>> \/ pc \notin {"run", "read"}
    BY <1>4, Zenon DEF Game!Type, Game!NoInput, Game!LongJump, Game!ExecuteCommand, Game!CommandsDone,
       Game!NothingToAccept, Game!AllRead, Game!Physics, Game!Exit, Game!At
  <2> QED BY <2>1 DEF SInv, Placed
<1> QED BY <1>5, <1>6, HearStill, RungStill DEF SInv

\* Until a level ends or another begins, no stage of its sign-on is taken back, told
\* twice or asked for twice: what comes late, a stale answer or a reconnect, finds the
\* handshake where it left it.  With HandshakeNeverStalls, what SignsOn rests on.
THEOREM HandshakeOnlyClimbs == OneGame /\ OrdinaryGame => (Game!Spec => Climbs)
<1> SUFFICES ASSUME OneGame, OrdinaryGame PROVE Game!Spec => Climbs
  OBVIOUS
<1>1. Game!Init => SInv /\ Order
  BY GameInit, GameInitOrder
<1>2. SInv /\ Order /\ [Game!Next]_Game!vars => (SInv /\ Order)'
  BY GameNextSInv, GameNextOrder
<1>3. SInv /\ Order /\ [Game!Next]_Game!vars
        => [SameLevel /\ SameLevel' => Rung' >= Rung]_Game!vars
  <2> SUFFICES ASSUME SInv, Order, Game!Next, SameLevel, SameLevel' PROVE Rung' >= Rung
    OBVIOUS
  <2>1. SInv' /\ Quiet'
    BY GameNextSInv DEF SameLevel
  <2>2. CASE todo = <<reconnect>>
    BY <2>2, OnlyReconnects, ReconnectClimbs
  <2>3. CASE todo = <<>>
    BY <2>1, <2>3, SendCmdClimbs, ReadingClimbs, ServerCommandClimbs, DatagramClimbs, DeliverClimbs,
       ParsingClimbs, OthersClimb, RungFacts
  <2> QED BY <2>2, <2>3 DEF SameLevel, Quiet
<1> QED BY <1>1, <1>2, <1>3, PTL DEF Game!Spec, Climbs

=============================================================================
