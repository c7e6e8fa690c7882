--------------------------- MODULE LeanIMTProofs ----------------------------
(***************************************************************************)
(* The lemmas the proofs about the tree and its storage share, for every   *)
(* arity and number of leaves.  A node of level l is right for a sequence  *)
(* of leaves if it is the Merkle node over its group there (Layer, Right); *)
(* insert_many keeps that, also when the tree it grows was loaded from     *)
(* files whose nodes to the right of the last full group are stale, as     *)
(* long as the nodes it reads are right (Trusted).  Depth, the number of   *)
(* nodes of a level and the frontier of a batch are arithmetic of Power.   *)
(***************************************************************************)
EXTENDS LeanIMT, SequenceTheorems, NaturalsInduction, WellFoundedInduction, TLAPS

-----------------------------------------------------------------------------
(***************************************************************************)
(* Induction and sequences.                                                *)
(***************************************************************************)
\* Induction over a set of numbers.
LEMMA Inductive ==
    ASSUME NEW S, 0 \in S, \A n \in Nat : n \in S => n + 1 \in S
    PROVE  \A n \in Nat : n \in S
  <1> DEFINE Less == {ss \in Nat \X Nat : ss[1] < ss[2]}
             Out  == Nat \ S
  <1>1. IsWellFoundedOn(Less, Nat)
    BY NatLessThanWellFounded DEF OpToRel
  <1>2. SUFFICES ASSUME Out # {} PROVE FALSE
    OBVIOUS
  <1>3. PICK n \in Out : \A m \in Out : <<m, n>> \notin Less
    BY <1>1, <1>2, WFMin
  <1>4. n \in Nat /\ n # 0 /\ n - 1 \in Nat
    BY <1>3
  <1>5. n - 1 \in S
    <2>1. <<n - 1, n>> \in Less
      BY <1>4
    <2>2. n - 1 \notin Out
      BY <1>3, <2>1, Zenon
    <2>3. QED
      BY <1>4, <2>2
  <1>6. n - 1 + 1 = n
    BY <1>4
  <1>7. QED
    BY <1>3, <1>4, <1>5, <1>6

\* A finite sequence, whatever its elements are.
IsSeq(s) == Len(s) \in Nat /\ s = [k \in 1..Len(s) |-> s[k]]

LEMMA TableIsSeq ==
    ASSUME NEW s, NEW n \in Nat, s = [k \in 1..n |-> s[k]]
    PROVE  IsSeq(s) /\ Len(s) = n
  BY DEF IsSeq

LEMMA TypedIsSeq ==
    ASSUME NEW S, NEW s \in Seq(S)
    PROVE  IsSeq(s)
  BY LenProperties DEF IsSeq

LEMMA ConcatIsSeq ==
    ASSUME NEW s, NEW t, IsSeq(s), IsSeq(t)
    PROVE  /\ IsSeq(s \o t) /\ Len(s \o t) = Len(s) + Len(t)
           /\ \A k \in 1..Len(s) + Len(t) :
                (s \o t)[k] = IF k <= Len(s) THEN s[k] ELSE t[k - Len(s)]
  <1> DEFINE S == {s[k] : k \in 1..Len(s)} \cup {t[k] : k \in 1..Len(t)}
  <1>1. s \in Seq(S) /\ t \in Seq(S)
    BY DEF IsSeq
  <1> HIDE DEF S
  <1>2. QED
    BY <1>1, ConcatProperties, TypedIsSeq

LEMMA SubSeqIsSeq ==
    ASSUME NEW s, IsSeq(s), NEW a \in Nat \ {0}, NEW b \in Nat, b <= Len(s), a <= b + 1
    PROVE  /\ IsSeq(SubSeq(s, a, b)) /\ Len(SubSeq(s, a, b)) = b - a + 1
           /\ \A k \in 1..b - a + 1 : SubSeq(s, a, b)[k] = s[a + k - 1]
  <1> DEFINE S == {s[k] : k \in 1..Len(s)}
  <1>1. \A i \in a..b : s[i] \in S
    <2>1. \A i \in a..b : i \in 1..Len(s)
      BY DEF IsSeq
    <2>2. QED
      BY <2>1
  <1> HIDE DEF S
  <1>2. a \in Int /\ b \in Int /\ Len(s) \in Nat
    BY DEF IsSeq
  <1>3. /\ SubSeq(s, a, b) \in Seq(S)
        /\ Len(SubSeq(s, a, b)) = IF a <= b THEN b - a + 1 ELSE 0
        /\ \A k \in 1..b - a + 1 : SubSeq(s, a, b)[k] = s[a + k - 1]
    BY <1>1, <1>2, SubSeqProperties
  <1>4. IsSeq(SubSeq(s, a, b))
    BY <1>3, TypedIsSeq
  <1>5. Len(SubSeq(s, a, b)) = b - a + 1
    BY <1>2, <1>3
  <1>6. QED
    BY <1>3, <1>4, <1>5

LEMMA AppendIsSeq ==
    ASSUME NEW s, NEW e, IsSeq(s)
    PROVE  /\ IsSeq(Append(s, e)) /\ Len(Append(s, e)) = Len(s) + 1
           /\ \A k \in 1..Len(s) : Append(s, e)[k] = s[k]
           /\ Append(s, e)[Len(s) + 1] = e
  <1> DEFINE S == {s[k] : k \in 1..Len(s)} \cup {e}
  <1>1. s \in Seq(S) /\ e \in S
    BY DEF IsSeq
  <1> HIDE DEF S
  <1>2. Append(s, e) \in Seq(S)
    BY <1>1, AppendProperties
  <1>3. IsSeq(Append(s, e))
    BY <1>2, TypedIsSeq
  <1>4. QED
    BY <1>1, <1>3, AppendProperties

LEMMA SeqEqual2 ==
    ASSUME NEW s, NEW t, IsSeq(s), IsSeq(t), Len(s) = Len(t), \A k \in 1..Len(s) : s[k] = t[k]
    PROVE  s = t
  BY DEF IsSeq

LEMMA EmptyIsSeq == IsSeq(<<>>) /\ Len(<<>>) = 0
  BY DEF IsSeq
LEMMA OneIsSeq == ASSUME NEW e PROVE IsSeq(<<e>>) /\ Len(<<e>>) = 1 /\ <<e>>[1] = e
  BY DEF IsSeq

(***************************************************************************)
(* Powers.                                                                 *)
(***************************************************************************)
PowerTable(f, n, e) == f = [k \in 0..e |-> IF k = 0 THEN 1 ELSE n * f[k - 1]]

LEMMA PowerTableExists ==
    ASSUME NEW n \in Nat, NEW e \in Nat
    PROVE  \E f : PowerTable(f, n, e)
  <1> DEFINE Good == {m \in Nat : \E f : PowerTable(f, n, m)}
  <1>1. 0 \in Good
    <2> DEFINE g == [k \in 0..0 |-> 1]
    <2>1. PowerTable(g, n, 0)
      BY DEF PowerTable
    <2>2. QED
      BY <2>1, Zenon
  <1>2. ASSUME NEW m \in Nat, m \in Good PROVE m + 1 \in Good
    <2>1. PICK f : PowerTable(f, n, m)
      BY <1>2, Zenon
    <2> DEFINE g == [k \in 0..m + 1 |-> IF k = m + 1 THEN n * f[m] ELSE f[k]]
    <2>2. ASSUME NEW k \in 0..m + 1 PROVE g[k] = IF k = 0 THEN 1 ELSE n * g[k - 1]
      BY <2>1 DEF PowerTable
    <2>3. PowerTable(g, n, m + 1)
      BY <2>2 DEF PowerTable
    <2>4. m + 1 \in Nat
      OBVIOUS
    <2> HIDE DEF g
    <2>5. QED
      BY <2>3, <2>4
  <1>3. e \in Good
    BY <1>1, <1>2, Inductive
  <1>4. QED
    BY <1>3

LEMMA PowerTableUnique ==
    ASSUME NEW n \in Nat, NEW d \in Nat, NEW e \in Nat, d <= e, NEW f, NEW g,
           PowerTable(f, n, d), PowerTable(g, n, e)
    PROVE  \A k \in 0..d : f[k] = g[k]
  <1> DEFINE Same == {k \in Nat : k <= d => f[k] = g[k]}
  <1>1. 0 \in Same
    BY DEF PowerTable
  <1>2. ASSUME NEW k \in Nat, k \in Same PROVE k + 1 \in Same
    <2>1. SUFFICES ASSUME k + 1 <= d PROVE f[k + 1] = g[k + 1]
      OBVIOUS
    <2>2. f[k + 1] = n * f[k] /\ g[k + 1] = n * g[k]
      BY <2>1 DEF PowerTable
    <2>3. QED
      BY <1>2, <2>1, <2>2
  <1>3. \A k \in Nat : k \in Same
    <2> HIDE DEF Same
    <2>1. QED
      BY <1>1, <1>2, Inductive
  <1>4. QED
    BY <1>3

LEMMA PowerIsTable ==
    ASSUME NEW n \in Nat, NEW e \in Nat, NEW f, PowerTable(f, n, e)
    PROVE  Power(n, e) = f[e]
  <1> DEFINE chosen == CHOOSE g : g = [k \in 0..e |-> IF k = 0 THEN 1 ELSE n * g[k - 1]]
  <1>1. PowerTable(chosen, n, e)
    BY Zenon DEF PowerTable
  <1>2. Power(n, e) = chosen[e]
    BY DEF Power
  <1>3. QED
    BY <1>1, <1>2, PowerTableUnique

LEMMA PowerSteps ==
    ASSUME NEW n \in Nat
    PROVE  /\ Power(n, 0) = 1
           /\ \A e \in Nat : Power(n, e + 1) = n * Power(n, e)
  <1>1. Power(n, 0) = 1
    <2>1. PICK f : PowerTable(f, n, 0)
      BY PowerTableExists
    <2>2. f[0] = 1
      BY <2>1 DEF PowerTable
    <2>3. QED
      BY <2>1, <2>2, PowerIsTable
  <1>2. ASSUME NEW e \in Nat PROVE Power(n, e + 1) = n * Power(n, e)
    <2>1. PICK f : PowerTable(f, n, e)
      BY PowerTableExists
    <2>2. PICK g : PowerTable(g, n, e + 1)
      BY PowerTableExists
    <2>3. Power(n, e) = f[e] /\ Power(n, e + 1) = g[e + 1]
      BY <2>1, <2>2, PowerIsTable
    <2>4. f[e] = g[e]
      BY <2>1, <2>2, PowerTableUnique
    <2>5. g[e + 1] = n * g[e]
      BY <2>2 DEF PowerTable
    <2>6. QED
      BY <2>3, <2>4, <2>5
  <1>3. QED
    BY <1>1, <1>2

LEMMA PowerPositive ==
    ASSUME NEW n \in Nat \ {0}, NEW e \in Nat
    PROVE  Power(n, e) \in Nat \ {0}
  <1> DEFINE Good == {k \in Nat : Power(n, k) \in Nat \ {0}}
  <1>1. 0 \in Good
    BY PowerSteps
  <1>2. ASSUME NEW k \in Nat, k \in Good PROVE k + 1 \in Good
    <2>1. Power(n, k + 1) = n * Power(n, k)
      BY PowerSteps
    <2>2. ASSUME NEW x \in Nat \ {0} PROVE n * x \in Nat \ {0}
      OBVIOUS
    <2>3. QED
      BY <1>2, <2>1, <2>2
  <1>3. \A k \in Nat : k \in Good
    <2> HIDE DEF Good
    <2>1. QED
      BY <1>1, <1>2, Inductive
  <1>4. QED
    BY <1>3

LEMMA PowerAscends ==
    ASSUME NEW n \in Nat \ {0, 1}, NEW d \in Nat, NEW e \in Nat, d < e
    PROVE  Power(n, d) < Power(n, e)
  <1> DEFINE Good == {k \in Nat : Power(n, d) < Power(n, d + 1 + k)}
  <1>0. \A k \in Nat : Power(n, k) \in Nat \ {0}
    BY PowerPositive
  <1>1. ASSUME NEW k \in Nat PROVE Power(n, k) < Power(n, k + 1)
    <2>1. Power(n, k + 1) = n * Power(n, k)
      BY PowerSteps
    <2>2. ASSUME NEW x \in Nat \ {0} PROVE x < n * x
      OBVIOUS
    <2>3. QED
      BY <1>0, <2>1, <2>2
  <1>2. 0 \in Good
    BY <1>1
  <1>3. ASSUME NEW k \in Nat, k \in Good PROVE k + 1 \in Good
    <2>1. Power(n, d + 1 + k) < Power(n, d + 1 + k + 1)
      BY <1>1
    <2>2. d + 1 + k + 1 = d + 1 + (k + 1)
      OBVIOUS
    <2>3. Power(n, d) \in Nat /\ Power(n, d + 1 + k) \in Nat /\ Power(n, d + 1 + (k + 1)) \in Nat
      BY <1>0
    <2>4. QED
      BY <1>3, <2>1, <2>2, <2>3
  <1>4. \A k \in Nat : k \in Good
    <2> HIDE DEF Good
    <2>1. QED
      BY <1>2, <1>3, Inductive
  <1>5. e - d - 1 \in Nat /\ d + 1 + (e - d - 1) = e
    OBVIOUS
  <1>6. QED
    BY <1>4, <1>5

LEMMA PowerAboveExponent ==
    ASSUME NEW n \in Nat \ {0, 1}, NEW e \in Nat
    PROVE  Power(n, e) > e
  <1> DEFINE Good == {k \in Nat : Power(n, k) > k}
  <1>1. 0 \in Good
    BY PowerSteps
  <1>2. ASSUME NEW k \in Nat, k \in Good PROVE k + 1 \in Good
    <2>1. k + 1 \in Nat /\ k < k + 1 /\ n \in Nat \ {0}
      OBVIOUS
    <2>2. Power(n, k) < Power(n, k + 1)
      BY <2>1, PowerAscends
    <2>3. Power(n, k) \in Nat /\ Power(n, k + 1) \in Nat
      BY <2>1, PowerPositive
    <2>4. QED
      BY <1>2, <2>2, <2>3
  <1>3. \A k \in Nat : k \in Good
    <2> HIDE DEF Good
    <2>1. QED
      BY <1>1, <1>2, Inductive
  <1>4. QED
    BY <1>3

LEMMA PowerSum ==
    ASSUME NEW n \in Nat \ {0}, NEW d \in Nat, NEW e \in Nat
    PROVE  Power(n, d + e) = Power(n, d) * Power(n, e)
  <1> DEFINE Good == {k \in Nat : Power(n, d + k) = Power(n, d) * Power(n, k)}
  <1>0. \A k \in Nat : Power(n, k) \in Nat
    BY PowerPositive
  <1>1. 0 \in Good
    BY <1>0, PowerSteps
  <1>2. ASSUME NEW k \in Nat, k \in Good PROVE k + 1 \in Good
    <2>1. Power(n, d + k + 1) = n * Power(n, d + k) /\ Power(n, k + 1) = n * Power(n, k)
      BY PowerSteps
    <2>2. ASSUME NEW x \in Nat, NEW y \in Nat PROVE n * (x * y) = x * (n * y)
      OBVIOUS
    <2>3. d + k + 1 = d + (k + 1)
      OBVIOUS
    <2>4. QED
      BY <1>0, <1>2, <2>1, <2>2, <2>3
  <1>3. \A k \in Nat : k \in Good
    <2> HIDE DEF Good
    <2>1. QED
      BY <1>1, <1>2, Inductive
  <1>4. QED
    BY <1>3

LEMMA PowerOfPower ==
    ASSUME NEW b \in Nat \ {0}, NEW m \in Nat, NEW e \in Nat
    PROVE  Power(Power(b, m), e) = Power(b, m * e)
  <1> DEFINE Good == {k \in Nat : Power(Power(b, m), k) = Power(b, m * k)}
  <1>0. Power(b, m) \in Nat \ {0}
    BY PowerPositive
  <1>1. 0 \in Good
    BY <1>0, PowerSteps
  <1>2. ASSUME NEW k \in Nat, k \in Good PROVE k + 1 \in Good
    <2>1. Power(Power(b, m), k + 1) = Power(b, m) * Power(Power(b, m), k)
      BY <1>0, PowerSteps
    <2>2. m * k \in Nat /\ m * (k + 1) = m + m * k
      OBVIOUS
    <2>3. Power(b, m + m * k) = Power(b, m) * Power(b, m * k)
      BY <2>2, PowerSum
    <2>4. QED
      BY <1>2, <2>1, <2>2, <2>3
  <1>3. \A k \in Nat : k \in Good
    <2> HIDE DEF Good
    <2>1. QED
      BY <1>1, <1>2, Inductive
  <1>4. QED
    BY <1>3

(***************************************************************************)
(* Depths.                                                                 *)
(***************************************************************************)
\* There is a first power above a number.
LEMMA FirstPowerAbove ==
    ASSUME NEW n \in Nat \ {0, 1}, NEW v \in Nat
    PROVE  \E b \in 0..v + 1 : Power(n, b) > v /\ \A c \in 0..b - 1 : Power(n, c) <= v
  <1> DEFINE Below == {k \in Nat : \A c \in 0..k : Power(n, c) <= v}
  <1>0. \A k \in Nat : Power(n, k) \in Nat
    BY PowerPositive
  <1>1. SUFFICES ASSUME ~\E b \in 0..v + 1 : Power(n, b) > v /\ \A c \in 0..b - 1 : Power(n, c) <= v
                 PROVE  FALSE
    OBVIOUS
  <1>2. ASSUME NEW k \in Nat, \A c \in 0..k - 1 : Power(n, c) <= v PROVE Power(n, k) <= v
    <2>1. CASE k <= v + 1
      BY <1>0, <1>1, <1>2, <2>1
    <2>2. CASE k > v + 1
      <3>1. v + 1 \in 0..k - 1 /\ v + 1 \in Nat
        BY <2>2
      <3>2. Power(n, v + 1) <= v
        BY <1>2, <3>1
      <3>3. Power(n, v + 1) > v + 1
        BY <3>1, PowerAboveExponent
      <3>4. QED
        BY <1>0, <3>1, <3>2, <3>3
    <2>3. QED
      BY <2>1, <2>2
  <1>3. 0 \in Below
    <2>1. Power(n, 0) <= v
      BY <1>2
    <2>2. QED
      BY <2>1
  <1>4. ASSUME NEW k \in Nat, k \in Below PROVE k + 1 \in Below
    <2>1. Power(n, k + 1) <= v
      BY <1>2, <1>4
    <2>2. QED
      BY <1>4, <2>1
  <1>5. v + 1 \in Below
    <2> HIDE DEF Below
    <2>1. QED
      BY <1>3, <1>4, Inductive
  <1>6. Power(n, v + 1) <= v /\ Power(n, v + 1) > v + 1
    BY <1>5, PowerAboveExponent
  <1>7. QED
    BY <1>0, <1>6

LEMMA BitLengthBounds ==
    ASSUME NEW v \in Nat \ {0}
    PROVE  /\ BitLength(v) \in Nat \ {0}
           /\ Power(2, BitLength(v)) > v /\ Power(2, BitLength(v) - 1) <= v
  <1> DEFINE b == BitLength(v)
  <1>1. b \in 0..v + 1 /\ Power(2, b) > v /\ \A c \in 0..b - 1 : Power(2, c) <= v
    <2>1. \E c \in 0..v + 1 : Power(2, c) > v /\ \A d \in 0..c - 1 : Power(2, d) <= v
      BY FirstPowerAbove
    <2>2. QED
      BY <2>1, Zenon DEF BitLength
  <1>2. Power(2, 0) = 1
    BY PowerSteps
  <1>3. b # 0
    BY <1>1, <1>2
  <1>4. QED
    BY <1>1, <1>3

LEMMA ILogBounds ==
    ASSUME NEW v \in Nat \ {0}, NEW n \in Nat \ {0, 1}
    PROVE  /\ ILog(v, n) \in Nat
           /\ Power(n, ILog(v, n)) <= v /\ Power(n, ILog(v, n) + 1) > v
  <1>1. PICK b \in 0..v + 1 : Power(n, b) > v /\ \A c \in 0..b - 1 : Power(n, c) <= v
    BY FirstPowerAbove
  <1>2. Power(n, 0) = 1
    BY PowerSteps
  <1>3. b # 0
    BY <1>1, <1>2
  <1>4. b - 1 \in 0..v /\ b - 1 + 1 = b /\ b - 1 \in 0..b - 1
    BY <1>3
  <1>5. Power(n, b - 1) <= v /\ Power(n, b - 1 + 1) > v
    BY <1>1, <1>4
  <1>6. \E e \in 0..v : Power(n, e) <= v /\ Power(n, e + 1) > v
    BY <1>4, <1>5
  <1>7. ILog(v, n) \in 0..v /\ Power(n, ILog(v, n)) <= v /\ Power(n, ILog(v, n) + 1) > v
    BY <1>6, Zenon DEF ILog
  <1>8. QED
    BY <1>7

\* CeilDiv rounds up.
LEMMA CeilDivBounds ==
    ASSUME NEW a \in Nat, NEW b \in Nat \ {0}
    PROVE  /\ CeilDiv(a, b) \in Nat
           /\ a <= b * CeilDiv(a, b) /\ b * CeilDiv(a, b) < a + b
  BY DEF CeilDiv

\* The depth is the least whose tree has room for so many leaves.
LEMMA DepthBounds ==
    ASSUME NEW n \in Nat \ {0, 1}, NEW size \in Nat
    PROVE  /\ CeilLogN(size, n) \in Nat
           /\ size <= Power(n, CeilLogN(size, n))
           /\ CeilLogN(size, n) > 0 => Power(n, CeilLogN(size, n) - 1) < size
           /\ size <= 1 => CeilLogN(size, n) = 0
  <1> DEFINE d == CeilLogN(size, n)
  <1>1. CASE size <= 1
    <2>1. d = 0
      BY <1>1 DEF CeilLogN
    <2>2. Power(n, 0) = 1
      BY PowerSteps
    <2>3. QED
      BY <1>1, <2>1, <2>2
  <1>2. CASE size > 1 /\ IsPowerOfTwo(n)
    <2> DEFINE m == BitLength(n) - 1
               b == BitLength(size - 1)
    <2>1. d = CeilDiv(b, m)
      BY <1>2 DEF CeilLogN
    <2>2. /\ b \in Nat \ {0} /\ Power(2, b) > size - 1 /\ Power(2, b - 1) <= size - 1
          /\ m \in Nat
      BY <1>2, BitLengthBounds
    <2>3. n = Power(2, m)
      BY <1>2 DEF IsPowerOfTwo
    <2>4. m # 0
      <3>1. Power(2, 0) = 1
        BY PowerSteps
      <3>2. QED
        BY <2>3, <3>1
    <2> HIDE DEF m, b, d
    <2>5. d \in Nat /\ b <= m * d /\ m * d < b + m
      BY <2>1, <2>2, <2>4, CeilDivBounds
    <2>6. d # 0
      BY <2>2, <2>5
    <2>7. \A e \in Nat : Power(n, e) = Power(2, m * e)
      BY <2>2, <2>3, PowerOfPower
    <2>8. \A e \in Nat : Power(2, e) \in Nat
      BY PowerPositive
    <2>9. m * d \in Nat /\ d - 1 \in Nat /\ m * (d - 1) \in Nat /\ m * (d - 1) <= b - 1 /\ b - 1 \in Nat
      BY <2>2, <2>5, <2>6
    <2>10. Power(2, b) <= Power(2, m * d)
      BY <2>2, <2>5, <2>8, <2>9, PowerAscends
    <2>11. Power(2, m * (d - 1)) <= Power(2, b - 1)
      <3> DEFINE x == m * (d - 1)
                 y == b - 1
      <3>1. x \in Nat /\ y \in Nat /\ x <= y
        BY <2>9
      <3> HIDE DEF x, y
      <3>2. Power(2, x) <= Power(2, y)
        BY <2>8, <3>1, PowerAscends
      <3>3. QED
        BY <3>2 DEF x, y
    <2>12. size <= Power(n, d)
      BY <2>2, <2>5, <2>7, <2>8, <2>9, <2>10
    <2>13. Power(n, d - 1) < size
      BY <2>2, <2>7, <2>8, <2>9, <2>11
    <2>14. QED
      BY <1>2, <2>5, <2>12, <2>13 DEF d
  <1>3. CASE size > 1 /\ ~IsPowerOfTwo(n)
    <2>1. d = ILog(size - 1, n) + 1
      BY <1>3 DEF CeilLogN
    <2>2. /\ ILog(size - 1, n) \in Nat
          /\ Power(n, ILog(size - 1, n)) <= size - 1 /\ Power(n, ILog(size - 1, n) + 1) > size - 1
      BY <1>3, ILogBounds
    <2>3. d \in Nat /\ d - 1 = ILog(size - 1, n) /\ d > 0
      BY <2>1, <2>2
    <2>4. Power(n, d) > size - 1 /\ Power(n, d - 1) <= size - 1
      BY <2>1, <2>2, <2>3
    <2>5. Power(n, d) \in Nat /\ Power(n, d - 1) \in Nat
      BY <2>2, <2>3, PowerPositive
    <2>6. QED
      BY <1>3, <2>3, <2>4, <2>5
  <1>4. QED
    BY <1>1, <1>2, <1>3

LEMMA DepthAscends ==
    ASSUME NEW n \in Nat \ {0, 1}, NEW small \in Nat, NEW large \in Nat, small <= large
    PROVE  CeilLogN(small, n) <= CeilLogN(large, n)
  <1> DEFINE d == CeilLogN(small, n)
             e == CeilLogN(large, n)
  <1>1. d \in Nat /\ e \in Nat /\ large <= Power(n, e) /\ (d > 0 => Power(n, d - 1) < small)
    BY DepthBounds
  <1>2. SUFFICES ASSUME e < d PROVE FALSE
    BY <1>1
  <1>3. d - 1 \in Nat /\ e <= d - 1 /\ Power(n, e) \in Nat /\ Power(n, d - 1) \in Nat
    BY <1>1, <1>2, PowerPositive, SMTT(30)
  <1>4. Power(n, e) <= Power(n, d - 1)
    BY <1>1, <1>3, PowerAscends
  <1>5. QED
    BY <1>1, <1>2, <1>3, <1>4

(***************************************************************************)
(* The layers of the Merkle tree over a sequence of leaves.                *)
(***************************************************************************)
Parents(level, n) == [p \in 1..CeilDiv(Len(level), n) |-> GroupHash(Group(level, p - 1, n))]

FrontierTable(f, leaves, depth, n) ==
    f = [l \in 0..depth |-> IF l = 0 THEN leaves ELSE Parents(f[l - 1], n)]

\* Layer l: every node the hash of the group below it.
Layer(leaves, l, n) == Frontier(leaves, l, n)[l]

LEMMA FrontierTableExists ==
    ASSUME NEW leaves, NEW n, NEW depth \in Nat
    PROVE  \E f : FrontierTable(f, leaves, depth, n)
  <1> DEFINE Good == {m \in Nat : \E f : FrontierTable(f, leaves, m, n)}
  <1>1. 0 \in Good
    <2> DEFINE g == [k \in 0..0 |-> leaves]
    <2>1. FrontierTable(g, leaves, 0, n)
      BY DEF FrontierTable
    <2>2. QED
      BY <2>1, Zenon
  <1>2. ASSUME NEW m \in Nat, m \in Good PROVE m + 1 \in Good
    <2>1. PICK f : FrontierTable(f, leaves, m, n)
      BY <1>2, Zenon
    <2> DEFINE g == [k \in 0..m + 1 |-> IF k = m + 1 THEN Parents(f[m], n) ELSE f[k]]
    <2>2. ASSUME NEW k \in 0..m + 1 PROVE g[k] = IF k = 0 THEN leaves ELSE Parents(g[k - 1], n)
      BY <2>1 DEF FrontierTable
    <2>3. FrontierTable(g, leaves, m + 1, n)
      BY <2>2 DEF FrontierTable
    <2>4. m + 1 \in Nat
      OBVIOUS
    <2> HIDE DEF g
    <2>5. QED
      BY <2>3, <2>4
  <1>3. depth \in Good
    BY <1>1, <1>2, Inductive
  <1>4. QED
    BY <1>3

LEMMA FrontierTableUnique ==
    ASSUME NEW leaves, NEW n, NEW d \in Nat, NEW e \in Nat, d <= e, NEW f, NEW g,
           FrontierTable(f, leaves, d, n), FrontierTable(g, leaves, e, n)
    PROVE  \A k \in 0..d : f[k] = g[k]
  <1> DEFINE Same == {k \in Nat : k <= d => f[k] = g[k]}
  <1>1. 0 \in Same
    BY DEF FrontierTable
  <1>2. ASSUME NEW k \in Nat, k \in Same PROVE k + 1 \in Same
    <2>1. SUFFICES ASSUME k + 1 <= d PROVE f[k + 1] = g[k + 1]
      OBVIOUS
    <2>2. f[k + 1] = Parents(f[k], n) /\ g[k + 1] = Parents(g[k], n)
      BY <2>1 DEF FrontierTable
    <2>3. QED
      BY <1>2, <2>1, <2>2
  <1>3. \A k \in Nat : k \in Same
    <2> HIDE DEF Same
    <2>1. QED
      BY <1>1, <1>2, Inductive
  <1>4. QED
    BY <1>3

LEMMA FrontierIsTable ==
    ASSUME NEW leaves, NEW n, NEW depth \in Nat
    PROVE  FrontierTable(Frontier(leaves, depth, n), leaves, depth, n)
  <1> DEFINE step(f) == [l \in 0..depth |->
                           IF l = 0 THEN leaves
                           ELSE LET below == f[l - 1]
                                IN [p \in 1..CeilDiv(Len(below), n) |-> GroupHash(Group(below, p - 1, n))]]
             chosen == CHOOSE f : f = step(f)
  <1>1. \E f : f = step(f)
    <2>1. PICK f : FrontierTable(f, leaves, depth, n)
      BY FrontierTableExists
    <2>2. f = step(f)
      BY <2>1 DEF FrontierTable, Parents
    <2>3. QED
      BY <2>2, Zenon
  <1>2. chosen = step(chosen)
    BY <1>1, Zenon
  <1>3. Frontier(leaves, depth, n) = chosen
    BY DEF Frontier
  <1>4. ASSUME NEW f, f = step(f) PROVE FrontierTable(f, leaves, depth, n)
    BY <1>4 DEF FrontierTable, Parents
  <1> HIDE DEF chosen, step
  <1>5. QED
    BY <1>2, <1>3, <1>4

LEMMA LayerSteps ==
    ASSUME NEW leaves, NEW n
    PROVE  /\ Layer(leaves, 0, n) = leaves
           /\ \A l \in Nat : Layer(leaves, l + 1, n) = Parents(Layer(leaves, l, n), n)
           /\ \A d \in Nat : \A l \in 0..d : Frontier(leaves, d, n)[l] = Layer(leaves, l, n)
  <1>1. ASSUME NEW d \in Nat, NEW l \in 0..d PROVE Frontier(leaves, d, n)[l] = Layer(leaves, l, n)
    <2>1. FrontierTable(Frontier(leaves, d, n), leaves, d, n) /\ FrontierTable(Frontier(leaves, l, n), leaves, l, n)
      BY FrontierIsTable
    <2>2. QED
      BY <2>1, FrontierTableUnique DEF Layer
  <1>2. Layer(leaves, 0, n) = leaves
    <2>1. FrontierTable(Frontier(leaves, 0, n), leaves, 0, n)
      BY FrontierIsTable
    <2>2. QED
      BY <2>1 DEF Layer, FrontierTable
  <1>3. ASSUME NEW l \in Nat PROVE Layer(leaves, l + 1, n) = Parents(Layer(leaves, l, n), n)
    <2> DEFINE f == Frontier(leaves, l + 1, n)
    <2>1. FrontierTable(f, leaves, l + 1, n)
      BY FrontierIsTable
    <2>2. f[l] = Layer(leaves, l, n)
      BY <1>1
    <2>3. f[l + 1] = Parents(f[l], n)
      BY <2>1 DEF FrontierTable
    <2>4. QED
      BY <2>2, <2>3 DEF Layer
  <1>4. QED
    BY <1>1, <1>2, <1>3

LEMMA CeilDivNested ==
    ASSUME NEW a \in Nat, NEW b \in Nat \ {0}, NEW c \in Nat \ {0}
    PROVE  CeilDiv(CeilDiv(a, b), c) = CeilDiv(a, c * b)
  <1> DEFINE x == CeilDiv(a, b)
             y == CeilDiv(x, c)
             z == CeilDiv(a, c * b)
  <1>0. c * b \in Nat \ {0}
    OBVIOUS
  <1>1. x \in Nat /\ a <= b * x /\ b * x < a + b
    BY CeilDivBounds
  <1>2. y \in Nat /\ x <= c * y /\ c * y < x + c
    BY <1>1, CeilDivBounds
  <1>3. z \in Nat /\ a <= c * b * z /\ c * b * z < a + c * b
    BY <1>0, CeilDivBounds
  <1> HIDE DEF x, y, z
  <1>4. y <= z
    <2>1. SUFFICES ASSUME z + 1 <= y PROVE FALSE
      BY <1>2, <1>3
    <2>2. c * (z + 1) <= c * y
      BY <1>2, <1>3, <2>1
    <2>3. c * z + c < x + c
      BY <1>1, <1>2, <1>3, <2>2
    <2>4. c * z + 1 <= x /\ c * z \in Nat
      BY <1>1, <1>3, <2>3
    <2>5. b * (c * z + 1) <= b * x
      BY <1>1, <2>4
    <2>6. b * (c * z + 1) = c * b * z + b
      BY <1>3
    <2>7. QED
      BY <1>1, <1>3, <2>5, <2>6
  <1>5. z <= y
    <2>1. SUFFICES ASSUME y + 1 <= z PROVE FALSE
      BY <1>2, <1>3
    <2>2. b * x <= b * (c * y)
      BY <1>1, <1>2
    <2>3. c * b * (y + 1) <= c * b * z
      BY <1>0, <1>2, <1>3, <2>1
    <2>4. c * b * (y + 1) = b * (c * y) + c * b
      BY <1>2
    <2>5. QED
      BY <1>1, <1>2, <1>3, <2>2, <2>3, <2>4
  <1>6. QED
    BY <1>2, <1>3, <1>4, <1>5 DEF x, y, z

\* What a group holds.
LEMMA GroupElements ==
    ASSUME NEW level, IsSeq(level), NEW n \in Nat \ {0}, NEW p \in Nat, p * n <= Len(level)
    PROVE  /\ IsSeq(Group(level, p, n))
           /\ Len(Group(level, p, n)) = LessOf(n, Len(level) - p * n)
           /\ \A k \in 1..LessOf(n, Len(level) - p * n) : Group(level, p, n)[k] = level[p * n + k]
  <1> DEFINE a == p * n + 1
             b == LessOf((p + 1) * n, Len(level))
  <1>1. Len(level) \in Nat /\ p * n \in Nat
    BY DEF IsSeq
  <1>2. (p + 1) * n = p * n + n
    OBVIOUS
  <1>3. a \in Nat \ {0} /\ b \in Nat /\ b <= Len(level) /\ a <= b + 1
    BY <1>1, <1>2 DEF LessOf
  <1>4. b - a + 1 = LessOf(n, Len(level) - p * n)
    <2>1. ASSUME NEW q \in Nat, NEW m \in Nat
          PROVE  LessOf(q + n, m) - (q + 1) + 1 = LessOf(n, m - q)
      BY DEF LessOf
    <2>2. QED
      BY <1>1, <1>2, <2>1
  <1>5. Group(level, p, n) = SubSeq(level, a, b)
    BY DEF Group
  <1> HIDE DEF b
  <1>6. /\ IsSeq(SubSeq(level, a, b)) /\ Len(SubSeq(level, a, b)) = b - a + 1
        /\ \A k \in 1..b - a + 1 : SubSeq(level, a, b)[k] = level[a + k - 1]
    BY <1>3, SubSeqIsSeq
  <1>7. ASSUME NEW k \in 1..LessOf(n, Len(level) - p * n) PROVE a + k - 1 = p * n + k
    BY <1>1 DEF LessOf
  <1>8. QED
    BY <1>4, <1>5, <1>6, <1>7

LEMMA FullGroup ==
    ASSUME NEW level, IsSeq(level), NEW n \in Nat \ {0}, NEW k \in Nat \ {0}, k * n <= Len(level)
    PROVE  /\ IsSeq(Group(level, k - 1, n)) /\ Len(Group(level, k - 1, n)) = n
           /\ \A j \in 1..n : Group(level, k - 1, n)[j] = level[(k - 1) * n + j]
  <1> DEFINE q == (k - 1) * n
             m == Len(level)
  <1>1. q = k * n - n /\ k * n \in Nat /\ k - 1 \in Nat /\ m \in Nat /\ q \in Nat
    BY DEF IsSeq
  <1>2. q <= m
    BY <1>1
  <1>3. LessOf(n, m - q) = n
    BY <1>1 DEF LessOf
  <1>4. /\ IsSeq(Group(level, k - 1, n))
        /\ Len(Group(level, k - 1, n)) = LessOf(n, m - q)
        /\ \A j \in 1..LessOf(n, m - q) : Group(level, k - 1, n)[j] = level[q + j]
    <2>1. ASSUME NEW p \in Nat, p * n <= Len(level)
          PROVE  /\ IsSeq(Group(level, p, n))
                 /\ Len(Group(level, p, n)) = LessOf(n, Len(level) - p * n)
                 /\ \A j \in 1..LessOf(n, Len(level) - p * n) : Group(level, p, n)[j] = level[p * n + j]
      BY <2>1, GroupElements
    <2>2. QED
      BY <1>1, <1>2, <2>1, Zenon
  <1>5. QED
    BY <1>3, <1>4

LEMMA LayerIsSeq ==
    ASSUME NEW leaves, IsSeq(leaves), NEW n \in Nat \ {0}, NEW l \in Nat
    PROVE  /\ IsSeq(Layer(leaves, l, n))
           /\ Len(Layer(leaves, l, n)) = CeilDiv(Len(leaves), Power(n, l))
  <1> DEFINE Good == {m \in Nat : /\ IsSeq(Layer(leaves, m, n))
                                  /\ Len(Layer(leaves, m, n)) = CeilDiv(Len(leaves), Power(n, m))}
  <1>1. 0 \in Good
    <2>1. Layer(leaves, 0, n) = leaves /\ Power(n, 0) = 1
      BY LayerSteps, PowerSteps
    <2>2. CeilDiv(Len(leaves), 1) = Len(leaves)
      BY CeilDivBounds DEF IsSeq
    <2>3. QED
      BY <2>1, <2>2
  <1>2. ASSUME NEW m \in Nat, m \in Good PROVE m + 1 \in Good
    <2> DEFINE below == Layer(leaves, m, n)
               size == CeilDiv(Len(below), n)
    <2>1. Layer(leaves, m + 1, n) = [p \in 1..size |-> GroupHash(Group(below, p - 1, n))]
      BY LayerSteps DEF Parents
    <2>2. Power(n, m + 1) = n * Power(n, m) /\ Power(n, m) \in Nat \ {0}
      BY PowerSteps, PowerPositive
    <2>3. Len(leaves) \in Nat /\ Len(below) \in Nat
      BY <1>2 DEF IsSeq
    <2>4. size \in Nat /\ size = CeilDiv(Len(leaves), Power(n, m + 1))
      <3>1. size = CeilDiv(CeilDiv(Len(leaves), Power(n, m)), n)
        BY <1>2
      <3>2. CeilDiv(CeilDiv(Len(leaves), Power(n, m)), n) = CeilDiv(Len(leaves), n * Power(n, m))
        BY <2>2, <2>3, CeilDivNested
      <3>3. size \in Nat
        BY <2>3, CeilDivBounds
      <3>4. QED
        BY <2>2, <3>1, <3>2, <3>3
    <2> HIDE DEF size
    <2>5. Layer(leaves, m + 1, n) = [p \in 1..size |-> Layer(leaves, m + 1, n)[p]]
      BY <2>1
    <2>6. IsSeq(Layer(leaves, m + 1, n)) /\ Len(Layer(leaves, m + 1, n)) = size
      BY <2>4, <2>5, TableIsSeq
    <2>7. QED
      BY <2>4, <2>6
  <1>3. \A m \in Nat : m \in Good
    <2> HIDE DEF Good
    <2>1. QED
      BY <1>1, <1>2, Inductive
  <1>4. QED
    BY <1>3

\* A node over leaves that are all there does not change when others follow.
LEMMA LayerStable ==
    ASSUME NEW old, NEW new, IsSeq(old), IsSeq(new), Len(old) <= Len(new),
           \A i \in 1..Len(old) : old[i] = new[i], NEW n \in Nat \ {0, 1}, NEW l \in Nat
    PROVE  \A k \in Nat \ {0} : k * Power(n, l) <= Len(old) =>
             Layer(old, l, n)[k] = Layer(new, l, n)[k]
  <1> DEFINE Good == {m \in Nat : \A k \in Nat \ {0} : k * Power(n, m) <= Len(old) =>
                                     Layer(old, m, n)[k] = Layer(new, m, n)[k]}
  <1>0. Len(old) \in Nat /\ Len(new) \in Nat
    BY DEF IsSeq
  <1>1. 0 \in Good
    <2>1. Layer(old, 0, n) = old /\ Layer(new, 0, n) = new /\ Power(n, 0) = 1
      BY LayerSteps, PowerSteps
    <2>2. QED
      BY <1>0, <2>1
  <1>2. ASSUME NEW m \in Nat, m \in Good PROVE m + 1 \in Good
    <2> DEFINE a == Layer(old, m, n)
               b == Layer(new, m, n)
               P == Power(n, m)
    <2>1. SUFFICES ASSUME NEW k \in Nat \ {0}, k * Power(n, m + 1) <= Len(old)
                   PROVE  Layer(old, m + 1, n)[k] = Layer(new, m + 1, n)[k]
      OBVIOUS
    <2>2. Power(n, m + 1) = n * P /\ P \in Nat \ {0}
      BY PowerSteps, PowerPositive
    <2>3. /\ IsSeq(a) /\ Len(a) = CeilDiv(Len(old), P)
          /\ IsSeq(b) /\ Len(b) = CeilDiv(Len(new), P)
      BY LayerIsSeq
    <2>4. /\ Layer(old, m + 1, n) = [p \in 1..CeilDiv(Len(a), n) |-> GroupHash(Group(a, p - 1, n))]
          /\ Layer(new, m + 1, n) = [p \in 1..CeilDiv(Len(b), n) |-> GroupHash(Group(b, p - 1, n))]
      BY LayerSteps, ZenonT(40) DEF Parents
    <2>5. \A j \in Nat \ {0} : j * P <= Len(old) => a[j] = b[j]
      BY <1>2
    <2> HIDE DEF a, b, P
    <2>6. ASSUME NEW s \in Nat, Len(old) <= s
          PROVE  CeilDiv(s, P) \in Nat /\ k * n <= CeilDiv(s, P)
      <3> DEFINE c == CeilDiv(s, P)
      <3>1. c \in Nat /\ s <= P * c
        BY <2>2, CeilDivBounds
      <3> HIDE DEF c
      <3>2. (k * n) * P <= P * c
        <4>1. (k * n) * P = k * (n * P) /\ k * (n * P) \in Nat
          BY <2>2
        <4>2. P * c \in Nat /\ k * Power(n, m + 1) = k * (n * P)
          BY <2>2, <3>1
        <4> DEFINE x == k * (n * P)
                   y == P * c
        <4>3. x \in Nat /\ y \in Nat /\ x <= Len(old) /\ s <= y
          BY <2>1, <3>1, <4>1, <4>2
        <4> HIDE DEF x, y
        <4>4. x <= y
          BY <1>0, <2>6, <4>3
        <4>5. QED
          BY <4>1, <4>4 DEF x, y
      <3>3. k * n <= c
        <4>1. SUFFICES ASSUME c < k * n PROVE FALSE
          BY <3>1
        <4>2. k * n \in Nat
          OBVIOUS
        <4>3. ASSUME NEW x \in Nat, c < x PROVE x * P > P * c
          BY <2>2, <3>1, <4>3
        <4>4. QED
          BY <2>2, <3>1, <3>2, <4>1, <4>2, <4>3
      <3>4. QED
        BY <3>1, <3>3 DEF c
    <2>7. Len(a) \in Nat /\ k * n <= Len(a) /\ Len(b) \in Nat /\ k * n <= Len(b)
      BY <1>0, <2>3, <2>6
    <2>8. ASSUME NEW s \in Nat, k * n <= s PROVE k \in 1..CeilDiv(s, n)
      <3>1. CeilDiv(s, n) \in Nat /\ s <= n * CeilDiv(s, n)
        BY CeilDivBounds
      <3>2. k <= CeilDiv(s, n)
        BY <2>8, <3>1
      <3>3. QED
        BY <3>1, <3>2
    <2>9. Group(a, k - 1, n) = Group(b, k - 1, n)
      <3>1. /\ IsSeq(Group(a, k - 1, n)) /\ Len(Group(a, k - 1, n)) = n
            /\ \A j \in 1..n : Group(a, k - 1, n)[j] = a[(k - 1) * n + j]
        BY <2>3, <2>7, FullGroup
      <3>2. /\ IsSeq(Group(b, k - 1, n)) /\ Len(Group(b, k - 1, n)) = n
            /\ \A j \in 1..n : Group(b, k - 1, n)[j] = b[(k - 1) * n + j]
        BY <2>3, <2>7, FullGroup
      <3>3. ASSUME NEW j \in 1..n PROVE a[(k - 1) * n + j] = b[(k - 1) * n + j]
        <4> DEFINE i == (k - 1) * n + j
        <4>1. i \in Nat \ {0} /\ i <= k * n
          OBVIOUS
        <4>2. ASSUME NEW x \in Nat, NEW y \in Nat, x <= y PROVE x * P <= y * P
          BY <2>2, <4>2
        <4>3. i * P <= (k * n) * P /\ (k * n) * P = k * (n * P)
          BY <2>2, <4>1, <4>2
        <4>4. i * P \in Nat /\ i * P <= Len(old)
          BY <1>0, <2>1, <2>2, <4>1, <4>3
        <4>5. QED
          BY <2>5, <4>1, <4>4
      <3>4. \A j \in 1..n : Group(a, k - 1, n)[j] = Group(b, k - 1, n)[j]
        BY <3>1, <3>2, <3>3
      <3>5. QED
        BY <3>1, <3>2, <3>4, SeqEqual2
    <2>10. QED
      BY <2>4, <2>7, <2>8, <2>9
  <1>3. \A m \in Nat : m \in Good
    <2> HIDE DEF Good
    <2>1. QED
      BY <1>1, <1>2, Inductive
  <1>4. QED
    BY <1>3

(***************************************************************************)
(* Insert.                                                                 *)
(***************************************************************************)
LEMMA DivBounds ==
    ASSUME NEW s \in Nat, NEW b \in Nat \ {0}
    PROVE  /\ s \div b \in Nat /\ s % b \in 0..b - 1
           /\ s = (s \div b) * b + (s % b)
           /\ (s \div b) * b <= s /\ s < (s \div b) * b + b
  OBVIOUS

LEMMA DivNested ==
    ASSUME NEW s \in Nat, NEW b \in Nat \ {0}, NEW c \in Nat \ {0}
    PROVE  s \div (c * b) = (s \div b) \div c
  OBVIOUS

LEMMA CeilDivNext ==
    ASSUME NEW s \in Nat, NEW b \in Nat \ {0}
    PROVE  CeilDiv(s + 1, b) = s \div b + 1
  BY DEF CeilDiv

\* The shape of a tree over some leaves: every level up to the depth is as long as
\* its groups say, and the others are empty.
IsTree(t) ==
    /\ t = [levels |-> t.levels, root |-> t.root, size |-> t.size, depth |-> t.depth]
    /\ t.levels = [l \in Levels |-> t.levels[l]]
    /\ \A l \in Levels : IsSeq(t.levels[l])

Stored(size, l, n) == IF l <= CeilLogN(size, n) THEN CeilDiv(size, Power(n, l)) ELSE 0

Shaped(t, leaves, n) ==
    /\ IsTree(t) /\ IsSeq(leaves)
    /\ t.levels[0] = leaves /\ t.size = Len(leaves) /\ t.depth = CeilLogN(Len(leaves), n)
    /\ \A l \in Levels : Len(t.levels[l]) = Stored(Len(leaves), l, n)

\* The nodes an insertion reads again: those over full groups that do not end a
\* group of the level above.
Trusted(t, leaves, n) ==
    \A l \in Levels : \A k \in Nat \ {0} :
      k % n # 0 /\ k * Power(n, l) <= Len(leaves) => t.levels[l][k] = Layer(leaves, l, n)[k]

\* The nodes over old leaves alone stay as they were, and the others are computed.
Rehashed(t, leaves, u, new, n) ==
    \A l \in Levels : \A k \in 1..Len(u.levels[l]) :
      u.levels[l][k] = IF k * Power(n, l) <= Len(leaves) THEN t.levels[l][k]
                       ELSE Layer(new, l, n)[k]

RootOf(leaves, n) == IF Len(leaves) = 0 THEN NoRoot ELSE Layer(leaves, CeilLogN(Len(leaves), n), n)[1]

LEMMA StoredBounds ==
    ASSUME NEW n \in Nat \ {0, 1}, NEW size \in Nat, NEW l \in Nat
    PROVE  /\ Stored(size, l, n) \in Nat /\ size \div Power(n, l) \in Nat
           /\ size \div Power(n, l) <= Stored(size, l, n)
           /\ l > CeilLogN(size, n) => size < Power(n, l)
  <1> DEFINE d == CeilLogN(size, n)
             P == Power(n, l)
  <1>1. d \in Nat /\ size <= Power(n, d) /\ P \in Nat \ {0} /\ Power(n, d) \in Nat
    BY DepthBounds, PowerPositive
  <1>2. ASSUME l > d PROVE size < P
    <2>1. Power(n, d) < P
      BY <1>1, <1>2, PowerAscends
    <2>2. QED
      BY <1>1, <2>1
  <1>3. CeilDiv(size, P) \in Nat /\ size <= P * CeilDiv(size, P)
    BY <1>1, CeilDivBounds
  <1>4. size \div P \in Nat /\ (size \div P) * P <= size
    BY <1>1, DivBounds
  <1>5. size \div P <= CeilDiv(size, P)
    <2>1. ASSUME NEW x \in Nat, NEW y \in Nat, x * P <= P * y PROVE x <= y
      BY <1>1, <2>1
    <2>2. (size \div P) * P <= P * CeilDiv(size, P)
      BY <1>1, <1>3, <1>4
    <2>3. QED
      BY <1>3, <1>4, <2>1, <2>2
  <1>6. ASSUME size < P PROVE size \div P = 0
    BY <1>1, <1>6
  <1>7. QED
    BY <1>1, <1>2, <1>3, <1>4, <1>5, <1>6 DEF Stored

LEMMA ModOfSum ==
    ASSUME NEW n \in Nat \ {0}, NEW x \in Nat, NEW y \in 0..n - 1
    PROVE  (x * n + y) % n = y /\ (x * n + y) \div n = x
  <1> DEFINE s == x * n + y
  <1>1. s \in Nat /\ x * n \in Nat
    OBVIOUS
  <1>2. s \div n \in Nat /\ (s % n) \in 0..n - 1 /\ s = (s \div n) * n + (s % n)
    BY <1>1
  <1>3. ASSUME NEW a \in Nat, NEW b \in Nat, NEW c \in 0..n - 1, NEW d \in 0..n - 1,
               a * n + c = b * n + d
        PROVE  a = b
    <2>1. CASE a < b
      <3>1. a * n + n <= b * n
        <4>1. (a + 1) * n <= b * n
          BY <2>1
        <4>2. (a + 1) * n = a * n + n
          OBVIOUS
        <4>3. QED
          BY <4>1, <4>2
      <3>2. a * n \in Nat /\ b * n \in Nat
        OBVIOUS
      <3>3. QED
        BY <1>3, <3>1, <3>2
    <2>2. CASE b < a
      <3>1. b * n + n <= a * n
        <4>1. (b + 1) * n <= a * n
          BY <2>2
        <4>2. (b + 1) * n = b * n + n
          OBVIOUS
        <4>3. QED
          BY <4>1, <4>2
      <3>2. a * n \in Nat /\ b * n \in Nat
        OBVIOUS
      <3>3. QED
        BY <1>3, <3>1, <3>2
    <2>3. QED
      BY <2>1, <2>2
  <1>4. x = s \div n
    BY <1>1, <1>2, <1>3
  <1>5. QED
    BY <1>1, <1>2, <1>4

LEMMA QuotientAbove ==
    ASSUME NEW n \in Nat \ {0}, NEW x \in Nat, NEW y \in Nat, NEW w \in Nat, x * n <= y, y < w * n + n
    PROVE  w >= x
  <1>1. SUFFICES ASSUME w + 1 <= x PROVE FALSE
    OBVIOUS
  <1>2. (w + 1) * n <= x * n /\ (w + 1) * n = w * n + n /\ w * n \in Nat /\ x * n \in Nat
    BY <1>1
  <1>3. QED
    BY <1>1, <1>2

LEMMA GroupIndex ==
    ASSUME NEW z \in Nat, NEW len \in Nat, NEW n \in Nat, NEW m \in Nat, m <= n, m <= len - z,
           NEW j \in 1..m
    PROVE  z + j \in 1..len /\ z + j \in Nat \ {0} /\ z + j \in Nat /\ j \in 1..n
  OBVIOUS

LEMMA GroupStarts ==
    ASSUME NEW n \in Nat \ {0}, NEW q \in Nat, NEW x \in Nat, NEW len \in Nat,
           q + 1 <= x, n * x < len + n
    PROVE  q * n < len
  <1>1. n * (q + 1) <= n * x
    OBVIOUS
  <1>2. n * (q + 1) = q * n + n
    OBVIOUS
  <1>3. n * x \in Nat /\ q * n \in Nat
    OBVIOUS
  <1>4. QED
    BY <1>1, <1>2, <1>3

\* A node above the leaves is the hash of its group, which has a node at least.
LEMMA LayerNode ==
    ASSUME NEW leaves, IsSeq(leaves), NEW n \in Nat \ {0, 1}, NEW l \in Nat, NEW q \in Nat,
           q < CeilDiv(Len(leaves), Power(n, l + 1))
    PROVE  /\ Layer(leaves, l + 1, n)[q + 1] = GroupHash(Group(Layer(leaves, l, n), q, n))
           /\ q * n < Len(Layer(leaves, l, n))
  <1> DEFINE B == Layer(leaves, l, n)
  <1>1. IsSeq(B) /\ Len(B) \in Nat /\ Len(B) = CeilDiv(Len(leaves), Power(n, l))
    BY LayerIsSeq DEF IsSeq
  <1>2. Power(n, l + 1) = n * Power(n, l) /\ Power(n, l) \in Nat \ {0} /\ Len(leaves) \in Nat
    <2>1. n \in Nat /\ n \in Nat \ {0}
      OBVIOUS
    <2>2. QED
      BY <2>1, PowerSteps, PowerPositive DEF IsSeq
  <1>3. CeilDiv(Len(B), n) = CeilDiv(Len(leaves), Power(n, l + 1))
    <2>1. CeilDiv(CeilDiv(Len(leaves), Power(n, l)), n) = CeilDiv(Len(leaves), n * Power(n, l))
      <3>1. n \in Nat \ {0}
        OBVIOUS
      <3>2. QED
        BY <1>2, <3>1, CeilDivNested
    <2>2. QED
      BY <1>1, <1>2, <2>1
  <1>4. Layer(leaves, l + 1, n) = [p \in 1..CeilDiv(Len(B), n) |-> GroupHash(Group(B, p - 1, n))]
    BY LayerSteps DEF Parents
  <1> HIDE DEF B
  <1>5. CeilDiv(Len(B), n) \in Nat /\ n * CeilDiv(Len(B), n) < Len(B) + n
    BY <1>1, CeilDivBounds
  <1>6. q + 1 \in 1..CeilDiv(Len(B), n) /\ q + 1 - 1 = q
    BY <1>3, <1>5
  <1>7. q * n < Len(B)
    <2>1. n \in Nat \ {0} /\ q + 1 <= CeilDiv(Len(B), n)
      BY <1>5, <1>6
    <2>2. QED
      BY <1>1, <1>5, <2>1, GroupStarts
  <1>8. Layer(leaves, l + 1, n)[q + 1] = GroupHash(Group(B, q + 1 - 1, n))
    <2>1. ASSUME NEW p \in 1..CeilDiv(Len(B), n)
          PROVE  Layer(leaves, l + 1, n)[p] = GroupHash(Group(B, p - 1, n))
      BY <1>4
    <2>2. QED
      BY <1>6, <2>1
  <1>9. QED
    BY <1>6, <1>7, <1>8 DEF B

\* A sequence of the nodes of a group is the group.
Copies(s, level, first) == \A j \in 1..Len(s) : s[j] = level[first + j]
GroupLen(level, p, n) == LessOf(n, Len(level) - p * n)
Starts(level, p, n) == p * n <= Len(level)

LEMMA GroupCopies ==
    ASSUME NEW level, IsSeq(level), NEW n \in Nat \ {0}, NEW p \in Nat, Starts(level, p, n)
    PROVE  /\ IsSeq(Group(level, p, n)) /\ Len(Group(level, p, n)) = GroupLen(level, p, n)
           /\ Copies(Group(level, p, n), level, p * n)
  <1> DEFINE g == Group(level, p, n)
             len == LessOf(n, Len(level) - p * n)
  <1>1. p * n <= Len(level)
    BY DEF Starts
  <1>2. IsSeq(g) /\ Len(g) = len /\ \A k \in 1..len : g[k] = level[p * n + k]
    BY <1>1, GroupElements
  <1> HIDE DEF g, len
  <1>3. QED
    BY <1>2, Zenon DEF Copies, GroupLen, g, len

LEMMA IsGroup ==
    ASSUME NEW level, IsSeq(level), NEW n \in Nat \ {0}, NEW q \in Nat, Starts(level, q, n),
           NEW s, IsSeq(s), Len(s) = GroupLen(level, q, n), Copies(s, level, q * n)
    PROVE  s = Group(level, q, n)
  <1> DEFINE g == Group(level, q, n)
  <1>1. IsSeq(g) /\ Len(g) = Len(s) /\ Copies(g, level, q * n)
    BY GroupCopies
  <1> HIDE DEF g
  <1>2. \A k \in 1..Len(s) : s[k] = g[k]
    BY <1>1, Zenon DEF Copies
  <1>3. QED
    BY <1>1, <1>2, SeqEqual2 DEF g

RungTable(f, t, leaf, depth) ==
    f = [l \in 0..depth |->
           IF l = 0 THEN leaf
           ELSE LET locus == t.size \div Span(l - 1)
                    rank  == locus % arity
                IN GroupHash(SubSeq(t.levels[l - 1], locus - rank + 1, locus) \o <<f[l - 1]>>)]

LEMMA RungTableExists ==
    ASSUME NEW t, NEW leaf, NEW depth \in Nat
    PROVE  \E f : RungTable(f, t, leaf, depth)
  <1> DEFINE over(l, node) == LET locus == t.size \div Span(l)
                                  rank  == locus % arity
                              IN GroupHash(SubSeq(t.levels[l], locus - rank + 1, locus) \o <<node>>)
             Good == {m \in Nat : \E f : RungTable(f, t, leaf, m)}
  <1>0. ASSUME NEW f, NEW m \in Nat
        PROVE  RungTable(f, t, leaf, m) <=>
                 f = [l \in 0..m |-> IF l = 0 THEN leaf ELSE over(l - 1, f[l - 1])]
    BY DEF RungTable
  <1> HIDE DEF over
  <1>1. 0 \in Good
    <2> DEFINE g == [k \in 0..0 |-> leaf]
    <2>1. g = [l \in 0..0 |-> IF l = 0 THEN leaf ELSE over(l - 1, g[l - 1])]
      OBVIOUS
    <2> HIDE DEF g
    <2>2. RungTable(g, t, leaf, 0)
      BY <1>0, <2>1
    <2>3. QED
      BY <2>2, Zenon
  <1>2. ASSUME NEW m \in Nat, m \in Good PROVE m + 1 \in Good
    <2>1. PICK f : RungTable(f, t, leaf, m)
      BY <1>2, Zenon
    <2> DEFINE g == [k \in 0..m + 1 |-> IF k = m + 1 THEN over(m, f[m]) ELSE f[k]]
    <2>2. f = [l \in 0..m |-> IF l = 0 THEN leaf ELSE over(l - 1, f[l - 1])]
      BY <1>0, <2>1
    <2>3. ASSUME NEW k \in 0..m + 1 PROVE g[k] = IF k = 0 THEN leaf ELSE over(k - 1, g[k - 1])
      BY <2>2
    <2>4. g = [l \in 0..m + 1 |-> IF l = 0 THEN leaf ELSE over(l - 1, g[l - 1])]
      BY <2>3
    <2>5. m + 1 \in Nat
      OBVIOUS
    <2> HIDE DEF g
    <2>6. RungTable(g, t, leaf, m + 1)
      BY <1>0, <2>4, <2>5
    <2>7. QED
      BY <2>5, <2>6
  <1>3. depth \in Good
    BY <1>1, <1>2, Inductive
  <1>4. QED
    BY <1>3

LEMMA RungsAreTable ==
    ASSUME NEW t, NEW leaf, NEW depth \in Nat
    PROVE  RungTable(Rungs(t, leaf, depth), t, leaf, depth)
  <1> DEFINE step(f) == [l \in 0..depth |->
               IF l = 0 THEN leaf
               ELSE LET locus == t.size \div Span(l - 1)
                        rank  == locus % arity
                    IN GroupHash(SubSeq(t.levels[l - 1], locus - rank + 1, locus) \o <<f[l - 1]>>)]
             chosen == CHOOSE f : f = step(f)
  <1>1. \A f : RungTable(f, t, leaf, depth) <=> f = step(f)
    BY DEF RungTable
  <1>2. Rungs(t, leaf, depth) = chosen
    BY DEF Rungs
  <1> HIDE DEF step
  <1>3. \E f : f = step(f)
    BY <1>1, RungTableExists
  <1>4. chosen = step(chosen)
    BY <1>3, Zenon
  <1>5. QED
    BY <1>1, <1>2, <1>4

TrustedLevel(level, leaves, l, n) ==
    \A k \in Nat \ {0} :
      k % n # 0 /\ k * Power(n, l) <= Len(leaves) => level[k] = Layer(leaves, l, n)[k]

\* One sequence of leaves goes on from another.
Longer(new, leaves) ==
    /\ IsSeq(leaves) /\ IsSeq(new) /\ Len(leaves) < Len(new)
    /\ \A i \in 1..Len(leaves) : leaves[i] = new[i]

\* What an insertion hashes with the new rung, the nodes to its left, gives the node
\* of the layer above.
RungMeets(level, leaves, new, l, n) ==
    LET locus == Len(leaves) \div Power(n, l)
        rank  == locus % n
    IN GroupHash(SubSeq(level, locus - rank + 1, locus) \o <<Layer(new, l, n)[locus + 1]>>)
         = Layer(new, l + 1, n)[Len(leaves) \div Power(n, l + 1) + 1]

LEMMA RungGroup ==
    ASSUME NEW n \in Nat \ {0, 1}, NEW leaves, NEW new, Longer(new, leaves), Len(new) = Len(leaves) + 1,
           NEW l \in Nat, NEW level, IsSeq(level),
           Len(leaves) \div Power(n, l) <= Len(level), TrustedLevel(level, leaves, l, n)
    PROVE  RungMeets(level, leaves, new, l, n)
  <1>0. /\ IsSeq(leaves) /\ IsSeq(new) /\ \A i \in 1..Len(leaves) : leaves[i] = new[i]
        /\ \A k \in Nat \ {0} : k % n # 0 /\ k * Power(n, l) <= Len(leaves) =>
              level[k] = Layer(leaves, l, n)[k]
    BY DEF Longer, TrustedLevel
  <1> DEFINE P == Power(n, l)
             size == Len(leaves)
             locus == size \div P
             rank == locus % n
             q == locus \div n
             B == Layer(new, l, n)
             node == B[locus + 1]
             left == SubSeq(level, locus - rank + 1, locus)
  <1>1. P \in Nat \ {0} /\ Power(n, l + 1) = n * P /\ Power(n, l + 1) \in Nat \ {0}
    <2>1. n \in Nat /\ n \in Nat \ {0} /\ l + 1 \in Nat
      OBVIOUS
    <2>2. QED
      BY <2>1, PowerSteps, PowerPositive
  <1>2. size \in Nat
    BY DEF IsSeq
  <1>3. locus \in Nat /\ locus * P <= size
    BY <1>1, <1>2, DivBounds
  <1>4. /\ q \in Nat /\ rank \in Nat /\ rank < n /\ locus = q * n + rank
        /\ size \div Power(n, l + 1) = q
    <2>1. q \in Nat /\ rank \in 0..n - 1 /\ locus = q * n + rank
      BY <1>3, DivBounds
    <2>2. size \div (n * P) = q
      <3> HIDE DEF P, size
      <3>1. n \in Nat \ {0}
        OBVIOUS
      <3>2. QED
        BY <1>1, <1>2, <3>1, DivNested
    <2>3. QED
      BY <1>1, <2>1, <2>2
  <1>5. IsSeq(B) /\ Len(B) = locus + 1
    <2>1. CeilDiv(size + 1, P) = locus + 1
      BY <1>1, <1>2, CeilDivNext
    <2>2. QED
      BY <1>0, <2>1, LayerIsSeq
  <1>6. Layer(new, l + 1, n)[q + 1] = GroupHash(Group(B, q, n)) /\ q * n < Len(B)
    <2>1. CeilDiv(size + 1, Power(n, l + 1)) = q + 1
      BY <1>1, <1>2, <1>4, CeilDivNext
    <2>2. q < CeilDiv(Len(new), Power(n, l + 1))
      BY <1>4, <2>1
    <2>3. QED
      BY <1>0, <1>4, <2>2, LayerNode
  <1>7. \A k \in Nat \ {0} : k * P <= size => Layer(leaves, l, n)[k] = B[k]
    <2>1. Len(leaves) <= Len(new)
      BY <1>2
    <2>2. QED
      BY <1>0, <2>1, LayerStable, SMTT(30)
  <1>8. \A k \in Nat \ {0} : k % n # 0 /\ k * P <= size => level[k] = B[k]
    BY <1>0, <1>7
  <1>9. locus <= Len(level)
    OBVIOUS
  <1> HIDE DEF P, q, B, locus, rank, size
  <1>10. /\ IsSeq(left) /\ Len(left) = rank
         /\ \A j \in 1..rank : left[j] = level[q * n + j]
    <2> DEFINE a == locus - rank + 1
               z == q * n
    <2>1. z \in Nat /\ locus = z + rank
      BY <1>4
    <2> HIDE DEF z
    <2>2. a = z + 1 /\ a \in Nat \ {0} /\ locus - a + 1 = rank /\ a <= locus + 1
      BY <1>3, <1>4, <2>1
    <2> HIDE DEF a
    <2>3. /\ IsSeq(SubSeq(level, a, locus)) /\ Len(SubSeq(level, a, locus)) = locus - a + 1
          /\ \A k \in 1..locus - a + 1 : SubSeq(level, a, locus)[k] = level[a + k - 1]
      BY <1>3, <1>9, <2>2, SubSeqIsSeq, SMTT(30)
    <2>4. \A j \in 1..rank : a + j - 1 = z + j
      BY <1>4, <2>1, <2>2
    <2>5. left = SubSeq(level, a, locus)
      BY DEF a
    <2>6. QED
      BY <2>2, <2>3, <2>4, <2>5 DEF z
  <1> HIDE DEF left, node
  <1>11. ASSUME NEW j \in 1..rank PROVE level[q * n + j] = B[q * n + j]
    <2> DEFINE k == q * n + j
    <2>1. q * n \in Nat /\ j \in Nat /\ j < n
      BY <1>4
    <2>2. k \in Nat \ {0} /\ k <= locus
      BY <1>4, <2>1
    <2>3. k % n # 0
      <3>1. n \in Nat \ {0} /\ j \in 0..n - 1 /\ j # 0
        BY <2>1
      <3>2. k % n = j
        BY <1>4, <3>1, ModOfSum, Zenon
      <3>3. QED
        BY <3>1, <3>2
    <2>4. k * P <= size
      <3>1. ASSUME NEW x \in Nat, x <= locus PROVE x * P <= locus * P
        BY <1>1, <1>3, <3>1
      <3>2. k * P <= locus * P /\ k * P \in Nat /\ locus * P \in Nat
        BY <1>1, <1>3, <2>2, <3>1, SMTT(30)
      <3>3. QED
        BY <1>2, <1>3, <3>2
    <2> HIDE DEF k
    <2>5. QED
      BY <1>8, <2>2, <2>3, <2>4 DEF k
  <1>12. left \o <<node>> = Group(B, q, n)
    <2> DEFINE x == left \o <<node>>
    <2>1. IsSeq(<<node>>) /\ Len(<<node>>) = 1 /\ <<node>>[1] = node
      BY OneIsSeq
    <2>2. /\ IsSeq(x) /\ Len(x) = rank + 1
          /\ \A j \in 1..rank + 1 : x[j] = IF j <= rank THEN left[j] ELSE <<node>>[j - rank]
      <3>1. /\ IsSeq(x) /\ Len(x) = Len(left) + Len(<<node>>)
            /\ \A j \in 1..Len(left) + Len(<<node>>) :
                 x[j] = IF j <= Len(left) THEN left[j] ELSE <<node>>[j - Len(left)]
        BY <1>10, <2>1, ConcatIsSeq, Zenon
      <3>2. QED
        BY <1>10, <2>1, <3>1, Zenon
    <2> HIDE DEF x
    <2>3. ASSUME NEW j \in 1..Len(x) PROVE x[j] = B[q * n + j]
      <3>1. CASE j <= rank
        <4>1. j \in 1..rank
          BY <1>4, <2>2, <3>1
        <4>2. QED
          BY <1>10, <1>11, <2>2, <3>1, <4>1
      <3>2. CASE j = rank + 1
        <4>1. ~(j <= rank) /\ j - rank = 1 /\ q * n + j = locus + 1
          BY <1>4, <3>2
        <4>2. QED
          BY <2>1, <2>2, <4>1 DEF node
      <3>3. QED
        BY <1>4, <2>2, <3>1, <3>2
    <2>4. Starts(B, q, n) /\ Len(x) = GroupLen(B, q, n)
      <3>1. q * n \in Nat
        BY <1>4
      <3>2. QED
        BY <1>4, <1>5, <2>2, <3>1 DEF LessOf, Starts, GroupLen
    <2>5. n \in Nat \ {0}
      OBVIOUS
    <2>6. Copies(x, B, q * n)
      BY <2>3 DEF Copies
    <2>7. x = Group(B, q, n)
      BY <1>4, <1>5, <2>2, <2>4, <2>5, <2>6, IsGroup, Zenon
    <2>8. QED
      BY <2>7 DEF x
  <1>13. GroupHash(left \o <<node>>) = Layer(new, l + 1, n)[size \div Power(n, l + 1) + 1]
    BY <1>4, <1>6, <1>12
  <1>14. QED
    BY <1>13 DEF RungMeets, left, node, locus, rank, size, P, B

\* The path of a new leaf: each rung is the last node of its layer.
LEMMA RungsAreNodes ==
    ASSUME arity \in Nat \ {0, 1}, NEW t, NEW leaves, NEW leaf, NEW depth \in 0..MaxDepth,
           Shaped(t, leaves, arity), Trusted(t, leaves, arity)
    PROVE  \A l \in 0..depth : Rungs(t, leaf, depth)[l] =
             Layer(Append(leaves, leaf), l, arity)[t.size \div Power(arity, l) + 1]
  <1> DEFINE n == arity
             size == t.size
             new == Append(leaves, leaf)
             rung == Rungs(t, leaf, depth)
             over(l, node) == LET locus == size \div Power(n, l)
                                  rank  == locus % n
                              IN GroupHash(SubSeq(t.levels[l], locus - rank + 1, locus) \o <<node>>)
             last(l) == Layer(new, l, n)[size \div Power(n, l) + 1]
             Good == {l \in Nat : l <= depth => rung[l] = last(l)}
  <1>0. /\ depth \in Nat /\ IsSeq(leaves) /\ size = Len(leaves) /\ size \in Nat
        /\ IsSeq(new) /\ Len(new) = size + 1 /\ new[size + 1] = leaf
        /\ \A i \in 1..size : new[i] = leaves[i]
    BY AppendIsSeq, LeanIMTAssumption DEF Shaped, IsSeq
  <1>1. rung[0] = leaf /\ \A l \in 0..depth - 1 : rung[l + 1] = over(l, rung[l])
    <2>1. RungTable(rung, t, leaf, depth)
      BY <1>0, RungsAreTable
    <2> HIDE DEF rung
    <2>2. rung[0] = leaf
      BY <1>0, <2>1 DEF RungTable
    <2>3. ASSUME NEW l \in 0..depth - 1
          PROVE  rung[l + 1] = over(l, rung[l])
      <3>1. l + 1 \in 0..depth /\ l + 1 # 0 /\ l + 1 - 1 = l
        BY <1>0
      <3>2. QED
        BY <2>1, <3>1 DEF RungTable, Span
    <2>4. QED
      BY <2>2, <2>3
  <1>2. last(0) = leaf
    <2>1. Power(n, 0) = 1 /\ Layer(new, 0, n) = new
      BY PowerSteps, LayerSteps
    <2>2. size \div 1 = size
      BY <1>0
    <2>3. QED
      BY <1>0, <2>1, <2>2
  <1>3. ASSUME NEW l \in 0..depth - 1 PROVE over(l, last(l)) = last(l + 1)
    <2>1. l \in Nat /\ l \in Levels
      BY <1>0, LeanIMTAssumption DEF Levels
    <2>2. IsSeq(t.levels[l]) /\ Len(t.levels[l]) = Stored(size, l, n)
      BY <2>1 DEF Shaped, IsTree
    <2>3. Len(leaves) \div Power(n, l) <= Len(t.levels[l])
      BY <1>0, <2>1, <2>2, StoredBounds
    <2>4. TrustedLevel(t.levels[l], leaves, l, n)
      BY <2>1 DEF Trusted, TrustedLevel
    <2>5. Longer(new, leaves)
      BY <1>0 DEF Longer
    <2> DEFINE level == t.levels[l]
    <2>6. RungMeets(level, leaves, new, l, n)
      <3> HIDE DEF level, new
      <3>1. IsSeq(level) /\ Len(leaves) \div Power(n, l) <= Len(level)
        BY <2>2, <2>3 DEF level
      <3>2. TrustedLevel(level, leaves, l, n)
        BY <2>4 DEF level
      <3>3. QED
        BY <1>0, <2>1, <2>5, <3>1, <3>2, RungGroup
    <2>7. QED
      BY <1>0, <2>6 DEF RungMeets
  <1> HIDE DEF rung, over, last
  <1>4. 0 \in Good
    BY <1>1, <1>2
  <1>5. ASSUME NEW l \in Nat, l \in Good PROVE l + 1 \in Good
    BY <1>0, <1>1, <1>3, <1>5
  <1>6. \A l \in Nat : l \in Good
    <2> HIDE DEF Good
    <2>1. QED
      BY <1>4, <1>5, Inductive
  <1>7. \A l \in 0..depth : rung[l] = last(l)
    BY <1>0, <1>6
  <1>8. QED
    BY <1>7 DEF rung, last

\* Facts about a tree of some size and the levels of a later one.
LEMMA DirtyFacts ==
    ASSUME NEW n \in Nat \ {0, 1}, NEW old \in Nat, NEW now \in Nat, old < now, NEW l \in Nat
    PROVE  /\ old \div Power(n, l) < CeilDiv(now, Power(n, l))
           /\ \A k \in Nat : k <= old \div Power(n, l) <=> k * Power(n, l) <= old
           /\ Stored(old, l, n) <= CeilDiv(now, Power(n, l))
  <1> DEFINE P == Power(n, l)
             d == old \div P
             c == CeilDiv(now, P)
  <1>1. P \in Nat \ {0} /\ n \in Nat \ {0}
    BY PowerPositive
  <1> HIDE DEF P
  <1>2. d \in Nat /\ d * P <= old /\ old < d * P + P
    BY <1>1, DivBounds
  <1>3. c \in Nat /\ now <= P * c
    BY <1>1, CeilDivBounds
  <1>4. CeilDiv(old, P) \in Nat /\ P * CeilDiv(old, P) < old + P
    BY <1>1, CeilDivBounds
  <1> DEFINE co == CeilDiv(old, P)
  <1> HIDE DEF d, c, co
  <1>5. ASSUME NEW x \in Nat, NEW y \in Nat, x >= y PROVE x * P >= y * P /\ x * P \in Nat /\ y * P \in Nat
    BY <1>1, <1>5
  <1>6. \A x \in Nat : P * x = x * P /\ x * P \in Nat /\ (x + 1) * P = x * P + P
    BY <1>1
  <1>7. d < c
    <2>1. SUFFICES ASSUME d >= c PROVE FALSE
      BY <1>2, <1>3
    <2>2. d * P >= c * P /\ P * c = c * P /\ d * P \in Nat /\ c * P \in Nat
      BY <1>2, <1>3, <1>5, <1>6, <2>1
    <2>3. QED
      BY <1>2, <1>3, <2>2
  <1>8. ASSUME NEW k \in Nat PROVE k <= d <=> k * P <= old
    <2>1. ASSUME k <= d PROVE k * P <= old
      <3>1. d * P >= k * P /\ d * P \in Nat /\ k * P \in Nat
        BY <1>2, <1>5, <2>1
      <3>2. QED
        BY <1>2, <3>1
    <2>2. ASSUME ~(k <= d) PROVE ~(k * P <= old)
      <3>1. k >= d + 1 /\ d + 1 \in Nat
        BY <1>2, <2>2
      <3>2. k * P >= (d + 1) * P /\ (d + 1) * P = d * P + P /\ k * P \in Nat /\ d * P \in Nat
        BY <1>2, <1>5, <1>6, <3>1
      <3>3. QED
        BY <1>1, <1>2, <3>2
    <2>3. QED
      BY <2>1, <2>2
  <1>9. co <= c
    <2>1. SUFFICES ASSUME co >= c + 1 PROVE FALSE
      BY <1>3, <1>4 DEF co
    <2>2. co * P >= (c + 1) * P /\ (c + 1) * P = c * P + P /\ P * co = co * P /\ P * c = c * P
          /\ co * P \in Nat /\ c * P \in Nat
      BY <1>3, <1>4, <1>5, <1>6, <2>1 DEF co
    <2>3. QED
      BY <1>1, <1>3, <1>4, <2>2 DEF co
  <1>10. Stored(old, l, n) = co \/ Stored(old, l, n) = 0
    BY DEF Stored, co, P
  <1>11. QED
    BY <1>3, <1>4, <1>7, <1>8, <1>9, <1>10 DEF d, c, co, P

LEMMA SetNodeIsSeq ==
    ASSUME NEW level, IsSeq(level), NEW index \in Nat, index <= Len(level), Len(level) <= index + 1, NEW node
    PROVE  /\ IsSeq(SetNode(level, index, node)) /\ Len(SetNode(level, index, node)) = index + 1
           /\ \A k \in 1..index + 1 : SetNode(level, index, node)[k] = IF k = index + 1 THEN node ELSE level[k]
  <1> DEFINE u == SetNode(level, index, node)
  <1>1. Len(level) \in Nat
    BY DEF IsSeq
  <1>2. (IF index < Len(level) THEN Len(level) ELSE index + 1) = index + 1
    BY <1>1
  <1>3. u = [k \in 1..index + 1 |-> IF k = index + 1 THEN node ELSE IF k <= Len(level) THEN level[k] ELSE Zero]
    BY <1>2 DEF SetNode
  <1> HIDE DEF u
  <1>4. \A k \in 1..index + 1 : k = index + 1 \/ k <= Len(level)
    BY <1>1
  <1>5. \A k \in 1..index + 1 : u[k] = IF k = index + 1 THEN node ELSE level[k]
    BY <1>3, <1>4
  <1>6. u = [k \in 1..index + 1 |-> u[k]] /\ index + 1 \in Nat
    BY <1>3
  <1>7. IsSeq(u) /\ Len(u) = index + 1
    BY <1>6, TableIsSeq
  <1>8. QED
    BY <1>5, <1>7 DEF u

\* One insertion: the shape of the tree, and the levels its path sets.
PathSet(t, u, size, depth, rung, n) ==
    \A l \in Levels : \A k \in 1..Len(u.levels[l]) :
      /\ l <= depth /\ k <= size \div Power(n, l) + 1
      /\ u.levels[l][k] = IF k = size \div Power(n, l) + 1 THEN rung[l] ELSE t.levels[l][k]

LEMMA InsertLevels ==
    ASSUME arity \in Nat \ {0, 1}, NEW t, NEW leaves, NEW leaf, Shaped(t, leaves, arity),
           NEW depth, depth = CeilLogN(Len(leaves) + 1, arity), depth <= MaxDepth
    PROVE  /\ Shaped(Insert(t, leaf), Append(leaves, leaf), arity)
           /\ Insert(t, leaf).root = Rungs(t, leaf, depth)[depth]
           /\ PathSet(t, Insert(t, leaf), Len(leaves), depth, Rungs(t, leaf, depth), arity)
  <1> DEFINE n == arity
             size == Len(leaves)
             new == Append(leaves, leaf)
             rung == Rungs(t, leaf, depth)
             u == Insert(t, leaf)
             locus(l) == size \div Power(n, l)
  <1>0. /\ IsSeq(leaves) /\ t.size = size /\ size \in Nat /\ n \in Nat /\ n \in Nat \ {0}
        /\ IsSeq(new) /\ Len(new) = size + 1 /\ new[size + 1] = leaf
        /\ \A i \in 1..size : new[i] = leaves[i]
    BY AppendIsSeq DEF Shaped, IsSeq
  <1>1. depth \in Nat /\ CeilLogN(size, n) \in Nat /\ CeilLogN(size, n) <= depth
    <2>1. size + 1 \in Nat /\ size <= size + 1
      BY <1>0
    <2>2. QED
      BY <1>0, <2>1, DepthBounds, DepthAscends
  <1>2. u = [levels |-> [l \in Levels |-> IF l <= depth THEN SetNode(t.levels[l], locus(l), rung[l])
                                          ELSE t.levels[l]],
             root |-> rung[depth], size |-> size + 1, depth |-> depth]
    BY <1>0 DEF Insert, Span
  <1>3. rung[0] = leaf
    <2>1. RungTable(rung, t, leaf, depth)
      BY <1>1, RungsAreTable
    <2> HIDE DEF rung
    <2>2. QED
      BY <1>1, <2>1 DEF RungTable
  <1> HIDE DEF u, rung, locus
  <1>4. ASSUME NEW l \in Levels
        PROVE  /\ u.levels[l] = IF l <= depth THEN SetNode(t.levels[l], locus(l), rung[l]) ELSE t.levels[l]
               /\ l \in Nat /\ IsSeq(t.levels[l]) /\ Len(t.levels[l]) = Stored(size, l, n)
    BY <1>2, LeanIMTAssumption DEF Levels, Shaped, IsTree
  <1>5. ASSUME NEW l \in Levels, l <= depth
        PROVE  /\ IsSeq(u.levels[l]) /\ Len(u.levels[l]) = locus(l) + 1
               /\ Len(u.levels[l]) = Stored(size + 1, l, n) /\ locus(l) \in Nat
               /\ \A k \in 1..locus(l) + 1 :
                    u.levels[l][k] = IF k = locus(l) + 1 THEN rung[l] ELSE t.levels[l][k]
    <2>1. locus(l) \in Nat /\ locus(l) <= Len(t.levels[l])
      BY <1>0, <1>4, StoredBounds, ZenonT(40) DEF locus
    <2>2. Power(n, l) \in Nat \ {0}
      BY <1>0, <1>4, PowerPositive
    <2>3. CeilDiv(size + 1, Power(n, l)) = locus(l) + 1
      BY <1>0, <2>2, CeilDivNext DEF locus
    <2>4. Stored(size, l, n) <= CeilDiv(size + 1, Power(n, l))
      <3>1. size + 1 \in Nat /\ size < size + 1
        BY <1>0
      <3>2. QED
        BY <1>0, <1>4, <3>1, DirtyFacts
    <2>5. Stored(size + 1, l, n) = locus(l) + 1
      BY <1>5, <2>3 DEF Stored
    <2>6. Len(t.levels[l]) <= locus(l) + 1
      BY <1>4, <2>3, <2>4
    <2> DEFINE v == SetNode(t.levels[l], locus(l), rung[l])
    <2>7. /\ IsSeq(v) /\ Len(v) = locus(l) + 1
          /\ \A k \in 1..locus(l) + 1 : v[k] = IF k = locus(l) + 1 THEN rung[l] ELSE t.levels[l][k]
      <3> DEFINE level == t.levels[l]
                 index == locus(l)
                 node == rung[l]
      <3>1. IsSeq(level) /\ index \in Nat /\ index <= Len(level) /\ Len(level) <= index + 1
        BY <1>4, <2>1, <2>6
      <3> HIDE DEF level, index, node
      <3>2. /\ IsSeq(SetNode(level, index, node)) /\ Len(SetNode(level, index, node)) = index + 1
            /\ \A k \in 1..index + 1 :
                 SetNode(level, index, node)[k] = IF k = index + 1 THEN node ELSE level[k]
        BY <3>1, SetNodeIsSeq
      <3>3. QED
        BY <3>2 DEF level, index, node
    <2> HIDE DEF v
    <2>8. u.levels[l] = v
      BY <1>4, <1>5 DEF v
    <2>9. QED
      BY <2>1, <2>5, <2>7, <2>8
  <1>6. ASSUME NEW l \in Levels, ~(l <= depth)
        PROVE  IsSeq(u.levels[l]) /\ Len(u.levels[l]) = 0 /\ Stored(size + 1, l, n) = 0
    <2>1. ~(l <= CeilLogN(size, n))
      BY <1>1, <1>4, <1>6
    <2>2. QED
      BY <1>4, <1>6, <2>1 DEF Stored
  <1>7. 0 \in Levels /\ 0 <= depth
    BY <1>1, LeanIMTAssumption DEF Levels
  <1>8. u.levels[0] = new
    <2>1. locus(0) = size
      <3>1. Power(n, 0) = 1
        BY <1>0, PowerSteps
      <3>2. QED
        BY <1>0, <3>1 DEF locus
    <2>2. /\ IsSeq(u.levels[0]) /\ Len(u.levels[0]) = size + 1
          /\ \A k \in 1..size + 1 : u.levels[0][k] = IF k = size + 1 THEN leaf ELSE t.levels[0][k]
      BY <1>3, <1>5, <1>7, <2>1
    <2>3. t.levels[0] = leaves
      BY DEF Shaped
    <2>4. \A k \in 1..size + 1 : k \in 1..size \/ k = size + 1
      BY <1>0
    <2>5. \A k \in 1..size + 1 : u.levels[0][k] = new[k]
      BY <1>0, <2>2, <2>3, <2>4
    <2>6. QED
      BY <1>0, <2>2, <2>5, SeqEqual2, ZenonT(40)
  <1>9. IsTree(u) /\ u.size = size + 1 /\ u.depth = depth /\ u.root = rung[depth]
    BY <1>2, <1>5, <1>6 DEF IsTree
  <1>10. \A l \in Levels : Len(u.levels[l]) = Stored(size + 1, l, n)
    BY <1>5, <1>6
  <1>11. Shaped(u, new, n)
    BY <1>0, <1>8, <1>9, <1>10 DEF Shaped
  <1>12. ASSUME NEW l \in Levels, NEW k \in 1..Len(u.levels[l])
         PROVE  /\ l <= depth /\ k <= locus(l) + 1
                /\ u.levels[l][k] = IF k = locus(l) + 1 THEN rung[l] ELSE t.levels[l][k]
    BY <1>5, <1>6
  <1>13. QED
    <2>1. PathSet(t, u, size, depth, rung, n)
      BY <1>12 DEF PathSet, locus
    <2>2. QED
      BY <1>9, <1>11, <2>1 DEF u, rung

\* With the nodes it reads right, an insertion computes the nodes it reaches.
LEMMA InsertNodes ==
    ASSUME arity \in Nat \ {0, 1}, NEW t, NEW leaves, NEW leaf, Shaped(t, leaves, arity),
           Trusted(t, leaves, arity), CeilLogN(Len(leaves) + 1, arity) <= MaxDepth
    PROVE  /\ Rehashed(t, leaves, Insert(t, leaf), Append(leaves, leaf), arity)
           /\ Insert(t, leaf).root = RootOf(Append(leaves, leaf), arity)
  <1> DEFINE n == arity
             size == Len(leaves)
             new == Append(leaves, leaf)
             depth == CeilLogN(size + 1, n)
             rung == Rungs(t, leaf, depth)
             u == Insert(t, leaf)
             locus(l) == size \div Power(n, l)
  <1>0. /\ IsSeq(leaves) /\ t.size = size /\ size \in Nat /\ n \in Nat /\ n \in Nat \ {0}
        /\ Len(new) = size + 1 /\ size + 1 \in Nat /\ size < size + 1
    BY AppendIsSeq DEF Shaped, IsSeq
  <1>1. depth \in 0..MaxDepth /\ size + 1 <= Power(n, depth)
    BY <1>0, DepthBounds, LeanIMTAssumption
  <1>2. \A l \in 0..depth : rung[l] = Layer(new, l, n)[locus(l) + 1]
    BY <1>0, <1>1, RungsAreNodes
  <1>3. /\ Shaped(u, new, n) /\ u.root = rung[depth]
        /\ \A l \in Levels : \A k \in 1..Len(u.levels[l]) :
             /\ l <= depth /\ k <= locus(l) + 1
             /\ u.levels[l][k] = IF k = locus(l) + 1 THEN rung[l] ELSE t.levels[l][k]
    <2>1. /\ Shaped(u, new, n) /\ u.root = rung[depth]
          /\ PathSet(t, u, size, depth, rung, n)
      BY InsertLevels
    <2> HIDE DEF u, rung, depth, new
    <2>2. QED
      BY <2>1 DEF PathSet
  <1>4. \A l \in Nat : locus(l) \in Nat /\ \A k \in Nat : k <= locus(l) <=> k * Power(n, l) <= size
    BY <1>0, DirtyFacts, StoredBounds
  <1>5. \A l \in Levels : l \in Nat
    BY LeanIMTAssumption DEF Levels
  <1>6. locus(depth) = 0
    <2>1. Power(n, depth) \in Nat \ {0} /\ depth \in Nat
      BY <1>0, <1>1, PowerPositive
    <2>2. QED
      BY <1>0, <1>1, <2>1
  <1> HIDE DEF u, rung, depth, locus, new
  <1>7. ASSUME NEW l \in Levels, NEW k \in 1..Len(u.levels[l])
        PROVE  u.levels[l][k] = IF k * Power(n, l) <= size THEN t.levels[l][k] ELSE Layer(new, l, n)[k]
    <2>1. /\ l \in Nat /\ k \in Nat /\ l <= depth /\ k <= locus(l) + 1 /\ locus(l) \in Nat
          /\ u.levels[l][k] = IF k = locus(l) + 1 THEN rung[l] ELSE t.levels[l][k]
      <3>1. l \in Nat /\ locus(l) \in Nat /\ Len(u.levels[l]) \in Nat
        BY <1>3, <1>4, <1>5 DEF Shaped, IsTree, IsSeq
      <3>2. k \in Nat
        BY <3>1
      <3>3. QED
        BY <1>3, <3>1, <3>2, Zenon
    <2>2. k <= locus(l) <=> k * Power(n, l) <= size
      BY <1>4, <2>1
    <2>3. CASE k = locus(l) + 1
      <3>1. ~(k <= locus(l)) /\ l \in 0..depth
        BY <1>1, <2>1, <2>3
      <3>2. QED
        BY <1>2, <2>1, <2>2, <2>3, <3>1
    <2>4. CASE k # locus(l) + 1
      <3>1. k <= locus(l)
        BY <2>1, <2>4
      <3>2. QED
        BY <2>1, <2>2, <2>4, <3>1
    <2>5. QED
      BY <2>3, <2>4
  <1>8. Rehashed(t, leaves, u, new, n)
    BY <1>7 DEF Rehashed
  <1>9. u.root = RootOf(new, n)
    <2>1. depth \in 0..depth /\ 0 + 1 = 1 /\ Len(new) # 0
      BY <1>0, <1>1
    <2>2. u.root = Layer(new, depth, n)[0 + 1]
      BY <1>2, <1>3, <1>6, <2>1
    <2>3. QED
      BY <1>0, <2>1, <2>2 DEF RootOf, depth
  <1>10. QED
    BY <1>8, <1>9 DEF u, new

\* Every node of a level up to the depth is right.
Right(t, leaves, n) ==
    \A l \in Levels : \A k \in 1..Len(t.levels[l]) : t.levels[l][k] = Layer(leaves, l, n)[k]

LEMMA RehashedKeeps ==
    ASSUME NEW n \in Nat \ {0, 1}, NEW t, NEW leaves, NEW u, NEW new,
           Shaped(t, leaves, n), Shaped(u, new, n), Len(leaves) < Len(new),
           \A i \in 1..Len(leaves) : leaves[i] = new[i], Rehashed(t, leaves, u, new, n)
    PROVE  /\ Trusted(t, leaves, n) => Trusted(u, new, n)
           /\ Right(t, leaves, n) => Right(u, new, n)
  <1> DEFINE old == Len(leaves)
             now == Len(new)
  <1>0. IsSeq(leaves) /\ IsSeq(new) /\ old \in Nat /\ now \in Nat /\ n \in Nat \ {0} /\ old <= now /\ n \in Nat
    BY DEF Shaped, IsSeq
  <1>1. ASSUME NEW l \in Levels
        PROVE  /\ l \in Nat /\ Power(n, l) \in Nat \ {0} /\ Len(t.levels[l]) = Stored(old, l, n)
               /\ Len(u.levels[l]) = Stored(now, l, n)
               /\ Stored(old, l, n) \in Nat /\ Stored(now, l, n) \in Nat
               /\ \A k \in Nat \ {0} : k * Power(n, l) <= old => Layer(leaves, l, n)[k] = Layer(new, l, n)[k]
               /\ \A k \in Nat \ {0} : k * Power(n, l) <= old => k <= Stored(old, l, n)
               /\ \A k \in Nat \ {0} : k * Power(n, l) <= now => k <= Stored(now, l, n)
    <2>1. l \in Nat /\ Len(t.levels[l]) = Stored(old, l, n) /\ Len(u.levels[l]) = Stored(now, l, n)
      BY LeanIMTAssumption DEF Shaped, Levels
    <2>2. Power(n, l) \in Nat \ {0}
      BY <1>0, <2>1, PowerPositive
    <2>3. \A k \in Nat \ {0} : k * Power(n, l) <= old => Layer(leaves, l, n)[k] = Layer(new, l, n)[k]
      BY <1>0, <2>1, LayerStable
    <2>4. ASSUME NEW s \in Nat, NEW k \in Nat \ {0}, k * Power(n, l) <= s
          PROVE  k <= Stored(s, l, n) /\ Stored(s, l, n) \in Nat
      <3>1. s \div Power(n, l) <= Stored(s, l, n) /\ Stored(s, l, n) \in Nat /\ s \div Power(n, l) \in Nat
        BY <2>1, StoredBounds
      <3>2. s < s + 1 /\ s + 1 \in Nat
        OBVIOUS
      <3>3. k <= s \div Power(n, l)
        BY <2>1, <2>4, <3>2, DirtyFacts
      <3>4. QED
        BY <3>1, <3>3
    <2>5. \A s \in Nat : Stored(s, l, n) \in Nat
      BY <2>1, StoredBounds
    <2>6. QED
      BY <1>0, <2>1, <2>2, <2>3, <2>4, <2>5
  <1>2. ASSUME NEW l \in Levels, NEW k \in 1..Len(u.levels[l])
        PROVE  u.levels[l][k] = IF k * Power(n, l) <= old THEN t.levels[l][k] ELSE Layer(new, l, n)[k]
    BY DEF Rehashed
  <1>3. ASSUME Trusted(t, leaves, n), NEW l \in Levels, NEW k \in Nat \ {0},
               k % n # 0, k * Power(n, l) <= now
        PROVE  u.levels[l][k] = Layer(new, l, n)[k]
    <2>1. k \in 1..Len(u.levels[l])
      BY <1>0, <1>1, <1>3
    <2>2. k * Power(n, l) <= old => t.levels[l][k] = Layer(leaves, l, n)[k]
      BY <1>3 DEF Trusted
    <2>3. QED
      BY <1>1, <1>2, <2>1, <2>2
  <1>4. ASSUME Right(t, leaves, n), NEW l \in Levels, NEW k \in 1..Len(u.levels[l])
        PROVE  u.levels[l][k] = Layer(new, l, n)[k]
    <2>1. k \in Nat \ {0}
      BY <1>0, <1>1
    <2>2. k * Power(n, l) <= old => t.levels[l][k] = Layer(leaves, l, n)[k]
      <3>1. SUFFICES ASSUME k * Power(n, l) <= old PROVE t.levels[l][k] = Layer(leaves, l, n)[k]
        OBVIOUS
      <3>2. k \in 1..Len(t.levels[l])
        BY <1>0, <1>1, <2>1, <3>1
      <3>3. QED
        BY <1>4, <3>2 DEF Right
    <2>3. QED
      BY <1>1, <1>2, <2>1, <2>2
  <1>5. QED
    BY <1>3, <1>4 DEF Trusted, Right

\* A level some leaves are added to: old nodes first, then nodes of the new layer.
Merged(child, level, dirty, layer) ==
    \A i \in 1..Len(child) : child[i] = IF i <= dirty THEN level[i] ELSE layer[i]

GrowsFrom(child, level, leaves, new, l, n) ==
    /\ IsSeq(child) /\ Len(child) = CeilDiv(Len(new), Power(n, l))
    /\ TrustedLevel(level, leaves, l, n)
    /\ Merged(child, level, Len(leaves) \div Power(n, l), Layer(new, l, n))

DirtyNode(q, leaves, new, l, n) ==
    Len(leaves) \div Power(n, l) <= q /\ q < CeilDiv(Len(new), Power(n, l))

\* A parent from the first dirty one on is the one of the new layer.
LEMMA DirtyGroup ==
    ASSUME NEW n \in Nat \ {0, 1}, NEW leaves, NEW new, Longer(new, leaves), NEW l \in Nat,
           NEW level, NEW child, GrowsFrom(child, level, leaves, new, l, n),
           NEW q \in Nat, DirtyNode(q, leaves, new, l + 1, n)
    PROVE  GroupHash(Group(child, q, n)) = Layer(new, l + 1, n)[q + 1]
  <1>0. /\ IsSeq(leaves) /\ IsSeq(new) /\ Len(leaves) < Len(new)
        /\ \A i \in 1..Len(leaves) : leaves[i] = new[i]
        /\ TrustedLevel(level, leaves, l, n)
        /\ IsSeq(child) /\ Len(child) = CeilDiv(Len(new), Power(n, l))
        /\ Merged(child, level, Len(leaves) \div Power(n, l), Layer(new, l, n))
        /\ Len(leaves) \div Power(n, l + 1) <= q /\ q < CeilDiv(Len(new), Power(n, l + 1))
    BY DEF Longer, GrowsFrom, DirtyNode
  <1> DEFINE P == Power(n, l)
             old == Len(leaves)
             dirty == old \div P
             B == Layer(new, l, n)
             g == Group(child, q, n)
             z == q * n
  <1>1. P \in Nat \ {0} /\ Power(n, l + 1) = n * P /\ n \in Nat \ {0} /\ n \in Nat
    <2>1. n \in Nat /\ n \in Nat \ {0} /\ l + 1 \in Nat
      OBVIOUS
    <2>2. QED
      BY <2>1, PowerSteps, PowerPositive
  <1>2. old \in Nat /\ Len(new) \in Nat /\ dirty \in Nat /\ old <= Len(new)
    <2>1. old \in Nat /\ Len(new) \in Nat
      BY <1>0 DEF IsSeq
    <2>2. dirty \in Nat
      BY <1>1, <2>1, DivBounds
    <2> HIDE DEF old, dirty
    <2>3. QED
      BY <1>0, <2>1, <2>2 DEF old
  <1>3. dirty \div n <= q
    <2>1. old \div (n * P) = dirty \div n
      BY <1>1, <1>2, DivNested
    <2>2. QED
      BY <1>0, <1>1, <2>1
  <1>4. IsSeq(B) /\ Len(B) = Len(child) /\ Len(child) \in Nat
    BY <1>0, <1>1, LayerIsSeq, SMTT(30) DEF IsSeq
  <1>5. Layer(new, l + 1, n)[q + 1] = GroupHash(Group(B, q, n)) /\ z < Len(B) /\ z \in Nat
    BY <1>0, <1>1, LayerNode
  <1>6. \A k \in Nat \ {0} : k * P <= old => Layer(leaves, l, n)[k] = B[k]
    BY <1>0, <1>2, LayerStable
  <1>7. \A k \in Nat \ {0} : k % n # 0 /\ k * P <= old => level[k] = B[k]
    BY <1>0, <1>6 DEF TrustedLevel
  <1>8. \A k \in Nat : k <= dirty <=> k * P <= old
    BY <1>0, <1>2, DirtyFacts
  <1>9. \A i \in 1..Len(child) : child[i] = IF i <= dirty THEN level[i] ELSE B[i]
    BY <1>0 DEF Merged
  <1> HIDE DEF B, dirty, P, old
  <1>10. IsSeq(g) /\ Len(g) = GroupLen(child, q, n) /\ Copies(g, child, z) /\ Starts(child, q, n)
    <2>1. Starts(child, q, n)
      BY <1>4, <1>5 DEF Starts
    <2>2. QED
      BY <1>0, <1>1, <2>1, GroupCopies
  <1>11. Starts(B, q, n) /\ Len(g) = GroupLen(B, q, n)
    BY <1>4, <1>10 DEF Starts, GroupLen
  <1>12. Len(g) <= n /\ Len(g) <= Len(child) - z /\ Len(g) \in Nat
    BY <1>0, <1>4, <1>5, <1>10 DEF GroupLen, LessOf, IsSeq
  <1> HIDE DEF g
  <1>13. ASSUME NEW j \in 1..Len(g) PROVE g[j] = B[z + j]
    <2> DEFINE i == z + j
    <2>1. g[j] = child[i]
      BY <1>0, <1>10 DEF Copies
    <2> HIDE DEF z
    <2>2. i \in 1..Len(child) /\ i \in Nat \ {0} /\ i \in Nat /\ j \in 1..n
      <3>1. z \in Nat /\ Len(child) \in Nat /\ n \in Nat /\ Len(g) \in Nat
            /\ Len(g) <= n /\ Len(g) <= Len(child) - z
        BY <1>1, <1>4, <1>5, <1>12
      <3>2. QED
        BY <3>1, GroupIndex, Zenon
    <2>3. CASE i <= dirty
      <3>1. i % n # 0
        <4>1. CASE j < n
          <5>1. j \in 0..n - 1 /\ j # 0
            BY <2>2, <4>1
          <5>2. i % n = j
            BY <1>1, <5>1, ModOfSum, Zenon DEF z
          <5>3. QED
            BY <5>1, <5>2
        <4>2. CASE j = n
          <5>1. i = (q + 1) * n
            BY <4>2 DEF z
          <5>2. dirty \div n >= q + 1
            <6>1. ASSUME NEW x \in Nat, NEW y \in Nat, x * n <= y PROVE y \div n >= x
              <7>1. y \div n \in Nat /\ y < (y \div n) * n + n
                BY <1>1, DivBounds
              <7>2. QED
                BY <1>1, <6>1, <7>1, QuotientAbove, Zenon
            <6>2. q + 1 \in Nat /\ (q + 1) * n <= dirty
              BY <2>3, <5>1
            <6>3. QED
              BY <1>2, <6>1, <6>2, Zenon DEF dirty
          <5>3. dirty \div n \in Nat
            BY <1>1, <1>2, DivBounds
          <5>4. QED
            <6> DEFINE d == dirty \div n
            <6>1. d <= q /\ d >= q + 1 /\ d \in Nat
              BY <1>3, <5>2, <5>3
            <6> HIDE DEF d
            <6>2. QED
              BY <6>1
        <4>3. QED
          BY <2>2, <4>1, <4>2
      <3>2. i * P <= old
        BY <1>8, <2>2, <2>3
      <3>3. level[i] = B[i]
        BY <1>7, <2>2, <3>1, <3>2
      <3>4. child[i] = level[i]
        BY <1>9, <2>2, <2>3
      <3>5. QED
        BY <2>1, <3>3, <3>4
    <2>4. CASE ~(i <= dirty)
      BY <1>9, <2>1, <2>2, <2>4
    <2>5. QED
      BY <2>3, <2>4
  <1>14. Copies(g, B, z)
    BY <1>13 DEF Copies
  <1>15. g = Group(B, q, n)
    BY <1>1, <1>4, <1>10, <1>11, <1>14, IsGroup
  <1>16. QED
    BY <1>5, <1>15 DEF g, B

\* The level above a grown one.
GrownOver(t, l, child) ==
    LET old == IF l \in Levels THEN t.levels[l] ELSE <<>>
    IN [p \in 1..CeilDiv(Len(child), arity) |->
          IF p <= FirstDirty(t, l) THEN IF p <= Len(old) THEN old[p] ELSE Zero
          ELSE ParentOf(child, p - 1)]

GrownTable(f, t, leaves, depth) ==
    f = [l \in 0..depth |-> IF l = 0 THEN t.levels[0] \o leaves ELSE GrownOver(t, l, f[l - 1])]

LEMMA GrownTableExists ==
    ASSUME NEW t, NEW leaves, NEW depth \in Nat
    PROVE  \E f : GrownTable(f, t, leaves, depth)
  <1> DEFINE base == t.levels[0] \o leaves
             Good == {m \in Nat : \E f : GrownTable(f, t, leaves, m)}
  <1>0. ASSUME NEW f, NEW m \in Nat
        PROVE  GrownTable(f, t, leaves, m) <=>
                 f = [l \in 0..m |-> IF l = 0 THEN base ELSE GrownOver(t, l, f[l - 1])]
    BY DEF GrownTable
  <1> HIDE DEF base
  <1>1. 0 \in Good
    <2> DEFINE g == [k \in 0..0 |-> base]
    <2>1. g = [l \in 0..0 |-> IF l = 0 THEN base ELSE GrownOver(t, l, g[l - 1])]
      OBVIOUS
    <2> HIDE DEF g
    <2>2. GrownTable(g, t, leaves, 0)
      BY <1>0, <2>1
    <2>3. QED
      BY <2>2, Zenon
  <1>2. ASSUME NEW m \in Nat, m \in Good PROVE m + 1 \in Good
    <2>1. PICK f : GrownTable(f, t, leaves, m)
      BY <1>2, Zenon
    <2> DEFINE g == [k \in 0..m + 1 |-> IF k = m + 1 THEN GrownOver(t, m + 1, f[m]) ELSE f[k]]
    <2>2. f = [l \in 0..m |-> IF l = 0 THEN base ELSE GrownOver(t, l, f[l - 1])]
      BY <1>0, <2>1
    <2>3. ASSUME NEW k \in 0..m + 1 PROVE g[k] = IF k = 0 THEN base ELSE GrownOver(t, k, g[k - 1])
      BY <2>2
    <2>4. g = [l \in 0..m + 1 |-> IF l = 0 THEN base ELSE GrownOver(t, l, g[l - 1])]
      BY <2>3
    <2>5. m + 1 \in Nat
      OBVIOUS
    <2> HIDE DEF g
    <2>6. GrownTable(g, t, leaves, m + 1)
      BY <1>0, <2>4, <2>5
    <2>7. QED
      BY <2>5, <2>6
  <1>3. depth \in Good
    BY <1>1, <1>2, Inductive
  <1>4. QED
    BY <1>3

LEMMA GrownIsTable ==
    ASSUME NEW t, NEW leaves, NEW depth \in Nat
    PROVE  GrownTable(Grown(t, leaves, depth), t, leaves, depth)
  <1> DEFINE step(f) == [l \in 0..depth |->
               IF l = 0 THEN t.levels[0] \o leaves ELSE GrownOver(t, l, f[l - 1])]
             chosen == CHOOSE f : f = step(f)
  <1>1. \A f : GrownTable(f, t, leaves, depth) <=> f = step(f)
    BY DEF GrownTable
  <1>2. Grown(t, leaves, depth) = chosen
    BY DEF Grown, GrownOver
  <1> HIDE DEF step
  <1>3. \E f : f = step(f)
    BY <1>1, GrownTableExists
  <1>4. chosen = step(chosen)
    BY <1>3, Zenon
  <1>5. QED
    BY <1>1, <1>2, <1>4

\* A batch: the levels have the lengths of the new layers.
LEMMA GrownLevels ==
    ASSUME arity \in Nat \ {0, 1}, NEW t, NEW leaves, NEW more, NEW depth \in Nat,
           Shaped(t, leaves, arity), IsSeq(more)
    PROVE  /\ Grown(t, more, depth)[0] = leaves \o more
           /\ \A l \in 0..depth : /\ IsSeq(Grown(t, more, depth)[l])
                                   /\ Len(Grown(t, more, depth)[l]) = CeilDiv(Len(leaves) + Len(more), Power(arity, l))
           /\ \A l \in 0..depth - 1 : Grown(t, more, depth)[l + 1] = GrownOver(t, l + 1, Grown(t, more, depth)[l])
  <1> DEFINE n == arity
             new == leaves \o more
             now == Len(leaves) + Len(more)
             grown == Grown(t, more, depth)
             Good == {l \in Nat : l <= depth => IsSeq(grown[l]) /\ Len(grown[l]) = CeilDiv(now, Power(n, l))}
  <1>0. /\ IsSeq(leaves) /\ t.levels[0] = leaves /\ n \in Nat /\ n \in Nat \ {0} /\ now \in Nat
        /\ IsSeq(new) /\ Len(new) = now
    <2>1. IsSeq(leaves) /\ t.levels[0] = leaves
      BY DEF Shaped
    <2>2. QED
      BY <2>1, ConcatIsSeq DEF IsSeq
  <1>1. /\ grown[0] = new
        /\ \A l \in 0..depth - 1 : grown[l + 1] = GrownOver(t, l + 1, grown[l])
    <2>1. GrownTable(grown, t, more, depth)
      BY GrownIsTable
    <2> HIDE DEF grown
    <2>2. grown[0] = new
      BY <1>0, <2>1 DEF GrownTable
    <2>3. ASSUME NEW l \in 0..depth - 1 PROVE grown[l + 1] = GrownOver(t, l + 1, grown[l])
      <3>1. l + 1 \in 0..depth /\ l + 1 # 0 /\ l + 1 - 1 = l
        OBVIOUS
      <3>2. ASSUME NEW k \in 0..depth, k # 0 PROVE grown[k] = GrownOver(t, k, grown[k - 1])
        BY <2>1, <3>2 DEF GrownTable
      <3>3. QED
        BY <3>1, <3>2
    <2>4. QED
      BY <2>2, <2>3
  <1> HIDE DEF grown, new
  <1>2. 0 \in Good
    <2>1. Power(n, 0) = 1
      BY <1>0, PowerSteps
    <2>2. CeilDiv(now, 1) = now
      BY <1>0 DEF CeilDiv
    <2>3. QED
      BY <1>0, <1>1, <2>1, <2>2
  <1>3. ASSUME NEW l \in Nat, l \in Good PROVE l + 1 \in Good
    <2>1. SUFFICES ASSUME l + 1 <= depth
                   PROVE  IsSeq(grown[l + 1]) /\ Len(grown[l + 1]) = CeilDiv(now, Power(n, l + 1))
      OBVIOUS
    <2>2. l <= depth /\ l \in 0..depth - 1
      BY <2>1
    <2>3. IsSeq(grown[l]) /\ Len(grown[l]) = CeilDiv(now, Power(n, l))
      BY <1>3, <2>2
    <2>4. Power(n, l) \in Nat \ {0} /\ Power(n, l + 1) = n * Power(n, l)
      BY <1>0, PowerPositive, PowerSteps
    <2>5. CeilDiv(CeilDiv(now, Power(n, l)), n) = CeilDiv(now, n * Power(n, l))
      BY <1>0, <2>4, CeilDivNested
    <2> DEFINE u == grown[l + 1]
               len == CeilDiv(Len(grown[l]), n)
    <2>6. u = GrownOver(t, l + 1, grown[l])
      BY <1>1, <2>2
    <2>7. len \in Nat
      BY <1>0, <2>3, CeilDivBounds DEF IsSeq
    <2> HIDE DEF u
    <2>8. u = [p \in 1..len |-> u[p]]
      BY <2>6 DEF GrownOver
    <2> HIDE DEF len
    <2>9. IsSeq(u) /\ Len(u) = len
      BY <2>7, <2>8, TableIsSeq
    <2>10. QED
      BY <2>3, <2>4, <2>5, <2>9 DEF u, len
  <1>4. \A l \in Nat : l \in Good
    <2> HIDE DEF Good
    <2>1. QED
      BY <1>2, <1>3, Inductive
  <1>5. \A l \in 0..depth : IsSeq(grown[l]) /\ Len(grown[l]) = CeilDiv(now, Power(n, l))
    BY <1>4
  <1>6. QED
    BY <1>1, <1>5 DEF grown, new

StoredLevel(t, l) == IF l \in Levels THEN t.levels[l] ELSE <<>>

\* The depth of a tree: one node on top, none of them there before.
LEMMA TopNode ==
    ASSUME NEW n \in Nat \ {0, 1}, NEW old \in Nat, NEW now \in Nat, old < now, NEW depth,
           depth = CeilLogN(now, n)
    PROVE  depth \in Nat /\ CeilDiv(now, Power(n, depth)) = 1 /\ old \div Power(n, depth) = 0
  <1> DEFINE P == Power(n, depth)
  <1>1. depth \in Nat /\ now <= P
    BY DepthBounds
  <1>2. P \in Nat \ {0}
    BY <1>1, PowerPositive
  <1> HIDE DEF P
  <1>3. CeilDiv(now, P) = 1
    <2>1. CeilDiv(now, P) \in Nat /\ now <= P * CeilDiv(now, P) /\ P * CeilDiv(now, P) < now + P
      BY <1>2, CeilDivBounds
    <2>2. ASSUME NEW x \in Nat, now <= P * x, P * x < now + P PROVE x = 1
      <3>1. x # 0
        BY <1>2, <2>2
      <3>2. ASSUME x >= 2 PROVE FALSE
        <4>1. P * x >= P * 2
          BY <1>2, <3>2
        <4>2. P * x \in Nat
          BY <1>2
        <4>3. QED
          BY <1>1, <1>2, <2>2, <4>1, <4>2
      <3>3. QED
        BY <3>1, <3>2
    <2>3. QED
      BY <2>1, <2>2
  <1>4. old \div P = 0
    BY <1>1, <1>2
  <1>5. QED
    BY <1>1, <1>3, <1>4 DEF P

\* With the nodes it reads right, a batch computes every node it reaches.
LEMMA GrownNodes ==
    ASSUME arity \in Nat \ {0, 1}, NEW t, NEW leaves, NEW more, NEW depth,
           Shaped(t, leaves, arity), Trusted(t, leaves, arity), IsSeq(more), Len(more) > 0,
           depth = CeilLogN(Len(leaves) + Len(more), arity), depth <= MaxDepth
    PROVE  \A l \in 0..depth :
             Merged(Grown(t, more, depth)[l], StoredLevel(t, l), Len(leaves) \div Power(arity, l),
                    Layer(leaves \o more, l, arity))
  <1> DEFINE n == arity
             size == Len(leaves)
             new == leaves \o more
             now == size + Len(more)
             grown == Grown(t, more, depth)
             dirty(l) == size \div Power(n, l)
             fine(l) == Merged(grown[l], StoredLevel(t, l), dirty(l), Layer(new, l, n))
             Good == {l \in Nat : l <= depth => fine(l)}
  <1>0. /\ IsSeq(leaves) /\ t.levels[0] = leaves /\ t.size = size /\ size \in Nat /\ now \in Nat /\ size < now
        /\ n \in Nat /\ n \in Nat \ {0}
        /\ IsSeq(new) /\ Len(new) = now /\ \A i \in 1..size : leaves[i] = new[i]
    <2>1. IsSeq(leaves) /\ t.levels[0] = leaves /\ t.size = size /\ size \in Nat /\ Len(more) \in Nat
      BY DEF Shaped, IsSeq
    <2>2. /\ IsSeq(new) /\ Len(new) = size + Len(more)
          /\ \A k \in 1..size + Len(more) : new[k] = IF k <= size THEN leaves[k] ELSE more[k - size]
      BY <2>1, ConcatIsSeq
    <2> HIDE DEF new
    <2>3. QED
      BY <2>1, <2>2
  <1>1. depth \in Nat /\ CeilDiv(now, Power(n, depth)) = 1 /\ dirty(depth) = 0
    BY <1>0, TopNode
  <1>2. /\ grown[0] = new
        /\ \A l \in 0..depth : IsSeq(grown[l]) /\ Len(grown[l]) = CeilDiv(now, Power(n, l))
        /\ \A l \in 0..depth - 1 : grown[l + 1] = GrownOver(t, l + 1, grown[l])
    BY <1>1, GrownLevels
  <1>3. 0 \in Levels /\ \A l \in Levels : l \in Nat
    BY LeanIMTAssumption DEF Levels
  <1> HIDE DEF grown, new
  <1>4. 0 \in Good
    <2>1. Power(n, 0) = 1 /\ Layer(new, 0, n) = new
      BY <1>0, PowerSteps, LayerSteps
    <2>2. dirty(0) = size /\ StoredLevel(t, 0) = leaves
      BY <1>0, <1>3, <2>1 DEF StoredLevel
    <2>3. \A i \in 1..now : i <= size => i \in 1..size
      BY <1>0
    <2>4. Merged(new, leaves, size, new)
      BY <1>0, <2>3 DEF Merged
    <2>5. QED
      BY <1>2, <2>1, <2>2, <2>4
  <1>5. ASSUME NEW l \in 0..depth - 1, fine(l) PROVE fine(l + 1)
    <2>1. l \in Nat /\ l \in Levels /\ l + 1 \in Nat /\ l \in 0..depth /\ l + 1 \in 0..depth
      BY <1>1, LeanIMTAssumption DEF Levels
    <2> DEFINE d == dirty(l + 1)
               child == grown[l]
               u == grown[l + 1]
               level == StoredLevel(t, l + 1)
    <2>2. u = [p \in 1..CeilDiv(Len(child), n) |->
                IF p <= d THEN IF p <= Len(level) THEN level[p] ELSE Zero
                ELSE GroupHash(Group(child, p - 1, n))]
      BY <1>0, <1>2, <2>1 DEF GrownOver, StoredLevel, FirstDirty, Span, ParentOf, Children
    <2>3. CeilDiv(Len(child), n) = CeilDiv(now, Power(n, l + 1)) /\ IsSeq(child) /\ Len(child) = CeilDiv(now, Power(n, l))
      <3>1. Power(n, l) \in Nat \ {0} /\ Power(n, l + 1) = n * Power(n, l)
        BY <1>0, <2>1, PowerPositive, PowerSteps
      <3>2. CeilDiv(CeilDiv(now, Power(n, l)), n) = CeilDiv(now, n * Power(n, l))
        BY <1>0, <3>1, CeilDivNested
      <3>3. IsSeq(child) /\ Len(child) = CeilDiv(now, Power(n, l))
        BY <1>2, <2>1
      <3>4. QED
        BY <3>1, <3>2, <3>3
    <2>4. d \in Nat
      BY <1>0, <2>1, StoredBounds
    <2>5. ASSUME NEW p \in Nat \ {0}, p <= d PROVE p <= Len(level)
      <3>1. CASE l + 1 \in Levels
        <4>1. Len(level) = Stored(size, l + 1, n)
          BY <3>1 DEF StoredLevel, Shaped
        <4>2. d <= Stored(size, l + 1, n) /\ Stored(size, l + 1, n) \in Nat
          BY <1>0, <2>1, StoredBounds
        <4>3. QED
          BY <2>4, <2>5, <4>1, <4>2
      <3>2. CASE l + 1 \notin Levels
        <4>1. l + 1 = depth
          BY <1>1, <2>1, <3>2, LeanIMTAssumption DEF Levels
        <4>2. QED
          BY <1>1, <2>5, <4>1
      <3>3. QED
        BY <3>1, <3>2
    <2>6. TrustedLevel(t.levels[l], leaves, l, n)
      BY <2>1 DEF Trusted, TrustedLevel
    <2>7. Merged(child, t.levels[l], size \div Power(n, l), Layer(new, l, n))
      BY <1>5, <2>1 DEF StoredLevel
    <2> HIDE DEF child, level
    <2>8. ASSUME NEW q \in Nat, d <= q, q < CeilDiv(now, Power(n, l + 1))
          PROVE  GroupHash(Group(child, q, n)) = Layer(new, l + 1, n)[q + 1]
      <3> DEFINE low == t.levels[l]
      <3>1. TrustedLevel(low, leaves, l, n) /\ Merged(child, low, size \div Power(n, l), Layer(new, l, n))
        BY <2>6, <2>7
      <3>2. DirtyNode(q, leaves, new, l + 1, n)
        BY <1>0, <2>8 DEF DirtyNode
      <3> HIDE DEF low
      <3>3. GrowsFrom(child, low, leaves, new, l, n)
        BY <1>0, <2>3, <3>1 DEF GrowsFrom
      <3>4. Longer(new, leaves)
        BY <1>0 DEF Longer
      <3>5. QED
        BY <2>1, <3>2, <3>3, <3>4, DirtyGroup
    <2> HIDE DEF d, u
    <2>9. CeilDiv(Len(child), n) \in Nat /\ Len(u) = CeilDiv(Len(child), n)
      <3>1. CeilDiv(Len(child), n) \in Nat
        BY <1>0, <2>3, CeilDivBounds DEF IsSeq
      <3>2. QED
        BY <1>2, <2>1, <2>3, <3>1 DEF u
    <2>10. ASSUME NEW p \in 1..Len(u) PROVE u[p] = IF p <= d THEN level[p] ELSE Layer(new, l + 1, n)[p]
      <3>1. p \in Nat \ {0} /\ p \in 1..CeilDiv(Len(child), n)
        BY <2>9
      <3>2. CASE p <= d
        BY <2>2, <2>5, <3>1, <3>2
      <3>3. CASE ~(p <= d)
        <4>1. u[p] = GroupHash(Group(child, p - 1, n))
          BY <2>2, <3>1, <3>3
        <4>2. p - 1 \in Nat /\ d <= p - 1 /\ p - 1 < CeilDiv(now, Power(n, l + 1)) /\ p - 1 + 1 = p
          BY <2>3, <2>4, <2>9, <3>1, <3>3
        <4>3. GroupHash(Group(child, p - 1, n)) = Layer(new, l + 1, n)[p - 1 + 1]
          BY <2>8, <4>2, Zenon
        <4>4. QED
          BY <3>3, <4>1, <4>2, <4>3
      <3>4. QED
        BY <3>2, <3>3
    <2>11. Merged(u, level, d, Layer(new, l + 1, n))
      BY <2>10 DEF Merged
    <2>12. QED
      BY <2>11 DEF u, level, d
  <1> HIDE DEF fine
  <1>6. ASSUME NEW l \in Nat, l \in Good PROVE l + 1 \in Good
    BY <1>1, <1>5, <1>6
  <1>7. \A l \in Nat : l \in Good
    <2> HIDE DEF Good
    <2>1. QED
      BY <1>4, <1>6, Inductive
  <1>8. \A l \in 0..depth : fine(l)
    BY <1>1, <1>7
  <1>9. QED
    BY <1>8 DEF fine, grown, new

LevelsSet(t, u, grown, depth) ==
    \A l \in Levels : u.levels[l] = IF l <= depth THEN grown[l] ELSE t.levels[l]

BatchSet(t, leaves, more, depth) ==
    /\ Shaped(InsertMany(t, more), leaves \o more, arity)
    /\ InsertMany(t, more).root = Grown(t, more, depth)[depth][1]
    /\ LevelsSet(t, InsertMany(t, more), Grown(t, more, depth), depth)

\* A batch leaves a tree of the right shape over all the leaves.
LEMMA InsertManyShape ==
    ASSUME arity \in Nat \ {0, 1}, NEW t, NEW leaves, NEW more, Shaped(t, leaves, arity),
           IsSeq(more), Len(more) > 0, CeilLogN(Len(leaves) + Len(more), arity) <= MaxDepth
    PROVE  BatchSet(t, leaves, more, CeilLogN(Len(leaves) + Len(more), arity))
  <1> DEFINE n == arity
             depth == CeilLogN(Len(leaves) + Len(more), arity)
             size == Len(leaves)
             new == leaves \o more
             now == size + Len(more)
             grown == Grown(t, more, depth)
             u == InsertMany(t, more)
  <1>0. /\ IsSeq(leaves) /\ t.size = size /\ size \in Nat /\ now \in Nat /\ size < now /\ size <= now
        /\ n \in Nat /\ n \in Nat \ {0} /\ IsSeq(new) /\ Len(new) = now
    <2>1. IsSeq(leaves) /\ t.size = size /\ size \in Nat /\ Len(more) \in Nat
      BY DEF Shaped, IsSeq
    <2>2. QED
      BY <2>1, ConcatIsSeq
  <1>1. depth \in Nat /\ CeilDiv(now, Power(n, depth)) = 1
    BY <1>0, TopNode
  <1>2. CeilLogN(size, n) \in Nat /\ CeilLogN(size, n) <= depth
    BY <1>0, DepthBounds, DepthAscends
  <1>3. /\ grown[0] = new
        /\ \A l \in 0..depth : IsSeq(grown[l]) /\ Len(grown[l]) = CeilDiv(now, Power(n, l))
    BY <1>1, GrownLevels, SMTT(30)
  <1>4. u = [levels |-> [l \in Levels |-> IF l <= depth THEN grown[l] ELSE t.levels[l]],
             root |-> grown[depth][Len(grown[depth])], size |-> now, depth |-> depth]
    BY <1>0 DEF InsertMany
  <1> HIDE DEF grown, u, new
  <1>5. ASSUME NEW l \in Levels
        PROVE  /\ IsSeq(u.levels[l]) /\ Len(u.levels[l]) = Stored(now, l, n)
               /\ u.levels[l] = IF l <= depth THEN grown[l] ELSE t.levels[l]
    <2>1. l \in Nat /\ IsSeq(t.levels[l]) /\ Len(t.levels[l]) = Stored(size, l, n)
      BY LeanIMTAssumption DEF Levels, Shaped, IsTree
    <2>2. u.levels[l] = IF l <= depth THEN grown[l] ELSE t.levels[l]
      BY <1>4
    <2>3. CASE l <= depth
      <3>1. l \in 0..depth
        BY <1>1, <2>1, <2>3
      <3>2. QED
        BY <1>3, <2>2, <2>3, <3>1 DEF Stored
    <2>4. CASE ~(l <= depth)
      <3>1. ~(l <= CeilLogN(size, n))
        BY <1>1, <1>2, <2>1, <2>4
      <3>2. QED
        BY <2>1, <2>2, <2>4, <3>1 DEF Stored
    <2>5. QED
      BY <2>3, <2>4
  <1>6. IsTree(u) /\ u.size = now /\ u.depth = depth /\ u.root = grown[depth][Len(grown[depth])]
    BY <1>4, <1>5 DEF IsTree
  <1>7. u.levels[0] = new
    <2>1. 0 \in Levels /\ 0 <= depth
      BY <1>1, LeanIMTAssumption DEF Levels
    <2>2. QED
      BY <1>3, <1>5, <2>1
  <1>8. Shaped(u, new, n)
    BY <1>0, <1>5, <1>6, <1>7 DEF Shaped
  <1>9. u.root = grown[depth][1]
    <2>1. depth \in 0..depth
      BY <1>1
    <2>2. QED
      BY <1>1, <1>3, <1>6, <2>1
  <1>10. QED
    <2>1. LevelsSet(t, u, grown, depth)
      BY <1>5 DEF LevelsSet
    <2>2. QED
      BY <1>8, <1>9, <2>1 DEF BatchSet, u, grown, new

\* With the nodes it reads right, a batch computes the nodes it reaches.
LEMMA InsertManyNodes ==
    ASSUME arity \in Nat \ {0, 1}, NEW t, NEW leaves, NEW more, Shaped(t, leaves, arity),
           Trusted(t, leaves, arity), IsSeq(more), Len(more) > 0,
           CeilLogN(Len(leaves) + Len(more), arity) <= MaxDepth
    PROVE  /\ Rehashed(t, leaves, InsertMany(t, more), leaves \o more, arity)
           /\ InsertMany(t, more).root = RootOf(leaves \o more, arity)
  <1> DEFINE n == arity
             size == Len(leaves)
             new == leaves \o more
             now == size + Len(more)
             depth == CeilLogN(now, n)
             grown == Grown(t, more, depth)
             u == InsertMany(t, more)
             dirty(l) == size \div Power(n, l)
  <1>0. /\ IsSeq(leaves) /\ size \in Nat /\ now \in Nat /\ size < now
        /\ n \in Nat /\ n \in Nat \ {0} /\ Len(new) = now
    <2>1. IsSeq(leaves) /\ size \in Nat /\ Len(more) \in Nat
      BY DEF Shaped, IsSeq
    <2>2. QED
      BY <2>1, ConcatIsSeq
  <1>1. depth \in Nat /\ CeilDiv(now, Power(n, depth)) = 1 /\ dirty(depth) = 0
    BY <1>0, TopNode
  <1>2. \A l \in 0..depth : Merged(grown[l], StoredLevel(t, l), dirty(l), Layer(new, l, n))
    BY GrownNodes
  <1>3. \A l \in 0..depth : IsSeq(grown[l]) /\ Len(grown[l]) = CeilDiv(now, Power(n, l))
    BY <1>1, GrownLevels
  <1>4. /\ Shaped(u, new, n) /\ u.root = grown[depth][1]
        /\ \A l \in Levels : u.levels[l] = IF l <= depth THEN grown[l] ELSE t.levels[l]
    <2>1. BatchSet(t, leaves, more, depth)
      BY InsertManyShape
    <2> HIDE DEF depth
    <2>2. Shaped(u, new, n) /\ u.root = grown[depth][1] /\ LevelsSet(t, u, grown, depth)
      BY <2>1 DEF BatchSet
    <2> HIDE DEF u, grown, new
    <2>3. QED
      BY <2>2 DEF LevelsSet
  <1>5. \A l \in Nat : dirty(l) \in Nat /\ \A k \in Nat : k <= dirty(l) <=> k * Power(n, l) <= size
    BY <1>0, DirtyFacts, StoredBounds
  <1> HIDE DEF grown, u, new, depth, dirty
  <1>6. ASSUME NEW l \in Levels, NEW k \in 1..Len(u.levels[l])
        PROVE  u.levels[l][k] = IF k * Power(n, l) <= size THEN t.levels[l][k] ELSE Layer(new, l, n)[k]
    <2>1. l \in Nat /\ Len(u.levels[l]) = Stored(now, l, n) /\ Len(u.levels[l]) \in Nat
      BY <1>0, <1>4, LeanIMTAssumption DEF Levels, Shaped, IsTree, IsSeq
    <2>2. k \in Nat \ {0}
      BY <2>1
    <2>3. l <= depth
      BY <1>1, <2>1, <2>2 DEF Stored, depth
    <2>4. l \in 0..depth /\ u.levels[l] = grown[l] /\ StoredLevel(t, l) = t.levels[l]
      BY <1>1, <1>4, <2>1, <2>3 DEF StoredLevel
    <2>5. k <= dirty(l) <=> k * Power(n, l) <= size
      BY <1>5, <2>1, <2>2
    <2>6. u.levels[l][k] = IF k <= dirty(l) THEN t.levels[l][k] ELSE Layer(new, l, n)[k]
      <3>1. Merged(u.levels[l], t.levels[l], dirty(l), Layer(new, l, n))
        BY <1>2, <2>4
      <3>2. QED
        BY <3>1 DEF Merged
    <2>7. QED
      BY <2>5, <2>6
  <1>7. Rehashed(t, leaves, u, new, n)
    BY <1>6 DEF Rehashed
  <1>8. u.root = RootOf(new, n)
    <2>1. depth \in 0..depth /\ Len(new) # 0
      BY <1>0, <1>1
    <2>2. grown[depth][1] = Layer(new, depth, n)[1]
      <3>1. 1 \in 1..Len(grown[depth]) /\ ~(1 <= dirty(depth))
        BY <1>1, <1>3, <2>1
      <3>2. Merged(grown[depth], StoredLevel(t, depth), dirty(depth), Layer(new, depth, n))
        BY <1>2, <2>1
      <3>3. QED
        BY <3>1, <3>2 DEF Merged
    <2>3. QED
      BY <1>0, <1>4, <2>1, <2>2 DEF RootOf, depth
  <1>9. QED
    BY <1>7, <1>8 DEF u, new

\* The root an open computes again from the leaves.
LEMMA RecomputedRoot ==
    ASSUME arity \in Nat \ {0, 1}, NEW t, NEW leaves, IsSeq(leaves), t.levels[0] = leaves,
           t.size = Len(leaves), t.depth = CeilLogN(Len(leaves), arity)
    PROVE  RecomputeRoot(t) = RootOf(leaves, arity)
  BY DEF RecomputeRoot, RootOf, Layer, IsSeq

====
