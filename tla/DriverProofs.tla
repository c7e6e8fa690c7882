---------------------------- MODULE DriverProofs ----------------------------
(***************************************************************************)
(* Proofs about Driver, for every tree of blocks, in three parts.          *)
(*                                                                         *)
(* The source: what the recursive functions behind the chain of a block,   *)
(* its headers and its events compute.                                     *)
(*                                                                         *)
(* Control: what holds whatever the chain does between two calls of a      *)
(* tick: the types, the engine's own invariant under the batches and calls *)
(* of the driver, and CheckpointKept.                                      *)
(*                                                                         *)
(* Content: what the driver folds.  The chain may move between any two     *)
(* calls of a tick, as long as a head that it left within the tick does    *)
(* not come back (ChainMayReturn = FALSE).                                 *)
(***************************************************************************)
EXTENDS Driver, EngineProofs, NaturalsInduction, WellFoundedInduction, TLAPS

-----------------------------------------------------------------------------
(***************************************************************************)
(* Recursive functions.                                                    *)
(***************************************************************************)
\* A set of natural numbers has a least element.
LEMMA LeastNumber ==
    ASSUME NEW S \in SUBSET Nat, S # {}
    PROVE  \E n \in S : \A m \in S : n <= m
  <1> DEFINE Less == {ss \in Nat \X Nat : ss[1] < ss[2]}
  <1>1. IsWellFoundedOn(Less, Nat)
    BY NatLessThanWellFounded DEF OpToRel
  <1>2. \E n \in S : \A m \in S : <<m, n>> \notin Less
    BY <1>1, WFMin
  <1>3. PICK n \in S : \A m \in S : <<m, n>> \notin Less
    BY <1>2
  <1>4. ASSUME NEW m \in S PROVE n <= m
    <2>1. m \in Nat /\ n \in Nat
      OBVIOUS
    <2>2. m < n => <<m, n>> \in Less
      BY <2>1
    <2>3. QED
      BY <1>3, <2>1, <2>2
  <1>5. QED
    BY <1>4

\* The entries of v at the indices in keep, collected one by one.
Collects(q, v, keep, n) ==
    \A i \in 0..n : q[i] = IF i = 0 THEN <<>>
                           ELSE IF i \in keep THEN Append(q[i - 1], v[i])
                           ELSE q[i - 1]

LEMMA CollectsExists ==
    ASSUME NEW S, NEW n \in Nat, NEW v \in [1..n -> S], NEW keep
    PROVE  \E q \in [0..n -> Seq(S)] : Collects(q, v, keep, n)
  <1> DEFINE Good(m) == \E q \in [0..m -> Seq(S)] : Collects(q, v, keep, m)
             Bad == {m \in 0..n : ~Good(m)}
  <1>1. SUFFICES Bad = {}
    OBVIOUS
  <1>2. SUFFICES ASSUME Bad # {} PROVE FALSE
    OBVIOUS
  <1>3. PICK m \in Bad : \A k \in Bad : m <= k
    <2>1. Bad \in SUBSET Nat
      OBVIOUS
    <2>2. QED
      BY <1>2, <2>1, LeastNumber
  <1>4. m \in 0..n /\ ~Good(m)
    BY <1>3
  <1>5. CASE m = 0
    <2>1. [i \in 0..0 |-> <<>>] \in [0..0 -> Seq(S)]
      OBVIOUS
    <2>2. Collects([i \in 0..0 |-> <<>>], v, keep, 0)
      BY DEF Collects
    <2>3. QED
      BY <1>4, <1>5, <2>1, <2>2
  <1>6. CASE m # 0
    <2>1. m - 1 \in 0..n /\ m \in 1..n
      BY <1>4, <1>6
    <2>2. Good(m - 1)
      BY <1>3, <2>1
    <2>3. PICK q \in [0..(m - 1) -> Seq(S)] : Collects(q, v, keep, m - 1)
      BY <2>2
    <2> DEFINE last == IF m \in keep THEN Append(q[m - 1], v[m]) ELSE q[m - 1]
               r == [i \in 0..m |-> IF i < m THEN q[i] ELSE last]
    <2>4. q[m - 1] \in Seq(S) /\ v[m] \in S
      BY <2>1, <2>3
    <2>5. last \in Seq(S)
      BY <2>4
    <2>6. r \in [0..m -> Seq(S)]
      BY <2>5, <2>3
    <2>7. Collects(r, v, keep, m)
      <3>1. SUFFICES ASSUME NEW i \in 0..m
                     PROVE  r[i] = IF i = 0 THEN <<>>
                                   ELSE IF i \in keep THEN Append(r[i - 1], v[i])
                                   ELSE r[i - 1]
        BY DEF Collects
      <3>2. CASE i = m
        <4>1. r[i] = last /\ r[i - 1] = q[m - 1]
          BY <3>2, <2>1
        <4>2. QED
          BY <4>1, <3>2, <1>6
      <3>3. CASE i < m
        <4>1. i \in 0..(m - 1) /\ r[i] = q[i]
          BY <3>3, <2>1
        <4>2. i # 0 => r[i - 1] = q[i - 1]
          BY <4>1, <2>1
        <4>3. q[i] = IF i = 0 THEN <<>> ELSE IF i \in keep THEN Append(q[i - 1], v[i])
                     ELSE q[i - 1]
          BY <2>3, <4>1 DEF Collects
        <4>4. QED
          BY <4>1, <4>2, <4>3
      <3>4. QED
        BY <3>2, <3>3, <2>1
    <2>8. QED
      BY <2>6, <2>7, <1>4
  <1>7. QED
    BY <1>5, <1>6

\* The sequence s holds what v has at the indices in keep.
Gathers(s, v, keep, n) ==
    \A x : (\E k \in 1..Len(s) : s[k] = x) <=> (\E i \in 1..n : i \in keep /\ v[i] = x)

\* What is collected up to the last index is what stands at the indices in keep.
LEMMA CollectsRange ==
    ASSUME NEW S, NEW n \in Nat, NEW v \in [1..n -> S], NEW keep,
           NEW q \in [0..n -> Seq(S)], Collects(q, v, keep, n)
    PROVE  Gathers(q[n], v, keep, n)
  <1> DEFINE Got(m) == {q[m][k] : k \in 1..Len(q[m])}
             Want(m) == {v[i] : i \in {j \in 1..m : j \in keep}}
             Bad == {m \in 0..n : Got(m) # Want(m)}
  <1>1. SUFFICES Got(n) = Want(n)
    BY DEF Gathers
  <1> HIDE DEF Got, Want
  <1>0. n \in Bad \/ Got(n) = Want(n)
    OBVIOUS
  <1>2. SUFFICES ASSUME Bad # {} PROVE FALSE
    BY <1>0
  <1>3. PICK m \in Bad : \A k \in Bad : m <= k
    <2>1. Bad \in SUBSET Nat
      OBVIOUS
    <2>2. QED
      BY <1>2, <2>1, LeastNumber
  <1>4. m \in 0..n /\ Got(m) # Want(m)
    BY <1>3
  <1>5. q[m] = IF m = 0 THEN <<>> ELSE IF m \in keep THEN Append(q[m - 1], v[m]) ELSE q[m - 1]
    BY <1>4 DEF Collects
  <1>6. CASE m = 0
    BY <1>4, <1>5, <1>6 DEF Got, Want
  <1>7. CASE m # 0
    <2>1. m - 1 \in 0..n /\ m \in 1..n /\ q[m - 1] \in Seq(S) /\ v[m] \in S
      BY <1>4, <1>7
    <2>2. Got(m - 1) = Want(m - 1)
      BY <1>3, <2>1
    <2>3. CASE m \in keep
      <3>1. q[m] = Append(q[m - 1], v[m])
        BY <1>5, <1>7, <2>3
      <3>2. Got(m) = Got(m - 1) \cup {v[m]}
        BY <3>1, <2>1 DEF Got
      <3>3. Want(m) = Want(m - 1) \cup {v[m]}
        BY <2>1, <2>3 DEF Want
      <3>4. QED
        BY <3>2, <3>3, <2>2, <1>4
    <2>4. CASE m \notin keep
      <3>1. q[m] = q[m - 1]
        BY <1>5, <1>7, <2>4
      <3>2. Got(m) = Got(m - 1)
        BY <3>1 DEF Got
      <3>3. Want(m) = Want(m - 1)
        BY <2>1, <2>4 DEF Want
      <3>4. QED
        BY <3>2, <3>3, <2>2, <1>4
    <2>5. QED
      BY <2>3, <2>4
  <1>8. QED
    BY <1>6, <1>7

\* So does every function with the recursive equation.
Solves(g, v, keep, n) ==
    g = [i \in 0..n |-> IF i = 0 THEN <<>>
                        ELSE IF i \in keep THEN Append(g[i - 1], v[i])
                        ELSE g[i - 1]]

LEMMA CollectsEquation ==
    ASSUME NEW S, NEW n \in Nat, NEW v \in [1..n -> S], NEW keep, NEW g, Solves(g, v, keep, n)
    PROVE  g[n] \in Seq(S) /\ Gathers(g[n], v, keep, n)
  <1>1. Collects(g, v, keep, n) /\ g = [i \in 0..n |-> g[i]]
    BY DEF Collects, Solves
  <1> DEFINE Bad == {m \in 0..n : g[m] \notin Seq(S)}
  <1>2. Bad = {}
    <2>1. SUFFICES ASSUME Bad # {} PROVE FALSE
      OBVIOUS
    <2>2. PICK m \in Bad : \A k \in Bad : m <= k
      <3>1. Bad \in SUBSET Nat
        OBVIOUS
      <3>2. QED
        BY <2>1, <3>1, LeastNumber
    <2>3. m \in 0..n /\ g[m] \notin Seq(S)
      BY <2>2
    <2>4. g[m] = IF m = 0 THEN <<>> ELSE IF m \in keep THEN Append(g[m - 1], v[m]) ELSE g[m - 1]
      BY <1>1, <2>3 DEF Collects
    <2>5. m # 0
      BY <2>3, <2>4
    <2>6. m - 1 \in 0..n /\ m \in 1..n
      BY <2>3, <2>5
    <2>7. g[m - 1] \in Seq(S) /\ v[m] \in S
      BY <2>2, <2>6
    <2>8. Append(g[m - 1], v[m]) \in Seq(S)
      BY <2>7
    <2>9. QED
      BY <2>3, <2>4, <2>5, <2>7, <2>8
  <1>3. g \in [0..n -> Seq(S)]
    BY <1>1, <1>2
  <1>4. g[n] \in Seq(S)
    BY <1>3
  <1>5. QED
    BY <1>1, <1>3, <1>4, CollectsRange

LEMMA CollectsChosen ==
    ASSUME NEW S, NEW n \in Nat, NEW v \in [1..n -> S], NEW keep
    PROVE  LET g == CHOOSE g : Solves(g, v, keep, n) IN
           g[n] \in Seq(S) /\ Gathers(g[n], v, keep, n)
  <1>1. PICK q \in [0..n -> Seq(S)] : Collects(q, v, keep, n)
    BY CollectsExists
  <1>2. Solves(q, v, keep, n)
    BY <1>1 DEF Collects, Solves
  <1> DEFINE g == CHOOSE g : Solves(g, v, keep, n)
  <1>3. Solves(g, v, keep, n)
    BY <1>2
  <1> HIDE DEF g
  <1>4. g[n] \in Seq(S) /\ Gathers(g[n], v, keep, n)
    BY <1>3, CollectsEquation
  <1>5. QED
    BY <1>4 DEF g

\* The part of a block's log that lies after p.
LEMMA LogsAfterIs ==
    ASSUME NEW a \in Hash, NEW p
    PROVE  /\ LogsAfter(a, p) \in Seq(Nat)
           /\ \A x : (\E k \in 1..Len(LogsAfter(a, p)) : LogsAfter(a, p)[k] = x)
                       <=> (\E i \in DOMAIN Logs[a] :
                              /\ Logs[a][i] = x
                              /\ After([block |-> Number[a], log |-> x], p))
  <1> DEFINE n == Len(Logs[a])
             keep == {i \in 1..n : After([block |-> Number[a], log |-> Logs[a][i]], p)}
             step(g) == [i \in 0..n |->
                           IF i = 0 THEN <<>>
                           ELSE IF After([block |-> Number[a], log |-> Logs[a][i]], p)
                                THEN Append(g[i - 1], Logs[a][i])
                                ELSE g[i - 1]]
             kept == CHOOSE g : Solves(g, Logs[a], keep, n)
  <1>1. Logs[a] \in Seq(Nat) /\ n \in Nat /\ Logs[a] \in [1..n -> Nat] /\ DOMAIN Logs[a] = 1..n
    BY TreeAssumption
  <1>2. \A g : g = step(g) <=> Solves(g, Logs[a], keep, n)
    <2>1. ASSUME NEW g
          PROVE  step(g) = [i \in 0..n |-> IF i = 0 THEN <<>>
                                           ELSE IF i \in keep THEN Append(g[i - 1], Logs[a][i])
                                           ELSE g[i - 1]]
      BY <1>1
    <2>2. QED
      BY <2>1 DEF Solves
  <1>3. (CHOOSE g : g = step(g)) = kept
    BY <1>2
  <1>4. LogsAfter(a, p) = kept[n]
    BY <1>3 DEF LogsAfter
  <1>5. kept[n] \in Seq(Nat) /\ Gathers(kept[n], Logs[a], keep, n)
    <2> HIDE DEF keep, n
    <2>1. QED
      BY <1>1, CollectsChosen
  <1> HIDE DEF kept
  <1>6. QED
    BY <1>1, <1>4, <1>5 DEF Gathers

-----------------------------------------------------------------------------
(***************************************************************************)
(* The chain of a block: the least set that holds it and its parents.      *)
(***************************************************************************)
Closed(S) == \A x \in S : Parent[x] \in S

Above(h) == {a \in Hash : \A S \in SUBSET Hash : h \in S /\ Closed(S) => a \in S}

LEMMA AboveIsLeast ==
    ASSUME NEW h \in Hash
    PROVE  /\ h \in Above(h) /\ Above(h) \in SUBSET Hash /\ Closed(Above(h))
           /\ \A S \in SUBSET Hash : h \in S /\ Closed(S) => Above(h) \subseteq S
  BY TreeAssumption DEF Above, Closed

LEMMA AboveEquation ==
    ASSUME NEW h \in Hash
    PROVE  Above(h) = {h} \cup (IF Parent[h] = h THEN {} ELSE Above(Parent[h]))
  <1>1. Parent[h] \in Hash
    BY TreeAssumption
  <1>2. CASE Parent[h] = h
    <2>1. {h} \in SUBSET Hash /\ Closed({h})
      BY <1>2 DEF Closed
    <2>2. QED
      BY <1>2, <2>1, AboveIsLeast
  <1>3. CASE Parent[h] # h
    <2>1. Above(Parent[h]) \subseteq Above(h)
      <3>1. Parent[h] \in Above(h)
        BY AboveIsLeast DEF Closed
      <3>2. QED
        BY <1>1, <3>1, AboveIsLeast
    <2>2. {h} \cup Above(Parent[h]) \in SUBSET Hash /\ Closed({h} \cup Above(Parent[h]))
      BY <1>1, AboveIsLeast DEF Closed
    <2>3. Above(h) \subseteq {h} \cup Above(Parent[h])
      BY <2>2, AboveIsLeast
    <2>4. QED
      BY <1>3, <2>1, <2>3, AboveIsLeast
  <1>4. QED
    BY <1>2, <1>3

\* A function with the equation of Chain.
IsChain(f) ==
    f = [h \in Hash |-> {h} \cup (IF Parent[h] = h THEN {} ELSE f[Parent[h]])]

\* The parents of a block are numbered downwards, so there is one such function.
LEMMA ChainIsAbove ==
    ASSUME NEW h \in Hash
    PROVE  Chain[h] = Above(h)
  <1> DEFINE f == [g \in Hash |-> Above(g)]
  <1>1. IsChain(f)
    <2>1. \A g \in Hash : Parent[g] \in Hash
      BY TreeAssumption
    <2>2. \A g \in Hash : Above(g) = {g} \cup (IF Parent[g] = g THEN {} ELSE f[Parent[g]])
      BY <2>1, AboveEquation
    <2>3. QED
      BY <2>2 DEF IsChain
  <1> HIDE DEF f
  <1>2. Chain = CHOOSE g : IsChain(g)
    BY DEF Chain, IsChain
  <1>3. IsChain(Chain)
    BY <1>1, <1>2
  <1>4. \A g \in Hash : Chain[g] = {g} \cup (IF Parent[g] = g THEN {} ELSE Chain[Parent[g]])
    BY <1>3 DEF IsChain
  <1> DEFINE Bad == {n \in Nat : \E g \in Hash : Number[g] = n /\ Chain[g] # Above(g)}
  <1>5. Bad = {}
    <2>1. SUFFICES ASSUME Bad # {} PROVE FALSE
      OBVIOUS
    <2>2. PICK n \in Bad : \A m \in Bad : n <= m
      <3>1. Bad \in SUBSET Nat
        OBVIOUS
      <3>2. QED
        BY <2>1, <3>1, LeastNumber
    <2>3. PICK g \in Hash : Number[g] = n /\ Chain[g] # Above(g)
      BY <2>2
    <2>4. Chain[g] = {g} \cup (IF Parent[g] = g THEN {} ELSE Chain[Parent[g]])
      BY <1>4
    <2>5. Above(g) = {g} \cup (IF Parent[g] = g THEN {} ELSE Above(Parent[g]))
      BY AboveEquation
    <2>6. Parent[g] # g /\ Chain[Parent[g]] # Above(Parent[g])
      BY <2>3, <2>4, <2>5
    <2>7. Parent[g] \in Hash /\ Number[Parent[g]] \in Nat /\ Number[Parent[g]] < n
      BY <2>3, <2>6, TreeAssumption
    <2>8. Number[Parent[g]] \in Bad
      BY <2>6, <2>7
    <2>9. QED
      BY <2>2, <2>7, <2>8
  <1>6. Number[h] \in Nat
    BY TreeAssumption
  <1>7. QED
    BY <1>5, <1>6

\* The chain of a block holds the block, only blocks of the tree, and the chains of
\* its blocks; the other blocks have lower numbers.
LEMMA ChainHolds ==
    ASSUME NEW h \in Hash
    PROVE  /\ h \in Chain[h] /\ Chain[h] \subseteq Hash
           /\ \A a \in Chain[h] : Chain[a] \subseteq Chain[h]
           /\ \A a \in Chain[h] : Number[a] \in Nat /\ Number[a] <= Number[h]
           /\ \A a \in Chain[h] : Number[a] = Number[h] => a = h
  <1>1. h \in Above(h) /\ Above(h) \subseteq Hash
    BY AboveIsLeast
  <1>2. \A a \in Above(h) : Above(a) \subseteq Above(h)
    BY <1>1, AboveIsLeast
  <1> DEFINE Lower == {h} \cup {a \in Hash : Number[a] < Number[h]}
  <1>3. Closed(Lower)
    <2>1. SUFFICES ASSUME NEW a \in Lower PROVE Parent[a] \in Lower
      BY DEF Closed
    <2>2. a \in Hash /\ Parent[a] \in Hash /\ Number[a] \in Nat /\ Number[h] \in Nat
      BY TreeAssumption
    <2>3. Parent[a] = a \/ Number[Parent[a]] = Number[a] - 1
      BY <2>2, TreeAssumption
    <2>4. QED
      BY <2>2, <2>3
  <1>4. Above(h) \subseteq Lower
    BY <1>3, AboveIsLeast
  <1>5. \A a \in Above(h) : Chain[a] = Above(a)
    BY <1>1, ChainIsAbove
  <1>6. \A a \in Hash : Number[a] \in Nat
    BY TreeAssumption
  <1>7. Chain[h] = Above(h)
    BY ChainIsAbove
  <1>8. \A a \in Chain[h] : a \in Hash /\ (a = h \/ Number[a] < Number[h])
    BY <1>1, <1>4, <1>7
  <1>9. \A a \in Chain[h] : Chain[a] \subseteq Chain[h]
    BY <1>2, <1>5, <1>7
  <1>10. /\ \A a \in Chain[h] : Number[a] \in Nat /\ Number[a] <= Number[h]
         /\ \A a \in Chain[h] : Number[a] = Number[h] => a = h
    BY <1>6, <1>8
  <1>11. QED
    BY <1>1, <1>7, <1>9, <1>10

\* Of two blocks on a chain the lower one is on the chain of the other.
LEMMA ChainIsLinear ==
    ASSUME NEW h \in Hash, NEW a \in Chain[h], NEW b \in Chain[h], Number[a] <= Number[b]
    PROVE  a \in Chain[b]
  <1>1. Above(h) = Chain[h] /\ b \in Hash /\ Above(b) = Chain[b]
    BY ChainIsAbove, ChainHolds
  <1> DEFINE S == {c \in Above(h) : a \in Above(c) \/ Number[c] < Number[a]}
  <1>2. h \in S /\ S \in SUBSET Hash
    BY <1>1, AboveIsLeast
  <1>3. Closed(S)
    <2>1. SUFFICES ASSUME NEW c \in S PROVE Parent[c] \in S
      BY DEF Closed
    <2>2. c \in Hash /\ c \in Above(h) /\ Parent[c] \in Hash /\ Parent[c] \in Above(h)
      BY <1>2, TreeAssumption, AboveIsLeast DEF Closed
    <2>3. Number[c] \in Nat /\ Number[Parent[c]] \in Nat /\ a \in Hash /\ Number[a] \in Nat
      BY <1>1, <2>2, AboveIsLeast, TreeAssumption
    <2>4. Parent[c] = c \/ Number[Parent[c]] = Number[c] - 1
      BY <2>2, TreeAssumption
    <2>5. Above(c) = {c} \cup (IF Parent[c] = c THEN {} ELSE Above(Parent[c]))
      BY <2>2, AboveEquation
    <2>6. CASE a \in Above(c)
      BY <2>2, <2>3, <2>4, <2>5, <2>6
    <2>7. CASE Number[c] < Number[a]
      BY <2>2, <2>3, <2>4, <2>7
    <2>8. QED
      BY <2>6, <2>7
  <1>4. b \in S
    BY <1>1, <1>2, <1>3, AboveIsLeast
  <1>5. Number[a] \in Nat /\ Number[b] \in Nat
    BY <1>1, AboveIsLeast, TreeAssumption
  <1>6. QED
    BY <1>1, <1>4, <1>5

-----------------------------------------------------------------------------
(***************************************************************************)
(* Headers and events.                                                     *)
(***************************************************************************)
\* A block reference that carries the number of its block.
IsRef(b) == b.number = Number[b.hash]

LEMMA BlocksAre ==
    /\ NoBlock \notin BlockRef
    /\ \A b \in Blocks : b # NoBlock => b \in BlockRef
    /\ \A b \in Blocks : b = NoBlock <=> b.number < 0
    /\ \A b \in BlockRef : b.number \in Nat /\ b.hash \in Hash
    /\ \A b \in BlockRef : b = [number |-> b.number, hash |-> b.hash]
    /\ \A b, c \in BlockRef : b.number = c.number /\ b.hash = c.hash => b = c
    /\ \A h \in Hash : Ref(h) \in BlockRef /\ IsRef(Ref(h)) /\ Ref(h).hash = h
                       /\ Ref(h).number = Number[h]
    /\ \A b \in BlockRef : IsRef(b) => b = Ref(b.hash)
  BY TreeAssumption DEF NoBlock, BlockRef, Blocks, Ref, IsRef

\* The source's answer about a height: the block of the chain, when it has one.
LEMMA HeaderOnIs ==
    ASSUME NEW h \in Hash, NEW number \in Int
    PROVE  /\ HeaderOn(h, number) \in Blocks
           /\ HeaderOn(h, number) # NoBlock =>
                /\ HeaderOn(h, number) \in BlockRef /\ IsRef(HeaderOn(h, number))
                /\ HeaderOn(h, number).number = number
                /\ HeaderOn(h, number).hash \in Chain[h]
           /\ \A a \in Chain[h] : Number[a] = number => HeaderOn(h, number) = Ref(a)
  <1>1. CASE \E a \in Chain[h] : Number[a] = number
    <2> DEFINE c == CHOOSE a \in Chain[h] : Number[a] = number
    <2>1. c \in Chain[h] /\ Number[c] = number
      BY <1>1
    <2> HIDE DEF c
    <2>2. HeaderOn(h, number) = Ref(c)
      BY <1>1 DEF HeaderOn, c
    <2>3. c \in Hash
      BY <2>1, ChainHolds
    <2>4. ASSUME NEW a \in Chain[h], Number[a] = number PROVE a = c
      <3>1. a \in Chain[c] /\ a \in Hash
        BY <2>1, <2>4, ChainIsLinear, ChainHolds
      <3>2. QED
        BY <2>1, <2>3, <2>4, <3>1, ChainHolds
    <2>5. Ref(c) \in Blocks /\ Ref(c) # NoBlock
      BY <2>3, BlocksAre DEF Blocks
    <2>6. QED
      BY <2>1, <2>2, <2>3, <2>4, <2>5, BlocksAre
  <1>2. CASE ~\E a \in Chain[h] : Number[a] = number
    <2>1. HeaderOn(h, number) = NoBlock
      BY <1>2 DEF HeaderOn
    <2>2. QED
      BY <1>2, <2>1 DEF Blocks
  <1>3. QED
    BY <1>1, <1>2

\* A reference is the answer exactly when its block is on the chain.
LEMMA HeaderConfirms ==
    ASSUME NEW h \in Hash, NEW b \in BlockRef, IsRef(b)
    PROVE  HeaderOn(h, b.number) = b <=> b.hash \in Chain[h]
  <1>1. b.number \in Int /\ b = Ref(b.hash) /\ b # NoBlock /\ Number[b.hash] = b.number
    BY BlocksAre DEF IsRef
  <1>2. QED
    BY <1>1, HeaderOnIs

\* Below a block of the chain the answers about the two chains agree.
LEMMA HeaderBelow ==
    ASSUME NEW h \in Hash, NEW a \in Chain[h], NEW number \in Int, number <= Number[a]
    PROVE  HeaderOn(h, number) = HeaderOn(a, number)
  <1>1. a \in Hash /\ Chain[a] \subseteq Chain[h] /\ Number[a] \in Nat
    BY ChainHolds
  <1>2. CASE \E b \in Chain[a] : Number[b] = number
    BY <1>1, <1>2, HeaderOnIs
  <1>3. CASE ~\E b \in Chain[a] : Number[b] = number
    <2>1. ~\E b \in Chain[h] : Number[b] = number
      BY <1>3, ChainIsLinear
    <2>2. QED
      BY <1>3, <2>1 DEF HeaderOn
  <1>4. QED
    BY <1>2, <1>3

\* The events of a chain, one by one.
LEMMA EventsOfAre ==
    ASSUME NEW h \in Hash, NEW e
    PROVE  e \in EventsOf[h] <=>
             /\ e \in Event
             /\ e.hash \in Chain[h] /\ e.block = Number[e.hash] /\ StartBlock <= e.block
             /\ \E i \in DOMAIN Logs[e.hash] : Logs[e.hash][i] = e.log
  <1>1. e \in EventsOf[h] <=>
          \E a \in Chain[h] : Number[a] >= StartBlock /\ e \in OwnEvents(a)
    BY DEF EventsOf
  <1>2. ASSUME NEW a \in Chain[h]
        PROVE  e \in OwnEvents(a) <=>
                 /\ e \in Event
                 /\ e.hash = a /\ e.block = Number[a] /\ \E i \in DOMAIN Logs[a] : Logs[a][i] = e.log
    <2>1. a \in Hash /\ Number[a] \in Nat /\ Logs[a] \in Seq(Nat)
      BY ChainHolds, TreeAssumption
    <2>2. e \in Event => e = [block |-> e.block, log |-> e.log, hash |-> e.hash]
      BY DEF Event
    <2>3. \A i \in DOMAIN Logs[a] : Logs[a][i] \in Nat
      BY <2>1
    <2>4. \A i \in DOMAIN Logs[a] : [block |-> Number[a], log |-> Logs[a][i], hash |-> a] \in Event
      BY <2>1, <2>3 DEF Event
    <2>5. QED
      BY <2>2, <2>4 DEF OwnEvents
  <1>3. \A a \in Chain[h] : Number[a] \in Nat
    BY ChainHolds
  <1>4. QED
    BY <1>1, <1>2, <1>3, DriverConfigAssumption

\* A chain has the events of the chains of its blocks, and no other up to such a block.
LEMMA EventsBelow ==
    ASSUME NEW h \in Hash, NEW a \in Chain[h]
    PROVE  /\ EventsOf[a] \subseteq EventsOf[h]
           /\ \A e \in EventsOf[h] : e.block <= Number[a] => e \in EventsOf[a]
           /\ \A e \in EventsOf[a] : e.block <= Number[a]
  <1>1. a \in Hash /\ Chain[a] \subseteq Chain[h] /\ Number[a] \in Nat
    BY ChainHolds
  <1>2. EventsOf[a] \subseteq EventsOf[h]
    BY <1>1, EventsOfAre
  <1>3. ASSUME NEW e \in EventsOf[h], e.block <= Number[a] PROVE e \in EventsOf[a]
    <2>1. e.hash \in Chain[h] /\ e.block = Number[e.hash]
      BY EventsOfAre
    <2>2. e.hash \in Chain[a]
      BY <1>3, <2>1, ChainIsLinear
    <2>3. QED
      BY <1>1, <2>2, EventsOfAre
  <1>4. \A e \in EventsOf[a] : e.block <= Number[a]
    BY <1>1, EventsOfAre, ChainHolds
  <1>5. QED
    BY <1>2, <1>3, <1>4

\* Two blocks on one chain have the same events up to a position at or below both.
LEMMA EventsAgree ==
    ASSUME NEW h \in Hash, NEW a \in Chain[h], NEW b \in Chain[h],
           NEW c, c.block \in Int, c.block <= Number[a], c.block <= Number[b]
    PROVE  {e \in EventsOf[a] : ~After(e, c)} = {e \in EventsOf[b] : ~After(e, c)}
  <1>1. \A e \in EventsOf[h] : e.block \in Nat /\ (~After(e, c) => e.block <= c.block)
    BY EventsOfAre DEF Event, After
  <1>2. Number[a] \in Nat /\ Number[b] \in Nat
    BY ChainHolds
  <1>3. \A e \in EventsOf[a] : ~After(e, c) => e \in EventsOf[b]
    BY <1>1, <1>2, EventsBelow
  <1>4. \A e \in EventsOf[b] : ~After(e, c) => e \in EventsOf[a]
    BY <1>1, <1>2, EventsBelow
  <1>5. QED
    BY <1>3, <1>4

\* What the source says of one height.
LEMMA SpanOnIs ==
    ASSUME NEW h \in Hash, NEW number \in Nat, NEW p
    PROVE  /\ SpanOn(h, number, p) \in Span /\ SpanOn(h, number, p).number = number
           /\ HasLogs(SpanOn(h, number, p)) =>
                /\ HeaderOn(h, number) # NoBlock
                /\ SpanOn(h, number, p).hash = HeaderOn(h, number).hash
                /\ SpanOn(h, number, p).logs = LogsAfter(HeaderOn(h, number).hash, p)
           /\ HeaderOn(h, number) # NoBlock /\ LogsAfter(HeaderOn(h, number).hash, p) # <<>>
                => HasLogs(SpanOn(h, number, p))
  <1> DEFINE b == HeaderOn(h, number)
  <1>1. CASE b = NoBlock
    <2>1. SpanOn(h, number, p) = [number |-> number, hash |-> h, logs |-> <<>>]
      BY <1>1 DEF SpanOn
    <2>2. QED
      BY <1>1, <2>1 DEF Span, HasLogs
  <1>2. CASE b # NoBlock
    <2>1. b.hash \in Hash
      BY <1>2, HeaderOnIs, ChainHolds
    <2>2. LogsAfter(b.hash, p) \in Seq(Nat)
      BY <2>1, LogsAfterIs
    <2>3. SpanOn(h, number, p) = [number |-> number, hash |-> b.hash, logs |-> LogsAfter(b.hash, p)]
      BY <1>2 DEF SpanOn
    <2> HIDE DEF b
    <2>4. /\ SpanOn(h, number, p) \in Span /\ SpanOn(h, number, p).number = number
          /\ SpanOn(h, number, p).hash = b.hash
          /\ SpanOn(h, number, p).logs = LogsAfter(b.hash, p)
      BY <2>1, <2>2, <2>3 DEF Span
    <2>5. QED
      BY <1>2, <2>4 DEF HasLogs, b
  <1>3. QED
    BY <1>1, <1>2

\* One window collects the spans of its heights that have events after p.
LEMMA EventsInGathers ==
    ASSUME NEW h \in Hash, NEW from \in Nat, NEW to \in Nat, from <= to, NEW p
    PROVE  /\ EventsIn(h, from, to, p) \in Seq(Span)
           /\ \A s : (\E k \in 1..Len(EventsIn(h, from, to, p)) : EventsIn(h, from, to, p)[k] = s)
                       <=> (\E m \in from..to : s = SpanOn(h, m, p) /\ HasLogs(s))
  <1> DEFINE n == to - from + 1
             v == [i \in 1..n |-> SpanOn(h, from + i - 1, p)]
             keep == {i \in 1..n : HasLogs(SpanOn(h, from + i - 1, p))}
             step(g) == [i \in 0..n |->
                           IF i = 0 THEN <<>>
                           ELSE IF HasLogs(SpanOn(h, from + i - 1, p))
                                THEN Append(g[i - 1], SpanOn(h, from + i - 1, p))
                                ELSE g[i - 1]]
             spans == CHOOSE g : Solves(g, v, keep, n)
  <1>1. n \in Nat /\ \A i \in 1..n : from + i - 1 \in from..to
    OBVIOUS
  <1>2. v \in [1..n -> Span]
    BY <1>1, SpanOnIs
  <1>3. \A g : g = step(g) <=> Solves(g, v, keep, n)
    <2>1. ASSUME NEW g
          PROVE  step(g) = [i \in 0..n |-> IF i = 0 THEN <<>>
                                           ELSE IF i \in keep THEN Append(g[i - 1], v[i])
                                           ELSE g[i - 1]]
      OBVIOUS
    <2>2. QED
      BY <2>1 DEF Solves
  <1>4. (CHOOSE g : g = step(g)) = spans
    BY <1>3
  <1>5. EventsIn(h, from, to, p) = spans[n]
    BY <1>4 DEF EventsIn
  <1>6. spans[n] \in Seq(Span) /\ Gathers(spans[n], v, keep, n)
    <2> HIDE DEF keep, n, v
    <2>1. QED
      BY <1>1, <1>2, CollectsChosen
  <1>7. ASSUME NEW s
        PROVE  (\E i \in 1..n : i \in keep /\ v[i] = s)
                 <=> (\E m \in from..to : s = SpanOn(h, m, p) /\ HasLogs(s))
    <2>1. ASSUME NEW m \in from..to, s = SpanOn(h, m, p), HasLogs(s)
          PROVE  \E i \in 1..n : i \in keep /\ v[i] = s
      <3>1. m - from + 1 \in 1..n /\ from + (m - from + 1) - 1 = m
        BY <1>1
      <3>2. m - from + 1 \in keep /\ v[m - from + 1] = s
        BY <2>1, <3>1
      <3>3. QED
        BY <3>1, <3>2
    <2>2. ASSUME NEW i \in 1..n, i \in keep, v[i] = s
          PROVE  \E m \in from..to : s = SpanOn(h, m, p) /\ HasLogs(s)
      BY <1>1, <2>2
    <2>3. QED
      BY <2>1, <2>2
  <1> HIDE DEF spans, keep, v, n
  <1>8. QED
    BY <1>5, <1>6, <1>7 DEF Gathers

\* s names a block of the chain of h in the window and events of it after p.
ReadFrom(s, h, from, to, p) ==
    /\ s \in Span /\ s.number \in from..to /\ HasLogs(s)
    /\ s.hash \in Chain[h] /\ s.number = Number[s.hash]
    /\ \A i \in 1..Len(s.logs) :
         /\ After(PosAt(s, i), p)
         /\ \E j \in DOMAIN Logs[s.hash] : Logs[s.hash][j] = s.logs[i]

Among(e, spans) ==
    \E k \in 1..Len(spans) : \E j \in 1..Len(spans[k].logs) : e = EventAt(spans[k], j)

\* The spans of a window name blocks of the chain and events after p, ...
LEMMA EventsInSound ==
    ASSUME NEW h \in Hash, NEW from \in Nat, NEW to \in Nat, from <= to, NEW p,
           NEW k \in 1..Len(EventsIn(h, from, to, p))
    PROVE  ReadFrom(EventsIn(h, from, to, p)[k], h, from, to, p)
  <1> DEFINE s == EventsIn(h, from, to, p)[k]
  <1>1. PICK m \in from..to : s = SpanOn(h, m, p) /\ HasLogs(s)
    BY EventsInGathers
  <1> HIDE DEF s
  <1>2. m \in Nat
    OBVIOUS
  <1>3. /\ s \in Span /\ s.number = m
        /\ HeaderOn(h, m) # NoBlock /\ s.hash = HeaderOn(h, m).hash
        /\ s.logs = LogsAfter(s.hash, p)
    BY <1>1, <1>2, SpanOnIs
  <1>4. s.hash \in Chain[h] /\ s.hash \in Hash /\ Number[s.hash] = m
    BY <1>2, <1>3, HeaderOnIs, ChainHolds DEF IsRef
  <1>5. ASSUME NEW i \in 1..Len(s.logs)
        PROVE  /\ After(PosAt(s, i), p)
               /\ \E j \in DOMAIN Logs[s.hash] : Logs[s.hash][j] = s.logs[i]
    <2>1. PICK j \in DOMAIN Logs[s.hash] :
             /\ Logs[s.hash][j] = s.logs[i]
             /\ After([block |-> Number[s.hash], log |-> s.logs[i]], p)
      BY <1>3, <1>4, LogsAfterIs
    <2>2. PosAt(s, i) = [block |-> Number[s.hash], log |-> s.logs[i]]
      BY <1>3, <1>4 DEF PosAt
    <2>3. QED
      BY <2>1, <2>2
  <1>6. ReadFrom(s, h, from, to, p)
    BY <1>1, <1>3, <1>4, <1>5 DEF ReadFrom
  <1>7. QED
    BY <1>6 DEF s

\* ... and name all of them.
LEMMA EventsInComplete ==
    ASSUME NEW h \in Hash, NEW from \in Nat, NEW to \in Nat, from <= to, NEW p,
           NEW e \in EventsOf[h], e.block \in from..to, After(e, p)
    PROVE  Among(e, EventsIn(h, from, to, p))
  <1>1. /\ e \in Event /\ e.hash \in Chain[h] /\ e.block = Number[e.hash]
        /\ \E i \in DOMAIN Logs[e.hash] : Logs[e.hash][i] = e.log
    BY EventsOfAre
  <1>2. e.hash \in Hash /\ e.block \in Nat /\ e = [block |-> e.block, log |-> e.log, hash |-> e.hash]
    BY <1>1 DEF Event
  <1>3. HeaderOn(h, e.block) = Ref(e.hash) /\ Ref(e.hash) # NoBlock /\ Ref(e.hash).hash = e.hash
    BY <1>1, <1>2, HeaderOnIs, BlocksAre
  <1>4. After([block |-> Number[e.hash], log |-> e.log], p)
    BY <1>1, <1>2 DEF After
  <1>5. PICK j \in 1..Len(LogsAfter(e.hash, p)) : LogsAfter(e.hash, p)[j] = e.log
    BY <1>1, <1>2, <1>4, LogsAfterIs
  <1> DEFINE s == SpanOn(h, e.block, p)
  <1>6. LogsAfter(e.hash, p) # <<>>
    BY <1>5
  <1>7. HasLogs(s) /\ s.number = e.block /\ s.hash = e.hash /\ s.logs = LogsAfter(e.hash, p)
    BY <1>2, <1>3, <1>6, SpanOnIs
  <1>8. PICK k \in 1..Len(EventsIn(h, from, to, p)) : EventsIn(h, from, to, p)[k] = s
    BY <1>7, EventsInGathers
  <1>9. e = EventAt(s, j)
    BY <1>2, <1>5, <1>7 DEF EventAt
  <1>10. QED
    BY <1>5, <1>7, <1>8, <1>9 DEF Among

-----------------------------------------------------------------------------
USE RingCapacityAssumption, CheckpointSlotsAssumption, DriverConfigAssumption

-----------------------------------------------------------------------------
(***************************************************************************)
(* Control: the inductive invariant.                                       *)
(***************************************************************************)
Reading == {"lag", "resume", "window", "boundary", "anchor", "recheck", "apply"}
Closing == {"checkpoint", "offer"}
Calls == {"idle", "around", "head", "applying", "bisect"} \cup Reading \cup Closing

\* Between ticks and in a new driver nothing has been read; from its first answer on a
\* tick knows a head.  The engine is inside a batch only while the tick applies one, and
\* is Active wherever the tick may still call it.  A window is read only when there is one,
\* and a bisection stays inside the ring.
TickControl ==
    /\ pc \in Calls
    /\ pc \in {"idle", "around", "head"} => scan = NoScan
    /\ pc \notin {"idle", "around", "head"} => scan.head # NoBlock
    /\ pc # "applying" => ret # "running"
    /\ pc \in {"around", "head", "bisect"} \cup Reading \cup Closing => status = "Active"
    /\ pc = "applying" /\ ret \in {"ok", "none"} \cup Verdicts => status = "Active"
    /\ pc = "applying" /\ ret \in {"halted", "poisoned", "panicked"} => status # "Active"
    /\ pc # "idle" => leftAt = NoPoint
    /\ leftAt # NoPoint => status = "Active"
    /\ pc = "around" => lastCheckpoint = -1 /\ lastSnapshot = -1
    /\ pc = "window" => scan.from <= scan.end
    /\ pc = "bisect" => scan.lo <= scan.hi /\ scan.hi <= Len(ring)

\* Some checkpoint lies at or above the block of the mark.
MarkServed(mark) ==
    mark = -1 \/ CheckpointSlots = 0 \/ \E i \in 1..Len(slots) : slots[i].cursor.block >= mark

\* The checkpoints reach to within one interval of the cursor.
KeptNow ==
    cursor # NoPos /\ CheckpointSlots > 0
      => \E i \in 1..Len(slots) :
           slots[i].cursor.block > cursor.block - CheckpointInterval \/ slots[i].cursor = cursor

\* The mark of the last checkpoint names one that is kept: lowered to the cursor between
\* ticks, as it stands inside a tick.
CheckpointMarks ==
    /\ pc = "idle" /\ status = "Active" => MarkServed(Clamp(lastCheckpoint))
    /\ pc \notin {"idle", "around"} =>
         /\ lastCheckpoint <= cursor.block
         /\ status = "Active" \/ ret = "running" => MarkServed(lastCheckpoint)
    /\ pc = "offer" => KeptNow

ControlInv ==
    /\ EngineInv
    /\ TypeOK
    /\ TickControl
    /\ CheckpointMarks
    /\ CheckpointKept

-----------------------------------------------------------------------------
(***************************************************************************)
(* Types.                                                                  *)
(***************************************************************************)
DriverTypes ==
    /\ canon \in Hash /\ pruned \in BOOLEAN /\ steady \in BOOLEAN
    /\ walked \in Blocks /\ vouched \in Blocks
    /\ caughtUp \in BOOLEAN /\ durabilityLost \in BOOLEAN
    /\ lastCheckpoint \in Nat \cup {-1} /\ lastSnapshot \in Nat \cup {-1}
    /\ seenResets \in Nat /\ durable \in Position \cup {NoPos}

TickTypes ==
    /\ leftAt = NoPoint \/ leftAt \in [cursor : Position \cup {NoPos}, resets : Nat]
    /\ span \in 1..MaxSpan
    /\ scan \in Scan

LEMMA TypesSplit == TypeOK <=> EngineTypeOK /\ DriverTypes /\ TickTypes
  BY DEF TypeOK, DriverTypes, TickTypes

LEMMA ScanFields ==
    ASSUME NEW s \in Scan
    PROVE  /\ s.head \in Blocks /\ s.from \in Nat /\ s.end \in Nat /\ s.resumed \in BOOLEAN
           /\ s.boundary \in Blocks /\ s.spans \in Seq(Span) /\ s.anchor \in Blocks
           /\ s.walked \in Blocks /\ s.lo \in 0..RingCapacity /\ s.hi \in 0..RingCapacity
  BY DEF Scan

\* What a window adds to a scan.
ReadInto(s, from, spans, boundary) ==
    [s EXCEPT !.from = from, !.spans = spans, !.boundary = boundary]

LEMMA ScanReads ==
    ASSUME NEW s \in Scan, NEW from \in Nat, NEW spans \in Seq(Span), NEW boundary \in Blocks
    PROVE  LET t == ReadInto(s, from, spans, boundary) IN
           /\ t \in Scan /\ t.from = from /\ t.spans = spans /\ t.boundary = boundary
           /\ t.head = s.head /\ t.end = s.end /\ t.resumed = s.resumed /\ t.anchor = s.anchor
           /\ t.walked = s.walked
  BY DEF Scan, ReadInto

LEMMA NoScanIs ==
    /\ NoScan \in Scan /\ NoScan.head = NoBlock /\ NoScan.spans = <<>>
    /\ NoScan.anchor = NoBlock /\ NoScan.boundary = NoBlock /\ NoScan.walked = NoBlock
    /\ NoScan.resumed = FALSE /\ NoScan.lo = 0 /\ NoScan.hi = 0
  BY DEF NoScan, Scan, Blocks

LEMMA CursorIs ==
    ASSUME EngineTypeOK
    PROVE  /\ cursor \in Position \cup {NoPos} /\ cursor.block \in Int /\ cursor.block >= -1
           /\ cursor # NoPos => cursor \in Position /\ cursor.block \in Nat
           /\ NoPos.block = -1
           /\ cursor.block = -1 => cursor = NoPos
  BY DEF EngineTypeOK, Position, NoPos

LEMMA EngineUnchanged ==
    ASSUME EngineInv, UNCHANGED engineVars
    PROVE  EngineInv'
  BY NextKeepsInv

LEMMA SpanStays ==
    ASSUME span \in 1..MaxSpan, NEW outcome
    PROVE  NextSpan(outcome) \in 1..MaxSpan
  BY DEF NextSpan, Least

\* The tail of a tick.
LEMMA EndTickIs ==
    ASSUME span \in 1..MaxSpan, EngineTypeOK', NEW outcome, EndTick(outcome)
    PROVE  /\ pc' = "idle" /\ tick' = outcome /\ scan' = NoScan
           /\ TickTypes'
           /\ status' = "Active" => leftAt' = EnginePoint'
           /\ status' # "Active" => leftAt' = NoPoint
  <1>1. /\ pc' = "idle" /\ tick' = outcome /\ scan' = NoScan /\ span' = NextSpan(outcome)
        /\ leftAt' = IF status' = "Active" THEN [cursor |-> cursor', resets |-> resets'] ELSE NoPoint
    BY DEF EndTick
  <1>2. span' \in 1..MaxSpan /\ scan' \in Scan
    BY <1>1, SpanStays, NoScanIs
  <1>3. cursor' \in Position \cup {NoPos} /\ resets' \in Nat
    BY DEF EngineTypeOK
  <1>4. EnginePoint' = [cursor |-> cursor', resets |-> resets']
    BY DEF EnginePoint
  <1>5. QED
    BY <1>1, <1>2, <1>3, <1>4 DEF TickTypes

\* A tick that ends with the engine where it was, or that only saved a snapshot.
LEMMA TickEnds ==
    ASSUME ControlInv, pc \notin {"idle", "around"}, EngineInv', DriverTypes',
           UNCHANGED <<cursor, slots, status, resets, lastCheckpoint>>, Idle',
           NEW outcome, EndTick(outcome),
           outcome \in {"Progressed", "DurabilityLost"} => pc = "offer"
    PROVE  ControlInv'
  <1>1. TypeOK /\ TickControl /\ CheckpointMarks /\ EngineTypeOK' /\ span \in 1..MaxSpan
    BY DEF ControlInv, EngineInv, TypeOK
  <1>2. /\ pc' = "idle" /\ tick' = outcome /\ scan' = NoScan /\ TickTypes'
        /\ status' # "Active" => leftAt' = NoPoint
    BY <1>1, EndTickIs
  <1>3. TypeOK'
    BY <1>1, <1>2, TypesSplit DEF TypeOK, DriverTypes, TickTypes
  <1>4. TickControl'
    BY <1>2 DEF TickControl, Calls, Idle, Reading, Closing
  <1>5. /\ lastCheckpoint <= cursor.block /\ (status = "Active" => MarkServed(lastCheckpoint))
        /\ pc = "offer" => KeptNow
    BY <1>1 DEF CheckpointMarks
  <1>6. CheckpointMarks'
    <2>1. Clamp(lastCheckpoint)' = lastCheckpoint
      BY <1>5 DEF Clamp, Least
    <2>2. status' = "Active" => MarkServed(Clamp(lastCheckpoint))'
      BY <1>5, <2>1 DEF MarkServed
    <2>3. QED
      BY <1>2, <2>2 DEF CheckpointMarks
  <1>7. CheckpointKept'
    BY <1>2, <1>5 DEF CheckpointKept, KeptNow
  <1>8. QED
    BY <1>3, <1>4, <1>6, <1>7 DEF ControlInv

\* A step inside a tick that leaves the engine alone.
LEMMA TickGoesOn ==
    ASSUME ControlInv, pc \notin {"idle", "around"}, UNCHANGED engineVars,
           UNCHANGED <<lastCheckpoint, leftAt, span>>, DriverTypes', scan' \in Scan,
           scan'.head # NoBlock, status = "Active", ret # "running",
           pc' \in {"bisect", "checkpoint"} \cup Reading,
           pc' = "window" => scan'.from <= scan'.end,
           pc' = "bisect" => scan'.lo <= scan'.hi /\ scan'.hi <= Len(ring)
    PROVE  ControlInv'
  <1>1. TypeOK /\ TickControl /\ CheckpointMarks /\ EngineInv
    BY DEF ControlInv
  <1>2. UNCHANGED <<cursor, ring, slots, status, resets, ret>>
    BY DEF engineVars
  <1>3. EngineInv' /\ EngineTypeOK'
    BY <1>1, EngineUnchanged DEF EngineInv
  <1>4. TypeOK'
    BY <1>1, <1>3, TypesSplit DEF TypeOK, DriverTypes, TickTypes
  <1>5. TickControl'
    BY <1>1, <1>2 DEF TickControl, Calls, Reading, Closing
  <1>6. CheckpointMarks'
    BY <1>1, <1>2 DEF CheckpointMarks, MarkServed, Reading
  <1>7. CheckpointKept'
    BY DEF CheckpointKept, Settled, Reading
  <1>8. QED
    BY <1>3, <1>4, <1>5, <1>6, <1>7 DEF ControlInv

-----------------------------------------------------------------------------
(***************************************************************************)
(* The steps of a tick.                                                    *)
(***************************************************************************)
LEMMA StepControl ==
    ASSUME ControlInv, Step
    PROVE  ControlInv'
  <1>1. TypeOK /\ TickControl /\ CheckpointMarks /\ EngineInv /\ DriverTypes /\ TickTypes
    BY TypesSplit DEF ControlInv
  <1>2. /\ pc = "idle" /\ lastCheckpoint' = Clamp(lastCheckpoint)
        /\ lastSnapshot' = Clamp(lastSnapshot)
        /\ durable' = IF seenResets # resets THEN NoPos ELSE durable
        /\ seenResets' = resets /\ walked' \in {walked, NoBlock} /\ vouched' \in {vouched, NoBlock}
        /\ UNCHANGED <<engineVars, chainVars, caughtUp, durabilityLost, budget>>
        /\ IF status = "Active"
           THEN leftAt' = NoPoint /\ pc' = "head" /\ UNCHANGED <<scan, span, tick>>
           ELSE EndTick("Terminal")
    BY DEF Step
  <1>3. EngineInv' /\ EngineTypeOK' /\ EngineTypeOK
    BY <1>1, <1>2, EngineUnchanged DEF EngineInv
  <1>4. UNCHANGED <<cursor, slots, status, resets, ret>> /\ resets \in Nat
    BY <1>2, <1>3 DEF engineVars, EngineTypeOK
  <1>5. /\ \A mark \in Nat \cup {-1} : Clamp(mark) \in Nat \cup {-1} /\ Clamp(mark) <= cursor.block
        /\ Clamp(lastCheckpoint') = lastCheckpoint'
    BY <1>1, <1>2, <1>3, CursorIs DEF Clamp, Least, DriverTypes
  <1>6. DriverTypes'
    BY <1>1, <1>2, <1>4, <1>5 DEF DriverTypes, chainVars, Blocks
  <1>7. lastCheckpoint' <= cursor.block /\ (status = "Active" => MarkServed(lastCheckpoint'))
    BY <1>1, <1>2, <1>5 DEF CheckpointMarks, DriverTypes
  <1>8. CASE status = "Active"
    <2>1. leftAt' = NoPoint /\ pc' = "head" /\ UNCHANGED <<scan, span, tick>>
      BY <1>2, <1>8
    <2>2. TypeOK'
      BY <1>1, <1>3, <1>6, <2>1, TypesSplit DEF TypeOK, DriverTypes, TickTypes
    <2>3. TickControl'
      BY <1>1, <1>2, <1>4, <1>8, <2>1 DEF TickControl, Calls, Reading, Closing
    <2>4. CheckpointMarks'
      BY <1>4, <1>7, <1>8, <2>1 DEF CheckpointMarks, MarkServed
    <2>5. CheckpointKept'
      BY <2>1 DEF CheckpointKept, Settled
    <2>6. QED
      BY <1>3, <2>2, <2>3, <2>4, <2>5 DEF ControlInv
  <1>9. CASE status # "Active"
    <2>1. /\ pc' = "idle" /\ tick' = "Terminal" /\ scan' = NoScan
          /\ TickTypes' /\ leftAt' = NoPoint
      BY <1>1, <1>2, <1>3, <1>4, <1>9, EndTickIs DEF TickTypes
    <2>2. TypeOK'
      BY <1>3, <1>6, <2>1, TypesSplit DEF TypeOK, DriverTypes, TickTypes
    <2>3. TickControl'
      BY <1>1, <1>2, <1>4, <1>9, <2>1 DEF TickControl, Calls, Reading, Closing
    <2>4. CheckpointMarks'
      BY <1>4, <1>9, <2>1 DEF CheckpointMarks
    <2>5. CheckpointKept'
      BY <2>1 DEF CheckpointKept
    <2>6. QED
      BY <1>3, <2>2, <2>3, <2>4, <2>5 DEF ControlInv
  <1>10. QED
    BY <1>8, <1>9

\* Where a tick may call the source.
LEMMA CallingFacts ==
    ASSUME ControlInv, pc \in {"head", "bisect", "checkpoint", "offer"} \cup Reading
    PROVE  /\ pc \notin {"idle", "around", "applying"}
           /\ status = "Active" /\ ret # "running" /\ Idle
           /\ scan \in Scan /\ DriverTypes /\ span \in 1..MaxSpan
           /\ pc # "head" => scan.head # NoBlock /\ scan.head \in BlockRef
           /\ EngineInv /\ EngineTypeOK
           /\ leftAt = NoPoint
  <1>1. TypeOK /\ TickControl /\ DriverTypes /\ TickTypes /\ EngineInv /\ EngineTypeOK
    BY TypesSplit DEF ControlInv, EngineInv
  <1>2. /\ pc \notin {"idle", "around", "applying"}
        /\ status = "Active" /\ ret # "running" /\ leftAt = NoPoint
        /\ pc # "head" => scan.head # NoBlock
    BY <1>1 DEF TickControl, Reading, Closing
  <1>3. scan.head \in Blocks
    BY <1>1, ScanFields DEF TickTypes
  <1>4. scan.head # NoBlock => scan.head \in BlockRef
    BY <1>3 DEF Blocks
  <1>5. QED
    BY <1>1, <1>2, <1>4 DEF TickTypes, Idle

LEMMA ReadHeadControl ==
    ASSUME ControlInv, ReadHead
    PROVE  ControlInv'
  <1>1. /\ pc = "head" /\ scan' = [scan EXCEPT !.head = Ref(canon)] /\ steady' = TRUE
        /\ pc' \in {"lag", "resume"}
        /\ UNCHANGED <<engineVars, canon, pruned, markVars, driverVars, budget>>
    BY DEF ReadHead
  <1>2. /\ status = "Active" /\ ret # "running" /\ scan \in Scan /\ DriverTypes
    BY <1>1, CallingFacts
  <1>3. DriverTypes'
    BY <1>1, <1>2 DEF DriverTypes, markVars, driverVars
  <1>4. Ref(canon) \in BlockRef /\ Ref(canon) # NoBlock
    BY <1>2, BlocksAre DEF DriverTypes
  <1>5. scan' \in Scan /\ scan'.head # NoBlock
    BY <1>1, <1>2, <1>4 DEF Scan, Blocks
  <1>6. QED
    BY <1>1, <1>2, <1>3, <1>5, TickGoesOn DEF Reading, markVars, driverVars

LEMMA LagCheckControl ==
    ASSUME ControlInv, LagCheck
    PROVE  ControlInv'
  <1>1. /\ pc = "lag" /\ UNCHANGED <<engineVars, chainVars, markVars, walked, vouched, budget>>
        /\ IF Lagging
           THEN caughtUp' = TRUE /\ EndTick("Idle")
           ELSE pc' = "resume" /\ UNCHANGED <<caughtUp, leftAt, span, tick, scan>>
    BY DEF LagCheck
  <1>2. /\ status = "Active" /\ ret # "running" /\ scan \in Scan /\ DriverTypes /\ scan.head # NoBlock
        /\ EngineInv
    BY <1>1, CallingFacts DEF Reading
  <1>3. caughtUp' \in {TRUE, caughtUp}
    BY <1>1
  <1>4. DriverTypes'
    BY <1>1, <1>2, <1>3 DEF DriverTypes, chainVars, markVars
  <1>5. CASE Lagging
    <2>1. EngineInv' /\ UNCHANGED <<cursor, slots, status, resets, ret, lastCheckpoint>>
      BY <1>1, <1>2, EngineUnchanged DEF engineVars, markVars
    <2>2. QED
      BY <1>1, <1>2, <1>4, <1>5, <2>1, TickEnds DEF Idle
  <1>6. CASE ~Lagging
    BY <1>1, <1>2, <1>4, <1>6, TickGoesOn DEF Reading, markVars
  <1>7. QED
    BY <1>5, <1>6

LEMMA ResumeControl ==
    ASSUME ControlInv, Resume
    PROVE  ControlInv'
  <1>1. /\ pc = "resume" /\ walked' \in {walked, NoBlock} /\ pc' \in {"window", "boundary"}
        /\ UNCHANGED <<engineVars, chainVars, markVars, vouched, leftAt, caughtUp, span, tick, budget>>
    BY DEF Resume
  <1>2. /\ status = "Active" /\ ret # "running" /\ scan \in Scan /\ DriverTypes /\ scan.head # NoBlock
        /\ scan.head \in BlockRef /\ span \in 1..MaxSpan /\ EngineTypeOK
    BY <1>1, CallingFacts DEF Reading
  <1>3. DriverTypes'
    BY <1>1, <1>2 DEF DriverTypes, chainVars, markVars, Blocks
  <1>4. PICK from, end, resumed :
          /\ scan' = [scan EXCEPT !.from = from, !.end = end, !.resumed = resumed]
          /\ from \in {walked.number + 1, cursor.block + 1, StartBlock, cursor.block}
          /\ cursor = NoPos => from \in {walked.number + 1, StartBlock}
          /\ walked = NoBlock => from \in {cursor.block + 1, StartBlock, cursor.block}
          /\ end = Least(scan.head.number, from + span * Window - 1)
          /\ resumed \in BOOLEAN
          /\ pc' = "window" => from <= end
    BY DEF Resume
  <1>5. from \in Nat
    <2>1. walked # NoBlock => walked.number \in Nat
      BY <1>2, BlocksAre DEF DriverTypes
    <2>2. cursor # NoPos => cursor.block \in Nat
      BY <1>2, CursorIs
    <2>3. QED
      BY <1>4, <2>1, <2>2, CursorIs DEF NoBlock, NoPos
  <1>6. end \in Nat
    <2>1. span * Window \in Nat /\ span * Window >= 1
      BY <1>2
    <2>2. scan.head.number \in Nat
      BY <1>2, BlocksAre
    <2>3. QED
      BY <1>4, <1>5, <2>1, <2>2 DEF Least
  <1>7. scan' \in Scan /\ scan'.head # NoBlock /\ (pc' = "window" => scan'.from <= scan'.end)
    BY <1>2, <1>4, <1>5, <1>6 DEF Scan
  <1>8. QED
    BY <1>1, <1>2, <1>3, <1>7, TickGoesOn DEF Reading, markVars

LEMMA ReadWindowControl ==
    ASSUME ControlInv, ReadWindow
    PROVE  ControlInv'
  <1> DEFINE to == Least(scan.end, scan.from + Window - 1)
             atCursor == cursor # NoPos /\ scan.from = cursor.block
             named == atCursor /\ HasLogs(SpanOn(canon, cursor.block, NoPos))
             p == IF atCursor THEN cursor ELSE NoPos
             owed == EventsIn(canon, scan.from, to, p)
             boundary == IF named THEN HeaderAt(cursor.block) ELSE scan.boundary
  <1>1. /\ pc = "window"
        /\ UNCHANGED <<engineVars, chainVars, markVars, driverVars, budget>>
        /\ scan' = [scan EXCEPT !.from = to + 1, !.spans = owed, !.boundary = boundary]
        /\ pc' = IF owed # <<>> \/ to = scan.end THEN "boundary" ELSE "window"
    BY DEF ReadWindow
  <1>2. /\ status = "Active" /\ ret # "running" /\ scan \in Scan /\ DriverTypes /\ scan.head # NoBlock
        /\ EngineTypeOK /\ scan.from \in Nat /\ scan.end \in Nat /\ scan.boundary \in Blocks
        /\ scan.from <= scan.end
    BY <1>1, CallingFacts, ScanFields DEF Reading, ControlInv, TickControl
  <1>3. DriverTypes'
    BY <1>1, <1>2 DEF DriverTypes, chainVars, markVars, driverVars
  <1>5. to \in Nat /\ scan.from <= to /\ to <= scan.end
    BY <1>2 DEF Least
  <1>6. canon \in Hash /\ cursor.block \in Int
    BY <1>2, CursorIs DEF DriverTypes
  <1> HIDE DEF to, p, named
  <1>7. owed \in Seq(Span)
    BY <1>2, <1>5, <1>6, EventsInGathers
  <1>8. boundary \in Blocks
    BY <1>2, <1>6, HeaderOnIs DEF HeaderAt
  <1> HIDE DEF owed, boundary
  <1>9. scan' \in Scan /\ scan'.head # NoBlock /\ scan'.from = to + 1 /\ scan'.end = scan.end
    <2>1. to + 1 \in Nat
      BY <1>5
    <2>2. scan \in Scan /\ scan.head # NoBlock
          /\ scan' = ReadInto(scan, to + 1, owed, boundary)
      BY <1>1, <1>2 DEF ReadInto
    <2>3. QED
      BY <1>7, <1>8, <2>1, <2>2, ScanReads
  <1>10. pc' \in {"window", "boundary"} /\ (pc' = "window" => scan'.from <= scan'.end)
    BY <1>1, <1>2, <1>5, <1>9
  <1>11. QED
    BY <1>1, <1>2, <1>3, <1>9, <1>10, TickGoesOn DEF Reading, markVars, driverVars

\* The newest observed block, when there is a cursor.
LEMMA TipIs ==
    ASSUME EngineInv
    PROVE  /\ ring \in Seq(BlockRef) /\ (ring = <<>> <=> cursor = NoPos)
           /\ cursor # NoPos =>
                /\ Len(ring) \in 1..RingCapacity /\ Newest(ring) = ring[Len(ring)]
                /\ Newest(ring) \in BlockRef /\ Newest(ring).number = cursor.block
  BY DEF EngineInv, EngineTypeOK, RingTipIsCursor, RingEndsAt, Newest

LEMMA ReadBoundaryControl ==
    ASSUME ControlInv, ReadBoundary
    PROVE  ControlInv'
  <1> DEFINE boundary == IF cursor = NoPos \/ scan.boundary # NoBlock THEN scan.boundary
                         ELSE IF scan.resumed THEN Newest(ring)
                         ELSE IF scan.head.number = cursor.block THEN scan.head
                         ELSE HeaderAt(cursor.block)
  <1>1. /\ pc = "boundary" /\ scan' = [scan EXCEPT !.boundary = boundary]
        /\ pc' \in {"recheck", "anchor", "apply"}
        /\ UNCHANGED <<engineVars, chainVars, markVars, driverVars, budget>>
    BY DEF ReadBoundary
  <1>2. /\ status = "Active" /\ ret # "running" /\ scan \in Scan /\ DriverTypes /\ scan.head # NoBlock
        /\ EngineInv /\ EngineTypeOK /\ scan.boundary \in Blocks /\ scan.head \in Blocks
    BY <1>1, CallingFacts, ScanFields DEF Reading
  <1>3. DriverTypes'
    BY <1>1, <1>2 DEF DriverTypes, chainVars, markVars, driverVars
  <1>4. canon \in Hash /\ cursor.block \in Int
    BY <1>2, CursorIs DEF DriverTypes
  <1>5. HeaderAt(cursor.block) \in Blocks
    BY <1>4, HeaderOnIs DEF HeaderAt
  <1>6. cursor # NoPos => Newest(ring) \in Blocks
    BY <1>2, TipIs DEF Blocks
  <1>7. boundary \in Blocks
    BY <1>2, <1>5, <1>6
  <1> HIDE DEF boundary
  <1>8. scan' \in Scan /\ scan'.head # NoBlock
    BY <1>1, <1>2, <1>7 DEF Scan
  <1>9. QED
    BY <1>1, <1>2, <1>3, <1>8, TickGoesOn DEF Reading, markVars, driverVars

LEMMA ReadAnchorControl ==
    ASSUME ControlInv, ReadAnchor
    PROVE  ControlInv'
  <1>1. /\ pc = "anchor" /\ scan' = [scan EXCEPT !.anchor = HeaderAt(scan.end)]
        /\ pc' = "recheck"
        /\ UNCHANGED <<engineVars, chainVars, markVars, driverVars, budget>>
    BY DEF ReadAnchor
  <1>2. /\ status = "Active" /\ ret # "running" /\ scan \in Scan /\ DriverTypes /\ scan.head # NoBlock
        /\ scan.end \in Nat
    BY <1>1, CallingFacts, ScanFields DEF Reading
  <1>3. DriverTypes'
    BY <1>1, <1>2 DEF DriverTypes, chainVars, markVars, driverVars
  <1>4. HeaderAt(scan.end) \in Blocks
    BY <1>2, HeaderOnIs DEF HeaderAt, DriverTypes
  <1>5. scan' \in Scan /\ scan'.head # NoBlock
    BY <1>1, <1>2, <1>4 DEF Scan
  <1>6. QED
    BY <1>1, <1>2, <1>3, <1>5, TickGoesOn DEF Reading, markVars, driverVars

\* A tick that ends and leaves the engine and the marks of the sink alone.
LEMMA QuietEnd ==
    ASSUME ControlInv, pc \notin {"idle", "around"}, ret # "running",
           UNCHANGED <<engineVars, chainVars, markVars, walked, vouched, caughtUp>>,
           NEW outcome, EndTick(outcome),
           outcome \in {"Progressed", "DurabilityLost"} => pc = "offer"
    PROVE  ControlInv'
  <1>1. EngineInv /\ DriverTypes
    BY TypesSplit DEF ControlInv
  <1>2. EngineInv' /\ UNCHANGED <<cursor, slots, status, resets, ret, lastCheckpoint>>
    BY <1>1, EngineUnchanged DEF engineVars, markVars
  <1>3. DriverTypes'
    BY <1>1 DEF DriverTypes, chainVars, markVars
  <1>4. QED
    BY <1>2, <1>3, TickEnds DEF Idle

LEMMA RecheckControl ==
    ASSUME ControlInv, Recheck
    PROVE  ControlInv'
  <1>1. /\ pc = "recheck"
        /\ UNCHANGED <<engineVars, chainVars, markVars, walked, vouched, caughtUp, budget>>
        /\ IF Unmoved
           THEN pc' = "apply" /\ UNCHANGED <<leftAt, span, tick, scan>>
           ELSE EndTick("SourceError")
    BY DEF Recheck
  <1>2. /\ status = "Active" /\ ret # "running" /\ scan \in Scan /\ DriverTypes /\ scan.head # NoBlock
    BY <1>1, CallingFacts DEF Reading
  <1>3. DriverTypes'
    BY <1>1, <1>2 DEF DriverTypes, chainVars, markVars
  <1>4. CASE Unmoved
    BY <1>1, <1>2, <1>3, <1>4, TickGoesOn DEF Reading, markVars
  <1>5. CASE ~Unmoved
    BY <1>1, <1>2, <1>5, QuietEnd
  <1>6. QED
    BY <1>4, <1>5

LEMMA SourceFailsControl ==
    ASSUME ControlInv, SourceFails
    PROVE  ControlInv'
  <1>1. /\ pc \in {"head", "lag", "resume", "window", "boundary", "anchor", "recheck", "bisect"}
        /\ UNCHANGED <<engineVars, chainVars, markVars, walked, vouched, caughtUp>>
        /\ EndTick("SourceError")
    BY DEF SourceFails
  <1>2. ret # "running"
    BY <1>1, CallingFacts DEF Reading
  <1>3. QED
    BY <1>1, <1>2, QuietEnd

LEMMA StoppedControl ==
    ASSUME ControlInv, Stopped
    PROVE  ControlInv'
  <1>1. PICK outcome \in {"Terminal", "SourceError"} :
          /\ pc = "applying" /\ ret # "running"
          /\ UNCHANGED <<engineVars, chainVars, markVars, walked, vouched, caughtUp>>
          /\ EndTick(outcome)
    BY DEF Stopped
  <1>2. QED
    BY <1>1, QuietEnd

-----------------------------------------------------------------------------
(***************************************************************************)
(* The batch.                                                              *)
(***************************************************************************)
LEMMA ApplyIsOfBatch ==
    ASSUME ControlInv, pc = "apply"
    PROVE  [boundary |-> scan.boundary, spans |-> scan.spans] \in Batch
  <1>1. scan.boundary \in Blocks /\ scan.spans \in Seq(Span)
    BY CallingFacts, ScanFields DEF Reading
  <1>2. QED
    BY <1>1 DEF Batch, Blocks

LEMMA ApplyControl ==
    ASSUME ControlInv, Apply
    PROVE  ControlInv'
  <1> DEFINE b == [boundary |-> scan.boundary, spans |-> scan.spans]
  <1>1. /\ pc = "apply" /\ ApplyBatch(b) /\ scan' = [scan EXCEPT !.walked = walked]
        /\ walked' = NoBlock /\ pc' = "applying"
        /\ UNCHANGED <<chainVars, markVars, vouched, leftAt, caughtUp, span, tick, budget>>
    BY DEF Apply
  <1>2. /\ status = "Active" /\ Idle /\ scan \in Scan /\ DriverTypes /\ scan.head # NoBlock
        /\ EngineInv /\ span \in 1..MaxSpan /\ leftAt = NoPoint
        /\ CheckpointMarks
    BY <1>1, CallingFacts DEF Reading, ControlInv
  <1>3. EngineInv' /\ EngineTypeOK'
    <2>1. b \in Batch
      BY <1>1, ApplyIsOfBatch
    <2>2. QED
      BY <1>1, <1>2, <2>1, ApplyBatchKeepsInv DEF EngineInv
  <1>4. /\ UNCHANGED <<cursor, slots>>
        /\ ret' \in Verdicts => status' = "Active"
        /\ ret' \in Verdicts \cup {"running"}
    <2>1. CASE RefuseBatch(b)
      <3>1. Verdict(b) \in Verdicts
        BY <2>1 DEF Verdict, Verdicts, RefuseBatch
      <3>2. QED
        BY <1>2, <2>1, <3>1 DEF RefuseBatch, Returns
    <2>2. CASE AcceptBatch(b)
      BY <2>2 DEF AcceptBatch, Verdicts
    <2>3. QED
      BY <1>1, <2>1, <2>2 DEF ApplyBatch
  <1>5. DriverTypes'
    BY <1>1, <1>2 DEF DriverTypes, chainVars, markVars, Blocks
  <1>6. scan' \in Scan /\ scan'.head # NoBlock
    BY <1>1, <1>2 DEF Scan, DriverTypes
  <1>7. TypeOK'
    BY <1>1, <1>2, <1>3, <1>5, <1>6, TypesSplit DEF TypeOK, DriverTypes, TickTypes
  <1>8. TickControl'
    BY <1>1, <1>2, <1>4, <1>6 DEF TickControl, Calls, Reading, Closing, Verdicts
  <1>9. CheckpointMarks'
    BY <1>1, <1>2, <1>4 DEF CheckpointMarks, MarkServed, markVars
  <1>10. CheckpointKept'
    BY <1>1 DEF CheckpointKept, Settled
  <1>11. QED
    BY <1>3, <1>7, <1>8, <1>9, <1>10 DEF ControlInv

\* The loop over a batch only moves the cursor forward.
LEMMA ConsumeAdvances ==
    ASSUME EngineInv, AtSpan, NEW i, NEW f, Consume(i, f)
    PROVE  cursor'.block >= cursor.block
  <1>1. IsNext(Head(todo), i) /\ (cursor' = cursor \/ cursor' = PosAt(Head(todo), i))
    BY DEF Consume, Advance
  <1>2. /\ i \in 1..Len(Head(todo).logs) /\ After(PosAt(Head(todo), i), cursor)
    BY <1>1, NextIsAfter
  <1>3. EngineTypeOK /\ cursor.block \in Int
    BY CursorIs DEF EngineInv
  <1>4. Head(todo) \in Span
    BY <1>3 DEF EngineTypeOK, AtSpan
  <1>5. PosAt(Head(todo), i).block \in Nat
    BY <1>2, <1>4 DEF PosAt, Span
  <1>6. QED
    BY <1>1, <1>2, <1>3, <1>5 DEF After

LEMMA RefuseAdvances ==
    ASSUME EngineInv, AtSpan, ConsumedThrough(Head(todo))
    PROVE  cursor'.block >= cursor.block
  <1>1. EngineTypeOK /\ cursor.block \in Int /\ done \in Nat
    BY CursorIs DEF EngineInv, EngineTypeOK
  <1>2. CASE done = 0
    BY <1>1, <1>2 DEF ConsumedThrough
  <1>3. CASE done # 0
    <2>1. cursor' = PosAt(Head(todo), done) /\ After(PosAt(Head(todo), done), cursor)
      BY <1>1, <1>3 DEF ConsumedThrough, Advance, EngineInv, CallConsistent
    <2>2. Head(todo) \in Span
      BY <1>1 DEF EngineTypeOK, AtSpan
    <2>3. PosAt(Head(todo), done).block \in Nat
      BY <2>2 DEF PosAt, Span
    <2>4. QED
      BY <1>1, <2>1, <2>3 DEF After
  <1>4. QED
    BY <1>2, <1>3

LEMMA BatchAdvances ==
    ASSUME EngineInv,
           FoldAccepts \/ FoldSkips \/ BatchDone \/ FoldHalts \/ FoldPoisons \/ FoldPanics
    PROVE  /\ ret = "running" /\ UNCHANGED <<slots, resets, snap>>
           /\ cursor'.block >= cursor.block
           /\ \/ ret' = "running" /\ status' = status
              \/ ret' = "ok" /\ status' = "Active"
              \/ ret' \in {"halted", "poisoned", "panicked"} /\ status' # "Active"
  <1>1. EngineTypeOK /\ cursor.block \in Int
    BY CursorIs DEF EngineInv
  <1>2. CASE FoldAccepts \/ FoldSkips
    <2>1. PICK i, f : AtSpan /\ Consume(i, f)
      BY <1>2 DEF FoldAccepts, FoldSkips
    <2>2. ret = "running" /\ UNCHANGED <<slots, status, resets, snap, ret>>
      BY <2>1 DEF Consume, AtSpan
    <2>3. QED
      BY <2>1, <2>2, ConsumeAdvances
  <1>3. CASE BatchDone
    BY <1>1, <1>3 DEF BatchDone, Returns
  <1>4. CASE FoldHalts \/ FoldPoisons
    <2>1. PICK newStatus, reply, f :
            /\ Refuse(newStatus, reply, f)
            /\ newStatus \in {"Halted", "Poisoned"} /\ reply \in {"halted", "poisoned"}
      BY <1>4 DEF FoldHalts, FoldPoisons
    <2>2. /\ AtSpan /\ ConsumedThrough(Head(todo)) /\ status' = newStatus /\ ret' = reply
          /\ UNCHANGED <<slots, resets, snap>>
      BY <2>1 DEF Refuse, Returns
    <2>3. cursor'.block >= cursor.block /\ ret = "running"
      BY <2>2, RefuseAdvances DEF AtSpan
    <2>4. status' # "Active" /\ ret' \in {"halted", "poisoned", "panicked"}
      BY <2>1, <2>2
    <2>5. QED
      BY <2>2, <2>3, <2>4
  <1>5. CASE FoldPanics
    <2>1. /\ ret = "running" /\ ret' = "panicked"
          /\ UNCHANGED <<cursor, ring, slots, status, lastVerified, resets, snap>>
      BY <1>5 DEF FoldPanics, Returns, AtSpan
    <2>2. status = "Poisoned"
      BY <2>1 DEF EngineInv, CallConsistent
    <2>3. QED
      BY <1>1, <2>1, <2>2
  <1>6. QED
    BY <1>2, <1>3, <1>4, <1>5

\* A step inside apply_batch.
LEMMA BatchControl ==
    ASSUME ControlInv, pc = "applying",
           FoldAccepts \/ FoldSkips \/ BatchDone \/ FoldHalts \/ FoldPoisons \/ FoldPanics,
           UNCHANGED <<chainVars, markVars, driverVars, pc, scan>>
    PROVE  ControlInv'
  <1>1. TypeOK /\ TickControl /\ CheckpointMarks /\ EngineInv /\ DriverTypes /\ TickTypes
        /\ EngineTypeOK
    BY TypesSplit DEF ControlInv, EngineInv
  <1>2. ApplyStep
    BY DEF ApplyStep
  <1>3. EngineInv' /\ EngineTypeOK'
    BY <1>1, <1>2, ApplyStepKeepsInv DEF EngineInv
  <1>4. /\ ret = "running" /\ UNCHANGED <<slots, resets, snap>>
        /\ cursor'.block >= cursor.block
        /\ \/ ret' = "running" /\ status' = status
           \/ ret' = "ok" /\ status' = "Active"
           \/ ret' \in {"halted", "poisoned", "panicked"} /\ status' # "Active"
    BY <1>1, BatchAdvances
  <1>5. TypeOK'
    BY <1>1, <1>3, TypesSplit
      DEF TypeOK, DriverTypes, TickTypes, chainVars, markVars, driverVars
  <1>6. leftAt = NoPoint /\ scan.head # NoBlock
    BY <1>1 DEF TickControl
  <1>7. TickControl'
    BY <1>4, <1>6 DEF TickControl, Calls, Reading, Closing, Verdicts, driverVars
  <1>8. CheckpointMarks'
    <2>1. lastCheckpoint <= cursor.block /\ MarkServed(lastCheckpoint)
      BY <1>1, <1>4 DEF CheckpointMarks
    <2>2. lastCheckpoint' = lastCheckpoint /\ pc' = "applying"
      BY DEF markVars
    <2>3. lastCheckpoint' <= cursor'.block
      BY <1>1, <1>3, <1>4, <2>1, <2>2, CursorIs DEF DriverTypes, EngineTypeOK, Position, NoPos
    <2>4. MarkServed(lastCheckpoint)'
      BY <1>4, <2>1, <2>2 DEF MarkServed
    <2>5. QED
      BY <2>2, <2>3, <2>4 DEF CheckpointMarks
  <1>9. CheckpointKept'
    BY DEF CheckpointKept, Settled
  <1>10. QED
    BY <1>3, <1>5, <1>7, <1>8, <1>9 DEF ControlInv

LEMMA AppliedControl ==
    ASSUME ControlInv, Applied
    PROVE  ControlInv'
  <1>1. /\ pc = "applying" /\ ret = "ok" /\ pc' = "checkpoint"
        /\ walked' \in {NoBlock, scan.anchor, scan.walked} /\ vouched' \in {vouched, scan.head}
        /\ caughtUp' = NothingNew
        /\ UNCHANGED <<engineVars, chainVars, markVars, leftAt, span, tick, scan, budget>>
    BY DEF Applied
  <1>2. /\ scan \in Scan /\ DriverTypes /\ status = "Active" /\ scan.head # NoBlock
    BY <1>1, TypesSplit DEF ControlInv, TickTypes, TickControl
  <1>3. scan.head \in Blocks /\ scan.anchor \in Blocks /\ scan.walked \in Blocks
    BY <1>2, ScanFields
  <1>4. NothingNew \in BOOLEAN
    BY DEF NothingNew
  <1>5. DriverTypes'
    BY <1>1, <1>2, <1>3, <1>4 DEF DriverTypes, chainVars, markVars, Blocks
  <1>6. QED
    BY <1>1, <1>2, <1>5, TickGoesOn DEF markVars, Reading

LEMMA ForkedControl ==
    ASSUME ControlInv, Forked
    PROVE  ControlInv'
  <1>1. /\ pc = "applying" /\ ret \in {"fork", "missingBoundary", "unobserved"} /\ pc' = "bisect"
        /\ vouched' = NoBlock /\ scan' = [scan EXCEPT !.lo = 0, !.hi = Len(ring)]
        /\ UNCHANGED <<engineVars, chainVars, markVars, walked, leftAt, caughtUp, span, tick, budget>>
    BY DEF Forked
  <1>2. /\ scan \in Scan /\ DriverTypes /\ status = "Active" /\ scan.head # NoBlock /\ EngineTypeOK
    BY <1>1, TypesSplit DEF ControlInv, TickTypes, TickControl, Verdicts
  <1>3. DriverTypes'
    BY <1>1, <1>2 DEF DriverTypes, chainVars, markVars, Blocks
  <1>4. Len(ring) \in 0..RingCapacity /\ 0 \in 0..RingCapacity
    BY <1>2 DEF EngineTypeOK
  <1>5. scan' \in Scan /\ scan'.head # NoBlock /\ scan'.lo = 0 /\ scan'.hi = Len(ring)
    BY <1>1, <1>2, <1>4 DEF Scan
  <1>6. QED
    BY <1>1, <1>2, <1>3, <1>4, <1>5, TickGoesOn DEF markVars, Reading

LEMMA UnwoundControl ==
    ASSUME ControlInv, Unwound
    PROVE  ControlInv'
  <1>1. /\ pc = "applying" /\ ret = "panicked" /\ tick' = "Panicked" /\ pc' = "idle"
        /\ scan' = NoScan
        /\ UNCHANGED <<engineVars, chainVars, markVars, walked, vouched, leftAt, caughtUp, span, budget>>
    BY DEF Unwound
  <1>2. /\ DriverTypes /\ TickTypes /\ EngineInv /\ leftAt = NoPoint /\ CheckpointMarks
    BY <1>1, TypesSplit DEF ControlInv, TickControl
  <1>3. EngineInv' /\ EngineTypeOK' /\ UNCHANGED <<cursor, slots, status, resets, ret>>
    BY <1>1, <1>2, EngineUnchanged DEF EngineInv, engineVars
  <1>4. TypeOK'
    BY <1>1, <1>2, <1>3, NoScanIs, TypesSplit
      DEF TypeOK, DriverTypes, TickTypes, chainVars, markVars
  <1>5. TickControl'
    BY <1>1, <1>2, <1>3 DEF TickControl, Calls, Reading, Closing
  <1>6. CheckpointMarks'
    <2>1. lastCheckpoint <= cursor.block /\ (status = "Active" => MarkServed(lastCheckpoint))
      BY <1>1, <1>2 DEF CheckpointMarks
    <2>2. UNCHANGED lastCheckpoint
      BY <1>1 DEF markVars
    <2>3. Clamp(lastCheckpoint)' = lastCheckpoint
      BY <1>3, <2>1, <2>2 DEF Clamp, Least
    <2>4. status' = "Active" => MarkServed(Clamp(lastCheckpoint))'
      BY <1>3, <2>1, <2>3 DEF MarkServed
    <2>5. QED
      BY <1>1, <2>4 DEF CheckpointMarks
  <1>7. CheckpointKept'
    BY <1>1 DEF CheckpointKept
  <1>8. QED
    BY <1>3, <1>4, <1>5, <1>6, <1>7 DEF ControlInv

-----------------------------------------------------------------------------
(***************************************************************************)
(* The cadences.                                                           *)
(***************************************************************************)
\* A checkpoint of an Active engine is the newest slot.
LEMMA CheckpointStores ==
    ASSUME EngineInv, Checkpoint, status = "Active", CheckpointSlots > 0
    PROVE  \E i \in 1..Len(slots') : slots'[i].cursor = cursor
  <1> DEFINE slot == [fold |-> fold, cursor |-> cursor]
             kept == IF Len(slots) < CheckpointSlots THEN slots ELSE Tail(slots)
  <1>1. slots' = Append(kept, slot)
    BY DEF Checkpoint, Store
  <1>2. kept \in Seq(Slot)
    <2>1. slots \in Seq(Slot)
      BY DEF EngineInv, EngineTypeOK
    <2>2. Len(slots) >= CheckpointSlots => Tail(slots) \in Seq(Slot)
      BY <2>1
    <2>3. QED
      BY <2>1, <2>2
  <1> HIDE DEF kept
  <1>3. Len(slots') = Len(kept) + 1 /\ slots'[Len(kept) + 1] = slot /\ Len(kept) \in Nat
    BY <1>1, <1>2
  <1>4. QED
    BY <1>3

\* run_checkpoint of an Active engine.
LEMMA RunCheckpointServes ==
    ASSUME EngineInv, DriverTypes, status = "Active", RunCheckpoint
    PROVE  /\ EngineInv' /\ UNCHANGED <<fold, cursor, ring, status, resets, snap>> /\ ret' = "none"
           /\ lastCheckpoint' \in Nat \cup {-1}
           /\ cursor # NoPos => lastCheckpoint' = cursor.block
           /\ MarkServed(Clamp(lastCheckpoint))'
           /\ KeptNow'
  <1>1. /\ Checkpoint /\ UNCHANGED <<fold, cursor, ring, status, resets, snap>> /\ ret' = "none"
        /\ lastCheckpoint' = IF cursor = NoPos THEN lastCheckpoint ELSE cursor.block
    BY DEF RunCheckpoint, Checkpoint, NoCall
  <1>2. EngineInv'
    BY <1>1, CheckpointKeepsInv
  <1>3. cursor.block \in Int /\ (cursor # NoPos => cursor.block \in Nat) /\ NoPos.block = -1
    BY CursorIs DEF EngineInv
  <1>4. lastCheckpoint' \in Nat \cup {-1}
    BY <1>1, <1>3 DEF DriverTypes
  <1>5. CheckpointSlots > 0 => \E i \in 1..Len(slots') : slots'[i].cursor = cursor
    BY <1>1, CheckpointStores
  <1>6. KeptNow'
    BY <1>1, <1>5 DEF KeptNow
  <1>7. MarkServed(Clamp(lastCheckpoint))'
    <2>1. CASE cursor = NoPos
      <3>1. Clamp(lastCheckpoint)' = -1
        BY <1>1, <1>3, <1>4, <2>1 DEF Clamp, Least
      <3>2. QED
        BY <3>1 DEF MarkServed
    <2>2. CASE cursor # NoPos
      <3>1. Clamp(lastCheckpoint)' = cursor.block
        BY <1>1, <1>3, <1>4, <2>2 DEF Clamp, Least
      <3>2. QED
        BY <1>3, <1>5, <3>1 DEF MarkServed
    <2>3. QED
      BY <2>1, <2>2
  <1>8. QED
    BY <1>1, <1>2, <1>4, <1>6, <1>7

\* The automatic checkpoint keeps the checkpoints within an interval of the cursor.
LEMMA AutoCheckpointServes ==
    ASSUME EngineInv, DriverTypes, status = "Active", ret # "running",
           lastCheckpoint <= cursor.block, MarkServed(lastCheckpoint), AutoCheckpoint
    PROVE  /\ EngineInv' /\ UNCHANGED <<fold, cursor, ring, status, resets, snap>>
           /\ ret' # "running"
           /\ lastCheckpoint' \in Nat \cup {-1} /\ lastCheckpoint' <= cursor'.block
           /\ MarkServed(lastCheckpoint)' /\ KeptNow'
  <1>1. cursor.block \in Int /\ (cursor # NoPos => cursor.block \in Nat) /\ NoPos.block = -1
        /\ lastCheckpoint \in Nat \cup {-1}
    BY CursorIs DEF EngineInv, DriverTypes
  <1>2. CASE cursor # NoPos /\ Due(lastCheckpoint, cursor.block, CheckpointInterval)
    <2>1. RunCheckpoint
      BY <1>2 DEF AutoCheckpoint
    <2>2. /\ EngineInv' /\ UNCHANGED <<fold, cursor, ring, status, resets, snap>> /\ ret' = "none"
          /\ lastCheckpoint' = cursor.block
          /\ MarkServed(Clamp(lastCheckpoint))' /\ KeptNow'
      BY <1>2, <2>1, RunCheckpointServes
    <2>3. Clamp(lastCheckpoint)' = lastCheckpoint'
      BY <1>1, <1>2, <2>2 DEF Clamp, Least
    <2>4. MarkServed(lastCheckpoint)'
      BY <2>2, <2>3 DEF MarkServed
    <2>5. QED
      BY <1>1, <1>2, <2>2, <2>4
  <1>3. CASE ~(cursor # NoPos /\ Due(lastCheckpoint, cursor.block, CheckpointInterval))
    <2>1. UNCHANGED <<engineVars, lastCheckpoint>>
      BY <1>3 DEF AutoCheckpoint
    <2>2. EngineInv' /\ UNCHANGED <<fold, cursor, ring, status, resets, snap, ret, slots>>
      BY <2>1, EngineUnchanged DEF engineVars
    <2>3. MarkServed(lastCheckpoint)'
      BY <2>1, <2>2 DEF MarkServed
    <2>4. KeptNow
      <3>1. SUFFICES ASSUME cursor # NoPos, CheckpointSlots > 0
                     PROVE  \E i \in 1..Len(slots) :
                              slots[i].cursor.block > cursor.block - CheckpointInterval
        BY DEF KeptNow
      <3>2. lastCheckpoint # -1 /\ cursor.block < lastCheckpoint + CheckpointInterval
        BY <1>1, <1>3, <3>1 DEF Due
      <3>3. PICK i \in 1..Len(slots) : slots[i].cursor.block >= lastCheckpoint
        BY <3>1, <3>2 DEF MarkServed
      <3>4. slots[i].cursor.block \in Int
        BY SlotEntries DEF Position, NoPos
      <3>5. QED
        BY <1>1, <3>2, <3>3, <3>4
    <2>5. QED
      BY <1>1, <2>1, <2>2, <2>3, <2>4 DEF KeptNow
  <1>4. QED
    BY <1>2, <1>3

LEMMA CheckpointRuleControl ==
    ASSUME ControlInv, CheckpointRule
    PROVE  ControlInv'
  <1>1. /\ pc = "checkpoint" /\ AutoCheckpoint /\ pc' = "offer"
        /\ UNCHANGED <<chainVars, lastSnapshot, seenResets, durabilityLost, durable, driverVars,
                       scan, budget>>
    BY DEF CheckpointRule
  <1>2. /\ status = "Active" /\ ret # "running" /\ scan \in Scan /\ DriverTypes /\ scan.head # NoBlock
        /\ EngineInv /\ leftAt = NoPoint /\ span \in 1..MaxSpan
    BY <1>1, CallingFacts
  <1>3. lastCheckpoint <= cursor.block /\ MarkServed(lastCheckpoint)
    BY <1>1, <1>2 DEF ControlInv, CheckpointMarks
  <1>4. /\ EngineInv' /\ UNCHANGED <<fold, cursor, ring, status, resets, snap>>
        /\ ret' # "running"
        /\ lastCheckpoint' \in Nat \cup {-1} /\ lastCheckpoint' <= cursor'.block
        /\ MarkServed(lastCheckpoint)' /\ KeptNow'
    BY <1>1, <1>2, <1>3, AutoCheckpointServes
  <1>5. DriverTypes' /\ TickTypes' /\ EngineTypeOK'
    BY <1>1, <1>2, <1>4 DEF DriverTypes, TickTypes, EngineInv, chainVars, driverVars
  <1>6. TypeOK'
    BY <1>5, TypesSplit DEF TypeOK, DriverTypes, TickTypes
  <1>7. TickControl'
    BY <1>1, <1>2, <1>4 DEF TickControl, Calls, Reading, Closing, driverVars
  <1>8. CheckpointMarks'
    BY <1>1, <1>4 DEF CheckpointMarks
  <1>9. CheckpointKept'
    BY <1>1 DEF CheckpointKept, Settled
  <1>10. QED
    BY <1>4, <1>6, <1>7, <1>8, <1>9 DEF ControlInv

LEMMA NoOfferControl ==
    ASSUME ControlInv, NoOffer
    PROVE  ControlInv'
  <1>1. /\ pc = "offer"
        /\ UNCHANGED <<engineVars, chainVars, markVars, walked, vouched, caughtUp>>
        /\ EndTick(Outcome)
    BY DEF NoOffer
  <1>2. ret # "running"
    BY <1>1, CallingFacts
  <1>3. QED
    BY <1>1, <1>2, QuietEnd

LEMMA OfferTakenControl ==
    ASSUME ControlInv, OfferTaken
    PROVE  ControlInv'
  <1>1. /\ pc = "offer" /\ EncodeDurableSnapshot
        /\ lastSnapshot' = snap'.cursor.block /\ durable' = snap'.cursor
        /\ UNCHANGED <<chainVars, lastCheckpoint, seenResets, durabilityLost, walked, vouched,
                       caughtUp, budget>>
        /\ EndTick(Outcome)
    BY DEF OfferTaken
  <1>2. EngineInv /\ DriverTypes
    BY <1>1, CallingFacts
  <1>3. EngineInv'
    BY <1>1, <1>2, EncodeDurableSnapshotKeepsInv
  <1>4. UNCHANGED <<cursor, slots, status, resets>> /\ Idle'
    BY <1>1 DEF EncodeDurableSnapshot, NoCall, Idle
  <1>5. snap'.cursor \in Position
    <2>1. PICK i \in 1..Len(slots) : slots[i].cursor # NoPos /\ snap'.cursor = slots[i].cursor
      BY <1>1 DEF EncodeDurableSnapshot
    <2>2. QED
      BY <1>2, <2>1, SlotEntries
  <1>6. DriverTypes'
    BY <1>1, <1>2, <1>5 DEF DriverTypes, chainVars, Position
  <1>7. QED
    BY <1>1, <1>3, <1>4, <1>6, TickEnds

LEMMA OfferRefusedControl ==
    ASSUME ControlInv, OfferRefused
    PROVE  ControlInv'
  <1>1. /\ pc = "offer" /\ durabilityLost' = TRUE
        /\ UNCHANGED <<engineVars, chainVars, lastCheckpoint, lastSnapshot, seenResets, durable,
                       walked, vouched, caughtUp>>
        /\ EndTick("DurabilityLost")
    BY DEF OfferRefused
  <1>2. EngineInv /\ DriverTypes /\ ret # "running"
    BY <1>1, CallingFacts
  <1>3. EngineInv' /\ UNCHANGED <<cursor, slots, status, resets, ret>>
    BY <1>1, <1>2, EngineUnchanged DEF engineVars
  <1>4. DriverTypes'
    BY <1>1, <1>2 DEF DriverTypes, chainVars
  <1>5. QED
    BY <1>1, <1>2, <1>3, <1>4, TickEnds DEF Idle

-----------------------------------------------------------------------------
(***************************************************************************)
(* Recovery, and the caller.                                               *)
(***************************************************************************)
LEMMA Midpoint ==
    ASSUME NEW lo \in Nat, NEW hi \in Nat, lo < hi
    PROVE  /\ lo + (hi - lo) \div 2 \in Nat
           /\ lo <= lo + (hi - lo) \div 2 /\ lo + (hi - lo) \div 2 < hi
  OBVIOUS

LEMMA BisectControl ==
    ASSUME ControlInv, Bisect
    PROVE  ControlInv'
  <1> DEFINE mid == scan.lo + (scan.hi - scan.lo) \div 2
  <1>1. /\ pc = "bisect" /\ scan.lo < scan.hi
        /\ scan' = [scan EXCEPT !.lo = mid + 1] \/ scan' = [scan EXCEPT !.hi = mid]
        /\ UNCHANGED <<engineVars, chainVars, markVars, driverVars, pc, budget>>
    BY DEF Bisect
  <1>2. /\ status = "Active" /\ ret # "running" /\ scan \in Scan /\ DriverTypes /\ scan.head # NoBlock
        /\ EngineTypeOK
        /\ scan.lo \in 0..RingCapacity /\ scan.hi \in 0..RingCapacity /\ scan.hi <= Len(ring)
    BY <1>1, CallingFacts, ScanFields DEF ControlInv, TickControl
  <1>3. DriverTypes'
    BY <1>1, <1>2 DEF DriverTypes, chainVars, markVars, driverVars
  <1>4. mid \in Nat /\ scan.lo <= mid /\ mid < scan.hi
    BY <1>1, <1>2, Midpoint
  <1>5. Len(ring) \in Nat
    BY <1>2 DEF EngineTypeOK
  <1> HIDE DEF mid
  <1>6. scan' \in Scan /\ scan'.head # NoBlock /\ scan'.lo <= scan'.hi /\ scan'.hi <= Len(ring)
    <2>1. mid \in 0..RingCapacity /\ mid + 1 \in 0..RingCapacity /\ mid + 1 <= scan.hi
      BY <1>2, <1>4
    <2>2. CASE scan' = [scan EXCEPT !.lo = mid + 1]
      BY <1>2, <2>1, <2>2 DEF Scan
    <2>3. CASE scan' = [scan EXCEPT !.hi = mid]
      <3>1. mid <= Len(ring) /\ scan.lo <= mid
        BY <1>2, <1>4, <1>5
      <3>2. QED
        BY <1>2, <2>1, <2>3, <3>1 DEF Scan
    <2>4. QED
      BY <1>1, <2>2, <2>3
  <1>7. QED
    BY <1>1, <1>2, <1>3, <1>6, TickGoesOn DEF markVars, driverVars

\* A rollback leaves a checkpoint at the cursor it restores.
LEMMA RollbackServes ==
    ASSUME EngineInv, DriverTypes, NEW block \in Nat, Rollback(block), UNCHANGED lastCheckpoint
    PROVE  /\ EngineInv' /\ status' = "Active" /\ ret' = "none" /\ UNCHANGED resets
           /\ MarkServed(Clamp(lastCheckpoint))' /\ KeptNow'
  <1>1. EngineInv'
    BY RollbackKeepsInv
  <1>2. status' = "Active" /\ ret' = "none" /\ UNCHANGED resets
    BY DEF Rollback, NoCall
  <1>3. PICK i \in 1..Len(slots') : slots'[i].cursor = cursor'
    <2>1. PICK i \in 1..Len(slots) :
            /\ cursor' = slots[i].cursor /\ slots' \in Seq(Slot) /\ Len(slots') = i
            /\ \A k \in 1..i : slots'[k] = slots[k]
      BY RollbackRestores
    <2>2. i \in 1..Len(slots') /\ slots'[i].cursor = cursor'
      BY <2>1
    <2>3. QED
      BY <2>2
  <1>4. Clamp(lastCheckpoint)' <= cursor'.block /\ cursor'.block \in Int
        /\ Clamp(lastCheckpoint)' \in Int
    <2>1. cursor' \in Position \cup {NoPos}
      BY <1>1 DEF EngineInv, EngineTypeOK
    <2>2. cursor'.block \in Int
      BY <2>1 DEF Position, NoPos
    <2>3. lastCheckpoint' \in Int
      BY DEF DriverTypes
    <2>4. QED
      BY <2>2, <2>3 DEF Clamp, Least
  <1>5. MarkServed(Clamp(lastCheckpoint))'
    BY <1>3, <1>4 DEF MarkServed
  <1>6. KeptNow'
    BY <1>3 DEF KeptNow
  <1>7. QED
    BY <1>1, <1>2, <1>5, <1>6

LEMMA ResetServes ==
    ASSUME EngineInv, DriverTypes, Reset(Genesis), UNCHANGED lastCheckpoint
    PROVE  /\ EngineInv' /\ status' = "Active" /\ ret' = "none"
           /\ MarkServed(Clamp(lastCheckpoint))' /\ KeptNow'
  <1>1. EngineInv'
    BY ResetKeepsInv
  <1>2. status' = "Active" /\ ret' = "none" /\ cursor' = NoPos
    BY DEF Reset, NoCall
  <1>3. Clamp(lastCheckpoint)' = -1
    BY <1>2 DEF Clamp, Least, NoPos, DriverTypes
  <1>4. QED
    BY <1>1, <1>2, <1>3 DEF MarkServed, KeptNow

\* A tick that ends with the engine moved back.
LEMMA RecoveryEnds ==
    ASSUME ControlInv, pc = "bisect", EngineInv', status' = "Active", ret' = "none",
           MarkServed(Clamp(lastCheckpoint))', caughtUp' \in BOOLEAN,
           UNCHANGED <<chainVars, markVars, walked, vouched>>,
           NEW outcome \in {"RolledBack", "Resynced"}, EndTick(outcome)
    PROVE  ControlInv'
  <1>1. DriverTypes /\ span \in 1..MaxSpan
    BY CallingFacts
  <1>2. DriverTypes' /\ EngineTypeOK'
    BY <1>1 DEF DriverTypes, chainVars, markVars, EngineInv
  <1>3. pc' = "idle" /\ tick' = outcome /\ scan' = NoScan /\ TickTypes'
    BY <1>1, <1>2, EndTickIs
  <1>4. TypeOK'
    BY <1>2, <1>3, TypesSplit DEF TypeOK, DriverTypes, TickTypes
  <1>5. TickControl'
    BY <1>3 DEF TickControl, Calls, Reading, Closing
  <1>6. CheckpointMarks'
    BY <1>3 DEF CheckpointMarks
  <1>7. CheckpointKept'
    BY <1>3 DEF CheckpointKept
  <1>8. QED
    BY <1>4, <1>5, <1>6, <1>7 DEF ControlInv

\* The block a bisection retreats to has been observed.
LEMMA RetreatIsObserved ==
    ASSUME ControlInv, Bisected, CanRetreat
    PROVE  scan.lo \in 1..Len(ring) /\ RetreatBlock \in Nat
  <1>1. pc = "bisect" /\ scan.lo = scan.hi /\ scan.lo > 0
    BY DEF Bisected, CanRetreat
  <1>2. EngineTypeOK /\ scan.lo \in 0..RingCapacity /\ scan.hi <= Len(ring)
    BY <1>1, CallingFacts, ScanFields DEF ControlInv, TickControl
  <1>3. ring \in Seq(BlockRef) /\ scan.lo \in 1..Len(ring)
    BY <1>1, <1>2 DEF EngineTypeOK
  <1>4. ring[scan.lo] \in BlockRef
    BY <1>3
  <1>5. QED
    BY <1>3, <1>4 DEF RetreatBlock, BlockRef

LEMMA RecoversControl ==
    ASSUME ControlInv, RollBackTo \/ Resync \/ Unrecoverable
    PROVE  ControlInv'
  <1>1. pc = "bisect"
    BY DEF RollBackTo, Resync, Unrecoverable, Bisected
  <1>2. EngineInv /\ DriverTypes /\ status = "Active" /\ span \in 1..MaxSpan
    BY <1>1, CallingFacts
  <1>3. CASE RollBackTo
    <2>1. /\ Bisected /\ CanRetreat /\ Rollback(RetreatBlock) /\ caughtUp' = FALSE
          /\ UNCHANGED <<chainVars, markVars, walked, vouched>> /\ EndTick("RolledBack")
      BY <1>3 DEF RollBackTo
    <2>2. RetreatBlock \in Nat
      BY <2>1, RetreatIsObserved
    <2>3. /\ EngineInv' /\ status' = "Active" /\ ret' = "none" /\ UNCHANGED resets
          /\ MarkServed(Clamp(lastCheckpoint))'
      BY <1>2, <2>1, <2>2, RollbackServes DEF markVars
    <2>4. QED
      BY <1>1, <2>1, <2>3, RecoveryEnds
  <1>4. CASE Resync
    <2>1. /\ Reset(Genesis) /\ caughtUp' = FALSE
          /\ UNCHANGED <<chainVars, markVars, walked, vouched>> /\ EndTick("Resynced")
      BY <1>4 DEF Resync
    <2>2. /\ EngineInv' /\ status' = "Active" /\ ret' = "none"
          /\ MarkServed(Clamp(lastCheckpoint))'
      BY <1>2, <2>1, ResetServes DEF markVars
    <2>3. QED
      BY <1>1, <2>1, <2>2, RecoveryEnds
  <1>5. CASE Unrecoverable
    <2>1. /\ MarkUnrecoverable /\ EndTick("Terminal")
          /\ UNCHANGED <<chainVars, markVars, walked, vouched, caughtUp>>
      BY <1>5 DEF Unrecoverable
    <2>2. EngineInv' /\ EngineTypeOK'
      BY <1>2, <2>1, GiveUpKeepsInv DEF GiveUp, EngineInv
    <2>3. status' = "Unrecoverable" /\ ret' = "none"
      BY <2>1 DEF MarkUnrecoverable, NoCall
    <2>4. DriverTypes'
      BY <1>2, <2>1 DEF DriverTypes, chainVars, markVars
    <2>5. pc' = "idle" /\ tick' = "Terminal" /\ scan' = NoScan /\ TickTypes' /\ leftAt' = NoPoint
      BY <1>2, <2>1, <2>2, <2>3, EndTickIs
    <2>6. TypeOK'
      BY <2>2, <2>4, <2>5, TypesSplit DEF TypeOK, DriverTypes, TickTypes
    <2>7. TickControl'
      BY <2>3, <2>5 DEF TickControl, Calls, Reading, Closing
    <2>8. CheckpointMarks' /\ CheckpointKept'
      BY <2>3, <2>5 DEF CheckpointMarks, CheckpointKept
    <2>9. QED
      BY <2>2, <2>6, <2>7, <2>8 DEF ControlInv
  <1>6. QED
    BY <1>3, <1>4, <1>5

LEMMA CallerMovesEngineControl ==
    ASSUME ControlInv, CallerMovesEngine
    PROVE  ControlInv'
  <1>1. /\ pc = "idle" /\ UNCHANGED <<chainVars, markVars, driverVars, pc, scan>>
        /\ (\E block \in RollbackTargets : Rollback(block)) \/ Reset(Genesis)
    BY DEF CallerMovesEngine
  <1>2. EngineInv /\ DriverTypes /\ TickTypes /\ scan = NoScan
    BY <1>1, TypesSplit DEF ControlInv, TickControl
  <1>3. /\ EngineInv' /\ status' = "Active" /\ ret' = "none"
        /\ MarkServed(Clamp(lastCheckpoint))' /\ KeptNow'
    <2>1. UNCHANGED lastCheckpoint
      BY <1>1 DEF markVars
    <2>2. ASSUME NEW block \in RollbackTargets, Rollback(block)
          PROVE  /\ EngineInv' /\ status' = "Active" /\ ret' = "none"
                 /\ MarkServed(Clamp(lastCheckpoint))' /\ KeptNow'
      <3>1. block \in Nat
        BY RollbackTargetsAssumption
      <3>2. QED
        BY <1>2, <2>1, <2>2, <3>1, RollbackServes
    <2>3. QED
      BY <1>1, <1>2, <2>1, <2>2, ResetServes
  <1>4. TypeOK'
    BY <1>1, <1>2, <1>3, TypesSplit
      DEF TypeOK, DriverTypes, TickTypes, EngineInv, chainVars, markVars, driverVars
  <1>5. TickControl'
    BY <1>1, <1>2, <1>3 DEF TickControl, Calls, Reading, Closing
  <1>6. CheckpointMarks'
    BY <1>1, <1>3 DEF CheckpointMarks
  <1>7. CheckpointKept'
    BY <1>3 DEF CheckpointKept, KeptNow
  <1>8. QED
    BY <1>3, <1>4, <1>5, <1>6, <1>7 DEF ControlInv

LEMMA CallerCheckpointsControl ==
    ASSUME ControlInv, CallerCheckpoints
    PROVE  ControlInv'
  <1>1. /\ pc = "idle" /\ RunCheckpoint
        /\ UNCHANGED <<chainVars, lastSnapshot, seenResets, durabilityLost, durable, driverVars,
                       pc, scan>>
    BY DEF CallerCheckpoints
  <1>2. EngineInv /\ DriverTypes /\ TickTypes /\ scan = NoScan /\ TickControl
    BY <1>1, TypesSplit DEF ControlInv, TickControl
  <1>3. /\ Checkpoint /\ UNCHANGED <<cursor, status, resets>> /\ ret' = "none"
        /\ lastCheckpoint' = IF cursor = NoPos THEN lastCheckpoint ELSE cursor.block
    BY <1>1 DEF RunCheckpoint, Checkpoint, NoCall
  <1>4. EngineInv' /\ EngineTypeOK'
    BY <1>2, <1>3, CheckpointKeepsInv DEF EngineInv
  <1>5. lastCheckpoint' \in Nat \cup {-1}
    BY <1>2, <1>3, CursorIs DEF EngineInv, DriverTypes
  <1>6. status = "Active" => MarkServed(Clamp(lastCheckpoint))' /\ KeptNow'
    BY <1>1, <1>2, RunCheckpointServes
  <1>7. TypeOK'
    BY <1>1, <1>2, <1>4, <1>5, TypesSplit
      DEF TypeOK, DriverTypes, TickTypes, chainVars, driverVars
  <1>8. TickControl'
    BY <1>1, <1>2, <1>3 DEF TickControl, Calls, Reading, Closing, driverVars
  <1>9. CheckpointMarks'
    BY <1>1, <1>3, <1>6 DEF CheckpointMarks
  <1>10. CheckpointKept'
    BY <1>3, <1>6 DEF CheckpointKept, KeptNow, Settled
  <1>11. QED
    BY <1>4, <1>7, <1>8, <1>9, <1>10 DEF ControlInv

\* A step of the environment that the engine and the control of the driver do not see.
LEMMA UnseenControl ==
    ASSUME ControlInv, UNCHANGED <<engineVars, markVars, leftAt, caughtUp, span, tick, pc, scan>>,
           canon' \in Hash, pruned' \in BOOLEAN, steady' \in BOOLEAN,
           walked' \in Blocks, vouched' \in Blocks
    PROVE  ControlInv'
  <1>1. EngineInv /\ DriverTypes /\ TickTypes /\ TickControl /\ CheckpointMarks /\ CheckpointKept
    BY TypesSplit DEF ControlInv
  <1>2. UNCHANGED <<cursor, ring, slots, status, resets, ret, lastCheckpoint, lastSnapshot>>
    BY DEF engineVars, markVars
  <1>3. EngineInv' /\ EngineTypeOK'
    BY <1>1, EngineUnchanged DEF EngineInv
  <1>4. TypeOK'
    BY <1>1, <1>3, TypesSplit DEF TypeOK, DriverTypes, TickTypes, markVars
  <1>5. TickControl'
    BY <1>1, <1>2 DEF TickControl, Calls, Reading, Closing
  <1>6. CheckpointMarks'
    BY <1>1, <1>2 DEF CheckpointMarks, MarkServed, Clamp, KeptNow
  <1>7. CheckpointKept'
    BY <1>1, <1>2 DEF CheckpointKept, Settled, EnginePoint
  <1>8. QED
    BY <1>3, <1>4, <1>5, <1>6, <1>7 DEF ControlInv

LEMMA EnvironmentControl ==
    ASSUME ControlInv,
           CallerTakesSource \/ ChainMoves \/ SourcePrunes \/ UNCHANGED vars
    PROVE  ControlInv'
  <1>1. DriverTypes /\ NoBlock \in Blocks
    BY TypesSplit DEF ControlInv, Blocks
  <1>2. UNCHANGED <<engineVars, markVars, leftAt, caughtUp, span, tick, pc, scan>>
    BY DEF CallerTakesSource, ChainMoves, SourcePrunes, vars, driverVars, chainVars
  <1>3. canon' \in Hash /\ pruned' \in BOOLEAN /\ steady' \in BOOLEAN
    BY <1>1 DEF CallerTakesSource, ChainMoves, SourcePrunes, vars, chainVars, DriverTypes
  <1>4. walked' \in Blocks /\ vouched' \in Blocks
    BY <1>1 DEF CallerTakesSource, ChainMoves, SourcePrunes, vars, driverVars, DriverTypes
  <1>5. QED
    BY <1>2, <1>3, <1>4, UnseenControl

LEMMA CrashControl ==
    ASSUME ControlInv, Crash
    PROVE  ControlInv'
  <1>1. /\ Restart \/ StartAfresh
        /\ durable' = snap.cursor /\ seenResets' = 0
        /\ walked' = NoBlock /\ vouched' = NoBlock /\ leftAt' = NoPoint /\ caughtUp' = FALSE
        /\ lastCheckpoint' = -1 /\ lastSnapshot' = -1 /\ durabilityLost' = FALSE
        /\ span' = MaxSpan /\ scan' = NoScan /\ pc' = "around"
        /\ UNCHANGED chainVars
    BY DEF Crash
  <1>2. EngineInv /\ DriverTypes /\ EngineTypeOK
    BY TypesSplit DEF ControlInv, EngineInv
  <1>3. EngineInv' /\ EngineTypeOK'
    <2>1. CASE Restart
      BY <1>2, <2>1, RestartKeepsInv DEF EngineInv
    <2>2. CASE StartAfresh
      <3>1. /\ fold' = Genesis /\ cursor' = NoPos /\ ring' = <<>> /\ slots' = <<>>
            /\ status' = "Active" /\ lastVerified' = NoBlock /\ resets' = 0
            /\ NoCall /\ UNCHANGED snap
        BY <2>2 DEF StartAfresh
      <3>2. <<>> \in Seq(BlockRef) /\ Len(<<>>) <= RingCapacity
        OBVIOUS
      <3>3. QED
        BY <1>2, <3>1, <3>2, EmptyEngine, StartOverKeepsInv DEF EngineInv
    <2>3. QED
      BY <1>1, <2>1, <2>2
  <1>4. status' = "Active" /\ ret' = "none"
    BY <1>1 DEF Restart, StartAfresh, NoCall
  <1>5. snap.cursor \in Position \cup {NoPos}
    BY <1>2 DEF EngineTypeOK, Snapshot
  <1>6. DriverTypes'
    BY <1>1, <1>2, <1>5 DEF DriverTypes, chainVars, Blocks
  <1>7. TickTypes'
    BY <1>1, NoScanIs DEF TickTypes
  <1>8. TypeOK'
    BY <1>3, <1>6, <1>7, TypesSplit DEF TypeOK, DriverTypes, TickTypes
  <1>9. TickControl'
    BY <1>1, <1>4 DEF TickControl, Calls, Reading, Closing
  <1>10. CheckpointMarks' /\ CheckpointKept'
    BY <1>1 DEF CheckpointMarks, CheckpointKept, Settled
  <1>11. QED
    BY <1>3, <1>8, <1>9, <1>10 DEF ControlInv

LEMMA AroundControl ==
    ASSUME ControlInv, Around
    PROVE  ControlInv'
  <1>1. /\ pc = "around" /\ durable' = IF After(durable, cursor) THEN NoPos ELSE durable
        /\ AutoCheckpoint /\ pc' = "idle"
        /\ UNCHANGED <<chainVars, lastSnapshot, seenResets, durabilityLost, driverVars, scan, budget>>
    BY DEF Around
  <1>2. /\ EngineInv /\ DriverTypes /\ TickTypes /\ status = "Active" /\ ret # "running"
        /\ leftAt = NoPoint /\ scan = NoScan /\ lastCheckpoint = -1
    BY <1>1, TypesSplit DEF ControlInv, TickControl
  <1>3. lastCheckpoint <= cursor.block /\ MarkServed(lastCheckpoint)
    BY <1>2, CursorIs DEF EngineInv, MarkServed
  <1>4. /\ EngineInv' /\ UNCHANGED <<fold, cursor, ring, status, resets, snap>>
        /\ ret' # "running"
        /\ lastCheckpoint' \in Nat \cup {-1} /\ lastCheckpoint' <= cursor'.block
        /\ MarkServed(lastCheckpoint)'
    BY <1>1, <1>2, <1>3, AutoCheckpointServes
  <1>5. DriverTypes'
    BY <1>1, <1>2, <1>4 DEF DriverTypes, chainVars, driverVars
  <1>6. TypeOK'
    BY <1>1, <1>2, <1>4, <1>5, TypesSplit
      DEF TypeOK, DriverTypes, TickTypes, EngineInv, driverVars
  <1>7. TickControl'
    BY <1>1, <1>2, <1>4 DEF TickControl, Calls, Reading, Closing, driverVars
  <1>8. CheckpointMarks'
    <2>1. Clamp(lastCheckpoint)' = lastCheckpoint'
      BY <1>4 DEF Clamp, Least
    <2>2. MarkServed(Clamp(lastCheckpoint))'
      BY <1>4, <2>1 DEF MarkServed
    <2>3. QED
      BY <1>1, <2>2 DEF CheckpointMarks
  <1>9. CheckpointKept'
    <2>1. leftAt' = NoPoint
      BY <1>1, <1>2 DEF driverVars
    <2>2. EnginePoint' # NoPoint
      BY <1>4 DEF EnginePoint, NoPoint, EngineInv, EngineTypeOK
    <2>3. QED
      BY <2>1, <2>2 DEF CheckpointKept, Settled
  <1>10. QED
    BY <1>4, <1>6, <1>7, <1>8, <1>9 DEF ControlInv

-----------------------------------------------------------------------------
(***************************************************************************)
(* Control: the theorems.                                                  *)
(***************************************************************************)
LEMMA InitControl ==
    ASSUME Init
    PROVE  ControlInv
  <1>1. EngineInv
    BY InitEstablishesInv DEF Init
  <1>2. /\ walked = NoBlock /\ vouched = NoBlock /\ leftAt = NoPoint /\ caughtUp = FALSE
        /\ lastCheckpoint = -1 /\ lastSnapshot = -1 /\ durabilityLost = FALSE
        /\ span = MaxSpan /\ scan = NoScan /\ tick = "none"
        /\ seenResets = 0 /\ durable = NoPos /\ pc = "idle" /\ canon \in Hash
        /\ pruned = FALSE /\ steady = FALSE
        /\ cursor = NoPos /\ ret = "none" /\ status = "Active"
    BY DEF Init, DriverInit, EngineInit, Fresh
  <1>3. TypeOK
    <2>1. DriverTypes
      BY <1>2 DEF DriverTypes, Blocks
    <2>2. TickTypes
      BY <1>2, NoScanIs DEF TickTypes
    <2>3. QED
      BY <1>1, <2>1, <2>2, TypesSplit DEF EngineInv
  <1>4. TickControl
    BY <1>2 DEF TickControl, Calls, Reading, Closing
  <1>5. CheckpointMarks
    BY <1>2 DEF CheckpointMarks, MarkServed, Clamp, Least, NoPos
  <1>6. CheckpointKept
    BY <1>2 DEF CheckpointKept
  <1>7. QED
    BY <1>1, <1>3, <1>4, <1>5, <1>6 DEF ControlInv

LEMMA NextControl ==
    ASSUME ControlInv, [Next]_vars
    PROVE  ControlInv'
  <1>1. CASE Step \/ Scans
    BY <1>1, StepControl, ReadHeadControl, LagCheckControl, ResumeControl, ReadWindowControl,
       ReadBoundaryControl, ReadAnchorControl, RecheckControl DEF Scans
  <1>2. CASE Apply \/ Applied \/ Forked \/ Stopped \/ Unwound
    BY <1>2, ApplyControl, AppliedControl, ForkedControl, StoppedControl, UnwoundControl
  <1>3. CASE FoldWorks \/ FoldFails
    <2>1. /\ pc = "applying" /\ UNCHANGED <<chainVars, markVars, driverVars, pc, scan>>
          /\ FoldAccepts \/ FoldSkips \/ BatchDone \/ FoldHalts \/ FoldPoisons \/ FoldPanics
      BY <1>3 DEF FoldWorks, FoldFails
    <2>2. QED
      BY <2>1, BatchControl
  <1>4. CASE CheckpointRule \/ NoOffer \/ OfferTaken \/ OfferRefused
    BY <1>4, CheckpointRuleControl, NoOfferControl, OfferTakenControl, OfferRefusedControl
  <1>5. CASE Recovers
    BY <1>5, BisectControl, RecoversControl DEF Recovers
  <1>6. CASE SourceFails \/ CallerMovesEngine \/ CallerCheckpoints \/ Crash \/ Around
    BY <1>6, SourceFailsControl, CallerMovesEngineControl, CallerCheckpointsControl,
       CrashControl, AroundControl
  <1>7. CASE CallerTakesSource \/ ChainMoves \/ SourcePrunes \/ HorizonExceedsStart \/ UNCHANGED vars
    BY <1>7, EnvironmentControl DEF HorizonExceedsStart
  <1>8. QED
    BY <1>1, <1>2, <1>3, <1>4, <1>5, <1>6, <1>7 DEF Next, TickStep, Disturbance

\* The control of the driver is an inductive invariant.
THEOREM ControlIsInductive == Spec => []ControlInv
  <1>1. Init => ControlInv
    BY InitControl
  <1>2. ControlInv /\ [Next]_vars => ControlInv'
    BY NextControl
  <1>3. QED
    BY <1>1, <1>2, PTL DEF Spec

\* Every variable of the driver, and of the engine under it, keeps its type: the span of
\* a walk stays between one window and MaxSpan and the bisection inside the ring.
THEOREM DriverTypeCorrect == Spec => []TypeOK
  <1>1. ControlInv => TypeOK
    BY DEF ControlInv
  <1>2. QED
    BY <1>1, ControlIsInductive, PTL

\* The engine keeps its invariant under every batch and every call the driver makes,
\* whatever the source answers: no fork is mixed into the fold, every checkpoint is
\* trusted and every snapshot decodes.
THEOREM EngineKeptByDriver ==
    Spec => [](EngineInv /\ RingTipIsCursor /\ NoForkMixing /\ CheckpointsTrusted /\ SnapshotRestores)
  <1>1. ControlInv => EngineInv /\ RingTipIsCursor /\ NoForkMixing /\ CheckpointsTrusted
                      /\ SnapshotRestores
    <2>1. SUFFICES ASSUME ControlInv
                   PROVE  EngineInv /\ RingTipIsCursor /\ NoForkMixing /\ CheckpointsTrusted
                          /\ SnapshotRestores
      OBVIOUS
    <2>2. EngineInv
      BY <2>1 DEF ControlInv
    <2>3. NoForkMixing
      BY <2>2, IdleFacts DEF NoForkMixing, EngineInv, CallConsistent
    <2>4. QED
      BY <2>2, <2>3 DEF EngineInv
  <1>2. QED
    BY <1>1, ControlIsInductive, PTL

\* After a tick that applied a batch the retained checkpoints reach to within one interval
\* of the cursor, through rollbacks, resets, restarts and forced checkpoints.
THEOREM CheckpointsAreKept == Spec => []CheckpointKept
  <1>1. ControlInv => CheckpointKept
    BY DEF ControlInv
  <1>2. QED
    BY <1>1, ControlIsInductive, PTL

-----------------------------------------------------------------------------
(***************************************************************************)
(* Content: the inductive invariant.                                       *)
(***************************************************************************)
\* The blocks of a ring lie on one chain, at or above the start block.
RingOnChain(r) ==
    \A i \in 1..Len(r) : /\ IsRef(r[i]) /\ StartBlock <= r[i].number
                         /\ r[i].hash \in Chain[Newest(r).hash]

\* The block of the last position handed to the fold.
TipHash == IF done > 0 THEN Head(todo).hash ELSE Newest(ring).hash

\* A fold that is not torn holds its chain up to the last event it was handed.
FoldSoFar == ~fold.torn /\ (done > 0 \/ ring # <<>>) => Complete(fold, Reach, TipHash)

EngineContent ==
    /\ RingOnChain(ring) /\ RingOnChain(snap.ring)
    /\ FoldSoFar
    /\ RestorePointsComplete

\* What the two marks of the driver may claim of the engine.
WalkedClaims(w) ==
    w # NoBlock => /\ IsRef(w) /\ StartBlock <= w.number
                   /\ cursor # NoPos => Newest(ring).hash \in Chain[w.hash]
                   /\ \A e \in EventsOf[w.hash] : ~After(e, cursor)

VouchedClaims(v) ==
    /\ v # NoBlock => IsRef(v)
    /\ v # NoBlock /\ cursor # NoPos =>
         /\ Newest(ring).hash \in Chain[v.hash]
         /\ \A e \in EventsOf[v.hash] : e.block = cursor.block => ~After(e, cursor)

Marks(w, v) ==
    /\ WalkedClaims(w) /\ VouchedClaims(v)
    /\ w # NoBlock /\ v # NoBlock => w.hash \in Chain[v.hash]

\* The marks hold where the driver may use them.  A batch takes the walk's mark away,
\* and gives it back when it folded nothing; a fork clears both.
Marked ==
    /\ pc = "idle" /\ leftAt = EnginePoint => Marks(walked, vouched)
    /\ pc \notin {"idle", "applying"} => Marks(walked, vouched)
    /\ pc = "bisect" => walked = NoBlock /\ vouched = NoBlock
    /\ pc = "applying" =>
         /\ walked = NoBlock
         /\ scan.spans = <<>> \/ ret \in Verdicts => Marks(scan.walked, vouched)

\* The caller can only move the engine back from where the last tick left it.
LeftBehind ==
    leftAt # NoPoint =>
      /\ leftAt.resets <= resets
      /\ leftAt.resets = resets => ~After(cursor, leftAt.cursor)

\* A span of the chain of h, below number.
SpanOfChain(s, h, number) ==
    /\ s.hash \in Chain[h] /\ s.number = Number[s.hash]
    /\ StartBlock <= s.number /\ s.number < number
    /\ \A i \in 1..Len(s.logs) : EventAt(s, i) \in EventsOf[h]

InWalk == pc \in {"window", "boundary", "anchor", "recheck", "apply"}

\* The head of a tick is a block of the tree, and the source's own until the chain moves.
HeadRead ==
    /\ scan.head # NoBlock => IsRef(scan.head)
    /\ steady /\ scan.head # NoBlock => canon = scan.head.hash

\* A head below what was read is lagging, or an observed block at or below it has left.
Lags ==
    /\ pc \in {"lag", "resume"} => scan = [NoScan EXCEPT !.head = scan.head]
    /\ pc = "lag" => scan.head.number < Floor
    /\ pc = "resume" /\ scan.head.number < Floor /\ ~Left =>
         \E k \in 1..Len(ring) : /\ ring[k].number <= scan.head.number
                                 /\ ring[k].hash \notin Chain[scan.head.hash]

\* Where the walk of a tick stands.
WalkBounds ==
    InWalk =>
      /\ StartBlock <= scan.from /\ scan.end <= scan.head.number
      /\ cursor.block <= scan.from
      /\ scan.resumed => cursor.block < scan.from
      /\ (scan.spans # <<>> \/ scan.end < scan.head.number) /\ pc # "window" =>
           /\ StartBlock < scan.from /\ cursor.block < scan.from /\ scan.from <= scan.end + 1
      /\ pc = "window" => scan.spans = <<>>
      /\ pc # "window" /\ scan.spans = <<>> => scan.end < scan.from

\* What the walk asked for besides events.
WalkAnswers ==
    /\ InWalk =>
         /\ scan.boundary # NoBlock => IsRef(scan.boundary) /\ scan.boundary.number = cursor.block
         /\ pc \in {"window", "boundary", "anchor"} => scan.anchor = NoBlock
         /\ pc = "anchor" => scan.spans = <<>> /\ scan.end < scan.head.number
    /\ (InWalk \/ pc = "applying") /\ scan.anchor # NoBlock =>
         /\ scan.spans = <<>> /\ scan.end < scan.head.number
         /\ IsRef(scan.anchor) /\ scan.anchor.number = scan.end
    /\ pc \in {"apply", "applying"} =>
         /\ ~NothingNew => ~Left
         /\ NothingNew => scan.end = scan.head.number

WalkControl == HeadRead /\ Lags /\ WalkBounds /\ WalkAnswers

\* Every event of the chain of h below number and after p is among the spans.
AllAmong(h, number, p, spans) ==
    \A e \in EventsOf[h] : e.block < number /\ After(e, p) => Among(e, spans)

\* Until the head leaves the source's chain, what was read is its chain's.
WalkContent ==
    InWalk /\ ~Left =>
      /\ scan.resumed /\ cursor # NoPos => Newest(ring).hash \in Chain[scan.head.hash]
      /\ scan.boundary # NoBlock /\ (cursor.block <= scan.head.number \/ steady)
           => scan.boundary.hash \in Chain[scan.head.hash]
      /\ scan.anchor # NoBlock => scan.anchor.hash \in Chain[scan.head.hash]
      /\ \A k \in 1..Len(scan.spans) : SpanOfChain(scan.spans[k], scan.head.hash, scan.from)
      /\ AllAmong(scan.head.hash, scan.from, cursor, scan.spans)

\* The tick applies what it read to an engine on the same chain.
Trusted == ~NothingNew \/ steady

\* The event is still to be consumed.
Pending(e) ==
    \E k \in 1..Len(todo) : \E j \in 1..Len(todo[k].logs) :
        e = EventAt(todo[k], j) /\ (k = 1 => done < j)

BatchOnChain ==
    /\ cursor # NoPos => Newest(ring).hash \in Chain[scan.head.hash]
    /\ \A k \in 1..Len(todo) : SpanOfChain(todo[k], scan.head.hash, scan.from)
    /\ \A e \in EventsOf[scan.head.hash] : e.block < scan.from /\ After(e, Reach) => Pending(e)
    /\ scan.anchor # NoBlock => scan.anchor.hash \in Chain[scan.head.hash]

InBatch == pc = "applying" /\ ret \in {"running", "ok"}

BatchContent ==
    InBatch =>
      /\ scan.spans = <<>> => todo = <<>>
      /\ \A i, j \in 1..Len(todo) : i < j => todo[i].number < todo[j].number
      /\ Trusted => BatchOnChain
      /\ ~NothingNew => cursor.block < scan.from
      /\ NothingNew => scan.end < scan.from
      /\ scan.anchor # NoBlock =>
           cursor.block <= scan.end /\ scan.end < scan.from /\ StartBlock <= scan.end

\* A tick that found nothing new under a head that stayed.
CaughtUpSoon ==
    pc \in Closing /\ NothingNew /\ steady => Holds(fold, EventsOf[canon])

\* The bisection has the observed blocks of the source's chain below it.
Bisecting ==
    pc = "bisect" /\ steady =>
      \A k \in 1..Len(ring) : /\ k <= scan.lo => ring[k].hash \in Chain[canon]
                              /\ scan.hi < k => ring[k].hash \notin Chain[canon]

ContentInv ==
    /\ EngineContent /\ Marked /\ LeftBehind
    /\ WalkControl /\ WalkContent /\ BatchContent
    /\ CaughtUpSoon /\ CaughtUpMeansFolded /\ Bisecting

-----------------------------------------------------------------------------
(***************************************************************************)
(* What a fold holds.                                                      *)
(***************************************************************************)
Contents(f) == {f.events[i] : i \in 1..Len(f.events)} \ Foreign
UpTo(c, h) == {e \in EventsOf[h] : ~After(e, c)}

LEMMA HoldsIs ==
    ASSUME NEW f, NEW c, NEW r, FoldsOneChain(f, c, r), NEW events
    PROVE  Holds(f, events) <=> Contents(f) = events \ Foreign
  BY DEF Holds, FoldsOneChain, Contents

LEMMA CompleteIs ==
    ASSUME NEW f, NEW c, NEW r, FoldsOneChain(f, c, r), NEW h
    PROVE  Complete(f, c, h) <=> Contents(f) = UpTo(c, h) \ Foreign
  BY HoldsIs DEF Complete, UpTo

LEMMA EventsAreEvents ==
    ASSUME NEW h \in Hash, NEW e \in EventsOf[h]
    PROVE  /\ e \in Event /\ Point(e) /\ e.block \in Nat /\ StartBlock <= e.block
           /\ e.hash \in Chain[h] /\ After(e, NoPos)
  <1>1. e \in Event /\ StartBlock <= e.block /\ e.hash \in Chain[h]
    BY EventsOfAre
  <1>2. Point(e) /\ e.block \in Nat
    BY <1>1 DEF Event, Point
  <1>3. QED
    BY <1>1, <1>2 DEF After, NoPos

\* Before the first event there is nothing.
LEMMA EmptyIs ==
    ASSUME NEW f \in Fold, NEW r, FoldsOneChain(f, NoPos, r)
    PROVE  f = Genesis /\ Contents(f) = {}
  <1>1. f.events \in Seq(Event) /\ f.torn \in BOOLEAN /\ ~f.torn
        /\ f = [events |-> f.events, torn |-> f.torn]
    BY DEF Fold, FoldsOneChain
  <1>2. Len(f.events) = 0
    <2>1. SUFFICES ASSUME Len(f.events) # 0
                   PROVE  FALSE
      OBVIOUS
    <2>2. 1 \in 1..Len(f.events)
      BY <1>1, <2>1
    <2>3. f.events[1] \in Event /\ ~After(f.events[1], NoPos)
      BY <1>1, <2>2 DEF FoldsOneChain
    <2>4. QED
      BY <2>3 DEF After, NoPos, Event
  <1>3. f.events = <<>>
    BY <1>1, <1>2
  <1>4. QED
    BY <1>1, <1>2, <1>3 DEF Genesis, Contents

LEMMA NothingUpToNoPos ==
    ASSUME NEW h \in Hash
    PROVE  UpTo(NoPos, h) = {}
  BY EventsAreEvents DEF UpTo

\* Up to a position at or below both, two blocks of one chain have one content.
LEMMA UpToAgrees ==
    ASSUME NEW h \in Hash, NEW a \in Chain[h], NEW b \in Chain[h],
           NEW c \in Position \cup {NoPos}, c.block <= Number[a], c.block <= Number[b]
    PROVE  UpTo(c, a) = UpTo(c, b)
  <1>1. c.block \in Int
    BY PointsCompare DEF Point
  <1>2. QED
    BY <1>1, EventsAgree DEF UpTo

-----------------------------------------------------------------------------
(***************************************************************************)
(* Rings on a chain.                                                       *)
(***************************************************************************)
\* An observed block is a block of the tree, and so are the older ones on its chain.
LEMMA RingBlocks ==
    ASSUME NEW r \in Seq(BlockRef), NEW c \in Position \cup {NoPos}, RingEndsAt(r, c),
           RingOnChain(r)
    PROVE  /\ \A i \in 1..Len(r) :
                /\ r[i] \in BlockRef /\ r[i].hash \in Hash /\ IsRef(r[i])
                /\ Number[r[i].hash] = r[i].number /\ r[i].number \in Nat
                /\ StartBlock <= r[i].number
           /\ \A i, j \in 1..Len(r) : i <= j =>
                /\ r[i].hash \in Chain[r[j].hash] /\ r[i].number <= r[j].number
           /\ r # <<>> => /\ Len(r) \in 1..Len(r) /\ Newest(r) = r[Len(r)]
                          /\ Newest(r).hash \in Hash /\ Newest(r).number = c.block
                          /\ Number[Newest(r).hash] = c.block
                          /\ StartBlock <= c.block
  <1>1. \A i \in 1..Len(r) :
          /\ r[i] \in BlockRef /\ r[i].hash \in Hash /\ IsRef(r[i])
          /\ Number[r[i].hash] = r[i].number /\ r[i].number \in Nat
          /\ StartBlock <= r[i].number
    <2>1. SUFFICES ASSUME NEW i \in 1..Len(r)
                   PROVE  /\ r[i] \in BlockRef /\ r[i].hash \in Hash /\ IsRef(r[i])
                          /\ Number[r[i].hash] = r[i].number /\ r[i].number \in Nat
                          /\ StartBlock <= r[i].number
      OBVIOUS
    <2>2. r[i] \in BlockRef /\ IsRef(r[i]) /\ StartBlock <= r[i].number
      BY <2>1 DEF RingOnChain
    <2>3. QED
      BY <2>2 DEF BlockRef, IsRef
  <1>2. r # <<>> => Len(r) \in 1..Len(r) /\ Newest(r) = r[Len(r)]
    BY DEF Newest
  <1>3. ASSUME NEW i \in 1..Len(r), NEW j \in 1..Len(r), i <= j
        PROVE  r[i].hash \in Chain[r[j].hash] /\ r[i].number <= r[j].number
    <2>1. r[i].number <= r[j].number
      BY <1>1, <1>3 DEF RingEndsAt
    <2>2. r # <<>>
      OBVIOUS
    <2>3. Newest(r).hash \in Hash
      BY <1>1, <1>2, <2>2
    <2>4. r[i].hash \in Chain[Newest(r).hash] /\ r[j].hash \in Chain[Newest(r).hash]
      BY DEF RingOnChain
    <2>5. Number[r[i].hash] <= Number[r[j].hash]
      BY <1>1, <2>1
    <2>6. QED
      BY <2>1, <2>3, <2>4, <2>5, ChainIsLinear
  <1>4. r # <<>> => Newest(r).number = c.block
    BY DEF RingEndsAt
  <1>5. QED
    BY <1>1, <1>2, <1>3, <1>4

\* q is the part of the ring r up to p: a ring on the same chain.
PrefixUpTo(q, r, p) ==
    /\ q \in Seq(BlockRef) /\ RingEndsAt(q, p) /\ RingOnChain(q)
    /\ q # <<>> => /\ r # <<>> /\ Newest(q).hash \in Chain[Newest(r).hash]
                   /\ Newest(q).hash \in Hash /\ Number[Newest(q).hash] = p.block

LEMMA RingPrefix ==
    ASSUME NEW r \in Seq(BlockRef), Len(r) <= RingCapacity,
           NEW c \in Position \cup {NoPos}, RingEndsAt(r, c), RingOnChain(r),
           NEW p \in Position \cup {NoPos}, p = NoPos \/ Observes(r, p.block),
           NEW m \in 0..Len(r), AtOrBelow(r, p.block, m)
    PROVE  PrefixUpTo(SubSeq(r, 1, m), r, p)
  <1> DEFINE q == SubSeq(r, 1, m)
  <1>1. /\ q \in Seq(BlockRef) /\ RingEndsAt(q, p)
        /\ \A k \in 1..Len(q) : k \in 1..Len(r) /\ q[k] = r[k]
    BY TruncatedEndsAtCursor
  <1> HIDE DEF q
  <1>2. /\ \A i \in 1..Len(r) : /\ r[i].hash \in Hash /\ IsRef(r[i])
                                /\ Number[r[i].hash] = r[i].number /\ StartBlock <= r[i].number
        /\ \A i, j \in 1..Len(r) : i <= j => r[i].hash \in Chain[r[j].hash]
    BY RingBlocks
  <1>3. q # <<>> => Len(q) \in 1..Len(q) /\ Newest(q) = q[Len(q)] /\ Len(q) \in 1..Len(r)
    BY <1>1 DEF Newest
  <1>4. RingOnChain(q)
    <2>1. SUFFICES ASSUME NEW i \in 1..Len(q)
                   PROVE  /\ IsRef(q[i]) /\ StartBlock <= q[i].number
                          /\ q[i].hash \in Chain[Newest(q).hash]
      BY DEF RingOnChain
    <2>2. q # <<>> /\ i <= Len(q) /\ i \in 1..Len(r) /\ q[i] = r[i]
      BY <1>1
    <2>3. Newest(q) = r[Len(q)]
      BY <1>1, <1>3, <2>2
    <2>4. QED
      BY <1>2, <1>3, <2>2, <2>3
  <1>5. ASSUME q # <<>>
        PROVE  /\ r # <<>> /\ Newest(q).hash \in Chain[Newest(r).hash]
               /\ Newest(q).hash \in Hash /\ Number[Newest(q).hash] = p.block
    <2>1. Newest(q) = r[Len(q)] /\ Len(q) \in 1..Len(r) /\ Newest(q).number = p.block
      BY <1>1, <1>3, <1>5 DEF RingEndsAt
    <2>2. r # <<>> /\ Newest(r) = r[Len(r)] /\ Len(r) \in 1..Len(r) /\ Len(q) <= Len(r)
      BY <2>1 DEF Newest
    <2>3. QED
      BY <1>2, <2>1, <2>2
  <1>6. PrefixUpTo(q, r, p)
    BY <1>1, <1>4, <1>5 DEF PrefixUpTo
  <1>7. QED
    BY <1>6 DEF q

-----------------------------------------------------------------------------
(***************************************************************************)
(* The engine's content, call by call.                                     *)
(***************************************************************************)
\* A slot holds its chain up to its cursor, and no slot is ahead of an empty ring.
SlotComplete(slot, r) ==
    /\ slot.cursor = NoPos \/ r # <<>>
    /\ r # <<>> => Complete(slot.fold, slot.cursor, Newest(r).hash)

SnapComplete(s) == s.ring # <<>> => Complete(s.fold, s.cursor, Newest(s.ring).hash)

LEMMA RestorePointsSplit ==
    RestorePointsComplete <=>
      (\A i \in 1..Len(slots) : SlotComplete(slots[i], ring)) /\ SnapComplete(snap)
  BY DEF RestorePointsComplete, SlotComplete, SnapComplete

LEMMA ContentFacts ==
    ASSUME EngineInv, EngineContent
    PROVE  /\ ring \in Seq(BlockRef) /\ cursor \in Position \cup {NoPos} /\ RingEndsAt(ring, cursor)
           /\ RingOnChain(ring) /\ (ring = <<>> <=> cursor = NoPos) /\ Len(ring) <= RingCapacity
           /\ ring # <<>> =>
                /\ Newest(ring).hash \in Hash /\ Number[Newest(ring).hash] = cursor.block
                /\ StartBlock <= cursor.block /\ cursor.block \in Nat
                /\ Newest(ring).number = cursor.block
           /\ \A i \in 1..Len(slots) : SlotComplete(slots[i], ring)
           /\ SnapComplete(snap)
  <1>1. /\ ring \in Seq(BlockRef) /\ cursor \in Position \cup {NoPos} /\ RingEndsAt(ring, cursor)
        /\ RingOnChain(ring) /\ Len(ring) <= RingCapacity
    BY DEF EngineInv, EngineTypeOK, RingTipIsCursor, EngineContent
  <1>2. ring = <<>> <=> cursor = NoPos
    BY <1>1 DEF RingEndsAt
  <1>3. ring # <<>> => /\ Newest(ring).hash \in Hash /\ Number[Newest(ring).hash] = cursor.block
                       /\ StartBlock <= cursor.block /\ Newest(ring).number = cursor.block
    BY <1>1, RingBlocks
  <1>4. ring # <<>> => cursor.block \in Nat
    BY <1>1, <1>2 DEF Position
  <1>5. (\A i \in 1..Len(slots) : SlotComplete(slots[i], ring)) /\ SnapComplete(snap)
    BY RestorePointsSplit DEF EngineContent
  <1>6. QED
    BY <1>1, <1>2, <1>3, <1>4, <1>5

\* A slot's content does not depend on which block of the chain above it is named.
LEMMA SlotMoves ==
    ASSUME NEW slot \in Slot, NEW r, FoldsOneChain(slot.fold, slot.cursor, r),
           NEW h \in Hash, NEW a \in Chain[h], NEW b \in Chain[h],
           slot.cursor.block <= Number[a], slot.cursor.block <= Number[b],
           Complete(slot.fold, slot.cursor, a)
    PROVE  Complete(slot.fold, slot.cursor, b)
  <1>1. slot.cursor \in Position \cup {NoPos}
    BY DEF Slot
  <1>2. UpTo(slot.cursor, a) = UpTo(slot.cursor, b)
    BY <1>1, UpToAgrees
  <1>3. QED
    BY <1>2, CompleteIs

\* A slot from before the first event holds every chain up to there.
LEMMA EmptySlot ==
    ASSUME NEW slot \in Slot, NEW r, FoldsOneChain(slot.fold, slot.cursor, r), slot.cursor = NoPos,
           NEW h \in Hash
    PROVE  Complete(slot.fold, slot.cursor, h) /\ slot.fold = Genesis
  <1>1. slot.fold \in Fold
    BY DEF Slot
  <1>2. slot.fold = Genesis /\ Contents(slot.fold) = {}
    BY <1>1, EmptyIs
  <1>3. QED
    BY <1>2, NothingUpToNoPos, CompleteIs

LEMMA EngineStays ==
    ASSUME EngineContent, UNCHANGED <<fold, cursor, ring, slots, snap>>,
           UNCHANGED <<todo, done>> \/ (done = 0 /\ done' = 0)
    PROVE  EngineContent'
  <1>1. UNCHANGED <<Reach, TipHash, done>>
    BY DEF Reach, TipHash
  <1>2. RingOnChain(ring)' /\ RingOnChain(snap.ring)'
    BY DEF EngineContent
  <1>3. FoldSoFar'
    BY <1>1 DEF EngineContent, FoldSoFar
  <1>4. RestorePointsComplete'
    BY DEF EngineContent, RestorePointsComplete
  <1>5. QED
    BY <1>2, <1>3, <1>4 DEF EngineContent

\* What an idle engine that is not torn holds.
LEMMA IdleContent ==
    ASSUME EngineInv, EngineContent, Idle, status # "Poisoned"
    PROVE  /\ ~fold.torn /\ done = 0 /\ FoldsOneChain(fold, cursor, ring) /\ fold \in Fold
           /\ ring # <<>> => /\ Complete(fold, cursor, Newest(ring).hash)
                             /\ Contents(fold) = UpTo(cursor, Newest(ring).hash) \ Foreign
           /\ ring = <<>> => fold = Genesis /\ Contents(fold) = {}
  <1>1. ~fold.torn /\ fold \in Fold
    BY DEF EngineInv, EngineTypeOK, CallConsistent
  <1>2. done = 0 /\ Reach = cursor /\ FoldsOneChain(fold, cursor, ring)
    BY <1>1, IdleFacts
  <1>3. ring # <<>> => Complete(fold, cursor, Newest(ring).hash)
    BY <1>1, <1>2 DEF EngineContent, FoldSoFar, TipHash
  <1>4. ring = <<>> => cursor = NoPos
    BY ContentFacts
  <1>5. QED
    BY <1>1, <1>2, <1>3, <1>4, EmptyIs, CompleteIs

LEMMA StoreEntries ==
    ASSUME NEW s \in Seq(Slot), Len(s) <= CheckpointSlots, NEW slot \in Slot,
           NEW t, t = Store(s, slot), NEW k \in 1..Len(t)
    PROVE  t[k] = slot \/ \E j \in 1..Len(s) : t[k] = s[j]
  <1>1. CASE CheckpointSlots = 0
    BY <1>1 DEF Store
  <1>2. CASE CheckpointSlots # 0 /\ Len(s) < CheckpointSlots
    BY <1>2 DEF Store
  <1>3. CASE CheckpointSlots # 0 /\ ~(Len(s) < CheckpointSlots)
    <2>1. t = Append(Tail(s), slot)
      BY <1>3 DEF Store
    <2>2. s # <<>> /\ Len(s) \in Nat
      BY <1>3
    <2>3. /\ Tail(s) \in Seq(Slot) /\ Len(Tail(s)) = Len(s) - 1
          /\ \A j \in 1..(Len(s) - 1) : Tail(s)[j] = s[j + 1]
      BY <2>2
    <2>4. Len(t) = Len(s) /\ t[Len(s)] = slot /\ \A j \in 1..(Len(s) - 1) : t[j] = Tail(s)[j]
      BY <2>1, <2>2, <2>3
    <2>5. CASE k = Len(s)
      BY <2>4, <2>5
    <2>6. CASE k # Len(s)
      <3>1. k \in 1..(Len(s) - 1) /\ k + 1 \in 1..Len(s)
        BY <2>2, <2>4, <2>6
      <3>2. t[k] = s[k + 1]
        BY <2>3, <2>4, <3>1
      <3>3. QED
        BY <3>1, <3>2
    <2>7. QED
      BY <2>5, <2>6
  <1>4. QED
    BY <1>1, <1>2, <1>3

LEMMA CheckpointContent ==
    ASSUME EngineInv, EngineContent, Checkpoint
    PROVE  EngineContent'
  <1> DEFINE slot == [fold |-> fold, cursor |-> cursor]
  <1>1. /\ Idle /\ UNCHANGED <<fold, cursor, ring, status, snap>> /\ done' = 0
        /\ slots' = IF status = "Active" THEN Store(slots, slot) ELSE slots
    BY DEF Checkpoint, NoCall
  <1>2. done = 0
    BY <1>1, IdleFacts
  <1>3. UNCHANGED <<Reach, TipHash, done>>
    BY <1>1, <1>2 DEF Reach, TipHash
  <1>4. FoldSoFar' /\ RingOnChain(ring)' /\ RingOnChain(snap.ring)'
    BY <1>1, <1>3 DEF EngineContent, FoldSoFar
  <1>5. \A k \in 1..Len(slots') : SlotComplete(slots'[k], ring)
    <2>1. CASE status = "Active"
      <3>1. SlotComplete(slot, ring) /\ slot \in Slot
        <4>1. ring # <<>> => Complete(fold, cursor, Newest(ring).hash)
          BY <1>1, <2>1, IdleContent
        <4>2. cursor = NoPos \/ ring # <<>>
          BY ContentFacts
        <4>3. slot \in Slot
          BY DEF EngineInv, EngineTypeOK, Slot
        <4>4. QED
          BY <4>1, <4>2, <4>3 DEF SlotComplete
      <3>2. slots \in Seq(Slot) /\ Len(slots) <= CheckpointSlots
        BY DEF EngineInv, EngineTypeOK
      <3>3. slots' = Store(slots, slot)
        BY <1>1, <2>1
      <3>4. QED
        BY <3>1, <3>2, <3>3, StoreEntries, ContentFacts
    <2>2. CASE status # "Active"
      BY <1>1, <2>2, ContentFacts
    <2>3. QED
      BY <2>1, <2>2
  <1>6. SnapComplete(snap)
    BY ContentFacts
  <1>7. RestorePointsComplete'
    BY <1>1, <1>5, <1>6, RestorePointsSplit DEF RestorePointsComplete, SlotComplete, SnapComplete
  <1>8. QED
    BY <1>4, <1>7 DEF EngineContent

\* A slot that the ring can serve, against the part of the ring up to it.
LEMMA SlotAgainstPrefix ==
    ASSUME EngineInv, EngineContent, NEW i \in 1..Len(slots), Live(slots[i]),
           NEW m \in 0..Len(ring), AtOrBelow(ring, slots[i].cursor.block, m),
           NEW q, q = SubSeq(ring, 1, m), NEW j \in 1..Len(slots), j <= i
    PROVE  /\ q \in Seq(BlockRef) /\ RingEndsAt(q, slots[i].cursor) /\ RingOnChain(q)
           /\ SlotComplete(slots[j], q)
  <1>1. /\ ring \in Seq(BlockRef) /\ cursor \in Position \cup {NoPos} /\ RingEndsAt(ring, cursor)
        /\ RingOnChain(ring) /\ Len(ring) <= RingCapacity
        /\ ring # <<>> => Newest(ring).hash \in Hash /\ Number[Newest(ring).hash] = cursor.block
        /\ SlotComplete(slots[j], ring)
    BY ContentFacts
  <1>2. /\ slots[i].cursor \in Position \cup {NoPos} /\ Point(slots[i].cursor)
        /\ slots[j] \in Slot /\ slots[j].cursor \in Position \cup {NoPos} /\ Point(slots[j].cursor)
        /\ FoldsOneChain(slots[j].fold, slots[j].cursor, ring)
        /\ ~After(slots[i].cursor, cursor) /\ ~After(slots[j].cursor, cursor)
    BY SlotEntries
  <1>3. ~After(slots[j].cursor, slots[i].cursor)
    <2>1. CASE j = i
      BY <1>2, <2>1, AfterTransitive
    <2>2. CASE j < i
      BY <2>2 DEF EngineInv, CheckpointsTrusted
    <2>3. QED
      BY <2>1, <2>2
  <1>4. slots[j].cursor.block <= slots[i].cursor.block /\ slots[i].cursor.block <= cursor.block
        /\ slots[j].cursor.block \in Int /\ slots[i].cursor.block \in Int
    BY <1>1, <1>2, <1>3, PointsCompare DEF After, Point
  <1>5. /\ q \in Seq(BlockRef) /\ RingEndsAt(q, slots[i].cursor) /\ RingOnChain(q)
        /\ q # <<>> => /\ ring # <<>> /\ Newest(q).hash \in Chain[Newest(ring).hash]
                       /\ Newest(q).hash \in Hash /\ Number[Newest(q).hash] = slots[i].cursor.block
    <2> DEFINE p == slots[i].cursor
    <2>1. /\ p \in Position \cup {NoPos} /\ AtOrBelow(ring, p.block, m)
          /\ p = NoPos \/ Observes(ring, p.block)
      BY <1>2 DEF Live
    <2>2. /\ ring \in Seq(BlockRef) /\ cursor \in Position \cup {NoPos} /\ RingEndsAt(ring, cursor)
          /\ RingOnChain(ring) /\ Len(ring) <= RingCapacity
      BY <1>1
    <2> HIDE DEF p
    <2>3. PrefixUpTo(q, ring, p)
      BY <2>1, <2>2, RingPrefix
    <2>4. QED
      BY <2>3 DEF p, PrefixUpTo
  <1>6. slots[j].cursor = NoPos \/ q # <<>>
    <2>1. SUFFICES ASSUME q = <<>>
                   PROVE  slots[j].cursor = NoPos
      OBVIOUS
    <2>2. slots[i].cursor = NoPos
      BY <1>5, <2>1 DEF RingEndsAt
    <2>3. slots[j].cursor.block < 0
      BY <1>4, <2>2 DEF NoPos
    <2>4. QED
      BY <1>2, <2>3, PointsCompare
  <1>7. ASSUME q # <<>>
        PROVE  Complete(slots[j].fold, slots[j].cursor, Newest(q).hash)
    <2>1. /\ ring # <<>> /\ Newest(q).hash \in Chain[Newest(ring).hash] /\ Newest(q).hash \in Hash
          /\ Number[Newest(q).hash] = slots[i].cursor.block
      BY <1>5, <1>7
    <2>2. /\ Newest(ring).hash \in Hash /\ Number[Newest(ring).hash] = cursor.block
          /\ Complete(slots[j].fold, slots[j].cursor, Newest(ring).hash)
      BY <1>1, <2>1 DEF SlotComplete
    <2>3. Newest(ring).hash \in Chain[Newest(ring).hash]
      BY <2>2, ChainHolds
    <2>4. slots[j].cursor.block <= Number[Newest(q).hash]
          /\ slots[j].cursor.block <= Number[Newest(ring).hash]
      BY <1>1, <1>4, <2>1, <2>2, PointsCompare DEF Point
    <2>5. QED
      BY <1>2, <2>1, <2>2, <2>3, <2>4, SlotMoves
  <1>8. QED
    BY <1>5, <1>6, <1>7 DEF SlotComplete

LEMMA RollbackContent ==
    ASSUME EngineInv, EngineContent, NEW block \in Nat, Rollback(block)
    PROVE  EngineContent'
  <1>1. PICK i \in 1..Len(slots), m \in 0..Len(ring) :
          /\ Serves(i, block)
          /\ fold' = slots[i].fold /\ cursor' = slots[i].cursor
          /\ AtOrBelow(ring, slots[i].cursor.block, m) /\ ring' = SubSeq(ring, 1, m)
          /\ slots' \in Seq(Slot) /\ Len(slots') = i
          /\ \A k \in 1..i : slots'[k] = slots[k]
    BY RollbackRestores
  <1>2. done' = 0 /\ UNCHANGED snap /\ Live(slots[i])
    BY <1>1 DEF Rollback, NoCall, Serves
  <1>3. \A j \in 1..Len(slots) : j <= i => SlotComplete(slots[j], ring')
    BY <1>1, <1>2, SlotAgainstPrefix
  <1>4. RingOnChain(ring')
    <2>1. i <= i
      OBVIOUS
    <2>2. QED
      BY <1>1, <1>2, <2>1, SlotAgainstPrefix
  <1>5. FoldSoFar'
    <2>1. Reach' = cursor' /\ TipHash' = Newest(ring').hash
      BY <1>2 DEF Reach, TipHash
    <2>2. SlotComplete(slots[i], ring')
      BY <1>3
    <2>3. QED
      BY <1>1, <1>2, <2>1, <2>2 DEF FoldSoFar, SlotComplete
  <1>6. \A k \in 1..Len(slots') : SlotComplete(slots'[k], ring')
    BY <1>1, <1>3
  <1>7. RestorePointsComplete'
    BY <1>2, <1>6, ContentFacts DEF RestorePointsComplete, SlotComplete, SnapComplete
  <1>8. QED
    BY <1>2, <1>4, <1>5, <1>7 DEF EngineContent

\* Engine::new and reset.
LEMMA FreshContent ==
    ASSUME EngineContent, ring' = <<>>, slots' = <<>>, done' = 0, UNCHANGED snap
    PROVE  EngineContent'
  <1>1. RingOnChain(ring)' /\ RingOnChain(snap.ring)'
    BY DEF RingOnChain, EngineContent
  <1>2. FoldSoFar'
    BY DEF FoldSoFar
  <1>3. RestorePointsComplete'
    BY DEF RestorePointsComplete, EngineContent
  <1>4. QED
    BY <1>1, <1>2, <1>3 DEF EngineContent

LEMMA RestartContent ==
    ASSUME EngineContent, Restart
    PROVE  EngineContent'
  <1>1. /\ fold' = snap.fold /\ cursor' = snap.cursor /\ ring' = snap.ring /\ slots' = <<>>
        /\ done' = 0 /\ UNCHANGED snap
    BY DEF Restart, NoCall
  <1>2. RingOnChain(ring)' /\ RingOnChain(snap.ring)'
    BY <1>1 DEF EngineContent
  <1>3. FoldSoFar'
    BY <1>1 DEF FoldSoFar, Reach, TipHash, EngineContent, RestorePointsComplete
  <1>4. RestorePointsComplete'
    BY <1>1 DEF RestorePointsComplete, EngineContent
  <1>5. QED
    BY <1>2, <1>3, <1>4 DEF EngineContent

LEMMA EncodeDurableContent ==
    ASSUME EngineInv, EngineContent, EncodeDurableSnapshot
    PROVE  EngineContent'
  <1>1. PICK i \in 1..Len(slots), m \in 0..Len(ring) :
          /\ IsOldest(i) /\ AtOrBelow(ring, slots[i].cursor.block, m)
          /\ snap' = [fold |-> slots[i].fold, cursor |-> slots[i].cursor,
                      ring |-> SubSeq(ring, 1, m)]
    BY DEF EncodeDurableSnapshot
  <1>2. /\ Idle /\ UNCHANGED <<fold, cursor, ring, slots>> /\ done' = 0
    BY DEF EncodeDurableSnapshot, NoCall
  <1>3. Live(slots[i]) /\ i <= i
    BY <1>1 DEF IsOldest
  <1>4. RingOnChain(snap'.ring) /\ SlotComplete(slots[i], snap'.ring)
    BY <1>1, <1>3, SlotAgainstPrefix
  <1>5. SnapComplete(snap')
    BY <1>1, <1>4 DEF SnapComplete, SlotComplete
  <1>6. done = 0
    BY <1>2, IdleFacts
  <1>7. FoldSoFar' /\ RingOnChain(ring)'
    BY <1>2, <1>6 DEF EngineContent, FoldSoFar, Reach, TipHash
  <1>8. RestorePointsComplete'
    BY <1>2, <1>5, ContentFacts DEF RestorePointsComplete, SlotComplete, SnapComplete
  <1>9. QED
    BY <1>4, <1>7, <1>8 DEF EngineContent

-----------------------------------------------------------------------------
(***************************************************************************)
(* The batch, event by event.                                              *)
(***************************************************************************)
\* Neighbours that ascend make the whole sequence ascend.
LEMMA AscendingPairs ==
    ASSUME NEW s \in Seq(Nat), Ascending(s), NEW i \in 1..Len(s), NEW j \in 1..Len(s), i < j
    PROVE  s[i] < s[j]
  <1> DEFINE Bad == {d \in Nat : \E k \in 1..Len(s) : d > 0 /\ k + d \in 1..Len(s) /\ ~(s[k] < s[k + d])}
  <1>1. Bad = {}
    <2>1. SUFFICES ASSUME Bad # {}
                   PROVE  FALSE
      OBVIOUS
    <2>2. Bad \in SUBSET Nat
      OBVIOUS
    <2>3. PICK d \in Bad : \A m \in Bad : d <= m
      BY <2>1, <2>2, LeastNumber
    <2> HIDE DEF Bad
    <2>4. PICK k \in 1..Len(s) : d \in Nat /\ d > 0 /\ k + d \in 1..Len(s) /\ ~(s[k] < s[k + d])
      BY DEF Bad
    <2>5. \A n \in 1..Len(s) : s[n] \in Nat
      OBVIOUS
    <2>6. CASE d = 1
      <3>1. k \in 1..(Len(s) - 1)
        BY <2>4, <2>6
      <3>2. QED
        BY <2>4, <2>6, <3>1 DEF Ascending
    <2>7. CASE d # 1
      <3>1. d - 1 \in Nat /\ d - 1 > 0 /\ k + (d - 1) \in 1..Len(s) /\ ~(d <= d - 1)
        BY <2>4, <2>7
      <3>2. d - 1 \notin Bad
        BY <2>3, <3>1
      <3>3. s[k] < s[k + (d - 1)]
        BY <2>4, <3>1, <3>2 DEF Bad
      <3>4. PICK m \in 1..(Len(s) - 1) : m = k + (d - 1) /\ m + 1 = k + d
        BY <2>4, <3>1
      <3>5. s[m] < s[m + 1]
        BY <3>4 DEF Ascending
      <3>6. s[k] \in Nat /\ s[m] \in Nat /\ s[k + d] \in Nat
        BY <2>4, <2>5, <3>1, <3>4
      <3>7. QED
        BY <2>4, <3>3, <3>4, <3>5, <3>6
    <2>8. QED
      BY <2>6, <2>7
  <1>2. j - i \in Nat /\ j - i > 0 /\ i + (j - i) = j
    OBVIOUS
  <1>3. j - i \notin Bad
    BY <1>1
  <1> HIDE DEF Bad
  <1>4. QED
    BY <1>2, <1>3 DEF Bad

\* The numbers of a valid batch ascend.
LEMMA ValidAscends ==
    ASSUME NEW b \in Batch, Validate(b), NEW i \in 1..Len(b.spans), NEW j \in 1..Len(b.spans), i < j
    PROVE  b.spans[i].number < b.spans[j].number
  <1> DEFINE n == Len(b.spans)
             v == [k \in 1..n |-> b.spans[k].number]
  <1>1. b.spans \in Seq(Span) /\ n \in Nat
    BY DEF Batch
  <1>2. \A k \in 1..n : b.spans[k].number \in Nat
    <2>1. \A k \in 1..n : b.spans[k] \in Span
      BY <1>1
    <2>2. QED
      BY <2>1 DEF Span
  <1>3. v \in Seq(Nat) /\ Len(v) = n
    BY <1>1, <1>2
  <1>4. Ascending(v)
    BY <1>1, <1>3 DEF Ascending, Validate
  <1>5. v[i] < v[j]
    BY <1>3, <1>4, AscendingPairs
  <1>6. QED
    BY <1>5

\* The span a batch is at.
LEMMA AtSpanFacts ==
    ASSUME EngineInv, AtSpan
    PROVE  /\ todo \in Seq(Span) /\ Len(todo) \in Nat /\ 1 \in 1..Len(todo) /\ Head(todo) = todo[1]
           /\ Head(todo) \in Span /\ Head(todo).number \in Nat /\ Head(todo).hash \in Hash
           /\ \A i \in 1..Len(Head(todo).logs) :
                /\ Head(todo).logs[i] \in Nat /\ PosAt(Head(todo), i) \in Position
                /\ Point(PosAt(Head(todo), i)) /\ PosAt(Head(todo), i).block = Head(todo).number
                /\ PosAt(Head(todo), i).log = Head(todo).logs[i]
           /\ \A i, j \in 1..Len(Head(todo).logs) : i < j => Head(todo).logs[i] < Head(todo).logs[j]
           /\ Head(todo).logs \in Seq(Nat)
  <1>1. todo \in Seq(Span) /\ todo # <<>>
    BY DEF EngineInv, EngineTypeOK, AtSpan
  <1>2. Len(todo) \in Nat /\ 1 \in 1..Len(todo) /\ Head(todo) = todo[1] /\ Head(todo) \in Span
    BY <1>1
  <1>3. Head(todo).number \in Nat /\ Head(todo).hash \in Hash /\ Head(todo).logs \in Seq(Nat)
    BY <1>2 DEF Span
  <1>4. \A i \in 1..Len(Head(todo).logs) : Head(todo).logs[i] \in Nat
    BY <1>3
  <1>5. Ascending(Head(todo).logs)
    BY <1>2 DEF EngineInv, CallConsistent
  <1>6. \A i, j \in 1..Len(Head(todo).logs) : i < j => Head(todo).logs[i] < Head(todo).logs[j]
    BY <1>3, <1>5, AscendingPairs
  <1>7. \A i \in 1..Len(Head(todo).logs) :
          /\ PosAt(Head(todo), i) \in Position
          /\ Point(PosAt(Head(todo), i)) /\ PosAt(Head(todo), i).block = Head(todo).number
          /\ PosAt(Head(todo), i).log = Head(todo).logs[i]
    BY <1>3, <1>4 DEF PosAt, Position, Point
  <1>8. QED
    BY <1>1, <1>2, <1>3, <1>4, <1>6, <1>7

\* In the loop over a batch.
LEMMA BatchFacts ==
    ASSUME ControlInv, ContentInv, pc = "applying", AtSpan
    PROVE  /\ EngineInv /\ EngineContent /\ BatchOnChain
           /\ scan.spans # <<>> /\ ~NothingNew /\ scan.anchor = NoBlock
           /\ scan \in Scan /\ scan.head \in BlockRef /\ scan.head.hash \in Hash /\ scan.from \in Nat
           /\ SpanOfChain(Head(todo), scan.head.hash, scan.from)
           /\ \A i, j \in 1..Len(todo) : i < j => todo[i].number < todo[j].number
           /\ walked = NoBlock /\ leftAt = NoPoint
  <1>1. EngineInv /\ EngineContent /\ TickTypes /\ TickControl /\ BatchContent /\ Marked /\ WalkAnswers
    BY TypesSplit DEF ControlInv, ContentInv, WalkControl
  <1>2. InBatch /\ todo # <<>>
    BY DEF InBatch, AtSpan
  <1>3. scan.spans # <<>> /\ ~NothingNew
    BY <1>1, <1>2 DEF BatchContent, NothingNew
  <1>4. BatchOnChain /\ \A i, j \in 1..Len(todo) : i < j => todo[i].number < todo[j].number
    BY <1>1, <1>2, <1>3 DEF BatchContent, Trusted
  <1>5. scan \in Scan /\ scan.head \in BlockRef /\ scan.from \in Nat
    <2>1. scan \in Scan /\ scan.head # NoBlock
      BY <1>1 DEF TickTypes, TickControl
    <2>2. QED
      BY <2>1, ScanFields DEF Blocks
  <1>6. scan.head.hash \in Hash
    BY <1>5 DEF BlockRef
  <1>7. SpanOfChain(Head(todo), scan.head.hash, scan.from)
    BY <1>1, <1>4, AtSpanFacts DEF BatchOnChain
  <1>8. scan.anchor = NoBlock
    BY <1>1, <1>3 DEF WalkAnswers
  <1>9. walked = NoBlock /\ leftAt = NoPoint
    BY <1>1 DEF Marked, TickControl
  <1>10. QED
    BY <1>1, <1>3, <1>4, <1>5, <1>6, <1>7, <1>8, <1>9

\* Entering a span leaves the ring ending at its block.
LEMMA AdvanceTip ==
    ASSUME EngineInv, EngineContent, AtSpan, Admitted(Head(todo)),
           NEW i \in 1..Len(Head(todo).logs), After(PosAt(Head(todo), i), cursor),
           Advance(Head(todo), i)
    PROVE  \/ /\ ring # <<>> /\ UNCHANGED ring
              /\ Newest(ring).hash = Head(todo).hash
           \/ /\ ring' = Push(ring, BlockOf(Head(todo)))
              /\ ring' # <<>> /\ Newest(ring') = BlockOf(Head(todo))
              /\ ring = <<>> \/ Newest(ring).number < Head(todo).number
              /\ \A k \in 1..Len(ring') :
                   ring'[k] = BlockOf(Head(todo)) \/ \E m \in 1..Len(ring) : ring'[k] = ring[m]
  <1> DEFINE s == Head(todo)
  <1>1. /\ ring \in Seq(BlockRef) /\ cursor \in Position \cup {NoPos} /\ RingEndsAt(ring, cursor)
        /\ Len(ring) <= RingCapacity /\ (ring = <<>> <=> cursor = NoPos)
        /\ ring # <<>> => cursor.block \in Nat /\ Newest(ring).number = cursor.block
    BY ContentFacts
  <1>2. /\ s.number \in Nat /\ PosAt(s, i) \in Position /\ PosAt(s, i).block = s.number
        /\ BlockOf(s) \in BlockRef /\ BlockOf(s).number = s.number
    BY AtSpanFacts, HeadSpan DEF BlockOf
  <1>3. CASE ring = <<>> \/ Newest(ring).number < s.number
    <2>1. ring' = Push(ring, BlockOf(s))
      BY <1>3 DEF Advance
    <2>2. /\ Push(ring, BlockOf(s)) # <<>> /\ Newest(Push(ring, BlockOf(s))) = BlockOf(s)
          /\ \A k \in 1..Len(Push(ring, BlockOf(s))) :
               \/ Push(ring, BlockOf(s))[k] = BlockOf(s)
               \/ \E m \in 1..Len(ring) : Push(ring, BlockOf(s))[k] = ring[m]
      BY <1>1, <1>2, <1>3, PushEndsAtBlock
    <2>3. QED
      BY <1>3, <2>1, <2>2
  <1>4. CASE ~(ring = <<>> \/ Newest(ring).number < s.number)
    <2>1. UNCHANGED ring /\ ring # <<>> /\ ~(Newest(ring).number < s.number)
      BY <1>4 DEF Advance
    <2>2. s.number = cursor.block /\ cursor # NoPos
      BY <1>1, <1>2, <2>1 DEF After
    <2>3. ~Contradicts(ring, s.number, s.hash)
      BY <1>1, <1>2, <2>2 DEF Admitted, Redelivered
    <2>4. Len(ring) \in 1..Len(ring) /\ ring[Len(ring)].number = s.number
      BY <1>1, <2>1, <2>2 DEF Newest
    <2>5. QED
      BY <2>1, <2>3, <2>4 DEF Contradicts, Newest
  <1>5. QED
    BY <1>3, <1>4

LEMMA AdvanceContent ==
    ASSUME EngineInv, EngineContent, AtSpan, Admitted(Head(todo)),
           NEW i \in 1..Len(Head(todo).logs), After(PosAt(Head(todo), i), cursor),
           Advance(Head(todo), i),
           NEW h \in Hash, NEW number, SpanOfChain(Head(todo), h, number),
           cursor # NoPos => Newest(ring).hash \in Chain[h]
    PROVE  /\ ring' # <<>> /\ Newest(ring').hash = Head(todo).hash
           /\ RingOnChain(ring')
           /\ \A k \in 1..Len(slots) : SlotComplete(slots[k], ring')
  <1> DEFINE s == Head(todo)
  <1>1. /\ ring \in Seq(BlockRef) /\ cursor \in Position \cup {NoPos} /\ RingEndsAt(ring, cursor)
        /\ RingOnChain(ring) /\ (ring = <<>> <=> cursor = NoPos)
        /\ ring # <<>> => /\ Newest(ring).hash \in Hash /\ Number[Newest(ring).hash] = cursor.block
                          /\ cursor.block \in Nat /\ Newest(ring).number = cursor.block
        /\ \A k \in 1..Len(slots) : SlotComplete(slots[k], ring)
    BY ContentFacts
  <1>2. /\ s.number \in Nat /\ s.hash \in Hash /\ s.hash \in Chain[h] /\ s.number = Number[s.hash]
        /\ StartBlock <= s.number
    BY AtSpanFacts DEF SpanOfChain
  <1>3. /\ s.hash \in Chain[s.hash] /\ \A a \in Chain[s.hash] : Chain[a] \subseteq Chain[s.hash]
    BY <1>2, ChainHolds
  <1>4. CASE UNCHANGED ring /\ ring # <<>> /\ Newest(ring).hash = s.hash
    BY <1>1, <1>4
  <1>5. CASE /\ ring' = Push(ring, BlockOf(s))
             /\ ring' # <<>> /\ Newest(ring') = BlockOf(s)
             /\ ring = <<>> \/ Newest(ring).number < s.number
             /\ \A k \in 1..Len(ring') :
                  ring'[k] = BlockOf(s) \/ \E m \in 1..Len(ring) : ring'[k] = ring[m]
    <2>1. BlockOf(s).hash = s.hash /\ BlockOf(s).number = s.number /\ IsRef(BlockOf(s))
      BY <1>2 DEF BlockOf, IsRef
    <2>2. ring # <<>> => Newest(ring).hash \in Chain[s.hash] /\ cursor.block < s.number
      BY <1>1, <1>2, <1>5, ChainIsLinear
    <2>3. RingOnChain(ring')
      <3>1. SUFFICES ASSUME NEW k \in 1..Len(ring')
                     PROVE  /\ IsRef(ring'[k]) /\ StartBlock <= ring'[k].number
                            /\ ring'[k].hash \in Chain[s.hash]
        BY <1>5, <2>1 DEF RingOnChain
      <3>2. CASE ring'[k] = BlockOf(s)
        BY <1>2, <1>3, <2>1, <3>2
      <3>3. CASE \E m \in 1..Len(ring) : ring'[k] = ring[m]
        <4>1. PICK m \in 1..Len(ring) : ring'[k] = ring[m]
          BY <3>3
        <4>2. /\ IsRef(ring[m]) /\ StartBlock <= ring[m].number
              /\ ring[m].hash \in Chain[Newest(ring).hash]
          BY <1>1 DEF RingOnChain
        <4>3. ring # <<>>
          BY <1>1
        <4>4. QED
          BY <1>3, <2>2, <4>1, <4>2, <4>3
      <3>4. QED
        BY <1>5, <3>2, <3>3
    <2>4. ASSUME NEW k \in 1..Len(slots)
          PROVE  SlotComplete(slots[k], ring')
      <3>1. /\ slots[k] \in Slot /\ slots[k].cursor \in Position \cup {NoPos}
            /\ Point(slots[k].cursor)
            /\ FoldsOneChain(slots[k].fold, slots[k].cursor, ring)
            /\ ~After(slots[k].cursor, cursor) /\ SlotComplete(slots[k], ring)
        BY <1>1, SlotEntries
      <3>2. Complete(slots[k].fold, slots[k].cursor, s.hash)
        <4>1. CASE ring = <<>>
          <5>1. slots[k].cursor = NoPos
            BY <3>1, <4>1 DEF SlotComplete
          <5>2. QED
            BY <1>2, <3>1, <5>1, EmptySlot
        <4>2. CASE ring # <<>>
          <5>1. slots[k].cursor.block <= cursor.block /\ slots[k].cursor.block \in Int
            BY <1>1, <3>1, <4>2, PointsCompare DEF After, Point
          <5>2. slots[k].cursor.block <= Number[s.hash]
                /\ slots[k].cursor.block <= Number[Newest(ring).hash]
            BY <1>1, <1>2, <2>2, <4>2, <5>1
          <5>3. Complete(slots[k].fold, slots[k].cursor, Newest(ring).hash)
            BY <3>1, <4>2 DEF SlotComplete
          <5>4. Newest(ring).hash \in Chain[s.hash]
            BY <2>2, <4>2
          <5>5. QED
            BY <1>2, <1>3, <3>1, <5>2, <5>3, <5>4, SlotMoves
        <4>3. QED
          BY <4>1, <4>2
      <3>3. QED
        BY <1>5, <2>1, <3>2 DEF SlotComplete
    <2>5. QED
      BY <1>5, <2>1, <2>3, <2>4
  <1>6. QED
    BY <1>4, <1>5, AdvanceTip

LEMMA ContentsGrow ==
    ASSUME NEW f \in Fold, NEW e \in Event
    PROVE  /\ Contents([f EXCEPT !.events = Append(@, e)]) = Contents(f) \cup ({e} \ Foreign)
           /\ e \in Foreign => Contents(f) = Contents(f) \cup ({e} \ Foreign)
  <1>1. f.events \in Seq(Event) /\ f = [events |-> f.events, torn |-> f.torn]
    BY DEF Fold
  <1> DEFINE g == [f EXCEPT !.events = Append(@, e)]
             n == Len(f.events)
  <1>2. g.events = Append(f.events, e)
    BY <1>1
  <1>3. /\ n \in Nat /\ Len(g.events) = n + 1 /\ g.events[n + 1] = e
        /\ \A k \in 1..n : g.events[k] = f.events[k]
    BY <1>1, <1>2
  <1> HIDE DEF g, n
  <1>4. {g.events[k] : k \in 1..Len(g.events)} = {f.events[k] : k \in 1..n} \cup {e}
    <2>1. \A k \in 1..Len(g.events) : k = n + 1 \/ k \in 1..n
      BY <1>3
    <2>2. n + 1 \in 1..Len(g.events) /\ \A k \in 1..n : k \in 1..Len(g.events)
      BY <1>3
    <2>3. QED
      BY <1>3, <2>1, <2>2
  <1>5. QED
    BY <1>4 DEF Contents, g, n

\* What the fold holds when it is handed an event, and what there is up to that event.
LEMMA NextEvent ==
    ASSUME ControlInv, ContentInv, pc = "applying", AtSpan, NEW i, IsNext(Head(todo), i)
    PROVE  /\ Contents(fold) = UpTo(Reach, Head(todo).hash) \ Foreign
           /\ UpTo(PosAt(Head(todo), i), Head(todo).hash) =
                UpTo(Reach, Head(todo).hash) \cup {EventAt(Head(todo), i)}
  <1> DEFINE s == Head(todo)
             p == PosAt(s, i)
             e == EventAt(s, i)
             h == scan.head.hash
  <1>1. /\ EngineInv /\ EngineContent /\ BatchOnChain /\ h \in Hash /\ scan.from \in Nat
        /\ SpanOfChain(s, h, scan.from)
        /\ \A k, j \in 1..Len(todo) : k < j => todo[k].number < todo[j].number
    BY BatchFacts
  <1>2. /\ i \in 1..Len(s.logs) /\ Admitted(s) /\ After(p, cursor) /\ After(p, Reach) /\ ~fold.torn
        /\ Reach \in Position \cup {NoPos}
    BY <1>1, NextIsAfter
  <1>3. /\ todo \in Seq(Span) /\ Len(todo) \in Nat /\ s = todo[1] /\ 1 \in 1..Len(todo)
        /\ s.number \in Nat /\ s.hash \in Hash
        /\ \A k \in 1..Len(s.logs) : s.logs[k] \in Nat
        /\ p \in Position /\ Point(p) /\ p.block = s.number /\ p.log = s.logs[i]
        /\ \A k, j \in 1..Len(s.logs) : k < j => s.logs[k] < s.logs[j]
    BY <1>1, <1>2, AtSpanFacts
  <1>4. /\ s.hash \in Chain[h] /\ s.number = Number[s.hash] /\ s.number < scan.from
        /\ e \in EventsOf[h]
    BY <1>1, <1>2 DEF SpanOfChain
  <1>5. e \in EventsOf[s.hash] /\ e.block = s.number /\ e.log = s.logs[i]
    <2>1. e.block = s.number /\ e.log = s.logs[i]
      BY DEF EventAt
    <2>2. e.block <= Number[s.hash]
      BY <1>3, <1>4, <2>1
    <2>3. QED
      BY <1>1, <1>4, <2>1, <2>2, EventsBelow
  <1>6. FoldsOneChain(fold, Reach, ring) /\ fold \in Fold
    BY <1>1, <1>2 DEF EngineInv, FoldConsistent, EngineTypeOK
  <1>7. Contents(fold) = UpTo(Reach, s.hash) \ Foreign
    <2>1. CASE done > 0
      <3>1. Complete(fold, Reach, s.hash)
        BY <1>1, <1>2, <2>1 DEF EngineContent, FoldSoFar, TipHash
      <3>2. QED
        BY <1>6, <3>1, CompleteIs
    <2>2. CASE ~(done > 0) /\ ring # <<>>
      <3>1. Complete(fold, Reach, Newest(ring).hash) /\ Reach = cursor
        BY <1>1, <1>2, <2>2 DEF EngineContent, FoldSoFar, TipHash, Reach
      <3>2. Contents(fold) = UpTo(cursor, Newest(ring).hash) \ Foreign
        BY <1>6, <3>1, CompleteIs
      <3>3. /\ Newest(ring).hash \in Hash /\ Number[Newest(ring).hash] = cursor.block
            /\ cursor \in Position \cup {NoPos} /\ cursor # NoPos /\ cursor.block \in Nat
        BY <1>1, <2>2, ContentFacts
      <3>4. cursor.block <= s.number
        BY <1>1, <1>2, AdmittedAgrees
      <3>5. Newest(ring).hash \in Chain[h]
        BY <1>1, <3>3 DEF BatchOnChain
      <3>6. UpTo(cursor, Newest(ring).hash) = UpTo(cursor, s.hash)
        BY <1>1, <1>4, <3>3, <3>4, <3>5, UpToAgrees
      <3>7. QED
        BY <3>1, <3>2, <3>6
    <2>3. CASE ~(done > 0) /\ ring = <<>>
      <3>1. Reach = NoPos
        BY <1>1, <2>3, ContentFacts DEF Reach
      <3>2. QED
        BY <1>3, <1>6, <3>1, EmptyIs, NothingUpToNoPos
    <2>4. QED
      BY <2>1, <2>2, <2>3
  <1>8. \A d \in EventsOf[s.hash] : Point(d) /\ d.block \in Nat /\ d.log \in Nat
    BY <1>3, EventsAreEvents DEF Event
  <1>9. Point(Reach)
    BY <1>2, PointsCompare
  <1>10. ASSUME NEW d \in EventsOf[s.hash], ~After(d, p), After(d, Reach)
         PROVE  d = e
    <2>1. d \in EventsOf[h] /\ d.block <= s.number
      BY <1>1, <1>4, EventsBelow
    <2>2. d.block < scan.from
      BY <1>1, <1>3, <1>4, <1>8, <2>1
    <2>3. Pending(d)
      BY <1>1, <1>10, <2>1, <2>2 DEF BatchOnChain
    <2>4a. PICK k \in 1..Len(todo) : \E j \in 1..Len(todo[k].logs) :
             d = EventAt(todo[k], j) /\ (k = 1 => done < j)
      BY <2>3 DEF Pending
    <2>4. PICK j \in 1..Len(todo[k].logs) : d = EventAt(todo[k], j) /\ (k = 1 => done < j)
      BY <2>4a
    <2>5. d.block = todo[k].number /\ d.log = todo[k].logs[j]
      BY <2>4 DEF EventAt
    <2>6. k = 1
      <3>1. SUFFICES ASSUME k # 1
                     PROVE  FALSE
        OBVIOUS
      <3>2. 1 < k
        BY <1>3, <3>1
      <3>3. s.number < todo[k].number
        BY <1>1, <1>3, <3>2
      <3>4. QED
        BY <1>3, <1>8, <2>1, <2>5, <3>3
    <2>7. j \in 1..Len(s.logs) /\ d = EventAt(s, j) /\ done < j /\ d.log = s.logs[j]
          /\ d.block = s.number
      BY <1>3, <2>4, <2>5, <2>6
    <2>8. j <= i
      <3>1. s.logs[j] <= s.logs[i]
        BY <1>2, <1>3, <1>10, <2>7 DEF After
      <3>2. CASE i < j
        BY <1>2, <1>3, <2>7, <3>1, <3>2
      <3>3. QED
        BY <1>2, <2>7, <3>2
    <2>9. ~(j < i)
      <3>1. SUFFICES ASSUME j < i
                     PROVE  FALSE
        OBVIOUS
      <3>2. done \in Nat
        BY <1>1 DEF EngineInv, EngineTypeOK
      <3>3. CASE done > 0
        <4>1. i = done + 1
          BY <3>3 DEF IsNext
        <4>2. QED
          BY <1>2, <2>7, <3>1, <3>2, <4>1
      <3>4. CASE done = 0
        <4>1. j \in 1..(i - 1)
          BY <1>2, <2>7, <3>1
        <4>2. ~After(PosAt(s, j), cursor) /\ Reach = cursor
          BY <3>4, <4>1 DEF IsNext, Reach
        <4>3. After(PosAt(s, j), cursor)
          BY <1>10, <2>7, <4>2 DEF After, PosAt
        <4>4. QED
          BY <4>2, <4>3
      <3>5. QED
        BY <3>2, <3>3, <3>4
    <2>10. j = i
      BY <1>2, <2>7, <2>8, <2>9
    <2>11. QED
      BY <2>7, <2>10
  <1>11. ~After(e, p)
    BY <1>2, <1>3, <1>5 DEF After
  <1>12. \A d \in EventsOf[s.hash] : ~After(d, Reach) => ~After(d, p)
    BY <1>2, <1>3, <1>8, <1>9, AfterTransitive
  <1>13. UpTo(p, s.hash) = UpTo(Reach, s.hash) \cup {e}
    <2>1. \A d \in UpTo(p, s.hash) : d \in UpTo(Reach, s.hash) \cup {e}
      BY <1>10 DEF UpTo
    <2>2. \A d \in UpTo(Reach, s.hash) \cup {e} : d \in UpTo(p, s.hash)
      BY <1>5, <1>11, <1>12 DEF UpTo
    <2>3. QED
      BY <2>1, <2>2
  <1>14. QED
    BY <1>7, <1>13

\* After a step that consumed event i of the head span.
LEMMA ConsumeEngine ==
    ASSUME ControlInv, ContentInv, pc = "applying", AtSpan, NEW i, NEW f, Consume(i, f),
           \/ f = fold /\ EventAt(Head(todo), i) \in Foreign
           \/ f = [fold EXCEPT !.events = Append(@, EventAt(Head(todo), i))],
           EngineInv'
    PROVE  /\ EngineContent' /\ Reach' = PosAt(Head(todo), i)
           /\ cursor' # NoPos => Newest(ring').hash \in Chain[scan.head.hash]
           /\ cursor'.block < scan.from
  <1> DEFINE s == Head(todo)
             p == PosAt(s, i)
             e == EventAt(s, i)
             h == scan.head.hash
  <1>1. /\ EngineInv /\ EngineContent /\ BatchOnChain /\ h \in Hash /\ scan.from \in Nat
        /\ SpanOfChain(s, h, scan.from) /\ BatchContent /\ ~NothingNew
    BY BatchFacts DEF ContentInv
  <1>2. /\ IsNext(s, i) /\ fold' = f /\ UNCHANGED <<slots, status, resets, snap, ret>>
        /\ \/ i = Len(s.logs) /\ Advance(s, i) /\ todo' = Tail(todo) /\ done' = 0
           \/ i # Len(s.logs) /\ done' = i /\ UNCHANGED <<cursor, ring, lastVerified, todo>>
    BY DEF Consume
  <1>3. /\ i \in 1..Len(s.logs) /\ Admitted(s) /\ After(p, cursor) /\ ~fold.torn
    BY <1>1, <1>2, NextIsAfter
  <1>4. /\ p \in Position /\ p.block = s.number /\ s.number \in Nat /\ s.hash \in Hash
    BY <1>1, <1>3, AtSpanFacts
  <1>5. s.hash \in Chain[h] /\ s.number < scan.from
    BY <1>1 DEF SpanOfChain
  <1>6. Contents(fold') = UpTo(p, s.hash) \ Foreign
    <2>1. /\ Contents(fold) = UpTo(Reach, s.hash) \ Foreign
          /\ UpTo(p, s.hash) = UpTo(Reach, s.hash) \cup {e}
      BY <1>2, NextEvent
    <2>2. fold \in Fold /\ e \in Event
      BY <1>1, <1>3, AtSpanFacts DEF EngineInv, EngineTypeOK, EventAt, Event
    <2>3. Contents(fold') = Contents(fold) \cup ({e} \ Foreign)
      BY <1>2, <2>2, ContentsGrow
    <2>4. QED
      BY <2>1, <2>3
  <1>7. /\ Reach' = p /\ TipHash' = s.hash
        /\ RingOnChain(ring') /\ \A k \in 1..Len(slots) : SlotComplete(slots[k], ring')
        /\ cursor' # NoPos => Newest(ring').hash \in Chain[h]
        /\ cursor'.block < scan.from
    <2>1. CASE i = Len(s.logs)
      <3>1. Advance(s, i) /\ done' = 0 /\ cursor' = p
        BY <1>2, <2>1 DEF Advance
      <3>2. cursor # NoPos => Newest(ring).hash \in Chain[h]
        BY <1>1 DEF BatchOnChain
      <3>3. /\ Newest(ring').hash = s.hash /\ RingOnChain(ring')
            /\ \A k \in 1..Len(slots) : SlotComplete(slots[k], ring')
        BY <1>1, <1>3, <3>1, <3>2, AdvanceContent
      <3>4. Reach' = p /\ TipHash' = s.hash
        BY <3>1, <3>3 DEF Reach, TipHash
      <3>5. QED
        BY <1>4, <1>5, <3>1, <3>3, <3>4
    <2>2. CASE i # Len(s.logs)
      <3>1. done' = i /\ UNCHANGED <<cursor, ring, todo>>
        BY <1>2, <2>2
      <3>2. Reach' = p /\ TipHash' = s.hash
        BY <1>3, <3>1 DEF Reach, TipHash
      <3>3. /\ RingOnChain(ring) /\ \A k \in 1..Len(slots) : SlotComplete(slots[k], ring)
        BY <1>1, ContentFacts
      <3>4. cursor.block < scan.from
        BY <1>1 DEF BatchContent, InBatch, AtSpan
      <3>5. QED
        BY <1>1, <3>1, <3>2, <3>3, <3>4 DEF BatchOnChain
    <2>3. QED
      BY <2>1, <2>2
  <1>8. FoldSoFar'
    <2>1. SUFFICES ASSUME ~fold'.torn
                   PROVE  Complete(fold', Reach', TipHash')
      BY DEF FoldSoFar
    <2>2. FoldsOneChain(fold', Reach', ring')
      BY <2>1 DEF EngineInv, FoldConsistent
    <2>3. QED
      BY <1>6, <1>7, <2>2, CompleteIs
  <1>9. RestorePointsComplete'
    <2>1. SnapComplete(snap)
      BY <1>1, ContentFacts
    <2>2. QED
      BY <1>2, <1>7, <2>1 DEF RestorePointsComplete, SlotComplete, SnapComplete
  <1>10. EngineContent'
    BY <1>1, <1>2, <1>7, <1>8, <1>9 DEF EngineContent
  <1>11. QED
    BY <1>7, <1>10

\* A step inside the loop touches only the engine.
LEMMA BatchFrame ==
    ASSUME ControlInv, ContentInv, pc = "applying", ret = "running",
           UNCHANGED <<chainVars, driverVars, pc, scan>>,
           ret' \in {"running", "ok", "halted", "poisoned", "panicked"},
           scan.spans # <<>> \/ UNCHANGED <<cursor, ring>>,
           EngineContent', BatchContent'
    PROVE  ContentInv'
  <1>1. /\ UNCHANGED <<canon, steady, walked, vouched, leftAt, caughtUp, tick, pc, scan>>
        /\ Marked /\ WalkControl /\ leftAt = NoPoint
    BY DEF chainVars, driverVars, ContentInv, ControlInv, TickControl
  <1>2. Marked'
    <2>1. walked = NoBlock /\ (scan.spans = <<>> => Marks(scan.walked, vouched))
      BY <1>1 DEF Marked
    <2>2. ret' \notin Verdicts
      BY DEF Verdicts
    <2>3. scan.spans = <<>> => Marks(scan.walked, vouched)'
      BY <1>1, <2>1 DEF Marks, WalkedClaims, VouchedClaims
    <2>4. QED
      BY <1>1, <2>1, <2>2, <2>3 DEF Marked
  <1>3. LeftBehind'
    BY <1>1 DEF LeftBehind
  <1>4. WalkControl'
    <2>1. HeadRead'
      BY <1>1 DEF WalkControl, HeadRead
    <2>2. Lags' /\ WalkBounds'
      BY <1>1 DEF Lags, WalkBounds, InWalk
    <2>3. WalkAnswers'
      BY <1>1 DEF WalkControl, WalkAnswers, InWalk, NothingNew, Left, HeaderAt
    <2>4. QED
      BY <2>1, <2>2, <2>3 DEF WalkControl
  <1>5. WalkContent' /\ CaughtUpSoon' /\ Bisecting'
    BY <1>1 DEF WalkContent, InWalk, CaughtUpSoon, Closing, Bisecting
  <1>6. CaughtUpMeansFolded'
    BY <1>1 DEF CaughtUpMeansFolded, IsCaughtUp, Settled
  <1>7. QED
    BY <1>2, <1>3, <1>4, <1>5, <1>6 DEF ContentInv

LEMMA ConsumeContent ==
    ASSUME ControlInv, ContentInv, pc = "applying", AtSpan, NEW i, NEW f, Consume(i, f),
           \/ f = fold /\ EventAt(Head(todo), i) \in Foreign
           \/ f = [fold EXCEPT !.events = Append(@, EventAt(Head(todo), i))],
           UNCHANGED <<chainVars, driverVars, pc, scan>>
    PROVE  ContentInv'
  <1> DEFINE s == Head(todo)
             p == PosAt(s, i)
             h == scan.head.hash
  <1>1. /\ EngineInv /\ EngineContent /\ BatchOnChain /\ h \in Hash /\ scan.from \in Nat
        /\ SpanOfChain(s, h, scan.from) /\ ~NothingNew /\ scan.spans # <<>> /\ scan.anchor = NoBlock
        /\ \A k, j \in 1..Len(todo) : k < j => todo[k].number < todo[j].number
    BY BatchFacts
  <1>2. EngineInv'
    BY <1>1, ConsumeKeepsInv
  <1>3. /\ EngineContent' /\ Reach' = p
        /\ cursor' # NoPos => Newest(ring').hash \in Chain[h]
        /\ cursor'.block < scan.from
    BY <1>2, ConsumeEngine
  <1>4. /\ IsNext(s, i) /\ UNCHANGED ret /\ ret = "running"
        /\ \/ i = Len(s.logs) /\ todo' = Tail(todo) /\ done' = 0
           \/ i # Len(s.logs) /\ done' = i /\ UNCHANGED todo
    BY DEF Consume, AtSpan
  <1>5. /\ i \in 1..Len(s.logs) /\ After(p, Reach) /\ Point(Reach)
    BY <1>1, <1>4, NextIsAfter, PointsCompare
  <1>6. /\ todo \in Seq(Span) /\ Len(todo) \in Nat /\ s = todo[1] /\ 1 \in 1..Len(todo)
        /\ \A k \in 1..Len(s.logs) : s.logs[k] \in Nat
        /\ Point(p) /\ p.block = s.number /\ p.log = s.logs[i] /\ s.number \in Nat
        /\ \A k, j \in 1..Len(s.logs) : k < j => s.logs[k] < s.logs[j]
    BY <1>1, <1>5, AtSpanFacts
  <1>7. CASE i = Len(s.logs)
    <2>1. todo' = Tail(todo) /\ done' = 0
      BY <1>4, <1>7
    <2>2. /\ Len(todo') = Len(todo) - 1
          /\ \A k \in 1..Len(todo') : k + 1 \in 1..Len(todo) /\ todo'[k] = todo[k + 1]
      BY <1>6, <2>1
    <2>3. ASSUME NEW k \in 1..Len(todo'), NEW j \in 1..Len(todo'), k < j
          PROVE  todo'[k].number < todo'[j].number
      <3>1. k + 1 \in 1..Len(todo) /\ j + 1 \in 1..Len(todo) /\ k + 1 < j + 1
        BY <1>6, <2>2, <2>3
      <3>2. todo[k + 1].number < todo[j + 1].number
        BY <1>1, <3>1
      <3>3. QED
        BY <2>2, <3>2
    <2>4. \A k \in 1..Len(todo') : SpanOfChain(todo'[k], h, scan.from)
      BY <1>1, <2>2 DEF BatchOnChain
    <2>5. ASSUME NEW e \in EventsOf[h], e.block < scan.from, After(e, p)
          PROVE  Pending(e)'
      <3>1. After(e, Reach) /\ Point(e)
        BY <1>1, <1>5, <1>6, <2>5, EventsAreEvents, AfterTransitive
      <3>2. Pending(e)
        BY <1>1, <2>5, <3>1 DEF BatchOnChain
      <3>3. PICK k \in 1..Len(todo) : \E j \in 1..Len(todo[k].logs) :
              e = EventAt(todo[k], j) /\ (k = 1 => done < j)
        BY <3>2 DEF Pending
      <3>4. PICK j \in 1..Len(todo[k].logs) : e = EventAt(todo[k], j)
        BY <3>3
      <3>5. k # 1
        <4>1. SUFFICES ASSUME k = 1
                       PROVE  FALSE
          OBVIOUS
        <4>2. j \in 1..Len(s.logs) /\ e.log = s.logs[j] /\ e.block = s.number
          BY <1>6, <3>4, <4>1 DEF EventAt
        <4>3. s.logs[j] > s.logs[i]
          BY <1>5, <1>6, <2>5, <4>2 DEF After
        <4>4. ~(j < i)
          <5>1. s.logs[i] \in Nat /\ s.logs[j] \in Nat
            BY <1>5, <1>6, <4>2
          <5>2. j < i => s.logs[j] < s.logs[i]
            BY <1>5, <1>6, <4>2
          <5>3. QED
            BY <4>3, <5>1, <5>2
        <4>5. j = i
          BY <1>5, <1>7, <4>2, <4>4
        <4>6. s.logs[i] \in Nat
          BY <1>5, <1>6
        <4>7. QED
          BY <4>3, <4>5, <4>6
      <3>6. k - 1 \in 1..Len(todo') /\ (k - 1) + 1 = k
        BY <1>6, <2>2, <3>5
      <3>7. todo'[k - 1] = todo[k] /\ done' < j
        BY <2>1, <2>2, <3>6
      <3>8. QED
        BY <3>4, <3>6, <3>7 DEF Pending
    <2>6. BatchContent'
      <3>1. BatchOnChain'
        BY <1>1, <1>3, <2>4, <2>5 DEF BatchOnChain
      <3>2. QED
        BY <1>1, <1>3, <2>3, <3>1 DEF BatchContent, NothingNew
    <2>7. QED
      BY <1>1, <1>3, <1>4, <2>6, BatchFrame
  <1>8. CASE i # Len(s.logs)
    <2>1. done' = i /\ UNCHANGED todo
      BY <1>4, <1>8
    <2>2. ASSUME NEW e \in EventsOf[h], e.block < scan.from, After(e, p)
          PROVE  Pending(e)'
      <3>1. After(e, Reach) /\ Point(e)
        BY <1>1, <1>5, <1>6, <2>2, EventsAreEvents, AfterTransitive
      <3>2. Pending(e)
        BY <1>1, <2>2, <3>1 DEF BatchOnChain
      <3>3. PICK k \in 1..Len(todo) : \E j \in 1..Len(todo[k].logs) :
              e = EventAt(todo[k], j) /\ (k = 1 => done < j)
        BY <3>2 DEF Pending
      <3>4. PICK j \in 1..Len(todo[k].logs) : e = EventAt(todo[k], j)
        BY <3>3
      <3>5. k = 1 => i < j
        <4>1. SUFFICES ASSUME k = 1, ~(i < j)
                       PROVE  FALSE
          BY <1>5
        <4>2. j \in 1..Len(s.logs) /\ e.log = s.logs[j] /\ e.block = s.number
          BY <1>6, <3>4, <4>1 DEF EventAt
        <4>3. s.logs[j] > s.logs[i]
          BY <1>5, <1>6, <2>2, <4>2 DEF After
        <4>4. ~(j < i)
          <5>1. s.logs[i] \in Nat /\ s.logs[j] \in Nat
            BY <1>5, <1>6, <4>2
          <5>2. j < i => s.logs[j] < s.logs[i]
            BY <1>5, <1>6, <4>2
          <5>3. QED
            BY <4>3, <5>1, <5>2
        <4>5. j = i
          BY <1>5, <4>1, <4>2, <4>4
        <4>6. s.logs[i] \in Nat
          BY <1>5, <1>6
        <4>7. QED
          BY <4>3, <4>5, <4>6
      <3>6. QED
        BY <2>1, <3>4, <3>5 DEF Pending
    <2>3. BatchContent'
      <3>1. BatchOnChain'
        BY <1>1, <1>3, <2>1, <2>2 DEF BatchOnChain
      <3>2. QED
        BY <1>1, <1>3, <2>1, <3>1 DEF BatchContent, NothingNew
    <2>4. QED
      BY <1>1, <1>3, <1>4, <2>3, BatchFrame
  <1>9. QED
    BY <1>7, <1>8

\* A call of the fold that halts, or that poisons the engine.
LEMMA RefuseContent ==
    ASSUME ControlInv, ContentInv, pc = "applying", NEW newStatus, NEW reply, NEW f,
           Refuse(newStatus, reply, f), f = fold \/ f.torn, reply \in {"halted", "poisoned"},
           UNCHANGED <<chainVars, driverVars, pc, scan>>
    PROVE  ContentInv'
  <1> DEFINE s == Head(todo)
             h == scan.head.hash
  <1>1. /\ AtSpan /\ ConsumedThrough(s) /\ fold' = f /\ ret' = reply /\ done' = 0 /\ todo' = <<>>
        /\ UNCHANGED <<slots, snap>> /\ ret = "running"
    BY DEF Refuse, Returns, AtSpan
  <1>2. /\ EngineInv /\ EngineContent /\ BatchOnChain /\ h \in Hash /\ scan.from \in Nat
        /\ SpanOfChain(s, h, scan.from) /\ scan.spans # <<>>
    BY <1>1, BatchFacts
  <1>3. /\ RingOnChain(ring') /\ Reach' = Reach /\ (done > 0 \/ ring' # <<>> => TipHash' = TipHash)
        /\ ring' # <<>> => done > 0 \/ ring # <<>>
        /\ \A k \in 1..Len(slots) : SlotComplete(slots[k], ring')
    <2>1. CASE done = 0
      <3>1. UNCHANGED <<cursor, ring>>
        BY <1>1, <2>1 DEF ConsumedThrough
      <3>2. QED
        BY <1>1, <1>2, <2>1, <3>1, ContentFacts DEF Reach, TipHash
    <2>2. CASE done # 0
      <3>1. done > 0 /\ Advance(s, done) /\ cursor' = PosAt(s, done)
        BY <1>1, <1>2, <2>2 DEF ConsumedThrough, Advance, EngineInv, EngineTypeOK
      <3>2. Admitted(s) /\ After(PosAt(s, done), cursor) /\ done < Len(s.logs)
        BY <1>2, <3>1 DEF EngineInv, CallConsistent
      <3>3. done \in 1..Len(s.logs)
        BY <1>1, <1>2, <3>1, <3>2, AtSpanFacts DEF EngineInv, EngineTypeOK
      <3>4. cursor # NoPos => Newest(ring).hash \in Chain[h]
        BY <1>2 DEF BatchOnChain
      <3>5. /\ Newest(ring').hash = s.hash /\ RingOnChain(ring')
            /\ \A k \in 1..Len(slots) : SlotComplete(slots[k], ring')
        BY <1>1, <1>2, <3>1, <3>2, <3>3, <3>4, AdvanceContent
      <3>6. QED
        BY <1>1, <3>1, <3>5 DEF Reach, TipHash
    <2>3. QED
      BY <2>1, <2>2
  <1>4. FoldSoFar'
    <2>1. SUFFICES ASSUME ~fold'.torn, ring' # <<>>
                   PROVE  Complete(fold', Reach', TipHash')
      BY <1>1 DEF FoldSoFar
    <2>2. fold' = fold /\ ~fold.torn
      BY <1>1, <2>1
    <2>3. Complete(fold, Reach, TipHash)
      BY <1>2, <1>3, <2>1, <2>2 DEF EngineContent, FoldSoFar
    <2>4. QED
      BY <1>3, <2>1, <2>2, <2>3
  <1>5. RestorePointsComplete'
    <2>1. SnapComplete(snap)
      BY <1>2, ContentFacts
    <2>2. QED
      BY <1>1, <1>3, <2>1 DEF RestorePointsComplete, SlotComplete, SnapComplete
  <1>6. EngineContent'
    BY <1>1, <1>2, <1>3, <1>4, <1>5 DEF EngineContent
  <1>7. BatchContent'
    BY <1>1 DEF BatchContent, InBatch
  <1>8. QED
    BY <1>1, <1>2, <1>6, <1>7, BatchFrame

LEMMA PanicContent ==
    ASSUME ControlInv, ContentInv, pc = "applying", FoldPanics,
           UNCHANGED <<chainVars, driverVars, pc, scan>>
    PROVE  ContentInv'
  <1>1. /\ ret = "running" /\ ret' = "panicked" /\ fold' = [fold EXCEPT !.torn = TRUE]
        /\ UNCHANGED <<cursor, ring, slots, snap>>
    BY DEF FoldPanics, Returns, AtSpan
  <1>2. EngineInv /\ EngineContent
    BY DEF ControlInv, ContentInv
  <1>3. fold'.torn
    BY <1>1, <1>2 DEF EngineInv, EngineTypeOK, Fold
  <1>4. FoldSoFar'
    BY <1>3 DEF FoldSoFar
  <1>5. EngineContent'
    BY <1>1, <1>2, <1>4 DEF EngineContent, RestorePointsComplete
  <1>6. BatchContent'
    BY <1>1 DEF BatchContent, InBatch
  <1>7. QED
    BY <1>1, <1>5, <1>6, BatchFrame

LEMMA BatchDoneContent ==
    ASSUME ControlInv, ContentInv, pc = "applying", BatchDone,
           UNCHANGED <<chainVars, driverVars, pc, scan>>
    PROVE  ContentInv'
  <1>1. /\ ret = "running" /\ ret' = "ok" /\ todo = <<>> /\ todo' = <<>> /\ done' = 0
        /\ UNCHANGED <<fold, cursor, ring, slots, snap>>
    BY DEF BatchDone, Returns
  <1>2. EngineInv /\ EngineContent /\ BatchContent
    BY DEF ControlInv, ContentInv
  <1>3. done = 0
    BY <1>1, <1>2 DEF EngineInv, CallConsistent, EngineTypeOK
  <1>4. EngineContent'
    BY <1>1, <1>2, <1>3, EngineStays
  <1>5. UNCHANGED <<Reach, todo, done>>
    BY <1>1, <1>3 DEF Reach
  <1>6. BatchContent'
    BY <1>1, <1>2, <1>5 DEF BatchContent, InBatch, NothingNew, Trusted, BatchOnChain, Pending, chainVars
  <1>7. QED
    BY <1>1, <1>4, <1>6, BatchFrame

LEMMA FoldStepContent ==
    ASSUME ControlInv, ContentInv, FoldWorks \/ FoldFails
    PROVE  ContentInv'
  <1>1. pc = "applying" /\ UNCHANGED <<chainVars, driverVars, pc, scan>>
    BY DEF FoldWorks, FoldFails
  <1>2. CASE FoldAccepts
    <2>1. PICK i \in 1..Len(Head(todo).logs) :
            Consume(i, [fold EXCEPT !.events = Append(@, EventAt(Head(todo), i))])
      BY <1>2 DEF FoldAccepts
    <2>2. AtSpan
      BY <1>2 DEF FoldAccepts
    <2>3. QED
      BY <1>1, <2>1, <2>2, ConsumeContent
  <1>3. CASE FoldSkips
    <2>1. PICK i \in 1..Len(Head(todo).logs) : EventAt(Head(todo), i) \in Foreign /\ Consume(i, fold)
      BY <1>3 DEF FoldSkips
    <2>2. AtSpan
      BY <1>3 DEF FoldSkips
    <2>3. QED
      BY <1>1, <2>1, <2>2, ConsumeContent
  <1>4. CASE BatchDone
    BY <1>1, <1>4, BatchDoneContent
  <1>5. CASE FoldHalts
    <2>1. Refuse("Halted", "halted", fold)
      BY <1>5 DEF FoldHalts
    <2>2. QED
      BY <1>1, <2>1, RefuseContent
  <1>6. CASE FoldPoisons
    <2>1. Refuse("Poisoned", "poisoned", [fold EXCEPT !.torn = TRUE])
      BY <1>6 DEF FoldPoisons
    <2>2. [fold EXCEPT !.torn = TRUE].torn
      BY DEF ControlInv, EngineInv, EngineTypeOK, Fold
    <2>3. QED
      BY <1>1, <2>1, <2>2, RefuseContent
  <1>7. CASE FoldPanics
    BY <1>1, <1>7, PanicContent
  <1>8. QED
    BY <1>2, <1>3, <1>4, <1>5, <1>6, <1>7 DEF FoldWorks, FoldFails

-----------------------------------------------------------------------------
(***************************************************************************)
(* The end of a tick.                                                      *)
(***************************************************************************)
\* Nothing that was read outlives the tick but the marks and the fold.
LEMMA TickOver ==
    ASSUME EngineInv', EngineContent', pc' = "idle", scan' = NoScan,
           status' = "Active" => leftAt' = EnginePoint' /\ Marks(walked, vouched)',
           status' # "Active" => leftAt' = NoPoint,
           CaughtUpMeansFolded'
    PROVE  ContentInv'
  <1>1. resets' \in Nat /\ cursor' \in Position \cup {NoPos}
    BY DEF EngineInv, EngineTypeOK
  <1>2. EnginePoint' = [cursor |-> cursor', resets |-> resets'] /\ NoPoint.resets = -1
    BY DEF EnginePoint, NoPoint
  <1>3. NoPoint # EnginePoint'
    BY <1>1, <1>2
  <1>4. Marked'
    BY <1>3 DEF Marked
  <1>5. LeftBehind'
    <2>1. SUFFICES ASSUME status' = "Active"
                   PROVE  LeftBehind'
      BY DEF LeftBehind
    <2>2. leftAt'.resets = resets' /\ leftAt'.cursor = cursor'
      BY <1>2, <2>1
    <2>3. ~After(cursor', cursor')
      BY <1>1, PointsCompare, AfterTransitive
    <2>4. QED
      BY <1>1, <2>2, <2>3 DEF LeftBehind
  <1>6. WalkControl'
    <2>1. HeadRead'
      BY NoScanIs DEF HeadRead
    <2>2. Lags' /\ WalkBounds' /\ WalkAnswers'
      BY DEF Lags, WalkBounds, WalkAnswers, InWalk
    <2>3. QED
      BY <2>1, <2>2 DEF WalkControl
  <1>7. WalkContent' /\ BatchContent' /\ CaughtUpSoon' /\ Bisecting'
    BY DEF WalkContent, InWalk, BatchContent, InBatch, CaughtUpSoon, Closing, Bisecting
  <1>8. QED
    BY <1>4, <1>5, <1>6, <1>7 DEF ContentInv

\* The tail of a tick that leaves the engine and the marks alone.
LEMMA EndsQuietly ==
    ASSUME ControlInv, ContentInv, pc \notin {"idle", "around"}, Idle,
           UNCHANGED <<fold, cursor, ring, slots, status, resets, snap>>, done' = 0,
           UNCHANGED <<walked, vouched>>, EngineInv',
           status = "Active" => Marks(walked, vouched),
           NEW outcome, EndTick(outcome),
           outcome = "Idle" => CaughtUpMeansFolded'
    PROVE  ContentInv'
  <1>1. EngineInv /\ EngineContent /\ span \in 1..MaxSpan
    BY DEF ControlInv, ContentInv, TypeOK
  <1>2. /\ pc' = "idle" /\ tick' = outcome /\ scan' = NoScan
        /\ status' = "Active" => leftAt' = EnginePoint'
        /\ status' # "Active" => leftAt' = NoPoint
    BY <1>1, EndTickIs DEF EngineInv
  <1>3. EngineContent'
    BY <1>1, IdleFacts, EngineStays
  <1>4. status' = "Active" => Marks(walked, vouched)'
    BY DEF Marks, WalkedClaims, VouchedClaims
  <1>5. CaughtUpMeansFolded'
    BY <1>2 DEF CaughtUpMeansFolded
  <1>6. QED
    BY <1>2, <1>3, <1>4, <1>5, TickOver

\* The marks without the walk's one, and without both.
LEMMA MarksFewer ==
    /\ \A w, v : Marks(w, v) => Marks(NoBlock, v)
    /\ Marks(NoBlock, NoBlock)
  BY DEF Marks, WalkedClaims, VouchedClaims

LEMMA QuietEndContent ==
    ASSUME ControlInv, ContentInv, pc \notin {"idle", "around"}, ret # "running",
           UNCHANGED <<engineVars, walked, vouched>>,
           status = "Active" => Marks(walked, vouched),
           NEW outcome, EndTick(outcome),
           outcome = "Idle" => CaughtUpMeansFolded'
    PROVE  ContentInv'
  <1>1. UNCHANGED <<fold, cursor, ring, slots, status, resets, snap, done>>
    BY DEF engineVars
  <1>2. EngineInv /\ EngineInv' /\ Idle
    BY EngineUnchanged DEF ControlInv, Idle
  <1>3. done' = 0
    BY <1>1, <1>2, IdleFacts
  <1>4. QED
    BY <1>1, <1>2, <1>3, EndsQuietly

LEMMA SourceFailsContent ==
    ASSUME ControlInv, ContentInv, SourceFails
    PROVE  ContentInv'
  <1>1. /\ pc \in {"head", "lag", "resume", "window", "boundary", "anchor", "recheck", "bisect"}
        /\ UNCHANGED <<engineVars, walked, vouched>> /\ EndTick("SourceError")
    BY DEF SourceFails
  <1>2. ret # "running" /\ Marks(walked, vouched)
    BY <1>1, CallingFacts DEF Reading, ContentInv, Marked
  <1>3. QED
    BY <1>1, <1>2, QuietEndContent

LEMMA StoppedContent ==
    ASSUME ControlInv, ContentInv, Stopped
    PROVE  ContentInv'
  <1>1. PICK outcome \in {"Terminal", "SourceError"} :
          /\ pc = "applying" /\ ret \in {"halted", "poisoned", "shape", "boundaryMismatch"}
          /\ UNCHANGED <<engineVars, walked, vouched>> /\ EndTick(outcome)
    BY DEF Stopped
  <1>2. status = "Active" => Marks(walked, vouched)
    <2>1. walked = NoBlock /\ (ret \in Verdicts => Marks(scan.walked, vouched))
      BY <1>1 DEF ContentInv, Marked
    <2>2. status = "Active" => ret \in Verdicts
      BY <1>1 DEF ControlInv, TickControl, Verdicts
    <2>3. QED
      BY <2>1, <2>2, MarksFewer
  <1>3. QED
    BY <1>1, <1>2, QuietEndContent

LEMMA UnwoundContent ==
    ASSUME ControlInv, ContentInv, Unwound
    PROVE  ContentInv'
  <1>1. /\ pc = "applying" /\ ret = "panicked" /\ pc' = "idle" /\ scan' = NoScan
        /\ UNCHANGED <<engineVars, leftAt>>
    BY DEF Unwound
  <1>2. status # "Active" /\ leftAt = NoPoint /\ EngineInv /\ EngineContent
    BY <1>1 DEF ControlInv, TickControl, ContentInv
  <1>3. UNCHANGED <<fold, cursor, ring, slots, status, snap, todo, done>>
    BY <1>1 DEF engineVars
  <1>4. EngineInv' /\ EngineContent'
    BY <1>1, <1>2, <1>3, EngineUnchanged, EngineStays
  <1>5. CaughtUpMeansFolded'
    BY <1>2, <1>3 DEF CaughtUpMeansFolded, IsCaughtUp, Settled
  <1>6. QED
    BY <1>1, <1>2, <1>3, <1>4, <1>5, TickOver

\* A step that leads to where nothing is read but the head, or the chain of a fork.
LEMMA TickStays ==
    ASSUME pc' \in {"around", "head", "bisect", "checkpoint", "offer"}, leftAt' = NoPoint,
           EngineContent', HeadRead', Marks(walked, vouched)',
           pc' = "bisect" => walked' = NoBlock /\ vouched' = NoBlock,
           CaughtUpSoon', Bisecting'
    PROVE  ContentInv'
  <1>1. Marked' /\ LeftBehind'
    BY DEF Marked, LeftBehind
  <1>2. WalkControl'
    BY DEF WalkControl, Lags, WalkBounds, WalkAnswers, InWalk
  <1>3. WalkContent' /\ BatchContent'
    BY DEF WalkContent, InWalk, BatchContent, InBatch
  <1>4. CaughtUpMeansFolded'
    BY DEF CaughtUpMeansFolded, IsCaughtUp, Settled
  <1>5. QED
    BY <1>1, <1>2, <1>3, <1>4 DEF ContentInv

LEMMA ForkedContent ==
    ASSUME ControlInv, ContentInv, Forked
    PROVE  ContentInv'
  <1>1. /\ pc = "applying" /\ ret \in {"fork", "missingBoundary", "unobserved"}
        /\ vouched' = NoBlock /\ scan' = [scan EXCEPT !.lo = 0, !.hi = Len(ring)] /\ pc' = "bisect"
        /\ UNCHANGED <<engineVars, chainVars, walked, leftAt>>
    BY DEF Forked
  <1>2. /\ EngineContent /\ HeadRead /\ walked = NoBlock /\ leftAt = NoPoint /\ scan \in Scan
    BY <1>1, TypesSplit DEF ContentInv, WalkControl, Marked, ControlInv, TickControl, TickTypes
  <1>3. UNCHANGED <<fold, cursor, ring, slots, snap, todo, done, canon, steady>>
    BY <1>1 DEF engineVars, chainVars
  <1>4. scan'.head = scan.head /\ scan'.lo = 0 /\ scan'.hi = Len(ring)
    BY <1>1, <1>2 DEF Scan
  <1>5. EngineContent'
    BY <1>2, <1>3, EngineStays
  <1>6. HeadRead'
    BY <1>2, <1>3, <1>4 DEF HeadRead
  <1>7. Marks(walked, vouched)'
    BY <1>1, <1>2 DEF Marks, WalkedClaims, VouchedClaims
  <1>8. CaughtUpSoon'
    BY <1>1 DEF CaughtUpSoon, Closing
  <1>9. Bisecting'
    <2>1. \A k \in 1..Len(ring) : ~(k <= 0) /\ ~(Len(ring) < k)
      OBVIOUS
    <2>2. QED
      BY <1>3, <1>4, <2>1 DEF Bisecting
  <1>10. QED
    BY <1>1, <1>2, <1>5, <1>6, <1>7, <1>8, <1>9, TickStays

\* A batch that went through.
LEMMA AppliedFacts ==
    ASSUME ControlInv, ContentInv, pc = "applying", ret = "ok"
    PROVE  /\ EngineInv /\ EngineContent /\ Idle /\ status = "Active" /\ Reach = cursor
           /\ scan \in Scan /\ scan.head \in BlockRef /\ IsRef(scan.head) /\ scan.head.hash \in Hash
           /\ scan.head.number \in Nat /\ Number[scan.head.hash] = scan.head.number
           /\ scan.from \in Nat /\ scan.end \in Nat
           /\ Trusted =>
                /\ cursor # NoPos => Newest(ring).hash \in Chain[scan.head.hash]
                /\ \A e \in EventsOf[scan.head.hash] : e.block < scan.from => ~After(e, cursor)
                /\ scan.anchor # NoBlock => scan.anchor.hash \in Chain[scan.head.hash]
           /\ ~NothingNew => cursor.block < scan.from
           /\ NothingNew => scan.end < scan.from /\ scan.end = scan.head.number
           /\ scan.spans = <<>> => Marks(scan.walked, vouched)
           /\ leftAt = NoPoint
  <1>1. /\ EngineInv /\ EngineContent /\ TickTypes /\ TickControl /\ BatchContent /\ Marked
        /\ WalkAnswers /\ HeadRead /\ Idle
    BY TypesSplit DEF ControlInv, ContentInv, WalkControl, Idle
  <1>2. todo = <<>> /\ done = 0 /\ Reach = cursor
    BY <1>1, IdleFacts
  <1>3. /\ status = "Active" /\ leftAt = NoPoint /\ scan.head # NoBlock
    BY <1>1 DEF TickControl
  <1>4. /\ scan \in Scan /\ scan.head \in BlockRef /\ IsRef(scan.head)
        /\ scan.from \in Nat /\ scan.end \in Nat
    BY <1>1, <1>3, ScanFields DEF Blocks, HeadRead, TickTypes
  <1>5. scan.head.hash \in Hash /\ scan.head.number \in Nat
        /\ Number[scan.head.hash] = scan.head.number
    BY <1>4 DEF BlockRef, IsRef
  <1>6. \A e : ~Pending(e)
    BY <1>2 DEF Pending
  <1>7. Trusted =>
          /\ cursor # NoPos => Newest(ring).hash \in Chain[scan.head.hash]
          /\ \A e \in EventsOf[scan.head.hash] : e.block < scan.from => ~After(e, cursor)
          /\ scan.anchor # NoBlock => scan.anchor.hash \in Chain[scan.head.hash]
    BY <1>1, <1>2, <1>6 DEF BatchContent, InBatch, BatchOnChain
  <1>8. /\ ~NothingNew => cursor.block < scan.from
        /\ NothingNew => scan.end < scan.from /\ scan.end = scan.head.number
    BY <1>1 DEF BatchContent, InBatch, WalkAnswers
  <1>9. scan.spans = <<>> => Marks(scan.walked, vouched)
    BY <1>1 DEF Marked
  <1>10. QED
    BY <1>1, <1>2, <1>3, <1>4, <1>5, <1>7, <1>8, <1>9

\* An idle engine on the chain of h with nothing of it after the cursor holds all of it.
LEMMA HoldsAll ==
    ASSUME EngineInv, EngineContent, Idle, status = "Active", NEW h \in Hash,
           cursor # NoPos => Newest(ring).hash \in Chain[h],
           \A e \in EventsOf[h] : ~After(e, cursor)
    PROVE  Holds(fold, EventsOf[h])
  <1>1. /\ FoldsOneChain(fold, cursor, ring)
        /\ ring # <<>> => Contents(fold) = UpTo(cursor, Newest(ring).hash) \ Foreign
        /\ ring = <<>> => Contents(fold) = {}
    BY IdleContent
  <1>2. EventsOf[h] = UpTo(cursor, h)
    BY DEF UpTo
  <1>3. /\ cursor \in Position \cup {NoPos} /\ (ring = <<>> <=> cursor = NoPos)
        /\ ring # <<>> =>
             /\ Newest(ring).hash \in Hash /\ Number[Newest(ring).hash] = cursor.block
             /\ cursor.block \in Nat
    BY ContentFacts
  <1>4. CASE ring = <<>>
    <2>1. EventsOf[h] = {}
      BY <1>2, <1>3, <1>4, NothingUpToNoPos
    <2>2. QED
      BY <1>1, <1>4, <2>1, HoldsIs
  <1>5. CASE ring # <<>>
    <2>1. Newest(ring).hash \in Chain[h] /\ h \in Chain[h]
      BY <1>3, <1>5, ChainHolds
    <2>2. cursor.block <= Number[Newest(ring).hash] /\ cursor.block <= Number[h]
      BY <1>3, <1>5, <2>1, ChainHolds
    <2>3. UpTo(cursor, Newest(ring).hash) = UpTo(cursor, h)
      BY <1>3, <2>1, <2>2, UpToAgrees
    <2>4. QED
      BY <1>1, <1>2, <1>5, <2>3, HoldsIs
  <1>6. QED
    BY <1>4, <1>5

LEMMA AppliedContent ==
    ASSUME ControlInv, ContentInv, Applied
    PROVE  ContentInv'
  <1> DEFINE h == scan.head.hash
  <1>1. /\ pc = "applying" /\ ret = "ok" /\ pc' = "checkpoint"
        /\ walked' = IF scan.spans # <<>> THEN NoBlock
                     ELSE IF scan.anchor # NoBlock THEN scan.anchor
                     ELSE scan.walked
        /\ vouched' = IF NothingNew THEN vouched ELSE scan.head
        /\ UNCHANGED <<engineVars, chainVars, leftAt, scan>>
    BY DEF Applied
  <1>2. /\ EngineInv /\ EngineContent /\ Idle /\ status = "Active"
        /\ scan.head \in BlockRef /\ IsRef(scan.head) /\ h \in Hash
        /\ scan.head.number \in Nat /\ Number[h] = scan.head.number
        /\ scan.from \in Nat /\ scan.end \in Nat
        /\ Trusted =>
             /\ cursor # NoPos => Newest(ring).hash \in Chain[h]
             /\ \A e \in EventsOf[h] : e.block < scan.from => ~After(e, cursor)
             /\ scan.anchor # NoBlock => scan.anchor.hash \in Chain[h]
        /\ ~NothingNew => cursor.block < scan.from
        /\ NothingNew => scan.end < scan.from /\ scan.end = scan.head.number
        /\ scan.spans = <<>> => Marks(scan.walked, vouched)
        /\ leftAt = NoPoint
    BY <1>1, AppliedFacts
  <1>3. UNCHANGED <<fold, cursor, ring, slots, snap, todo, done, canon, steady, scan>>
    BY <1>1 DEF engineVars, chainVars
  <1>4. HeadRead /\ WalkAnswers /\ BatchContent
    BY DEF ContentInv, WalkControl
  <1>5. \A e \in EventsOf[h] : e.block \in Nat /\ e.block <= Number[h]
    BY <1>2, EventsAreEvents, EventsBelow, ChainHolds
  <1>6. Marks(walked', vouched')
    <2>1. CASE NothingNew
      BY <1>1, <1>2, <2>1 DEF NothingNew
    <2>2. CASE ~NothingNew
      <3>1. Trusted /\ vouched' = scan.head
        BY <1>1, <2>2 DEF Trusted
      <3>2. VouchedClaims(scan.head)
        <4>1. cursor # NoPos => \A e \in EventsOf[h] : e.block = cursor.block => ~After(e, cursor)
          BY <1>2, <2>2, <3>1
        <4>2. QED
          BY <1>2, <3>1, <4>1 DEF VouchedClaims
      <3>3. CASE scan.spans # <<>>
        BY <1>1, <3>1, <3>2, <3>3 DEF Marks, WalkedClaims
      <3>4. CASE scan.spans = <<>>
        <4>1. scan.anchor # NoBlock /\ walked' = scan.anchor
          BY <1>1, <2>2, <3>4 DEF NothingNew
        <4>2. /\ IsRef(scan.anchor) /\ scan.anchor.number = scan.end
              /\ cursor.block <= scan.end /\ scan.end < scan.from /\ StartBlock <= scan.end
          BY <1>1, <1>4, <4>1 DEF WalkAnswers, BatchContent, InBatch
        <4>3. Number[scan.anchor.hash] = scan.end /\ scan.anchor.hash \in Chain[h]
          BY <1>2, <3>1, <4>1, <4>2 DEF IsRef
        <4>4. cursor # NoPos => Newest(ring).hash \in Chain[scan.anchor.hash]
          <5>1. SUFFICES ASSUME cursor # NoPos
                         PROVE  Newest(ring).hash \in Chain[scan.anchor.hash]
            OBVIOUS
          <5>2. Number[Newest(ring).hash] = cursor.block /\ Newest(ring).hash \in Chain[h]
            BY <1>2, <3>1, <5>1, ContentFacts
          <5>3. QED
            BY <1>2, <4>2, <4>3, <5>2, ChainIsLinear
        <4>5. \A e \in EventsOf[scan.anchor.hash] : ~After(e, cursor)
          <5>1. SUFFICES ASSUME NEW e \in EventsOf[scan.anchor.hash]
                         PROVE  ~After(e, cursor)
            OBVIOUS
          <5>2. e \in EventsOf[h] /\ e.block <= scan.end
            BY <1>2, <4>3, EventsBelow
          <5>3. e.block < scan.from
            BY <1>2, <1>5, <4>2, <5>2
          <5>4. QED
            BY <1>2, <3>1, <5>2, <5>3
        <4>6. WalkedClaims(scan.anchor)
          BY <4>2, <4>4, <4>5 DEF WalkedClaims
        <4>7. QED
          BY <3>1, <3>2, <4>1, <4>3, <4>6 DEF Marks
      <3>5. QED
        BY <3>3, <3>4
    <2>3. QED
      BY <2>1, <2>2
  <1>7. Marks(walked, vouched)'
    BY <1>3, <1>6 DEF Marks, WalkedClaims, VouchedClaims
  <1>8. CaughtUpSoon'
    <2>1. SUFFICES ASSUME NothingNew, steady
                   PROVE  Holds(fold, EventsOf[canon])
      BY <1>3 DEF CaughtUpSoon, NothingNew
    <2>2. Trusted /\ canon = h
      BY <1>2, <1>4, <2>1, BlocksAre DEF Trusted, HeadRead
    <2>3. \A e \in EventsOf[h] : ~After(e, cursor)
      BY <1>2, <1>5, <2>1, <2>2
    <2>4. QED
      BY <1>2, <2>2, <2>3, HoldsAll
  <1>9. EngineContent'
    BY <1>2, <1>3, EngineStays
  <1>10. HeadRead' /\ Bisecting'
    BY <1>1, <1>3, <1>4 DEF HeadRead, Bisecting
  <1>11. QED
    BY <1>1, <1>2, <1>7, <1>8, <1>9, <1>10, TickStays

LEMMA CheckpointRuleContent ==
    ASSUME ControlInv, ContentInv, CheckpointRule
    PROVE  ContentInv'
  <1>1. /\ pc = "checkpoint" /\ pc' = "offer" /\ AutoCheckpoint
        /\ UNCHANGED <<chainVars, driverVars, scan>>
    BY DEF CheckpointRule
  <1>2. /\ EngineInv /\ EngineContent /\ Idle /\ leftAt = NoPoint
        /\ Marks(walked, vouched) /\ HeadRead /\ CaughtUpSoon
    BY <1>1, CallingFacts DEF ContentInv, WalkControl, Marked
  <1>3. Checkpoint \/ UNCHANGED engineVars
    BY <1>1 DEF AutoCheckpoint, RunCheckpoint
  <1>4. UNCHANGED <<fold, cursor, ring, canon, steady, scan, walked, vouched, leftAt>>
    BY <1>1, <1>3 DEF Checkpoint, engineVars, chainVars, driverVars
  <1>5. EngineContent'
    <2>1. CASE Checkpoint
      BY <1>2, <2>1, CheckpointContent
    <2>2. CASE UNCHANGED engineVars
      BY <1>2, <2>2, EngineStays DEF engineVars
    <2>3. QED
      BY <1>3, <2>1, <2>2
  <1>6. Marks(walked, vouched)'
    BY <1>2, <1>4 DEF Marks, WalkedClaims, VouchedClaims
  <1>7. CaughtUpSoon' /\ Bisecting' /\ HeadRead'
    BY <1>1, <1>2, <1>4 DEF CaughtUpSoon, Closing, Bisecting, HeadRead, NothingNew
  <1>8. QED
    BY <1>1, <1>2, <1>4, <1>5, <1>6, <1>7, TickStays

LEMMA OfferContent ==
    ASSUME ControlInv, ContentInv, NoOffer \/ OfferTaken \/ OfferRefused
    PROVE  ContentInv'
  <1>1. PICK outcome :
          /\ pc = "offer" /\ EndTick(outcome)
          /\ outcome = "Idle" => NothingNew
          /\ UNCHANGED <<chainVars, walked, vouched, caughtUp>>
          /\ UNCHANGED engineVars \/ EncodeDurableSnapshot
    BY DEF NoOffer, OfferTaken, OfferRefused, Outcome
  <1>2. /\ EngineInv /\ EngineContent /\ Idle /\ status = "Active" /\ ret # "running"
        /\ Marks(walked, vouched) /\ CaughtUpSoon /\ span \in 1..MaxSpan
    BY <1>1, CallingFacts DEF ContentInv, Marked
  <1>3. UNCHANGED <<fold, cursor, ring, slots, status, resets, canon, steady>>
    BY <1>1 DEF engineVars, EncodeDurableSnapshot, chainVars
  <1>4. EngineInv' /\ EngineContent'
    <2>1. CASE EncodeDurableSnapshot
      BY <1>2, <2>1, EncodeDurableContent, EncodeDurableSnapshotKeepsInv
    <2>2. CASE UNCHANGED engineVars
      BY <1>2, <2>2, EngineStays, EngineUnchanged DEF engineVars
    <2>3. QED
      BY <1>1, <2>1, <2>2
  <1>5. /\ pc' = "idle" /\ tick' = outcome /\ scan' = NoScan /\ leftAt' = EnginePoint'
    BY <1>1, <1>2, <1>3, <1>4, EndTickIs DEF EngineInv
  <1>6. Marks(walked, vouched)'
    BY <1>1, <1>2, <1>3 DEF Marks, WalkedClaims, VouchedClaims
  <1>7. CaughtUpMeansFolded'
    BY <1>1, <1>2, <1>3, <1>5 DEF CaughtUpMeansFolded, CaughtUpSoon, Closing
  <1>8. QED
    BY <1>2, <1>3, <1>4, <1>5, <1>6, <1>7, TickOver

-----------------------------------------------------------------------------
(***************************************************************************)
(* The scan.                                                               *)
(***************************************************************************)
LEMMA StepContent ==
    ASSUME ControlInv, ContentInv, Step
    PROVE  ContentInv'
  <1>1. /\ pc = "idle" /\ UNCHANGED <<engineVars, chainVars, caughtUp>>
        /\ IF Undisturbed
           THEN UNCHANGED <<walked, vouched>>
           ELSE walked' = NoBlock /\ vouched' = NoBlock
        /\ IF status = "Active"
           THEN leftAt' = NoPoint /\ pc' = "head" /\ UNCHANGED <<scan, span, tick>>
           ELSE EndTick("Terminal")
    BY DEF Step
  <1>2. /\ EngineInv /\ EngineContent /\ Marked /\ HeadRead /\ span \in 1..MaxSpan
    BY DEF ControlInv, ContentInv, WalkControl, TypeOK
  <1>3. UNCHANGED <<fold, cursor, ring, slots, status, snap, todo, done, canon, steady>>
    BY <1>1 DEF engineVars, chainVars
  <1>4. EngineInv' /\ EngineContent'
    BY <1>1, <1>2, <1>3, EngineUnchanged, EngineStays
  <1>5. Marks(walked, vouched)'
    <2>1. CASE Undisturbed
      <3>1. Marks(walked, vouched) /\ UNCHANGED <<walked, vouched>>
        BY <1>1, <1>2, <2>1 DEF Undisturbed, Marked
      <3>2. QED
        BY <1>3, <3>1 DEF Marks, WalkedClaims, VouchedClaims
    <2>2. CASE ~Undisturbed
      BY <1>1, <2>2 DEF Marks, WalkedClaims, VouchedClaims
    <2>3. QED
      BY <2>1, <2>2
  <1>6. CASE status = "Active"
    <2>1. leftAt' = NoPoint /\ pc' = "head" /\ UNCHANGED scan
      BY <1>1, <1>6
    <2>2. HeadRead' /\ CaughtUpSoon' /\ Bisecting'
      BY <1>2, <1>3, <2>1 DEF HeadRead, CaughtUpSoon, Closing, Bisecting
    <2>3. QED
      BY <1>4, <1>5, <2>1, <2>2, TickStays
  <1>7. CASE status # "Active"
    <2>1. /\ pc' = "idle" /\ tick' = "Terminal" /\ scan' = NoScan
          /\ status' # "Active" /\ leftAt' = NoPoint
      BY <1>1, <1>2, <1>3, <1>4, <1>7, EndTickIs DEF EngineInv
    <2>2. CaughtUpMeansFolded'
      BY <2>1 DEF CaughtUpMeansFolded
    <2>3. QED
      BY <1>4, <1>5, <2>1, <2>2, TickOver
  <1>8. QED
    BY <1>6, <1>7

\* A step to another call of the scan.
LEMMA ScanStays ==
    ASSUME pc' \in Reading, leftAt' = NoPoint,
           EngineContent', Marks(walked, vouched)', WalkControl', WalkContent'
    PROVE  ContentInv'
  <1>1. Marked' /\ LeftBehind'
    BY DEF Marked, LeftBehind, Reading
  <1>2. BatchContent' /\ CaughtUpSoon' /\ Bisecting'
    BY DEF BatchContent, InBatch, CaughtUpSoon, Closing, Bisecting, Reading
  <1>3. CaughtUpMeansFolded'
    BY DEF CaughtUpMeansFolded, IsCaughtUp, Settled, Reading
  <1>4. QED
    BY <1>1, <1>2, <1>3 DEF ContentInv

\* What holds where the scan stands.
LEMMA ScanFacts ==
    ASSUME ControlInv, ContentInv, pc \in Reading
    PROVE  /\ status = "Active" /\ ret # "running" /\ Idle /\ leftAt = NoPoint
           /\ EngineInv /\ EngineContent /\ Marks(walked, vouched)
           /\ HeadRead /\ Lags /\ WalkBounds /\ WalkAnswers /\ WalkContent
           /\ scan \in Scan /\ scan.head \in BlockRef /\ scan.head # NoBlock /\ IsRef(scan.head)
           /\ scan.head.hash \in Hash /\ scan.head.number \in Nat
           /\ Number[scan.head.hash] = scan.head.number /\ scan.head = Ref(scan.head.hash)
           /\ canon \in Hash
           /\ ~Left <=> scan.head.hash \in Chain[canon]
           /\ steady => canon = scan.head.hash
           /\ scan.from \in Nat /\ scan.end \in Nat /\ span \in 1..MaxSpan
           /\ walked \in Blocks /\ vouched \in Blocks
           /\ cursor.block \in Int /\ cursor.block >= -1
           /\ cursor \in Position \cup {NoPos} /\ (cursor = NoPos => cursor.block = -1)
  <1>1. /\ status = "Active" /\ ret # "running" /\ Idle /\ leftAt = NoPoint
        /\ scan \in Scan /\ DriverTypes /\ scan.head # NoBlock /\ scan.head \in BlockRef
        /\ EngineInv /\ EngineTypeOK /\ span \in 1..MaxSpan
    BY CallingFacts DEF Reading
  <1>2. EngineContent /\ Marks(walked, vouched) /\ HeadRead /\ Lags /\ WalkBounds /\ WalkAnswers
        /\ WalkContent
    BY DEF ContentInv, WalkControl, Marked, Reading
  <1>3. IsRef(scan.head)
    BY <1>1, <1>2 DEF HeadRead
  <1>4. /\ scan.head.hash \in Hash /\ scan.head.number \in Nat
        /\ Number[scan.head.hash] = scan.head.number /\ scan.head = Ref(scan.head.hash)
    BY <1>1, <1>3, BlocksAre DEF IsRef
  <1>5. canon \in Hash /\ walked \in Blocks /\ vouched \in Blocks
    BY <1>1 DEF DriverTypes
  <1>6. ~Left <=> scan.head.hash \in Chain[canon]
    BY <1>1, <1>3, <1>5, HeaderConfirms DEF Left, HeaderAt
  <1>7. steady => canon = scan.head.hash
    BY <1>1, <1>2 DEF HeadRead
  <1>8. scan.from \in Nat /\ scan.end \in Nat
    BY <1>1, ScanFields
  <1>9. /\ cursor.block \in Int /\ cursor.block >= -1
        /\ cursor \in Position \cup {NoPos} /\ (cursor = NoPos => cursor.block = -1)
    BY <1>1, CursorIs
  <1>10. QED
    BY <1>1, <1>2, <1>3, <1>4, <1>5, <1>6, <1>7, <1>8, <1>9

LEMMA ReadHeadContent ==
    ASSUME ControlInv, ContentInv, ReadHead
    PROVE  ContentInv'
  <1>1. /\ pc = "head" /\ scan' = [scan EXCEPT !.head = Ref(canon)]
        /\ pc' = IF Number[canon] < Floor THEN "lag" ELSE "resume"
        /\ UNCHANGED <<engineVars, canon, driverVars>>
    BY DEF ReadHead
  <1>2. /\ EngineContent /\ Marks(walked, vouched) /\ leftAt = NoPoint /\ scan = NoScan
        /\ canon \in Hash
    BY <1>1, TypesSplit DEF ContentInv, Marked, ControlInv, TickControl, DriverTypes
  <1>3. UNCHANGED <<fold, cursor, ring, slots, snap, todo, done, walked, vouched, leftAt>>
    BY <1>1 DEF engineVars, driverVars
  <1>4. EngineContent'
    BY <1>2, <1>3, EngineStays
  <1>5. Marks(walked, vouched)'
    BY <1>2, <1>3 DEF Marks, WalkedClaims, VouchedClaims
  <1>6. /\ scan'.head = Ref(canon) /\ scan' = [NoScan EXCEPT !.head = scan'.head]
    BY <1>1, <1>2, NoScanIs DEF Scan
  <1>7. Ref(canon) # NoBlock /\ IsRef(Ref(canon)) /\ Ref(canon).hash = canon
        /\ Ref(canon).number = Number[canon]
    BY <1>2, BlocksAre
  <1>8. HeadRead'
    BY <1>1, <1>6, <1>7 DEF HeadRead
  <1>9. Lags'
    <2>1. Floor' = Floor
      BY <1>3 DEF Floor
    <2>2. QED
      BY <1>1, <1>6, <1>7, <2>1 DEF Lags
  <1>10. WalkBounds' /\ WalkAnswers' /\ WalkContent'
    BY <1>1 DEF WalkBounds, WalkAnswers, WalkContent, InWalk
  <1>11. QED
    BY <1>1, <1>2, <1>3, <1>4, <1>5, <1>8, <1>9, <1>10, ScanStays DEF Reading, WalkControl

\* A ring has a newest entry at or below a height, or none.
LEMMA AtOrBelowExists ==
    ASSUME NEW r \in Seq(BlockRef), NEW c, RingEndsAt(r, c), NEW number \in Nat
    PROVE  \E m \in 0..Len(r) : AtOrBelow(r, number, m)
  <1> DEFINE Bad == {k \in 1..Len(r) : r[k].number > number}
  <1>1. /\ Len(r) \in Nat /\ \A k \in 1..Len(r) : r[k].number \in Nat
        /\ \A k, j \in 1..Len(r) : k < j => r[k].number < r[j].number
    BY RingEntries DEF RingEndsAt
  <1>2. CASE Bad = {}
    <2>1. \A k \in 1..Len(r) : r[k].number <= number /\ k <= Len(r)
      BY <1>1, <1>2
    <2>2. AtOrBelow(r, number, Len(r)) /\ Len(r) \in 0..Len(r)
      BY <1>1, <2>1 DEF AtOrBelow
    <2>3. QED
      BY <2>2
  <1>3. CASE Bad # {}
    <2>1. Bad \in SUBSET Nat
      OBVIOUS
    <2>2. PICK n \in Bad : \A k \in Bad : n <= k
      BY <1>3, <2>1, LeastNumber
    <2>3. n \in 1..Len(r) /\ r[n].number > number /\ n - 1 \in 0..Len(r)
      BY <1>1, <2>2
    <2>4. ASSUME NEW k \in 1..Len(r)
          PROVE  k <= n - 1 <=> r[k].number <= number
      <3>1. CASE k < n
        <4>1. k \notin Bad
          BY <2>2, <2>3, <3>1
        <4>2. QED
          BY <1>1, <2>3, <3>1, <4>1
      <3>2. CASE n <= k
        <4>1. r[n].number <= r[k].number
          BY <1>1, <2>3, <3>2
        <4>2. QED
          BY <1>1, <2>3, <3>2, <4>1
      <3>3. QED
        BY <2>3, <3>1, <3>2
    <2>5. AtOrBelow(r, number, n - 1)
      BY <2>3, <2>4 DEF AtOrBelow
    <2>6. QED
      BY <2>3, <2>5
  <1>4. QED
    BY <1>2, <1>3

LEMMA LagCheckContent ==
    ASSUME ControlInv, ContentInv, LagCheck
    PROVE  ContentInv'
  <1>1. /\ pc = "lag" /\ UNCHANGED <<engineVars, chainVars, walked, vouched>>
        /\ IF Lagging
           THEN caughtUp' = TRUE /\ EndTick("Idle")
           ELSE pc' = "resume" /\ UNCHANGED <<caughtUp, leftAt, span, tick, scan>>
    BY DEF LagCheck
  <1>2. /\ EngineInv /\ EngineContent /\ Marks(walked, vouched) /\ leftAt = NoPoint
        /\ HeadRead /\ Lags /\ ret # "running" /\ canon \in Hash
        /\ scan.head \in BlockRef /\ IsRef(scan.head) /\ scan.head.hash \in Hash
        /\ scan.head.number \in Nat /\ Number[scan.head.hash] = scan.head.number
        /\ ~Left <=> scan.head.hash \in Chain[canon]
        /\ steady => canon = scan.head.hash
        /\ walked \in Blocks /\ cursor.block \in Int
    BY <1>1, ScanFacts DEF Reading
  <1>3. UNCHANGED <<fold, cursor, ring, slots, snap, todo, done, walked, vouched, canon, steady>>
    BY <1>1 DEF engineVars, chainVars
  <1>4. Floor' = Floor /\ scan.head.number < Floor /\ Floor \in Int
    BY <1>1, <1>2, <1>3, BlocksAre DEF Lags, Floor
  <1>5. CASE Lagging
    <2>1. EndTick("Idle")
      BY <1>1, <1>5
    <2>2. CaughtUpMeansFolded'
      <3>1. steady => ~(Number[canon] >= Floor)
        BY <1>2, <1>4
      <3>2. QED
        BY <1>3, <1>4, <3>1 DEF CaughtUpMeansFolded
    <2>3. QED
      BY <1>1, <1>2, <2>1, <2>2, QuietEndContent
  <1>6. CASE ~Lagging
    <2>1. pc' = "resume" /\ UNCHANGED <<leftAt, scan>>
      BY <1>1, <1>6
    <2>2. ASSUME ~Left
          PROVE  \E k \in 1..Len(ring) : /\ ring[k].number <= scan.head.number
                                         /\ ring[k].hash \notin Chain[scan.head.hash]
      <3>1. /\ ring \in Seq(BlockRef) /\ RingEndsAt(ring, cursor) /\ RingOnChain(ring)
            /\ cursor \in Position \cup {NoPos}
        BY <1>2, ContentFacts
      <3>2. PICK m \in 0..Len(ring) : AtOrBelow(ring, scan.head.number, m)
        BY <1>2, <3>1, AtOrBelowExists
      <3>3. PICK j \in 1..Len(ring) : ~(ring[j].number > scan.head.number)
        BY <1>6 DEF Lagging
      <3>4. m \in 1..Len(ring) /\ ring[m].number <= scan.head.number
        <4>1. ring[j].number \in Nat
          BY <3>1, RingEntries
        <4>2. j <= m
          BY <1>2, <3>2, <3>3, <4>1 DEF AtOrBelow
        <4>3. m \in 1..Len(ring) /\ m <= m
          BY <4>2
        <4>4. QED
          BY <3>2, <4>3 DEF AtOrBelow
      <3>5. ring[m] \in BlockRef /\ IsRef(ring[m]) /\ Number[ring[m].hash] = ring[m].number
        BY <3>1, <3>4, RingBlocks
      <3>6. /\ ring[m].number = scan.head.number => ring[m] # scan.head
            /\ ring[m].number # scan.head.number => HeaderAt(ring[m].number) # ring[m]
        BY <1>6, <3>2, <3>4 DEF Lagging
      <3>7. ring[m].hash \notin Chain[scan.head.hash]
        <4>1. SUFFICES ASSUME ring[m].hash \in Chain[scan.head.hash]
                       PROVE  FALSE
          OBVIOUS
        <4>2. ring[m].number # scan.head.number
          <5>1. ring[m].number = scan.head.number => ring[m].hash = scan.head.hash
            BY <1>2, <3>5, <4>1, ChainHolds
          <5>2. QED
            BY <1>2, <3>5, <3>6, <5>1, BlocksAre
        <4>3. ring[m].hash \in Chain[canon]
          BY <1>2, <2>2, <4>1, ChainHolds
        <4>4. HeaderAt(ring[m].number) = ring[m]
          BY <1>2, <3>5, <4>3, HeaderConfirms DEF HeaderAt
        <4>5. QED
          BY <3>6, <4>2, <4>4
      <3>8. QED
        BY <3>4, <3>7
    <2>3. Lags'
      <3>1. UNCHANGED <<Left, Floor>>
        BY <1>3, <1>4, <2>1 DEF Left, HeaderAt
      <3>2. scan = [NoScan EXCEPT !.head = scan.head]
        BY <1>1, <1>2 DEF Lags
      <3>3. QED
        BY <1>3, <2>1, <2>2, <3>1, <3>2 DEF Lags
    <2>4. HeadRead'
      BY <1>2, <1>3, <2>1 DEF HeadRead
    <2>5. WalkBounds' /\ WalkAnswers' /\ WalkContent'
      BY <2>1 DEF WalkBounds, WalkAnswers, WalkContent, InWalk
    <2>6. EngineContent' /\ Marks(walked, vouched)'
      BY <1>2, <1>3, EngineStays DEF Marks, WalkedClaims, VouchedClaims
    <2>7. QED
      BY <1>2, <2>1, <2>3, <2>4, <2>5, <2>6, ScanStays DEF Reading, WalkControl
  <1>7. QED
    BY <1>5, <1>6

\* A mark of the walk that the tick resumes from lies on the chain of its head.
LEMMA MarkIsBelowHead ==
    ASSUME ControlInv, ContentInv, pc = "resume", walked # NoBlock, ~Left,
           vouched = scan.head \/ scan.head = walked \/ HeaderAt(walked.number) = walked
    PROVE  walked.hash \in Chain[scan.head.hash]
  <1> DEFINE h == scan.head.hash
  <1>1. /\ EngineInv /\ EngineContent /\ Marks(walked, vouched) /\ Lags
        /\ scan.head # NoBlock /\ h \in Hash /\ scan.head.number \in Nat
        /\ Number[h] = scan.head.number /\ canon \in Hash /\ h \in Chain[canon]
        /\ walked \in Blocks
    BY ScanFacts DEF Reading
  <1>2. walked \in BlockRef /\ IsRef(walked) /\ Number[walked.hash] = walked.number
        /\ walked.number \in Nat /\ walked.hash \in Hash
    <2>1. walked \in BlockRef /\ IsRef(walked)
      BY <1>1, BlocksAre DEF Marks, WalkedClaims
    <2>2. QED
      BY <2>1, BlocksAre DEF IsRef
  <1>3. CASE vouched = scan.head
    BY <1>1, <1>3 DEF Marks
  <1>4. CASE scan.head = walked
    BY <1>1, <1>4, ChainHolds
  <1>5. CASE HeaderAt(walked.number) = walked
    <2>1. walked.hash \in Chain[canon]
      BY <1>1, <1>2, <1>5, HeaderConfirms DEF HeaderAt
    <2>2. CASE walked.number <= scan.head.number
      BY <1>1, <1>2, <2>1, <2>2, ChainIsLinear
    <2>3. CASE scan.head.number < walked.number
      <3>1. scan.head.number < Floor
        BY <2>3 DEF Floor
      <3>2. PICK k \in 1..Len(ring) : /\ ring[k].number <= scan.head.number
                                      /\ ring[k].hash \notin Chain[h]
        BY <1>1, <3>1 DEF Lags
      <3>3. /\ ring \in Seq(BlockRef) /\ RingEndsAt(ring, cursor) /\ RingOnChain(ring)
            /\ cursor \in Position \cup {NoPos} /\ ring # <<>> /\ cursor # NoPos
        BY <1>1, <3>2, ContentFacts
      <3>4. ring[k].hash \in Chain[Newest(ring).hash] /\ Number[ring[k].hash] = ring[k].number
        BY <3>2, <3>3, RingBlocks DEF RingOnChain
      <3>5. Newest(ring).hash \in Chain[walked.hash]
        BY <1>1, <3>3 DEF Marks, WalkedClaims
      <3>6. ring[k].hash \in Chain[walked.hash]
        BY <1>2, <3>4, <3>5, ChainHolds
      <3>7. ring[k].hash \in Chain[canon]
        BY <1>1, <2>1, <3>6, ChainHolds
      <3>8. ring[k].hash \in Chain[h]
        BY <1>1, <3>2, <3>4, <3>7, ChainIsLinear
      <3>9. QED
        BY <3>2, <3>8
    <2>4. QED
      BY <1>1, <1>2, <2>2, <2>3
  <1>6. QED
    BY <1>3, <1>4, <1>5

\* Where a tick resumes.
Resumes(from, resumed) ==
    \/ /\ walked # NoBlock /\ walked' = walked /\ resumed /\ from = walked.number + 1
       /\ vouched = scan.head \/ scan.head = walked \/ HeaderAt(walked.number) = walked
    \/ /\ walked = NoBlock /\ walked' = NoBlock /\ resumed
       /\ vouched = scan.head /\ cursor # NoPos /\ from = cursor.block + 1
    \/ /\ walked' = NoBlock /\ ~resumed
       /\ from = IF cursor = NoPos THEN StartBlock ELSE cursor.block

\* Below the start of the walk nothing is owed.
LEMMA ResumeIsSound ==
    ASSUME ControlInv, ContentInv, pc = "resume", NEW from, NEW resumed \in BOOLEAN,
           Resumes(from, resumed)
    PROVE  /\ from \in Nat /\ StartBlock <= from /\ cursor.block <= from
           /\ resumed => cursor.block < from
           /\ ~Left =>
                /\ resumed /\ cursor # NoPos => Newest(ring).hash \in Chain[scan.head.hash]
                /\ \A e \in EventsOf[scan.head.hash] : ~(e.block < from /\ After(e, cursor))
  <1> DEFINE h == scan.head.hash
  <1>1. /\ EngineInv /\ EngineContent /\ Marks(walked, vouched)
        /\ scan.head # NoBlock /\ h \in Hash /\ scan.head.number \in Nat
        /\ Number[h] = scan.head.number /\ walked \in Blocks
        /\ cursor.block \in Int /\ cursor.block >= -1
        /\ cursor \in Position \cup {NoPos} /\ (cursor = NoPos => cursor.block = -1)
    BY ScanFacts DEF Reading
  <1>2. cursor # NoPos =>
          /\ ring # <<>> /\ Newest(ring).hash \in Hash /\ Number[Newest(ring).hash] = cursor.block
          /\ StartBlock <= cursor.block /\ cursor.block \in Nat
    BY <1>1, ContentFacts
  <1>3. \A e \in EventsOf[h] :
          /\ e.block \in Nat /\ StartBlock <= e.block
          /\ After(e, cursor) => e.block >= cursor.block
    BY <1>1, EventsAreEvents DEF After
  <1>4. CASE walked # NoBlock /\ resumed /\ from = walked.number + 1
             /\ (vouched = scan.head \/ scan.head = walked \/ HeaderAt(walked.number) = walked)
    <2>1. walked \in BlockRef /\ IsRef(walked) /\ StartBlock <= walked.number
      BY <1>1, <1>4, BlocksAre DEF Marks, WalkedClaims
    <2>2. walked.number \in Nat /\ walked.hash \in Hash /\ Number[walked.hash] = walked.number
      BY <2>1, BlocksAre DEF IsRef
    <2>3. cursor # NoPos => Newest(ring).hash \in Chain[walked.hash]
      BY <1>1, <1>4 DEF Marks, WalkedClaims
    <2>4. cursor.block <= walked.number
      <3>1. CASE cursor = NoPos
        BY <1>1, <2>2, <3>1
      <3>2. CASE cursor # NoPos
        BY <1>2, <2>2, <2>3, <3>2, ChainHolds
      <3>3. QED
        BY <3>1, <3>2
    <2>5. ASSUME ~Left
          PROVE  /\ cursor # NoPos => Newest(ring).hash \in Chain[h]
                 /\ \A e \in EventsOf[h] : ~(e.block < from /\ After(e, cursor))
      <3>1. walked.hash \in Chain[h]
        BY <1>4, <2>5, MarkIsBelowHead
      <3>2. cursor # NoPos => Newest(ring).hash \in Chain[h]
        BY <1>1, <2>3, <3>1, ChainHolds
      <3>3. ASSUME NEW e \in EventsOf[h], e.block < from
            PROVE  ~After(e, cursor)
        <4>1. e.block <= Number[walked.hash]
          BY <1>3, <1>4, <2>2, <3>3
        <4>2. e \in EventsOf[walked.hash]
          BY <1>1, <3>1, <4>1, EventsBelow
        <4>3. QED
          BY <1>1, <1>4, <4>2 DEF Marks, WalkedClaims
      <3>4. QED
        BY <3>2, <3>3
    <2>6. from \in Nat /\ StartBlock <= from /\ cursor.block < from /\ cursor.block <= from
      BY <1>1, <1>4, <2>1, <2>2, <2>4
    <2>7. QED
      BY <2>5, <2>6
  <1>5. CASE walked = NoBlock /\ resumed /\ vouched = scan.head /\ cursor # NoPos
             /\ from = cursor.block + 1
    <2>1. /\ Newest(ring).hash \in Chain[h]
          /\ \A e \in EventsOf[h] : e.block = cursor.block => ~After(e, cursor)
      BY <1>1, <1>5 DEF Marks, VouchedClaims
    <2>2. \A e \in EventsOf[h] : ~(e.block < from /\ After(e, cursor))
      BY <1>2, <1>3, <1>5, <2>1
    <2>3. from \in Nat /\ StartBlock <= from /\ cursor.block < from /\ cursor.block <= from
      BY <1>2, <1>5
    <2>4. QED
      BY <2>1, <2>2, <2>3
  <1>6. CASE ~resumed /\ from = IF cursor = NoPos THEN StartBlock ELSE cursor.block
    <2>1. from \in Nat /\ StartBlock <= from /\ cursor.block <= from
      BY <1>1, <1>2, <1>6
    <2>2. \A e \in EventsOf[h] : ~(e.block < from /\ After(e, cursor))
      BY <1>2, <1>3, <1>6
    <2>3. QED
      BY <1>6, <2>1, <2>2
  <1>7. QED
    BY <1>4, <1>5, <1>6 DEF Resumes

LEMMA ResumeContent ==
    ASSUME ControlInv, ContentInv, Resume
    PROVE  ContentInv'
  <1> DEFINE known   == vouched = scan.head
             marked  == walked # NoBlock
             holds   == known \/ scan.head = walked \/ HeaderAt(walked.number) = walked
             above   == ~marked /\ known /\ cursor # NoPos
             from    == IF marked /\ holds THEN walked.number + 1
                        ELSE IF above THEN cursor.block + 1
                        ELSE IF cursor = NoPos THEN StartBlock
                        ELSE cursor.block
             end     == Least(scan.head.number, from + span * Window - 1)
             resumed == (marked /\ holds) \/ above
  <1>0. /\ pc = "resume" /\ walked' = IF marked /\ ~holds THEN NoBlock ELSE walked
        /\ scan' = [scan EXCEPT !.from = from, !.end = end, !.resumed = resumed]
        /\ pc' = IF from <= end THEN "window" ELSE "boundary"
        /\ UNCHANGED <<engineVars, chainVars, vouched, leftAt>>
    BY DEF Resume
  <1>1. /\ pc = "resume" /\ Resumes(from, resumed) /\ resumed \in BOOLEAN
        /\ end = Least(scan.head.number, from + span * Window - 1)
        /\ scan' = [scan EXCEPT !.from = from, !.end = end, !.resumed = resumed]
        /\ pc' = IF from <= end THEN "window" ELSE "boundary"
        /\ UNCHANGED <<engineVars, chainVars, vouched, leftAt>>
    BY <1>0 DEF Resumes
  <1> HIDE DEF from, end, resumed
  <1>2. /\ EngineContent /\ Marks(walked, vouched) /\ leftAt = NoPoint
        /\ HeadRead /\ Lags /\ scan \in Scan
        /\ scan.head \in BlockRef /\ scan.head.number \in Nat /\ span \in 1..MaxSpan
    BY <1>1, ScanFacts DEF Reading
  <1>3. /\ from \in Nat /\ StartBlock <= from /\ cursor.block <= from
        /\ resumed => cursor.block < from
        /\ ~Left =>
             /\ resumed /\ cursor # NoPos => Newest(ring).hash \in Chain[scan.head.hash]
             /\ \A e \in EventsOf[scan.head.hash] : ~(e.block < from /\ After(e, cursor))
    BY <1>1, ResumeIsSound
  <1>4. /\ scan.spans = <<>> /\ scan.anchor = NoBlock /\ scan.boundary = NoBlock
    <2>1. scan = [NoScan EXCEPT !.head = scan.head]
      BY <1>1, <1>2 DEF Lags
    <2>2. QED
      BY <2>1, NoScanIs DEF Scan
  <1>5. UNCHANGED <<fold, cursor, ring, slots, snap, todo, done, vouched, leftAt, canon, steady>>
    BY <1>1 DEF engineVars, chainVars
  <1>6. /\ scan'.head = scan.head /\ scan'.spans = <<>> /\ scan'.anchor = NoBlock
        /\ scan'.boundary = NoBlock /\ scan'.from = from /\ scan'.end = end
        /\ scan'.resumed = resumed
    BY <1>1, <1>2, <1>4 DEF Scan
  <1>7. /\ end <= scan.head.number
        /\ pc' # "window" => end < from /\ ~(end < scan.head.number)
    <2>1. span * Window \in Nat /\ span * Window >= 1
      BY <1>2
    <2>2. QED
      BY <1>1, <1>2, <1>3, <2>1 DEF Least
  <1>8. Marks(walked, vouched)'
    <2>1. walked' = walked \/ walked' = NoBlock
      BY <1>1 DEF Resumes
    <2>2. QED
      BY <1>2, <1>5, <2>1 DEF Marks, WalkedClaims, VouchedClaims
  <1>9. HeadRead' /\ Lags' /\ pc' \in {"window", "boundary"}
    BY <1>1, <1>2, <1>5, <1>6 DEF HeadRead, Lags
  <1>10. WalkBounds'
    BY <1>3, <1>5, <1>6, <1>7 DEF WalkBounds
  <1>11. WalkAnswers'
    BY <1>6, <1>9 DEF WalkAnswers
  <1>12. WalkContent'
    <2>1. UNCHANGED Left
      BY <1>5, <1>6 DEF Left, HeaderAt
    <2>2. ~Left => AllAmong(scan.head.hash, from, cursor, <<>>)
      BY <1>3 DEF AllAmong
    <2>3. QED
      BY <1>3, <1>5, <1>6, <2>1, <2>2 DEF WalkContent
  <1>13. EngineContent'
    BY <1>2, <1>5, EngineStays
  <1>14. QED
    BY <1>2, <1>5, <1>8, <1>9, <1>10, <1>11, <1>12, <1>13, ScanStays DEF Reading, WalkControl

\* The events of one window: those of the head's chain, while the head stays.
LEMMA WindowIsSound ==
    ASSUME NEW c \in Hash, NEW h \in Chain[c], NEW from \in Nat, NEW to \in Nat, from <= to,
           to <= Number[h], StartBlock <= from, NEW p,
           NEW k \in 1..Len(EventsIn(c, from, to, p))
    PROVE  SpanOfChain(EventsIn(c, from, to, p)[k], h, to + 1)
  <1> DEFINE s == EventsIn(c, from, to, p)[k]
  <1>0. ReadFrom(s, c, from, to, p)
    BY EventsInSound
  <1> HIDE DEF s
  <1>1. /\ s \in Span /\ s.number \in from..to /\ s.hash \in Chain[c] /\ s.number = Number[s.hash]
        /\ \A i \in 1..Len(s.logs) : \E j \in DOMAIN Logs[s.hash] : Logs[s.hash][j] = s.logs[i]
    BY <1>0 DEF ReadFrom
  <1>2. h \in Hash /\ Number[h] \in Nat /\ s.number \in Nat /\ s.hash \in Hash
        /\ s.logs \in Seq(Nat)
    <2>1. s.number \in Nat /\ s.hash \in Hash /\ s.logs \in Seq(Nat)
      BY <1>1 DEF Span
    <2>2. QED
      BY <2>1, ChainHolds
  <1>3. s.hash \in Chain[h]
    BY <1>1, <1>2, ChainIsLinear
  <1>4. StartBlock <= s.number /\ s.number < to + 1
    BY <1>1, <1>2
  <1>5. ASSUME NEW i \in 1..Len(s.logs)
        PROVE  EventAt(s, i) \in EventsOf[h]
    <2>1. /\ EventAt(s, i).block = s.number /\ EventAt(s, i).log = s.logs[i]
          /\ EventAt(s, i).hash = s.hash /\ EventAt(s, i) \in Event
      BY <1>2 DEF EventAt, Event
    <2>2. \E j \in DOMAIN Logs[s.hash] : Logs[s.hash][j] = s.logs[i]
      BY <1>1
    <2> DEFINE e == EventAt(s, i)
    <2>3. /\ e \in Event /\ e.hash \in Chain[h] /\ e.block = Number[e.hash] /\ StartBlock <= e.block
          /\ \E j \in DOMAIN Logs[e.hash] : Logs[e.hash][j] = e.log
      BY <1>1, <1>3, <1>4, <2>1, <2>2
    <2> HIDE DEF e
    <2>4. e \in EventsOf[h]
      BY <1>2, <2>3, EventsOfAre
    <2>5. QED
      BY <2>4 DEF e
  <1>6. SpanOfChain(s, h, to + 1)
    BY <1>1, <1>3, <1>4, <1>5 DEF SpanOfChain
  <1>7. QED
    BY <1>6 DEF s

LEMMA WindowIsComplete ==
    ASSUME NEW c \in Hash, NEW h \in Chain[c], NEW from \in Nat, NEW to \in Nat, from <= to,
           to <= Number[h], NEW q, NEW p, p = q \/ p = NoPos,
           AllAmong(h, from, q, <<>>)
    PROVE  AllAmong(h, to + 1, q, EventsIn(c, from, to, p))
  <1> DEFINE spans == EventsIn(c, from, to, p)
  <1>1. SUFFICES ASSUME NEW e \in EventsOf[h], e.block < to + 1, After(e, q)
                 PROVE  Among(e, spans)
    BY DEF AllAmong
  <1>2. h \in Hash
    BY ChainHolds
  <1>3. e.block \in Nat /\ After(e, NoPos)
    BY <1>2, EventsAreEvents
  <1>4. ~(e.block < from)
    <2>1. ~Among(e, <<>>)
      BY DEF Among
    <2>2. QED
      BY <1>1, <2>1 DEF AllAmong
  <1>5. e.block \in from..to /\ After(e, p)
    BY <1>1, <1>3, <1>4
  <1>6. e \in EventsOf[c]
    BY EventsBelow
  <1>7. QED
    BY <1>5, <1>6, EventsInComplete

LEMMA ReadWindowContent ==
    ASSUME ControlInv, ContentInv, ReadWindow
    PROVE  ContentInv'
  <1> DEFINE to == Least(scan.end, scan.from + Window - 1)
             atCursor == cursor # NoPos /\ scan.from = cursor.block
             named == atCursor /\ HasLogs(SpanOn(canon, cursor.block, NoPos))
             p == IF atCursor THEN cursor ELSE NoPos
             owed == EventsIn(canon, scan.from, to, p)
             boundary == IF named THEN HeaderAt(cursor.block) ELSE scan.boundary
             h == scan.head.hash
  <1>1. /\ pc = "window"
        /\ UNCHANGED <<engineVars, chainVars, driverVars>>
        /\ scan' = [scan EXCEPT !.from = to + 1, !.spans = owed, !.boundary = boundary]
        /\ pc' = IF owed # <<>> \/ to = scan.end THEN "boundary" ELSE "window"
    BY DEF ReadWindow
  <1>2. /\ EngineInv /\ EngineContent /\ Marks(walked, vouched) /\ leftAt = NoPoint
        /\ HeadRead /\ WalkBounds /\ WalkAnswers /\ WalkContent
        /\ scan \in Scan /\ h \in Hash /\ scan.head.number \in Nat /\ Number[h] = scan.head.number
        /\ canon \in Hash
        /\ ~Left <=> h \in Chain[canon]
        /\ scan.from \in Nat /\ scan.end \in Nat
        /\ cursor.block \in Int /\ cursor.block >= -1
    BY <1>1, ScanFacts DEF Reading
  <1>3. /\ scan.from <= scan.end /\ scan.spans = <<>> /\ scan.anchor = NoBlock
        /\ StartBlock <= scan.from /\ scan.end <= scan.head.number /\ cursor.block <= scan.from
        /\ scan.boundary # NoBlock => IsRef(scan.boundary) /\ scan.boundary.number = cursor.block
    BY <1>1, <1>2 DEF ControlInv, TickControl, WalkBounds, WalkAnswers, InWalk
  <1>4. to \in Nat /\ scan.from <= to /\ to <= scan.end
    BY <1>2, <1>3 DEF Least
  <1> HIDE DEF to
  <1>5. owed \in Seq(Span)
    BY <1>2, <1>4, EventsInGathers
  <1>6. /\ HeaderAt(cursor.block) \in Blocks
        /\ HeaderAt(cursor.block) # NoBlock =>
             IsRef(HeaderAt(cursor.block)) /\ HeaderAt(cursor.block).number = cursor.block
        /\ cursor.block <= scan.head.number /\ ~Left /\ HeaderAt(cursor.block) # NoBlock =>
             HeaderAt(cursor.block).hash \in Chain[h]
    <2>1. /\ HeaderOn(canon, cursor.block) \in Blocks
          /\ HeaderOn(canon, cursor.block) # NoBlock =>
               /\ IsRef(HeaderOn(canon, cursor.block))
               /\ HeaderOn(canon, cursor.block).number = cursor.block
      BY <1>2, HeaderOnIs
    <2>2. cursor.block <= scan.head.number /\ ~Left =>
            HeaderOn(canon, cursor.block) = HeaderOn(h, cursor.block)
      BY <1>2, HeaderBelow
    <2>3. HeaderOn(h, cursor.block) # NoBlock => HeaderOn(h, cursor.block).hash \in Chain[h]
      BY <1>2, HeaderOnIs
    <2>4. QED
      BY <2>1, <2>2, <2>3 DEF HeaderAt
  <1>7. /\ boundary \in Blocks
        /\ boundary # NoBlock => IsRef(boundary) /\ boundary.number = cursor.block
    BY <1>2, <1>3, <1>6, ScanFields
  <1>8. ASSUME ~Left
        PROVE  /\ boundary # NoBlock /\ (cursor.block <= scan.head.number \/ steady)
                    => boundary.hash \in Chain[h]
               /\ \A k \in 1..Len(owed) : SpanOfChain(owed[k], h, to + 1)
               /\ AllAmong(h, to + 1, cursor, owed)
    <2>1. to <= Number[h] /\ h \in Chain[canon]
      BY <1>2, <1>3, <1>4, <1>8
    <2>2. \A k \in 1..Len(owed) : SpanOfChain(owed[k], h, to + 1)
      BY <1>2, <1>3, <1>4, <2>1, WindowIsSound
    <2>3. AllAmong(h, scan.from, cursor, <<>>)
          /\ (scan.boundary # NoBlock /\ (cursor.block <= scan.head.number \/ steady)
                => scan.boundary.hash \in Chain[h])
      BY <1>1, <1>2, <1>3, <1>8 DEF WalkContent, InWalk
    <2>4. AllAmong(h, to + 1, cursor, owed)
      BY <1>2, <1>4, <2>1, <2>3, WindowIsComplete
    <2>5. CASE named
      <3>1. cursor.block <= scan.head.number
        BY <1>2, <1>3, <2>5
      <3>2. QED
        BY <1>6, <1>8, <2>2, <2>4, <2>5, <3>1
    <2>6. CASE ~named
      BY <2>2, <2>3, <2>4, <2>6
    <2>7. QED
      BY <2>5, <2>6
  <1> HIDE DEF owed, boundary
  <1>9. UNCHANGED <<fold, cursor, ring, slots, snap, todo, done, walked, vouched, leftAt,
                    canon, steady>>
    BY <1>1 DEF engineVars, chainVars, driverVars
  <1>10. /\ scan'.head = scan.head /\ scan'.spans = owed /\ scan'.anchor = NoBlock
         /\ scan'.boundary = boundary /\ scan'.from = to + 1 /\ scan'.end = scan.end
         /\ scan'.resumed = scan.resumed
    <2>1. to + 1 \in Nat /\ scan' = ReadInto(scan, to + 1, owed, boundary)
      BY <1>1, <1>4 DEF ReadInto
    <2>2. QED
      BY <1>2, <1>3, <1>5, <1>7, <2>1, ScanReads
  <1>11. HeadRead' /\ Lags' /\ pc' \in {"window", "boundary"}
    BY <1>1, <1>2, <1>9, <1>10 DEF HeadRead, Lags
  <1>12. WalkBounds'
    <2>1. /\ StartBlock <= to + 1 /\ StartBlock < to + 1 /\ cursor.block < to + 1
          /\ cursor.block <= to + 1 /\ to + 1 <= scan.end + 1
      BY <1>2, <1>3, <1>4
    <2>2. pc' = "window" => owed = <<>>
      BY <1>1
    <2>3. pc' # "window" /\ owed = <<>> => scan.end < to + 1
      BY <1>1, <1>2, <1>4
    <2>4. QED
      BY <1>3, <1>9, <1>10, <2>1, <2>2, <2>3 DEF WalkBounds
  <1>13. WalkAnswers'
    BY <1>7, <1>9, <1>10, <1>11 DEF WalkAnswers
  <1>14. WalkContent'
    <2>1. UNCHANGED Left
      BY <1>9, <1>10 DEF Left, HeaderAt
    <2>2. ~Left => (scan.resumed /\ cursor # NoPos => Newest(ring).hash \in Chain[h])
      BY <1>1, <1>2 DEF WalkContent, InWalk
    <2>3. QED
      BY <1>8, <1>9, <1>10, <2>1, <2>2 DEF WalkContent
  <1>15. EngineContent' /\ Marks(walked, vouched)'
    BY <1>2, <1>9, EngineStays DEF Marks, WalkedClaims, VouchedClaims
  <1>16. QED
    BY <1>2, <1>9, <1>11, <1>12, <1>13, <1>14, <1>15, ScanStays DEF Reading, WalkControl

\* What the source answers about a height, until the head leaves.
LEMMA AnswersAre ==
    ASSUME ControlInv, ContentInv, pc \in Reading, NEW number \in Int
    PROVE  /\ HeaderAt(number) \in Blocks
           /\ HeaderAt(number) # NoBlock => IsRef(HeaderAt(number)) /\ HeaderAt(number).number = number
           /\ /\ HeaderAt(number) # NoBlock
              /\ steady \/ (~Left /\ number <= scan.head.number)
              => HeaderAt(number).hash \in Chain[scan.head.hash]
  <1> DEFINE h == scan.head.hash
  <1>1. /\ h \in Hash /\ Number[h] = scan.head.number /\ canon \in Hash
        /\ ~Left <=> h \in Chain[canon]
        /\ steady => canon = h
    BY ScanFacts
  <1>2. /\ HeaderOn(canon, number) \in Blocks
        /\ HeaderOn(canon, number) # NoBlock =>
             /\ IsRef(HeaderOn(canon, number)) /\ HeaderOn(canon, number).number = number
             /\ HeaderOn(canon, number).hash \in Chain[canon]
    BY <1>1, HeaderOnIs
  <1>3. ~Left /\ number <= scan.head.number => HeaderOn(canon, number) = HeaderOn(h, number)
    BY <1>1, HeaderBelow
  <1>4. HeaderOn(h, number) # NoBlock => HeaderOn(h, number).hash \in Chain[h]
    BY <1>1, HeaderOnIs
  <1>5. QED
    BY <1>1, <1>2, <1>3, <1>4 DEF HeaderAt

LEMMA ReadBoundaryContent ==
    ASSUME ControlInv, ContentInv, ReadBoundary
    PROVE  ContentInv'
  <1> DEFINE boundary == IF cursor = NoPos \/ scan.boundary # NoBlock THEN scan.boundary
                         ELSE IF scan.resumed THEN Newest(ring)
                         ELSE IF scan.head.number = cursor.block THEN scan.head
                         ELSE HeaderAt(cursor.block)
             h == scan.head.hash
  <1>1. /\ pc = "boundary" /\ scan' = [scan EXCEPT !.boundary = boundary]
        /\ pc' = IF scan.spans # <<>> THEN "recheck"
                 ELSE IF scan.end < scan.head.number THEN "anchor"
                 ELSE "apply"
        /\ UNCHANGED <<engineVars, chainVars, driverVars>>
    BY DEF ReadBoundary
  <1>2. /\ EngineInv /\ EngineContent /\ Marks(walked, vouched) /\ leftAt = NoPoint
        /\ HeadRead /\ WalkBounds /\ WalkAnswers /\ WalkContent
        /\ scan \in Scan /\ h \in Hash /\ scan.head.number \in Nat /\ Number[h] = scan.head.number
        /\ scan.head # NoBlock /\ IsRef(scan.head)
        /\ scan.from \in Nat /\ scan.end \in Nat /\ cursor.block \in Int
    BY <1>1, ScanFacts DEF Reading
  <1>3. /\ HeaderAt(cursor.block) # NoBlock =>
             IsRef(HeaderAt(cursor.block)) /\ HeaderAt(cursor.block).number = cursor.block
        /\ /\ HeaderAt(cursor.block) # NoBlock
           /\ steady \/ (~Left /\ cursor.block <= scan.head.number)
           => HeaderAt(cursor.block).hash \in Chain[h]
    BY <1>1, <1>2, AnswersAre DEF Reading
  <1>4. cursor # NoPos => /\ Newest(ring) # NoBlock /\ IsRef(Newest(ring))
                          /\ Newest(ring).number = cursor.block
    <2>1. SUFFICES ASSUME cursor # NoPos
                   PROVE  /\ Newest(ring) # NoBlock /\ IsRef(Newest(ring))
                          /\ Newest(ring).number = cursor.block
      OBVIOUS
    <2>2. ring # <<>> /\ Newest(ring).number = cursor.block /\ cursor.block \in Nat
      BY <1>2, <2>1, ContentFacts
    <2>3. IsRef(Newest(ring))
      BY <1>2, <2>2, ContentFacts, RingBlocks
    <2>4. QED
      BY <2>2, <2>3 DEF NoBlock
  <1>5. boundary # NoBlock => IsRef(boundary) /\ boundary.number = cursor.block
    BY <1>1, <1>2, <1>3, <1>4 DEF WalkAnswers, InWalk
  <1>6. ASSUME ~Left, boundary # NoBlock, cursor.block <= scan.head.number \/ steady
        PROVE  boundary.hash \in Chain[h]
    <2>1. CASE cursor = NoPos \/ scan.boundary # NoBlock
      BY <1>1, <1>2, <1>6, <2>1 DEF WalkContent, InWalk
    <2>2. CASE ~(cursor = NoPos \/ scan.boundary # NoBlock) /\ scan.resumed
      BY <1>1, <1>2, <1>6, <2>2 DEF WalkContent, InWalk
    <2>3. CASE ~(cursor = NoPos \/ scan.boundary # NoBlock) /\ ~scan.resumed
      BY <1>2, <1>3, <1>6, <2>3, ChainHolds
    <2>4. QED
      BY <2>1, <2>2, <2>3
  <1> HIDE DEF boundary
  <1>7. UNCHANGED <<fold, cursor, ring, slots, snap, todo, done, walked, vouched, leftAt,
                    canon, steady>>
    BY <1>1 DEF engineVars, chainVars, driverVars
  <1>8. /\ scan'.head = scan.head /\ scan'.spans = scan.spans /\ scan'.anchor = scan.anchor
        /\ scan'.boundary = boundary /\ scan'.from = scan.from /\ scan'.end = scan.end
        /\ scan'.resumed = scan.resumed
    BY <1>1, <1>2 DEF Scan
  <1>9. HeadRead' /\ Lags' /\ pc' \in {"recheck", "anchor", "apply"}
    BY <1>1, <1>2, <1>7, <1>8 DEF HeadRead, Lags
  <1>10. WalkBounds'
    BY <1>1, <1>2, <1>7, <1>8, <1>9 DEF WalkBounds, InWalk
  <1>11. WalkAnswers'
    <2>1. scan.anchor = NoBlock /\ scan.end <= scan.head.number
      BY <1>1, <1>2 DEF WalkAnswers, WalkBounds, InWalk
    <2>2. pc' = "apply" => NothingNew' /\ scan.end = scan.head.number
      BY <1>1, <1>2, <1>8, <2>1 DEF NothingNew
    <2>3. pc' = "anchor" => scan.spans = <<>> /\ scan.end < scan.head.number
      BY <1>1
    <2>4. QED
      BY <1>5, <1>7, <1>8, <1>9, <2>1, <2>2, <2>3 DEF WalkAnswers
  <1>12. WalkContent'
    <2>1. UNCHANGED Left
      BY <1>7, <1>8 DEF Left, HeaderAt
    <2>2. QED
      BY <1>1, <1>2, <1>6, <1>7, <1>8, <2>1 DEF WalkContent, InWalk
  <1>13. EngineContent' /\ Marks(walked, vouched)'
    BY <1>2, <1>7, EngineStays DEF Marks, WalkedClaims, VouchedClaims
  <1>14. QED
    BY <1>2, <1>7, <1>9, <1>10, <1>11, <1>12, <1>13, ScanStays DEF Reading, WalkControl

LEMMA ReadAnchorContent ==
    ASSUME ControlInv, ContentInv, ReadAnchor
    PROVE  ContentInv'
  <1> DEFINE h == scan.head.hash
             anchor == HeaderAt(scan.end)
  <1>1. /\ pc = "anchor" /\ scan' = [scan EXCEPT !.anchor = anchor] /\ pc' = "recheck"
        /\ UNCHANGED <<engineVars, chainVars, driverVars>>
    BY DEF ReadAnchor
  <1>2. /\ EngineContent /\ Marks(walked, vouched) /\ leftAt = NoPoint
        /\ HeadRead /\ WalkBounds /\ WalkAnswers /\ WalkContent /\ scan \in Scan
        /\ scan.head.number \in Nat /\ scan.end \in Nat
    BY <1>1, ScanFacts DEF Reading
  <1>3. /\ scan.spans = <<>> /\ scan.end < scan.head.number
    BY <1>1, <1>2 DEF WalkAnswers, InWalk
  <1>4. /\ anchor # NoBlock => IsRef(anchor) /\ anchor.number = scan.end
        /\ anchor # NoBlock /\ ~Left => anchor.hash \in Chain[h]
    <2>1. scan.end \in Int /\ scan.end <= scan.head.number
      BY <1>2, <1>3
    <2>2. QED
      BY <1>1, <2>1, AnswersAre DEF Reading
  <1> HIDE DEF anchor
  <1>5. UNCHANGED <<fold, cursor, ring, slots, snap, todo, done, walked, vouched, leftAt,
                    canon, steady>>
    BY <1>1 DEF engineVars, chainVars, driverVars
  <1>6. /\ scan'.head = scan.head /\ scan'.spans = scan.spans /\ scan'.anchor = anchor
        /\ scan'.boundary = scan.boundary /\ scan'.from = scan.from /\ scan'.end = scan.end
        /\ scan'.resumed = scan.resumed
    BY <1>1, <1>2 DEF Scan
  <1>7. HeadRead' /\ Lags'
    BY <1>1, <1>2, <1>5, <1>6 DEF HeadRead, Lags
  <1>8. WalkBounds'
    BY <1>1, <1>2, <1>5, <1>6 DEF WalkBounds, InWalk
  <1>9. WalkAnswers'
    BY <1>1, <1>2, <1>3, <1>4, <1>5, <1>6 DEF WalkAnswers, InWalk
  <1>10. WalkContent'
    <2>1. UNCHANGED Left
      BY <1>5, <1>6 DEF Left, HeaderAt
    <2>2. QED
      BY <1>1, <1>2, <1>4, <1>5, <1>6, <2>1 DEF WalkContent, InWalk
  <1>11. EngineContent' /\ Marks(walked, vouched)'
    BY <1>2, <1>5, EngineStays DEF Marks, WalkedClaims, VouchedClaims
  <1>12. QED
    BY <1>1, <1>2, <1>5, <1>7, <1>8, <1>9, <1>10, <1>11, ScanStays DEF Reading, WalkControl

LEMMA RecheckContent ==
    ASSUME ControlInv, ContentInv, Recheck
    PROVE  ContentInv'
  <1>1. /\ pc = "recheck"
        /\ UNCHANGED <<engineVars, chainVars, walked, vouched, caughtUp>>
        /\ IF Unmoved
           THEN pc' = "apply" /\ UNCHANGED <<leftAt, span, tick, scan>>
           ELSE EndTick("SourceError")
    BY DEF Recheck
  <1>2. /\ EngineContent /\ Marks(walked, vouched) /\ leftAt = NoPoint /\ ret # "running"
        /\ HeadRead /\ WalkBounds /\ WalkAnswers /\ WalkContent
    BY <1>1, ScanFacts DEF Reading
  <1>3. CASE Unmoved
    <2>1. pc' = "apply" /\ UNCHANGED <<leftAt, scan>> /\ ~Left /\ ~NothingNew
      BY <1>1, <1>3 DEF Unmoved, Left, NothingNew
    <2>2. UNCHANGED <<fold, cursor, ring, slots, snap, todo, done, walked, vouched, leftAt,
                      canon, steady>>
      BY <1>1, <2>1 DEF engineVars, chainVars
    <2>3. UNCHANGED <<Left, NothingNew>>
      BY <2>1, <2>2 DEF Left, HeaderAt, NothingNew
    <2>4. HeadRead' /\ Lags'
      BY <1>2, <2>1, <2>2 DEF HeadRead, Lags
    <2>5. WalkBounds'
      BY <1>1, <1>2, <2>1, <2>2 DEF WalkBounds, InWalk
    <2>6. WalkAnswers'
      BY <1>1, <1>2, <2>1, <2>2, <2>3 DEF WalkAnswers, InWalk
    <2>7. WalkContent'
      BY <1>1, <1>2, <2>1, <2>2, <2>3 DEF WalkContent, InWalk
    <2>8. EngineContent' /\ Marks(walked, vouched)'
      BY <1>2, <2>2, EngineStays DEF Marks, WalkedClaims, VouchedClaims
    <2>9. QED
      BY <1>2, <2>1, <2>4, <2>5, <2>6, <2>7, <2>8, ScanStays DEF Reading, WalkControl
  <1>4. CASE ~Unmoved
    BY <1>1, <1>2, <1>4, QuietEndContent
  <1>5. QED
    BY <1>3, <1>4

-----------------------------------------------------------------------------
(***************************************************************************)
(* The batch is handed to the engine.                                      *)
(***************************************************************************)
\* A step to the loop over the batch.
LEMMA BatchStarts ==
    ASSUME pc' = "applying", leftAt' = NoPoint, walked' = NoBlock, EngineContent',
           scan'.spans = <<>> \/ ret' \in Verdicts => Marks(scan.walked, vouched)',
           HeadRead', WalkAnswers', BatchContent'
    PROVE  ContentInv'
  <1>1. Marked' /\ LeftBehind'
    BY DEF Marked, LeftBehind
  <1>2. Lags' /\ WalkBounds' /\ WalkContent'
    BY DEF Lags, WalkBounds, WalkContent, InWalk
  <1>3. CaughtUpSoon' /\ Bisecting' /\ CaughtUpMeansFolded'
    BY DEF CaughtUpSoon, Closing, Bisecting, CaughtUpMeansFolded, IsCaughtUp, Settled
  <1>4. QED
    BY <1>1, <1>2, <1>3 DEF ContentInv, WalkControl

\* The engine accepts a batch only on the chain the batch was read from.
LEMMA AcceptedOnChain ==
    ASSUME ControlInv, ContentInv, pc = "apply", Trusted,
           Verdict([boundary |-> scan.boundary, spans |-> scan.spans]) = "accept"
    PROVE  ~Left /\ (cursor # NoPos => Newest(ring).hash \in Chain[scan.head.hash])
  <1> DEFINE h == scan.head.hash
             b == [boundary |-> scan.boundary, spans |-> scan.spans]
  <1>1. /\ EngineInv /\ EngineContent /\ WalkBounds /\ WalkAnswers /\ WalkContent
        /\ h \in Hash /\ canon \in Hash /\ (~Left <=> h \in Chain[canon]) /\ (steady => canon = h)
        /\ scan.head.number \in Nat /\ scan.from \in Nat /\ scan.end \in Nat /\ cursor.block \in Int
    BY ScanFacts DEF Reading
  <1>2. ~Left
    <2>1. CASE ~NothingNew
      BY <1>1, <2>1 DEF WalkAnswers
    <2>2. CASE steady
      <3>1. h \in Chain[h]
        BY <1>1, ChainHolds
      <3>2. QED
        BY <1>1, <2>2, <3>1
    <2>3. QED
      BY <2>1, <2>2 DEF Trusted
  <1>3. cursor.block <= scan.head.number \/ steady
    <2>1. SUFFICES ASSUME ~NothingNew
                   PROVE  cursor.block <= scan.head.number
      BY DEF Trusted
    <2>2. scan.spans # <<>> \/ scan.end < scan.head.number
      BY <1>1, <2>1 DEF NothingNew, WalkAnswers, InWalk
    <2>3. cursor.block < scan.from /\ scan.from <= scan.end + 1 /\ scan.end <= scan.head.number
      BY <1>1, <2>2 DEF WalkBounds, InWalk
    <2>4. QED
      BY <1>1, <2>3
  <1>4. ASSUME cursor # NoPos
        PROVE  Newest(ring).hash \in Chain[h]
    <2>1. scan.boundary # NoBlock /\ ~Contradicts(ring, cursor.block, scan.boundary.hash)
      BY <1>4 DEF Verdict
    <2>2. /\ Len(ring) \in 1..Len(ring) /\ Newest(ring) = ring[Len(ring)]
          /\ Newest(ring).number = cursor.block
      BY <1>1, <1>4, TipIs
    <2>3. Newest(ring).hash = scan.boundary.hash
      BY <2>1, <2>2 DEF Contradicts
    <2>4. scan.boundary.hash \in Chain[h]
      BY <1>1, <1>2, <1>3, <2>1 DEF WalkContent, InWalk
    <2>5. QED
      BY <2>3, <2>4
  <1>5. QED
    BY <1>2, <1>4

LEMMA ApplyContent ==
    ASSUME ControlInv, ContentInv, Apply
    PROVE  ContentInv'
  <1> DEFINE h == scan.head.hash
             b == [boundary |-> scan.boundary, spans |-> scan.spans]
  <1>1. /\ pc = "apply" /\ pc' = "applying" /\ ApplyBatch(b)
        /\ scan' = [scan EXCEPT !.walked = walked] /\ walked' = NoBlock
        /\ UNCHANGED <<chainVars, vouched, leftAt>>
    BY DEF Apply
  <1>2. /\ EngineInv /\ EngineContent /\ Marks(walked, vouched) /\ leftAt = NoPoint /\ ret # "running"
        /\ HeadRead /\ WalkBounds /\ WalkAnswers /\ WalkContent /\ scan \in Scan
        /\ h \in Hash /\ scan.head.number \in Nat /\ scan.from \in Nat /\ scan.end \in Nat
        /\ cursor.block \in Int /\ status = "Active"
    BY <1>1, ScanFacts DEF Reading
  <1>3. /\ scan'.head = scan.head /\ scan'.spans = scan.spans /\ scan'.anchor = scan.anchor
        /\ scan'.from = scan.from /\ scan'.end = scan.end /\ scan'.walked = walked
    BY <1>1, <1>2 DEF Scan
  <1>4. /\ UNCHANGED <<fold, cursor, ring, slots, snap, canon, steady, vouched, leftAt>>
        /\ done' = 0 /\ done = 0
    <2>1. UNCHANGED <<fold, cursor, ring, slots, snap>> /\ done' = 0
      BY <1>1 DEF ApplyBatch, RefuseBatch, AcceptBatch, Returns
    <2>2. done = 0
      BY <1>2, IdleFacts DEF Idle
    <2>3. QED
      BY <1>1, <2>1, <2>2 DEF chainVars
  <1>5. EngineContent'
    BY <1>2, <1>4, EngineStays
  <1>6. Marks(scan.walked, vouched)'
    BY <1>2, <1>3, <1>4 DEF Marks, WalkedClaims, VouchedClaims
  <1>7. HeadRead' /\ UNCHANGED <<Left, NothingNew, Trusted>>
    BY <1>2, <1>3, <1>4 DEF HeadRead, Left, HeaderAt, NothingNew, Trusted
  <1>8. WalkAnswers'
    BY <1>1, <1>2, <1>3, <1>7 DEF WalkAnswers, InWalk
  <1>9. BatchContent'
    <2>1. CASE RefuseBatch(b)
      <3>1. ret' = Verdict(b) /\ Verdict(b) # "accept"
        BY <2>1 DEF RefuseBatch, Returns
      <3>2. ret' \notin {"running", "ok"}
        BY <3>1 DEF Verdict
      <3>3. QED
        BY <3>2 DEF BatchContent, InBatch
    <2>2. CASE AcceptBatch(b)
      <3>1. Verdict(b) = "accept" /\ todo' = scan.spans
        BY <2>2 DEF AcceptBatch
      <3>2. \A i, j \in 1..Len(scan.spans) : i < j => scan.spans[i].number < scan.spans[j].number
        <4>1. b \in Batch /\ b.spans = scan.spans
          BY <1>1, ApplyIsOfBatch
        <4>2. Validate(b)
          BY <3>1, <1>2 DEF Verdict
        <4> HIDE DEF b
        <4>3. QED
          BY <4>1, <4>2, ValidAscends
      <3>3. Trusted => BatchOnChain'
        <4>1. SUFFICES ASSUME Trusted
                       PROVE  BatchOnChain'
          OBVIOUS
        <4>2. ~Left /\ (cursor # NoPos => Newest(ring).hash \in Chain[h])
          BY <1>1, <3>1, <4>1, AcceptedOnChain
        <4>3. /\ \A k \in 1..Len(scan.spans) : SpanOfChain(scan.spans[k], h, scan.from)
              /\ AllAmong(h, scan.from, cursor, scan.spans)
              /\ scan.anchor # NoBlock => scan.anchor.hash \in Chain[h]
          BY <1>1, <1>2, <4>2 DEF WalkContent, InWalk
        <4>4. Reach' = cursor
          BY <1>4 DEF Reach
        <4>5. ASSUME NEW e \in EventsOf[h], e.block < scan.from, After(e, cursor)
              PROVE  Pending(e)'
          <5>1. Among(e, scan.spans)
            BY <4>3, <4>5 DEF AllAmong
          <5>2. PICK k \in 1..Len(scan.spans) : \E j \in 1..Len(scan.spans[k].logs) :
                  e = EventAt(scan.spans[k], j)
            BY <5>1 DEF Among
          <5>3. PICK j \in 1..Len(scan.spans[k].logs) : e = EventAt(scan.spans[k], j)
            BY <5>2
          <5>4. 0 < j
            OBVIOUS
          <5>5. QED
            BY <1>4, <3>1, <5>3, <5>4 DEF Pending
        <4>6. QED
          BY <1>3, <1>4, <3>1, <4>2, <4>3, <4>4, <4>5 DEF BatchOnChain
      <3>4. ~NothingNew => cursor.block < scan.from
        <4>1. SUFFICES ASSUME ~NothingNew
                       PROVE  cursor.block < scan.from
          OBVIOUS
        <4>2. scan.spans # <<>> \/ scan.end < scan.head.number
          BY <1>1, <1>2, <4>1 DEF NothingNew, WalkAnswers, InWalk
        <4>3. QED
          BY <1>1, <1>2, <4>2 DEF WalkBounds, InWalk
      <3>5. NothingNew => scan.end < scan.from
        BY <1>1, <1>2 DEF WalkBounds, InWalk, NothingNew
      <3>6. ASSUME scan.anchor # NoBlock
            PROVE  cursor.block <= scan.end /\ scan.end < scan.from /\ StartBlock <= scan.end
        <4>1. scan.spans = <<>> /\ scan.end < scan.head.number
          BY <1>1, <1>2, <3>6 DEF WalkAnswers, InWalk
        <4>2. /\ StartBlock < scan.from /\ cursor.block < scan.from /\ scan.from <= scan.end + 1
              /\ scan.end < scan.from
          BY <1>1, <1>2, <4>1 DEF WalkBounds, InWalk
        <4>3. QED
          BY <1>2, <4>2
      <3>7. QED
        BY <1>3, <1>4, <1>7, <3>1, <3>2, <3>3, <3>4, <3>5, <3>6 DEF BatchContent
    <2>3. QED
      BY <1>1, <2>1, <2>2 DEF ApplyBatch
  <1>10. QED
    BY <1>1, <1>2, <1>4, <1>5, <1>6, <1>7, <1>8, <1>9, BatchStarts

-----------------------------------------------------------------------------
(***************************************************************************)
(* Recovery from a fork.                                                   *)
(***************************************************************************)
\* What holds while the tick looks for the newest observed block that is still canonical.
LEMMA BisectFacts ==
    ASSUME ControlInv, ContentInv, pc = "bisect"
    PROVE  /\ EngineInv /\ EngineContent /\ HeadRead /\ Bisecting
           /\ walked = NoBlock /\ vouched = NoBlock /\ leftAt = NoPoint /\ Idle /\ status = "Active"
           /\ scan \in Scan /\ scan.lo \in Nat /\ scan.hi \in Nat /\ scan.lo <= scan.hi
           /\ scan.hi <= Len(ring) /\ Len(ring) \in Nat /\ canon \in Hash /\ span \in 1..MaxSpan
           /\ \A k \in 1..Len(ring) :
                /\ ring[k].hash \in Hash /\ ring[k].number \in Nat
                /\ HeaderAt(ring[k].number) = ring[k] <=> ring[k].hash \in Chain[canon]
           /\ \A j, k \in 1..Len(ring) : j <= k =>
                /\ ring[j].number <= ring[k].number
                /\ ring[k].hash \in Chain[canon] => ring[j].hash \in Chain[canon]
  <1>1. /\ EngineInv /\ Idle /\ status = "Active" /\ leftAt = NoPoint /\ scan \in Scan
        /\ span \in 1..MaxSpan /\ canon \in Hash
    BY CallingFacts DEF DriverTypes
  <1>2. /\ EngineContent /\ HeadRead /\ Bisecting /\ walked = NoBlock /\ vouched = NoBlock
    BY DEF ContentInv, WalkControl, Marked
  <1>3. scan.lo \in Nat /\ scan.hi \in Nat /\ scan.lo <= scan.hi /\ scan.hi <= Len(ring)
    BY <1>1, ScanFields DEF ControlInv, TickControl
  <1>4. Len(ring) \in Nat
    BY <1>1 DEF EngineInv, EngineTypeOK
  <1>5. /\ \A k \in 1..Len(ring) : /\ ring[k] \in BlockRef /\ IsRef(ring[k])
                                   /\ ring[k].hash \in Hash /\ ring[k].number \in Nat
        /\ \A j, k \in 1..Len(ring) : j <= k =>
             ring[j].hash \in Chain[ring[k].hash] /\ ring[j].number <= ring[k].number
    BY <1>1, <1>2, ContentFacts, RingBlocks
  <1>6. \A k \in 1..Len(ring) : HeaderAt(ring[k].number) = ring[k] <=> ring[k].hash \in Chain[canon]
    BY <1>1, <1>5, HeaderConfirms DEF HeaderAt
  <1>7. \A j, k \in 1..Len(ring) : j <= k /\ ring[k].hash \in Chain[canon]
          => ring[j].hash \in Chain[canon]
    BY <1>1, <1>5, ChainHolds
  <1>8. QED
    BY <1>1, <1>2, <1>3, <1>4, <1>5, <1>6, <1>7

LEMMA BisectContent ==
    ASSUME ControlInv, ContentInv, Bisect
    PROVE  ContentInv'
  <1> DEFINE mid == scan.lo + (scan.hi - scan.lo) \div 2
             seen == ring[mid + 1]
  <1>1. /\ pc = "bisect" /\ pc' = "bisect" /\ scan.lo < scan.hi
        /\ scan' = IF HeaderAt(seen.number) = seen
                   THEN [scan EXCEPT !.lo = mid + 1] ELSE [scan EXCEPT !.hi = mid]
        /\ UNCHANGED <<engineVars, chainVars, driverVars>>
    BY DEF Bisect
  <1>2. /\ EngineContent /\ HeadRead /\ Bisecting
        /\ walked = NoBlock /\ vouched = NoBlock /\ leftAt = NoPoint
        /\ scan \in Scan /\ scan.lo \in Nat /\ scan.hi \in Nat
        /\ scan.hi <= Len(ring) /\ Len(ring) \in Nat
        /\ \A k \in 1..Len(ring) : HeaderAt(ring[k].number) = ring[k] <=> ring[k].hash \in Chain[canon]
        /\ \A j, k \in 1..Len(ring) : j <= k /\ ring[k].hash \in Chain[canon]
             => ring[j].hash \in Chain[canon]
    BY <1>1, BisectFacts
  <1>3. mid \in Nat /\ scan.lo <= mid /\ mid < scan.hi
    BY <1>1, <1>2, Midpoint
  <1>4. mid + 1 \in 1..Len(ring)
    BY <1>2, <1>3
  <1> HIDE DEF mid
  <1>5. UNCHANGED <<fold, cursor, ring, slots, snap, todo, done, walked, vouched, leftAt, canon, steady>>
    BY <1>1 DEF engineVars, chainVars, driverVars
  <1>6. scan'.head = scan.head
    BY <1>1, <1>2 DEF Scan
  <1>7. Bisecting'
    <2>1. SUFFICES ASSUME steady, NEW k \in 1..Len(ring)
                   PROVE  /\ k <= scan'.lo => ring[k].hash \in Chain[canon]
                          /\ scan'.hi < k => ring[k].hash \notin Chain[canon]
      BY <1>5 DEF Bisecting
    <2>2. /\ k <= scan.lo => ring[k].hash \in Chain[canon]
          /\ scan.hi < k => ring[k].hash \notin Chain[canon]
      BY <1>1, <1>2, <2>1 DEF Bisecting
    <2>3. CASE HeaderAt(seen.number) = seen
      <3>1. scan'.lo = mid + 1 /\ scan'.hi = scan.hi
        BY <1>1, <1>2, <2>3 DEF Scan
      <3>2. k <= mid + 1 => ring[k].hash \in Chain[canon]
        BY <1>2, <1>4, <2>3
      <3>3. QED
        BY <2>2, <3>1, <3>2
    <2>4. CASE HeaderAt(seen.number) # seen
      <3>1. scan'.lo = scan.lo /\ scan'.hi = mid
        BY <1>1, <1>2, <2>4 DEF Scan
      <3>2. mid < k => mid + 1 <= k
        BY <1>3
      <3>3. mid < k => ring[k].hash \notin Chain[canon]
        BY <1>2, <1>4, <2>4, <3>2
      <3>4. QED
        BY <2>2, <3>1, <3>3
    <2>5. QED
      BY <2>3, <2>4
  <1>8. EngineContent' /\ HeadRead'
    BY <1>2, <1>5, <1>6, EngineStays DEF HeadRead
  <1>9. Marks(walked, vouched)' /\ CaughtUpSoon'
    BY <1>1, <1>2, <1>5 DEF Marks, WalkedClaims, VouchedClaims, CaughtUpSoon, Closing
  <1>10. QED
    BY <1>1, <1>2, <1>5, <1>7, <1>8, <1>9, TickStays

LEMMA RecoversContent ==
    ASSUME ControlInv, ContentInv, RollBackTo \/ Resync \/ Unrecoverable
    PROVE  ContentInv'
  <1>1. Bisected /\ UNCHANGED <<walked, vouched>>
    BY DEF RollBackTo, Resync, Unrecoverable
  <1>2. /\ EngineInv /\ EngineContent /\ walked = NoBlock /\ vouched = NoBlock /\ span \in 1..MaxSpan
        /\ Idle /\ status = "Active"
    BY <1>1, BisectFacts DEF Bisected
  <1>3. Marks(walked, vouched)'
    BY <1>1, <1>2 DEF Marks, WalkedClaims, VouchedClaims
  <1>4. EngineInv'
    <2>1. ControlInv'
      BY RecoversControl
    <2>2. QED
      BY <2>1 DEF ControlInv
  <1>5. PICK outcome \in {"RolledBack", "Resynced", "Terminal"} : EndTick(outcome)
    BY DEF RollBackTo, Resync, Unrecoverable
  <1>6. /\ pc' = "idle" /\ tick' = outcome /\ scan' = NoScan
        /\ status' = "Active" => leftAt' = EnginePoint'
        /\ status' # "Active" => leftAt' = NoPoint
    BY <1>2, <1>4, <1>5, EndTickIs DEF EngineInv
  <1>7. CaughtUpMeansFolded'
    BY <1>5, <1>6 DEF CaughtUpMeansFolded
  <1>8. EngineContent'
    <2>1. CASE RollBackTo
      <3>1. CanRetreat /\ Rollback(RetreatBlock)
        BY <2>1 DEF RollBackTo
      <3>2. RetreatBlock \in Nat
        BY <1>1, <3>1, RetreatIsObserved
      <3>3. QED
        BY <1>2, <3>1, <3>2, RollbackContent
    <2>2. CASE Resync
      <3>1. ring' = <<>> /\ slots' = <<>> /\ done' = 0 /\ UNCHANGED snap
        BY <2>2 DEF Resync, Reset, NoCall
      <3>2. QED
        BY <1>2, <3>1, FreshContent
    <2>3. CASE Unrecoverable
      <3>1. UNCHANGED <<fold, cursor, ring, slots, snap>> /\ done' = 0
        BY <2>3 DEF Unrecoverable, MarkUnrecoverable, NoCall
      <3>2. done = 0
        BY <1>2, IdleFacts
      <3>3. QED
        BY <1>2, <3>1, <3>2, EngineStays
    <2>4. QED
      BY <2>1, <2>2, <2>3
  <1>9. QED
    BY <1>3, <1>4, <1>6, <1>7, <1>8, TickOver

-----------------------------------------------------------------------------
(***************************************************************************)
(* The caller, between ticks.                                              *)
(***************************************************************************)
LEMMA BetweenTicks ==
    ASSUME EngineContent', pc' = "idle", scan' = NoScan,
           leftAt' = EnginePoint' => Marks(walked, vouched)',
           LeftBehind', CaughtUpMeansFolded'
    PROVE  ContentInv'
  <1>1. Marked'
    BY DEF Marked
  <1>2. WalkControl'
    <2>1. HeadRead'
      BY NoScanIs DEF HeadRead
    <2>2. Lags' /\ WalkBounds' /\ WalkAnswers'
      BY DEF Lags, WalkBounds, WalkAnswers, InWalk
    <2>3. QED
      BY <2>1, <2>2 DEF WalkControl
  <1>3. WalkContent' /\ BatchContent' /\ CaughtUpSoon' /\ Bisecting'
    BY DEF WalkContent, InWalk, BatchContent, InBatch, CaughtUpSoon, Closing, Bisecting
  <1>4. QED
    BY <1>1, <1>2, <1>3 DEF ContentInv

LEMMA PointsDiffer ==
    ASSUME EngineTypeOK
    PROVE  NoPoint # EnginePoint /\ EnginePoint.cursor = cursor /\ EnginePoint.resets = resets
  BY DEF NoPoint, EnginePoint, EngineTypeOK

\* A rollback that does not move the cursor restores what the engine holds already.
LEMMA RollbackInPlace ==
    ASSUME EngineInv, EngineContent, Idle, status = "Active",
           NEW block \in Nat, Rollback(block), cursor' = cursor
    PROVE  /\ UNCHANGED ring
           /\ \A events : Holds(fold, events) <=> Holds(fold', events)
  <1>1. PICK i \in 1..Len(slots), m \in 0..Len(ring) :
          /\ fold' = slots[i].fold /\ cursor' = slots[i].cursor
          /\ AtOrBelow(ring, slots[i].cursor.block, m) /\ ring' = SubSeq(ring, 1, m)
    BY RollbackRestores
  <1>2. /\ slots[i] \in Slot /\ FoldsOneChain(slots[i].fold, cursor, ring)
        /\ slots[i].cursor = cursor
    BY <1>1, SlotEntries
  <1>3. /\ ring \in Seq(BlockRef) /\ Len(ring) \in Nat /\ (ring = <<>> <=> cursor = NoPos)
        /\ SlotComplete(slots[i], ring)
    BY ContentFacts
  <1>4. m = Len(ring)
    <2>1. CASE ring = <<>>
      BY <1>3, <2>1
    <2>2. CASE ring # <<>>
      <3>1. Len(ring) \in 1..Len(ring) /\ ring[Len(ring)].number = cursor.block /\ cursor.block \in Nat
        BY <2>2, <1>3, ContentFacts DEF Newest
      <3>2. ring[Len(ring)].number <= slots[i].cursor.block
        BY <1>2, <3>1
      <3>3. Len(ring) <= m
        BY <1>1, <3>1, <3>2 DEF AtOrBelow
      <3>4. QED
        BY <1>3, <3>3
    <2>3. QED
      BY <2>1, <2>2
  <1>5. ring' = ring
    BY <1>1, <1>3, <1>4
  <1>6. Contents(fold') = Contents(fold)
    <2>1. CASE ring = <<>>
      <3>1. slots[i].fold \in Fold
        BY <1>2 DEF Slot
      <3>2. slots[i].fold = Genesis
        BY <1>2, <1>3, <2>1, <3>1, EmptyIs
      <3>3. fold = Genesis
        BY <2>1, IdleContent
      <3>4. QED
        BY <1>1, <3>2, <3>3
    <2>2. CASE ring # <<>>
      <3>1. Complete(slots[i].fold, cursor, Newest(ring).hash)
        BY <1>2, <1>3, <2>2 DEF SlotComplete
      <3>2. Contents(slots[i].fold) = UpTo(cursor, Newest(ring).hash) \ Foreign
        BY <1>2, <3>1, CompleteIs
      <3>3. Contents(fold) = UpTo(cursor, Newest(ring).hash) \ Foreign
        BY <2>2, IdleContent
      <3>4. QED
        BY <1>1, <3>2, <3>3
    <2>3. QED
      BY <2>1, <2>2
  <1>7. FoldsOneChain(fold, cursor, ring) /\ FoldsOneChain(fold', cursor, ring)
    BY <1>1, <1>2, IdleContent
  <1>8. ASSUME NEW events
        PROVE  Holds(fold, events) <=> Holds(fold', events)
    <2>1. Holds(fold, events) <=> Contents(fold) = events \ Foreign
      BY <1>7, HoldsIs
    <2>2. Holds(fold', events) <=> Contents(fold') = events \ Foreign
      BY <1>7, HoldsIs
    <2>3. QED
      BY <1>6, <2>1, <2>2
  <1>9. QED
    BY <1>5, <1>8

LEMMA CallerRollsBack ==
    ASSUME ControlInv, ContentInv, pc = "idle", NEW block \in RollbackTargets, Rollback(block),
           UNCHANGED <<chainVars, driverVars, pc, scan>>
    PROVE  ContentInv'
  <1>1. block \in Nat
    BY RollbackTargetsAssumption
  <1>2. /\ EngineInv /\ EngineTypeOK /\ EngineContent /\ Marked /\ LeftBehind /\ CaughtUpMeansFolded
        /\ scan = NoScan /\ Idle
        /\ leftAt # NoPoint => status = "Active" /\ leftAt \in [cursor : Position \cup {NoPos}, resets : Nat]
    BY TypesSplit DEF ControlInv, ContentInv, TickControl, EngineInv, TickTypes, Idle
  <1>3. EngineInv' /\ EngineTypeOK'
    BY <1>1, <1>2, RollbackKeepsInv DEF EngineInv
  <1>4. EngineContent'
    BY <1>1, <1>2, RollbackContent
  <1>5. /\ UNCHANGED <<canon, steady, walked, vouched, leftAt, caughtUp, tick, pc, scan, resets>>
        /\ status' = "Active"
    BY DEF chainVars, driverVars, Rollback
  <1>6. ~After(cursor', cursor) /\ Point(cursor) /\ Point(cursor')
    <2>1. PICK i \in 1..Len(slots) : cursor' = slots[i].cursor
      BY <1>1, <1>2, RollbackRestores
    <2>2. ~After(slots[i].cursor, cursor) /\ Point(slots[i].cursor)
      BY <1>2, SlotEntries
    <2>3. Point(cursor)
      BY <1>2, PointsCompare DEF EngineTypeOK
    <2>4. QED
      BY <2>1, <2>2, <2>3
  <1>7. LeftBehind'
    <2>1. SUFFICES ASSUME leftAt # NoPoint, leftAt.resets = resets
                   PROVE  ~After(cursor', leftAt.cursor)
      BY <1>2, <1>5 DEF LeftBehind
    <2>2. ~After(cursor, leftAt.cursor) /\ Point(leftAt.cursor)
      BY <1>2, <2>1, PointsCompare DEF LeftBehind
    <2>3. QED
      BY <1>6, <2>2, AfterTransitive
  <1>8. ASSUME leftAt' = EnginePoint'
        PROVE  /\ cursor' = cursor /\ UNCHANGED ring /\ status = "Active" /\ leftAt = EnginePoint
               /\ \A events : Holds(fold, events) <=> Holds(fold', events)
    <2>1. leftAt.cursor = cursor' /\ leftAt.resets = resets /\ leftAt # NoPoint
      <3>1. leftAt = EnginePoint' /\ EnginePoint' = [cursor |-> cursor', resets |-> resets']
        BY <1>5, <1>8 DEF EnginePoint
      <3>2. resets' \in Nat
        BY <1>3 DEF EngineTypeOK
      <3>3. leftAt # NoPoint
        BY <3>1, <3>2 DEF NoPoint
      <3>4. QED
        BY <1>5, <3>1, <3>3
    <2>2. ~After(cursor, cursor')
      BY <1>2, <2>1 DEF LeftBehind
    <2>3. cursor' = cursor
      <3>1. cursor.block = cursor'.block /\ cursor.log = cursor'.log
        BY <1>6, <2>2 DEF After, Point
      <3>2. cursor \in Position \cup {NoPos} /\ cursor' \in Position \cup {NoPos}
        BY <1>2, <1>3 DEF EngineTypeOK
      <3>3. QED
        BY <3>1, <3>2 DEF Position, NoPos
    <2>4. status = "Active"
      BY <1>2, <2>1
    <2>5. leftAt = EnginePoint
      BY <1>5, <1>8, <2>3 DEF EnginePoint
    <2>6. QED
      BY <1>1, <1>2, <2>3, <2>4, <2>5, RollbackInPlace
  <1>9. leftAt' = EnginePoint' => Marks(walked, vouched)'
    <2>1. SUFFICES ASSUME leftAt' = EnginePoint'
                   PROVE  Marks(walked, vouched)'
      OBVIOUS
    <2>2. Marks(walked, vouched)
      BY <1>2, <1>8, <2>1 DEF Marked
    <2>3. QED
      BY <1>5, <1>8, <2>1, <2>2 DEF Marks, WalkedClaims, VouchedClaims
  <1>10. CaughtUpMeansFolded'
    <2>1. SUFFICES ASSUME IsCaughtUp', tick = "Idle", steady, Number[canon] >= Floor'
                   PROVE  Holds(fold', EventsOf[canon])
      BY <1>5 DEF CaughtUpMeansFolded
    <2>2. caughtUp /\ leftAt' = EnginePoint'
      BY <1>5, <2>1 DEF IsCaughtUp, Settled
    <2>3. Floor' = Floor
      BY <1>5, <1>8, <2>2 DEF Floor
    <2>4. IsCaughtUp
      BY <1>8, <2>2 DEF IsCaughtUp, Settled
    <2>5. Holds(fold, EventsOf[canon])
      BY <1>2, <2>1, <2>3, <2>4 DEF CaughtUpMeansFolded
    <2>6. QED
      BY <1>8, <2>2, <2>5
  <1>11. QED
    BY <1>2, <1>4, <1>5, <1>7, <1>9, <1>10, BetweenTicks

LEMMA CallerMovesEngineContent ==
    ASSUME ControlInv, ContentInv, CallerMovesEngine
    PROVE  ContentInv'
  <1>1. /\ pc = "idle" /\ UNCHANGED <<chainVars, driverVars, pc, scan>>
        /\ (\E block \in RollbackTargets : Rollback(block)) \/ Reset(Genesis)
    BY DEF CallerMovesEngine
  <1>2. CASE \E block \in RollbackTargets : Rollback(block)
    <2>1. PICK block \in RollbackTargets : Rollback(block)
      BY <1>2
    <2>2. QED
      BY <1>1, <2>1, CallerRollsBack
  <1>3. CASE Reset(Genesis)
    <2>1. /\ EngineTypeOK /\ EngineContent /\ LeftBehind /\ scan = NoScan
          /\ leftAt # NoPoint => leftAt \in [cursor : Position \cup {NoPos}, resets : Nat]
      BY <1>1, TypesSplit DEF ControlInv, ContentInv, TickControl, TickTypes
    <2>2. /\ ring' = <<>> /\ slots' = <<>> /\ done' = 0 /\ UNCHANGED snap /\ resets' = resets + 1
      BY <1>3 DEF Reset, NoCall
    <2>3. pc' = "idle" /\ scan' = NoScan /\ UNCHANGED leftAt /\ resets \in Nat
      BY <1>1, <2>1 DEF driverVars, EngineTypeOK
    <2>4. EngineContent'
      BY <2>1, <2>2, FreshContent
    <2>5. leftAt # NoPoint => leftAt.resets \in Nat /\ leftAt.resets <= resets
      BY <2>1 DEF LeftBehind
    <2>6. leftAt # NoPoint => leftAt.resets < resets'
      BY <2>2, <2>3, <2>5
    <2>7. leftAt' # EnginePoint'
      <3>1. EnginePoint'.resets = resets'
        BY DEF EnginePoint
      <3>2. NoPoint.resets = -1
        BY DEF NoPoint
      <3>3. QED
        BY <2>2, <2>3, <2>5, <2>6, <3>1, <3>2
    <2>8. LeftBehind'
      BY <2>2, <2>3, <2>5, <2>6 DEF LeftBehind
    <2>9. CaughtUpMeansFolded'
      BY <2>7 DEF CaughtUpMeansFolded, IsCaughtUp, Settled
    <2>10. QED
      BY <2>3, <2>4, <2>7, <2>8, <2>9, BetweenTicks
  <1>4. QED
    BY <1>1, <1>2, <1>3

LEMMA CallerCheckpointsContent ==
    ASSUME ControlInv, ContentInv, CallerCheckpoints
    PROVE  ContentInv'
  <1>1. pc = "idle" /\ Checkpoint /\ UNCHANGED <<chainVars, driverVars, pc, scan>>
    BY DEF CallerCheckpoints, RunCheckpoint
  <1>2. /\ EngineInv /\ EngineContent /\ Marked /\ LeftBehind /\ CaughtUpMeansFolded /\ scan = NoScan
    BY <1>1 DEF ControlInv, ContentInv, TickControl
  <1>3. UNCHANGED <<fold, cursor, ring, status, resets, canon, steady, walked, vouched, leftAt,
                    caughtUp, tick, pc, scan>>
    BY <1>1 DEF Checkpoint, chainVars, driverVars
  <1>4. UNCHANGED EnginePoint
    BY <1>3 DEF EnginePoint
  <1>5. EngineContent'
    BY <1>1, <1>2, CheckpointContent
  <1>6. leftAt' = EnginePoint' => Marks(walked, vouched)'
    <2>1. leftAt = EnginePoint => Marks(walked, vouched)
      BY <1>1, <1>2 DEF Marked
    <2>2. QED
      BY <1>3, <1>4, <2>1 DEF Marks, WalkedClaims, VouchedClaims
  <1>7. LeftBehind'
    BY <1>2, <1>3 DEF LeftBehind
  <1>8. CaughtUpMeansFolded'
    BY <1>2, <1>3, <1>4 DEF CaughtUpMeansFolded, IsCaughtUp, Settled, Floor
  <1>9. QED
    BY <1>1, <1>2, <1>3, <1>5, <1>6, <1>7, <1>8, BetweenTicks

LEMMA CallerTakesSourceContent ==
    ASSUME ControlInv, ContentInv, CallerTakesSource
    PROVE  ContentInv'
  <1>1. /\ pc = "idle" /\ walked' = NoBlock /\ vouched' = NoBlock /\ steady' = FALSE
        /\ UNCHANGED <<engineVars, leftAt, pc, scan>>
    BY DEF CallerTakesSource
  <1>2. EngineContent /\ LeftBehind /\ scan = NoScan
    BY <1>1 DEF ControlInv, ContentInv, TickControl
  <1>3. UNCHANGED <<fold, cursor, ring, slots, snap, todo, done, resets>>
    BY <1>1 DEF engineVars
  <1>4. EngineContent' /\ LeftBehind'
    BY <1>1, <1>2, <1>3, EngineStays DEF LeftBehind
  <1>5. Marks(walked, vouched)' /\ CaughtUpMeansFolded'
    BY <1>1 DEF Marks, WalkedClaims, VouchedClaims, CaughtUpMeansFolded
  <1>6. QED
    BY <1>1, <1>2, <1>4, <1>5, BetweenTicks

LEMMA AroundContent ==
    ASSUME ControlInv, ContentInv, Around
    PROVE  ContentInv'
  <1>1. pc = "around" /\ AutoCheckpoint /\ pc' = "idle" /\ UNCHANGED <<driverVars, scan>>
    BY DEF Around
  <1>2. EngineInv /\ EngineTypeOK /\ EngineContent /\ leftAt = NoPoint /\ scan = NoScan
    BY <1>1 DEF ControlInv, ContentInv, TickControl, EngineInv
  <1>3. Checkpoint \/ UNCHANGED engineVars
    BY <1>1 DEF AutoCheckpoint, RunCheckpoint
  <1>4. EngineContent' /\ UNCHANGED resets
    <2>1. CASE Checkpoint
      BY <1>2, <2>1, CheckpointContent DEF Checkpoint
    <2>2. CASE UNCHANGED engineVars
      BY <1>2, <2>2, EngineStays DEF engineVars
    <2>3. QED
      BY <1>3, <2>1, <2>2
  <1>5. leftAt' = NoPoint /\ leftAt' # EnginePoint'
    <2>1. leftAt' = NoPoint /\ NoPoint.resets = -1
      BY <1>1, <1>2 DEF driverVars, NoPoint
    <2>2. EnginePoint'.resets = resets /\ resets \in Nat
      BY <1>2, <1>4 DEF EnginePoint, EngineTypeOK
    <2>3. QED
      BY <2>1, <2>2
  <1>6. LeftBehind' /\ CaughtUpMeansFolded'
    BY <1>5 DEF LeftBehind, CaughtUpMeansFolded, IsCaughtUp, Settled
  <1>7. QED
    BY <1>1, <1>2, <1>4, <1>5, <1>6, BetweenTicks

-----------------------------------------------------------------------------
(***************************************************************************)
(* The environment.                                                        *)
(***************************************************************************)
\* What does not depend on the chain stays when only the chain moves.
LEMMA DriverStays ==
    ASSUME ContentInv, UNCHANGED <<engineVars, driverVars, pc, scan>>
    PROVE  EngineContent' /\ Marked' /\ LeftBehind' /\ WalkBounds'
  <1>1. UNCHANGED <<fold, cursor, ring, slots, status, resets, snap, ret, todo, done, walked, vouched,
                    leftAt, caughtUp, tick, pc, scan, EnginePoint>>
    BY DEF engineVars, driverVars, EnginePoint
  <1>2. EngineContent /\ Marked /\ LeftBehind /\ WalkBounds
    BY DEF ContentInv, WalkControl
  <1>3. EngineContent' /\ LeftBehind'
    BY <1>1, <1>2, EngineStays DEF LeftBehind
  <1>4. WalkBounds'
    BY <1>1, <1>2 DEF WalkBounds, InWalk
  <1>5. /\ Marks(walked, vouched) => Marks(walked, vouched)'
        /\ Marks(scan.walked, vouched) => Marks(scan.walked, vouched)'
    BY <1>1 DEF Marks, WalkedClaims, VouchedClaims
  <1>6. Marked'
    BY <1>1, <1>2, <1>5 DEF Marked
  <1>7. QED
    BY <1>3, <1>4, <1>6

\* A head that left does not come back within the tick, so what was read under a head that
\* is still there was read from its chain.
LEMMA ChainMovesContent ==
    ASSUME ChainMayReturn = FALSE, ControlInv, ContentInv, ChainMoves
    PROVE  ContentInv'
  <1>1. /\ pc \in {"head", "lag", "resume", "window", "boundary", "anchor", "recheck", "bisect"}
        /\ Left => HeaderOn(canon', scan.head.number) # scan.head
        /\ steady' = FALSE
        /\ UNCHANGED <<engineVars, driverVars, pc, scan>>
    BY DEF ChainMoves
  <1>2. UNCHANGED <<cursor, ring, walked, pc, scan, Floor>>
    BY <1>1 DEF engineVars, driverVars, Floor
  <1>3. ~Left' => ~Left
    BY <1>1, <1>2 DEF Left, HeaderAt
  <1>4. EngineContent' /\ Marked' /\ LeftBehind' /\ WalkBounds'
    BY <1>1, DriverStays
  <1>5. HeadRead /\ Lags /\ WalkAnswers /\ WalkContent
    BY DEF ContentInv, WalkControl
  <1>6. HeadRead'
    BY <1>1, <1>2, <1>5 DEF HeadRead
  <1>7. Lags'
    BY <1>2, <1>3, <1>5 DEF Lags
  <1>8. WalkAnswers'
    BY <1>1, <1>2, <1>5 DEF WalkAnswers, InWalk
  <1>9. WalkContent'
    BY <1>1, <1>2, <1>3, <1>5 DEF WalkContent, InWalk
  <1>10. BatchContent'
    BY <1>1 DEF BatchContent, InBatch
  <1>11. CaughtUpSoon' /\ CaughtUpMeansFolded' /\ Bisecting'
    BY <1>1 DEF CaughtUpSoon, CaughtUpMeansFolded, Bisecting
  <1>12. QED
    BY <1>4, <1>6, <1>7, <1>8, <1>9, <1>10, <1>11 DEF ContentInv, WalkControl

\* The horizon of the source is not part of what the fold holds.
LEMMA PruningContent ==
    ASSUME ContentInv, UNCHANGED <<engineVars, canon, steady, driverVars, pc, scan>>
    PROVE  ContentInv'
  <1>1. UNCHANGED <<fold, cursor, ring, status, resets, ret, todo, done, walked, leftAt,
                    caughtUp, tick, canon, steady, pc, scan, EnginePoint, Floor, Left, NothingNew, Reach>>
    BY DEF engineVars, driverVars, EnginePoint, Floor, Left, HeaderAt, NothingNew, Reach
  <1>2. EngineContent' /\ Marked' /\ LeftBehind' /\ WalkBounds'
    BY DriverStays
  <1>3. /\ HeadRead /\ Lags /\ WalkAnswers /\ WalkContent /\ BatchContent
        /\ CaughtUpSoon /\ CaughtUpMeansFolded /\ Bisecting
    BY DEF ContentInv, WalkControl
  <1>4. HeadRead' /\ Lags' /\ WalkAnswers'
    BY <1>1, <1>3 DEF HeadRead, Lags, WalkAnswers, InWalk
  <1>5. WalkContent'
    BY <1>1, <1>3 DEF WalkContent, InWalk
  <1>6. BatchContent'
    BY <1>1, <1>3 DEF BatchContent, InBatch, Trusted, BatchOnChain, Pending
  <1>7. CaughtUpSoon' /\ Bisecting'
    BY <1>1, <1>3 DEF CaughtUpSoon, Bisecting
  <1>8. CaughtUpMeansFolded'
    BY <1>1, <1>3 DEF CaughtUpMeansFolded, IsCaughtUp, Settled
  <1>9. QED
    BY <1>2, <1>4, <1>5, <1>6, <1>7, <1>8 DEF ContentInv, WalkControl

LEMMA CrashContent ==
    ASSUME ControlInv, ContentInv, Crash
    PROVE  ContentInv'
  <1>1. /\ Restart \/ StartAfresh
        /\ walked' = NoBlock /\ vouched' = NoBlock /\ leftAt' = NoPoint
        /\ scan' = NoScan /\ pc' = "around"
    BY DEF Crash
  <1>2. EngineContent'
    <2>1. EngineContent
      BY DEF ContentInv
    <2>2. CASE Restart
      BY <2>1, <2>2, RestartContent
    <2>3. CASE StartAfresh
      <3>1. ring' = <<>> /\ slots' = <<>> /\ done' = 0 /\ UNCHANGED snap
        BY <2>3 DEF StartAfresh, NoCall
      <3>2. QED
        BY <2>1, <3>1, FreshContent
    <2>4. QED
      BY <1>1, <2>2, <2>3
  <1>3. HeadRead'
    BY <1>1, NoScanIs DEF HeadRead
  <1>4. Marks(walked, vouched)' /\ CaughtUpSoon' /\ Bisecting'
    BY <1>1 DEF Marks, WalkedClaims, VouchedClaims, CaughtUpSoon, Closing, Bisecting
  <1>5. QED
    BY <1>1, <1>2, <1>3, <1>4, TickStays

LEMMA InitContent ==
    ASSUME Init
    PROVE  ContentInv
  <1>1. /\ ring = <<>> /\ slots = <<>> /\ snap = NoSnap /\ done = 0 /\ resets = 0
        /\ leftAt = NoPoint /\ scan = NoScan /\ pc = "idle"
    BY DEF Init, EngineInit, Fresh, DriverInit
  <1>2. EngineContent
    <2>1. snap.ring = <<>>
      BY <1>1 DEF NoSnap
    <2>2. RingOnChain(ring) /\ RingOnChain(snap.ring)
      BY <1>1, <2>1 DEF RingOnChain
    <2>3. FoldSoFar /\ RestorePointsComplete
      BY <1>1, <2>1 DEF FoldSoFar, RestorePointsComplete
    <2>4. QED
      BY <2>2, <2>3 DEF EngineContent
  <1>3. leftAt # EnginePoint
    BY <1>1 DEF EnginePoint, NoPoint
  <1>4. Marked /\ LeftBehind
    BY <1>1, <1>3 DEF Marked, LeftBehind
  <1>5. WalkControl
    <2>1. HeadRead
      BY <1>1, NoScanIs DEF HeadRead
    <2>2. Lags /\ WalkBounds /\ WalkAnswers
      BY <1>1 DEF Lags, WalkBounds, WalkAnswers, InWalk
    <2>3. QED
      BY <2>1, <2>2 DEF WalkControl
  <1>6. WalkContent /\ BatchContent /\ CaughtUpSoon /\ Bisecting
    BY <1>1 DEF WalkContent, InWalk, BatchContent, InBatch, CaughtUpSoon, Closing, Bisecting
  <1>7. CaughtUpMeansFolded
    BY <1>3 DEF CaughtUpMeansFolded, IsCaughtUp, Settled
  <1>8. QED
    BY <1>2, <1>4, <1>5, <1>6, <1>7 DEF ContentInv

-----------------------------------------------------------------------------
(***************************************************************************)
(* What a recovery keeps.                                                  *)
(***************************************************************************)
\* When the bisection has ended, the live slots on the source's chain are the ones that
\* serve the block it ended on, the slots from before the first event aside.
LEMMA GoodSlots ==
    ASSUME ControlInv, ContentInv, Bisected, steady, NEW i \in 1..Len(slots), Live(slots[i])
    PROVE  /\ slots[i].cursor # NoPos =>
                (OnSourceChain(slots[i]) <=> scan.lo > 0 /\ Serves(i, RetreatBlock))
           /\ slots[i].cursor = NoPos =>
                /\ OnSourceChain(slots[i]) <=> ~pruned
                /\ scan.lo > 0 => Serves(i, RetreatBlock)
  <1>1. /\ EngineInv /\ Bisecting /\ scan.lo \in Nat /\ scan.lo <= Len(ring) /\ Len(ring) \in Nat
        /\ \A k \in 1..Len(ring) : ring[k].number \in Nat
        /\ \A j, k \in 1..Len(ring) : j <= k => ring[j].number <= ring[k].number
    BY BisectFacts DEF Bisected
  <1>2. \A k \in 1..Len(ring) : k <= scan.lo <=> ring[k].hash \in Chain[canon]
    <2>1. pc = "bisect" /\ scan.hi = scan.lo
      BY DEF Bisected
    <2>2. SUFFICES ASSUME NEW k \in 1..Len(ring)
                   PROVE  k <= scan.lo <=> ring[k].hash \in Chain[canon]
      OBVIOUS
    <2>3. /\ k <= scan.lo => ring[k].hash \in Chain[canon]
          /\ scan.lo < k => ring[k].hash \notin Chain[canon]
      BY <1>1, <2>1 DEF Bisecting
    <2>4. k <= scan.lo \/ scan.lo < k
      BY <1>1
    <2>5. QED
      BY <2>3, <2>4
  <1>3. scan.lo > 0 => scan.lo \in 1..Len(ring) /\ RetreatBlock = ring[scan.lo].number
                       /\ RetreatBlock \in Nat
    BY <1>1 DEF RetreatBlock
  <1>4. \A j, k \in 1..Len(ring) : j < k => ring[j].number < ring[k].number
    BY <1>1 DEF EngineInv, RingTipIsCursor, RingEndsAt
  <1>5. ASSUME slots[i].cursor # NoPos
        PROVE  OnSourceChain(slots[i]) <=> scan.lo > 0 /\ Serves(i, RetreatBlock)
    <2>1. ASSUME OnSourceChain(slots[i])
          PROVE  scan.lo > 0 /\ Serves(i, RetreatBlock)
      <3>1. PICK k \in 1..Len(ring) :
              ring[k].number = slots[i].cursor.block /\ ring[k].hash \in Chain[canon]
        BY <1>5, <2>1 DEF OnSourceChain
      <3>2. k <= scan.lo
        BY <1>2, <3>1
      <3>3. scan.lo > 0
        BY <1>1, <3>2
      <3>4. ring[k].number <= RetreatBlock
        BY <1>1, <1>3, <3>2, <3>3
      <3>5. QED
        BY <3>1, <3>3, <3>4 DEF Serves
    <2>2. ASSUME scan.lo > 0, Serves(i, RetreatBlock)
          PROVE  OnSourceChain(slots[i])
      <3>1. PICK k \in 1..Len(ring) : ring[k].number = slots[i].cursor.block
        BY <1>5 DEF Live, Observes
      <3>2. ring[k].number <= ring[scan.lo].number /\ scan.lo \in 1..Len(ring)
        BY <1>3, <2>2, <3>1 DEF Serves
      <3>3. k <= scan.lo
        <4>1. ~(scan.lo < k)
          BY <1>1, <1>4, <3>2
        <4>2. QED
          BY <1>1, <4>1
      <3>4. QED
        BY <1>2, <3>1, <3>3 DEF OnSourceChain
    <2>3. QED
      BY <2>1, <2>2
  <1>6. ASSUME slots[i].cursor = NoPos
        PROVE  /\ OnSourceChain(slots[i]) <=> ~pruned
               /\ scan.lo > 0 => Serves(i, RetreatBlock)
    <2>1. slots[i].cursor.block = -1
      BY <1>6 DEF NoPos
    <2>2. \A k \in 1..Len(ring) : ring[k].number # slots[i].cursor.block
      BY <1>1, <2>1
    <2>3. OnSourceChain(slots[i]) <=> ~pruned
      BY <1>6, <2>2 DEF OnSourceChain
    <2>4. scan.lo > 0 => slots[i].cursor.block <= RetreatBlock
      BY <1>3, <2>1
    <2>5. QED
      BY <2>3, <2>4 DEF Serves
  <1>7. QED
    BY <1>5, <1>6

\* The largest of finitely many slots.
LEMMA LastOf ==
    ASSUME NEW n \in Nat, NEW S \in SUBSET (1..n), S # {}
    PROVE  \E i \in S : \A j \in S : j <= i
  <1> DEFINE T == {k \in Nat : \E i \in S : k = n - i}
  <1>1. T \in SUBSET Nat /\ T # {}
    <2>1. PICK i \in S : TRUE
      OBVIOUS
    <2>2. n - i \in Nat
      OBVIOUS
    <2>3. n - i \in T
      BY <2>2
    <2>4. QED
      BY <2>3
  <1>2. PICK t \in T : \A u \in T : t <= u
    BY <1>1, LeastNumber
  <1>3. PICK i \in S : t = n - i
    BY <1>2
  <1>4. ASSUME NEW j \in S
        PROVE  j <= i
    <2>1. n - j \in T /\ i \in Nat /\ j \in Nat
      OBVIOUS
    <2>2. n - i <= n - j
      BY <1>2, <1>3, <2>1
    <2>3. QED
      BY <2>1, <2>2
  <1>5. QED
    BY <1>4

Good(i) == i \in 1..Len(slots) /\ Live(slots[i]) /\ OnSourceChain(slots[i])

LEMMA RecoveryStepIs ==
    ASSUME \/ /\ \A i \in 1..Len(slots) : ~Good(i)
              /\ cursor' = NoPos \/ status' = "Unrecoverable"
           \/ \E i \in 1..Len(slots) :
                /\ Good(i) /\ cursor' = slots[i].cursor /\ fold' = slots[i].fold
                /\ \A j \in 1..Len(slots) : Good(j) => j <= i
    PROVE  RecoveryStep
  <1> DEFINE good == {i \in 1..Len(slots) : Live(slots[i]) /\ OnSourceChain(slots[i])}
  <1>1. \A i : i \in good <=> i \in 1..Len(slots) /\ Good(i)
    BY DEF Good
  <1>2. IF good = {}
        THEN cursor' = NoPos \/ status' = "Unrecoverable"
        ELSE \E i \in good : /\ \A j \in good : j <= i
                             /\ cursor' = slots[i].cursor /\ fold' = slots[i].fold
    <2> HIDE DEF good
    <2>1. CASE \A i \in 1..Len(slots) : ~Good(i)
      <3>1. good = {}
        BY <1>1, <2>1
      <3>2. cursor' = NoPos \/ status' = "Unrecoverable"
        BY <2>1
      <3>3. QED
        BY <3>1, <3>2
    <2>2. CASE \E i \in 1..Len(slots) :
                 /\ Good(i) /\ cursor' = slots[i].cursor /\ fold' = slots[i].fold
                 /\ \A j \in 1..Len(slots) : Good(j) => j <= i
      BY <1>1, <2>2
    <2>3. QED
      BY <2>1, <2>2
  <1>3. QED
    BY <1>2 DEF RecoveryStep

LEMMA RecoveryKeeps ==
    ASSUME ControlInv, ContentInv, steady, RollBackTo \/ Resync \/ Unrecoverable
    PROVE  RecoveryStep
  <1>1. Bisected
    BY DEF RollBackTo, Resync, Unrecoverable
  <1>2. EngineInv /\ status = "Active" /\ scan.lo \in Nat
    BY <1>1, BisectFacts DEF Bisected
  <1>3. Len(slots) \in Nat
    BY <1>2 DEF EngineInv, EngineTypeOK
  <1>4. ASSUME NEW i \in 1..Len(slots), Good(i), scan.lo > 0
        PROVE  Serves(i, RetreatBlock)
    BY <1>1, <1>4, GoodSlots DEF Good
  <1>5. ASSUME NEW i \in 1..Len(slots), Good(i), slots[i].cursor # NoPos
        PROVE  scan.lo > 0
    BY <1>1, <1>5, GoodSlots DEF Good
  <1>6. ASSUME NEW i \in 1..Len(slots), Good(i), slots[i].cursor = NoPos
        PROVE  ~pruned
    BY <1>1, <1>6, GoodSlots DEF Good
  <1>7. CASE RollBackTo
    <2>1. scan.lo > 0 /\ Rollback(RetreatBlock)
      BY <1>7 DEF RollBackTo, CanRetreat
    <2>2. PICK i \in 1..Len(slots) :
            /\ IsBest(i, RetreatBlock) /\ fold' = slots[i].fold /\ cursor' = slots[i].cursor
      BY <2>1 DEF Rollback
    <2>3. Serves(i, RetreatBlock) /\ Live(slots[i])
      BY <2>2 DEF IsBest, Serves
    <2>4. \A j \in 1..Len(slots) : Good(j) => j <= i
      <3>1. SUFFICES ASSUME NEW j \in 1..Len(slots), Good(j), i < j
                     PROVE  FALSE
        BY <1>3
      <3>2. Serves(j, RetreatBlock)
        BY <1>4, <2>1, <3>1
      <3>3. j \in (i + 1)..Len(slots)
        BY <1>3, <3>1
      <3>4. QED
        BY <2>2, <3>2, <3>3 DEF IsBest
    <2>5. CASE Good(i)
      BY <2>2, <2>4, <2>5, RecoveryStepIs
    <2>6. CASE ~Good(i)
      <3>1. slots[i].cursor = NoPos /\ pruned
        BY <1>1, <2>1, <2>3, <2>6, GoodSlots DEF Good
      <3>2. \A j \in 1..Len(slots) : ~Good(j)
        <4>1. SUFFICES ASSUME NEW j \in 1..Len(slots), Good(j)
                       PROVE  FALSE
          OBVIOUS
        <4>2. slots[j].cursor # NoPos
          BY <1>6, <3>1, <4>1
        <4>3. j < i
          <5>1. j <= i /\ j # i
            BY <2>4, <2>6, <4>1
          <5>2. QED
            BY <1>3, <5>1
        <4>4. ~After(slots[j].cursor, NoPos)
          BY <1>2, <3>1, <4>3 DEF EngineInv, CheckpointsTrusted
        <4>5. slots[j].cursor \in Position
          BY <1>2, <4>2, SlotEntries
        <4>6. QED
          BY <4>4, <4>5 DEF After, Position, NoPos
      <3>3. QED
        BY <2>2, <3>1, <3>2, RecoveryStepIs
    <2>7. QED
      BY <2>5, <2>6
  <1>8. ASSUME ~CanRetreat, NEW i \in 1..Len(slots), Good(i)
        PROVE  slots[i].cursor = NoPos
    <2>1. SUFFICES ASSUME slots[i].cursor # NoPos
                   PROVE  FALSE
      OBVIOUS
    <2>2. scan.lo > 0 /\ Serves(i, RetreatBlock)
      BY <1>4, <1>5, <1>8, <2>1
    <2>3. QED
      BY <1>2, <1>8, <2>2 DEF CanRetreat, CanRollback
  <1>9. CASE Resync
    <2>1. ~CanRetreat /\ cursor' = NoPos /\ fold' = Genesis
      BY <1>9 DEF Resync, Reset
    <2>2. CASE \A i \in 1..Len(slots) : ~Good(i)
      BY <2>1, <2>2, RecoveryStepIs
    <2>3. CASE \E i \in 1..Len(slots) : Good(i)
      <3> DEFINE S == {i \in 1..Len(slots) : Good(i)}
      <3>1. PICK i \in S : \A j \in S : j <= i
        <4>1. S \in SUBSET (1..Len(slots)) /\ S # {}
          BY <2>3
        <4> HIDE DEF S
        <4>2. QED
          BY <1>3, <4>1, LastOf
      <3>2. i \in 1..Len(slots) /\ Good(i) /\ \A j \in 1..Len(slots) : Good(j) => j <= i
        BY <3>1
      <3>3. slots[i].cursor = NoPos
        BY <1>8, <2>1, <3>2
      <3>4. slots[i].fold \in Fold /\ FoldsOneChain(slots[i].fold, slots[i].cursor, ring)
        BY <1>2, <3>2, SlotEntries
      <3>5. slots[i].fold = Genesis
        BY <3>3, <3>4, EmptyIs
      <3>6. QED
        BY <2>1, <3>2, <3>3, <3>5, RecoveryStepIs
    <2>4. QED
      BY <2>2, <2>3
  <1>10. CASE Unrecoverable
    <2>1. ~CanRetreat /\ pruned /\ status' = "Unrecoverable"
      BY <1>10 DEF Unrecoverable, MarkUnrecoverable
    <2>2. \A i \in 1..Len(slots) : ~Good(i)
      BY <1>6, <1>8, <2>1
    <2>3. QED
      BY <2>1, <2>2, RecoveryStepIs
  <1>11. QED
    BY <1>7, <1>9, <1>10

-----------------------------------------------------------------------------
(***************************************************************************)
(* Content: the theorems.                                                  *)
(***************************************************************************)
LEMMA NextContent ==
    ASSUME ChainMayReturn = FALSE, ControlInv, ContentInv, [Next]_vars
    PROVE  ContentInv'
  <1>1. CASE Step \/ Scans
    BY <1>1, StepContent, ReadHeadContent, LagCheckContent, ResumeContent, ReadWindowContent,
       ReadBoundaryContent, ReadAnchorContent, RecheckContent DEF Scans
  <1>2. CASE Apply \/ Applied \/ Forked \/ Stopped \/ Unwound
    BY <1>2, ApplyContent, AppliedContent, ForkedContent, StoppedContent, UnwoundContent
  <1>3. CASE FoldWorks \/ FoldFails
    BY <1>3, FoldStepContent
  <1>4. CASE CheckpointRule \/ NoOffer \/ OfferTaken \/ OfferRefused
    BY <1>4, CheckpointRuleContent, OfferContent
  <1>5. CASE Recovers
    BY <1>5, BisectContent, RecoversContent DEF Recovers
  <1>6. CASE SourceFails \/ Crash \/ Around
    BY <1>6, SourceFailsContent, CrashContent, AroundContent
  <1>7. CASE CallerMovesEngine \/ CallerCheckpoints \/ CallerTakesSource
    BY <1>7, CallerMovesEngineContent, CallerCheckpointsContent, CallerTakesSourceContent
  <1>8. CASE ChainMoves
    BY <1>8, ChainMovesContent
  <1>9. CASE SourcePrunes \/ HorizonExceedsStart \/ UNCHANGED vars
    <2>1. UNCHANGED <<engineVars, canon, steady, driverVars, pc, scan>>
      BY <1>9 DEF SourcePrunes, HorizonExceedsStart, vars, chainVars
    <2>2. QED
      BY <2>1, PruningContent
  <1>10. QED
    BY <1>1, <1>2, <1>3, <1>4, <1>5, <1>6, <1>7, <1>8, <1>9 DEF Next, TickStep, Disturbance

\* What the engine holds, what the marks claim, what the scan has read and what the batch
\* still owes is an inductive invariant, together with the control of the driver, as long
\* as the chain does not return within a tick to a head it left.
THEOREM ContentIsInductive ==
    ASSUME ChainMayReturn = FALSE
    PROVE  Spec => [](ControlInv /\ ContentInv)
  <1>1. Init => ControlInv /\ ContentInv
    BY InitControl, InitContent
  <1>2. ControlInv /\ ContentInv /\ [Next]_vars => (ControlInv /\ ContentInv)'
    BY NextControl, NextContent
  <1>3. QED
    BY <1>1, <1>2, PTL DEF Spec

\* The fold holds exactly the events of one chain, from the start block up to the cursor:
\* for every tree of blocks and wherever between two calls of a tick the chain moves, the
\* source fails, the fold refuses or the process dies.
THEOREM FoldIsComplete ==
    ASSUME ChainMayReturn = FALSE
    PROVE  Spec => []FoldComplete
  <1>1. ASSUME ControlInv, ContentInv
        PROVE  FoldComplete
    <2>1. EngineInv /\ EngineContent
      BY <1>1 DEF ControlInv, ContentInv
    <2>2. QED
      BY <2>1, IdleContent DEF FoldComplete
  <1>2. ControlInv /\ ContentInv => FoldComplete
    BY <1>1
  <1>3. QED
    BY <1>2, ContentIsInductive, PTL

\* So does every checkpoint a rollback can restore, and the snapshot a restart decodes.
THEOREM RestorePointsAreComplete ==
    ASSUME ChainMayReturn = FALSE
    PROVE  Spec => []RestorePointsComplete
  <1>1. ControlInv /\ ContentInv => RestorePointsComplete
    BY DEF ContentInv, EngineContent
  <1>2. QED
    BY <1>1, ContentIsInductive, PTL

\* A mark the next tick may use claims nothing that is not so: the chain through walked has
\* nothing to fold above the cursor, the chain through vouched holds the cursor block whole.
THEOREM MarksAreSound ==
    ASSUME ChainMayReturn = FALSE
    PROVE  Spec => []MarksSound
  <1>1. ASSUME ContentInv
        PROVE  MarksSound
    <2>1. Settled => Marks(walked, vouched)
      BY <1>1 DEF ContentInv, Marked, Settled
    <2>2. QED
      BY <2>1 DEF MarksSound, Marks, WalkedClaims, VouchedClaims
  <1>2. ControlInv /\ ContentInv => MarksSound
    BY <1>1
  <1>3. QED
    BY <1>2, ContentIsInductive, PTL

\* A tick that ended Idle while the chain stayed has left the fold holding the whole chain.
THEOREM CaughtUpHasFolded ==
    ASSUME ChainMayReturn = FALSE
    PROVE  Spec => []CaughtUpMeansFolded
  <1>1. ControlInv /\ ContentInv => CaughtUpMeansFolded
    BY DEF ContentInv
  <1>2. QED
    BY <1>1, ContentIsInductive, PTL

\* A recovery goes back to the newest live checkpoint on the source's chain and gives the
\* state up only when there is none, for every ring and every length of the bisection.
THEOREM RecoveryIsBest ==
    ASSUME ChainMayReturn = FALSE
    PROVE  Spec => RecoveryKeepsMost
  <1>1. ASSUME ControlInv, ContentInv, steady, RollBackTo \/ Resync \/ Unrecoverable
        PROVE  RecoveryStep
    BY <1>1, RecoveryKeeps
  <1>2. ControlInv /\ ContentInv /\ [Next]_vars
          => [steady /\ (RollBackTo \/ Resync \/ Unrecoverable) => RecoveryStep]_vars
    BY <1>1
  <1>3. QED
    BY <1>2, ContentIsInductive, PTL DEF Spec, RecoveryKeepsMost

=============================================================================
