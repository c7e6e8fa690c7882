--------------------------- MODULE RotorTreeProofs ---------------------------
(***************************************************************************)
(* Recovery, for every arity, chunk size and sequence of mishaps: what was *)
(* called durable is there after any crash, the root is the leaves' and no *)
(* open refuses what a crash has left.                                     *)
(*                                                                         *)
(* The argument follows the tree's history: the leaves in their order, cut *)
(* into numbered entries.  The log holds a run of the history's entries,   *)
(* cached and on disk; the metadata names the end of an entry; a data file *)
(* holds the nodes over the leaves up to there which are ever read again;  *)
(* what was promised is in the entries before number safe, which the disk  *)
(* has.  A recovery cuts the history where its log ends, behind safe, and  *)
(* goes on from there.                                                     *)
(*                                                                         *)
(* Three hypotheses name what the code does not withstand:                 *)
(*  - LogFailsLast: a log write that fails inside a checkpoint is not      *)
(*    followed by a restart (replay stops at the second copy);             *)
(*  - Numbered: recovered trees number their entries behind those of the   *)
(*    checkpoint.  It is proved (NumbersGoOn) when the power stays on, and *)
(*    when no kill or failing flush leaves a written frame unsynced;       *)
(*  - ChunksAlign, for the root: an arity that does not divide CHUNK_SIZE  *)
(*    lets a stale node into later roots.                                  *)
(***************************************************************************)
EXTENDS RotorTree, LeanIMTProofs

\* CHUNK_SIZE is a multiple of the arity.
Aligned(n) == ChunkSize % n = 0

\* The process may be killed, but the power never fails.
NoPower == \A b \in Budgets : b.power = 0

\* No write of the log is left unsynced by a process that goes on or is restarted: it
\* is not killed and its flushes do not fail.  The power may.
NoLooseWrites == \A b \in Budgets : b.kills = 0 /\ b.flush = 0

\* Two kinds of mishaps after which entries are always numbered behind the checkpoint.
Steady == NoPower \/ NoLooseWrites

\* A tree that opens numbers its entries behind those of its checkpoint.  A log that
\* lost its unsynced end behind a checkpoint breaks this.
NumbersAdvance == up = "open" => meta.seq < nextSeq

-----------------------------------------------------------------------------
(***************************************************************************)
(* Histories: leaves, how many of them are in the entries before each, and *)
(* the number of entries.                                                  *)
(***************************************************************************)
History(h, n) ==
    /\ IsSeq(h.leaves) /\ h.top \in Nat /\ h.at \in [0..h.top -> Nat]
    /\ h.at[0] = 0 /\ h.at[h.top] = Len(h.leaves)
    /\ \A i, j \in 0..h.top : i <= j => h.at[i] <= h.at[j]
    /\ CeilLogN(Len(h.leaves), n) <= MaxDepth

Entry(h, s) == [seq |-> s, leaves |-> SubSeq(h.leaves, h.at[s] + 1, h.at[s + 1])]

\* The entries from number a to before number b.
Entries(h, a, b) == [k \in 1..b - a |-> Entry(h, a + k - 1)]

First(h, s) == SubSeq(h.leaves, 1, s)

\* Two histories have the first e entries in common.
Agree(h, g, e) ==
    /\ e \in 0..h.top /\ e \in 0..g.top
    /\ \A i \in 0..e : h.at[i] = g.at[i]
    /\ \A i \in 1..h.at[e] : h.leaves[i] = g.leaves[i]

LEMMA PrefixIsSeq ==
    ASSUME NEW s, IsSeq(s), NEW k \in Nat, k <= Len(s)
    PROVE  /\ IsSeq(SubSeq(s, 1, k)) /\ Len(SubSeq(s, 1, k)) = k
           /\ \A i \in 1..k : SubSeq(s, 1, k)[i] = s[i]
  <1>1. /\ IsSeq(SubSeq(s, 1, k)) /\ Len(SubSeq(s, 1, k)) = k - 1 + 1
        /\ \A i \in 1..k - 1 + 1 : SubSeq(s, 1, k)[i] = s[1 + i - 1]
    BY SubSeqIsSeq
  <1>2. k - 1 + 1 = k /\ \A i \in 1..k : 1 + i - 1 = i
    OBVIOUS
  <1>3. QED
    BY <1>1, <1>2

LEMMA HistoryFacts ==
    ASSUME NEW h, NEW n, History(h, n), NEW i \in 0..h.top
    PROVE  /\ Len(h.leaves) \in Nat /\ h.at[i] \in Nat /\ h.at[i] <= Len(h.leaves)
           /\ \A j \in 0..h.top : i <= j => h.at[i] <= h.at[j]
  <1>1. Len(h.leaves) \in Nat /\ h.top \in 0..h.top /\ i <= h.top
    BY DEF History, IsSeq
  <1>2. QED
    BY <1>1 DEF History

LEMMA EntriesIsSeq ==
    ASSUME NEW h, NEW a \in Nat, NEW b \in Nat, a <= b
    PROVE  /\ IsSeq(Entries(h, a, b)) /\ Len(Entries(h, a, b)) = b - a
           /\ \A k \in 1..b - a : Entries(h, a, b)[k] = Entry(h, a + k - 1)
  <1> DEFINE s == Entries(h, a, b)
  <1>1. b - a \in Nat
    OBVIOUS
  <1>2. s = [k \in 1..b - a |-> s[k]] /\ \A k \in 1..b - a : s[k] = Entry(h, a + k - 1)
    BY DEF Entries
  <1> HIDE DEF s
  <1>3. QED
    BY <1>1, <1>2, TableIsSeq DEF s

LEMMA EntriesEmpty ==
    ASSUME NEW h, NEW a \in Nat
    PROVE  Entries(h, a, a) = <<>>
  <1>1. IsSeq(Entries(h, a, a)) /\ Len(Entries(h, a, a)) = 0
    BY EntriesIsSeq
  <1>2. IsSeq(<<>>) /\ Len(<<>>) = 0
    BY DEF IsSeq
  <1>3. QED
    BY <1>1, <1>2, SeqEqual2

LEMMA EntriesJoin ==
    ASSUME NEW h, NEW a \in Nat, NEW b \in Nat, NEW c \in Nat, a <= b, b <= c
    PROVE  Entries(h, a, b) \o Entries(h, b, c) = Entries(h, a, c)
  <1> DEFINE s == Entries(h, a, b)
             t == Entries(h, b, c)
             u == Entries(h, a, c)
  <1>1. /\ IsSeq(s) /\ Len(s) = b - a /\ \A k \in 1..b - a : s[k] = Entry(h, a + k - 1)
        /\ IsSeq(t) /\ Len(t) = c - b /\ \A k \in 1..c - b : t[k] = Entry(h, b + k - 1)
        /\ IsSeq(u) /\ Len(u) = c - a /\ \A k \in 1..c - a : u[k] = Entry(h, a + k - 1)
    BY EntriesIsSeq
  <1> HIDE DEF s, t, u
  <1>2. /\ IsSeq(s \o t) /\ Len(s \o t) = Len(s) + Len(t)
        /\ \A k \in 1..Len(s) + Len(t) : (s \o t)[k] = IF k <= Len(s) THEN s[k] ELSE t[k - Len(s)]
    BY <1>1, ConcatIsSeq
  <1>3. Len(s \o t) = Len(u) /\ Len(s) + Len(t) = c - a
    BY <1>1, <1>2
  <1>4. ASSUME NEW k \in 1..Len(s \o t) PROVE (s \o t)[k] = u[k]
    <2>1. k \in 1..c - a
      BY <1>1, <1>3
    <2>2. CASE k <= b - a
      BY <1>1, <1>2, <1>3, <2>1, <2>2
    <2>3. CASE ~(k <= b - a)
      <3> DEFINE j == k - (b - a)
      <3>1. j \in 1..c - b /\ b + j - 1 = a + k - 1
        BY <2>1, <2>3
      <3>2. (s \o t)[k] = t[j]
        BY <1>1, <1>2, <1>3, <2>1, <2>3
      <3>3. t[j] = Entry(h, a + k - 1)
        BY <1>1, <3>1
      <3>4. QED
        BY <1>1, <2>1, <3>2, <3>3
    <2>4. QED
      BY <2>2, <2>3
  <1>5. s \o t = u
    BY <1>1, <1>2, <1>3, <1>4, SeqEqual2
  <1>6. QED
    BY <1>5 DEF s, t, u

LEMMA EntriesCut ==
    ASSUME NEW h, NEW a \in Nat, NEW b \in Nat, a <= b, NEW k \in 0..b - a
    PROVE  SubSeq(Entries(h, a, b), 1, k) = Entries(h, a, a + k)
  <1> DEFINE s == Entries(h, a, b)
             u == Entries(h, a, a + k)
  <1>1. /\ IsSeq(s) /\ Len(s) = b - a /\ \A j \in 1..b - a : s[j] = Entry(h, a + j - 1)
        /\ IsSeq(u) /\ Len(u) = k /\ \A j \in 1..k : u[j] = Entry(h, a + j - 1)
    <2>1. a + k \in Nat /\ a <= a + k /\ a + k - a = k
      OBVIOUS
    <2>2. QED
      BY <2>1, EntriesIsSeq
  <1> HIDE DEF s, u
  <1>2. k \in Nat /\ k <= Len(s)
    BY <1>1
  <1>3. /\ IsSeq(SubSeq(s, 1, k)) /\ Len(SubSeq(s, 1, k)) = k
        /\ \A j \in 1..k : SubSeq(s, 1, k)[j] = s[j]
    BY <1>1, <1>2, PrefixIsSeq
  <1>4. ASSUME NEW j \in 1..k PROVE SubSeq(s, 1, k)[j] = u[j]
    <2>1. j \in 1..b - a
      OBVIOUS
    <2>2. QED
      BY <1>1, <1>3, <2>1
  <1>5. SubSeq(s, 1, k) = u
    BY <1>1, <1>3, <1>4, SeqEqual2
  <1>6. QED
    BY <1>5 DEF s, u

\* The beginning of a history.
LEMMA FirstIsSeq ==
    ASSUME NEW h, IsSeq(h.leaves), NEW s \in Nat, s <= Len(h.leaves)
    PROVE  /\ IsSeq(First(h, s)) /\ Len(First(h, s)) = s
           /\ \A i \in 1..s : First(h, s)[i] = h.leaves[i]
  BY PrefixIsSeq DEF First

SameOn(s, t, a, b) == \A i \in a..b : s[i] = t[i]

LEMMA SubSeqSame ==
    ASSUME NEW s, NEW t, IsSeq(s), IsSeq(t), NEW a \in Nat \ {0}, NEW b \in Nat, a <= b + 1,
           b <= Len(s), b <= Len(t), SameOn(s, t, a, b)
    PROVE  SubSeq(s, a, b) = SubSeq(t, a, b)
  <1> DEFINE u == SubSeq(s, a, b)
             v == SubSeq(t, a, b)
  <1>1. /\ IsSeq(u) /\ Len(u) = b - a + 1 /\ \A k \in 1..b - a + 1 : u[k] = s[a + k - 1]
        /\ IsSeq(v) /\ Len(v) = b - a + 1 /\ \A k \in 1..b - a + 1 : v[k] = t[a + k - 1]
    BY SubSeqIsSeq
  <1> HIDE DEF u, v
  <1>2. ASSUME NEW k \in 1..b - a + 1 PROVE u[k] = v[k]
    <2>1. a + k - 1 \in a..b
      OBVIOUS
    <2>2. QED
      BY <1>1, <2>1 DEF SameOn
  <1>3. u = v
    BY <1>1, <1>2, SeqEqual2
  <1>4. QED
    BY <1>3 DEF u, v

\* What two histories have in common is the same read from either.
LEMMA AgreeBounds ==
    ASSUME NEW h, NEW g, NEW n, History(h, n), History(g, n), NEW e, Agree(h, g, e)
    PROVE  /\ e \in Nat /\ h.at[e] = g.at[e] /\ h.at[e] \in Nat
           /\ h.at[e] <= Len(h.leaves) /\ h.at[e] <= Len(g.leaves)
           /\ \A s \in 0..e : /\ s \in 0..h.top /\ s \in 0..g.top /\ h.at[s] = g.at[s]
                              /\ h.at[s] \in Nat /\ h.at[s] <= h.at[e]
  <1>1. /\ e \in 0..h.top /\ e \in 0..g.top /\ h.top \in Nat /\ g.top \in Nat
        /\ \A i \in 0..e : h.at[i] = g.at[i]
    BY DEF Agree, History
  <1>2. e \in Nat /\ e \in 0..e
    BY <1>1
  <1>3. /\ h.at[e] \in Nat /\ h.at[e] <= Len(h.leaves) /\ g.at[e] <= Len(g.leaves)
    BY <1>1, HistoryFacts
  <1>4. ASSUME NEW s \in 0..e
        PROVE  /\ s \in 0..h.top /\ s \in 0..g.top /\ h.at[s] \in Nat /\ h.at[s] <= h.at[e]
    <2>1. s \in 0..h.top /\ s \in 0..g.top /\ s <= e
      BY <1>1, <1>2
    <2>2. QED
      BY <1>1, <2>1, HistoryFacts
  <1>5. QED
    BY <1>1, <1>2, <1>3, <1>4

LEMMA EntriesAgree ==
    ASSUME NEW h, NEW g, NEW n, History(h, n), History(g, n), NEW e, Agree(h, g, e),
           NEW a \in Nat, NEW b \in 0..e, a <= b
    PROVE  Entries(h, a, b) = Entries(g, a, b)
  <1> DEFINE s == Entries(h, a, b)
             t == Entries(g, a, b)
  <1>0. e \in Nat /\ b \in Nat
    BY AgreeBounds
  <1>1. /\ IsSeq(s) /\ Len(s) = b - a /\ \A k \in 1..b - a : s[k] = Entry(h, a + k - 1)
        /\ IsSeq(t) /\ Len(t) = b - a /\ \A k \in 1..b - a : t[k] = Entry(g, a + k - 1)
    BY <1>0, EntriesIsSeq
  <1>2. ASSUME NEW q \in Nat, q + 1 <= b PROVE Entry(h, q) = Entry(g, q)
    <2>1. q \in 0..e /\ q + 1 \in 0..e /\ q \in 0..h.top /\ q + 1 \in 0..h.top
      BY <1>0, <1>2, AgreeBounds
    <2> DEFINE x == h.at[q]
               y == h.at[q + 1]
    <2>2. /\ x = g.at[q] /\ y = g.at[q + 1] /\ x \in Nat /\ y \in Nat /\ y <= h.at[e] /\ h.at[e] \in Nat
          /\ y <= Len(h.leaves) /\ y <= Len(g.leaves)
      <3>1. h.at[e] \in Nat /\ h.at[e] <= Len(h.leaves) /\ h.at[e] <= Len(g.leaves)
        BY AgreeBounds
      <3>2. Len(h.leaves) \in Nat /\ Len(g.leaves) \in Nat
        BY DEF History, IsSeq
      <3>3. QED
        BY <2>1, <3>1, <3>2, AgreeBounds
    <2>3. x <= y
      <3>1. q <= q + 1
        OBVIOUS
      <3>2. QED
        BY <2>1, <3>1 DEF History
    <2> HIDE DEF x, y
    <2>4. \A i \in x + 1..y : h.leaves[i] = g.leaves[i]
      <3>1. \A i \in x + 1..y : i \in 1..h.at[e]
        BY <2>2
      <3>2. QED
        BY <3>1 DEF Agree
    <2>5. SubSeq(h.leaves, x + 1, y) = SubSeq(g.leaves, x + 1, y)
      <3>1. IsSeq(h.leaves) /\ IsSeq(g.leaves)
        BY DEF History
      <3> DEFINE f == x + 1
      <3>2. f \in Nat \ {0} /\ f <= y + 1
        BY <2>2, <2>3
      <3>3. SameOn(h.leaves, g.leaves, f, y)
        BY <2>4 DEF SameOn
      <3> HIDE DEF f
      <3>4. SubSeq(h.leaves, f, y) = SubSeq(g.leaves, f, y)
        BY <2>2, <3>1, <3>2, <3>3, SubSeqSame, SMTT(30)
      <3>5. QED
        BY <3>4 DEF f
    <2>6. QED
      BY <2>2, <2>5 DEF Entry, x, y
  <1>3. ASSUME NEW k \in 1..b - a PROVE s[k] = t[k]
    <2>1. a + k - 1 \in Nat /\ a + k - 1 + 1 <= b
      BY <1>0
    <2>2. QED
      BY <1>1, <1>2, <2>1
  <1> HIDE DEF s, t
  <1>4. s = t
    BY <1>1, <1>3, SeqEqual2
  <1>5. QED
    BY <1>4 DEF s, t

LEMMA FirstAgree ==
    ASSUME NEW h, NEW g, NEW n, History(h, n), History(g, n), NEW e, Agree(h, g, e), NEW s \in 0..h.at[e]
    PROVE  First(h, s) = First(g, s)
  <1>1. h.at[e] \in Nat /\ h.at[e] <= Len(h.leaves) /\ h.at[e] <= Len(g.leaves)
    BY AgreeBounds
  <1>2. IsSeq(h.leaves) /\ IsSeq(g.leaves) /\ Len(h.leaves) \in Nat /\ Len(g.leaves) \in Nat
    BY DEF History, IsSeq
  <1>3. SameOn(h.leaves, g.leaves, 1, s)
    BY <1>1 DEF Agree, SameOn
  <1>4. s \in Nat /\ s <= Len(h.leaves) /\ s <= Len(g.leaves) /\ 1 <= s + 1 /\ 1 \in Nat \ {0}
    BY <1>1, <1>2
  <1>5. QED
    BY <1>2, <1>3, <1>4, SubSeqSame DEF First

LEMMA AgreeSwaps ==
    ASSUME NEW h, NEW g, NEW n, History(h, n), History(g, n), NEW e, Agree(h, g, e)
    PROVE  Agree(g, h, e)
  <1>1. h.at[e] = g.at[e]
    BY AgreeBounds
  <1>2. QED
    BY <1>1 DEF Agree

LEMMA OneEntry ==
    ASSUME NEW h, NEW a \in Nat
    PROVE  Entries(h, a, a + 1) = <<Entry(h, a)>>
  <1> DEFINE b == a + 1
             s == Entries(h, a, b)
             x == Entry(h, a)
  <1>1. b \in Nat /\ a <= b /\ b - a = 1
    OBVIOUS
  <1> HIDE DEF b
  <1>2. IsSeq(s) /\ Len(s) = b - a /\ \A k \in 1..b - a : s[k] = Entry(h, a + k - 1)
    BY <1>1, EntriesIsSeq
  <1>3. 1 \in 1..b - a /\ a + 1 - 1 = a
    BY <1>1
  <1>4. s[1] = x
    BY <1>2, <1>3
  <1> HIDE DEF s, x
  <1>5. IsSeq(<<x>>) /\ Len(<<x>>) = 1 /\ <<x>>[1] = x
    BY DEF IsSeq
  <1>6. \A k \in 1..Len(s) : s[k] = <<x>>[k]
    BY <1>1, <1>2, <1>4, <1>5
  <1>7. s = <<x>>
    BY <1>1, <1>2, <1>5, <1>6, SeqEqual2
  <1>8. QED
    BY <1>7 DEF s, x, b

\* A history goes on with one entry, or is cut behind some.
Extended(h, more) ==
    [leaves |-> h.leaves \o more, top |-> h.top + 1,
     at |-> [i \in 0..h.top + 1 |-> IF i <= h.top THEN h.at[i] ELSE Len(h.leaves) + Len(more)]]

CutAt(h, e) == [leaves |-> First(h, h.at[e]), top |-> e, at |-> [i \in 0..e |-> h.at[i]]]

LEMMA ExtendedHistory ==
    ASSUME NEW h, NEW n, History(h, n), NEW more, IsSeq(more),
           CeilLogN(Len(h.leaves) + Len(more), n) <= MaxDepth
    PROVE  /\ History(Extended(h, more), n) /\ Agree(h, Extended(h, more), h.top)
           /\ Extended(h, more).leaves = h.leaves \o more /\ Extended(h, more).top = h.top + 1
           /\ Entries(Extended(h, more), h.top, h.top + 1) = <<[seq |-> h.top, leaves |-> more]>>
  <1> DEFINE g == Extended(h, more)
             top == h.top
             L == h.leaves
             M == L \o more
             now == Len(L) + Len(more)
  <1>0. /\ IsSeq(L) /\ Len(L) \in Nat /\ Len(more) \in Nat /\ top \in Nat /\ top + 1 \in Nat /\ now \in Nat
        /\ h.at \in [0..top -> Nat] /\ h.at[0] = 0 /\ h.at[top] = Len(L)
        /\ \A i, j \in 0..top : i <= j => h.at[i] <= h.at[j]
    BY DEF History, IsSeq
  <1>1. /\ IsSeq(M) /\ Len(M) = now
        /\ \A k \in 1..now : M[k] = IF k <= Len(L) THEN L[k] ELSE more[k - Len(L)]
    BY <1>0, ConcatIsSeq
  <1>2. /\ g.leaves = M /\ g.top = top + 1
        /\ g.at = [i \in 0..top + 1 |-> IF i <= top THEN h.at[i] ELSE now]
    BY DEF Extended
  <1> HIDE DEF g, M, now
  <1>3. \A i \in 0..top : /\ i \in 0..top + 1 /\ g.at[i] = h.at[i] /\ h.at[i] \in Nat /\ h.at[i] <= Len(L)
    <2>1. ASSUME NEW i \in 0..top PROVE i \in 0..top + 1 /\ g.at[i] = h.at[i]
      BY <1>0, <1>2
    <2>2. ASSUME NEW i \in 0..top PROVE h.at[i] \in Nat /\ h.at[i] <= Len(L)
      BY HistoryFacts
    <2>3. QED
      BY <2>1, <2>2
  <1>4. g.at[top + 1] = now
    BY <1>0, <1>2
  <1>5. now >= Len(L)
    BY <1>0 DEF now
  <1>6. History(g, n)
    <2>1. IsSeq(g.leaves) /\ g.top \in Nat /\ g.at[g.top] = Len(g.leaves)
      BY <1>0, <1>1, <1>2, <1>4
    <2>2. g.at[0] = 0
      BY <1>0, <1>3
    <2>3. \A i \in 0..top + 1 : i \in 0..top \/ i = top + 1
      BY <1>0
    <2>4. g.at \in [0..top + 1 -> Nat]
      BY <1>0, <1>2, <1>3, <2>3
    <2>5. ASSUME NEW i \in 0..top + 1, NEW j \in 0..top + 1, i <= j PROVE g.at[i] <= g.at[j]
      <3>1. CASE j = top + 1
        <4>1. CASE i = top + 1
          BY <1>0, <1>4, <3>1, <4>1
        <4>2. CASE i \in 0..top
          BY <1>0, <1>3, <1>4, <1>5, <3>1, <4>2, SMTT(30)
        <4>3. QED
          BY <2>3, <4>1, <4>2
      <3>2. CASE j \in 0..top
        <4>1. i \in 0..top
          BY <1>0, <2>5, <3>2
        <4>2. QED
          BY <1>0, <1>3, <2>5, <3>2, <4>1
      <3>3. QED
        BY <2>3, <3>1, <3>2
    <2>6. CeilLogN(Len(g.leaves), n) <= MaxDepth
      BY <1>1, <1>2 DEF now
    <2>7. QED
      BY <1>2, <2>1, <2>2, <2>4, <2>5, <2>6 DEF History
  <1>7. Agree(h, g, top)
    <2>1. top \in 0..h.top /\ top \in 0..g.top
      BY <1>0, <1>2
    <2>2. ASSUME NEW i \in 1..h.at[top] PROVE L[i] = g.leaves[i]
      <3>1. i \in 1..now /\ i <= Len(L)
        BY <1>0, <1>5
      <3>2. QED
        BY <1>1, <1>2, <3>1
    <2>3. QED
      BY <1>3, <2>1, <2>2 DEF Agree
  <1>8. Entries(g, top, top + 1) = <<[seq |-> top, leaves |-> more]>>
    <2>2. SubSeq(M, Len(L) + 1, now) = more
      <3> DEFINE f == Len(L) + 1
                 t == SubSeq(M, f, now)
      <3>1. f \in Nat \ {0} /\ f <= now + 1 /\ now - f + 1 = Len(more)
        BY <1>0, <1>5 DEF now
      <3>2. /\ IsSeq(t) /\ Len(t) = now - f + 1 /\ \A k \in 1..now - f + 1 : t[k] = M[f + k - 1]
        <4> HIDE DEF f
        <4>1. now \in Nat /\ now <= Len(M)
          BY <1>0, <1>1
        <4>2. QED
          BY <1>1, <3>1, <4>1, SubSeqIsSeq, SMTT(30)
      <3>3. ASSUME NEW k \in 1..Len(more) PROVE t[k] = more[k]
        <4>1. f + k - 1 = Len(L) + k /\ Len(L) + k \in 1..now /\ ~(Len(L) + k <= Len(L)) /\ Len(L) + k - Len(L) = k
          BY <1>0, SMTT(30) DEF now
        <4>2. M[Len(L) + k] = more[k]
          BY <1>1, <4>1
        <4>3. k \in 1..now - f + 1
          BY <3>1
        <4>4. t[k] = M[f + k - 1]
          BY <3>2, <4>3
        <4>5. QED
          BY <4>1, <4>2, <4>4
      <3> HIDE DEF t
      <3>4. t = more
        BY <3>1, <3>2, <3>3, SeqEqual2
      <3>5. QED
        BY <3>4 DEF t, f
    <2>3. Entry(g, top) = [seq |-> top, leaves |-> more]
      <3>1. top \in 0..top
        BY <1>0
      <3>2. QED
        BY <1>0, <1>2, <1>3, <1>4, <2>2, <3>1 DEF Entry
    <2>4. QED
      BY <1>0, <2>3, OneEntry
  <1>9. QED
    BY <1>2, <1>6, <1>7, <1>8 DEF g, M

LEMMA CutHistory ==
    ASSUME NEW h, NEW n \in Nat \ {0, 1}, History(h, n), NEW e \in 0..h.top
    PROVE  /\ History(CutAt(h, e), n) /\ Agree(h, CutAt(h, e), e)
           /\ CutAt(h, e).leaves = First(h, h.at[e]) /\ CutAt(h, e).top = e
  <1> DEFINE g == CutAt(h, e)
             s == h.at[e]
  <1>1. /\ IsSeq(h.leaves) /\ Len(h.leaves) \in Nat /\ h.top \in Nat /\ e \in Nat /\ s \in Nat /\ s <= Len(h.leaves)
        /\ h.at[0] = 0 /\ \A i, j \in 0..h.top : i <= j => h.at[i] <= h.at[j]
    BY HistoryFacts DEF History
  <1>2. /\ IsSeq(First(h, s)) /\ Len(First(h, s)) = s
        /\ \A i \in 1..s : First(h, s)[i] = h.leaves[i]
    BY <1>1, FirstIsSeq
  <1>3. g.leaves = First(h, s) /\ g.top = e /\ g.at = [i \in 0..e |-> h.at[i]]
    BY DEF CutAt
  <1>4. \A i \in 0..e : i \in 0..h.top /\ h.at[i] \in Nat /\ g.at[i] = h.at[i]
    <2>1. ASSUME NEW i \in 0..e PROVE i \in 0..h.top /\ g.at[i] = h.at[i]
      BY <1>1, <1>3
    <2>2. ASSUME NEW i \in 0..e PROVE h.at[i] \in Nat
      BY <2>1, HistoryFacts
    <2>3. QED
      BY <2>1, <2>2
  <1>5. CeilLogN(s, n) <= MaxDepth
    <2>1. CeilLogN(s, n) <= CeilLogN(Len(h.leaves), n) /\ CeilLogN(s, n) \in Nat /\ CeilLogN(Len(h.leaves), n) \in Nat
      BY <1>1, DepthAscends, DepthBounds
    <2>2. CeilLogN(Len(h.leaves), n) <= MaxDepth /\ MaxDepth \in Nat
      BY LeanIMTAssumption DEF History
    <2>3. QED
      BY <2>1, <2>2
  <1> HIDE DEF g
  <1>6. 0 \in 0..e /\ e \in 0..e
    BY <1>1
  <1>7. History(g, n)
    <2>1. g.at \in [0..e -> Nat]
      BY <1>3, <1>4
    <2>2. \A i, j \in 0..e : i <= j => g.at[i] <= g.at[j]
      BY <1>1, <1>4
    <2>3. g.at[0] = 0 /\ g.at[e] = Len(g.leaves)
      BY <1>1, <1>2, <1>3, <1>4, <1>6
    <2>4. QED
      BY <1>1, <1>2, <1>3, <1>5, <2>1, <2>2, <2>3 DEF History
  <1>8. Agree(h, g, e)
    BY <1>2, <1>3, <1>4, <1>6 DEF Agree
  <1>9. QED
    BY <1>3, <1>7, <1>8 DEF g

-----------------------------------------------------------------------------
(***************************************************************************)
(* Levels and their files.                                                 *)
(***************************************************************************)
\* One sequence of leaves begins another.
Begins(old, new) ==
    /\ IsSeq(old) /\ IsSeq(new) /\ Len(old) <= Len(new)
    /\ \A i \in 1..Len(old) : old[i] = new[i]

\* The nodes that are read again: leaves, and what an insertion trusts.
Needed(l, k, n) == l = 0 \/ (Aligned(n) /\ k % n # 0)

\* A file of level l has the nodes over full groups of these leaves that are needed.
FileHas(file, leaves, l, n) ==
    \A k \in 1..Len(leaves) : Needed(l, k, n) /\ k * Power(n, l) <= Len(leaves) =>
      k <= Len(file) /\ file[k] = Layer(leaves, l, n)[k]

Level(file, leaves, l, n) ==
    IsSeq(file) /\ FileHas(file, leaves, l, n) /\ Len(file) >= Stored(Len(leaves), l, n)

\* A tree over these leaves, its trusted nodes and its root right.
TreeIs(t, leaves, n) ==
    /\ Shaped(t, leaves, n) /\ t.depth <= MaxDepth
    /\ Aligned(n) => Trusted(t, leaves, n) /\ t.root = RootOf(leaves, n)

LEMMA FirstBegins ==
    ASSUME NEW h, IsSeq(h.leaves), NEW s \in Nat, NEW t \in Nat, s <= t, t <= Len(h.leaves)
    PROVE  Begins(First(h, s), First(h, t)) /\ Begins(First(h, t), h.leaves)
  <1>1. Len(h.leaves) \in Nat /\ s <= Len(h.leaves)
    BY DEF IsSeq
  <1>2. /\ IsSeq(First(h, s)) /\ Len(First(h, s)) = s /\ \A i \in 1..s : First(h, s)[i] = h.leaves[i]
        /\ IsSeq(First(h, t)) /\ Len(First(h, t)) = t /\ \A i \in 1..t : First(h, t)[i] = h.leaves[i]
    BY <1>1, FirstIsSeq
  <1>3. \A i \in 1..s : i \in 1..t
    OBVIOUS
  <1>4. QED
    BY <1>2, <1>3 DEF Begins

LEMMA FirstOfAll ==
    ASSUME NEW h, IsSeq(h.leaves)
    PROVE  First(h, Len(h.leaves)) = h.leaves
  <1>1. Len(h.leaves) \in Nat
    BY DEF IsSeq
  <1>2. QED
    BY <1>1, FirstIsSeq, SeqEqual2

LEMMA StoredAscends ==
    ASSUME NEW n \in Nat \ {0, 1}, NEW s \in Nat, NEW t \in Nat, s <= t, NEW l \in Nat
    PROVE  Stored(s, l, n) <= Stored(t, l, n)
  <1> DEFINE P == Power(n, l)
  <1>1. P \in Nat \ {0}
    BY PowerPositive
  <1>2. /\ CeilLogN(s, n) \in Nat /\ CeilLogN(t, n) \in Nat /\ CeilLogN(s, n) <= CeilLogN(t, n)
    BY DepthBounds, DepthAscends
  <1> HIDE DEF P
  <1>3. /\ CeilDiv(s, P) \in Nat /\ P * CeilDiv(s, P) < s + P
        /\ CeilDiv(t, P) \in Nat /\ t <= P * CeilDiv(t, P)
    BY <1>1, CeilDivBounds
  <1>4. CeilDiv(s, P) <= CeilDiv(t, P)
    <2>1. ASSUME NEW x \in Nat, NEW y \in Nat, P * x < s + P, t <= P * y PROVE x <= y
      <3>1. SUFFICES ASSUME y + 1 <= x PROVE FALSE
        OBVIOUS
      <3>2. P * (y + 1) <= P * x
        BY <1>1, <3>1
      <3>3. P * (y + 1) = P * y + P
        BY <1>1
      <3>4. P * y \in Nat /\ P * x \in Nat
        BY <1>1
      <3>5. QED
        BY <1>1, <2>1, <3>2, <3>3, <3>4
    <2>2. QED
      BY <1>3, <2>1
  <1>5. QED
    BY <1>2, <1>3, <1>4 DEF Stored, P

LEMMA LayerBegins ==
    ASSUME NEW old, NEW new, Begins(old, new), NEW n \in Nat \ {0, 1}, NEW l \in Nat, NEW k \in Nat \ {0},
           k * Power(n, l) <= Len(old)
    PROVE  Layer(old, l, n)[k] = Layer(new, l, n)[k]
  <1>1. /\ IsSeq(old) /\ IsSeq(new) /\ Len(old) <= Len(new) /\ \A i \in 1..Len(old) : old[i] = new[i]
    BY DEF Begins
  <1>2. QED
    BY <1>1, LayerStable

\* With fewer leaves, less is asked of a file.
LEMMA FileHasLess ==
    ASSUME NEW old, NEW new, Begins(old, new), NEW n \in Nat \ {0, 1}, NEW l \in Nat, NEW file,
           FileHas(file, new, l, n)
    PROVE  FileHas(file, old, l, n)
  <1>1. Len(old) \in Nat /\ Len(new) \in Nat /\ Len(old) <= Len(new)
    BY DEF Begins, IsSeq
  <1>2. SUFFICES ASSUME NEW k \in 1..Len(old), Needed(l, k, n), k * Power(n, l) <= Len(old)
                 PROVE  k <= Len(file) /\ file[k] = Layer(old, l, n)[k]
    BY DEF FileHas
  <1>3. Power(n, l) \in Nat \ {0}
    BY PowerPositive
  <1>4. k \in Nat \ {0} /\ k \in 1..Len(new) /\ k * Power(n, l) \in Nat
    BY <1>1, <1>3
  <1>5. k * Power(n, l) <= Len(new)
    BY <1>1, <1>2, <1>4
  <1>6. k <= Len(file) /\ file[k] = Layer(new, l, n)[k]
    BY <1>2, <1>4, <1>5 DEF FileHas
  <1>7. QED
    BY <1>2, <1>4, <1>6, LayerBegins

LEMMA LevelLess ==
    ASSUME NEW old, NEW new, Begins(old, new), NEW n \in Nat \ {0, 1}, NEW l \in Nat, NEW file,
           Level(file, new, l, n)
    PROVE  Level(file, old, l, n)
  <1>1. Len(old) \in Nat /\ Len(new) \in Nat /\ Len(old) <= Len(new)
    BY DEF Begins, IsSeq
  <1>2. Stored(Len(old), l, n) <= Stored(Len(new), l, n)
    BY <1>1, StoredAscends
  <1>3. Stored(Len(old), l, n) \in Nat /\ Stored(Len(new), l, n) \in Nat /\ Len(file) \in Nat
    BY <1>1, StoredBounds DEF Level, IsSeq
  <1>4. QED
    BY <1>2, <1>3, FileHasLess DEF Level

\* A needed node in a whole chunk of a level is over a full group: only a chunk's
\* last node can be over part of one, and that node ends a group of the level above.
LEMMA WholeNode ==
    ASSUME NEW n \in Nat \ {0, 1}, NEW s \in Nat, NEW l \in Nat, NEW c \in Nat,
           c * ChunkSize <= Stored(s, l, n), NEW k \in 1..c * ChunkSize, Needed(l, k, n)
    PROVE  k * Power(n, l) <= s
  <1> DEFINE P == Power(n, l)
             m == c * ChunkSize
  <1>0. ChunkSize \in Nat \ {0} /\ m \in Nat /\ n \in Nat \ {0} /\ n \in Nat
    BY RotorTreeAssumption
  <1>1. P \in Nat \ {0} /\ Power(n, 0) = 1
    BY <1>0, PowerPositive, PowerSteps
  <1>2. k \in Nat \ {0} /\ k <= m /\ m <= Stored(s, l, n)
    BY <1>0
  <1>3. CeilDiv(s, P) \in Nat /\ P * CeilDiv(s, P) < s + P
    BY <1>1, CeilDivBounds
  <1>4. m <= CeilDiv(s, P)
    <2>1. CASE l <= CeilLogN(s, n)
      BY <1>2, <2>1 DEF Stored
    <2>2. CASE ~(l <= CeilLogN(s, n))
      <3>1. m <= 0
        BY <1>2, <2>2 DEF Stored
      <3>2. QED
        BY <1>0, <1>3, <3>1
    <2>3. QED
      BY <2>1, <2>2
  <1>5. CASE l = 0
    <2>1. P = 1
      BY <1>1, <1>5
    <2>2. CeilDiv(s, 1) = s
      BY DEF CeilDiv
    <2>3. k <= s
      BY <1>0, <1>2, <1>4, <2>1, <2>2
    <2>4. QED
      BY <1>2, <2>1, <2>3
  <1>6. CASE l # 0
    <2>1. Aligned(n) /\ k % n # 0
      BY <1>6 DEF Needed
    <2>2. m % n = 0
      <3>1. ChunkSize = (ChunkSize \div n) * n + 0 /\ ChunkSize \div n \in Nat
        <4>1. ChunkSize = (ChunkSize \div n) * n + (ChunkSize % n) /\ ChunkSize \div n \in Nat
          BY <1>0, DivBounds
        <4>2. QED
          BY <2>1, <4>1 DEF Aligned
      <3>2. PICK q \in Nat : ChunkSize = q * n
        BY <1>0, <3>1
      <3>3. m = (c * q) * n + 0 /\ c * q \in Nat
        BY <1>0, <3>2
      <3>4. 0 \in 0..n - 1
        BY <1>0
      <3>5. ASSUME NEW x \in Nat PROVE (x * n + 0) % n = 0
        BY <1>0, <3>4, ModOfSum
      <3>6. QED
        BY <3>3, <3>5
    <2> HIDE DEF m, P
    <2>3. k + 1 <= m
      BY <1>0, <1>2, <2>1, <2>2
    <2>4. k + 1 <= CeilDiv(s, P)
      BY <1>0, <1>2, <1>3, <1>4, <2>3
    <2>5. ASSUME NEW x \in Nat, k + 1 <= x, P * x < s + P PROVE k * P <= s
      <3>1. P * (k + 1) <= P * x
        BY <1>1, <1>2, <2>5
      <3>2. P * (k + 1) = k * P + P
        BY <1>1, <1>2
      <3>3. k * P \in Nat /\ P * x \in Nat
        BY <1>1, <1>2
      <3>4. QED
        BY <1>1, <2>5, <3>1, <3>2, <3>3
    <2>6. QED
      BY <1>3, <2>4, <2>5 DEF P
  <1>7. QED
    BY <1>5, <1>6

\* A level's nodes, to be written into a file or read from one.
NodesFor(nodes, leaves, l, n) ==
    /\ IsSeq(nodes) /\ Len(nodes) = Stored(Len(leaves), l, n)
    /\ \A k \in 1..Len(nodes) : Needed(l, k, n) /\ k * Power(n, l) <= Len(leaves) =>
         nodes[k] = Layer(leaves, l, n)[k]

\* Nodes over full groups are stored.
LEMMA StoredNode ==
    ASSUME NEW n \in Nat \ {0, 1}, NEW s \in Nat, NEW l \in Nat, NEW k \in Nat \ {0}, k * Power(n, l) <= s
    PROVE  k \in 1..Stored(s, l, n) /\ k \in 1..s
  <1> DEFINE P == Power(n, l)
  <1>1. P \in Nat \ {0}
    BY PowerPositive
  <1>2. /\ Stored(s, l, n) \in Nat /\ s \div P \in Nat /\ s \div P <= Stored(s, l, n)
    BY StoredBounds
  <1>3. s < (s \div P) * P + P
    BY <1>1, DivBounds
  <1> HIDE DEF P
  <1>4. ASSUME NEW x \in Nat, s < x * P + P, k * P <= s PROVE k <= x
    <2>1. SUFFICES ASSUME x + 1 <= k PROVE FALSE
      OBVIOUS
    <2>2. (x + 1) * P <= k * P /\ (x + 1) * P = x * P + P /\ x * P \in Nat /\ k * P \in Nat
      BY <1>1, <2>1
    <2>3. QED
      BY <1>1, <1>4, <2>2
  <1>5. k <= s \div P
    BY <1>2, <1>3, <1>4 DEF P
  <1>6. k <= s
    <2>1. k <= k * P /\ k * P \in Nat
      BY <1>1
    <2>2. QED
      BY <2>1 DEF P
  <1>7. QED
    BY <1>2, <1>5, <1>6

\* checkpoint_inner on one level: with the chunks that count as done left alone, the
\* file has what the snapshot's leaves need.
LEMMA LevelWritten ==
    ASSUME NEW n \in Nat \ {0, 1}, NEW l \in Nat, NEW old, NEW new, Begins(old, new),
           NEW file, Level(file, old, l, n), NEW from \in Nat, from * ChunkSize <= Stored(Len(old), l, n),
           NEW nodes, NodesFor(nodes, new, l, n)
    PROVE  Level(WithChunks(file, from, nodes), new, l, n)
  <1> DEFINE m == from * ChunkSize
             all == CeilDiv(Len(nodes), ChunkSize) * ChunkSize
             len == IF m >= Len(nodes) THEN Len(file) ELSE all
             new1 == WithChunks(file, from, nodes)
  <1>0. /\ ChunkSize \in Nat \ {0} /\ m \in Nat /\ Len(old) \in Nat /\ Len(new) \in Nat /\ IsSeq(file)
        /\ Len(file) \in Nat /\ IsSeq(nodes) /\ Len(nodes) \in Nat /\ Len(nodes) = Stored(Len(new), l, n)
    BY RotorTreeAssumption DEF Begins, IsSeq, Level, NodesFor
  <1>1. all \in Nat /\ Len(nodes) <= all
    <2>1. CeilDiv(Len(nodes), ChunkSize) \in Nat /\ Len(nodes) <= ChunkSize * CeilDiv(Len(nodes), ChunkSize)
      BY <1>0, CeilDivBounds
    <2>2. ASSUME NEW x \in Nat PROVE x * ChunkSize = ChunkSize * x /\ x * ChunkSize \in Nat
      BY <1>0
    <2>3. QED
      BY <2>1, <2>2
  <1>2. m <= Len(file)
    <2>1. Stored(Len(old), l, n) \in Nat
      BY <1>0, StoredBounds
    <2>2. QED
      BY <1>0, <2>1 DEF Level
  <1> HIDE DEF m, all
  <1>3. len \in Nat /\ len >= Len(nodes)
    BY <1>0, <1>1, <1>2
  <1>4. /\ new1 = [k \in 1..len |-> new1[k]]
        /\ \A k \in 1..len :
             new1[k] = IF k <= m \/ m >= Len(nodes)
                       THEN IF k <= Len(file) THEN file[k] ELSE Zero
                       ELSE IF k <= Len(nodes) THEN nodes[k] ELSE Zero
    BY DEF WithChunks, m, all
  <1> HIDE DEF new1, len
  <1>5. IsSeq(new1) /\ Len(new1) = len
    BY <1>3, <1>4, TableIsSeq
  <1>6. FileHas(new1, new, l, n)
    <2>1. SUFFICES ASSUME NEW k \in 1..Len(new), Needed(l, k, n), k * Power(n, l) <= Len(new)
                   PROVE  k <= Len(new1) /\ new1[k] = Layer(new, l, n)[k]
      BY DEF FileHas
    <2>2. k \in Nat \ {0}
      BY <1>0
    <2>3. k \in 1..Len(nodes)
      BY <1>0, <2>1, <2>2, StoredNode
    <2>4. k \in 1..len
      BY <1>0, <1>3, <2>3
    <2>5. CASE k <= m
      <3>1. k \in 1..m
        BY <1>0, <2>2, <2>5
      <3>2. k * Power(n, l) <= Len(old)
        BY <1>0, <2>1, <3>1, WholeNode DEF m
      <3>3. k \in 1..Len(old)
        BY <1>0, <2>2, <3>2, StoredNode
      <3>4. k <= Len(file) /\ file[k] = Layer(old, l, n)[k]
        BY <2>1, <3>2, <3>3 DEF Level, FileHas
      <3>5. Layer(old, l, n)[k] = Layer(new, l, n)[k]
        BY <2>2, <3>2, LayerBegins
      <3>6. new1[k] = file[k]
        BY <1>4, <2>4, <2>5, <3>4
      <3>7. k <= Len(new1)
        BY <1>5, <2>4
      <3>8. QED
        BY <3>4, <3>5, <3>6, <3>7
    <2>6. CASE ~(k <= m)
      <3>1. ~(m >= Len(nodes)) /\ k <= Len(nodes)
        BY <1>0, <2>3, <2>6
      <3>2. new1[k] = nodes[k]
        BY <1>4, <2>4, <2>6, <3>1
      <3>3. nodes[k] = Layer(new, l, n)[k]
        BY <2>1, <2>3 DEF NodesFor
      <3>4. k <= Len(new1)
        BY <1>5, <2>4
      <3>5. QED
        BY <3>2, <3>3, <3>4
    <2>7. QED
      BY <2>5, <2>6
  <1>7. QED
    BY <1>0, <1>3, <1>5, <1>6 DEF Level, new1

\* The level of a tree.
LEMMA TreeNodes ==
    ASSUME NEW n \in Nat \ {0, 1}, NEW t, NEW leaves, TreeIs(t, leaves, n), NEW l \in Levels
    PROVE  NodesFor(t.levels[l], leaves, l, n)
  <1> DEFINE nodes == t.levels[l]
  <1>1. IsSeq(nodes) /\ Len(nodes) = Stored(Len(leaves), l, n) /\ l \in Nat /\ Len(nodes) \in Nat
    BY LeanIMTAssumption DEF TreeIs, Shaped, IsTree, Levels, IsSeq
  <1>2. ASSUME NEW k \in 1..Len(nodes), Needed(l, k, n), k * Power(n, l) <= Len(leaves)
        PROVE  nodes[k] = Layer(leaves, l, n)[k]
    <2>1. CASE l = 0
      BY <2>1, LayerSteps DEF TreeIs, Shaped
    <2>2. CASE l # 0
      <3>1. Aligned(n) /\ k % n # 0 /\ k \in Nat \ {0}
        BY <1>1, <1>2, <2>2 DEF Needed
      <3>2. QED
        BY <1>2, <3>1 DEF TreeIs, Trusted
    <2>3. QED
      BY <2>1, <2>2
  <1>3. QED
    BY <1>1, <1>2 DEF NodesFor

LEMMA TreeFromNodes ==
    ASSUME NEW n \in Nat \ {0, 1}, NEW t, NEW leaves, IsTree(t), IsSeq(leaves), t.size = Len(leaves),
           t.depth = CeilLogN(Len(leaves), n), t.depth <= MaxDepth,
           \A l \in Levels : NodesFor(t.levels[l], leaves, l, n),
           Aligned(n) => t.root = RootOf(leaves, n)
    PROVE  TreeIs(t, leaves, n)
  <1>0. Len(leaves) \in Nat /\ 0 \in Levels /\ n \in Nat
    BY LeanIMTAssumption DEF IsSeq, Levels
  <1>1. \A l \in Levels : Len(t.levels[l]) = Stored(Len(leaves), l, n)
    BY DEF NodesFor
  <1>2. t.levels[0] = leaves
    <2> DEFINE nodes == t.levels[0]
    <2>1. NodesFor(nodes, leaves, 0, n)
      BY <1>0
    <2>2. Power(n, 0) = 1 /\ Layer(leaves, 0, n) = leaves
      BY <1>0, PowerSteps, LayerSteps
    <2>3. Stored(Len(leaves), 0, n) = Len(leaves)
      <3>1. CeilDiv(Len(leaves), 1) = Len(leaves)
        BY <1>0 DEF CeilDiv
      <3>2. 0 <= CeilLogN(Len(leaves), n)
        BY <1>0, DepthBounds
      <3>3. QED
        BY <2>2, <3>1, <3>2 DEF Stored
    <2> HIDE DEF nodes
    <2>4. IsSeq(nodes) /\ Len(nodes) = Len(leaves)
      BY <2>1, <2>3 DEF NodesFor
    <2>5. ASSUME NEW k \in 1..Len(nodes) PROVE nodes[k] = leaves[k]
      <3>1. k * 1 <= Len(leaves)
        BY <1>0, <2>4
      <3>2. QED
        BY <2>1, <2>2, <3>1 DEF NodesFor, Needed
    <2>6. QED
      BY <2>4, <2>5, SeqEqual2 DEF nodes
  <1>3. Aligned(n) => Trusted(t, leaves, n)
    <2> SUFFICES ASSUME Aligned(n), NEW l \in Levels, NEW k \in Nat \ {0}, k % n # 0, k * Power(n, l) <= Len(leaves)
                 PROVE  t.levels[l][k] = Layer(leaves, l, n)[k]
      BY DEF Trusted
    <2>1. l \in Nat
      BY LeanIMTAssumption DEF Levels
    <2>2. k \in 1..Len(t.levels[l])
      BY <1>0, <1>1, <2>1, StoredNode
    <2>3. QED
      BY <2>2 DEF NodesFor, Needed
  <1>4. QED
    BY <1>1, <1>2, <1>3 DEF TreeIs, Shaped

\* remap_chunks reads back the nodes it replaces, or nodes that are not needed.
LEMMA TreeRemapped ==
    ASSUME NEW n \in Nat \ {0, 1}, NEW t, NEW leaves, TreeIs(t, leaves, n), NEW old, Begins(old, leaves),
           NEW l \in Levels, NEW file, Level(file, old, l, n), NEW c \in Nat,
           c * ChunkSize <= Stored(Len(old), l, n)
    PROVE  TreeIs([t EXCEPT !.levels[l] = Remapped(@, file, c)], leaves, n)
  <1> DEFINE nodes == t.levels[l]
             new == Remapped(nodes, file, c)
             u == [t EXCEPT !.levels[l] = new]
             m == c * ChunkSize
  <1>0. /\ IsTree(t) /\ IsSeq(leaves) /\ IsSeq(nodes) /\ Len(nodes) \in Nat /\ l \in Nat /\ Len(old) \in Nat
        /\ Len(leaves) \in Nat /\ ChunkSize \in Nat \ {0} /\ m \in Nat
    BY RotorTreeAssumption, LeanIMTAssumption, SMTT(30) DEF TreeIs, Shaped, IsTree, IsSeq, Levels, Begins
  <1>1. NodesFor(nodes, leaves, l, n)
    BY TreeNodes
  <1>2. DOMAIN nodes = 1..Len(nodes)
    BY <1>0 DEF IsSeq
  <1>3. /\ new = [k \in 1..Len(nodes) |-> new[k]]
        /\ \A k \in 1..Len(nodes) : new[k] = IF k <= m THEN file[k] ELSE nodes[k]
    BY <1>2 DEF Remapped
  <1>4. /\ u = [levels |-> u.levels, root |-> t.root, size |-> t.size, depth |-> t.depth]
        /\ u.levels = [j \in Levels |-> IF j = l THEN new ELSE t.levels[j]]
    <2> DEFINE levels == [j \in Levels |-> IF j = l THEN new ELSE t.levels[j]]
    <2> HIDE DEF new
    <2>1. /\ t = [levels |-> t.levels, root |-> t.root, size |-> t.size, depth |-> t.depth]
          /\ t.levels = [j \in Levels |-> t.levels[j]]
      BY <1>0 DEF IsTree
    <2>2. [t.levels EXCEPT ![l] = new] = levels
      BY <2>1
    <2>3. u = [t EXCEPT !.levels = [t.levels EXCEPT ![l] = new]]
      OBVIOUS
    <2>4. u = [t EXCEPT !.levels = levels]
      BY <2>2, <2>3
    <2> HIDE DEF levels, u
    <2>5. u = [levels |-> levels, root |-> t.root, size |-> t.size, depth |-> t.depth]
      BY <2>1, <2>4
    <2>6. QED
      BY <2>5 DEF levels
  <1> HIDE DEF new, u, m, nodes
  <1>5. IsSeq(new) /\ Len(new) = Len(nodes)
    BY <1>0, <1>3, TableIsSeq
  <1>6. NodesFor(new, leaves, l, n)
    <2>1. ASSUME NEW k \in 1..Len(nodes), Needed(l, k, n), k * Power(n, l) <= Len(leaves)
          PROVE  new[k] = Layer(leaves, l, n)[k]
      <3>1. CASE k <= m
        <4>1. k \in 1..m /\ k \in Nat \ {0}
          BY <1>0, <3>1
        <4>2. k * Power(n, l) <= Len(old)
          BY <1>0, <2>1, <4>1, WholeNode DEF m
        <4>3. k \in 1..Len(old)
          BY <1>0, <4>1, <4>2, StoredNode
        <4>4. file[k] = Layer(old, l, n)[k]
          BY <2>1, <4>2, <4>3 DEF Level, FileHas
        <4>5. Layer(old, l, n)[k] = Layer(leaves, l, n)[k]
          BY <1>0, <4>1, <4>2, LayerBegins
        <4>6. QED
          BY <1>3, <3>1, <4>4, <4>5
      <3>2. CASE ~(k <= m)
        BY <1>1, <1>3, <2>1, <3>2 DEF NodesFor
      <3>3. QED
        BY <3>1, <3>2
    <2>2. QED
      BY <1>1, <1>5, <2>1 DEF NodesFor
  <1>7. ASSUME NEW j \in Levels PROVE NodesFor(u.levels[j], leaves, j, n) /\ IsSeq(u.levels[j])
    <2>1. NodesFor(t.levels[j], leaves, j, n)
      BY TreeNodes
    <2>2. QED
      BY <1>4, <1>6, <2>1 DEF NodesFor
  <1>8. IsTree(u)
    BY <1>4, <1>7 DEF IsTree
  <1>9. /\ u.size = Len(leaves) /\ u.depth = CeilLogN(Len(leaves), n) /\ u.depth <= MaxDepth
        /\ Aligned(n) => u.root = RootOf(leaves, n)
    BY <1>4 DEF TreeIs, Shaped
  <1>10. TreeIs(u, leaves, n)
    BY <1>0, <1>7, <1>8, <1>9, TreeFromNodes
  <1>11. QED
    BY <1>10 DEF u, new, nodes

\* Insertion keeps the tree right.
LEMMA TreeInserted ==
    ASSUME arity \in Nat \ {0, 1}, NEW t, NEW leaves, NEW leaf, TreeIs(t, leaves, arity),
           CeilLogN(Len(leaves) + 1, arity) <= MaxDepth
    PROVE  TreeIs(Insert(t, leaf), leaves \o <<leaf>>, arity)
  <1> DEFINE n == arity
             u == Insert(t, leaf)
             new == Append(leaves, leaf)
  <1>0. Shaped(t, leaves, n) /\ IsSeq(leaves) /\ Len(leaves) \in Nat
    BY DEF TreeIs, Shaped, IsSeq
  <1>1. IsSeq(new) /\ Len(new) = Len(leaves) + 1 /\ \A k \in 1..Len(leaves) : new[k] = leaves[k]
    BY <1>0, AppendIsSeq
  <1>2. new = leaves \o <<leaf>>
    <2>1. IsSeq(<<leaf>>) /\ Len(<<leaf>>) = 1 /\ <<leaf>>[1] = leaf
      BY DEF IsSeq
    <2> DEFINE one == <<leaf>>
               cat == leaves \o one
    <2> HIDE DEF one
    <2>2. /\ IsSeq(cat) /\ Len(cat) = Len(leaves) + Len(one)
          /\ \A k \in 1..Len(leaves) + Len(one) : cat[k] = IF k <= Len(leaves) THEN leaves[k] ELSE one[k - Len(leaves)]
      BY <1>0, <2>1, ConcatIsSeq DEF one
    <2>3. Len(one) = 1 /\ one[1] = leaf
      BY <2>1 DEF one
    <2>4. new[Len(leaves) + 1] = leaf
      BY <1>0, AppendIsSeq
    <2> HIDE DEF cat, new
    <2>5. ASSUME NEW k \in 1..Len(leaves) + 1 PROVE new[k] = cat[k]
      <3>1. CASE k <= Len(leaves)
        BY <1>0, <1>1, <2>2, <2>3, <3>1
      <3>2. CASE k = Len(leaves) + 1
        <4>1. k - Len(leaves) = 1 /\ ~(k <= Len(leaves))
          BY <1>0, <3>2
        <4>2. QED
          BY <1>0, <2>2, <2>3, <2>4, <3>2, <4>1
      <3>3. QED
        BY <1>0, <3>1, <3>2
    <2>6. new = cat
      BY <1>1, <2>2, <2>3, <2>5, SeqEqual2
    <2>7. QED
      BY <2>6 DEF cat, one
  <1>3. Shaped(u, new, n)
    BY <1>0, InsertLevels
  <1>4. u.depth <= MaxDepth
    BY <1>1, <1>3 DEF Shaped
  <1>5. ASSUME Aligned(n) PROVE Trusted(u, new, n) /\ u.root = RootOf(new, n)
    <2>1. Trusted(t, leaves, n)
      BY <1>5 DEF TreeIs
    <2>2. Rehashed(t, leaves, u, new, n) /\ u.root = RootOf(new, n)
      BY <1>0, <2>1, InsertNodes
    <2>3. \A i \in 1..Len(leaves) : leaves[i] = new[i]
      BY <1>1
    <2>4. Len(leaves) < Len(new)
      BY <1>0, <1>1
    <2> HIDE DEF u, new
    <2>5. Trusted(u, new, n)
      BY <1>0, <1>3, <2>1, <2>2, <2>3, <2>4, RehashedKeeps
    <2>6. QED
      BY <2>2, <2>5
  <1>6. TreeIs(u, new, n)
    BY <1>3, <1>4, <1>5 DEF TreeIs
  <1>7. QED
    BY <1>2, <1>6

LEMMA TreeGrown ==
    ASSUME arity \in Nat \ {0, 1}, NEW t, NEW leaves, NEW more, TreeIs(t, leaves, arity), IsSeq(more),
           Len(more) > 0, CeilLogN(Len(leaves) + Len(more), arity) <= MaxDepth
    PROVE  TreeIs(InsertMany(t, more), leaves \o more, arity)
  <1> DEFINE n == arity
             u == InsertMany(t, more)
             new == leaves \o more
  <1>0. Shaped(t, leaves, n) /\ IsSeq(leaves) /\ Len(leaves) \in Nat /\ Len(more) \in Nat
    BY DEF TreeIs, Shaped, IsSeq
  <1>1. IsSeq(new) /\ Len(new) = Len(leaves) + Len(more) /\ \A k \in 1..Len(leaves) : new[k] = leaves[k]
    <2>1. /\ IsSeq(new) /\ Len(new) = Len(leaves) + Len(more)
          /\ \A k \in 1..Len(leaves) + Len(more) : new[k] = IF k <= Len(leaves) THEN leaves[k] ELSE more[k - Len(leaves)]
      BY <1>0, ConcatIsSeq
    <2>2. \A k \in 1..Len(leaves) : k \in 1..Len(leaves) + Len(more) /\ k <= Len(leaves)
      BY <1>0
    <2> HIDE DEF new
    <2>3. QED
      BY <2>1, <2>2
  <1>2. Shaped(u, new, n)
    BY <1>0, InsertManyShape DEF BatchSet
  <1>3. u.depth <= MaxDepth
    BY <1>1, <1>2 DEF Shaped
  <1>4. ASSUME Aligned(n) PROVE Trusted(u, new, n) /\ u.root = RootOf(new, n)
    <2>1. Trusted(t, leaves, n)
      BY <1>4 DEF TreeIs
    <2>2. Rehashed(t, leaves, u, new, n) /\ u.root = RootOf(new, n)
      BY <1>0, <2>1, InsertManyNodes
    <2>3. \A i \in 1..Len(leaves) : leaves[i] = new[i]
      BY <1>1
    <2>4. Len(leaves) < Len(new)
      BY <1>0, <1>1
    <2> HIDE DEF u, new
    <2>5. Trusted(u, new, n)
      BY <1>0, <1>2, <2>1, <2>2, <2>3, <2>4, RehashedKeeps
    <2>6. QED
      BY <2>2, <2>5
  <1>5. QED
    BY <1>2, <1>3, <1>4 DEF TreeIs

-----------------------------------------------------------------------------
(***************************************************************************)
(* The log.                                                                *)
(***************************************************************************)
LEMMA SubSeqJoin ==
    ASSUME NEW s, IsSeq(s), NEW x \in Nat, NEW y \in Nat, NEW z \in Nat, x <= y, y <= z, z <= Len(s)
    PROVE  SubSeq(s, x + 1, y) \o SubSeq(s, y + 1, z) = SubSeq(s, x + 1, z)
  <1> DEFINE a == x + 1
             b == y + 1
             u == SubSeq(s, a, y)
             v == SubSeq(s, b, z)
             w == SubSeq(s, a, z)
  <1>0. /\ a \in Nat \ {0} /\ b \in Nat \ {0} /\ a <= y + 1 /\ b <= z + 1 /\ a <= z + 1
        /\ y <= Len(s) /\ y - a + 1 = y - x /\ z - b + 1 = z - y /\ z - a + 1 = z - x
    BY SMTT(30) DEF IsSeq
  <1>1. /\ IsSeq(u) /\ Len(u) = y - x /\ \A k \in 1..y - x : u[k] = s[a + k - 1]
        /\ IsSeq(v) /\ Len(v) = z - y /\ \A k \in 1..z - y : v[k] = s[b + k - 1]
        /\ IsSeq(w) /\ Len(w) = z - x /\ \A k \in 1..z - x : w[k] = s[a + k - 1]
    <2> HIDE DEF a, b
    <2>1. /\ IsSeq(u) /\ Len(u) = y - a + 1 /\ \A k \in 1..y - a + 1 : u[k] = s[a + k - 1]
      BY <1>0, SubSeqIsSeq
    <2>2. /\ IsSeq(v) /\ Len(v) = z - b + 1 /\ \A k \in 1..z - b + 1 : v[k] = s[b + k - 1]
      BY <1>0, SubSeqIsSeq
    <2>3. /\ IsSeq(w) /\ Len(w) = z - a + 1 /\ \A k \in 1..z - a + 1 : w[k] = s[a + k - 1]
      BY <1>0, SubSeqIsSeq
    <2> HIDE DEF u, v, w
    <2>4. QED
      BY <1>0, <2>1, <2>2, <2>3
  <1> HIDE DEF u, v, w
  <1>2. /\ IsSeq(u \o v) /\ Len(u \o v) = Len(u) + Len(v)
        /\ \A k \in 1..Len(u) + Len(v) : (u \o v)[k] = IF k <= Len(u) THEN u[k] ELSE v[k - Len(u)]
    BY <1>1, ConcatIsSeq
  <1>3. Len(u) + Len(v) = z - x
    BY <1>1
  <1>4. ASSUME NEW k \in 1..z - x PROVE (u \o v)[k] = w[k]
    <2>1. CASE k <= y - x
      <3>1. k \in 1..y - x
        BY <2>1
      <3>2. QED
        BY <1>1, <1>2, <1>3, <2>1, <3>1
    <2>2. CASE ~(k <= y - x)
      <3> DEFINE j == k - (y - x)
      <3>1. j \in 1..z - y /\ b + j - 1 = a + k - 1
        BY <2>2
      <3>2. (u \o v)[k] = v[j]
        BY <1>1, <1>2, <1>3, <2>2
      <3>3. v[j] = s[a + k - 1]
        BY <1>1, <3>1
      <3>4. QED
        BY <1>1, <3>2, <3>3
    <2>3. QED
      BY <2>1, <2>2
  <1>5. u \o v = w
    BY <1>1, <1>2, <1>3, <1>4, SeqEqual2
  <1>6. QED
    BY <1>5 DEF u, v, w, a, b

LEMMA SubSeqNone ==
    ASSUME NEW s, NEW x \in Nat
    PROVE  SubSeq(s, x + 1, x) = <<>>
  BY SubSeqEmpty

\* A frame that replay accepts behind the one before it.
Accepted(w, j) == w[j] # Torn /\ (j > 1 => w[j].seq = w[j - 1].seq + 1)

LEMMA ValidFramesAre ==
    ASSUME NEW w, Len(w) \in Nat, NEW m \in 0..Len(w), \A j \in 1..m : Accepted(w, j),
           m < Len(w) => w[m + 1] = Torn
    PROVE  ValidFrames(w) = m
  <1> DEFINE valid(k) == \A j \in 1..k : w[j] # Torn /\ (j > 1 => w[j].seq = w[j - 1].seq + 1)
             good(n) == valid(n) /\ (n < Len(w) => ~valid(n + 1))
  <1>1. good(m)
    <2>1. valid(m)
      BY DEF Accepted
    <2>2. m < Len(w) => ~valid(m + 1)
      <3>1. m + 1 \in 1..m + 1
        OBVIOUS
      <3>2. QED
        BY <3>1
    <2>3. QED
      BY <2>1, <2>2
  <1>2. ASSUME NEW n \in 0..Len(w), good(n) PROVE n = m
    <2>1. CASE n < m
      <3>1. n < Len(w) /\ \A j \in 1..n + 1 : j \in 1..m
        BY <2>1
      <3>2. valid(n + 1)
        BY <1>1, <3>1
      <3>3. QED
        BY <1>2, <3>1, <3>2
    <2>2. CASE n > m
      <3>1. m < Len(w) /\ m + 1 \in 1..n
        BY <2>2
      <3>2. QED
        BY <1>2, <3>1
    <2>3. QED
      BY <2>1, <2>2
  <1> HIDE DEF good
  <1>3. m = CHOOSE n \in 0..Len(w) : good(n)
    BY <1>1, <1>2, Zenon
  <1>4. ValidFrames(w) = CHOOSE n \in 0..Len(w) : good(n)
    BY DEF ValidFrames, good
  <1>5. QED
    BY <1>3, <1>4

LEMMA EntriesAccepted ==
    ASSUME NEW h, NEW a \in Nat, NEW b \in Nat, a <= b, NEW w,
           \A k \in 1..b - a : w[k] = Entry(h, a + k - 1)
    PROVE  \A j \in 1..b - a : Accepted(w, j)
  <1> SUFFICES ASSUME NEW j \in 1..b - a PROVE Accepted(w, j)
    OBVIOUS
  <1>1. w[j] = Entry(h, a + j - 1) /\ a + j - 1 \in Nat
    OBVIOUS
  <1>2. w[j].seq = a + j - 1
    BY <1>1 DEF Entry
  <1>3. w[j] # Torn
    <2>1. Torn.seq = -1
      BY DEF Torn
    <2>2. QED
      BY <1>1, <1>2, <2>1
  <1>4. ASSUME j > 1 PROVE w[j].seq = w[j - 1].seq + 1
    <2> DEFINE i == j - 1
    <2>1. i \in 1..b - a /\ a + i - 1 = a + j - 2
      BY <1>4
    <2>2. w[i] = Entry(h, a + i - 1)
      BY <2>1
    <2>3. w[i].seq = a + j - 2
      BY <2>1, <2>2 DEF Entry
    <2>4. QED
      BY <1>2, <2>3
  <1>5. QED
    BY <1>3, <1>4 DEF Accepted

\* Replay accepts a run of entries, and stops at a torn frame behind it.
LEMMA ValidEntries ==
    ASSUME NEW h, NEW a \in Nat, NEW b \in Nat, a <= b
    PROVE  /\ ValidFrames(Entries(h, a, b)) = b - a
           /\ ValidFrames(Append(Entries(h, a, b), Torn)) = b - a
           /\ Len(Append(Entries(h, a, b), Torn)) = b - a + 1
           /\ SubSeq(Append(Entries(h, a, b), Torn), 1, b - a) = Entries(h, a, b)
  <1> DEFINE s == Entries(h, a, b)
             t == Append(s, Torn)
             m == b - a
  <1>1. IsSeq(s) /\ Len(s) = b - a /\ \A k \in 1..b - a : s[k] = Entry(h, a + k - 1)
    BY EntriesIsSeq
  <1> HIDE DEF s
  <1>2. /\ IsSeq(t) /\ Len(t) = Len(s) + 1 /\ \A k \in 1..Len(s) : t[k] = s[k]
        /\ t[Len(s) + 1] = Torn
    BY <1>1, AppendIsSeq
  <1> HIDE DEF t
  <1>3. \A k \in 1..b - a : t[k] = Entry(h, a + k - 1)
    BY <1>1, <1>2
  <1>4. (\A j \in 1..b - a : Accepted(s, j)) /\ (\A j \in 1..b - a : Accepted(t, j))
    BY <1>1, <1>3, EntriesAccepted
  <1>5. m \in Nat
    OBVIOUS
  <1>6. ValidFrames(s) = m
    <2>1. Len(s) \in Nat /\ m \in 0..Len(s) /\ ~(m < Len(s))
      BY <1>1, <1>5
    <2>2. \A j \in 1..m : Accepted(s, j)
      BY <1>4
    <2> HIDE DEF m
    <2>3. QED
      BY <2>1, <2>2, ValidFramesAre
  <1>7. ValidFrames(t) = m
    <2>1. Len(t) \in Nat /\ m \in 0..Len(t) /\ t[m + 1] = Torn
      BY <1>1, <1>2, <1>5
    <2>2. \A j \in 1..m : Accepted(t, j)
      BY <1>4
    <2> HIDE DEF m
    <2>3. QED
      BY <2>1, <2>2, ValidFramesAre
  <1>8. SubSeq(t, 1, m) = s
    <2>1. m <= Len(t)
      BY <1>1, <1>2
    <2> HIDE DEF m
    <2>2. /\ IsSeq(SubSeq(t, 1, m)) /\ Len(SubSeq(t, 1, m)) = m /\ \A i \in 1..m : SubSeq(t, 1, m)[i] = t[i]
      BY <1>2, <1>5, <2>1, PrefixIsSeq
    <2>3. Len(s) = m
      BY <1>1 DEF m
    <2>4. QED
      BY <1>1, <1>2, <2>2, <2>3, SeqEqual2
  <1>9. QED
    BY <1>1, <1>2, <1>6, <1>7, <1>8 DEF s, t


\* Replay, one frame at a time.
ReplayStep(before, frame) == before \o (IF Newer(frame.seq) THEN frame.leaves ELSE <<>>)

ReplayTable(f, frames) ==
    f = [k \in 0..Len(frames) |-> IF k = 0 THEN <<>> ELSE ReplayStep(f[k - 1], frames[k])]

LEMMA ReplayedIsTable ==
    ASSUME NEW frames, Len(frames) \in Nat, NEW g, ReplayTable(g, frames)
    PROVE  Replayed(frames) = g[Len(frames)]
  <1> DEFINE step(f) == [k \in 0..Len(frames) |->
                           IF k = 0 THEN <<>> ELSE ReplayStep(f[k - 1], frames[k])]
             chosen == CHOOSE f : f = step(f)
  <1>1. \A f : ReplayTable(f, frames) <=> f = step(f)
    BY DEF ReplayTable
  <1>2. Replayed(frames) = chosen[Len(frames)]
    BY DEF Replayed, ReplayStep
  <1>3. g = step(g)
    BY <1>1
  <1>4. chosen = step(chosen)
    <2> HIDE DEF step
    <2>1. QED
      BY <1>3, Zenon
  <1> HIDE DEF chosen
  <1> DEFINE Same == {k \in Nat : k <= Len(frames) => chosen[k] = g[k]}
  <1>5. 0 \in Same
    BY <1>3, <1>4
  <1>6. ASSUME NEW k \in Nat, k \in Same PROVE k + 1 \in Same
    <2>1. SUFFICES ASSUME k + 1 <= Len(frames) PROVE chosen[k + 1] = g[k + 1]
      OBVIOUS
    <2>2. k + 1 \in 0..Len(frames) /\ k + 1 # 0 /\ k + 1 - 1 = k /\ k <= Len(frames)
      BY <2>1
    <2>3. /\ chosen[k + 1] = ReplayStep(chosen[k], frames[k + 1])
          /\ g[k + 1] = ReplayStep(g[k], frames[k + 1])
      BY <1>3, <1>4, <2>2
    <2>4. QED
      BY <1>6, <2>2, <2>3
  <1>7. \A k \in Nat : k \in Same
    <2> HIDE DEF Same
    <2>1. QED
      BY <1>5, <1>6, Inductive
  <1>8. QED
    BY <1>2, <1>7

LEMMA ReplayedNone == Replayed(<<>>) = <<>>
  <1> DEFINE g == [k \in 0..0 |-> <<>>]
  <1>1. Len(<<>>) = 0
    OBVIOUS
  <1>2. ReplayTable(g, <<>>)
    BY <1>1 DEF ReplayTable
  <1>3. QED
    BY <1>1, <1>2, ReplayedIsTable

LEMMA EntryParts ==
    ASSUME NEW h, NEW s
    PROVE  Entry(h, s).seq = s /\ Entry(h, s).leaves = SubSeq(h.leaves, h.at[s] + 1, h.at[s + 1])
  BY DEF Entry

\* Replay of a run of entries gives the leaves behind the checkpoint's.
LEMMA ReplayedEntries ==
    ASSUME NEW h, NEW n, History(h, n), NEW a \in Nat, NEW b \in 0..h.top, NEW m \in Nat,
           a <= m, m <= b, meta.seq \in Int, meta.seq + 1 = m
    PROVE  Replayed(Entries(h, a, b)) = SubSeq(h.leaves, h.at[m] + 1, h.at[b])
  <1> DEFINE frames == Entries(h, a, b)
             upTo(k) == IF a + k <= m THEN m ELSE a + k
             g == [k \in 0..b - a |-> SubSeq(h.leaves, h.at[m] + 1, h.at[upTo(k)])]
             leaves == h.leaves
  <1>0. h.top \in Nat /\ b \in Nat /\ m \in 0..h.top /\ a <= b
    BY DEF History
  <1>1. Len(frames) = b - a /\ \A k \in 1..b - a : frames[k] = Entry(h, a + k - 1)
    BY <1>0, EntriesIsSeq
  <1>2. IsSeq(leaves) /\ h.at[m] \in Nat
    BY <1>0, HistoryFacts DEF History
  <1>3. ASSUME NEW q \in Nat PROVE Newer(q) <=> q >= m
    <2>1. CASE meta = NoMeta
      BY <2>1 DEF Newer, NoMeta
    <2>2. CASE meta # NoMeta
      BY <2>2 DEF Newer
    <2>3. QED
      BY <2>1, <2>2
  <1> HIDE DEF frames
  <1>4. g[0] = <<>>
    <2>1. upTo(0) = m /\ 0 \in 0..b - a
      BY <1>0
    <2>2. g[0] = SubSeq(h.leaves, h.at[m] + 1, h.at[m])
      BY <2>1
    <2>3. QED
      BY <1>2, <2>2, SubSeqNone
  <1>5. ASSUME NEW k \in 1..b - a PROVE g[k] = ReplayStep(g[k - 1], frames[k])
    <2> DEFINE s == a + k - 1
    <2>0. /\ s \in Nat /\ s \in 0..h.top /\ s + 1 \in 0..h.top /\ k - 1 \in 0..b - a /\ a + (k - 1) = s
          /\ k \in 0..b - a /\ a + k = s + 1 /\ s <= s + 1
      BY <1>0
    <2>1. frames[k].seq = s /\ frames[k].leaves = SubSeq(leaves, h.at[s] + 1, h.at[s + 1])
      <3>1. frames[k] = Entry(h, s)
        BY <1>1
      <3>2. Entry(h, s).seq = s /\ Entry(h, s).leaves = SubSeq(h.leaves, h.at[s] + 1, h.at[s + 1])
        BY EntryParts
      <3>3. QED
        BY <3>1, <3>2, Zenon
    <2>2. /\ g[k] = SubSeq(leaves, h.at[m] + 1, h.at[upTo(k)])
          /\ g[k - 1] = SubSeq(leaves, h.at[m] + 1, h.at[upTo(k - 1)])
      BY <2>0
    <2> HIDE DEF g, s
    <2>3. CASE s < m
      <3>1. upTo(k) = m /\ upTo(k - 1) = m /\ ~Newer(s)
        BY <1>0, <1>3, <2>0, <2>3
      <3>2. g[k] = <<>> /\ g[k - 1] = <<>>
        BY <1>2, <2>2, <3>1, SubSeqNone
      <3>3. ReplayStep(g[k - 1], frames[k]) = <<>> \o <<>>
        BY <2>1, <3>1, <3>2 DEF ReplayStep
      <3>4. QED
        BY <3>2, <3>3
    <2>4. CASE s >= m
      <3>1. upTo(k) = s + 1 /\ upTo(k - 1) = s /\ Newer(s)
        BY <1>0, <1>3, <2>0, <2>4
      <3> DEFINE x == h.at[m]
                 y == h.at[s]
                 z == h.at[s + 1]
      <3>2. x \in Nat /\ y \in Nat /\ z \in Nat /\ x <= y /\ y <= z /\ z <= Len(leaves)
        BY <1>0, <2>0, <2>4, HistoryFacts
      <3>3. g[k] = SubSeq(leaves, x + 1, z) /\ g[k - 1] = SubSeq(leaves, x + 1, y)
            /\ frames[k].leaves = SubSeq(leaves, y + 1, z)
        BY <2>1, <2>2, <3>1
      <3> HIDE DEF x, y, z, upTo, leaves
      <3>4. SubSeq(leaves, x + 1, y) \o SubSeq(leaves, y + 1, z) = SubSeq(leaves, x + 1, z)
        BY <1>2, <3>2, SubSeqJoin
      <3>5. QED
        BY <2>1, <3>1, <3>3, <3>4 DEF ReplayStep
    <2>5. QED
      BY <1>0, <2>0, <2>3, <2>4
  <1>6. ReplayTable(g, frames)
    <2>1. DOMAIN g = 0..b - a /\ g = [k \in 0..b - a |-> g[k]]
      OBVIOUS
    <2> HIDE DEF g
    <2>2. ASSUME NEW k \in 0..b - a PROVE g[k] = IF k = 0 THEN <<>> ELSE ReplayStep(g[k - 1], frames[k])
      BY <1>4, <1>5
    <2>3. QED
      BY <1>1, <2>1, <2>2 DEF ReplayTable
  <1>7. Replayed(frames) = g[b - a]
    <2> HIDE DEF g
    <2>1. QED
      BY <1>0, <1>1, <1>6, ReplayedIsTable
  <1>8. g[b - a] = SubSeq(h.leaves, h.at[m] + 1, h.at[b])
    <2>1. b - a \in 0..b - a /\ upTo(b - a) = b
      BY <1>0
    <2>2. QED
      BY <2>1
  <1>9. QED
    BY <1>7, <1>8 DEF frames

\* Replay of entries that the checkpoint holds gives nothing.
LEMMA ReplayedOlder ==
    ASSUME NEW h, NEW a \in Nat, NEW b \in Nat, a <= b, meta.seq \in Int, b <= meta.seq + 1, meta.seq + 1 \in Nat
    PROVE  Replayed(Entries(h, a, b)) = <<>>
  <1> DEFINE frames == Entries(h, a, b)
             g == [k \in 0..b - a |-> <<>>]
  <1>1. Len(frames) = b - a /\ \A k \in 1..b - a : frames[k] = Entry(h, a + k - 1)
    BY EntriesIsSeq
  <1> HIDE DEF frames
  <1>2. ASSUME NEW k \in 1..b - a PROVE ReplayStep(<<>>, frames[k]) = <<>>
    <2>1. frames[k] = Entry(h, a + k - 1) /\ a + k - 1 < b /\ a + k - 1 \in Nat
      BY <1>1
    <2>2. frames[k].seq = a + k - 1
      BY <2>1, EntryParts
    <2>3. ~Newer(frames[k].seq)
      BY <2>1, <2>2 DEF Newer, NoMeta
    <2>4. ReplayStep(<<>>, frames[k]) = <<>> \o <<>>
      BY <2>3 DEF ReplayStep
    <2>5. QED
      BY <2>4
  <1>3. ReplayTable(g, frames)
    <2>1. DOMAIN g = 0..b - a /\ g = [k \in 0..b - a |-> g[k]] /\ \A k \in 0..b - a : g[k] = <<>>
      OBVIOUS
    <2> HIDE DEF g
    <2>2. ASSUME NEW k \in 0..b - a PROVE g[k] = IF k = 0 THEN <<>> ELSE ReplayStep(g[k - 1], frames[k])
      BY <1>2, <2>1
    <2>3. QED
      BY <1>1, <2>1, <2>2 DEF ReplayTable
  <1>4. Replayed(frames) = g[b - a]
    <2> HIDE DEF g
    <2>1. QED
      BY <1>1, <1>3, ReplayedIsTable
  <1>5. g[b - a] = <<>>
    OBVIOUS
  <1>6. QED
    BY <1>4, <1>5 DEF frames

-----------------------------------------------------------------------------
(***************************************************************************)
(* What is on disk, against a history.                                     *)
(***************************************************************************)
\* checkpoint.meta names the end of an entry, or nothing.
MetaIs(m, h, n) ==
    /\ m = [seq |-> m.seq, size |-> m.size, depth |-> m.depth, root |-> m.root]
    /\ m.seq \in -1..h.top - 1 /\ m.size = h.at[m.seq + 1] /\ m.depth = CeilLogN(m.size, n)
    /\ Aligned(n) => m.root = RootOf(First(h, m.size), n)

\* What was promised is in the entries before number safe.
PromiseIs(p, h, safe) == safe \in 0..h.top /\ \E k \in 0..h.at[safe] : p = First(h, k)

\* The data files hold, cached and on disk, what the leaves under the metadata need.
FilesAre(f, fd, leaves, n) ==
    /\ f = [l \in Levels |-> f[l]]
    /\ \A l \in Levels : Level(f[l], leaves, l, n) /\ FileHas(fd[l], leaves, l, n)

Data(h, n, m, md, f, fd) ==
    /\ MetaIs(m, h, n) /\ MetaIs(md, h, n) /\ md.seq <= m.seq
    /\ FilesAre(f, fd, First(h, m.size), n)

\* The log holds the entries from number a to before e.  On disk it holds a part of
\* them, or what a cut that was not synced has removed.
LogRun(h, safe, w, wd, e, a, b, c) ==
    /\ a <= e /\ c <= b /\ safe <= b /\ e <= h.top
    /\ w = Entries(h, a, e) /\ wd = Entries(h, c, b)
    /\ c = a \/ (c < b /\ b <= a)

Logs(h, safe, w, wd, from, e) ==
    \E a \in 0..from : \E c \in 0..from : \E b \in 0..e : LogRun(h, safe, w, wd, e, a, b, c)

\* A power failure has cut the log within a frame.
TornLog(h, safe, w, wd, from, e) ==
    /\ \E a \in 0..from : a <= e /\ w = Append(Entries(h, a, e), Torn)
    /\ wd = w /\ safe <= e

LEMMA MetaFacts ==
    ASSUME NEW h, NEW n \in Nat \ {0, 1}, History(h, n), NEW m, MetaIs(m, h, n)
    PROVE  /\ m.seq \in Int /\ m.seq + 1 \in 0..h.top /\ m.seq + 1 \in Nat /\ m.size \in Nat
           /\ m.size = h.at[m.seq + 1] /\ m.size <= Len(h.leaves) /\ h.top \in Nat
           /\ IsSeq(First(h, m.size)) /\ Len(First(h, m.size)) = m.size
           /\ m.depth = CeilLogN(m.size, n) /\ m.depth \in Nat /\ m.depth <= MaxDepth
  <1>0. IsSeq(h.leaves) /\ Len(h.leaves) \in Nat /\ CeilLogN(Len(h.leaves), n) <= MaxDepth /\ h.top \in Nat
    BY DEF History, IsSeq
  <1>1. m.seq \in Int /\ m.seq + 1 \in 0..h.top /\ m.size = h.at[m.seq + 1] /\ m.depth = CeilLogN(m.size, n)
    BY <1>0 DEF MetaIs
  <1>2. m.size \in Nat /\ m.size <= Len(h.leaves)
    BY <1>1, HistoryFacts
  <1>3. IsSeq(First(h, m.size)) /\ Len(First(h, m.size)) = m.size
    BY <1>0, <1>2, FirstIsSeq
  <1>4. CeilLogN(m.size, n) \in Nat /\ CeilLogN(Len(h.leaves), n) \in Nat
        /\ CeilLogN(m.size, n) <= CeilLogN(Len(h.leaves), n)
    BY <1>0, <1>2, DepthBounds, DepthAscends
  <1>5. MaxDepth \in Nat
    BY LeanIMTAssumption
  <1>6. QED
    BY <1>0, <1>1, <1>2, <1>3, <1>4, <1>5

\* The same, read from a history that agrees as far as it reaches.
LEMMA MetaAgree ==
    ASSUME NEW h, NEW g, NEW n \in Nat \ {0, 1}, History(h, n), History(g, n), NEW e, Agree(h, g, e),
           NEW m, MetaIs(m, h, n), m.seq + 1 <= e
    PROVE  MetaIs(m, g, n) /\ First(g, m.size) = First(h, m.size)
  <1> DEFINE q == m.seq + 1
  <1>1. m.seq \in Int /\ q \in Nat /\ m.size = h.at[q] /\ e \in 0..g.top /\ e \in Nat /\ g.top \in Nat
        /\ m.size \in Nat
    <2>1. m.seq \in Int /\ q \in Nat /\ m.size = h.at[q] /\ m.size \in Nat
      BY MetaFacts
    <2>2. e \in Nat
      BY AgreeBounds
    <2>3. e \in 0..g.top /\ g.top \in Nat
      BY DEF Agree, History
    <2>4. QED
      BY <2>1, <2>2, <2>3
  <1>2. q \in 0..e /\ m.seq \in -1..g.top - 1
    BY <1>1
  <1>3. h.at[q] = g.at[q] /\ h.at[q] <= h.at[e] /\ h.at[e] \in Nat
    BY <1>2, AgreeBounds
  <1>4. m.size \in 0..h.at[e]
    BY <1>1, <1>3
  <1>5. First(h, m.size) = First(g, m.size)
    BY <1>4, FirstAgree
  <1>6. QED
    BY <1>1, <1>2, <1>3, <1>5 DEF MetaIs

LEMMA PromiseAgree ==
    ASSUME NEW h, NEW g, NEW n \in Nat \ {0, 1}, History(h, n), History(g, n), NEW e, Agree(h, g, e),
           NEW p, NEW safe, PromiseIs(p, h, safe), safe <= e
    PROVE  PromiseIs(p, g, safe)
  <1>1. safe \in Nat /\ e \in Nat /\ e \in 0..g.top /\ g.top \in Nat
    BY AgreeBounds DEF PromiseIs, Agree, History
  <1>2. safe \in 0..e /\ safe \in 0..g.top
    BY <1>1
  <1>3. h.at[safe] = g.at[safe] /\ h.at[safe] \in Nat /\ h.at[safe] <= h.at[e] /\ h.at[e] \in Nat
    BY <1>2, AgreeBounds
  <1>4. PICK k \in 0..h.at[safe] : p = First(h, k)
    BY DEF PromiseIs
  <1>5. k \in 0..h.at[e]
    BY <1>3
  <1>6. First(h, k) = First(g, k)
    BY <1>5, FirstAgree
  <1>7. QED
    BY <1>2, <1>3, <1>4, <1>6 DEF PromiseIs

LEMMA PromiseMore ==
    ASSUME NEW h, NEW n, History(h, n), NEW p, NEW safe, PromiseIs(p, h, safe), NEW s \in 0..h.top, safe <= s
    PROVE  PromiseIs(p, h, s)
  <1>1. safe \in 0..h.top /\ h.at[safe] \in Nat /\ h.at[s] \in Nat
    BY HistoryFacts DEF PromiseIs
  <1>2. h.at[safe] <= h.at[s]
    BY <1>1, HistoryFacts
  <1>3. \A k \in 0..h.at[safe] : k \in 0..h.at[s]
    BY <1>1, <1>2
  <1>4. QED
    BY <1>3 DEF PromiseIs

LEMMA DataAgree ==
    ASSUME NEW h, NEW g, NEW n \in Nat \ {0, 1}, History(h, n), History(g, n), NEW e, Agree(h, g, e),
           NEW m, NEW md, NEW f, NEW fd, Data(h, n, m, md, f, fd), m.seq + 1 <= e
    PROVE  Data(g, n, m, md, f, fd)
  <1>1. MetaIs(m, h, n) /\ MetaIs(md, h, n) /\ md.seq <= m.seq
    BY DEF Data
  <1>2. md.seq \in Int /\ m.seq \in Int /\ e \in Nat
    BY <1>1, MetaFacts, AgreeBounds
  <1>3. md.seq + 1 <= e
    BY <1>1, <1>2
  <1>4. MetaIs(m, g, n) /\ First(g, m.size) = First(h, m.size) /\ MetaIs(md, g, n)
    BY <1>1, <1>3, MetaAgree
  <1>5. QED
    BY <1>4 DEF Data

LEMMA LogRunAgree ==
    ASSUME NEW h, NEW g, NEW n \in Nat \ {0, 1}, History(h, n), History(g, n), NEW x, Agree(h, g, x),
           NEW safe, NEW w, NEW wd, NEW e \in 0..x, NEW a \in Nat, NEW b \in 0..e, NEW c \in Nat,
           LogRun(h, safe, w, wd, e, a, b, c)
    PROVE  LogRun(g, safe, w, wd, e, a, b, c)
  <1>1. x \in Nat /\ x \in 0..g.top /\ g.top \in Nat
    BY AgreeBounds DEF Agree, History
  <1>2. b \in 0..x /\ e <= g.top /\ a <= e /\ c <= b
    BY <1>1 DEF LogRun
  <1>3. Entries(h, a, e) = Entries(g, a, e) /\ Entries(h, c, b) = Entries(g, c, b)
    BY <1>2, EntriesAgree
  <1>4. QED
    BY <1>2, <1>3 DEF LogRun

LEMMA LogsAgree ==
    ASSUME NEW h, NEW g, NEW n \in Nat \ {0, 1}, History(h, n), History(g, n), NEW x, Agree(h, g, x),
           NEW safe, NEW w, NEW wd, NEW from \in Nat, NEW e \in 0..x, Logs(h, safe, w, wd, from, e)
    PROVE  Logs(g, safe, w, wd, from, e)
  <1>1. PICK a \in 0..from : \E c \in 0..from : \E b \in 0..e : LogRun(h, safe, w, wd, e, a, b, c)
    BY DEF Logs
  <1>2. PICK c \in 0..from : \E b \in 0..e : LogRun(h, safe, w, wd, e, a, b, c)
    BY <1>1
  <1>3. PICK b \in 0..e : LogRun(h, safe, w, wd, e, a, b, c)
    BY <1>2
  <1>4. a \in Nat /\ c \in Nat
    OBVIOUS
  <1>5. LogRun(g, safe, w, wd, e, a, b, c)
    BY <1>3, <1>4, LogRunAgree
  <1>6. QED
    BY <1>5 DEF Logs

\* What happens to the log: a sync, a write behind its end, a cut.
LEMMA LogsSync ==
    ASSUME NEW h, NEW safe, NEW w, NEW wd, NEW from \in Nat, NEW e \in Nat, Logs(h, safe, w, wd, from, e),
           NEW s, s <= e
    PROVE  Logs(h, s, w, w, from, e)
  <1>1. PICK a \in 0..from : \E c \in 0..from : \E b \in 0..e : LogRun(h, safe, w, wd, e, a, b, c)
    BY DEF Logs
  <1>2. a <= e /\ e <= h.top /\ w = Entries(h, a, e)
    BY <1>1 DEF LogRun
  <1>3. e \in 0..e /\ LogRun(h, s, w, w, e, a, e, a)
    BY <1>2 DEF LogRun
  <1>4. QED
    BY <1>3 DEF Logs

LEMMA LogsWrite ==
    ASSUME NEW h, h.top \in Nat, NEW safe, NEW w, NEW wd, NEW from \in Nat, NEW e \in Nat,
           Logs(h, safe, w, wd, from, e), NEW x \in 0..h.top, e <= x
    PROVE  Logs(h, safe, w \o Entries(h, e, x), wd, from, x)
  <1> DEFINE v == w \o Entries(h, e, x)
  <1>1. PICK a \in 0..from : \E c \in 0..from : \E b \in 0..e : LogRun(h, safe, w, wd, e, a, b, c)
    BY DEF Logs
  <1>2. PICK c \in 0..from : \E b \in 0..e : LogRun(h, safe, w, wd, e, a, b, c)
    BY <1>1
  <1>3. PICK b \in 0..e : LogRun(h, safe, w, wd, e, a, b, c)
    BY <1>2
  <1>4. a \in Nat /\ a <= e /\ x \in Nat /\ a <= x /\ b \in 0..x /\ x <= h.top
    BY <1>3 DEF LogRun
  <1>5. w = Entries(h, a, e)
    BY <1>3 DEF LogRun
  <1>6. v = Entries(h, a, x)
    BY <1>4, <1>5, EntriesJoin
  <1> HIDE DEF v
  <1>7. LogRun(h, safe, v, wd, x, a, b, c)
    BY <1>3, <1>4, <1>6 DEF LogRun
  <1>8. Logs(h, safe, v, wd, from, x)
    BY <1>4, <1>7 DEF Logs
  <1>9. QED
    BY <1>8 DEF v

LEMMA LogsFrom ==
    ASSUME NEW h, NEW safe, NEW w, NEW wd, NEW from \in Nat, NEW e \in Nat, Logs(h, safe, w, wd, from, e),
           NEW to \in Nat, from <= to
    PROVE  Logs(h, safe, w, wd, to, e)
  <1>1. \A x \in 0..from : x \in 0..to
    OBVIOUS
  <1>2. QED
    BY <1>1 DEF Logs

LEMMA LogsCut ==
    ASSUME NEW h, NEW safe \in Nat, NEW w, NEW wd, NEW e \in Nat, Logs(h, safe, w, wd, e, e)
    PROVE  Logs(h, safe, <<>>, wd, e, e)
  <1>1. PICK a \in 0..e : \E c \in 0..e : \E b \in 0..e : LogRun(h, safe, w, wd, e, a, b, c)
    BY DEF Logs
  <1>2. PICK c \in 0..e : \E b \in 0..e : LogRun(h, safe, w, wd, e, a, b, c)
    BY <1>1
  <1>3. PICK b \in 0..e : LogRun(h, safe, w, wd, e, a, b, c)
    BY <1>2
  <1>4. Entries(h, e, e) = <<>>
    BY EntriesEmpty
  <1>5. c <= b /\ safe <= b /\ b <= e /\ e <= h.top /\ wd = Entries(h, c, b) /\ e \in 0..e
    BY <1>3 DEF LogRun
  <1>6. CASE c = b
    <2>1. wd = Entries(h, e, e)
      BY <1>4, <1>5, <1>6, EntriesEmpty
    <2>2. LogRun(h, safe, <<>>, wd, e, e, e, e)
      BY <1>4, <1>5, <2>1 DEF LogRun
    <2>3. QED
      BY <1>5, <2>2 DEF Logs
  <1>7. CASE c # b
    <2>1. LogRun(h, safe, <<>>, wd, e, e, b, c)
      BY <1>4, <1>5, <1>7 DEF LogRun
    <2>2. QED
      BY <1>5, <2>1 DEF Logs
  <1>8. QED
    BY <1>6, <1>7

LEMMA LogsSome ==
    ASSUME NEW h, NEW safe, NEW w, NEW wd, NEW from \in Nat, NEW e \in Nat, Logs(h, safe, w, wd, from, e),
           from < e
    PROVE  w # <<>>
  <1>1. PICK a \in 0..from : \E c \in 0..from : \E b \in 0..e : LogRun(h, safe, w, wd, e, a, b, c)
    BY DEF Logs
  <1>2. a \in Nat /\ a < e /\ a <= e /\ w = Entries(h, a, e)
    BY <1>1 DEF LogRun
  <1>3. Len(w) = e - a
    BY <1>2, EntriesIsSeq
  <1>4. Len(<<>>) = 0
    OBVIOUS
  <1>5. QED
    BY <1>2, <1>3, <1>4

LEMMA LogsBounds ==
    ASSUME NEW h, NEW safe, NEW w, NEW wd, NEW from \in Nat, NEW e \in Nat, Logs(h, safe, w, wd, from, e),
           safe \in Nat
    PROVE  safe <= e /\ e <= h.top
  <1>1. PICK a \in 0..from : \E c \in 0..from : \E b \in 0..e : LogRun(h, safe, w, wd, e, a, b, c)
    BY DEF Logs
  <1>2. PICK c \in 0..from : \E b \in 0..e : LogRun(h, safe, w, wd, e, a, b, c)
    BY <1>1
  <1>3. PICK b \in 0..e : LogRun(h, safe, w, wd, e, a, b, c)
    BY <1>2
  <1>4. QED
    BY <1>3 DEF LogRun

\* A run of the log that starts at its own front.
LEMMA LogsAre ==
    ASSUME NEW h, h.top \in Nat, NEW safe \in Nat, NEW from \in Nat, NEW a \in 0..from, NEW x \in 0..h.top, a <= x,
           safe <= x
    PROVE  Logs(h, safe, Entries(h, a, x), Entries(h, a, x), from, x)
  <1>1. LogRun(h, safe, Entries(h, a, x), Entries(h, a, x), x, a, x, a) /\ x \in 0..x
    BY DEF LogRun
  <1>2. QED
    BY <1>1 DEF Logs

\* What a power failure leaves of the log is a run of entries, perhaps with a torn
\* frame behind it, and still reaches over what was promised.
LEMMA LogsLeft ==
    ASSUME NEW h, h.top \in Nat, NEW safe \in Nat, NEW from \in Nat, NEW e \in Nat,
           Logs(h, safe, wal, walDisk, from, e), NEW w \in WalLeft
    PROVE  \E x \in 0..h.top : safe <= x /\ (Logs(h, x, w, w, from, x) \/ TornLog(h, x, w, w, from, x))
  <1>1. PICK a \in 0..from : \E c \in 0..from : \E b \in 0..e : LogRun(h, safe, wal, walDisk, e, a, b, c)
    BY DEF Logs
  <1>2. PICK c \in 0..from : \E b \in 0..e : LogRun(h, safe, wal, walDisk, e, a, b, c)
    BY <1>1
  <1>3. PICK b \in 0..e : LogRun(h, safe, wal, walDisk, e, a, b, c)
    BY <1>2
  <1>4. /\ a \in Nat /\ c \in Nat /\ b \in Nat /\ a <= e /\ c <= b /\ safe <= b /\ b <= e /\ e <= h.top
        /\ wal = Entries(h, a, e) /\ walDisk = Entries(h, c, b) /\ (c = a \/ (c < b /\ b <= a))
    BY <1>3 DEF LogRun
  <1>5. /\ IsSeq(wal) /\ Len(wal) = e - a /\ \A k \in 1..e - a : wal[k] = Entry(h, a + k - 1)
        /\ IsSeq(walDisk) /\ Len(walDisk) = b - c /\ \A k \in 1..b - c : walDisk[k] = Entry(h, c + k - 1)
    <2>1. a \in Nat /\ e \in Nat /\ a <= e /\ c \in Nat /\ b \in Nat /\ c <= b
      BY <1>4
    <2>2. /\ IsSeq(Entries(h, a, e)) /\ Len(Entries(h, a, e)) = e - a
          /\ \A k \in 1..e - a : Entries(h, a, e)[k] = Entry(h, a + k - 1)
      BY <2>1, EntriesIsSeq
    <2>3. /\ IsSeq(Entries(h, c, b)) /\ Len(Entries(h, c, b)) = b - c
          /\ \A k \in 1..b - c : Entries(h, c, b)[k] = Entry(h, c + k - 1)
      BY <2>1, EntriesIsSeq
    <2>4. QED
      BY <1>4, <2>2, <2>3, Zenon
  <1>6. CASE ~IsPrefix(walDisk, wal)
    <2>1. w = walDisk \/ w = wal
      BY <1>6 DEF WalLeft
    <2>2. CASE w = walDisk
      <3>1. b \in 0..h.top /\ safe <= b /\ b <= b
        BY <1>4
      <3>2. Logs(h, b, w, w, from, b)
        BY <1>4, <2>2, <3>1, LogsAre
      <3>3. QED
        BY <3>1, <3>2
    <2>3. CASE w = wal
      <3>1. e \in 0..h.top /\ safe <= e /\ e <= e
        BY <1>4
      <3>2. Logs(h, e, w, w, from, e)
        BY <1>4, <2>3, <3>1, LogsAre
      <3>3. QED
        BY <3>1, <3>2
    <2>4. QED
      BY <2>1, <2>2, <2>3
  <1>7. CASE IsPrefix(walDisk, wal)
    <2> DEFINE d == b - c
    <2>1. d \in Nat /\ d <= e - a
      BY <1>4, <1>5, <1>7 DEF IsPrefix
    <2>2. c = a
      <3> SUFFICES ASSUME c < b, b <= a PROVE FALSE
        BY <1>4
      <3>1. 1 \in 1..d /\ 1 \in 1..e - a /\ c + 1 - 1 = c /\ a + 1 - 1 = a
        BY <1>4, <2>1
      <3>2. SubSeq(walDisk, 1, d)[1] = walDisk[1] /\ SubSeq(wal, 1, d)[1] = wal[1]
        <4>1. d <= Len(walDisk) /\ d <= Len(wal)
          BY <1>5, <2>1
        <4> HIDE DEF d
        <4>2. QED
          BY <1>5, <2>1, <3>1, <4>1, PrefixIsSeq
      <3>3. SubSeq(walDisk, 1, d) = SubSeq(wal, 1, d)
        BY <1>5, <1>7 DEF IsPrefix
      <3>4. walDisk[1] = Entry(h, c) /\ wal[1] = Entry(h, a)
        BY <1>5, <3>1
      <3>5. Entry(h, c).seq = c /\ Entry(h, a).seq = a
        BY EntryParts
      <3>6. QED
        BY <1>4, <3>2, <3>3, <3>4, <3>5
    <2>3. ASSUME NEW k \in Len(walDisk)..Len(wal)
          PROVE  /\ a + k \in 0..h.top /\ a <= a + k /\ safe <= a + k
                 /\ SubSeq(wal, 1, k) = Entries(h, a, a + k)
      <3>1. k \in 0..e - a /\ k >= b - a
        BY <1>4, <1>5, <2>2
      <3>2. a + k \in 0..h.top /\ a <= a + k /\ safe <= a + k /\ a <= e /\ a \in Nat /\ e \in Nat
        BY <1>4, <3>1
      <3>3. SubSeq(Entries(h, a, e), 1, k) = Entries(h, a, a + k)
        BY <3>1, <3>2, EntriesCut
      <3>4. QED
        BY <1>4, <3>2, <3>3
    <2>4. CASE w \in {SubSeq(wal, 1, k) : k \in Len(walDisk)..Len(wal)}
      <3>1. PICK k \in Len(walDisk)..Len(wal) : w = SubSeq(wal, 1, k)
        BY <2>4
      <3> DEFINE x == a + k
      <3>2. x \in 0..h.top /\ a <= x /\ safe <= x /\ w = Entries(h, a, x)
        BY <2>3, <3>1
      <3> HIDE DEF x
      <3>3. x \in Nat /\ x <= x
        BY <3>2
      <3>4. Logs(h, x, w, w, from, x)
        BY <3>2, <3>3, LogsAre
      <3>5. QED
        BY <3>2, <3>4
    <2>5. CASE w \in {Append(SubSeq(wal, 1, k), Torn) : k \in Len(walDisk)..Len(wal) - 1}
      <3>1. PICK k \in Len(walDisk)..Len(wal) - 1 : w = Append(SubSeq(wal, 1, k), Torn)
        BY <2>5
      <3>2. k \in Len(walDisk)..Len(wal)
        BY <1>4, <1>5
      <3> DEFINE x == a + k
      <3>3. x \in 0..h.top /\ a <= x /\ safe <= x /\ SubSeq(wal, 1, k) = Entries(h, a, x)
        BY <2>3, <3>2
      <3> HIDE DEF x
      <3>4. x <= x
        BY <3>3
      <3>5. TornLog(h, x, w, w, from, x)
        BY <3>1, <3>3, <3>4 DEF TornLog
      <3>6. QED
        BY <3>3, <3>5
    <2>6. QED
      BY <1>7, <2>4, <2>5 DEF WalLeft
  <1>8. QED
    BY <1>6, <1>7

-----------------------------------------------------------------------------
(***************************************************************************)
(* The data files.                                                         *)
(***************************************************************************)
\* The levels a tree stores.
LEMMA ActiveLevels ==
    ASSUME NEW depth \in Nat, NEW l \in Nat
    PROVE  /\ l \in Active(depth) <=> l \in Levels /\ l <= depth
  BY LeanIMTAssumption DEF Active, Levels, LessOf

LEMMA StoredIs ==
    ASSUME arity \in Nat \ {0, 1}, NEW size \in Nat, NEW depth, depth = CeilLogN(size, arity), NEW l \in Levels
    PROVE  Stored(size, l, arity) = IF size > 0 /\ l \in Active(depth) THEN LevelSize(size, l) ELSE 0
  <1>1. l \in Nat /\ depth \in Nat /\ Power(arity, l) \in Nat \ {0}
    BY LeanIMTAssumption, DepthBounds, PowerPositive DEF Levels
  <1>2. l \in Active(depth) <=> l <= depth
    BY <1>1, ActiveLevels
  <1>3. CASE size = 0
    <2>1. ASSUME NEW x \in Nat \ {0} PROVE CeilDiv(0, x) = 0
      BY DEF CeilDiv
    <2>2. QED
      BY <1>1, <1>3, <2>1 DEF Stored
  <1>4. CASE size > 0
    BY <1>1, <1>2, <1>4 DEF Stored, LevelSize, Span
  <1>5. QED
    BY <1>3, <1>4

\* Levels above a tree's depth ask nothing of a file.
LEMMA LevelAbove ==
    ASSUME NEW n \in Nat \ {0, 1}, NEW leaves, IsSeq(leaves), NEW l \in Nat, l > CeilLogN(Len(leaves), n),
           NEW file, IsSeq(file)
    PROVE  Level(file, leaves, l, n)
  <1>1. Len(leaves) \in Nat /\ Len(file) \in Nat /\ CeilLogN(Len(leaves), n) \in Nat
    BY DepthBounds DEF IsSeq
  <1>2. Stored(Len(leaves), l, n) = 0
    BY <1>1 DEF Stored
  <1>3. ASSUME NEW k \in 1..Len(leaves), k * Power(n, l) <= Len(leaves) PROVE FALSE
    <2>1. k \in 1..Stored(Len(leaves), l, n)
      BY <1>1, <1>3, StoredNode
    <2>2. QED
      BY <1>2, <2>1
  <1>4. QED
    BY <1>1, <1>2, <1>3 DEF Level, FileHas

\* What open reads from the files: a tree over the checkpoint's leaves, whose root is
\* the recorded one.
LEMMA LoadedTree ==
    ASSUME arity \in Nat \ {0, 1}, NEW leaves, IsSeq(leaves), Len(leaves) = meta.size,
           meta.depth = CeilLogN(meta.size, arity), meta.depth <= MaxDepth,
           Aligned(arity) => meta.root = RootOf(leaves, arity),
           \A l \in Levels : Level(files[l], leaves, l, arity)
    PROVE  TreeIs(Loaded, leaves, arity) /\ (Aligned(arity) => RecomputeRoot(Loaded) = meta.root)
  <1> DEFINE n == arity
             t == Loaded
             size == Len(leaves)
             nodes(l) == IF size > 0 /\ l \in Active(meta.depth)
                         THEN SubSeq(files[l], 1, LevelSize(size, l)) ELSE <<>>
  <1>0. size \in Nat
    BY DEF IsSeq
  <1>1. /\ t = [levels |-> t.levels, root |-> t.root, size |-> t.size, depth |-> t.depth]
        /\ t.root = meta.root /\ t.size = size /\ t.depth = meta.depth
        /\ t.levels = [l \in Levels |-> nodes(l)]
    BY DEF Loaded
  <1>2. ASSUME NEW l \in Levels PROVE NodesFor(nodes(l), leaves, l, n) /\ IsSeq(nodes(l))
    <2> DEFINE s == Stored(size, l, n)
               file == files[l]
    <2>1. l \in Nat /\ s \in Nat
      <3>1. l \in Nat
        BY LeanIMTAssumption DEF Levels
      <3>2. QED
        BY <1>0, <3>1, StoredBounds
    <2>2. IsSeq(file) /\ FileHas(file, leaves, l, n) /\ Len(file) >= s /\ Len(file) \in Nat
      BY DEF Level, IsSeq
    <2>3. nodes(l) = SubSeq(file, 1, s)
      <3>1. s = IF size > 0 /\ l \in Active(meta.depth) THEN LevelSize(size, l) ELSE 0
        BY <1>0, StoredIs
      <3>2. SubSeq(file, 1, 0) = <<>>
        BY <2>2, SubSeqEmpty
      <3> HIDE DEF s, file
      <3>3. QED
        BY <3>1, <3>2 DEF file
    <2> HIDE DEF nodes, s, file
    <2>4. s <= Len(file)
      BY <2>1, <2>2
    <2>5. IsSeq(SubSeq(file, 1, s)) /\ Len(SubSeq(file, 1, s)) = s /\ \A k \in 1..s : SubSeq(file, 1, s)[k] = file[k]
      BY <2>1, <2>2, <2>4, PrefixIsSeq
    <2>6. IsSeq(nodes(l)) /\ Len(nodes(l)) = s /\ \A k \in 1..s : nodes(l)[k] = file[k]
      BY <2>3, <2>5
    <2>7. ASSUME NEW k \in 1..s, Needed(l, k, n), k * Power(n, l) <= size
          PROVE  nodes(l)[k] = Layer(leaves, l, n)[k]
      <3>1. k \in Nat \ {0}
        BY <2>1
      <3>2. k \in 1..size
        BY <1>0, <2>1, <2>7, <3>1, StoredNode
      <3>3. QED
        BY <2>2, <2>6, <2>7, <3>2 DEF FileHas
    <2>8. QED
      BY <2>6, <2>7 DEF NodesFor, s
  <1> HIDE DEF t
  <1>3. IsTree(t) /\ \A l \in Levels : NodesFor(t.levels[l], leaves, l, n)
    <2> HIDE DEF nodes
    <2>1. QED
      BY <1>1, <1>2 DEF IsTree
  <1>4. TreeIs(t, leaves, n)
    <2>1. t.size = Len(leaves) /\ t.depth = CeilLogN(Len(leaves), n) /\ t.depth <= MaxDepth
          /\ (Aligned(n) => t.root = RootOf(leaves, n))
      BY <1>1
    <2>2. QED
      BY <1>3, <2>1, TreeFromNodes
  <1>5. Aligned(n) => RecomputeRoot(t) = meta.root
    <2>1. t.levels[0] = leaves /\ t.size = Len(leaves) /\ t.depth = CeilLogN(Len(leaves), n)
      BY <1>4 DEF TreeIs, Shaped
    <2>2. RecomputeRoot(t) = RootOf(leaves, n)
      BY <2>1, RecomputedRoot
    <2>3. QED
      BY <2>2
  <1>6. QED
    BY <1>4, <1>5 DEF t

-----------------------------------------------------------------------------
(***************************************************************************)
(* The inductive invariant.  pend is the number of the first entry that    *)
(* is not in the log, mid of the first that is in the buffer: they differ  *)
(* while a flush carries entries from the one to the other.                *)
(***************************************************************************)
BudgetIs(b, u) ==
    /\ b \in [opens : Nat, power : Nat, kills : Nat, flush : Nat, checkpoint : Nat, log : Nat]
    /\ NoPower => b.power = 0
    /\ NoLooseWrites => b.kills = 0 /\ b.flush = 0
    /\ b.log > 0 => b.opens + (IF u = "open" THEN 1 ELSE 0) <= 1

MemIs(h, mid, n, t, lg, ns, buf) ==
    /\ h.leaves = lg /\ h.top = ns /\ TreeIs(t, lg, n)
    /\ mid \in 0..ns /\ buf = Entries(h, mid, ns)

DoneIs(d, size, n) ==
    /\ d = [l \in Levels |-> d[l]]
    /\ \A l \in Levels : d[l] \in Nat /\ d[l] * ChunkSize <= Stored(size, l, n)

\* The leaves in the entries before number e.
Upto(h, e) == First(h, h.at[e])

\* What a flush carries.
FlushJob(h, pend, mid, p, j) ==
    /\ IF p = "flWrite" THEN j.entries = Entries(h, pend, mid) ELSE mid = pend
    /\ p \in {"flWrite", "flSync"} => j.seq = mid - 1 /\ j.snap.size = h.at[mid]

\* What a checkpoint carries: the tree over all that the log holds.
SnapJob(h, pend, n, p, j, m, md) ==
    /\ p \in {"ckFlush", "ckFlushSync"} => j.level = 0
    /\ p \in {"ckLevels", "ckRename", "ckDirSync", "ckRemap"} =>
         j.seq = pend - 1 /\ TreeIs(j.snap, Upto(h, pend), n)
    /\ p \in {"ckDirSync", "ckRemap"} => m.seq = pend - 1
    /\ p = "ckRemap" => md.seq = pend - 1

\* What a checkpoint has written before it renames the metadata.
FileJob(h, pend, n, p, j, f, fd) ==
    /\ p = "ckLevels" => \A l \in Levels : l < j.level => Level(f[l], Upto(h, pend), l, n)
    /\ p = "ckRename" => FilesAre(f, fd, Upto(h, pend), n)

JobForm(j) ==
    /\ j = [by |-> j.by, entries |-> j.entries, seq |-> j.seq, snap |-> j.snap, level |-> j.level]
    /\ j.level \in Nat

\* The number behind the last entry in the log.
LogEnd(p, pend, ns) == IF p \in {"ckFlushSync", "ckTailSync"} THEN ns ELSE pend

Session(h, safe, pend, mid) ==
    /\ MemIs(h, mid, arity, tree, log, nextSeq, buffer)
    /\ pend \in 0..mid /\ meta.seq < pend
    /\ DoneIs(done, meta.size, arity)
    /\ JobForm(job) /\ FlushJob(h, pend, mid, pc, job)
    /\ SnapJob(h, pend, arity, pc, job, meta, metaDisk)
    /\ FileJob(h, pend, arity, pc, job, files, filesDisk)
    /\ budget.opens > 0 => Logs(h, safe, wal, walDisk, metaDisk.seq + 1, LogEnd(pc, pend, nextSeq))

\* A log to recover from.
LeftLog(h, safe, w, wd, m, md, e) ==
    /\ w = <<>> => md.seq = m.seq
    /\ Steady => w = <<>> \/ m.seq < e
    /\ \/ Logs(h, safe, w, wd, md.seq + 1, e)
       \/ TornLog(h, safe, w, wd, m.seq + 1, e) /\ md = m

Resting(h, safe) ==
    /\ h.leaves = log /\ pc = "free" /\ job = NoJob /\ buffer = <<>> /\ calling = {}
    /\ budget.opens > 0 => \E e \in 0..h.top :
         LeftLog(h, safe, wal, walDisk, meta, metaDisk, e) /\ (NoLooseWrites => e = safe)

\* Without loose writes the log on disk is never behind the metadata: all of it is
\* synced, except while a flush is at it.
Firm(safe, pend, u, p, m) ==
    NoLooseWrites => m.seq < safe /\ (u = "open" => safe <= pend /\ (p # "flSync" => safe = pend))

Inv(h, safe, pend, mid) ==
    /\ arity \in Arities /\ BudgetIs(budget, up)
    /\ History(h, arity) /\ PromiseIs(promised, h, safe)
    /\ Data(h, arity, meta, metaDisk, files, filesDisk)
    /\ up = "open" => Session(h, safe, pend, mid)
    /\ up # "open" => Resting(h, safe)
    /\ Firm(safe, pend, up, pc, meta)
    /\ Aligned(arity) => up # "refused"

IInv == \E h, safe, pend, mid : Inv(h, safe, pend, mid)

\* The last session alone may see the log's writes fail within a checkpoint.
LogFailsLast == \A b \in Budgets : b.log = 0 \/ b.opens <= 1

Numbered == Steady \/ NumbersAdvance

LEMMA FirmMoves ==
    ASSUME NEW h, NEW safe, NEW pend, NEW mid, Inv(h, safe, pend, mid), up = "open", pc # "flSync", NEW q
    PROVE  Firm(safe, pend, "open", q, meta)
  BY DEF Inv, Firm

LEMMA ArityFacts == arity \in Arities => arity \in Nat \ {0, 1} /\ arity \in Nat
  BY LeanIMTAssumption

\* A mishap is paid for.
LEMMA BudgetSpent ==
    ASSUME NEW b, NEW c, NEW u, NEW what \in {"power", "kills", "flush", "checkpoint", "log"},
           BudgetIs(b, u), b[what] > 0, c = [b EXCEPT ![what] = @ - 1]
    PROVE  BudgetIs(c, u) /\ BudgetIs(c, "down") /\ c.opens = b.opens /\ b.opens \in Nat
           /\ (what = "power" => ~NoPower) /\ (what \in {"kills", "flush"} => ~NoLooseWrites)
           /\ (what = "log" /\ u = "open" => b.opens = 0)
  <1>1. /\ c \in [opens : Nat, power : Nat, kills : Nat, flush : Nat, checkpoint : Nat, log : Nat]
        /\ c.opens = b.opens /\ b.opens \in Nat /\ b.log \in Nat /\ c.log \in Nat
        /\ (what = "power" => b.power > 0) /\ (what = "log" => b.log > 0)
        /\ (what = "kills" => b.kills > 0) /\ (what = "flush" => b.flush > 0)
        /\ c.log <= b.log /\ (what # "power" => c.power = b.power)
        /\ (what # "kills" => c.kills = b.kills) /\ (what # "flush" => c.flush = b.flush)
    BY DEF BudgetIs
  <1>2. b.log > 0 => b.opens + (IF u = "open" THEN 1 ELSE 0) <= 1
    BY DEF BudgetIs
  <1>3. NoPower => b.power = 0
    BY DEF BudgetIs
  <1>4. NoPower => what # "power" /\ c.power = 0
    BY <1>1, <1>3
  <1>5. NoLooseWrites => what \notin {"kills", "flush"} /\ c.kills = 0 /\ c.flush = 0
    BY <1>1 DEF BudgetIs
  <1>6. QED
    BY <1>1, <1>2, <1>4, <1>5 DEF BudgetIs

LEMMA BudgetOpened ==
    ASSUME NEW b, NEW c, NEW u, NEW v, BudgetIs(b, u), b["opens"] > 0, u # "open",
           c = [b EXCEPT !["opens"] = @ - 1]
    PROVE  BudgetIs(c, v) /\ b.opens > 0 /\ c.opens \in Nat
  <1>1. /\ c \in [opens : Nat, power : Nat, kills : Nat, flush : Nat, checkpoint : Nat, log : Nat]
        /\ c.opens = b.opens - 1 /\ b.opens \in Nat /\ b.opens > 0 /\ b.log = c.log /\ c.power = b.power
        /\ c.kills = b.kills /\ c.flush = b.flush
    BY DEF BudgetIs
  <1>2. QED
    BY <1>1 DEF BudgetIs

\* Nothing that the invariant is about changes.
LEMMA Kept ==
    ASSUME NEW h, NEW safe, NEW pend, NEW mid, Inv(h, safe, pend, mid), up = "open",
           UNCHANGED <<arity, up, tree, buffer, nextSeq, done, log, pc, job, wal, walDisk, meta, metaDisk,
                       files, filesDisk, promised, budget>>
    PROVE  IInv'
  <1>1. Inv(h, safe, pend, mid)'
    BY DEF Inv, Session
  <1>2. QED
    BY <1>1 DEF IInv

LEMMA Calls ==
    ASSUME NEW h, NEW safe, NEW pend, NEW mid, Inv(h, safe, pend, mid),
           BeginCall \/ InsertRefused \/ Close
    PROVE  IInv'
  <1>1. up = "open"
    <2>1. CASE InsertRefused
      BY <2>1 DEF InsertRefused, Inv, Resting
    <2>2. QED
      BY <2>1 DEF BeginCall, Accepts, Close
  <1>2. UNCHANGED <<arity, up, tree, buffer, nextSeq, done, log, pc, job, wal, walDisk, meta, metaDisk,
                    files, filesDisk, promised, budget>>
    BY DEF BeginCall, InsertRefused, Close, fixed, walVars, dataVars
  <1>3. QED
    BY <1>1, <1>2, Kept

LEMMA Stutters ==
    ASSUME NEW h, NEW safe, NEW pend, NEW mid, Inv(h, safe, pend, mid), UNCHANGED vars
    PROVE  IInv'
  <1>1. UNCHANGED <<arity, up, tree, buffer, nextSeq, done, log, pc, job, wal, walDisk, meta, metaDisk,
                    files, filesDisk, promised, budget, calling>>
    BY DEF vars, fixed, memVars, walVars, dataVars
  <1>2. Inv(h, safe, pend, mid)'
    BY <1>1 DEF Inv, Session, Resting
  <1>3. QED
    BY <1>2 DEF IInv

-----------------------------------------------------------------------------
(***************************************************************************)
(* Insertion and flushes.                                                  *)
(***************************************************************************)
LEMMA EntriesNone ==
    ASSUME NEW h, NEW a \in Nat, NEW b \in Nat, a <= b, Entries(h, a, b) = <<>>
    PROVE  a = b
  <1>1. Len(Entries(h, a, b)) = b - a
    BY EntriesIsSeq
  <1>2. Len(<<>>) = 0
    OBVIOUS
  <1>3. QED
    BY <1>1, <1>2

LEMMA OneMoreEntry ==
    ASSUME NEW s, NEW e, IsSeq(s)
    PROVE  Append(s, e) = s \o <<e>>
  <1> DEFINE one == <<e>>
             new == Append(s, e)
             cat == s \o one
  <1>0. Len(s) \in Nat
    BY DEF IsSeq
  <1>1. IsSeq(one) /\ Len(one) = 1 /\ one[1] = e
    BY OneIsSeq
  <1>2. /\ IsSeq(new) /\ Len(new) = Len(s) + 1 /\ (\A k \in 1..Len(s) : new[k] = s[k]) /\ new[Len(s) + 1] = e
    BY AppendIsSeq
  <1> HIDE DEF one
  <1>3. /\ IsSeq(cat) /\ Len(cat) = Len(s) + Len(one)
        /\ \A k \in 1..Len(s) + Len(one) : cat[k] = IF k <= Len(s) THEN s[k] ELSE one[k - Len(s)]
    BY <1>1, ConcatIsSeq
  <1> HIDE DEF cat, new
  <1>4. ASSUME NEW k \in 1..Len(s) + 1 PROVE new[k] = cat[k]
    <2>1. CASE k <= Len(s)
      BY <1>0, <1>1, <1>2, <1>3, <2>1
    <2>2. CASE k = Len(s) + 1
      <3>1. k - Len(s) = 1 /\ ~(k <= Len(s))
        BY <1>0, <2>2
      <3>2. QED
        BY <1>0, <1>1, <1>2, <1>3, <2>2, <3>1
    <2>3. QED
      BY <1>0, <2>1, <2>2
  <1>5. new = cat
    BY <1>1, <1>2, <1>3, <1>4, SeqEqual2
  <1>6. QED
    BY <1>5 DEF new, cat, one

\* What a session says of its numbers.
LEMMA SessionNumbers ==
    ASSUME NEW h, NEW safe, NEW pend, NEW mid, Inv(h, safe, pend, mid), up = "open"
    PROVE  /\ arity \in Nat \ {0, 1} /\ arity \in Arities /\ History(h, arity)
           /\ h.top = nextSeq /\ nextSeq \in Nat /\ mid \in Nat /\ pend \in Nat /\ pend <= mid /\ mid <= nextSeq
           /\ pend \in 0..h.top /\ mid \in 0..h.top /\ h.top \in 0..h.top /\ h.top \in Nat
           /\ meta.seq \in Int /\ metaDisk.seq \in Int /\ metaDisk.seq <= meta.seq /\ meta.seq < pend
           /\ metaDisk.seq + 1 \in Nat /\ meta.seq + 1 \in Nat
           /\ safe \in Nat /\ safe <= h.top /\ LogEnd(pc, pend, nextSeq) \in 0..h.top
           /\ h.leaves = log /\ TreeIs(tree, log, arity) /\ buffer = Entries(h, mid, nextSeq)
           /\ h.at[h.top] = Len(h.leaves) /\ IsSeq(h.leaves) /\ Len(h.leaves) \in Nat
  <1>0. arity \in Nat \ {0, 1} /\ arity \in Arities /\ History(h, arity)
    BY ArityFacts DEF Inv
  <1>1. /\ MemIs(h, mid, arity, tree, log, nextSeq, buffer) /\ pend \in 0..mid /\ meta.seq < pend
        /\ MetaIs(meta, h, arity) /\ MetaIs(metaDisk, h, arity) /\ metaDisk.seq <= meta.seq
        /\ PromiseIs(promised, h, safe)
    BY DEF Inv, Session, Data
  <1>2. /\ meta.seq \in Int /\ metaDisk.seq \in Int /\ meta.seq + 1 \in Nat /\ metaDisk.seq + 1 \in Nat
    BY <1>0, <1>1, MetaFacts
  <1>3. h.top \in Nat /\ h.at[h.top] = Len(h.leaves) /\ IsSeq(h.leaves) /\ Len(h.leaves) \in Nat
    BY <1>0 DEF History, IsSeq
  <1>4. safe \in 0..h.top
    BY <1>1 DEF PromiseIs
  <1>5. /\ h.leaves = log /\ h.top = nextSeq /\ TreeIs(tree, log, arity)
        /\ mid \in 0..nextSeq /\ buffer = Entries(h, mid, nextSeq)
    BY <1>1 DEF MemIs
  <1>6. /\ mid \in Nat /\ pend \in Nat /\ pend <= mid /\ mid <= nextSeq /\ pend \in 0..h.top /\ mid \in 0..h.top
        /\ safe \in Nat /\ safe <= h.top /\ h.top \in 0..h.top
    BY <1>1, <1>3, <1>4, <1>5
  <1>7. LogEnd(pc, pend, nextSeq) \in 0..h.top
    BY <1>5, <1>6 DEF LogEnd
  <1>8. QED
    BY <1>0, <1>1, <1>2, <1>3, <1>5, <1>6, <1>7

\* The new leaves are an entry of their own at the history's end.
LEMMA Inserts ==
    ASSUME NEW h, NEW safe, NEW pend, NEW mid, Inv(h, safe, pend, mid), InsertEntry
    PROVE  IInv'
  <1>1. up = "open"
    BY DEF InsertEntry, Inv, Resting
  <1>2. PICK count \in 1..MaxBatch :
          LET leaves == [i \in 1..count |-> Leaf(values + i)] IN
          /\ Fits(tree, count)
          /\ tree' = IF count = 1 THEN Insert(tree, leaves[1]) ELSE InsertMany(tree, leaves)
          /\ buffer' = Append(buffer, [seq |-> nextSeq, leaves |-> leaves])
          /\ nextSeq' = nextSeq + 1 /\ log' = log \o leaves
    BY DEF InsertEntry
  <1> DEFINE more == [i \in 1..count |-> Leaf(values + i)]
  <1>3. UNCHANGED <<arity, up, done, pc, job, wal, walDisk, meta, metaDisk, files, filesDisk, promised, budget>>
    BY DEF InsertEntry, fixed, walVars, dataVars
  <1>4. count \in Nat \ {0} /\ MaxBatch \in Nat
    BY LeanIMTAssumption
  <1>5. IsSeq(more) /\ Len(more) = count /\ (count = 1 => more = <<more[1]>>)
    <2>1. IsSeq(more) /\ Len(more) = count
      BY <1>4, TableIsSeq
    <2>2. ASSUME count = 1 PROVE more = <<more[1]>>
      <3>1. IsSeq(<<more[1]>>) /\ Len(<<more[1]>>) = 1 /\ <<more[1]>>[1] = more[1]
        BY OneIsSeq
      <3> DEFINE one == <<more[1]>>
      <3> HIDE DEF more
      <3>2. \A k \in 1..Len(more) : k = 1
        BY <2>1, <2>2
      <3>3. IsSeq(one) /\ Len(one) = Len(more) /\ \A k \in 1..Len(more) : more[k] = one[k]
        BY <2>1, <2>2, <3>1, <3>2
      <3> HIDE DEF one
      <3>4. more = one
        BY <2>1, <3>3, SeqEqual2
      <3>5. QED
        BY <3>4 DEF one
    <2>3. QED
      BY <2>1, <2>2
  <1>6. /\ Fits(tree, count)
        /\ tree' = IF count = 1 THEN Insert(tree, more[1]) ELSE InsertMany(tree, more)
        /\ buffer' = Append(buffer, [seq |-> nextSeq, leaves |-> more])
        /\ nextSeq' = nextSeq + 1 /\ log' = log \o more
    BY <1>2
  <1> HIDE DEF more
  <1>7. /\ arity \in Nat \ {0, 1} /\ arity \in Arities /\ History(h, arity)
        /\ h.top = nextSeq /\ nextSeq \in Nat /\ mid \in Nat /\ pend \in Nat /\ pend <= mid /\ mid <= nextSeq
        /\ meta.seq \in Int /\ meta.seq < pend /\ metaDisk.seq + 1 \in Nat /\ meta.seq + 1 <= h.top
        /\ safe \in Nat /\ safe <= h.top /\ LogEnd(pc, pend, nextSeq) \in 0..h.top
        /\ h.leaves = log /\ TreeIs(tree, log, arity) /\ buffer = Entries(h, mid, nextSeq) /\ pend \in 0..h.top
    <2>1. /\ arity \in Nat \ {0, 1} /\ arity \in Arities /\ History(h, arity)
        /\ h.top = nextSeq /\ nextSeq \in Nat /\ mid \in Nat /\ pend \in Nat /\ pend <= mid /\ mid <= nextSeq
        /\ meta.seq \in Int /\ meta.seq < pend /\ metaDisk.seq + 1 \in Nat
        /\ safe \in Nat /\ safe <= h.top /\ LogEnd(pc, pend, nextSeq) \in 0..h.top
        /\ h.leaves = log /\ TreeIs(tree, log, arity) /\ buffer = Entries(h, mid, nextSeq) /\ pend \in 0..h.top
      BY <1>1, SessionNumbers
    <2>2. meta.seq + 1 <= h.top
      BY <2>1
    <2>3. QED
      BY <2>1, <2>2
  <1>8. CeilLogN(Len(log) + Len(more), arity) <= MaxDepth
    BY <1>5, <1>6, <1>7 DEF Fits, TreeIs, Shaped
  <1> PICK g : g = Extended(h, more)
    OBVIOUS
  <1>9. /\ History(g, arity) /\ Agree(h, g, h.top) /\ g.leaves = log \o more /\ g.top = nextSeq + 1
        /\ Entries(g, h.top, h.top + 1) = <<[seq |-> h.top, leaves |-> more]>>
    BY <1>5, <1>7, <1>8, ExtendedHistory
  <1>10. TreeIs(tree', log', arity)
    <2>1. CASE count = 1
      <3> DEFINE leaf == more[1]
      <3>1. Len(more) = 1
        BY <1>5, <2>1
      <3>2. tree' = Insert(tree, leaf) /\ log' = log \o <<leaf>>
        BY <1>5, <1>6, <2>1
      <3>3. CeilLogN(Len(log) + 1, arity) <= MaxDepth
        BY <1>8, <3>1
      <3> HIDE DEF leaf
      <3>4. TreeIs(Insert(tree, leaf), log \o <<leaf>>, arity)
        BY <1>7, <3>3, TreeInserted
      <3>5. QED
        BY <3>2, <3>4
    <2>2. CASE count # 1
      <3>1. tree' = InsertMany(tree, more) /\ Len(more) > 0
        BY <1>4, <1>5, <1>6, <2>2
      <3>2. TreeIs(InsertMany(tree, more), log \o more, arity)
        BY <1>5, <1>7, <1>8, <3>1, TreeGrown
      <3>3. QED
        BY <1>6, <3>1, <3>2
    <2>3. QED
      BY <2>1, <2>2
  <1>11. buffer' = Entries(g, mid, nextSeq + 1)
    <2> DEFINE ns == nextSeq
               last == [seq |-> ns, leaves |-> more]
    <2>1. buffer = Entries(g, mid, ns)
      <3>1. ns \in 0..h.top
        BY <1>7
      <3>2. Entries(h, mid, ns) = Entries(g, mid, ns)
        BY <1>7, <1>9, <3>1, EntriesAgree
      <3>3. QED
        BY <1>7, <3>2
    <2>2. Entries(g, ns, ns + 1) = <<last>>
      BY <1>7, <1>9
    <2>3. Entries(g, mid, ns) \o Entries(g, ns, ns + 1) = Entries(g, mid, ns + 1)
      <3> DEFINE next == ns + 1
      <3>1. mid \in Nat /\ ns \in Nat /\ next \in Nat /\ mid <= ns /\ ns <= next
        BY <1>7
      <3> HIDE DEF next, ns
      <3>2. Entries(g, mid, ns) \o Entries(g, ns, next) = Entries(g, mid, next)
        BY <3>1, EntriesJoin
      <3>3. QED
        BY <3>2 DEF next
    <2> HIDE DEF last
    <2>4. IsSeq(buffer)
      BY <1>7, EntriesIsSeq
    <2>5. Append(buffer, last) = buffer \o <<last>>
      BY <2>4, OneMoreEntry
    <2>6. QED
      BY <1>6, <2>1, <2>2, <2>3, <2>5 DEF last
  <1>12. MemIs(g, mid, arity, tree', log', nextSeq', buffer')
    <2>1. mid \in 0..nextSeq + 1
      BY <1>7
    <2>2. QED
      BY <1>6, <1>9, <1>10, <1>11, <2>1 DEF MemIs
  <1>13. Data(g, arity, meta, metaDisk, files, filesDisk)
    BY <1>7, <1>9, DataAgree DEF Inv
  <1>14. PromiseIs(promised, g, safe)
    BY <1>7, <1>9, PromiseAgree DEF Inv
  <1>15. ASSUME NEW e \in 0..h.top PROVE g.at[e] = h.at[e] /\ Upto(g, e) = Upto(h, e)
    <2>1. g.at[e] = h.at[e] /\ h.at[e] \in Nat /\ h.at[e] <= h.at[h.top] /\ h.at[h.top] \in Nat
      BY <1>7, <1>9, AgreeBounds, SMTT(30)
    <2>2. h.at[e] \in 0..h.at[h.top]
      BY <2>1
    <2>3. First(h, h.at[e]) = First(g, h.at[e])
      BY <1>7, <1>9, <2>2, FirstAgree, SMTT(30)
    <2>4. QED
      BY <2>1, <2>3 DEF Upto
  <1>16. /\ FlushJob(g, pend, mid, pc, job) /\ SnapJob(g, pend, arity, pc, job, meta, metaDisk)
         /\ FileJob(g, pend, arity, pc, job, files, filesDisk)
    <2>1. /\ FlushJob(h, pend, mid, pc, job) /\ SnapJob(h, pend, arity, pc, job, meta, metaDisk)
          /\ FileJob(h, pend, arity, pc, job, files, filesDisk)
      BY <1>1 DEF Inv, Session
    <2>2. mid \in 0..h.top
      BY <1>7
    <2>3. Entries(h, pend, mid) = Entries(g, pend, mid)
      BY <1>7, <1>9, <2>2, EntriesAgree
    <2>4. g.at[mid] = h.at[mid] /\ Upto(g, pend) = Upto(h, pend)
      BY <1>7, <1>15, <2>2
    <2>5. FlushJob(g, pend, mid, pc, job)
      BY <2>1, <2>3, <2>4 DEF FlushJob
    <2>6. SnapJob(g, pend, arity, pc, job, meta, metaDisk)
      BY <2>1, <2>4 DEF SnapJob
    <2>7. FileJob(g, pend, arity, pc, job, files, filesDisk)
      BY <2>1, <2>4 DEF FileJob
    <2>8. QED
      BY <2>5, <2>6, <2>7
  <1>17. ASSUME budget.opens > 0
         PROVE  Logs(g, safe, wal, walDisk, metaDisk.seq + 1, LogEnd(pc, pend, nextSeq'))
    <2>1. pc \notin {"ckFlushSync", "ckTailSync"}
      BY DEF InsertEntry, StateLocked
    <2>2. LogEnd(pc, pend, nextSeq') = LogEnd(pc, pend, nextSeq)
      BY <2>1 DEF LogEnd
    <2>3. Logs(h, safe, wal, walDisk, metaDisk.seq + 1, LogEnd(pc, pend, nextSeq))
      BY <1>1, <1>17 DEF Inv, Session
    <2> DEFINE from == metaDisk.seq + 1
               e == LogEnd(pc, pend, nextSeq)
    <2>4. Logs(h, safe, wal, walDisk, from, e) /\ from \in Nat /\ e \in 0..h.top
      BY <1>7, <2>3
    <2> HIDE DEF from, e
    <2>5. Logs(g, safe, wal, walDisk, from, e)
      BY <1>7, <1>9, <2>4, LogsAgree
    <2>6. QED
      BY <2>2, <2>5 DEF from, e
  <1>18. Inv(g, safe, pend, mid)'
    <2>1. /\ BudgetIs(budget, up) /\ DoneIs(done, meta.size, arity) /\ JobForm(job) /\ pend \in 0..mid
      BY <1>1 DEF Inv, Session
    <2>2. Session(g, safe, pend, mid)'
      BY <1>3, <1>7, <1>12, <1>16, <1>17, <2>1 DEF Session
    <2>3. Firm(safe, pend, up, pc, meta)
      BY DEF Inv
    <2>4. QED
      BY <1>1, <1>3, <1>7, <1>9, <1>13, <1>14, <2>1, <2>2, <2>3 DEF Inv
  <1>19. QED
    BY <1>18 DEF IInv

\* Everything a flush leaves alone.
LEMMA FlushKeeps ==
    ASSUME NEW h, NEW safe, NEW pend, NEW mid, Inv(h, safe, pend, mid), Flushes
    PROVE  /\ up = "open"
           /\ UNCHANGED <<arity, up, tree, nextSeq, done, log, meta, metaDisk, files, filesDisk>>
           /\ BudgetIs(budget', up) /\ budget'.opens = budget.opens
  <1>1. up = "open"
    BY DEF Flushes, FlushTake, FlushWrite, FlushSync, FlushFails, Inv, Resting
  <1>2. UNCHANGED <<arity, up, tree, nextSeq, done, log, meta, metaDisk, files, filesDisk>>
    BY DEF Flushes, FlushTake, FlushWrite, FlushSync, FlushFails, fixed, memVars, walVars, dataVars
  <1>3. BudgetIs(budget', up) /\ budget'.opens = budget.opens
    <2>0. BudgetIs(budget, up)
      BY DEF Inv
    <2>1. CASE FlushFails
      <3>1. budget["flush"] > 0 /\ budget' = [budget EXCEPT !["flush"] = @ - 1]
        BY <2>1 DEF FlushFails, Spend
      <3>2. QED
        BY <2>0, <3>1, BudgetSpent
    <2>2. CASE ~FlushFails
      <3>1. budget' = budget
        BY <2>2 DEF Flushes, FlushTake, FlushWrite, FlushSync
      <3>2. QED
        BY <2>0, <3>1
    <2>3. QED
      BY <2>1, <2>2
  <1>4. QED
    BY <1>1, <1>2, <1>3

\* mark_flushed promises what is in the entries before number e.
LEMMA Marked ==
    ASSUME NEW h, NEW n, History(h, n), NEW safe, PromiseIs(promised, h, safe), h.leaves = log,
           NEW e \in 0..h.top, NEW seq, MarkFlushed(seq, h.at[e])
    PROVE  \E s \in {safe, e} : PromiseIs(promised', h, s)
  <1>1. CASE seq > flushed
    <2>1. promised' = First(h, h.at[e]) /\ h.at[e] \in Nat
      BY <1>1, HistoryFacts DEF MarkFlushed, First
    <2>2. PromiseIs(promised', h, e)
      BY <2>1 DEF PromiseIs
    <2>3. QED
      BY <2>2
  <1>2. CASE ~(seq > flushed)
    <2>1. promised' = promised
      BY <1>2 DEF MarkFlushed
    <2>2. QED
      BY <2>1
  <1>3. QED
    BY <1>1, <1>2

\* Away from a checkpoint's snapshot, the job says nothing of it.
LEMMA NoSnapJob ==
    ASSUME NEW h, NEW pend, NEW n, NEW p, NEW j, NEW m, NEW md, NEW f, NEW fd,
           p \notin {"ckLevels", "ckRename", "ckDirSync", "ckRemap"},
           p \in {"ckFlush", "ckFlushSync"} => j.level = 0
    PROVE  SnapJob(h, pend, n, p, j, m, md) /\ FileJob(h, pend, n, p, j, f, fd)
  BY DEF SnapJob, FileJob

LEMMA NoJobForm == JobForm(NoJob)
  BY DEF JobForm, NoJob

\* flush_inner takes the buffer, and writes it.
LEMMA Takes ==
    ASSUME NEW h, NEW safe, NEW pend, NEW mid, Inv(h, safe, pend, mid), FlushTake
    PROVE  IInv'
  <1>1. /\ up = "open"
        /\ UNCHANGED <<arity, up, tree, nextSeq, done, log, meta, metaDisk, files, filesDisk>>
        /\ BudgetIs(budget', up) /\ budget'.opens = budget.opens
    <2>1. Flushes
      BY DEF Flushes
    <2>2. QED
      BY <2>1, FlushKeeps
  <1>2. /\ arity \in Arities /\ h.top = nextSeq /\ h.top \in Nat /\ pend \in Nat /\ mid <= nextSeq
        /\ pend \in 0..h.top /\ buffer = Entries(h, mid, nextSeq) /\ h.leaves = log /\ History(h, arity)
        /\ TreeIs(tree, log, arity) /\ h.at[h.top] = Len(h.leaves) /\ meta.seq < pend
    BY <1>1, SessionNumbers
  <1>3. /\ pc = "free" /\ pc' = "flWrite" /\ buffer' = <<>> /\ UNCHANGED <<wal, walDisk, promised, budget>>
        /\ job' = [by |-> "flush", entries |-> buffer, seq |-> nextSeq - 1, snap |-> tree, level |-> 0]
    BY DEF FlushTake, NoJob, walVars
  <1>4. mid = pend
    BY <1>1, <1>3 DEF Inv, Session, FlushJob
  <1>5. MemIs(h, h.top, arity, tree', log', nextSeq', buffer')
    <2>1. Entries(h, h.top, h.top) = <<>> /\ h.top \in 0..h.top
      BY <1>2, EntriesEmpty
    <2>2. QED
      BY <1>1, <1>2, <1>3, <2>1 DEF MemIs
  <1>6. JobForm(job')
    BY <1>3 DEF JobForm
  <1>7. FlushJob(h, pend, h.top, pc', job')
    <2>1. tree.size = Len(log)
      BY <1>2 DEF TreeIs, Shaped
    <2>2. job'.entries = Entries(h, pend, h.top) /\ job'.seq = h.top - 1 /\ job'.snap.size = h.at[h.top]
      BY <1>2, <1>3, <1>4, <2>1
    <2>3. QED
      BY <1>3, <2>2 DEF FlushJob
  <1>8. SnapJob(h, pend, arity, pc', job', meta, metaDisk) /\ FileJob(h, pend, arity, pc', job', files, filesDisk)
    BY <1>3, NoSnapJob
  <1>9. LogEnd(pc', pend, nextSeq') = LogEnd(pc, pend, nextSeq)
    BY <1>3 DEF LogEnd
  <1>10. Inv(h, safe, pend, h.top)'
    <2>1. /\ DoneIs(done, meta.size, arity)
          /\ (budget.opens > 0 => Logs(h, safe, wal, walDisk, metaDisk.seq + 1, LogEnd(pc, pend, nextSeq)))
      BY <1>1 DEF Inv, Session
    <2>2. Session(h, safe, pend, h.top)'
      BY <1>1, <1>2, <1>3, <1>5, <1>6, <1>7, <1>8, <1>9, <2>1 DEF Session
    <2>3. PromiseIs(promised, h, safe) /\ Data(h, arity, meta, metaDisk, files, filesDisk)
      BY DEF Inv
    <2>4. Firm(safe, pend, up', pc', meta')
      BY <1>1, <1>3, FirmMoves
    <2>5. QED
      BY <1>1, <1>2, <1>3, <2>2, <2>3, <2>4 DEF Inv
  <1>11. QED
    BY <1>10 DEF IInv

LEMMA Writes ==
    ASSUME NEW h, NEW safe, NEW pend, NEW mid, Inv(h, safe, pend, mid), FlushWrite
    PROVE  IInv'
  <1>1. /\ up = "open"
        /\ UNCHANGED <<arity, up, tree, nextSeq, done, log, meta, metaDisk, files, filesDisk>>
        /\ BudgetIs(budget', up) /\ budget'.opens = budget.opens
    <2>1. Flushes
      BY DEF Flushes
    <2>2. QED
      BY <2>1, FlushKeeps
  <1>2. /\ arity \in Arities /\ h.top \in Nat /\ pend \in Nat /\ mid \in Nat /\ pend <= mid /\ mid \in 0..h.top
        /\ meta.seq \in Int /\ meta.seq < pend /\ History(h, arity) /\ metaDisk.seq + 1 \in Nat
    BY <1>1, SessionNumbers
  <1>3. /\ pc = "flWrite" /\ pc' = "flSync" /\ wal' = wal \o job.entries
        /\ UNCHANGED <<job, buffer, walDisk, promised, budget>>
    BY DEF FlushWrite, memVars
  <1>4. FlushJob(h, pend, mid, pc, job) /\ JobForm(job) /\ MemIs(h, mid, arity, tree, log, nextSeq, buffer)
        /\ DoneIs(done, meta.size, arity)
        /\ (budget.opens > 0 => Logs(h, safe, wal, walDisk, metaDisk.seq + 1, LogEnd(pc, pend, nextSeq)))
    BY <1>1 DEF Inv, Session
  <1>5. job.entries = Entries(h, pend, mid) /\ FlushJob(h, mid, mid, pc', job')
    BY <1>3, <1>4 DEF FlushJob
  <1>6. SnapJob(h, mid, arity, pc', job', meta, metaDisk) /\ FileJob(h, mid, arity, pc', job', files, filesDisk)
    BY <1>3, NoSnapJob
  <1>7. ASSUME budget.opens > 0
        PROVE  Logs(h, safe, wal', walDisk, metaDisk.seq + 1, LogEnd(pc', mid, nextSeq'))
    <2> DEFINE from == metaDisk.seq + 1
    <2>1. LogEnd(pc, pend, nextSeq) = pend /\ LogEnd(pc', mid, nextSeq') = mid
      BY <1>3 DEF LogEnd
    <2>2. Logs(h, safe, wal, walDisk, from, pend) /\ from \in Nat
      BY <1>2, <1>4, <1>7, <2>1
    <2> HIDE DEF from
    <2>3. Logs(h, safe, wal \o Entries(h, pend, mid), walDisk, from, mid)
      BY <1>2, <2>2, LogsWrite
    <2>4. QED
      BY <1>3, <1>5, <2>1, <2>3 DEF from
  <1>8. mid \in 0..mid /\ meta.seq < mid
    BY <1>2
  <1>9. Inv(h, safe, mid, mid)'
    <2>1. Session(h, safe, mid, mid)'
      BY <1>1, <1>3, <1>4, <1>5, <1>6, <1>7, <1>8 DEF Session
    <2>2. PromiseIs(promised, h, safe) /\ Data(h, arity, meta, metaDisk, files, filesDisk)
      BY DEF Inv
    <2>3. Firm(safe, mid, up', pc', meta')
      <3>1. Firm(safe, pend, "open", "flWrite", meta)
        BY <1>1, <1>3 DEF Inv
      <3>2. QED
        BY <1>1, <1>2, <1>3, <3>1 DEF Firm
    <2>4. QED
      BY <1>1, <1>2, <1>3, <2>1, <2>2, <2>3 DEF Inv
  <1>10. QED
    BY <1>9 DEF IInv

\* The sync that tokens wait for.
LEMMA Syncs ==
    ASSUME NEW h, NEW safe, NEW pend, NEW mid, Inv(h, safe, pend, mid), FlushSync
    PROVE  IInv'
  <1>1. /\ up = "open"
        /\ UNCHANGED <<arity, up, tree, nextSeq, done, log, meta, metaDisk, files, filesDisk>>
        /\ BudgetIs(budget', up) /\ budget'.opens = budget.opens
    <2>1. Flushes
      BY DEF Flushes
    <2>2. QED
      BY <2>1, FlushKeeps
  <1>2. /\ arity \in Arities /\ h.top \in Nat /\ pend \in Nat /\ mid \in Nat /\ pend \in 0..h.top
        /\ meta.seq \in Int /\ meta.seq < pend /\ History(h, arity) /\ metaDisk.seq + 1 \in Nat
        /\ safe \in Nat /\ h.leaves = log
    BY <1>1, SessionNumbers
  <1>3. /\ pc = "flSync" /\ pc' = "free" /\ walDisk' = wal /\ job' = NoJob
        /\ MarkFlushed(job.seq, job.snap.size) /\ UNCHANGED <<wal, buffer, budget>>
    BY DEF FlushSync
  <1>4. FlushJob(h, pend, mid, pc, job) /\ MemIs(h, mid, arity, tree, log, nextSeq, buffer)
        /\ DoneIs(done, meta.size, arity) /\ pend \in 0..mid
        /\ (budget.opens > 0 => Logs(h, safe, wal, walDisk, metaDisk.seq + 1, LogEnd(pc, pend, nextSeq)))
    BY <1>1 DEF Inv, Session
  <1>5. mid = pend /\ job.snap.size = h.at[pend]
    BY <1>3, <1>4 DEF FlushJob
  <1>6. PICK s \in {safe, pend} : PromiseIs(promised', h, s) /\ (NoLooseWrites => s = pend)
    <2>1. MarkFlushed(job.seq, h.at[pend])
      BY <1>3, <1>5
    <2>2. PromiseIs(promised, h, safe)
      BY DEF Inv
    <2>3. PICK s \in {safe, pend} : PromiseIs(promised', h, s)
      BY <1>2, <2>1, <2>2, Marked
    <2>4. ASSUME NoLooseWrites PROVE PromiseIs(promised', h, pend)
      <3>1. safe <= pend
        BY <1>1, <2>4 DEF Inv, Firm
      <3>2. s <= pend
        BY <1>2, <3>1
      <3>3. QED
        BY <1>2, <2>3, <3>2, PromiseMore
    <2>5. QED
      BY <2>3, <2>4
  <1>7. FlushJob(h, pend, mid, pc', job') /\ JobForm(job')
    BY <1>3, <1>5, NoJobForm DEF FlushJob
  <1>8. SnapJob(h, pend, arity, pc', job', meta, metaDisk) /\ FileJob(h, pend, arity, pc', job', files, filesDisk)
    BY <1>3, NoSnapJob
  <1>9. ASSUME budget.opens > 0
        PROVE  Logs(h, s, wal, wal, metaDisk.seq + 1, LogEnd(pc', pend, nextSeq'))
    <2> DEFINE from == metaDisk.seq + 1
    <2>1. LogEnd(pc, pend, nextSeq) = pend /\ LogEnd(pc', pend, nextSeq') = pend
      BY <1>3 DEF LogEnd
    <2>2. Logs(h, safe, wal, walDisk, from, pend) /\ from \in Nat
      BY <1>2, <1>4, <1>9, <2>1
    <2> HIDE DEF from
    <2>3. s <= pend
      BY <1>2, <1>6, <2>2, LogsBounds
    <2>4. Logs(h, s, wal, wal, from, pend)
      BY <1>2, <2>2, <2>3, LogsSync
    <2>5. QED
      BY <2>1, <2>4 DEF from
  <1>10. Inv(h, s, pend, mid)'
    <2>1. Session(h, s, pend, mid)'
      BY <1>1, <1>2, <1>3, <1>4, <1>7, <1>8, <1>9 DEF Session
    <2>2. Data(h, arity, meta, metaDisk, files, filesDisk)
      BY DEF Inv
    <2>3. Firm(s, pend, up', pc', meta')
      <3>1. NoLooseWrites => meta.seq < pend /\ s = pend /\ pend <= pend
        BY <1>2, <1>6
      <3>2. QED
        BY <1>1, <3>1 DEF Firm
    <2>4. QED
      BY <1>1, <1>2, <1>6, <2>1, <2>2, <2>3 DEF Inv
  <1>11. QED
    BY <1>10 DEF IInv

\* A flush fails: its entries return to the buffer's front, or stay in the log.
LEMMA FlushesFail ==
    ASSUME NEW h, NEW safe, NEW pend, NEW mid, Inv(h, safe, pend, mid), FlushFails
    PROVE  IInv'
  <1>1. /\ up = "open"
        /\ UNCHANGED <<arity, up, tree, nextSeq, done, log, meta, metaDisk, files, filesDisk>>
        /\ BudgetIs(budget', up) /\ budget'.opens = budget.opens
    <2>1. Flushes
      BY DEF Flushes
    <2>2. QED
      BY <2>1, FlushKeeps
  <1>2. /\ arity \in Arities /\ h.top \in Nat /\ h.top = nextSeq /\ pend \in Nat /\ mid \in Nat /\ pend \in 0..h.top
        /\ pend <= mid /\ mid <= nextSeq /\ meta.seq < pend /\ History(h, arity)
        /\ h.leaves = log /\ TreeIs(tree, log, arity) /\ buffer = Entries(h, mid, nextSeq)
    BY <1>1, SessionNumbers
  <1>3. /\ pc \in {"flWrite", "flSync"} /\ pc' = "free" /\ job' = NoJob /\ UNCHANGED <<wal, walDisk, promised>>
        /\ buffer' = IF pc = "flWrite" THEN job.entries \o buffer ELSE buffer
    BY DEF FlushFails, walVars
  <1>4. FlushJob(h, pend, mid, pc, job) /\ DoneIs(done, meta.size, arity)
        /\ (budget.opens > 0 => Logs(h, safe, wal, walDisk, metaDisk.seq + 1, LogEnd(pc, pend, nextSeq)))
    BY <1>1 DEF Inv, Session
  <1>5. buffer' = Entries(h, pend, nextSeq)
    <2>1. CASE pc = "flWrite"
      <3>1. job.entries = Entries(h, pend, mid)
        BY <1>4, <2>1 DEF FlushJob
      <3>2. Entries(h, pend, mid) \o Entries(h, mid, nextSeq) = Entries(h, pend, nextSeq)
        <4> DEFINE ns == nextSeq
        <4>1. ns \in Nat /\ pend <= mid /\ mid <= ns
          BY <1>2
        <4> HIDE DEF ns
        <4>2. Entries(h, pend, mid) \o Entries(h, mid, ns) = Entries(h, pend, ns)
          BY <1>2, <4>1, EntriesJoin
        <4>3. QED
          BY <4>2 DEF ns
      <3>3. QED
        BY <1>2, <1>3, <2>1, <3>1, <3>2
    <2>2. CASE pc # "flWrite"
      BY <1>2, <1>3, <1>4, <2>2 DEF FlushJob
    <2>3. QED
      BY <2>1, <2>2
  <1>6. MemIs(h, pend, arity, tree', log', nextSeq', buffer')
    BY <1>1, <1>2, <1>5 DEF MemIs
  <1>7. FlushJob(h, pend, pend, pc', job') /\ JobForm(job')
    BY <1>3, NoJobForm DEF FlushJob
  <1>8. SnapJob(h, pend, arity, pc', job', meta, metaDisk) /\ FileJob(h, pend, arity, pc', job', files, filesDisk)
    BY <1>3, NoSnapJob
  <1>9. LogEnd(pc', pend, nextSeq') = LogEnd(pc, pend, nextSeq)
    BY <1>3 DEF LogEnd
  <1>10. Inv(h, safe, pend, pend)'
    <2>0. pend \in 0..pend
      BY <1>2
    <2>1. Session(h, safe, pend, pend)'
      BY <1>1, <1>2, <1>3, <1>4, <1>6, <1>7, <1>8, <1>9, <2>0 DEF Session
    <2>2. PromiseIs(promised, h, safe) /\ Data(h, arity, meta, metaDisk, files, filesDisk)
      BY DEF Inv
    <2>3. ~NoLooseWrites
      <3>1. budget["flush"] > 0 /\ budget' = [budget EXCEPT !["flush"] = @ - 1] /\ BudgetIs(budget, up)
        BY DEF FlushFails, Spend, Inv
      <3>2. QED
        BY <3>1, BudgetSpent
    <2>4. Firm(safe, pend, up', pc', meta')
      BY <2>3 DEF Firm
    <2>5. QED
      BY <1>1, <1>2, <1>3, <2>1, <2>2, <2>4 DEF Inv
  <1>11. QED
    BY <1>10 DEF IInv

-----------------------------------------------------------------------------
(***************************************************************************)
(* Checkpoints.                                                            *)
(***************************************************************************)
LEMMA CheckpointKeeps ==
    ASSUME NEW h, NEW safe, NEW pend, NEW mid, Inv(h, safe, pend, mid), Checkpoints
    PROVE  /\ up = "open" /\ UNCHANGED <<arity, up, nextSeq, log>>
           /\ BudgetIs(budget', up) /\ budget'.opens = budget.opens
           /\ (CkLogFails => budget.opens = 0)
  <1>1. up = "open"
    BY DEF Checkpoints, CkBegin, CkWrite, CkFlushed, CkFlushSync, CkLevel, CkSyncFiles, CkRename, CkDirSync,
           CkRemap, CkTruncate, CkTruncSync, CkTailSync, CkDone, CkFails, CkLogFails, Inv, Resting
  <1>2. UNCHANGED <<arity, up, nextSeq, log>>
    BY DEF Checkpoints, CkBegin, CkWrite, CkFlushed, CkFlushSync, CkLevel, CkSyncFiles, CkRename, CkDirSync,
           CkRemap, CkTruncate, CkTruncSync, CkTailSync, CkDone, CkFails, CkLogFails, Abandon, fixed, memVars
  <1>3. BudgetIs(budget', up) /\ budget'.opens = budget.opens /\ (CkLogFails => budget.opens = 0)
    <2>0. BudgetIs(budget, up)
      BY DEF Inv
    <2>1. CASE CkFails
      <3>1. budget["checkpoint"] > 0 /\ budget' = [budget EXCEPT !["checkpoint"] = @ - 1]
            /\ pc \in {"ckLevels", "ckRename", "ckDirSync", "ckRemap", "ckTruncSync"}
        BY <2>1 DEF CkFails, Spend
      <3>2. ~CkLogFails
        BY <3>1 DEF CkLogFails
      <3>3. QED
        BY <2>0, <3>1, <3>2, BudgetSpent
    <2>2. CASE CkLogFails
      <3>1. budget["log"] > 0 /\ budget' = [budget EXCEPT !["log"] = @ - 1]
        BY <2>2 DEF CkLogFails, Spend
      <3>2. QED
        BY <1>1, <2>0, <3>1, BudgetSpent
    <2>3. CASE ~CkFails /\ ~CkLogFails
      <3>1. budget' = budget
        BY <2>3 DEF Checkpoints, CkBegin, CkWrite, CkFlushed, CkFlushSync, CkLevel, CkSyncFiles, CkRename, CkDirSync,
                    CkRemap, CkTruncate, CkTruncSync, CkTailSync, CkDone
      <3>2. QED
        BY <2>0, <2>3, <3>1
    <2>4. QED
      BY <2>1, <2>2, <2>3
  <1>4. QED
    BY <1>1, <1>2, <1>3

\* The steps that only move on: the start, the end and a failure of a call on the data
\* files.
LEMMA MovesOn ==
    ASSUME NEW h, NEW safe, NEW pend, NEW mid, Inv(h, safe, pend, mid),
           CkBegin \/ CkDone \/ CkFails \/ CkLogFails
    PROVE  IInv'
  <1>1. /\ up = "open" /\ UNCHANGED <<arity, up, nextSeq, log>>
        /\ BudgetIs(budget', up) /\ budget'.opens = budget.opens /\ (CkLogFails => budget.opens = 0)
    <2>1. Checkpoints
      BY DEF Checkpoints
    <2>2. QED
      BY <2>1, CheckpointKeeps
  <1>2. UNCHANGED <<tree, buffer, done, walDisk, meta, metaDisk, files, filesDisk, promised>>
    BY DEF CkBegin, CkDone, CkFails, CkLogFails, Abandon, memVars, walVars, dataVars
  <1>3. pc # "flWrite" /\ pc' \in {"free", "ckFlush"} /\ JobForm(job') /\ (pc' = "ckFlush" => job'.level = 0)
    <2>1. CASE CkBegin
      <3>1. PICK by : job' = [NoJob EXCEPT !.by = by]
        BY <2>1 DEF CkBegin
      <3>2. job' = [by |-> by, entries |-> <<>>, seq |-> -1, snap |-> EmptyTree, level |-> 0]
        BY <3>1 DEF NoJob
      <3> HIDE DEF JobForm
      <3>3. JobForm(job') /\ job'.level = 0
        BY <3>2 DEF JobForm
      <3>4. QED
        BY <2>1, <3>3 DEF CkBegin
    <2>2. CASE CkDone \/ CkFails \/ CkLogFails
      <3>1. job' = NoJob /\ pc' = "free" /\ pc # "flWrite"
        BY <2>2 DEF CkDone, CkFails, CkLogFails, Abandon
      <3>2. QED
        BY <3>1, NoJobForm
    <2>3. QED
      BY <2>1, <2>2
  <1>4. /\ MemIs(h, mid, arity, tree, log, nextSeq, buffer) /\ FlushJob(h, pend, mid, pc, job)
        /\ DoneIs(done, meta.size, arity) /\ pend \in 0..mid /\ meta.seq < pend
        /\ (budget.opens > 0 => Logs(h, safe, wal, walDisk, metaDisk.seq + 1, LogEnd(pc, pend, nextSeq)))
    BY <1>1 DEF Inv, Session
  <1>5. FlushJob(h, pend, mid, pc', job')
    BY <1>3, <1>4 DEF FlushJob
  <1>6. SnapJob(h, pend, arity, pc', job', meta, metaDisk) /\ FileJob(h, pend, arity, pc', job', files, filesDisk)
    BY <1>3, NoSnapJob
  <1>7. ASSUME budget.opens > 0 PROVE wal' = wal /\ LogEnd(pc', pend, nextSeq') = LogEnd(pc, pend, nextSeq)
    <2>1. ~CkLogFails
      <3>1. 0 > 0 <=> FALSE
        OBVIOUS
      <3>2. QED
        BY <1>1, <1>7, <3>1
    <2>2. wal' = wal /\ pc \notin {"ckFlushSync", "ckTailSync"}
      BY <2>1 DEF CkBegin, CkDone, CkFails, walVars
    <2>3. QED
      BY <1>3, <2>2 DEF LogEnd
  <1>8. Inv(h, safe, pend, mid)'
    <2>0. pc # "flSync"
      BY DEF CkBegin, CkDone, CkFails, CkLogFails
    <2>1. Session(h, safe, pend, mid)'
      BY <1>1, <1>2, <1>3, <1>4, <1>5, <1>6, <1>7 DEF Session
    <2>2. /\ PromiseIs(promised, h, safe) /\ Data(h, arity, meta, metaDisk, files, filesDisk)
          /\ History(h, arity) /\ arity \in Arities
      BY DEF Inv
    <2>3. Firm(safe, pend, up', pc', meta')
      BY <1>1, <1>2, <2>0, FirmMoves
    <2>4. QED
      BY <1>1, <1>2, <2>1, <2>2, <2>3 DEF Inv
  <1>9. QED
    BY <1>8 DEF IInv

\* flush_buffer_locked writes the buffer, which stays until the sync.
LEMMA BufferWritten ==
    ASSUME NEW h, NEW safe, NEW pend, NEW mid, Inv(h, safe, pend, mid), CkWrite
    PROVE  IInv'
  <1>1. /\ up = "open" /\ UNCHANGED <<arity, up, nextSeq, log>>
        /\ BudgetIs(budget', up) /\ budget'.opens = budget.opens
    <2>1. Checkpoints
      BY DEF Checkpoints
    <2>2. QED
      BY <2>1, CheckpointKeeps
  <1>2. /\ UNCHANGED <<tree, buffer, done, job, walDisk, meta, metaDisk, files, filesDisk, promised>>
        /\ wal' = wal \o buffer /\ pc \in {"ckFlush", "ckTail"} /\ pc' \in {"ckFlushSync", "ckTailSync"}
        /\ (pc = "ckFlush" <=> pc' = "ckFlushSync")
    BY DEF CkWrite, memVars, dataVars
  <1>3. /\ MemIs(h, mid, arity, tree, log, nextSeq, buffer) /\ FlushJob(h, pend, mid, pc, job) /\ JobForm(job)
        /\ DoneIs(done, meta.size, arity) /\ pend \in 0..mid /\ meta.seq < pend
        /\ SnapJob(h, pend, arity, pc, job, meta, metaDisk)
        /\ (budget.opens > 0 => Logs(h, safe, wal, walDisk, metaDisk.seq + 1, LogEnd(pc, pend, nextSeq)))
    BY <1>1 DEF Inv, Session
  <1>4. mid = pend /\ FlushJob(h, pend, mid, pc', job')
    BY <1>2, <1>3 DEF FlushJob
  <1>5. SnapJob(h, pend, arity, pc', job', meta, metaDisk) /\ FileJob(h, pend, arity, pc', job', files, filesDisk)
    <2>1. pc' \in {"ckFlush", "ckFlushSync"} => job'.level = 0
      BY <1>2, <1>3 DEF SnapJob
    <2>2. QED
      BY <1>2, <2>1, NoSnapJob
  <1>6. ASSUME budget.opens > 0
        PROVE  Logs(h, safe, wal', walDisk, metaDisk.seq + 1, LogEnd(pc', pend, nextSeq'))
    <2> DEFINE from == metaDisk.seq + 1
    <2>1. LogEnd(pc, pend, nextSeq) = pend /\ LogEnd(pc', pend, nextSeq') = h.top /\ from \in Nat
          /\ h.top \in Nat /\ h.top \in 0..h.top /\ pend \in Nat /\ pend <= h.top /\ buffer = Entries(h, pend, h.top)
      BY <1>1, <1>2, <1>4, SessionNumbers DEF LogEnd
    <2>2. Logs(h, safe, wal, walDisk, from, pend)
      BY <1>3, <1>6, <2>1
    <2> HIDE DEF from
    <2>3. Logs(h, safe, wal \o Entries(h, pend, h.top), walDisk, from, h.top)
      BY <2>1, <2>2, LogsWrite
    <2>4. QED
      BY <1>2, <2>1, <2>3 DEF from
  <1>7. Inv(h, safe, pend, mid)'
    <2>1. Session(h, safe, pend, mid)'
      BY <1>1, <1>2, <1>3, <1>4, <1>5, <1>6 DEF Session
    <2>2. /\ PromiseIs(promised, h, safe) /\ Data(h, arity, meta, metaDisk, files, filesDisk)
          /\ History(h, arity) /\ arity \in Arities
      BY DEF Inv
    <2>3. Firm(safe, pend, up', pc', meta')
      BY <1>1, <1>2, FirmMoves
    <2>4. QED
      BY <1>1, <1>2, <2>1, <2>2, <2>3 DEF Inv
  <1>8. QED
    BY <1>7 DEF IInv

\* The snapshot is the tree of a moment at which the log holds everything.
LEMMA SnapTaken ==
    ASSUME NEW h, NEW safe, NEW pend, NEW mid, Inv(h, safe, pend, mid), up = "open",
           pc \in {"ckFlush", "ckFlushSync"}, TakeSnap
    PROVE  /\ pc' \in {"free", "ckLevels"} /\ JobForm(job') /\ FlushJob(h, h.top, h.top, pc', job')
           /\ SnapJob(h, h.top, arity, pc', job', meta, metaDisk)
           /\ FileJob(h, h.top, arity, pc', job', files, filesDisk)
  <1>1. CASE tree.size = 0
    <2>1. pc' = "free" /\ job' = NoJob
      BY <1>1 DEF TakeSnap
    <2>2. QED
      BY <2>1, NoJobForm, NoSnapJob DEF FlushJob
  <1>2. CASE tree.size # 0
    <2>1. pc' = "ckLevels" /\ job' = [job EXCEPT !.snap = tree, !.seq = nextSeq - 1]
      BY <1>2 DEF TakeSnap
    <2>2. JobForm(job) /\ job.level = 0
      BY DEF Inv, Session, SnapJob
    <2>3. job' = [by |-> job.by, entries |-> job.entries, seq |-> nextSeq - 1, snap |-> tree, level |-> 0]
      BY <2>1, <2>2 DEF JobForm
    <2>4. JobForm(job') /\ job'.seq = nextSeq - 1 /\ job'.snap = tree /\ job'.level = 0
      BY <2>3 DEF JobForm
    <2>5. TreeIs(tree, Upto(h, h.top), arity) /\ h.top = nextSeq
      <3>1. h.at[h.top] = Len(h.leaves) /\ IsSeq(h.leaves) /\ h.leaves = log /\ TreeIs(tree, log, arity) /\ h.top = nextSeq
        BY SessionNumbers
      <3>2. First(h, Len(h.leaves)) = h.leaves
        BY <3>1, FirstOfAll
      <3>3. QED
        BY <3>1, <3>2 DEF Upto
    <2>6. FlushJob(h, h.top, h.top, pc', job') /\ SnapJob(h, h.top, arity, pc', job', meta, metaDisk)
      BY <2>1, <2>4, <2>5 DEF FlushJob, SnapJob
    <2>7. FileJob(h, h.top, arity, pc', job', files, filesDisk)
      <3>1. \A l \in Levels : ~(l < 0)
        BY LeanIMTAssumption DEF Levels
      <3>2. QED
        BY <2>1, <2>4, <3>1 DEF FileJob
    <2>8. QED
      BY <2>1, <2>4, <2>6, <2>7
  <1>3. QED
    BY <1>1, <1>2

LEMMA NothingToFlush ==
    ASSUME NEW h, NEW safe, NEW pend, NEW mid, Inv(h, safe, pend, mid), CkFlushed
    PROVE  IInv'
  <1>1. /\ up = "open" /\ UNCHANGED <<arity, up, nextSeq, log>>
        /\ BudgetIs(budget', up) /\ budget'.opens = budget.opens
    <2>1. Checkpoints
      BY DEF Checkpoints
    <2>2. QED
      BY <2>1, CheckpointKeeps
  <1>2. /\ UNCHANGED <<tree, buffer, done, wal, walDisk, meta, metaDisk, files, filesDisk, promised>>
        /\ pc = "ckFlush" /\ buffer = <<>> /\ TakeSnap
    BY DEF CkFlushed, memVars, walVars, dataVars
  <1>3. /\ MemIs(h, mid, arity, tree, log, nextSeq, buffer) /\ FlushJob(h, pend, mid, pc, job)
        /\ DoneIs(done, meta.size, arity) /\ pend \in 0..mid /\ meta.seq < pend
        /\ (budget.opens > 0 => Logs(h, safe, wal, walDisk, metaDisk.seq + 1, LogEnd(pc, pend, nextSeq)))
    BY <1>1 DEF Inv, Session
  <1>4. pend = h.top /\ mid = h.top
    <2>1. mid \in Nat /\ h.top \in Nat /\ mid <= h.top /\ Entries(h, mid, h.top) = <<>>
      BY <1>1, <1>2, SessionNumbers
    <2>2. mid = h.top
      BY <2>1, EntriesNone
    <2>3. QED
      BY <1>2, <1>3, <2>2 DEF FlushJob
  <1>5. /\ pc' \in {"free", "ckLevels"} /\ JobForm(job') /\ FlushJob(h, pend, mid, pc', job')
        /\ SnapJob(h, pend, arity, pc', job', meta, metaDisk)
        /\ FileJob(h, pend, arity, pc', job', files, filesDisk)
    BY <1>1, <1>2, <1>4, SnapTaken
  <1>6. LogEnd(pc', pend, nextSeq') = LogEnd(pc, pend, nextSeq)
    BY <1>2, <1>5 DEF LogEnd
  <1>7. Inv(h, safe, pend, mid)'
    <2>1. Session(h, safe, pend, mid)'
      BY <1>1, <1>2, <1>3, <1>5, <1>6 DEF Session
    <2>2. /\ PromiseIs(promised, h, safe) /\ Data(h, arity, meta, metaDisk, files, filesDisk)
          /\ History(h, arity) /\ arity \in Arities
      BY DEF Inv
    <2>3. Firm(safe, pend, up', pc', meta')
      BY <1>1, <1>2, FirmMoves
    <2>4. QED
      BY <1>1, <1>2, <2>1, <2>2, <2>3 DEF Inv
  <1>8. QED
    BY <1>7 DEF IInv

\* The syncs of a checkpoint, before the snapshot and behind the cut.
LEMMA BufferSynced ==
    ASSUME NEW h, NEW safe, NEW pend, NEW mid, Inv(h, safe, pend, mid), CkFlushSync \/ CkTailSync
    PROVE  IInv'
  <1>1. /\ up = "open" /\ UNCHANGED <<arity, up, nextSeq, log>>
        /\ BudgetIs(budget', up) /\ budget'.opens = budget.opens
    <2>1. Checkpoints
      BY DEF Checkpoints
    <2>2. QED
      BY <2>1, CheckpointKeeps
  <1>2. /\ UNCHANGED <<tree, done, wal, meta, metaDisk, files, filesDisk>>
        /\ pc \in {"ckFlushSync", "ckTailSync"} /\ buffer' = <<>> /\ walDisk' = wal
        /\ MarkFlushed(nextSeq - 1, tree.size)
        /\ (pc = "ckFlushSync" => TakeSnap) /\ (pc = "ckTailSync" => pc' = "free" /\ job' = NoJob)
    BY DEF CkFlushSync, CkTailSync, dataVars
  <1>3. /\ DoneIs(done, meta.size, arity) /\ PromiseIs(promised, h, safe)
        /\ (budget.opens > 0 => Logs(h, safe, wal, walDisk, metaDisk.seq + 1, LogEnd(pc, pend, nextSeq)))
    BY <1>1 DEF Inv, Session
  <1>4. /\ pc' \in {"free", "ckLevels"} /\ JobForm(job') /\ FlushJob(h, h.top, h.top, pc', job')
        /\ SnapJob(h, h.top, arity, pc', job', meta, metaDisk)
        /\ FileJob(h, h.top, arity, pc', job', files, filesDisk)
    <2>1. CASE pc = "ckFlushSync"
      BY <1>1, <1>2, <2>1, SnapTaken
    <2>2. CASE pc = "ckTailSync"
      BY <1>2, <2>2, NoJobForm, NoSnapJob DEF FlushJob
    <2>3. QED
      BY <1>2, <2>1, <2>2
  <1>5. /\ h.top = nextSeq /\ h.top \in Nat /\ h.top \in 0..h.top /\ pend \in Nat /\ pend <= h.top /\ meta.seq \in Int
        /\ meta.seq < pend /\ metaDisk.seq + 1 \in Nat /\ h.leaves = log /\ TreeIs(tree, log, arity)
        /\ History(h, arity) /\ arity \in Arities /\ h.at[h.top] = Len(h.leaves) /\ safe \in Nat
    <2>1. pend <= mid /\ mid <= h.top /\ mid \in Nat /\ pend \in Nat /\ h.top \in Nat
      BY <1>1, SessionNumbers
    <2>2. pend <= h.top
      BY <2>1
    <2>3. QED
      BY <1>1, <2>2, SessionNumbers
  <1>6. MemIs(h, h.top, arity, tree', log', nextSeq', buffer')
    <2>1. Entries(h, h.top, h.top) = <<>>
      BY <1>5, EntriesEmpty
    <2>2. QED
      BY <1>1, <1>2, <1>5, <2>1 DEF MemIs
  <1>7. PICK s \in {safe, h.top} : PromiseIs(promised', h, s) /\ (NoLooseWrites => s = h.top)
    <2>1. tree.size = h.at[h.top]
      BY <1>5 DEF TreeIs, Shaped
    <2> DEFINE top == h.top
               seq == nextSeq - 1
    <2>2. MarkFlushed(seq, h.at[top]) /\ top \in 0..h.top
      BY <1>2, <1>5, <2>1
    <2> HIDE DEF top, seq
    <2>3. \E s \in {safe, top} : PromiseIs(promised', h, s)
      BY <1>3, <1>5, <2>2, Marked, SMTT(30)
    <2>4. PICK s \in {safe, top} : PromiseIs(promised', h, s)
      BY <2>3
    <2>5. ASSUME NoLooseWrites PROVE PromiseIs(promised', h, top)
      <3>1. safe <= pend
        BY <1>1, <2>5 DEF Inv, Firm
      <3>2. s <= top /\ top \in 0..h.top
        BY <1>5, <3>1 DEF top
      <3>3. QED
        BY <1>5, <2>4, <3>2, PromiseMore
    <2>6. QED
      BY <2>4, <2>5 DEF top
  <1>8. ASSUME budget.opens > 0
        PROVE  Logs(h, s, wal, wal, metaDisk.seq + 1, LogEnd(pc', h.top, nextSeq'))
    <2> DEFINE from == metaDisk.seq + 1
    <2>1. LogEnd(pc, pend, nextSeq) = h.top /\ LogEnd(pc', h.top, nextSeq') = h.top
      BY <1>2, <1>4, <1>5 DEF LogEnd
    <2>2. Logs(h, safe, wal, walDisk, from, h.top) /\ from \in Nat
      BY <1>3, <1>5, <1>8, <2>1
    <2> HIDE DEF from
    <2>3. s <= h.top
      BY <1>5, <1>7, <2>2, LogsBounds
    <2>4. Logs(h, s, wal, wal, from, h.top)
      BY <1>5, <2>2, <2>3, LogsSync
    <2>5. QED
      BY <2>1, <2>4 DEF from
  <1>9. Inv(h, s, h.top, h.top)'
    <2>0. h.top \in 0..h.top /\ meta.seq < h.top
      BY <1>5
    <2>1. Session(h, s, h.top, h.top)'
      BY <1>1, <1>2, <1>3, <1>4, <1>6, <1>8, <2>0 DEF Session
    <2>2. Data(h, arity, meta, metaDisk, files, filesDisk)
      BY DEF Inv
    <2>3. Firm(s, h.top, up', pc', meta')
      <3>1. NoLooseWrites => meta.seq < h.top /\ s = h.top /\ h.top <= h.top
        BY <1>5, <1>7, <2>0
      <3>2. QED
        BY <1>2, <3>1 DEF Firm
    <2>4. QED
      BY <1>1, <1>2, <1>5, <1>7, <2>1, <2>2, <2>3 DEF Inv
  <1>10. QED
    BY <1>9 DEF IInv

\* The snapshot is over the leaves in the log, the metadata's leaves begin them.
LEMMA SnapFacts ==
    ASSUME NEW h, NEW safe, NEW pend, NEW mid, Inv(h, safe, pend, mid), up = "open",
           pc \in {"ckLevels", "ckRename", "ckDirSync", "ckRemap"}
    PROVE  /\ IsSeq(Upto(h, pend)) /\ Len(Upto(h, pend)) = h.at[pend] /\ h.at[pend] \in Nat
           /\ Begins(First(h, meta.size), Upto(h, pend)) /\ Begins(Upto(h, pend), log)
           /\ Len(First(h, meta.size)) = meta.size /\ meta.size \in Nat /\ meta.size <= h.at[pend]
           /\ TreeIs(job.snap, Upto(h, pend), arity) /\ job.seq = pend - 1 /\ job.level \in Nat
           /\ job.snap.size = h.at[pend] /\ job.snap.depth = CeilLogN(h.at[pend], arity)
           /\ job.snap.depth \in Nat
  <1>1. /\ History(h, arity) /\ arity \in Nat \ {0, 1} /\ pend \in 0..h.top /\ pend \in Nat /\ meta.seq \in Int
        /\ meta.seq < pend /\ h.leaves = log /\ IsSeq(h.leaves) /\ Len(h.leaves) \in Nat
    BY SessionNumbers
  <1>2. MetaIs(meta, h, arity) /\ JobForm(job) /\ SnapJob(h, pend, arity, pc, job, meta, metaDisk)
    BY DEF Inv, Session, Data
  <1>3. meta.size \in Nat /\ meta.size = h.at[meta.seq + 1] /\ meta.seq + 1 \in 0..h.top
    BY <1>1, <1>2, MetaFacts
  <1>4. h.at[pend] \in Nat /\ h.at[pend] <= Len(h.leaves) /\ meta.size <= h.at[pend]
    <2> DEFINE q == meta.seq + 1
    <2>1. q \in 0..h.top /\ q <= pend /\ meta.size = h.at[q]
      BY <1>1, <1>3
    <2> HIDE DEF q
    <2>2. QED
      BY <1>1, <2>1, HistoryFacts
  <1> DEFINE s == h.at[pend]
             new == First(h, s)
  <1>5. new = Upto(h, pend) /\ s \in Nat /\ s <= Len(h.leaves) /\ meta.size <= s
    BY <1>4 DEF Upto
  <1> HIDE DEF s
  <1>6. IsSeq(new) /\ Len(new) = s /\ Len(First(h, meta.size)) = meta.size
    <2>1. meta.size <= Len(h.leaves)
      BY <1>1, <1>3, <1>5
    <2>2. QED
      BY <1>1, <1>3, <1>5, <2>1, FirstIsSeq
  <1>7. Begins(First(h, meta.size), new) /\ Begins(new, h.leaves)
    BY <1>1, <1>3, <1>5, FirstBegins
  <1> HIDE DEF new
  <1>8. TreeIs(job.snap, new, arity) /\ job.seq = pend - 1 /\ job.level \in Nat
    BY <1>2, <1>5 DEF SnapJob, JobForm
  <1>9. job.snap.size = s /\ job.snap.depth = CeilLogN(s, arity)
    BY <1>6, <1>8 DEF TreeIs, Shaped
  <1>10. CeilLogN(s, arity) \in Nat
    BY <1>1, <1>5, DepthBounds
  <1>11. QED
    BY <1>1, <1>3, <1>5, <1>6, <1>7, <1>8, <1>9, <1>10 DEF s

\* A level's chunks are written.
LEMMA LevelsWritten ==
    ASSUME NEW h, NEW safe, NEW pend, NEW mid, Inv(h, safe, pend, mid), CkLevel
    PROVE  IInv'
  <1>1. /\ up = "open" /\ UNCHANGED <<arity, up, nextSeq, log>>
        /\ BudgetIs(budget', up) /\ budget'.opens = budget.opens
    <2>1. Checkpoints
      BY DEF Checkpoints
    <2>2. QED
      BY <2>1, CheckpointKeeps
  <1>2. /\ UNCHANGED <<tree, buffer, done, pc, wal, walDisk, meta, metaDisk, filesDisk, promised>>
        /\ pc = "ckLevels" /\ job.level \in Active(job.snap.depth)
        /\ files' = [files EXCEPT ![job.level] = WithChunks(@, done[job.level], job.snap.levels[job.level])]
        /\ job' = [job EXCEPT !.level = @ + 1]
    BY DEF CkLevel, memVars, walVars
  <1>3. /\ MemIs(h, mid, arity, tree, log, nextSeq, buffer) /\ FlushJob(h, pend, mid, pc, job) /\ JobForm(job)
        /\ DoneIs(done, meta.size, arity) /\ pend \in 0..mid /\ meta.seq < pend
        /\ SnapJob(h, pend, arity, pc, job, meta, metaDisk) /\ FileJob(h, pend, arity, pc, job, files, filesDisk)
        /\ (budget.opens > 0 => Logs(h, safe, wal, walDisk, metaDisk.seq + 1, LogEnd(pc, pend, nextSeq)))
    BY <1>1 DEF Inv, Session
  <1>4. /\ arity \in Nat \ {0, 1} /\ arity \in Arities /\ History(h, arity)
        /\ Data(h, arity, meta, metaDisk, files, filesDisk) /\ PromiseIs(promised, h, safe)
    BY ArityFacts DEF Inv
  <1> DEFINE old == First(h, meta.size)
             new == Upto(h, pend)
             n == arity
  <1>5. /\ Begins(old, new) /\ TreeIs(job.snap, new, n) /\ job.level \in Nat /\ job.snap.depth \in Nat
        /\ Len(old) = meta.size
    BY <1>1, <1>2, SnapFacts
  <1>6. PICK l : l = job.level
    OBVIOUS
  <1>7. l \in Levels /\ l \in Nat
    BY <1>2, <1>5, <1>6, ActiveLevels
  <1>8. FilesAre(files, filesDisk, old, n)
    BY <1>4 DEF Data
  <1> HIDE DEF old, new
  <1> DEFINE file == files[l]
             nodes == job.snap.levels[l]
             from == done[l]
  <1>9. NodesFor(nodes, new, l, n)
    BY <1>4, <1>5, <1>7, TreeNodes
  <1>10. Level(file, old, l, n) /\ from \in Nat /\ from * ChunkSize <= Stored(Len(old), l, n)
    BY <1>3, <1>5, <1>7, <1>8 DEF FilesAre, DoneIs
  <1> DEFINE written == WithChunks(file, from, nodes)
  <1>11. Level(written, new, l, n)
    <2> HIDE DEF file, nodes, from
    <2>1. QED
      BY <1>4, <1>5, <1>7, <1>9, <1>10, LevelWritten
  <1>12. files' = [k \in Levels |-> IF k = l THEN written ELSE files[k]]
    <2>1. files = [k \in Levels |-> files[k]]
      BY <1>8 DEF FilesAre
    <2>2. files' = [files EXCEPT ![l] = written]
      BY <1>2, <1>6
    <2> HIDE DEF written
    <2>3. QED
      BY <2>1, <2>2
  <1> HIDE DEF written
  <1>13. FilesAre(files', filesDisk, old, n)
    <2>1. Level(written, old, l, n)
      BY <1>4, <1>5, <1>7, <1>11, LevelLess
    <2>2. QED
      BY <1>8, <1>12, <2>1 DEF FilesAre
  <1>14. Data(h, n, meta, metaDisk, files', filesDisk)
    BY <1>4, <1>13 DEF Data, old
  <1>15. job' = [by |-> job.by, entries |-> job.entries, seq |-> job.seq, snap |-> job.snap, level |-> l + 1]
    BY <1>2, <1>3, <1>6 DEF JobForm
  <1>16. JobForm(job') /\ FlushJob(h, pend, mid, pc', job') /\ SnapJob(h, pend, n, pc', job', meta, metaDisk)
    <2>1. l + 1 \in Nat
      BY <1>7
    <2>2. JobForm(job') /\ job'.entries = job.entries /\ job'.seq = job.seq /\ job'.snap = job.snap
      BY <1>15, <2>1 DEF JobForm
    <2>3. FlushJob(h, pend, mid, pc', job')
      BY <1>2, <1>3, <2>2 DEF FlushJob
    <2>4. SnapJob(h, pend, n, pc', job', meta, metaDisk)
      BY <1>2, <1>3, <2>2 DEF SnapJob
    <2>5. QED
      BY <2>2, <2>3, <2>4
  <1>17. FileJob(h, pend, n, pc', job', files', filesDisk)
    <2>1. ASSUME NEW k \in Levels, k < l + 1 PROVE Level(files'[k], new, k, n)
      <3>1. CASE k = l
        BY <1>7, <1>11, <1>12, <3>1
      <3>2. CASE k # l
        <4>1. k < l
          BY <1>7, <2>1, <3>2, LeanIMTAssumption DEF Levels
        <4>2. Level(files[k], new, k, n)
          BY <1>2, <1>3, <1>6, <4>1 DEF FileJob, new
        <4>3. QED
          BY <1>12, <3>2, <4>2
      <3>3. QED
        BY <3>1, <3>2
    <2>2. job'.level = l + 1 /\ pc' = "ckLevels"
      BY <1>2, <1>15
    <2>3. QED
      BY <2>1, <2>2 DEF FileJob, new
  <1>18. Inv(h, safe, pend, mid)'
    <2>1. Session(h, safe, pend, mid)'
      BY <1>1, <1>2, <1>3, <1>16, <1>17 DEF Session
    <2>2. Firm(safe, pend, up', pc', meta')
      BY <1>1, <1>2, FirmMoves
    <2>3. QED
      BY <1>1, <1>2, <1>4, <1>14, <2>1, <2>2 DEF Inv
  <1>19. QED
    BY <1>18 DEF IInv

\* The data files are synced.
LEMMA FilesSynced ==
    ASSUME NEW h, NEW safe, NEW pend, NEW mid, Inv(h, safe, pend, mid), CkSyncFiles
    PROVE  IInv'
  <1>1. /\ up = "open" /\ UNCHANGED <<arity, up, nextSeq, log>>
        /\ BudgetIs(budget', up) /\ budget'.opens = budget.opens
    <2>1. Checkpoints
      BY DEF Checkpoints
    <2>2. QED
      BY <2>1, CheckpointKeeps
  <1>2. /\ UNCHANGED <<tree, buffer, done, job, wal, walDisk, meta, metaDisk, files, promised>>
        /\ pc = "ckLevels" /\ job.level \notin Active(job.snap.depth) /\ pc' = "ckRename" /\ filesDisk' = files
    BY DEF CkSyncFiles, memVars, walVars
  <1>3. /\ MemIs(h, mid, arity, tree, log, nextSeq, buffer) /\ FlushJob(h, pend, mid, pc, job) /\ JobForm(job)
        /\ DoneIs(done, meta.size, arity) /\ pend \in 0..mid /\ meta.seq < pend
        /\ SnapJob(h, pend, arity, pc, job, meta, metaDisk) /\ FileJob(h, pend, arity, pc, job, files, filesDisk)
        /\ (budget.opens > 0 => Logs(h, safe, wal, walDisk, metaDisk.seq + 1, LogEnd(pc, pend, nextSeq)))
    BY <1>1 DEF Inv, Session
  <1>4. /\ arity \in Nat \ {0, 1} /\ arity \in Arities /\ History(h, arity)
        /\ Data(h, arity, meta, metaDisk, files, filesDisk) /\ PromiseIs(promised, h, safe)
    BY ArityFacts DEF Inv
  <1> DEFINE old == First(h, meta.size)
             new == Upto(h, pend)
             n == arity
  <1>5. /\ Begins(old, new) /\ IsSeq(new) /\ job.level \in Nat /\ job.snap.depth \in Nat
        /\ job.snap.depth = CeilLogN(Len(new), n)
    BY <1>1, <1>2, SnapFacts
  <1>6. FilesAre(files, filesDisk, old, n)
    BY <1>4 DEF Data
  <1> HIDE DEF old, new
  <1>7. ASSUME NEW l \in Levels PROVE Level(files[l], new, l, n)
    <2>0. l \in Nat /\ MaxDepth \in Nat
      BY LeanIMTAssumption DEF Levels
    <2>1. CASE l < job.level
      BY <1>2, <1>3, <2>1 DEF FileJob, new
    <2>2. CASE ~(l < job.level)
      <3>1. l > job.snap.depth
        <4>1. ~(job.level \in Levels /\ job.level <= job.snap.depth)
          BY <1>2, <1>5, ActiveLevels
        <4>2. job.level \in Levels
          BY <1>5, <2>0, <2>2 DEF Levels
        <4>3. QED
          BY <1>5, <2>0, <2>2, <4>1, <4>2
      <3>2. l > CeilLogN(Len(new), n)
        BY <1>5, <3>1
      <3> DEFINE file == files[l]
      <3>3. IsSeq(file)
        BY <1>6 DEF FilesAre, Level
      <3> HIDE DEF file
      <3>4. Level(file, new, l, n)
        BY <1>4, <1>5, <2>0, <3>2, <3>3, LevelAbove
      <3>5. QED
        BY <3>4 DEF file
    <2>3. QED
      BY <2>1, <2>2
  <1>8. FilesAre(files, files, new, n)
    BY <1>6, <1>7 DEF FilesAre, Level
  <1>9. FilesAre(files, files, old, n)
    <2>1. ASSUME NEW l \in Levels PROVE FileHas(files[l], old, l, n)
      BY <1>6 DEF FilesAre, Level
    <2>2. QED
      BY <1>6, <2>1 DEF FilesAre
  <1>10. Data(h, n, meta, metaDisk, files', filesDisk')
    BY <1>2, <1>4, <1>9 DEF Data, old
  <1>11. /\ FlushJob(h, pend, mid, pc', job') /\ SnapJob(h, pend, n, pc', job', meta, metaDisk)
         /\ FileJob(h, pend, n, pc', job', files', filesDisk')
    <2>1. FlushJob(h, pend, mid, pc', job')
      BY <1>2, <1>3 DEF FlushJob
    <2>2. SnapJob(h, pend, n, pc', job', meta, metaDisk)
      BY <1>2, <1>3 DEF SnapJob
    <2>3. FileJob(h, pend, n, pc', job', files', filesDisk')
      BY <1>2, <1>8 DEF FileJob, new
    <2>4. QED
      BY <2>1, <2>2, <2>3
  <1>12. LogEnd(pc', pend, nextSeq') = LogEnd(pc, pend, nextSeq)
    BY <1>2 DEF LogEnd
  <1>13. Inv(h, safe, pend, mid)'
    <2>1. Session(h, safe, pend, mid)'
      BY <1>1, <1>2, <1>3, <1>11, <1>12 DEF Session
    <2>2. Firm(safe, pend, up', pc', meta')
      BY <1>1, <1>2, FirmMoves
    <2>3. QED
      BY <1>1, <1>2, <1>4, <1>10, <2>1, <2>2 DEF Inv
  <1>14. QED
    BY <1>13 DEF IInv

\* The metadata is published.
LEMMA MetaRenamed ==
    ASSUME NEW h, NEW safe, NEW pend, NEW mid, Inv(h, safe, pend, mid), CkRename
    PROVE  IInv'
  <1>1. /\ up = "open" /\ UNCHANGED <<arity, up, nextSeq, log>>
        /\ BudgetIs(budget', up) /\ budget'.opens = budget.opens
    <2>1. Checkpoints
      BY DEF Checkpoints
    <2>2. QED
      BY <2>1, CheckpointKeeps
  <1>2. /\ UNCHANGED <<tree, buffer, done, job, wal, walDisk, metaDisk, files, filesDisk, promised>>
        /\ pc = "ckRename" /\ pc' = "ckDirSync"
        /\ meta' = [seq |-> job.seq, size |-> job.snap.size, depth |-> job.snap.depth, root |-> job.snap.root]
    BY DEF CkRename, memVars, walVars
  <1>3. /\ MemIs(h, mid, arity, tree, log, nextSeq, buffer) /\ FlushJob(h, pend, mid, pc, job) /\ JobForm(job)
        /\ DoneIs(done, meta.size, arity) /\ pend \in 0..mid /\ meta.seq < pend
        /\ SnapJob(h, pend, arity, pc, job, meta, metaDisk) /\ FileJob(h, pend, arity, pc, job, files, filesDisk)
        /\ (budget.opens > 0 => Logs(h, safe, wal, walDisk, metaDisk.seq + 1, LogEnd(pc, pend, nextSeq)))
    BY <1>1 DEF Inv, Session
  <1>4. /\ arity \in Nat \ {0, 1} /\ arity \in Arities /\ History(h, arity)
        /\ Data(h, arity, meta, metaDisk, files, filesDisk) /\ PromiseIs(promised, h, safe)
    BY ArityFacts DEF Inv
  <1> DEFINE s == h.at[pend]
             n == arity
  <1>5. /\ TreeIs(job.snap, Upto(h, pend), n) /\ job.seq = pend - 1 /\ job.snap.size = s /\ s \in Nat
        /\ job.snap.depth = CeilLogN(s, n) /\ meta.size \in Nat /\ meta.size <= s
    BY <1>1, <1>2, SnapFacts
  <1>6. /\ pend \in Nat /\ pend \in 0..h.top /\ h.top \in Nat /\ metaDisk.seq \in Int /\ metaDisk.seq <= meta.seq
        /\ meta.seq \in Int /\ meta.seq < pend
    BY <1>1, SessionNumbers
  <1>7. /\ meta'.seq = pend - 1 /\ meta'.seq \in -1..h.top - 1 /\ meta'.seq + 1 = pend /\ meta'.size = s
        /\ meta'.depth = CeilLogN(s, n) /\ meta'.root = job.snap.root
        /\ meta' = [seq |-> meta'.seq, size |-> meta'.size, depth |-> meta'.depth, root |-> meta'.root]
    <2>1. /\ meta'.seq = job.seq /\ meta'.size = job.snap.size
          /\ meta'.depth = job.snap.depth /\ meta'.root = job.snap.root
          /\ meta' = [seq |-> meta'.seq, size |-> meta'.size, depth |-> meta'.depth, root |-> meta'.root]
      BY <1>2
    <2>2. pend - 1 \in -1..h.top - 1 /\ pend - 1 + 1 = pend
      BY <1>6
    <2>3. QED
      BY <1>5, <2>1, <2>2
  <1>8. First(h, s) = Upto(h, pend)
    BY DEF Upto
  <1> HIDE DEF s
  <1>9. MetaIs(meta', h, n)
    <2>1. Aligned(n) => job.snap.root = RootOf(First(h, s), n)
      BY <1>5, <1>8 DEF TreeIs
    <2>2. QED
      BY <1>7, <2>1 DEF MetaIs, s
  <1>10. Data(h, n, meta', metaDisk, files, filesDisk)
    <2>1. FilesAre(files, filesDisk, First(h, s), n)
      BY <1>2, <1>3, <1>8 DEF FileJob
    <2>2. metaDisk.seq <= meta'.seq
      BY <1>6, <1>7
    <2>3. MetaIs(metaDisk, h, n)
      BY <1>4 DEF Data
    <2>4. QED
      BY <1>7, <1>9, <2>1, <2>2, <2>3 DEF Data
  <1>11. DoneIs(done, meta'.size, n)
    <2>1. ASSUME NEW l \in Levels PROVE done[l] \in Nat /\ done[l] * ChunkSize <= Stored(s, l, n)
      <3>1. done[l] \in Nat /\ done[l] * ChunkSize <= Stored(meta.size, l, n)
        BY <1>3 DEF DoneIs
      <3>2. l \in Nat /\ ChunkSize \in Nat
        BY LeanIMTAssumption, RotorTreeAssumption DEF Levels
      <3>3. Stored(meta.size, l, n) <= Stored(s, l, n) /\ Stored(meta.size, l, n) \in Nat /\ Stored(s, l, n) \in Nat
        BY <1>4, <1>5, <3>2, StoredAscends, StoredBounds
      <3>4. done[l] * ChunkSize \in Nat
        BY <3>1, <3>2
      <3>5. QED
        BY <3>1, <3>3, <3>4
    <2>2. QED
      BY <1>3, <1>7, <2>1 DEF DoneIs
  <1>12. /\ FlushJob(h, pend, mid, pc', job') /\ SnapJob(h, pend, n, pc', job', meta', metaDisk)
         /\ FileJob(h, pend, n, pc', job', files, filesDisk)
    <2>1. FlushJob(h, pend, mid, pc', job')
      BY <1>2, <1>3 DEF FlushJob
    <2>2. SnapJob(h, pend, n, pc', job', meta', metaDisk)
      BY <1>2, <1>3, <1>7 DEF SnapJob
    <2>3. FileJob(h, pend, n, pc', job', files, filesDisk)
      BY <1>2 DEF FileJob
    <2>4. QED
      BY <2>1, <2>2, <2>3
  <1>13. LogEnd(pc', pend, nextSeq') = LogEnd(pc, pend, nextSeq) /\ meta'.seq < pend
    BY <1>2, <1>6, <1>7 DEF LogEnd
  <1>14. Inv(h, safe, pend, mid)'
    <2>1. Session(h, safe, pend, mid)'
      BY <1>1, <1>2, <1>3, <1>11, <1>12, <1>13 DEF Session
    <2>2. Firm(safe, pend, up', pc', meta')
      <3>1. Firm(safe, pend, "open", "ckRename", meta)
        BY <1>1, <1>2 DEF Inv
      <3>2. QED
        BY <1>1, <1>13, <3>1 DEF Firm
    <2>3. QED
      BY <1>1, <1>2, <1>4, <1>10, <2>1, <2>2 DEF Inv
  <1>15. QED
    BY <1>14 DEF IInv

\* The metadata is durable.
LEMMA MetaSynced ==
    ASSUME NEW h, NEW safe, NEW pend, NEW mid, Inv(h, safe, pend, mid), CkDirSync
    PROVE  IInv'
  <1>1. /\ up = "open" /\ UNCHANGED <<arity, up, nextSeq, log>>
        /\ BudgetIs(budget', up) /\ budget'.opens = budget.opens
    <2>1. Checkpoints
      BY DEF Checkpoints
    <2>2. QED
      BY <2>1, CheckpointKeeps
  <1>2. /\ UNCHANGED <<tree, buffer, done, wal, walDisk, meta, files, filesDisk, promised>>
        /\ pc = "ckDirSync" /\ pc' = "ckRemap" /\ metaDisk' = meta /\ job' = [job EXCEPT !.level = 0]
    BY DEF CkDirSync, memVars, walVars
  <1>3. /\ MemIs(h, mid, arity, tree, log, nextSeq, buffer) /\ FlushJob(h, pend, mid, pc, job) /\ JobForm(job)
        /\ DoneIs(done, meta.size, arity) /\ pend \in 0..mid /\ meta.seq < pend
        /\ SnapJob(h, pend, arity, pc, job, meta, metaDisk) /\ FileJob(h, pend, arity, pc, job, files, filesDisk)
        /\ (budget.opens > 0 => Logs(h, safe, wal, walDisk, metaDisk.seq + 1, LogEnd(pc, pend, nextSeq)))
    BY <1>1 DEF Inv, Session
  <1>4. /\ arity \in Arities /\ History(h, arity)
        /\ Data(h, arity, meta, metaDisk, files, filesDisk) /\ PromiseIs(promised, h, safe)
    BY DEF Inv
  <1>5. job' = [by |-> job.by, entries |-> job.entries, seq |-> job.seq, snap |-> job.snap, level |-> 0]
    BY <1>2, <1>3 DEF JobForm
  <1>6. JobForm(job') /\ job'.seq = job.seq /\ job'.snap = job.snap
    BY <1>5 DEF JobForm
  <1>7. FlushJob(h, pend, mid, pc', job') /\ SnapJob(h, pend, arity, pc', job', meta, metaDisk')
    <2>1. FlushJob(h, pend, mid, pc', job')
      BY <1>2, <1>3 DEF FlushJob
    <2>2. SnapJob(h, pend, arity, pc', job', meta, metaDisk')
      BY <1>2, <1>3, <1>6 DEF SnapJob
    <2>3. QED
      BY <2>1, <2>2
  <1>8. FileJob(h, pend, arity, pc', job', files, filesDisk)
    BY <1>2 DEF FileJob
  <1>9. Data(h, arity, meta, metaDisk', files, filesDisk)
    <2>1. meta.seq <= meta.seq
      BY <1>1, SessionNumbers
    <2>2. QED
      BY <1>2, <1>4, <2>1 DEF Data
  <1>10. ASSUME budget.opens > 0
         PROVE  Logs(h, safe, wal, walDisk, metaDisk'.seq + 1, LogEnd(pc', pend, nextSeq'))
    <2> DEFINE from == metaDisk.seq + 1
               to == meta.seq + 1
               e == LogEnd(pc, pend, nextSeq)
    <2>1. from \in Nat /\ to \in Nat /\ from <= to /\ e \in Nat
      BY <1>1, SessionNumbers
    <2>2. LogEnd(pc', pend, nextSeq') = e
      BY <1>2 DEF LogEnd
    <2>3. Logs(h, safe, wal, walDisk, from, e)
      BY <1>3, <1>10
    <2> HIDE DEF from, to, e
    <2>4. Logs(h, safe, wal, walDisk, to, e)
      BY <2>1, <2>3, LogsFrom
    <2>5. QED
      BY <1>2, <2>2, <2>4 DEF to
  <1>11. Inv(h, safe, pend, mid)'
    <2>1. Session(h, safe, pend, mid)'
      BY <1>1, <1>2, <1>3, <1>6, <1>7, <1>8, <1>10 DEF Session
    <2>2. Firm(safe, pend, up', pc', meta')
      BY <1>1, <1>2, FirmMoves
    <2>3. QED
      BY <1>1, <1>2, <1>4, <1>9, <2>1, <2>2 DEF Inv
  <1>12. QED
    BY <1>11 DEF IInv

\* remap_chunks: the tree reads whole chunks from the files that were just written.
LEMMA ChunksRemapped ==
    ASSUME NEW h, NEW safe, NEW pend, NEW mid, Inv(h, safe, pend, mid), CkRemap
    PROVE  IInv'
  <1>1. /\ up = "open" /\ UNCHANGED <<arity, up, nextSeq, log>>
        /\ BudgetIs(budget', up) /\ budget'.opens = budget.opens
    <2>1. Checkpoints
      BY DEF Checkpoints
    <2>2. QED
      BY <2>1, CheckpointKeeps
  <1>2. PICK l : l = job.level
    OBVIOUS
  <1> DEFINE total == CountChunks(Len(job.snap.levels[l]))
             n == arity
             old == First(h, meta.size)
  <1>3. /\ UNCHANGED <<buffer, pc, wal, walDisk, meta, metaDisk, files, filesDisk, promised>>
        /\ pc = "ckRemap" /\ l \in Active(job.snap.depth) /\ done' = [done EXCEPT ![l] = total]
        /\ tree' = [tree EXCEPT !.levels[l] = Remapped(@, files[l], total)]
        /\ job' = [job EXCEPT !.level = @ + 1]
    BY <1>2 DEF CkRemap, walVars, dataVars
  <1>4. /\ MemIs(h, mid, n, tree, log, nextSeq, buffer) /\ FlushJob(h, pend, mid, pc, job) /\ JobForm(job)
        /\ DoneIs(done, meta.size, n) /\ pend \in 0..mid /\ meta.seq < pend
        /\ SnapJob(h, pend, n, pc, job, meta, metaDisk)
        /\ (budget.opens > 0 => Logs(h, safe, wal, walDisk, metaDisk.seq + 1, LogEnd(pc, pend, nextSeq)))
    BY <1>1 DEF Inv, Session
  <1>5. /\ n \in Nat \ {0, 1} /\ arity \in Arities /\ History(h, n)
        /\ Data(h, n, meta, metaDisk, files, filesDisk) /\ PromiseIs(promised, h, safe)
    BY ArityFacts DEF Inv
  <1>6. /\ Begins(old, Upto(h, pend)) /\ Begins(Upto(h, pend), log) /\ Len(old) = meta.size /\ meta.size \in Nat
        /\ TreeIs(job.snap, Upto(h, pend), n) /\ job.level \in Nat /\ job.snap.depth \in Nat
    BY <1>1, <1>3, SnapFacts
  <1>7. l \in Nat /\ l \in Levels
    BY <1>2, <1>3, <1>6, ActiveLevels
  <1>8. old = Upto(h, pend)
    <2>1. meta.seq + 1 = pend /\ meta.size = h.at[meta.seq + 1]
      <3>1. meta.seq = pend - 1
        BY <1>3, <1>4 DEF SnapJob
      <3>2. pend \in Nat
        BY <1>1, SessionNumbers
      <3>3. meta.size = h.at[meta.seq + 1]
        BY <1>5, MetaFacts DEF Data
      <3>4. QED
        BY <3>1, <3>2, <3>3
    <2>2. QED
      BY <2>1 DEF Upto
  <1>9. total \in Nat /\ total * ChunkSize <= Stored(meta.size, l, n)
    <2> DEFINE len == Len(job.snap.levels[l])
    <2>1. len = Stored(Len(old), l, n)
      BY <1>6, <1>7, <1>8 DEF TreeIs, Shaped
    <2>2. len = Stored(meta.size, l, n) /\ len \in Nat
      BY <1>5, <1>6, <1>7, <2>1, StoredBounds
    <2>3. ChunkSize \in Nat \ {0}
      BY RotorTreeAssumption
    <2>4. ASSUME NEW x \in Nat, NEW c \in Nat \ {0} PROVE x \div c \in Nat /\ (x \div c) * c <= x
      OBVIOUS
    <2>5. QED
      BY <2>2, <2>3, <2>4 DEF CountChunks, WholeChunks
  <1> HIDE DEF total, old
  <1>10. Level(files[l], old, l, n) /\ files = [k \in Levels |-> files[k]]
    BY <1>5, <1>7 DEF Data, FilesAre, old
  <1>11. TreeIs(tree', log, n)
    <2> DEFINE file == files[l]
    <2>1. Level(file, old, l, n) /\ tree' = [tree EXCEPT !.levels[l] = Remapped(@, file, total)]
      BY <1>3, <1>10
    <2>2. TreeIs(tree, log, n) /\ Begins(old, log)
      BY <1>4, <1>6, <1>8 DEF MemIs
    <2> HIDE DEF file
    <2>3. total * ChunkSize <= Stored(Len(old), l, n)
      BY <1>6, <1>9
    <2>4. TreeIs([tree EXCEPT !.levels[l] = Remapped(@, file, total)], log, n)
      BY <1>5, <1>7, <1>9, <2>1, <2>2, <2>3, TreeRemapped
    <2>5. QED
      BY <2>1, <2>4
  <1>12. MemIs(h, mid, n, tree', log', nextSeq', buffer')
    BY <1>1, <1>3, <1>4, <1>11 DEF MemIs
  <1>13. DoneIs(done', meta.size, n)
    <2>1. done = [k \in Levels |-> done[k]]
      BY <1>4 DEF DoneIs
    <2>2. done' = [k \in Levels |-> IF k = l THEN total ELSE done[k]]
      BY <1>3, <2>1
    <2>3. QED
      BY <1>4, <1>9, <2>2 DEF DoneIs
  <1>14. job' = [by |-> job.by, entries |-> job.entries, seq |-> job.seq, snap |-> job.snap, level |-> l + 1]
    BY <1>2, <1>3, <1>4 DEF JobForm
  <1>15. JobForm(job') /\ job'.seq = job.seq /\ job'.snap = job.snap
    <2>1. l + 1 \in Nat
      BY <1>7
    <2>2. QED
      BY <1>14, <2>1 DEF JobForm
  <1>16. /\ FlushJob(h, pend, mid, pc', job') /\ SnapJob(h, pend, n, pc', job', meta, metaDisk)
         /\ FileJob(h, pend, n, pc', job', files, filesDisk)
    <2>1. FlushJob(h, pend, mid, pc', job')
      BY <1>3, <1>4 DEF FlushJob
    <2>2. SnapJob(h, pend, n, pc', job', meta, metaDisk)
      BY <1>3, <1>4, <1>15 DEF SnapJob
    <2>3. FileJob(h, pend, n, pc', job', files, filesDisk)
      BY <1>3 DEF FileJob
    <2>4. QED
      BY <2>1, <2>2, <2>3
  <1>17. Inv(h, safe, pend, mid)'
    <2>1. Session(h, safe, pend, mid)'
      BY <1>1, <1>3, <1>4, <1>12, <1>13, <1>15, <1>16 DEF Session
    <2>2. Firm(safe, pend, up', pc', meta')
      BY <1>1, <1>3, FirmMoves
    <2>3. QED
      BY <1>1, <1>3, <1>5, <2>1, <2>2 DEF Inv
  <1>18. QED
    BY <1>17 DEF IInv

\* The log is cut, and the cut is synced.
LEMMA LogCut ==
    ASSUME NEW h, NEW safe, NEW pend, NEW mid, Inv(h, safe, pend, mid), CkTruncate \/ CkTruncSync
    PROVE  IInv'
  <1>1. /\ up = "open" /\ UNCHANGED <<arity, up, nextSeq, log>>
        /\ BudgetIs(budget', up) /\ budget'.opens = budget.opens
    <2>1. Checkpoints
      BY DEF Checkpoints
    <2>2. QED
      BY <2>1, CheckpointKeeps
  <1>2. /\ UNCHANGED <<tree, buffer, done, job, meta, metaDisk, files, filesDisk, promised>>
        /\ pc \in {"ckRemap", "ckTruncSync"} /\ pc' \in {"ckTruncSync", "ckTail"}
        /\ (pc = "ckRemap" => wal' = <<>> /\ walDisk' = walDisk)
        /\ (pc = "ckTruncSync" => wal' = wal /\ walDisk' = wal)
    BY DEF CkTruncate, CkTruncSync, memVars, dataVars
  <1>3. /\ MemIs(h, mid, arity, tree, log, nextSeq, buffer) /\ FlushJob(h, pend, mid, pc, job) /\ JobForm(job)
        /\ DoneIs(done, meta.size, arity) /\ pend \in 0..mid /\ meta.seq < pend
        /\ SnapJob(h, pend, arity, pc, job, meta, metaDisk)
        /\ (budget.opens > 0 => Logs(h, safe, wal, walDisk, metaDisk.seq + 1, LogEnd(pc, pend, nextSeq)))
    BY <1>1 DEF Inv, Session
  <1>4. FlushJob(h, pend, mid, pc', job')
    BY <1>2, <1>3 DEF FlushJob
  <1>5. SnapJob(h, pend, arity, pc', job', meta, metaDisk) /\ FileJob(h, pend, arity, pc', job', files, filesDisk)
    BY <1>2, NoSnapJob
  <1>6. ASSUME budget.opens > 0
        PROVE  Logs(h, safe, wal', walDisk', metaDisk.seq + 1, LogEnd(pc', pend, nextSeq'))
    <2> DEFINE from == metaDisk.seq + 1
    <2>1. LogEnd(pc', pend, nextSeq') = pend /\ LogEnd(pc, pend, nextSeq) = pend
      BY <1>2 DEF LogEnd
    <2>2. from \in Nat /\ pend \in Nat /\ safe \in Nat /\ metaDisk.seq \in Int
      BY <1>1, SessionNumbers
    <2>3. Logs(h, safe, wal, walDisk, from, pend)
      BY <1>3, <1>6, <2>1
    <2>4. CASE pc = "ckRemap"
      <3>1. metaDisk.seq = pend - 1
        BY <1>3, <2>4 DEF SnapJob
      <3>2. from = pend
        BY <2>2, <3>1
      <3> HIDE DEF from
      <3>3. Logs(h, safe, <<>>, walDisk, pend, pend)
        BY <2>2, <2>3, <3>2, LogsCut
      <3>4. QED
        BY <1>2, <2>1, <2>4, <3>2, <3>3 DEF from
    <2>5. CASE pc = "ckTruncSync"
      <3> HIDE DEF from
      <3>1. safe <= pend
        BY <2>2, <2>3, LogsBounds
      <3>2. Logs(h, safe, wal, wal, from, pend)
        BY <2>2, <2>3, <3>1, LogsSync
      <3>3. QED
        BY <1>2, <2>1, <2>5, <3>2 DEF from
    <2>6. QED
      BY <1>2, <2>4, <2>5
  <1>7. Inv(h, safe, pend, mid)'
    <2>1. Session(h, safe, pend, mid)'
      BY <1>1, <1>2, <1>3, <1>4, <1>5, <1>6 DEF Session
    <2>2. /\ PromiseIs(promised, h, safe) /\ Data(h, arity, meta, metaDisk, files, filesDisk)
          /\ History(h, arity) /\ arity \in Arities
      BY DEF Inv
    <2>3. Firm(safe, pend, up', pc', meta')
      BY <1>1, <1>2, FirmMoves
    <2>4. QED
      BY <1>1, <1>2, <2>1, <2>2, <2>3 DEF Inv
  <1>8. QED
    BY <1>7 DEF IInv

-----------------------------------------------------------------------------
(***************************************************************************)
(* Closing, crashing and opening.                                          *)
(***************************************************************************)
\* The process ends and its files stay.
LEMMA Ends ==
    ASSUME NEW h, NEW safe, NEW pend, NEW mid, Inv(h, safe, pend, mid), Closes \/ Killed
    PROVE  IInv'
  <1>1. /\ up = "open" /\ up' = "down" /\ UNCHANGED <<arity, log, wal, walDisk, meta, metaDisk, files, filesDisk, promised>>
        /\ pc' = "free" /\ job' = NoJob /\ buffer' = <<>> /\ calling' = {}
    BY DEF Closes, Killed, ForgetMemory, fixed, walVars, dataVars
  <1>2. BudgetIs(budget', "down") /\ budget'.opens = budget.opens /\ (Killed => ~NoLooseWrites)
    <2>0. BudgetIs(budget, up)
      BY DEF Inv
    <2>1. CASE Killed
      <3>1. budget["kills"] > 0 /\ budget' = [budget EXCEPT !["kills"] = @ - 1]
        BY <2>1 DEF Killed, Spend
      <3>2. QED
        BY <2>0, <3>1, BudgetSpent
    <2>2. CASE Closes
      <3>1. budget' = budget
        BY <2>2 DEF Closes
      <3>6. Killed => ~NoLooseWrites
        <4>1. HAVE Killed
        <4>2. budget["kills"] > 0 /\ budget' = [budget EXCEPT !["kills"] = @ - 1]
          BY <4>1 DEF Killed, Spend
        <4>3. QED
          BY <2>0, <4>2, BudgetSpent
      <3>2. budget.opens \in Nat /\ (budget.log > 0 => budget.opens + 1 <= 1)
        BY <1>1, <2>0 DEF BudgetIs
      <3>3. budget.log > 0 => budget.opens + 0 <= 1
        BY <3>2
      <3>4. BudgetIs(budget, "down")
        BY <2>0, <3>3 DEF BudgetIs
      <3>5. QED
        BY <3>1, <3>4, <3>6
    <2>3. QED
      BY <2>1, <2>2
  <1> DEFINE e == LogEnd(pc, pend, nextSeq)
             from == metaDisk.seq + 1
  <1>3. /\ arity \in Arities /\ e \in 0..h.top /\ pend \in Nat /\ h.top \in Nat /\ pend <= h.top /\ from \in Nat
        /\ meta.seq \in Int /\ meta.seq < pend /\ metaDisk.seq \in Int /\ metaDisk.seq <= meta.seq
        /\ pend <= nextSeq /\ nextSeq \in Nat
    <2>1. pend <= mid /\ mid <= nextSeq /\ nextSeq = h.top /\ pend \in Nat /\ mid \in Nat /\ h.top \in Nat
      BY <1>1, SessionNumbers
    <2>2. pend <= nextSeq /\ pend <= h.top
      BY <2>1
    <2>3. QED
      BY <1>1, <2>1, <2>2, SessionNumbers
  <1>4. pend <= e /\ meta.seq < e /\ e \in Nat
    <2>1. pend <= e
      BY <1>3 DEF LogEnd
    <2>2. QED
      BY <1>3, <2>1
  <1>5. ASSUME budget.opens > 0 PROVE LeftLog(h, safe, wal, walDisk, meta, metaDisk, e)
    <2>1. Logs(h, safe, wal, walDisk, from, e)
      BY <1>1, <1>5 DEF Inv, Session
    <2>2. ASSUME wal = <<>> PROVE metaDisk.seq = meta.seq
      <3>1. SUFFICES ASSUME metaDisk.seq # meta.seq PROVE FALSE
        OBVIOUS
      <3>2. from < e
        BY <1>3, <1>4, <3>1
      <3> HIDE DEF from, e
      <3>3. wal # <<>>
        BY <1>3, <1>4, <2>1, <3>2, LogsSome
      <3>4. QED
        BY <2>2, <3>3
    <2>3. QED
      BY <1>4, <2>1, <2>2 DEF LeftLog
  <1>6. Resting(h, safe)'
    <2>0. NoLooseWrites => e = safe
      <3>1. HAVE NoLooseWrites
      <3>2. pc = "free"
        BY <1>2, <3>1 DEF Closes
      <3>3. safe = pend
        BY <1>1, <3>1, <3>2 DEF Inv, Firm
      <3>4. QED
        BY <3>2, <3>3 DEF LogEnd
    <2> HIDE DEF e
    <2>3. h.leaves = log
      BY <1>1, SessionNumbers
    <2>1. budget.opens > 0 => \E x \in 0..h.top :
         LeftLog(h, safe, wal, walDisk, meta, metaDisk, x) /\ (NoLooseWrites => x = safe)
      BY <1>3, <1>5, <2>0
    <2>2. QED
      BY <1>1, <1>2, <2>1, <2>3 DEF Resting
  <1>7. Inv(h, safe, pend, mid)'
    <2>1. /\ PromiseIs(promised, h, safe) /\ Data(h, arity, meta, metaDisk, files, filesDisk)
          /\ History(h, arity) /\ arity \in Arities
      BY DEF Inv
    <2>2. Firm(safe, pend, up', pc', meta')
      BY <1>1 DEF Inv, Firm
    <2>3. QED
      BY <1>1, <1>2, <1>6, <2>1, <2>2 DEF Inv
  <1>8. QED
    BY <1>7 DEF IInv

\* Whichever nodes of a data file a power failure took back, the needed ones are there.
LEMMA LevelLeft ==
    ASSUME NEW n, NEW l, NEW leaves, NEW file, NEW disk, Level(file, leaves, l, n), FileHas(disk, leaves, l, n),
           NEW left, NEW Old, left = [k \in 1..Len(file) |-> IF k \in Old THEN file[k] ELSE NodeAt(disk, k)]
    PROVE  Level(left, leaves, l, n)
  <1>1. Len(file) \in Nat /\ left = [k \in 1..Len(file) |-> left[k]]
    BY DEF Level, IsSeq
  <1>2. IsSeq(left) /\ Len(left) = Len(file)
    BY <1>1, TableIsSeq
  <1>3. ASSUME NEW k \in 1..Len(leaves), Needed(l, k, n), k * Power(n, l) <= Len(leaves)
        PROVE  k <= Len(left) /\ left[k] = Layer(leaves, l, n)[k]
    <2>1. k <= Len(file) /\ file[k] = Layer(leaves, l, n)[k]
      BY <1>3 DEF Level, FileHas
    <2>2. k <= Len(disk) /\ disk[k] = Layer(leaves, l, n)[k]
      BY <1>3 DEF FileHas
    <2>3. k \in 1..Len(file)
      BY <1>1, <2>1
    <2>4. NodeAt(disk, k) = disk[k]
      BY <2>2 DEF NodeAt
    <2>5. QED
      BY <1>2, <2>1, <2>2, <2>3, <2>4
  <1>4. QED
    BY <1>2, <1>3 DEF Level, FileHas

LEMMA PowerLost ==
    ASSUME NEW h, NEW safe, NEW pend, NEW mid, Inv(h, safe, pend, mid), PowerFails
    PROVE  IInv'
  <1>1. /\ up = "open" /\ up' = "down" /\ UNCHANGED <<arity, log, promised>>
        /\ pc' = "free" /\ job' = NoJob /\ buffer' = <<>> /\ calling' = {}
        /\ wal' \in WalLeft /\ walDisk' = wal' /\ meta' \in {meta, metaDisk} /\ metaDisk' = meta'
        /\ filesDisk' = files'
    BY DEF PowerFails, ForgetMemory, fixed
  <1>2. BudgetIs(budget', "down") /\ budget'.opens = budget.opens /\ ~NoPower
    <2>1. budget["power"] > 0 /\ budget' = [budget EXCEPT !["power"] = @ - 1] /\ BudgetIs(budget, up)
      BY DEF PowerFails, Spend, Inv
    <2>2. QED
      BY <2>1, BudgetSpent
  <1>3. PICK kept : files' = [l \in Levels |-> [k \in 1..Len(files[l]) |->
                      IF <<l, k>> \in kept THEN files[l][k] ELSE NodeAt(filesDisk[l], k)]]
    BY DEF PowerFails
  <1>4. /\ arity \in Nat \ {0, 1} /\ arity \in Arities /\ History(h, arity) /\ PromiseIs(promised, h, safe)
        /\ MetaIs(meta, h, arity) /\ MetaIs(metaDisk, h, arity) /\ metaDisk.seq <= meta.seq
        /\ FilesAre(files, filesDisk, First(h, meta.size), arity)
    BY ArityFacts DEF Inv, Data
  <1> DEFINE n == arity
  <1>5. MetaIs(meta', h, n) /\ Begins(First(h, meta'.size), First(h, meta.size)) /\ meta'.seq + 1 \in Nat
        /\ metaDisk.seq + 1 <= meta'.seq + 1 /\ meta'.seq \in Int
    <2>1. MetaIs(meta', h, n)
      BY <1>1, <1>4
    <2>2. /\ meta'.seq \in Int /\ meta'.seq + 1 \in 0..h.top /\ meta'.size = h.at[meta'.seq + 1] /\ meta'.size \in Nat
          /\ meta.seq \in Int /\ meta.seq + 1 \in 0..h.top /\ meta.size = h.at[meta.seq + 1] /\ meta.size \in Nat
          /\ metaDisk.seq \in Int /\ h.top \in Nat /\ meta.size <= Len(h.leaves)
      <3> DEFINE m == meta'
      <3>1. MetaIs(m, h, n)
        BY <2>1
      <3> HIDE DEF m
      <3>2. m.seq \in Int /\ m.seq + 1 \in 0..h.top /\ m.size = h.at[m.seq + 1] /\ m.size \in Nat
        BY <1>4, <3>1, MetaFacts
      <3>3. /\ meta.seq \in Int /\ meta.seq + 1 \in 0..h.top /\ meta.size = h.at[meta.seq + 1] /\ meta.size \in Nat
            /\ h.top \in Nat /\ meta.size <= Len(h.leaves) /\ metaDisk.seq \in Int
        BY <1>4, MetaFacts
      <3>4. QED
        BY <3>2, <3>3 DEF m
    <2>3. meta'.seq <= meta.seq /\ metaDisk.seq <= meta'.seq
      BY <1>1, <1>4, <2>2
    <2>4. meta'.size <= meta.size
      <3> DEFINE p == meta'.seq + 1
                 q == meta.seq + 1
      <3>1. p \in 0..h.top /\ q \in 0..h.top /\ p <= q /\ meta'.size = h.at[p] /\ meta.size = h.at[q]
        BY <2>2, <2>3
      <3> HIDE DEF p, q
      <3>2. h.at[p] <= h.at[q]
        BY <1>4, <3>1, HistoryFacts
      <3>3. QED
        BY <3>1, <3>2
    <2>5. Begins(First(h, meta'.size), First(h, meta.size))
      <3> DEFINE s == meta'.size
                 t == meta.size
      <3>1. s \in Nat /\ t \in Nat /\ s <= t /\ t <= Len(h.leaves) /\ IsSeq(h.leaves)
        BY <1>4, <2>2, <2>4 DEF History
      <3> HIDE DEF s, t
      <3>2. Begins(First(h, s), First(h, t))
        BY <3>1, FirstBegins
      <3>3. QED
        BY <3>2 DEF s, t
    <2>6. QED
      BY <2>1, <2>2, <2>3, <2>5
  <1>6. Data(h, n, meta', metaDisk', files', filesDisk')
    <2> DEFINE leaves == First(h, meta.size)
               fewer == First(h, meta'.size)
    <2>1. ASSUME NEW l \in Levels PROVE Level(files'[l], fewer, l, n)
      <3> DEFINE file == files[l]
                 disk == filesDisk[l]
                 left == files'[l]
                 Old == {k \in 1..Len(file) : <<l, k>> \in kept}
      <3>0. l \in Nat
        BY LeanIMTAssumption DEF Levels
      <3>1. Level(file, leaves, l, n) /\ FileHas(disk, leaves, l, n)
        BY <1>4 DEF FilesAre
      <3>2. left = [k \in 1..Len(file) |-> IF k \in Old THEN file[k] ELSE NodeAt(disk, k)]
        <4>1. left = [k \in 1..Len(file) |-> IF <<l, k>> \in kept THEN file[k] ELSE NodeAt(disk, k)]
          BY <1>3, Zenon
        <4>2. \A k \in 1..Len(file) : k \in Old <=> <<l, k>> \in kept
          OBVIOUS
        <4> HIDE DEF file, disk, left, Old
        <4>3. QED
          BY <4>1, <4>2
      <3> HIDE DEF file, disk, left, Old, leaves, fewer
      <3>3. Level(left, leaves, l, n)
        BY <3>1, <3>2, LevelLeft
      <3>4. Begins(fewer, leaves)
        BY <1>5 DEF fewer, leaves
      <3>5. Level(left, fewer, l, n)
        BY <1>4, <3>0, <3>3, <3>4, LevelLess
      <3>6. QED
        BY <3>5 DEF left
    <2>2. files' = [l \in Levels |-> files'[l]]
      BY <1>3
    <2> HIDE DEF fewer
    <2>3. FilesAre(files', files', fewer, n)
      BY <2>1, <2>2 DEF FilesAre, Level
    <2>4. QED
      BY <1>1, <1>5, <2>3 DEF Data, fewer
  <1>7. ASSUME budget.opens > 0
        PROVE  \E x \in 0..h.top : safe <= x /\ LeftLog(h, x, wal', walDisk', meta', metaDisk', x)
    <2> DEFINE from == metaDisk.seq + 1
               to == meta'.seq + 1
               e == LogEnd(pc, pend, nextSeq)
               w == wal'
    <2>1. h.top \in Nat /\ safe \in Nat /\ from \in Nat /\ e \in Nat /\ meta.seq \in Int
      BY <1>1, SessionNumbers
    <2>2. Logs(h, safe, wal, walDisk, from, e)
      BY <1>1, <1>7 DEF Inv, Session
    <2>3. w \in WalLeft /\ to \in Nat /\ from <= to
      BY <1>1, <1>5
    <2> HIDE DEF from, to, e, w
    <2>4. Logs(h, safe, wal, walDisk, to, e)
      BY <2>1, <2>2, <2>3, LogsFrom
    <2>5. PICK x \in 0..h.top : safe <= x /\ (Logs(h, x, w, w, to, x) \/ TornLog(h, x, w, w, to, x))
      BY <2>1, <2>3, <2>4, LogsLeft
    <2>6. Steady => meta'.seq < x
      <3>1. HAVE Steady
      <3>2. meta.seq < safe
        BY <1>2, <3>1 DEF Inv, Firm, Steady
      <3>3. meta'.seq <= meta.seq
        BY <1>1, <1>4, <2>1
      <3>4. QED
        BY <1>5, <2>1, <2>5, <3>2, <3>3
    <2>7. LeftLog(h, x, wal', walDisk', meta', metaDisk', x)
      BY <1>1, <2>5, <2>6 DEF LeftLog, to, w
    <2>8. QED
      BY <2>5, <2>7
  <1>8. PICK s \in 0..h.top : /\ safe <= s
                              /\ budget.opens > 0 => LeftLog(h, s, wal', walDisk', meta', metaDisk', s)
    <2>1. safe \in 0..h.top /\ safe <= safe
      BY <1>4 DEF PromiseIs
    <2>2. QED
      BY <1>7, <2>1
  <1>9. Resting(h, s)'
    <2>1. h.leaves = log
      BY <1>1, SessionNumbers
    <2>2. QED
      BY <1>1, <1>2, <1>8, <2>1 DEF Resting
  <1>10. PromiseIs(promised, h, s)
    <2>1. s \in 0..h.top /\ safe <= s /\ History(h, arity) /\ PromiseIs(promised, h, safe)
      BY <1>4, <1>8
    <2>2. QED
      BY <2>1, PromiseMore
  <1>11. Firm(s, pend, up', pc', meta')
    <2>1. ASSUME NoLooseWrites PROVE meta'.seq < s
      <3>1. meta.seq < safe /\ safe \in Nat /\ s \in Nat /\ meta.seq \in Int
        BY <1>1, <2>1, SessionNumbers DEF Inv, Firm
      <3>2. meta'.seq <= meta.seq
        BY <1>1, <1>4, <3>1
      <3>3. QED
        <4> DEFINE x == meta'.seq
        <4>1. x \in Int /\ x <= meta.seq /\ safe <= s
          BY <1>5, <1>8, <3>2
        <4> HIDE DEF x
        <4>2. x < s
          BY <3>1, <4>1
        <4>3. QED
          BY <4>2 DEF x
    <2>2. QED
      BY <1>1, <2>1 DEF Firm
  <1>12. Inv(h, s, pend, mid)'
    BY <1>1, <1>2, <1>4, <1>6, <1>9, <1>10, <1>11 DEF Inv
  <1>13. QED
    BY <1>12 DEF IInv

\* What open makes of the log: the frames it keeps and the number it goes on with.
KeptLog(w) == SubSeq(w, 1, ValidFrames(w))
KeptDisk(w, wd) == IF ValidFrames(w) < Len(w) THEN KeptLog(w) ELSE wd
NextNumber(w, m) == IF ValidFrames(w) > 0 THEN w[ValidFrames(w)].seq + 1 ELSE m.seq + 1

\* The kept frames end before number x and bring what the checkpoint lacks.
RunRecovered(h, safe, w, wd, md, x) ==
    /\ x \in 0..h.top /\ safe <= x
    /\ Replayed(w) = SubSeq(h.leaves, h.at[meta.seq + 1] + 1, h.at[x])
    /\ Logs(h, safe, w, wd, md.seq + 1, x)

\* The end of a recovered run: that of the log, or that of the checkpoint when there is
\* nothing in the log.
EndOf(a, e, m) == IF a < e THEN e ELSE m

\* The log starts with the entries from number a to before e.
StartsWith(w, h, a, e) == \A k \in 1..e - a : w[k] = Entry(h, a + k - 1)

LEMMA NumberOfRun ==
    ASSUME NEW h, NEW a \in Nat, NEW e \in Nat, a <= e, NEW w, NEW m, ValidFrames(w) = e - a,
           StartsWith(w, h, a, e)
    PROVE  NextNumber(w, m) = EndOf(a, e, m.seq + 1)
  <1>1. CASE a < e
    <2> DEFINE k == e - a
    <2>1. k \in 1..e - a /\ a + k - 1 = e - 1 /\ k > 0
      BY <1>1
    <2>2. w[k] = Entry(h, e - 1)
      BY <2>1 DEF StartsWith
    <2>3. Entry(h, e - 1).seq = e - 1
      BY EntryParts
    <2>4. NextNumber(w, m) = e - 1 + 1
      BY <2>1, <2>2, <2>3 DEF NextNumber
    <2>5. QED
      BY <1>1, <2>4 DEF EndOf
  <1>2. CASE a = e
    BY <1>2 DEF NextNumber, EndOf
  <1>3. QED
    BY <1>1, <1>2

LEMMA ReplayOfRun ==
    ASSUME NEW h, NEW n, History(h, n), NEW a \in Nat, NEW e \in 0..h.top, a <= e, NEW m \in 0..h.top, a <= m,
           meta.seq \in Int, meta.seq + 1 = m, m <= EndOf(a, e, m)
    PROVE  Replayed(Entries(h, a, e)) = SubSeq(h.leaves, h.at[m] + 1, h.at[EndOf(a, e, m)])
  <1>1. CASE a < e
    <2>1. EndOf(a, e, m) = e /\ m <= e /\ m \in Nat
      BY <1>1 DEF EndOf
    <2>2. QED
      BY <2>1, ReplayedEntries
  <1>2. CASE ~(a < e)
    <2>1. a = e /\ EndOf(a, e, m) = m
      BY <1>2 DEF EndOf, History
    <2>2. Entries(h, a, e) = <<>>
      BY <2>1, EntriesEmpty
    <2> DEFINE s == h.at[m]
    <2>3. s \in Nat
      BY HistoryFacts
    <2> HIDE DEF s
    <2>4. SubSeq(h.leaves, s + 1, s) = <<>>
      BY <2>3, SubSeqNone
    <2>5. QED
      BY <2>1, <2>2, <2>4, ReplayedNone DEF s
  <1>3. QED
    BY <1>1, <1>2

\* An empty log stands for the end of the checkpoint.
LEMMA EmptyLogMoves ==
    ASSUME NEW h, NEW safe \in Nat, NEW wd, NEW e \in Nat, NEW m \in Nat, m <= h.top,
           NEW a \in 0..m, NEW c \in 0..m, NEW b \in 0..e, a = e, LogRun(h, safe, <<>>, wd, e, a, b, c)
    PROVE  Logs(h, safe, <<>>, wd, m, m)
  <1>1. Entries(h, m, m) = <<>> /\ m \in 0..m
    BY EntriesEmpty
  <1>2. c <= b /\ safe <= b /\ b <= m /\ b \in 0..m /\ safe <= m /\ wd = Entries(h, c, b)
    BY DEF LogRun
  <1>3. CASE c = b
    <2>1. wd = Entries(h, m, m)
      BY <1>1, <1>2, <1>3, EntriesEmpty
    <2>2. LogRun(h, safe, <<>>, wd, m, m, m, m)
      BY <1>1, <1>2, <2>1 DEF LogRun
    <2>3. QED
      BY <1>1, <2>2 DEF Logs
  <1>4. CASE c # b
    <2>1. LogRun(h, safe, <<>>, wd, m, m, b, c)
      BY <1>1, <1>2, <1>4 DEF LogRun
    <2>2. QED
      BY <1>1, <1>2, <2>1 DEF Logs
  <1>5. QED
    BY <1>3, <1>4

\* Recovery from a log that ends with a whole frame.
LEMMA RunIsRecovered ==
    ASSUME NEW h, NEW n \in Nat \ {0, 1}, History(h, n), NEW safe \in Nat, MetaIs(meta, h, n), MetaIs(metaDisk, h, n),
           metaDisk.seq <= meta.seq, NEW e \in 0..h.top, Logs(h, safe, wal, walDisk, metaDisk.seq + 1, e),
           wal = <<>> => metaDisk.seq = meta.seq, Steady => wal = <<>> \/ meta.seq < e
    PROVE  /\ ~(ValidFrames(wal) + 1 < Len(wal)) /\ (Steady => meta.seq < NextNumber(wal, meta))
           /\ NextNumber(wal, meta) \in {e, meta.seq + 1}
           /\ meta.seq < NextNumber(wal, meta) =>
                RunRecovered(h, safe, KeptLog(wal), KeptDisk(wal, walDisk), metaDisk, NextNumber(wal, meta))
           /\ meta.seq < NextNumber(wal, meta) \/ Replayed(KeptLog(wal)) = <<>>
  <1> DEFINE from == metaDisk.seq + 1
             m == meta.seq + 1
  <1>0. /\ meta.seq \in Int /\ metaDisk.seq \in Int /\ from \in Nat /\ m \in Nat /\ from <= m /\ h.top \in Nat
        /\ m \in 0..h.top /\ e \in Nat
    <2>1. /\ meta.seq \in Int /\ metaDisk.seq \in Int /\ from \in Nat /\ m \in Nat /\ h.top \in Nat /\ m \in 0..h.top
      BY MetaFacts
    <2>2. QED
      BY <2>1
  <1>1. PICK a \in 0..from : \E c \in 0..from : \E b \in 0..e : LogRun(h, safe, wal, walDisk, e, a, b, c)
    BY DEF Logs
  <1>2. PICK c \in 0..from : \E b \in 0..e : LogRun(h, safe, wal, walDisk, e, a, b, c)
    BY <1>1
  <1>3. PICK b \in 0..e : LogRun(h, safe, wal, walDisk, e, a, b, c)
    BY <1>2
  <1>4. a \in Nat /\ a <= e /\ safe <= e /\ wal = Entries(h, a, e) /\ a <= m /\ a \in 0..m /\ c \in 0..m
    BY <1>0, <1>3 DEF LogRun
  <1>5. /\ IsSeq(Entries(h, a, e)) /\ Len(Entries(h, a, e)) = e - a
        /\ \A k \in 1..e - a : Entries(h, a, e)[k] = Entry(h, a + k - 1)
    BY <1>0, <1>4, EntriesIsSeq
  <1>6. ValidFrames(wal) = e - a
    BY <1>0, <1>4, ValidEntries
  <1>7. Len(wal) = e - a /\ \A k \in 1..e - a : wal[k] = Entry(h, a + k - 1)
    BY <1>4, <1>5
  <1>8. KeptLog(wal) = wal /\ KeptDisk(wal, walDisk) = walDisk /\ ~(ValidFrames(wal) + 1 < Len(wal))
    <2>1. PICK k \in Nat : k = e - a
      BY <1>0, <1>4
    <2>2. a \in Nat /\ e \in Nat /\ a <= e /\ k \in 0..e - a /\ a + k = e
      BY <1>0, <1>4, <2>1
    <2>3. SubSeq(Entries(h, a, e), 1, k) = Entries(h, a, a + k)
      BY ONLY <2>2, EntriesCut, Zenon
    <2>4. ~(k < k) /\ ~(k + 1 < k)
      OBVIOUS
    <2>5. QED
      BY <1>4, <1>6, <1>7, <2>1, <2>2, <2>3, <2>4 DEF KeptLog, KeptDisk
  <1> DEFINE x == EndOf(a, e, m)
  <1>9. NextNumber(wal, meta) = x
    <2>1. StartsWith(wal, h, a, e)
      BY <1>7 DEF StartsWith
    <2>2. NextNumber(wal, meta) = EndOf(a, e, meta.seq + 1)
      BY <1>0, <1>4, <1>6, <2>1, NumberOfRun
    <2>3. QED
      BY <2>2
  <1>10. wal = <<>> <=> ~(a < e)
    <2>1. CASE a < e
      <3>1. Len(<<>>) = 0
        OBVIOUS
      <3>2. QED
        BY <1>0, <1>4, <1>7, <2>1, <3>1
    <2>2. CASE ~(a < e)
      BY <1>0, <1>4, <2>2, EntriesEmpty
    <2>3. QED
      BY <2>1, <2>2
  <1>11. Steady => meta.seq < x
    BY <1>0, <1>10 DEF EndOf
  <1>12. ASSUME meta.seq < x PROVE RunRecovered(h, safe, wal, walDisk, metaDisk, x)
    <2>1. x \in 0..h.top /\ m <= x /\ x \in Nat /\ safe <= x
      BY <1>0, <1>4, <1>12 DEF EndOf
    <2>2. Replayed(Entries(h, a, e)) = SubSeq(h.leaves, h.at[m] + 1, h.at[x])
      <3> HIDE DEF m
      <3>1. meta.seq + 1 = m
        BY DEF m
      <3>2. QED
        BY <1>0, <1>4, <2>1, <3>1, ReplayOfRun, SMTT(30)
    <2>3. Logs(h, safe, wal, walDisk, from, x)
      <3>1. CASE a < e
        BY <3>1 DEF EndOf
      <3>2. CASE ~(a < e)
        <4>1. a = e /\ x = m /\ wal = <<>> /\ from = m /\ m <= h.top
          BY <1>0, <1>4, <1>10, <3>2 DEF EndOf
        <4>2. LogRun(h, safe, <<>>, walDisk, e, a, b, c)
          BY <1>3, <4>1
        <4> HIDE DEF m, from, x
        <4>3. Logs(h, safe, <<>>, walDisk, m, m)
          BY <1>0, <1>4, <4>1, <4>2, EmptyLogMoves
        <4>4. QED
          BY <4>1, <4>3
      <3>3. QED
        BY <3>1, <3>2
    <2>4. QED
      BY <1>4, <2>1, <2>2, <2>3 DEF RunRecovered
  <1>13. x \in {e, meta.seq + 1}
    BY DEF EndOf
  <1>14. meta.seq < x \/ Replayed(wal) = <<>>
    <2>1. SUFFICES ASSUME ~(meta.seq < x) PROVE Replayed(wal) = <<>>
      OBVIOUS
    <2>2. e <= meta.seq + 1
      BY <1>0, <2>1 DEF EndOf
    <2>3. QED
      BY <1>0, <1>4, <2>2, ReplayedOlder
  <1> HIDE DEF x
  <1>15. QED
    BY <1>8, <1>9, <1>11, <1>12, <1>13, <1>14

\* Recovery from a log whose last frame is torn.
LEMMA TornIsRecovered ==
    ASSUME NEW h, NEW n \in Nat \ {0, 1}, History(h, n), NEW safe \in Nat, MetaIs(meta, h, n), metaDisk = meta,
           NEW e \in 0..h.top, TornLog(h, safe, wal, walDisk, meta.seq + 1, e),
           Steady => wal = <<>> \/ meta.seq < e
    PROVE  /\ ~(ValidFrames(wal) + 1 < Len(wal)) /\ (Steady => meta.seq < NextNumber(wal, meta))
           /\ NextNumber(wal, meta) \in {e, meta.seq + 1}
           /\ meta.seq < NextNumber(wal, meta) =>
                RunRecovered(h, safe, KeptLog(wal), KeptDisk(wal, walDisk), metaDisk, NextNumber(wal, meta))
           /\ meta.seq < NextNumber(wal, meta) \/ Replayed(KeptLog(wal)) = <<>>
  <1> DEFINE m == meta.seq + 1
  <1>0. meta.seq \in Int /\ m \in Nat /\ h.top \in Nat /\ m \in 0..h.top /\ e \in Nat
    <2>1. meta.seq \in Int /\ m \in Nat /\ h.top \in Nat /\ m \in 0..h.top
      BY MetaFacts
    <2>2. QED
      BY <2>1
  <1>1. PICK a \in 0..m : a <= e /\ wal = Append(Entries(h, a, e), Torn)
    BY DEF TornLog
  <1>2. a \in Nat /\ a <= m /\ safe <= e
    BY <1>0, <1>1 DEF TornLog
  <1>3. /\ ValidFrames(wal) = e - a /\ Len(wal) = e - a + 1 /\ SubSeq(wal, 1, e - a) = Entries(h, a, e)
    BY <1>0, <1>1, <1>2, ValidEntries
  <1>4. \A k \in 1..e - a : wal[k] = Entry(h, a + k - 1)
    <2>1. /\ IsSeq(Entries(h, a, e)) /\ Len(Entries(h, a, e)) = e - a
          /\ \A k \in 1..e - a : Entries(h, a, e)[k] = Entry(h, a + k - 1)
      BY <1>0, <1>1, <1>2, EntriesIsSeq
    <2> DEFINE s == Entries(h, a, e)
    <2> HIDE DEF s
    <2>2. \A k \in 1..Len(s) : Append(s, Torn)[k] = s[k]
      BY <2>1, AppendIsSeq DEF s
    <2>3. QED
      BY <1>1, <2>1, <2>2 DEF s
  <1>5. KeptLog(wal) = Entries(h, a, e) /\ KeptDisk(wal, walDisk) = Entries(h, a, e)
        /\ ~(ValidFrames(wal) + 1 < Len(wal))
    <2>1. e - a < e - a + 1 /\ ~(e - a + 1 < e - a + 1)
      BY <1>0, <1>2
    <2>2. QED
      BY <1>3, <2>1 DEF KeptLog, KeptDisk
  <1> DEFINE x == EndOf(a, e, m)
  <1>6. NextNumber(wal, meta) = x
    <2>1. StartsWith(wal, h, a, e)
      BY <1>4 DEF StartsWith
    <2>2. NextNumber(wal, meta) = EndOf(a, e, meta.seq + 1)
      BY <1>0, <1>1, <1>2, <1>3, <2>1, NumberOfRun
    <2>3. QED
      BY <2>2
  <1>7. wal # <<>>
    <2>1. Len(<<>>) = 0
      OBVIOUS
    <2>2. QED
      BY <1>0, <1>1, <1>2, <1>3, <2>1, SMTT(30)
  <1>8. Steady => meta.seq < x
    BY <1>0, <1>7 DEF EndOf
  <1>9. ASSUME meta.seq < x PROVE RunRecovered(h, safe, Entries(h, a, e), Entries(h, a, e), meta, x)
    <2>1. x \in 0..h.top /\ m <= x /\ x \in Nat /\ safe <= x
      BY <1>0, <1>1, <1>2, <1>9 DEF EndOf
    <2>2. Replayed(Entries(h, a, e)) = SubSeq(h.leaves, h.at[m] + 1, h.at[x])
      <3> HIDE DEF m
      <3>1. meta.seq + 1 = m
        BY DEF m
      <3>2. QED
        BY <1>0, <1>1, <1>2, <2>1, <3>1, ReplayOfRun
    <2>3. Logs(h, safe, Entries(h, a, e), Entries(h, a, e), m, x)
      <3>1. CASE a < e
        <4>1. x = e
          BY <3>1 DEF EndOf
        <4> HIDE DEF m, x
        <4>2. QED
          BY <1>0, <1>1, <1>2, <4>1, LogsAre
      <3>2. CASE ~(a < e)
        <4>1. a = e /\ x = m /\ m \in 0..m
          BY <1>0, <1>1, <1>2, <3>2 DEF EndOf
        <4> HIDE DEF m, x
        <4>2. Entries(h, a, e) = Entries(h, m, m)
          BY <1>0, <1>2, <4>1, EntriesEmpty
        <4>3. Logs(h, safe, Entries(h, m, m), Entries(h, m, m), m, m)
          BY <1>0, <2>1, <4>1, LogsAre
        <4>4. QED
          BY <4>1, <4>2, <4>3
      <3>3. QED
        BY <3>1, <3>2
    <2>4. QED
      BY <2>1, <2>2, <2>3 DEF RunRecovered
  <1>10. x \in {e, meta.seq + 1}
    BY DEF EndOf
  <1>11. meta.seq < x \/ Replayed(Entries(h, a, e)) = <<>>
    <2>1. SUFFICES ASSUME ~(meta.seq < x) PROVE Replayed(Entries(h, a, e)) = <<>>
      OBVIOUS
    <2>2. e <= meta.seq + 1
      BY <1>0, <2>1 DEF EndOf
    <2>3. QED
      BY <1>0, <1>1, <1>2, <2>2, ReplayedOlder
  <1> HIDE DEF x
  <1>12. QED
    BY <1>5, <1>6, <1>8, <1>9, <1>10, <1>11

LEMMA LoadedData ==
    ASSUME arity \in Nat \ {0, 1}, NEW h, History(h, arity), Data(h, arity, meta, metaDisk, files, filesDisk)
    PROVE  TreeIs(Loaded, First(h, meta.size), arity) /\ (Aligned(arity) => RecomputeRoot(Loaded) = meta.root)
  <1> DEFINE leaves == First(h, meta.size)
  <1>1. MetaIs(meta, h, arity) /\ FilesAre(files, filesDisk, leaves, arity)
    BY DEF Data
  <1>2. /\ IsSeq(leaves) /\ Len(leaves) = meta.size /\ meta.depth = CeilLogN(meta.size, arity)
        /\ meta.depth <= MaxDepth
    BY <1>1, MetaFacts
  <1>3. Aligned(arity) => meta.root = RootOf(leaves, arity)
    BY <1>1 DEF MetaIs
  <1>4. \A l \in Levels : Level(files[l], leaves, l, arity)
    BY <1>1 DEF FilesAre
  <1> HIDE DEF leaves
  <1>5. TreeIs(Loaded, leaves, arity) /\ (Aligned(arity) => RecomputeRoot(Loaded) = meta.root)
    BY <1>2, <1>3, <1>4, LoadedTree
  <1>6. QED
    BY <1>5 DEF leaves

\* Replay adds the leaves of the entries behind the checkpoint.
LEMMA LeavesReplayed ==
    ASSUME NEW h, IsSeq(h.leaves), NEW s \in Nat, NEW t \in Nat, s <= t, t <= Len(h.leaves)
    PROVE  /\ IsSeq(SubSeq(h.leaves, s + 1, t)) /\ Len(SubSeq(h.leaves, s + 1, t)) = t - s
           /\ First(h, s) \o SubSeq(h.leaves, s + 1, t) = First(h, t)
  <1> DEFINE all == h.leaves
             a == s + 1
             o == 1
  <1>0. Len(all) \in Nat
    BY DEF IsSeq
  <1>1. a \in Nat \ {0} /\ a <= t + 1 /\ t - a + 1 = t - s /\ 0 \in Nat /\ 0 <= s /\ 0 + 1 = o /\ IsSeq(all) /\ t <= Len(all)
    OBVIOUS
  <1>2. SubSeq(all, 0 + 1, s) \o SubSeq(all, s + 1, t) = SubSeq(all, 0 + 1, t)
    <2> HIDE DEF all, a
    <2>1. QED
      BY <1>0, <1>1, SubSeqJoin
  <1>3. First(h, s) \o SubSeq(all, s + 1, t) = First(h, t)
    BY <1>1, <1>2 DEF First
  <1> HIDE DEF all, a
  <1>4. IsSeq(SubSeq(all, a, t)) /\ Len(SubSeq(all, a, t)) = t - a + 1
    BY <1>0, <1>1, SubSeqIsSeq
  <1>5. QED
    BY <1>1, <1>3, <1>4 DEF all, a

LEMMA TreeReplayed ==
    ASSUME arity \in Nat \ {0, 1}, NEW t, NEW leaves, TreeIs(t, leaves, arity), NEW more, IsSeq(more),
           CeilLogN(Len(leaves) + Len(more), arity) <= MaxDepth
    PROVE  TreeIs(IF more = <<>> THEN t ELSE InsertMany(t, more), leaves \o more, arity)
  <1>0. Len(more) \in Nat /\ IsSeq(leaves) /\ Len(leaves) \in Nat
    BY DEF TreeIs, Shaped, IsSeq
  <1>1. CASE more = <<>>
    <2>1. leaves \o more = leaves
      <3> DEFINE cat == leaves \o more
      <3>1. Len(more) = 0
        BY <1>1, EmptyIsSeq
      <3>2. /\ IsSeq(cat) /\ Len(cat) = Len(leaves) + Len(more)
            /\ \A k \in 1..Len(leaves) + Len(more) : cat[k] = IF k <= Len(leaves) THEN leaves[k] ELSE more[k - Len(leaves)]
        BY <1>0, ConcatIsSeq
      <3> HIDE DEF cat
      <3>3. Len(cat) = Len(leaves) /\ \A k \in 1..Len(leaves) : cat[k] = leaves[k]
        BY <1>0, <3>1, <3>2
      <3>4. cat = leaves
        BY <1>0, <3>2, <3>3, SeqEqual2
      <3>5. QED
        BY <3>4 DEF cat
    <2>2. QED
      BY <1>1, <2>1
  <1>2. CASE more # <<>>
    <2>1. Len(more) > 0
      <3>1. Len(more) = 0 => more = <<>>
        <4>1. HAVE Len(more) = 0
        <4> DEFINE none == <<>>
        <4>2. IsSeq(none) /\ Len(none) = 0
          BY EmptyIsSeq
        <4> HIDE DEF none
        <4>3. more = none
          BY <4>1, <4>2, SeqEqual2
        <4>4. QED
          BY <4>3 DEF none
      <3>2. QED
        BY <1>0, <1>2, <3>1
    <2>2. TreeIs(InsertMany(t, more), leaves \o more, arity)
      BY <2>1, TreeGrown
    <2>3. QED
      BY <1>2, <2>2
  <1>3. QED
    BY <1>1, <1>2

LEMMA TreeRecovered ==
    ASSUME arity \in Nat \ {0, 1}, NEW h, History(h, arity), Data(h, arity, meta, metaDisk, files, filesDisk),
           NEW x \in 0..h.top, meta.seq < x, NEW s, s = h.at[meta.seq + 1], NEW t, t = h.at[x],
           NEW more, more = SubSeq(h.leaves, s + 1, t)
    PROVE  TreeIs(IF more = <<>> THEN Loaded ELSE InsertMany(Loaded, more), First(h, t), arity)
  <1> DEFINE old == First(h, s)
             m == meta.seq + 1
  <1>1. MetaIs(meta, h, arity)
    BY DEF Data
  <1>2. /\ meta.seq \in Int /\ m \in 0..h.top /\ s = meta.size /\ s \in Nat
        /\ s <= Len(h.leaves) /\ IsSeq(old) /\ Len(old) = s /\ h.top \in Nat
    BY <1>1, MetaFacts
  <1>3. t \in Nat /\ t <= Len(h.leaves) /\ Len(h.leaves) \in Nat
    BY HistoryFacts
  <1>4. s <= t
    <2>1. m <= x
      BY <1>2
    <2>2. s = h.at[m]
      OBVIOUS
    <2> HIDE DEF m
    <2>3. m \in 0..h.top /\ History(h, arity)
      BY <1>2
    <2>4. \A j \in 0..h.top : m <= j => h.at[m] <= h.at[j]
      BY <2>3, HistoryFacts
    <2>5. h.at[m] <= h.at[x]
      BY <2>1, <2>4, Zenon
    <2>6. QED
      BY <2>2, <2>5, Zenon
  <1>5. IsSeq(h.leaves) /\ CeilLogN(Len(h.leaves), arity) <= MaxDepth
    BY DEF History
  <1>6. IsSeq(more) /\ Len(more) = t - s /\ old \o more = First(h, t)
    <2>1. /\ IsSeq(SubSeq(h.leaves, s + 1, t)) /\ Len(SubSeq(h.leaves, s + 1, t)) = t - s
          /\ First(h, s) \o SubSeq(h.leaves, s + 1, t) = First(h, t)
      BY ONLY <1>2, <1>3, <1>4, <1>5, LeavesReplayed, Zenon
    <2>2. QED
      BY <2>1, Zenon
  <1>7. TreeIs(Loaded, old, arity)
    BY <1>2, LoadedData
  <1> HIDE DEF old
  <1>8. Len(old) + Len(more) = t
    BY <1>2, <1>3, <1>6
  <1>9. CeilLogN(Len(old) + Len(more), arity) <= MaxDepth
    <2>1. CeilLogN(t, arity) \in Nat /\ CeilLogN(Len(h.leaves), arity) \in Nat
          /\ CeilLogN(t, arity) <= CeilLogN(Len(h.leaves), arity)
      BY <1>3, DepthBounds, DepthAscends
    <2>2. MaxDepth \in Nat
      BY LeanIMTAssumption
    <2>3. CeilLogN(t, arity) <= MaxDepth
      <3> DEFINE p == CeilLogN(t, arity)
                 q == CeilLogN(Len(h.leaves), arity)
      <3>1. p \in Nat /\ q \in Nat /\ p <= q /\ q <= MaxDepth
        BY <1>5, <2>1
      <3> HIDE DEF p, q
      <3>2. p <= MaxDepth
        BY <2>2, <3>1
      <3>3. QED
        BY <3>2 DEF p
    <2>4. QED
      BY <1>8, <2>3, Zenon
  <1>10. QED
    BY <1>6, <1>7, <1>9, TreeReplayed

\* What open keeps of the log, from either kind of end.
LEMMA LogIsRecovered ==
    ASSUME NEW h, NEW n \in Nat \ {0, 1}, History(h, n), NEW safe \in Nat,
           Data(h, n, meta, metaDisk, files, filesDisk),
           NEW e \in 0..h.top, LeftLog(h, safe, wal, walDisk, meta, metaDisk, e)
    PROVE  /\ ~(ValidFrames(wal) + 1 < Len(wal)) /\ (Steady => meta.seq < NextNumber(wal, meta))
           /\ NextNumber(wal, meta) \in {e, meta.seq + 1}
           /\ meta.seq < NextNumber(wal, meta) =>
                RunRecovered(h, safe, KeptLog(wal), KeptDisk(wal, walDisk), metaDisk, NextNumber(wal, meta))
           /\ meta.seq < NextNumber(wal, meta) \/ Replayed(KeptLog(wal)) = <<>>
  <1>1. MetaIs(meta, h, n) /\ MetaIs(metaDisk, h, n) /\ metaDisk.seq <= meta.seq
    BY DEF Data
  <1>2. (wal = <<>> => metaDisk.seq = meta.seq) /\ (Steady => wal = <<>> \/ meta.seq < e)
    BY DEF LeftLog
  <1>3. CASE Logs(h, safe, wal, walDisk, metaDisk.seq + 1, e)
    BY <1>1, <1>2, <1>3, RunIsRecovered
  <1>4. CASE TornLog(h, safe, wal, walDisk, meta.seq + 1, e) /\ metaDisk = meta
    BY <1>1, <1>2, <1>4, TornIsRecovered
  <1>5. QED
    BY <1>3, <1>4 DEF LeftLog

\* The chunks that count as done after open are in the files.
LEMMA DoneAtOpen ==
    ASSUME arity \in Nat \ {0, 1}, NEW h, History(h, arity), MetaIs(meta, h, arity), NEW d,
           d = [l \in Levels |-> IF meta.size > 0 /\ l \in Active(meta.depth)
                                 THEN WholeChunks(LevelSize(meta.size, l)) ELSE 0]
    PROVE  DoneIs(d, meta.size, arity)
  <1>1. meta.size \in Nat /\ meta.depth = CeilLogN(meta.size, arity)
    BY MetaFacts
  <1>2. ASSUME NEW l \in Levels
        PROVE  d[l] \in Nat /\ d[l] * ChunkSize <= Stored(meta.size, l, arity)
    <2> DEFINE s == Stored(meta.size, l, arity)
    <2>1. l \in Nat
      BY LeanIMTAssumption DEF Levels
    <2>2. s \in Nat
      BY <1>1, <2>1, StoredBounds
    <2>3. s = IF meta.size > 0 /\ l \in Active(meta.depth) THEN LevelSize(meta.size, l) ELSE 0
      BY <1>1, StoredIs
    <2>4. d[l] = IF meta.size > 0 /\ l \in Active(meta.depth) THEN WholeChunks(s) ELSE 0
      BY <2>3
    <2> HIDE DEF s
    <2>5. WholeChunks(s) \in Nat /\ WholeChunks(s) * ChunkSize <= s /\ 0 * ChunkSize <= s
      <3>1. ASSUME NEW c \in Nat \ {0} PROVE s \div c \in Nat /\ (s \div c) * c <= s /\ 0 * c <= s
        BY <2>2, SMTT(30)
      <3>2. QED
        BY <3>1, RotorTreeAssumption DEF WholeChunks
    <2>6. d[l] \in Nat /\ d[l] * ChunkSize <= s
      BY <2>4, <2>5
    <2>7. QED
      BY <2>6 DEF s
  <1>3. QED
    BY <1>2 DEF DoneIs

LEMMA Recovers ==
    ASSUME NEW h, NEW safe, NEW pend, NEW mid, Inv(h, safe, pend, mid), Open, up' = "open", BudgetIs(budget', "open"),
           NEW x, x = NextNumber(wal, meta), meta.seq < x,
           RunRecovered(h, safe, KeptLog(wal), KeptDisk(wal, walDisk), metaDisk, x), NoLooseWrites => x = safe
    PROVE  IInv'
  <1>1. /\ up # "open" /\ UNCHANGED <<arity, buffer, pc, job, meta, metaDisk, files, filesDisk, promised>>
        /\ Recover
    BY DEF Open, fixed, dataVars
  <1>2. /\ arity \in Arities /\ arity \in Nat \ {0, 1} /\ History(h, arity) /\ PromiseIs(promised, h, safe)
        /\ Data(h, arity, meta, metaDisk, files, filesDisk) /\ Resting(h, safe)
    BY <1>1, ArityFacts DEF Inv
  <1> DEFINE more == Replayed(KeptLog(wal))
             found == IF more = <<>> THEN Loaded ELSE InsertMany(Loaded, more)
  <1>3. /\ tree' = found /\ log' = SubSeq(log, 1, LessOf(found.size, Len(log))) /\ wal' = KeptLog(wal) /\ walDisk' = KeptDisk(wal, walDisk)
        /\ nextSeq' = x
        /\ done' = [l \in Levels |-> IF meta.size > 0 /\ l \in Active(meta.depth)
                                     THEN WholeChunks(LevelSize(meta.size, l)) ELSE 0]
    BY <1>1 DEF Recover, KeptLog, KeptDisk, NextNumber
  <1>4. /\ x \in 0..h.top /\ safe <= x /\ more = SubSeq(h.leaves, h.at[meta.seq + 1] + 1, h.at[x])
        /\ Logs(h, safe, wal', walDisk', metaDisk.seq + 1, x)
    BY <1>3 DEF RunRecovered
  <1>5. MetaIs(meta, h, arity) /\ MetaIs(metaDisk, h, arity)
    BY <1>2 DEF Data
  <1>6. meta.seq \in Int /\ metaDisk.seq + 1 \in Nat /\ h.top \in Nat
    BY <1>2, <1>5, MetaFacts
  <1>7. x \in Nat /\ x \in 0..x /\ meta.seq + 1 <= x
    BY <1>4, <1>6
  <1>8. PICK g : g = CutAt(h, x)
    OBVIOUS
  <1>9. History(g, arity) /\ Agree(h, g, x) /\ g.leaves = First(h, h.at[x]) /\ g.top = x
    BY <1>2, <1>4, <1>8, CutHistory
  <1>10. TreeIs(tree', g.leaves, arity)
    <2> HIDE DEF more
    <2>1. PICK s : s = h.at[meta.seq + 1]
      OBVIOUS
    <2>2. PICK t : t = h.at[x]
      OBVIOUS
    <2>3. more = SubSeq(h.leaves, s + 1, t)
      BY <1>4, <2>1, <2>2
    <2>4. TreeIs(IF more = <<>> THEN Loaded ELSE InsertMany(Loaded, more), First(h, t), arity)
      BY <1>2, <1>4, <2>1, <2>2, <2>3, TreeRecovered
    <2>5. QED
      BY <1>3, <1>9, <2>2, <2>4
  <1> HIDE DEF found, more
  <1>11. log' = g.leaves
    <2>1. log = h.leaves
      BY <1>2 DEF Resting
    <2>2. PICK t : t = h.at[x]
      OBVIOUS
    <2>3. t \in Nat /\ t <= Len(log) /\ Len(log) \in Nat /\ IsSeq(log)
      BY <1>2, <1>4, <2>1, <2>2, HistoryFacts DEF History
    <2>4. g.leaves = SubSeq(log, 1, t)
      BY <1>9, <2>1, <2>2 DEF First
    <2>5. Len(g.leaves) = t
      BY <2>3, <2>4, PrefixIsSeq
    <2>6. found.size = t
      BY <1>3, <1>10, <2>5 DEF TreeIs, Shaped
    <2>7. LessOf(t, Len(log)) = t
      BY <2>3 DEF LessOf
    <2>8. QED
      BY <1>3, <2>4, <2>6, <2>7
  <1>12. MemIs(g, x, arity, tree', log', nextSeq', buffer')
    <2>1. buffer' = <<>>
      BY <1>1, <1>2 DEF Resting
    <2>2. Entries(g, x, x) = <<>>
      BY <1>7, EntriesEmpty
    <2>3. QED
      BY <1>3, <1>7, <1>9, <1>10, <1>11, <2>1, <2>2 DEF MemIs
  <1>13. DoneIs(done', meta.size, arity)
    BY <1>2, <1>3, <1>5, DoneAtOpen
  <1>14. pc' = "free" /\ job' = NoJob
    BY <1>1, <1>2 DEF Resting
  <1>15. /\ JobForm(job') /\ FlushJob(g, x, x, pc', job') /\ SnapJob(g, x, arity, pc', job', meta, metaDisk)
         /\ FileJob(g, x, arity, pc', job', files, filesDisk)
    <2>1. FlushJob(g, x, x, "free", NoJob)
      BY DEF FlushJob
    <2>2. SnapJob(g, x, arity, "free", NoJob, meta, metaDisk) /\ FileJob(g, x, arity, "free", NoJob, files, filesDisk)
      BY NoSnapJob
    <2>3. QED
      BY <1>14, <2>1, <2>2, NoJobForm
  <1>16. Logs(g, safe, wal', walDisk', metaDisk.seq + 1, x)
    <2> DEFINE w == wal'
               wd == walDisk'
               from == metaDisk.seq + 1
    <2>1. Logs(h, safe, w, wd, from, x) /\ from \in Nat
      BY <1>4, <1>6
    <2> HIDE DEF w, wd, from
    <2>2. Logs(g, safe, w, wd, from, x)
      BY <1>2, <1>7, <1>9, <2>1, LogsAgree
    <2>3. QED
      BY <2>2 DEF w, wd, from
  <1>17. LogEnd(pc', x, nextSeq') = x
    BY <1>3 DEF LogEnd
  <1>18. Session(g, safe, x, x)'
    BY <1>1, <1>7, <1>12, <1>13, <1>15, <1>16, <1>17 DEF Session
  <1>19. Data(g, arity, meta, metaDisk, files, filesDisk)
    BY <1>2, <1>7, <1>9, DataAgree
  <1>20. PromiseIs(promised, g, safe)
    BY <1>2, <1>4, <1>9, PromiseAgree
  <1>21. Firm(safe, x, up', pc', meta')
    <2>1. x <= x
      BY <1>7
    <2>2. QED
      BY <1>1, <2>1 DEF Firm
  <1>22. Inv(g, safe, x, x)'
    BY <1>1, <1>2, <1>9, <1>18, <1>19, <1>20, <1>21 DEF Inv
  <1>23. QED
    BY <1>22 DEF IInv

\* The leaves that open replays fit the tree: they are some of those inserted before.
LEMMA ReplayFits ==
    ASSUME arity \in Nat \ {0, 1}, NEW h, NEW safe, History(h, arity), Data(h, arity, meta, metaDisk, files, filesDisk),
           NEW w, NEW wd, NEW md, NEW x, NEW more, more = Replayed(w),
           meta.seq < x => RunRecovered(h, safe, w, wd, md, x), meta.seq < x \/ more = <<>>
    PROVE  Fits(Loaded, Len(more))
  <1>1. /\ MetaIs(meta, h, arity) /\ Loaded.size = meta.size
    BY DEF Data, Loaded
  <1>2. /\ meta.seq \in Int /\ meta.seq + 1 \in 0..h.top /\ meta.size = h.at[meta.seq + 1] /\ meta.size \in Nat
        /\ meta.size <= Len(h.leaves) /\ Len(h.leaves) \in Nat /\ IsSeq(h.leaves) /\ h.top \in Nat
    <2>1. IsSeq(h.leaves) /\ Len(h.leaves) \in Nat
      BY DEF History, IsSeq
    <2>2. QED
      BY <1>1, <2>1, MetaFacts
  <1>3. CeilLogN(Len(h.leaves), arity) <= MaxDepth /\ MaxDepth \in Nat
    BY LeanIMTAssumption DEF History
  <1>4. Len(more) \in Nat /\ meta.size + Len(more) <= Len(h.leaves)
    <2>1. CASE more = <<>>
      BY <1>2, <2>1, EmptyIsSeq
    <2>2. CASE meta.seq < x
      <3> DEFINE m == meta.seq + 1
                 s == meta.size
                 t == h.at[x]
      <3>1. x \in 0..h.top /\ more = SubSeq(h.leaves, s + 1, t) /\ m <= x /\ m \in 0..h.top /\ s = h.at[m]
        BY <1>2, <2>2 DEF RunRecovered
      <3> HIDE DEF m, s
      <3>2. t \in Nat /\ t <= Len(h.leaves)
        BY <3>1, HistoryFacts
      <3>3. s <= t
        <4>1. \A j \in 0..h.top : m <= j => h.at[m] <= h.at[j]
          BY <3>1, HistoryFacts
        <4>2. QED
          BY <3>1, <4>1, Zenon
      <3> HIDE DEF t
      <3>4. Len(SubSeq(h.leaves, s + 1, t)) = t - s
        BY ONLY <1>2, <3>2, <3>3, LeavesReplayed DEF s
      <3>5. s \in Nat /\ Len(more) = t - s /\ Len(h.leaves) \in Nat
        BY <1>2, <3>1, <3>4 DEF s
      <3>6. Len(more) \in Nat /\ s + Len(more) <= Len(h.leaves)
        BY <3>2, <3>3, <3>5
      <3>7. QED
        BY <3>6 DEF s
    <2>3. QED
      BY <2>1, <2>2
  <1>5. PICK total \in Nat : total = meta.size + Len(more)
    BY <1>2, <1>4
  <1>6. CeilLogN(total, arity) \in Nat /\ CeilLogN(Len(h.leaves), arity) \in Nat
        /\ CeilLogN(total, arity) <= CeilLogN(Len(h.leaves), arity)
    BY <1>2, <1>4, <1>5, DepthBounds, DepthAscends
  <1>7. CeilLogN(total, arity) <= MaxDepth
    <2> DEFINE p == CeilLogN(total, arity)
               q == CeilLogN(Len(h.leaves), arity)
    <2>1. p \in Nat /\ q \in Nat /\ p <= q /\ q <= MaxDepth /\ MaxDepth \in Nat
      BY <1>3, <1>6
    <2> HIDE DEF p, q
    <2>2. p <= MaxDepth
      BY <2>1
    <2>3. QED
      BY <2>2 DEF p
  <1>8. QED
    BY <1>1, <1>5, <1>7, Zenon DEF Fits

LEMMA Opens ==
    ASSUME NEW h, NEW safe, NEW pend, NEW mid, Inv(h, safe, pend, mid), Open, Numbered'
    PROVE  IInv'
  <1>1. /\ up # "open" /\ budget["opens"] > 0 /\ budget' = [budget EXCEPT !["opens"] = @ - 1]
        /\ UNCHANGED <<arity, buffer, pc, job, calling, meta, metaDisk, files, filesDisk, promised>>
        /\ up' \in OpenOutcomes
    BY DEF Open, Spend, fixed, dataVars
  <1>2. /\ arity \in Arities /\ arity \in Nat \ {0, 1} /\ History(h, arity) /\ PromiseIs(promised, h, safe)
        /\ Data(h, arity, meta, metaDisk, files, filesDisk) /\ Resting(h, safe) /\ BudgetIs(budget, up)
    BY <1>1, ArityFacts DEF Inv
  <1>3. BudgetIs(budget', up') /\ budget.opens > 0
    BY <1>1, <1>2, BudgetOpened
  <1>4. PICK e \in 0..h.top :
          LeftLog(h, safe, wal, walDisk, meta, metaDisk, e) /\ (NoLooseWrites => e = safe)
    BY <1>2, <1>3 DEF Resting
  <1>5. safe \in Nat
    BY <1>2 DEF PromiseIs, History
  <1>6. /\ ~(ValidFrames(wal) + 1 < Len(wal)) /\ (Steady => meta.seq < NextNumber(wal, meta))
        /\ NextNumber(wal, meta) \in {e, meta.seq + 1}
        /\ meta.seq < NextNumber(wal, meta) =>
             RunRecovered(h, safe, KeptLog(wal), KeptDisk(wal, walDisk), metaDisk, NextNumber(wal, meta))
        /\ meta.seq < NextNumber(wal, meta) \/ Replayed(KeptLog(wal)) = <<>>
    BY <1>2, <1>4, <1>5, LogIsRecovered
  <1>7. CASE up' = "open"
    <2>1. nextSeq' = NextNumber(wal, meta)
      BY <1>7 DEF Open, Recover, NextNumber
    <2>2. meta.seq < NextNumber(wal, meta)
      BY <1>1, <1>6, <1>7, <2>1 DEF Numbered, NumbersAdvance, Steady, NoPower, NoLooseWrites
    <2>3. PICK x : x = NextNumber(wal, meta)
      OBVIOUS
    <2>4. RunRecovered(h, safe, KeptLog(wal), KeptDisk(wal, walDisk), metaDisk, x) /\ meta.seq < x
      BY <1>6, <2>2, <2>3
    <2>5. NoLooseWrites => x = safe
      <3>1. HAVE NoLooseWrites
      <3>2. meta.seq < safe /\ meta.seq \in Int
        <4>1. meta.seq < safe
          BY <3>1 DEF Inv, Firm
        <4>2. MetaIs(meta, h, arity)
          BY <1>2 DEF Data
        <4>3. QED
          BY <1>2, <4>1, <4>2, MetaFacts
      <3>3. safe <= x /\ x \in Nat
        BY <1>2, <2>4 DEF RunRecovered, History
      <3>4. x = safe \/ x = meta.seq + 1
        BY <1>4, <1>6, <2>3, <3>1
      <3>5. QED
        BY <1>5, <3>2, <3>3, <3>4
    <2>6. QED
      BY <1>3, <1>7, <2>3, <2>4, <2>5, Recovers
  <1>8. CASE up' # "open"
    <2>1. up' = "refused" /\ ~Aligned(arity)
      <3>0. Fits(Loaded, Len(Replayed(KeptLog(wal))))
        BY <1>2, <1>6, ReplayFits
      <3>1. RecomputeRoot(Loaded) = meta.root => OpenOutcomes = {"open"}
        BY <1>6, <3>0 DEF OpenOutcomes, KeptLog
      <3>2. Aligned(arity) => RecomputeRoot(Loaded) = meta.root
        BY <1>2, LoadedData
      <3>3. RecomputeRoot(Loaded) # meta.root => OpenOutcomes = {"refused"}
        BY DEF OpenOutcomes
      <3>4. QED
        BY <1>1, <1>8, <3>1, <3>2, <3>3
    <2>2. UNCHANGED <<log, wal, walDisk>>
      BY <1>8 DEF Open, walVars
    <2>3. Resting(h, safe)'
      BY <1>1, <1>2, <1>4, <2>2 DEF Resting
    <2>4. Firm(safe, pend, up', pc', meta')
      BY <1>1, <2>1 DEF Inv, Firm
    <2>5. Inv(h, safe, pend, mid)'
      BY <1>1, <1>2, <1>3, <2>1, <2>3, <2>4 DEF Inv
    <2>6. QED
      BY <2>5 DEF IInv
  <1>9. QED
    BY <1>7, <1>8

-----------------------------------------------------------------------------
(***************************************************************************)
(* The invariant holds, and what follows from it.                          *)
(***************************************************************************)
\* The history of a tree that was never opened.
NoHistory == [leaves |-> <<>>, at |-> [i \in 0..0 |-> 0], top |-> 0]

LEMMA NothingYet ==
    ASSUME NEW n \in Nat \ {0, 1}
    PROVE  /\ History(NoHistory, n) /\ PromiseIs(<<>>, NoHistory, 0)
           /\ Data(NoHistory, n, NoMeta, NoMeta, NoFiles, NoFiles)
           /\ LeftLog(NoHistory, 0, <<>>, <<>>, NoMeta, NoMeta, 0) /\ 0 \in 0..NoHistory.top
  <1> DEFINE h == NoHistory
  <1>1. h.leaves = <<>> /\ h.top = 0 /\ h.at = [i \in 0..0 |-> 0] /\ h.at[0] = 0
    BY DEF NoHistory
  <1>2. CeilLogN(0, n) = 0 /\ MaxDepth \in Nat
    BY DepthBounds, LeanIMTAssumption
  <1>3. IsSeq(<<>>) /\ Len(<<>>) = 0
    BY EmptyIsSeq
  <1> HIDE DEF h
  <1>4. First(h, 0) = <<>>
    <2>1. SubSeq(<<>>, 0 + 1, 0) = <<>>
      BY SubSeqNone
    <2>2. QED
      BY <1>1, <2>1 DEF First
  <1>5. History(h, n)
    BY <1>1, <1>2, <1>3 DEF History
  <1>6. PromiseIs(<<>>, h, 0)
    BY <1>1, <1>4 DEF PromiseIs
  <1>7. MetaIs(NoMeta, h, n)
    BY <1>1, <1>2, <1>3, <1>4 DEF MetaIs, NoMeta, RootOf
  <1>8. FilesAre(NoFiles, NoFiles, First(h, NoMeta.size), n)
    <2>1. First(h, NoMeta.size) = <<>>
      BY <1>4 DEF NoMeta
    <2>2. NoFiles = [l \in Levels |-> NoFiles[l]] /\ \A l \in Levels : NoFiles[l] = <<>>
      BY DEF NoFiles
    <2>3. ASSUME NEW l \in Levels PROVE Level(<<>>, <<>>, l, n) /\ FileHas(<<>>, <<>>, l, n)
      <3>1. l \in Nat /\ Power(n, l) \in Nat \ {0}
        BY LeanIMTAssumption, PowerPositive DEF Levels
      <3>2. Stored(0, l, n) = 0
        <4>1. ASSUME NEW x \in Nat \ {0} PROVE CeilDiv(0, x) = 0
          BY DEF CeilDiv
        <4>2. QED
          BY <3>1, <4>1 DEF Stored
      <3>3. FileHas(<<>>, <<>>, l, n)
        BY <1>3 DEF FileHas
      <3>4. QED
        BY <1>3, <3>2, <3>3 DEF Level
    <2>4. QED
      BY <2>1, <2>2, <2>3 DEF FilesAre
  <1>9. Data(h, n, NoMeta, NoMeta, NoFiles, NoFiles)
    BY <1>7, <1>8 DEF Data, NoMeta
  <1>10. LeftLog(h, 0, <<>>, <<>>, NoMeta, NoMeta, 0)
    <2>1. Entries(h, 0, 0) = <<>>
      BY EntriesEmpty
    <2>2. Logs(h, 0, Entries(h, 0, 0), Entries(h, 0, 0), 0, 0)
      BY <1>1, LogsAre
    <2>3. NoMeta.seq + 1 = 0
      BY DEF NoMeta
    <2>4. QED
      BY <2>1, <2>2, <2>3 DEF LeftLog
  <1>11. QED
    BY <1>1, <1>5, <1>6, <1>9, <1>10 DEF h

LEMMA InitiallyRests == LogFailsLast /\ Init => IInv
  <1> SUFFICES ASSUME LogFailsLast, Init PROVE IInv
    OBVIOUS
  <1>1. arity \in Arities /\ arity \in Nat \ {0, 1}
    BY ArityFacts DEF Init
  <1>2. BudgetIs(budget, "down")
    <2>1. budget \in Budgets
      BY DEF Init
    <2>2. budget \in [opens : Nat, power : Nat, kills : Nat, flush : Nat, checkpoint : Nat, log : Nat]
      BY <2>1, RotorTreeAssumption
    <2>3. /\ NoPower => budget.power = 0
          /\ NoLooseWrites => budget.kills = 0 /\ budget.flush = 0
          /\ budget.log = 0 \/ budget.opens <= 1
      BY <2>1 DEF NoPower, NoLooseWrites, LogFailsLast
    <2>4. QED
      BY <2>2, <2>3 DEF BudgetIs
  <1>3. Resting(NoHistory, 0)
    <2>1. NoHistory.leaves = <<>>
      BY DEF NoHistory
    <2>2. QED
      BY <1>1, <2>1, NothingYet DEF Init, Resting
  <1>4. Firm(0, 0, up, pc, meta)
    BY DEF Init, Firm, NoMeta
  <1>5. Inv(NoHistory, 0, 0, 0)
    BY <1>1, <1>2, <1>3, <1>4, NothingYet DEF Init, Inv
  <1>6. QED
    BY <1>5 DEF IInv

LEMMA Steps == IInv /\ [Next]_vars /\ Numbered' => IInv'
  <1> SUFFICES ASSUME IInv, [Next]_vars, Numbered' PROVE IInv'
    OBVIOUS
  <1>1. PICK h, safe, pend, mid : Inv(h, safe, pend, mid)
    BY DEF IInv
  <1>2. CASE BeginCall \/ InsertRefused \/ Close
    BY <1>1, <1>2, Calls
  <1>3. CASE InsertEntry
    BY <1>1, <1>3, Inserts
  <1>4. CASE Flushes
    BY <1>1, <1>4, Takes, Writes, Syncs, FlushesFail DEF Flushes
  <1>5. CASE Checkpoints
    <2>1. CASE CkBegin \/ CkDone \/ CkFails \/ CkLogFails
      BY <1>1, <2>1, MovesOn
    <2>2. CASE CkWrite
      BY <1>1, <2>2, BufferWritten
    <2>3. CASE CkFlushed
      BY <1>1, <2>3, NothingToFlush
    <2>4. CASE CkFlushSync \/ CkTailSync
      BY <1>1, <2>4, BufferSynced
    <2>5. CASE CkLevel
      BY <1>1, <2>5, LevelsWritten
    <2>6. CASE CkSyncFiles
      BY <1>1, <2>6, FilesSynced
    <2>7. CASE CkRename
      BY <1>1, <2>7, MetaRenamed
    <2>8. CASE CkDirSync
      BY <1>1, <2>8, MetaSynced
    <2>9. CASE CkRemap
      BY <1>1, <2>9, ChunksRemapped
    <2>10. CASE CkTruncate \/ CkTruncSync
      BY <1>1, <2>10, LogCut
    <2>11. QED
      BY <1>5, <2>1, <2>2, <2>3, <2>4, <2>5, <2>6, <2>7, <2>8, <2>9, <2>10 DEF Checkpoints
  <1>6. CASE Closes \/ Killed
    BY <1>1, <1>6, Ends
  <1>7. CASE PowerFails
    BY <1>1, <1>7, PowerLost
  <1>8. CASE Open
    BY <1>1, <1>8, Opens
  <1>9. CASE StaysDown \/ UNCHANGED vars
    BY <1>1, <1>9, Stutters DEF StaysDown
  <1>10. QED
    BY <1>2, <1>3, <1>4, <1>5, <1>6, <1>7, <1>8, <1>9 DEF Next

LEMMA PromisesKept == IInv => DurableSurvives
  <1> SUFFICES ASSUME IInv, up = "open" PROVE IsPrefix(promised, tree.levels[0])
    BY DEF DurableSurvives
  <1>1. PICK h, safe, pend, mid : Inv(h, safe, pend, mid)
    BY DEF IInv
  <1>2. /\ History(h, arity) /\ h.leaves = log /\ TreeIs(tree, log, arity) /\ IsSeq(h.leaves)
    BY <1>1, SessionNumbers
  <1>3. tree.levels[0] = log
    BY <1>2 DEF TreeIs, Shaped
  <1>4. PromiseIs(promised, h, safe)
    BY <1>1 DEF Inv
  <1>5. PICK k \in 0..h.at[safe] : promised = First(h, k)
    BY <1>4 DEF PromiseIs
  <1>6. h.at[safe] \in Nat /\ h.at[safe] <= Len(log) /\ Len(log) \in Nat
    BY <1>2, <1>4, HistoryFacts DEF PromiseIs
  <1>7. k \in Nat /\ k <= Len(log)
    BY <1>6
  <1> DEFINE p == SubSeq(log, 1, k)
  <1>8. promised = p
    BY <1>2, <1>5 DEF First
  <1>9. IsSeq(p) /\ Len(p) = k
    BY <1>2, <1>7, PrefixIsSeq
  <1> HIDE DEF p
  <1>10. SubSeq(p, 1, k) = p
    <2>1. IsSeq(SubSeq(p, 1, k)) /\ Len(SubSeq(p, 1, k)) = k /\ \A i \in 1..k : SubSeq(p, 1, k)[i] = p[i]
      BY <1>7, <1>9, PrefixIsSeq
    <2>2. QED
      BY <1>9, <2>1, SeqEqual2
  <1>11. QED
    BY <1>3, <1>7, <1>8, <1>9, <1>10 DEF IsPrefix, p

\* CHUNK_SIZE is a multiple of the arity, as it is for the arities 2, 4, 8 ... of 128.
ChunksAlign == \A n \in Arities : Aligned(n)

LEMMA RootIsRight == ChunksAlign /\ IInv => RootIsOfLeaves /\ Reopens
  <1> SUFFICES ASSUME ChunksAlign, IInv PROVE RootIsOfLeaves /\ Reopens
    OBVIOUS
  <1>1. PICK h, safe, pend, mid : Inv(h, safe, pend, mid)
    BY DEF IInv
  <1>2. Aligned(arity) /\ up # "refused"
    BY <1>1 DEF Inv, ChunksAlign
  <1>3. ASSUME up = "open" PROVE tree.levels[0] = log /\ RecomputeRoot(tree) = tree.root
    <2>1. arity \in Nat \ {0, 1} /\ TreeIs(tree, log, arity)
      BY <1>1, <1>3, SessionNumbers
    <2>2. /\ IsSeq(log) /\ tree.levels[0] = log /\ tree.size = Len(log) /\ tree.depth = CeilLogN(Len(log), arity)
          /\ tree.root = RootOf(log, arity)
      BY <1>2, <2>1 DEF TreeIs, Shaped
    <2>3. RecomputeRoot(tree) = RootOf(log, arity)
      BY <2>1, <2>2, RecomputedRoot
    <2>4. QED
      BY <2>2, <2>3
  <1>4. QED
    BY <1>2, <1>3 DEF RootIsOfLeaves, Reopens

\* What the invariant of histories leaves open of the types: the counters, and what is
\* in memory while no process runs.
Counters ==
    /\ up \in {"open", "down", "refused"} /\ values \in 0..MaxLeaves /\ since \in Nat
    /\ flushed \in Int /\ -1 <= flushed /\ flushed < nextSeq
    /\ up # "open" => tree = EmptyTree /\ nextSeq = 0 /\ done = NoChunks

LEMMA CountersStart == Init => Counters
  BY LeanIMTAssumption DEF Init, Counters

LEMMA CountersStep == IInv /\ IInv' /\ Counters /\ [Next]_vars => Counters'
  <1> SUFFICES ASSUME IInv, IInv', Counters, [Next]_vars PROVE Counters'
    OBVIOUS
  <1>1. PICK h, safe, pend, mid : Inv(h, safe, pend, mid)
    BY DEF IInv
  <1>2. up # "open" => pc = "free" /\ calling = {}
    BY <1>1 DEF Inv, Resting
  <1>3. up = "open" => nextSeq \in Nat /\ mid \in Nat /\ mid <= nextSeq
    BY <1>1, SessionNumbers
  <1>4. MaxLeaves \in Nat /\ values \in 0..MaxLeaves /\ since \in Nat
    BY LeanIMTAssumption DEF Counters
  <1>5. ASSUME up = "open", UNCHANGED <<up, values, nextSeq>>, since' \in Nat,
               flushed' = flushed \/ (flushed' \in Int /\ -1 <= flushed' /\ flushed' < nextSeq)
        PROVE  Counters'
    BY <1>5 DEF Counters
  <1>6. CASE BeginCall \/ InsertRefused \/ Close
    <2>1. up = "open"
      BY <1>2, <1>6 DEF BeginCall, Accepts, InsertRefused, Close
    <2>2. UNCHANGED <<up, values, nextSeq, flushed, since>>
      BY <1>6 DEF BeginCall, InsertRefused, Close
    <2>3. QED
      BY <1>4, <1>5, <2>1, <2>2
  <1>7. CASE InsertEntry
    <2>1. up = "open"
      BY <1>2, <1>7 DEF InsertEntry
    <2>2. PICK count \in 1..MaxBatch :
            /\ values + count <= MaxLeaves /\ values' = values + count /\ nextSeq' = nextSeq + 1
            /\ since' = since + 1 /\ up' = up /\ flushed' = flushed
      BY <1>7 DEF InsertEntry
    <2>3. count \in Nat
      BY LeanIMTAssumption
    <2>4. values' \in 0..MaxLeaves /\ since' \in Nat
      BY <1>4, <2>2, <2>3
    <2>5. QED
      BY <1>3, <2>1, <2>2, <2>4 DEF Counters
  <1>8. CASE Flushes
    <2>1. up = "open" /\ UNCHANGED <<up, nextSeq>>
      BY <1>1, <1>8, FlushKeeps
    <2>2. UNCHANGED <<values, since>>
      BY <1>8 DEF Flushes, FlushTake, FlushWrite, FlushSync, FlushFails, memVars
    <2>3. CASE FlushSync
      <3>1. FlushJob(h, pend, mid, pc, job) /\ pc = "flSync" /\ MarkFlushed(job.seq, job.snap.size)
        BY <1>1, <2>1, <2>3 DEF Inv, Session, FlushSync
      <3>2. job.seq = mid - 1
        BY <3>1 DEF FlushJob
      <3>3. job.seq \in Int /\ -1 <= job.seq /\ job.seq < nextSeq
        BY <1>3, <2>1, <3>2
      <3>4. flushed' = flushed \/ flushed' = job.seq
        BY <3>1 DEF MarkFlushed
      <3>5. QED
        BY <1>4, <1>5, <2>1, <2>2, <3>3, <3>4
    <2>4. CASE ~FlushSync
      <3>1. flushed' = flushed
        BY <1>8, <2>4 DEF Flushes, FlushTake, FlushWrite, FlushFails, memVars
      <3>2. QED
        BY <1>4, <1>5, <2>1, <2>2, <3>1
    <2>5. QED
      BY <2>3, <2>4
  <1>9. CASE Checkpoints
    <2>1. up = "open" /\ UNCHANGED <<up, nextSeq>>
      BY <1>1, <1>9, CheckpointKeeps
    <2>2. UNCHANGED values /\ since' \in Nat
      BY <1>4, <1>9 DEF Checkpoints, CkBegin, CkWrite, CkFlushed, CkFlushSync, CkLevel, CkSyncFiles, CkRename,
           CkDirSync, CkRemap, CkTruncate, CkTruncSync, CkTailSync, CkDone, CkFails, CkLogFails, Abandon, memVars
    <2>3. flushed' = flushed \/ flushed' = nextSeq - 1
      BY <1>9 DEF Checkpoints, CkBegin, CkWrite, CkFlushed, CkFlushSync, CkLevel, CkSyncFiles, CkRename,
           CkDirSync, CkRemap, CkTruncate, CkTruncSync, CkTailSync, CkDone, CkFails, CkLogFails, Abandon, memVars,
           MarkFlushed
    <2>4. nextSeq - 1 \in Int /\ -1 <= nextSeq - 1 /\ nextSeq - 1 < nextSeq
      BY <1>3, <2>1
    <2>5. QED
      BY <1>5, <2>1, <2>2, <2>3, <2>4
  <1>10. CASE Closes \/ Killed \/ PowerFails
    <2>1. /\ up' = "down" /\ tree' = EmptyTree /\ nextSeq' = 0 /\ done' = NoChunks
          /\ flushed' = -1 /\ since' = 0 /\ values' = values
      BY <1>10 DEF Closes, Killed, PowerFails, ForgetMemory
    <2>2. QED
      BY <1>4, <2>1 DEF Counters
  <1>11. CASE Open
    <2>1. up' \in {"open", "refused"} /\ values' = values /\ since' = since
      BY <1>11 DEF Open, OpenOutcomes
    <2>2. CASE up' = "open"
      <3>1. PICK g, s, p, m : Inv(g, s, p, m)'
        BY DEF IInv
      <3>2. MemIs(g, m, arity', tree', log', nextSeq', buffer') /\ History(g, arity')
        BY <2>2, <3>1 DEF Inv, Session
      <3>3. nextSeq' \in Nat
        BY <3>2 DEF MemIs, History
      <3>4. flushed' = nextSeq' - 1
        BY <1>11, <2>2 DEF Open, Recover
      <3>5. flushed' \in Int /\ -1 <= flushed' /\ flushed' < nextSeq'
        <4>1. ASSUME NEW n \in Nat PROVE n - 1 \in Int /\ -1 <= n - 1 /\ n - 1 < n
          OBVIOUS
        <4>2. QED
          BY <3>3, <3>4, <4>1, Zenon
      <3>6. values' \in 0..MaxLeaves /\ since' \in Nat
        BY <1>4, <2>1
      <3>7. QED
        BY <2>2, <3>5, <3>6 DEF Counters
    <2>3. CASE up' # "open"
      <3>1. up # "open" /\ UNCHANGED <<tree, nextSeq, flushed, done>>
        BY <1>11, <2>3 DEF Open
      <3>2. QED
        BY <2>1, <2>3, <3>1 DEF Counters
    <2>4. QED
      BY <2>2, <2>3
  <1>12. CASE StaysDown \/ UNCHANGED vars
    <2>1. UNCHANGED <<up, values, since, flushed, nextSeq, tree, done>>
      BY <1>12 DEF StaysDown, vars, memVars
    <2>2. QED
      BY <2>1 DEF Counters
  <1>13. QED
    BY <1>6, <1>7, <1>8, <1>9, <1>10, <1>11, <1>12 DEF Next

LEMMA BufferNumbered ==
    ASSUME NEW h, NEW mid \in Nat, NEW top \in Nat, mid <= top, NEW b, b = Entries(h, mid, top)
    PROVE  \A k \in 1..Len(b) : b[k].seq = top - Len(b) + k - 1
  <1>1. Len(b) = top - mid /\ \A k \in 1..top - mid : b[k] = Entry(h, mid + k - 1)
    BY EntriesIsSeq
  <1>2. ASSUME NEW k \in 1..Len(b) PROVE b[k].seq = top - Len(b) + k - 1
    <2>1. b[k] = Entry(h, mid + k - 1)
      BY <1>1
    <2>2. Entry(h, mid + k - 1).seq = mid + k - 1
      BY EntryParts
    <2>3. top - Len(b) + k - 1 = mid + k - 1
      BY <1>1
    <2>4. QED
      BY <2>1, <2>2, <2>3
  <1>3. QED
    BY <1>2

LEMMA Typed == IInv /\ Counters => TypeOK
  <1> SUFFICES ASSUME IInv, Counters PROVE TypeOK
    OBVIOUS
  <1>1. PICK h, safe, pend, mid : Inv(h, safe, pend, mid)
    BY DEF IInv
  <1>2. CASE up = "open"
    <2>1. /\ arity \in Nat \ {0, 1} /\ h.top = nextSeq /\ nextSeq \in Nat /\ mid \in Nat /\ mid <= nextSeq
          /\ TreeIs(tree, log, arity) /\ buffer = Entries(h, mid, nextSeq) /\ h.leaves = log /\ History(h, arity)
          /\ Len(log) \in Nat
      BY <1>1, <1>2, SessionNumbers
    <2>2. /\ tree.levels[0] = log /\ tree.size = Len(log)
          /\ \A l \in Levels : Len(tree.levels[l]) = Stored(Len(log), l, arity)
      BY <2>1 DEF TreeIs, Shaped
    <2>3. \A k \in 1..Len(buffer) : buffer[k].seq = nextSeq - Len(buffer) + k - 1
      BY <2>1, BufferNumbered
    <2>4. ASSUME NEW l \in Levels PROVE done[l] * ChunkSize <= Len(tree.levels[l])
      <3>1. DoneIs(done, meta.size, arity) /\ MetaIs(meta, h, arity)
        BY <1>1, <1>2 DEF Inv, Session, Data
      <3>2. l \in Nat
        BY LeanIMTAssumption DEF Levels
      <3>3. meta.size \in Nat /\ meta.size <= Len(log)
        BY <2>1, <3>1, MetaFacts
      <3>4. Stored(meta.size, l, arity) <= Stored(Len(log), l, arity)
        BY <2>1, <3>2, <3>3, StoredAscends
      <3>5. Stored(meta.size, l, arity) \in Nat /\ Stored(Len(log), l, arity) \in Nat
        BY <2>1, <3>2, <3>3, StoredBounds
      <3>6. done[l] \in Nat /\ done[l] * ChunkSize <= Stored(meta.size, l, arity) /\ done[l] * ChunkSize \in Nat
        BY <3>1, RotorTreeAssumption DEF DoneIs
      <3>7. QED
        BY <2>2, <3>4, <3>5, <3>6
    <2>5. flushed \in -1..nextSeq - 1
      BY <2>1 DEF Counters
    <2>6. QED
      BY <2>1, <2>2, <2>3, <2>4, <2>5 DEF TypeOK, Counters
  <1>3. CASE up # "open"
    <2>1. /\ tree = EmptyTree /\ nextSeq = 0 /\ done = NoChunks /\ buffer = <<>>
          /\ flushed \in -1..nextSeq - 1
      BY <1>1, <1>3 DEF Counters, Inv, Resting
    <2>2. Len(<<>>) = 0 /\ 0 \in Levels
      BY LeanIMTAssumption DEF Levels
    <2>3. tree.size = 0 /\ \A l \in Levels : tree.levels[l] = <<>> /\ done[l] = 0
      BY <2>1 DEF EmptyTree, NoChunks
    <2>4. 0 * ChunkSize = 0
      BY RotorTreeAssumption
    <2>5. QED
      BY <1>3, <2>1, <2>2, <2>3, <2>4 DEF TypeOK, Counters
  <1>4. QED
    BY <1>2, <1>3

-----------------------------------------------------------------------------
(***************************************************************************)
(* The theorems.                                                           *)
(***************************************************************************)
\* Every state of the storage layer belongs to a history: the log, the metadata and
\* the data files, cached and on disk, are parts of it that recovery can put together.
THEOREM StorageHasHistory == LogFailsLast => (Spec /\ []Numbered => []IInv)
  <1> SUFFICES ASSUME LogFailsLast PROVE Spec /\ []Numbered => []IInv
    OBVIOUS
  <1>1. Init => IInv
    BY InitiallyRests
  <1>2. QED
    BY <1>1, Steps, PTL DEF Spec

\* With the power on, or with the power failing and every write of the log synced, no
\* recovery numbers its entries at or before those of the checkpoint it read.
THEOREM NumbersGoOn == LogFailsLast /\ Steady => (Spec => []NumbersAdvance)
  <1> SUFFICES ASSUME LogFailsLast, Steady PROVE Spec => []NumbersAdvance
    OBVIOUS
  <1>1. Numbered
    BY DEF Numbered
  <1>2. IInv => NumbersAdvance
    <2> SUFFICES ASSUME IInv, up = "open" PROVE meta.seq < nextSeq
      BY DEF NumbersAdvance
    <2>1. PICK h, safe, pend, mid : Inv(h, safe, pend, mid)
      BY DEF IInv
    <2>2. meta.seq \in Int /\ meta.seq < pend /\ pend <= mid /\ mid <= nextSeq /\ pend \in Nat /\ mid \in Nat
          /\ nextSeq \in Nat
      BY <2>1, SessionNumbers
    <2>3. QED
      BY <2>2
  <1>3. QED
    BY <1>1, <1>2, StorageHasHistory, PTL

\* The counters, the buffer's numbers and the chunks that count as done fit the tree
\* through any mix of inserts, flushes, checkpoints, crashes and recoveries.
THEOREM StorageTypes == LogFailsLast => (Spec /\ []Numbered => []TypeOK)
  <1> SUFFICES ASSUME LogFailsLast PROVE Spec /\ []Numbered => []TypeOK
    OBVIOUS
  <1>1. Spec /\ []Numbered => []IInv
    BY StorageHasHistory
  <1>2. QED
    BY <1>1, CountersStart, CountersStep, Typed, PTL DEF Spec

\* What a durability token covers is in the tree after every crash and recovery, for
\* every arity and chunk size, as long as recovered numbers advance.
THEOREM DurableWhileNumbersAdvance == LogFailsLast => (Spec /\ []NumbersAdvance => []DurableSurvives)
  <1>1. NumbersAdvance => Numbered
    BY DEF Numbered
  <1>2. QED
    BY <1>1, StorageHasHistory, PromisesKept, PTL

\* ... and they do advance: tokens keep their word when the process is killed any
\* number of times, and when the power fails any number of times between whole flushes.
THEOREM DurableAfterCrashes == LogFailsLast /\ Steady => (Spec => []DurableSurvives)
  <1>1. QED
    BY NumbersGoOn, DurableWhileNumbersAdvance, PTL

\* The leaves are the inserted ones in their order and the root is theirs, through
\* remapped chunks, and after every crash and replay, which takes leaves only from the
\* end of what was inserted (Recover), when chunks hold whole groups.
THEOREM RootAfterCrashes == LogFailsLast /\ ChunksAlign => (Spec /\ []Numbered => []RootIsOfLeaves)
  <1> SUFFICES ASSUME LogFailsLast, ChunksAlign PROVE Spec /\ []Numbered => []RootIsOfLeaves
    OBVIOUS
  <1>1. IInv => RootIsOfLeaves
    BY RootIsRight
  <1>2. QED
    BY <1>1, StorageHasHistory, PTL

\* No crash leaves files that the next open refuses, when chunks hold whole groups.
THEOREM AlwaysReopens == LogFailsLast /\ ChunksAlign => (Spec /\ []Numbered => []Reopens)
  <1> SUFFICES ASSUME LogFailsLast, ChunksAlign PROVE Spec /\ []Numbered => []Reopens
    OBVIOUS
  <1>1. IInv => Reopens
    BY RootIsRight
  <1>2. QED
    BY <1>1, StorageHasHistory, PTL
=============================================================================
