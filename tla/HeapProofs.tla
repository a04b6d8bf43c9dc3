----------------------------- MODULE HeapProofs -----------------------------
(***************************************************************************)
(* Proofs about the kernel heap: for frames, headers and requests of any   *)
(* size, whatever is asked for and given back in whatever order, no frame  *)
(* has two users, only a heap with an extension that stopped halfway goes  *)
(* astray, and until it does the list of blocks, its links, the accounting *)
(* and the memory agree, and clients see an allocator.                     *)
(*                                                                         *)
(* What a call does to a heap s with the pieces held in h is stated for    *)
(* any s and h, because krealloc() frees in the heap that its kmalloc()    *)
(* leaves.                                                                 *)
(***************************************************************************)
EXTENDS Heap, SequenceTheorems, WellFoundedInduction, TLAPS

LEMMA Least ==
  ASSUME NEW S, S \subseteq Nat, S # {}
  PROVE  \E x \in S : \A y \in S : x <= y
<1> DEFINE R == OpToRel(<, Nat)
<1>1. PICK x \in S : \A y \in S : ~(<<y, x>> \in R)
  <2> HIDE DEF R
  <2>1. IsWellFoundedOn(R, Nat)
    BY NatLessThanWellFounded DEF R
  <2> QED
    BY <2>1, WFMin
<1>2. \A y \in S : ~(y < x)
  BY <1>1 DEF OpToRel
<1> QED
  BY <1>2

(* Induction up to a bound, on a set: every number up to N is in a set that *)
(* 0 is in and that is closed under one more.                              *)
LEMMA UpTo ==
  ASSUME NEW N \in Nat, NEW S, 0 \in S, \A n \in 0 .. N : n \in S /\ n < N => n + 1 \in S
  PROVE  0 .. N \subseteq S
<1> DEFINE Out == {n \in 0 .. N : n \notin S}
<1>1. SUFFICES ASSUME Out # {} PROVE FALSE
  OBVIOUS
<1>2. PICK x \in Out : \A y \in Out : x <= y
  <2>1. Out \subseteq Nat
    OBVIOUS
  <2> HIDE DEF Out
  <2> QED
    BY <1>1, <2>1, Least
<1>3. x \in 1 .. N
  OBVIOUS
<1>4. x - 1 \in S
  BY <1>2, <1>3
<1> QED
  BY <1>3, <1>4

-----------------------------------------------------------------------------
(***************************************************************************)
(* Lists of blocks.                                                        *)
(***************************************************************************)
Blk == [addr : Nat, size : Nat, used : BOOLEAN, prev : Nat \cup {NULL}]
Weight(blk) == IF blk.used THEN blk.size ELSE 0

(* Blocks that tile the heap, linked to the one in front or not at all.    *)
Tiles(b) ==
  /\ b \in Seq(Blk)
  /\ \A i \in 1 .. Len(b) : b[i].size >= HEADER + KHEAP_BLOCK_MIN
  /\ Len(b) > 0 => b[1].addr = 0 /\ b[1].prev = NULL
  /\ \A i \in 1 .. Len(b) - 1 :
       b[i + 1].addr = b[i].addr + b[i].size /\ b[i + 1].prev \in {NULL, b[i].addr}

(* The pieces h that clients hold are what the used blocks are for.        *)
Holds(b, h) ==
  /\ h = [p \in DOMAIN h |-> h[p]] /\ \A p \in DOMAIN h : h[p] \in Nat
  /\ \A i \in 1 .. Len(b) : b[i].used =>
       b[i].addr + HEADER \in DOMAIN h /\ h[b[i].addr + HEADER] <= b[i].size - HEADER
  /\ \A p \in DOMAIN h : \E i \in 1 .. Len(b) : b[i].used /\ p = b[i].addr + HEADER

EndOf(b) == IF b = << >> THEN 0 ELSE Last(b).addr + Last(b).size

LEMMA BlockTypes ==
  ASSUME NEW b \in Seq(Blk)
  PROVE  /\ Len(b) \in Nat
         /\ \A i \in 1 .. Len(b) : /\ b[i] \in Blk /\ b[i].addr \in Nat /\ b[i].size \in Nat
                                   /\ b[i].used \in BOOLEAN /\ b[i].prev \in Nat \cup {NULL}
                                   /\ Weight(b[i]) \in Nat
<1>1. Len(b) \in Nat /\ \A i \in 1 .. Len(b) : b[i] \in Blk
  OBVIOUS
<1> QED
  BY <1>1 DEF Blk, Weight

(* The blocks lie in the order of the list.                                *)
LEMMA Ordered ==
  ASSUME NEW b, Tiles(b), NEW i \in 1 .. Len(b), NEW j \in 1 .. Len(b), i < j
  PROVE  b[i].addr + b[i].size <= b[j].addr
<1>1. Len(b) \in Nat /\ \A k \in 1 .. Len(b) : b[k].addr \in Nat /\ b[k].size \in Nat
  BY BlockTypes DEF Tiles
<1> DEFINE N == j - i - 1
           S == {n \in 0 .. N : b[i].addr + b[i].size <= b[i + 1 + n].addr}
<1>2. N \in Nat /\ 0 \in 0 .. N /\ N \in 0 .. N /\ i + 1 + N = j /\ i + 1 + 0 = i + 1
  BY <1>1
<1>3. 0 \in S
  <2>1. i \in 1 .. Len(b) - 1
    BY <1>1
  <2>2. b[i + 1].addr = b[i].addr + b[i].size /\ i + 1 \in 1 .. Len(b)
    BY <1>1, <2>1 DEF Tiles
  <2>3. b[i].addr + b[i].size \in Nat
    BY <1>1
  <2>4. b[i].addr + b[i].size <= b[i + 1 + 0].addr
    BY <1>2, <2>2, <2>3
  <2> QED
    BY <1>2, <2>4
<1>4. ASSUME NEW n \in 0 .. N, n \in S, n < N
      PROVE  n + 1 \in S
  <2> DEFINE k == i + 1 + n
  <2>1. k \in 1 .. Len(b) - 1 /\ k \in 1 .. Len(b) /\ k + 1 \in 1 .. Len(b) /\ i + 1 + (n + 1) = k + 1
        /\ n + 1 \in 0 .. N
    BY <1>1, <1>2, <1>4
  <2>2. b[i].addr + b[i].size <= b[k].addr
    BY <1>4
  <2> HIDE DEF k
  <2>3. b[k + 1].addr = b[k].addr + b[k].size
    BY <2>1 DEF Tiles
  <2>4. b[i].addr + b[i].size <= b[k + 1].addr
    <3> DEFINE x == b[i].addr + b[i].size
               y == b[k].addr
               z == b[k].size
    <3>1. x \in Nat /\ y \in Nat /\ z \in Nat /\ x <= y
      BY <1>1, <2>1, <2>2
    <3> HIDE DEF x, y, z
    <3>2. x <= y + z
      BY <3>1
    <3> QED
      BY <2>3, <3>2 DEF x, y, z
  <2> QED
    BY <2>1, <2>4
<1>5. 0 .. N \subseteq S
  <2> HIDE DEF S, N
  <2> QED
    BY <1>2, <1>3, <1>4, UpTo
<1> QED
  BY <1>2, <1>5

LEMMA SizesCount ==
  /\ HEADER \in Nat \ {0} /\ KHEAP_BLOCK_MIN \in Nat \ {0} /\ PMM_FRAME_SIZE \in Nat \ {0}
  /\ KHEAP_END \in Nat /\ INITIAL \in Nat
  BY HeapAssumption

LEMMA AddressesDiffer ==
  ASSUME NEW b, Tiles(b), NEW i \in 1 .. Len(b), NEW j \in 1 .. Len(b), b[i].addr = b[j].addr
  PROVE  i = j
<1>1. Len(b) \in Nat /\ \A k \in 1 .. Len(b) : b[k].addr \in Nat /\ b[k].size \in Nat /\ b[k].size > 0
  BY BlockTypes, SizesCount DEF Tiles
<1>2. ~(i < j)
  BY <1>1, Ordered
<1>3. ~(j < i)
  BY <1>1, Ordered
<1> QED
  BY <1>1, <1>2, <1>3

LEMMA IndexFound ==
  ASSUME NEW b, Tiles(b), NEW i \in 1 .. Len(b)
  PROVE  IndexOf(b, b[i].addr) = i
  BY AddressesDiffer DEF IndexOf

LEMMA EndIs ==
  ASSUME NEW b, Tiles(b)
  PROVE  EndOf(b) = IF Len(b) = 0 THEN 0 ELSE b[Len(b)].addr + b[Len(b)].size
<1>1. b \in Seq(Blk)
  BY DEF Tiles
<1>2. b = << >> <=> Len(b) = 0
  BY <1>1
<1> QED
  BY <1>2 DEF EndOf, Last

-----------------------------------------------------------------------------
(***************************************************************************)
(* The bytes in use.                                                       *)
(***************************************************************************)
LEMMA SumSteps ==
  ASSUME NEW b \in Seq(Blk)
  PROVE  \E f : /\ f[0] = 0 /\ \A n \in 1 .. Len(b) : f[n] = f[n - 1] + Weight(b[n])
                /\ \A n \in 0 .. Len(b) : f[n] \in Nat
                /\ UsedBytes(b) = f[Len(b)]
<1> DEFINE N == Len(b)
           Is(g, m) == g = [n \in 0 .. m |-> IF n = 0 THEN 0 ELSE g[n - 1] + (IF b[n].used THEN b[n].size ELSE 0)]
           S == {m \in 0 .. N : \E g : Is(g, m)}
           f == CHOOSE g : Is(g, N)
<1>1. UsedBytes(b) = f[N]
  BY DEF UsedBytes
<1>2. N \in Nat /\ 0 \in 0 .. N /\ N \in 0 .. N
  OBVIOUS
<1> HIDE DEF N
<1>3. 0 \in S
  <2> DEFINE g == [n \in 0 .. 0 |-> 0]
  <2>1. Is(g, 0)
    OBVIOUS
  <2> HIDE DEF Is, g
  <2> QED
    BY <1>2, <2>1
<1>4. ASSUME NEW m \in 0 .. N, m \in S, m < N
      PROVE  m + 1 \in S
  <2>1. PICK g : Is(g, m)
    BY <1>4
  <2> DEFINE w(n) == IF b[n].used THEN b[n].size ELSE 0
             h == [n \in 0 .. m + 1 |-> IF n <= m THEN g[n] ELSE g[m] + w(m + 1)]
  <2>2. \A n \in 0 .. m : g[n] = IF n = 0 THEN 0 ELSE g[n - 1] + w(n)
    BY <2>1
  <2> HIDE DEF w
  <2>3. \A n \in 0 .. m + 1 : h[n] = IF n = 0 THEN 0 ELSE h[n - 1] + w(n)
    <3> SUFFICES ASSUME NEW n \in 0 .. m + 1
                 PROVE  h[n] = IF n = 0 THEN 0 ELSE h[n - 1] + w(n)
      OBVIOUS
    <3>1. CASE n = 0
      BY <2>2, <3>1
    <3>2. CASE n \in 1 .. m
      <4>1. h[n] = g[n] /\ h[n - 1] = g[n - 1] /\ n \in 0 .. m /\ n # 0
        BY <3>2
      <4> HIDE DEF h
      <4> QED
        BY <2>2, <4>1
    <3>3. CASE n = m + 1
      <4>1. h[n] = g[m] + w(m + 1) /\ h[n - 1] = g[m] /\ n # 0
        BY <3>3
      <4> HIDE DEF h
      <4> QED
        BY <3>3, <4>1
    <3> QED
      BY <3>1, <3>2, <3>3
  <2>4. Is(h, m + 1)
    <3>1. h = [n \in 0 .. m + 1 |-> h[n]]
      OBVIOUS
    <3> HIDE DEF h
    <3> QED
      BY <2>3, <3>1 DEF w
  <2>5. m + 1 \in 0 .. N
    BY <1>2, <1>4
  <2> HIDE DEF Is, h
  <2> QED
    BY <2>4, <2>5
<1>5. Is(f, N)
  <2>1. 0 .. N \subseteq S
    <3> HIDE DEF S
    <3> QED
      BY <1>2, <1>3, <1>4, UpTo
  <2> HIDE DEF Is
  <2>2. \E g : Is(g, N)
    BY <1>2, <2>1
  <2> QED
    BY <2>2
<1> HIDE DEF f
<1>6. \A n \in 0 .. N : f[n] = IF n = 0 THEN 0 ELSE f[n - 1] + Weight(b[n])
  BY <1>5 DEF Weight
<1>7. f[0] = 0 /\ \A n \in 1 .. N : f[n] = f[n - 1] + Weight(b[n])
  BY <1>2, <1>6
<1> DEFINE T == {n \in 0 .. N : f[n] \in Nat}
<1>8. ASSUME NEW n \in 0 .. N, n \in T, n < N
      PROVE  n + 1 \in T
  <2>1. n + 1 \in 1 .. N /\ n + 1 \in 0 .. N /\ n + 1 - 1 = n
    BY <1>2, <1>8
  <2>2. f[n + 1] = f[n] + Weight(b[n + 1])
    BY <1>7, <2>1
  <2>3. Weight(b[n + 1]) \in Nat
    BY <2>1, BlockTypes DEF N
  <2> QED
    BY <1>8, <2>1, <2>2, <2>3
<1>9. 0 .. N \subseteq T
  <2>1. 0 \in T
    BY <1>2, <1>7
  <2> HIDE DEF T
  <2> QED
    BY <1>2, <1>8, <2>1, UpTo
<1> QED
  BY <1>1, <1>7, <1>9 DEF N

(* One block is changed.                                                   *)
LEMMA SumChange ==
  ASSUME NEW b \in Seq(Blk), NEW c \in Seq(Blk), Len(c) = Len(b), NEW k \in 1 .. Len(b),
         \A n \in 1 .. Len(b) : n # k => Weight(c[n]) = Weight(b[n])
  PROVE  UsedBytes(c) = UsedBytes(b) + Weight(c[k]) - Weight(b[k]) /\ UsedBytes(b) \in Nat
<1> DEFINE N == Len(b)
<1>1. PICK f : /\ f[0] = 0 /\ \A n \in 1 .. N : f[n] = f[n - 1] + Weight(b[n])
               /\ \A n \in 0 .. N : f[n] \in Nat
               /\ UsedBytes(b) = f[N]
  BY SumSteps
<1>2. PICK g : /\ g[0] = 0 /\ \A n \in 1 .. N : g[n] = g[n - 1] + Weight(c[n])
               /\ \A n \in 0 .. N : g[n] \in Nat
               /\ UsedBytes(c) = g[N]
  BY SumSteps
<1>3. N \in Nat /\ 0 \in 0 .. N /\ N \in 0 .. N /\ k \in 1 .. N
      /\ \A n \in 1 .. N : Weight(b[n]) \in Nat /\ Weight(c[n]) \in Nat
  BY BlockTypes
<1>4. \A n \in 1 .. N : n # k => Weight(c[n]) = Weight(b[n])
  OBVIOUS
<1> HIDE DEF N
<1> DEFINE d == Weight(c[k]) - Weight(b[k])
           S == {n \in 0 .. N : g[n] = IF n < k THEN f[n] ELSE f[n] + d}
<1>5. d \in Int /\ d = Weight(c[k]) - Weight(b[k])
  BY <1>3
<1> HIDE DEF d
<1>6. 0 \in S
  BY <1>1, <1>2, <1>3
<1>7. ASSUME NEW n \in 0 .. N, n \in S, n < N
      PROVE  n + 1 \in S
  <2>1. n + 1 \in 1 .. N /\ n + 1 \in 0 .. N /\ n + 1 - 1 = n /\ n \in Nat
    BY <1>3, <1>7
  <2>2. f[n + 1] = f[n] + Weight(b[n + 1]) /\ g[n + 1] = g[n] + Weight(c[n + 1])
    BY <1>1, <1>2, <2>1
  <2>3. f[n] \in Nat /\ g[n] \in Nat /\ Weight(b[n + 1]) \in Nat /\ Weight(c[n + 1]) \in Nat
    BY <1>1, <1>2, <1>3, <2>1
  <2>4. g[n] = IF n < k THEN f[n] ELSE f[n] + d
    BY <1>7
  <2>5. CASE n + 1 = k
    BY <1>5, <2>1, <2>2, <2>3, <2>4, <2>5
  <2>6. CASE n + 1 # k
    <3>1. Weight(c[n + 1]) = Weight(b[n + 1])
      BY <1>4, <2>1, <2>6
    <3>2. n + 1 < k <=> n < k
      BY <1>3, <2>1, <2>6
    <3> QED
      BY <1>5, <2>1, <2>2, <2>3, <2>4, <3>1, <3>2
  <2> QED
    BY <2>5, <2>6
<1>8. 0 .. N \subseteq S
  <2> HIDE DEF S
  <2> QED
    BY <1>3, <1>6, <1>7, UpTo
<1>9. g[N] = f[N] + d
  BY <1>3, <1>8
<1> QED
  BY <1>1, <1>2, <1>3, <1>5, <1>9

(* A block that is not used is left out, or put in.                        *)
LEMMA SumDrop ==
  ASSUME NEW b \in Seq(Blk), NEW c \in Seq(Blk), NEW k \in 1 .. Len(b), Len(c) = Len(b) - 1,
         Weight(b[k]) = 0,
         \A n \in 1 .. Len(c) : Weight(c[n]) = IF n < k THEN Weight(b[n]) ELSE Weight(b[n + 1])
  PROVE  UsedBytes(c) = UsedBytes(b) /\ UsedBytes(b) \in Nat
<1> DEFINE N == Len(c)
<1>1. PICK f : /\ f[0] = 0 /\ \A n \in 1 .. Len(b) : f[n] = f[n - 1] + Weight(b[n])
               /\ \A n \in 0 .. Len(b) : f[n] \in Nat
               /\ UsedBytes(b) = f[Len(b)]
  BY SumSteps
<1>2. PICK g : /\ g[0] = 0 /\ \A n \in 1 .. N : g[n] = g[n - 1] + Weight(c[n])
               /\ \A n \in 0 .. N : g[n] \in Nat
               /\ UsedBytes(c) = g[N]
  BY SumSteps
<1>3. /\ N \in Nat /\ 0 \in 0 .. N /\ N \in 0 .. N /\ k \in 1 .. N + 1 /\ Len(b) = N + 1
      /\ \A n \in 1 .. N : Weight(c[n]) \in Nat
      /\ \A n \in 1 .. N + 1 : Weight(b[n]) \in Nat
  <2>1. Len(b) \in Nat /\ \A n \in 1 .. Len(b) : Weight(b[n]) \in Nat
    BY BlockTypes
  <2>2. Len(c) \in Nat /\ \A n \in 1 .. Len(c) : Weight(c[n]) \in Nat
    BY BlockTypes
  <2>3. Len(b) = N + 1 /\ k \in 1 .. N + 1 /\ N \in Nat
    BY <2>1, <2>2
  <2> QED
    BY <2>1, <2>2, <2>3
<1>4. \A n \in 1 .. N : Weight(c[n]) = IF n < k THEN Weight(b[n]) ELSE Weight(b[n + 1])
  OBVIOUS
<1> HIDE DEF N
<1> DEFINE S == {n \in 0 .. N : g[n] = IF n < k THEN f[n] ELSE f[n + 1]}
<1>5. f[k] = f[k - 1]
  <2>1. f[k] = f[k - 1] + Weight(b[k]) /\ k - 1 \in 0 .. N + 1
    BY <1>1, <1>3
  <2> QED
    BY <1>1, <1>3, <2>1
<1>6. 0 \in S
  BY <1>1, <1>2, <1>3
<1>7. ASSUME NEW n \in 0 .. N, n \in S, n < N
      PROVE  n + 1 \in S
  <2>1. n + 1 \in 1 .. N /\ n + 1 \in 0 .. N /\ n + 1 - 1 = n /\ n \in Nat
        /\ n + 1 \in 1 .. Len(b) /\ n + 2 \in 1 .. Len(b) /\ n + 2 - 1 = n + 1 /\ n + 1 + 1 = n + 2
    BY <1>3, <1>7
  <2>2. f[n + 1] = f[n] + Weight(b[n + 1]) /\ g[n + 1] = g[n] + Weight(c[n + 1])
        /\ f[n + 2] = f[n + 1] + Weight(b[n + 2])
    BY <1>1, <1>2, <2>1
  <2>3. g[n] = IF n < k THEN f[n] ELSE f[n + 1]
    BY <1>7
  <2>4. CASE n + 1 < k
    <3>1. Weight(c[n + 1]) = Weight(b[n + 1]) /\ g[n] = f[n]
      BY <1>3, <1>4, <2>1, <2>3, <2>4
    <3> QED
      BY <2>1, <2>2, <2>4, <3>1
  <2>5. CASE ~(n + 1 < k)
    <3>1. Weight(c[n + 1]) = Weight(b[n + 2])
      BY <1>4, <2>1, <2>5
    <3>2. g[n] = f[n + 1]
      <4>1. CASE n < k
        <5>1. n = k - 1 /\ n + 1 = k
          BY <1>3, <2>1, <2>5, <4>1
        <5> QED
          BY <1>5, <2>3, <4>1, <5>1
      <4>2. CASE ~(n < k)
        BY <2>3, <4>2
      <4> QED
        BY <4>1, <4>2
    <3> QED
      BY <2>1, <2>2, <2>5, <3>1, <3>2
  <2> QED
    BY <2>4, <2>5
<1>8. 0 .. N \subseteq S
  <2> HIDE DEF S
  <2> QED
    BY <1>3, <1>6, <1>7, UpTo
<1>9. g[N] = f[N + 1]
  <2>1. CASE N < k
    BY <1>3, <1>5, <1>8, <2>1
  <2>2. CASE ~(N < k)
    BY <1>3, <1>8, <2>2
  <2> QED
    BY <2>1, <2>2
<1> QED
  BY <1>1, <1>2, <1>3, <1>9

LEMMA SumAppend ==
  ASSUME NEW b \in Seq(Blk), NEW e \in Blk
  PROVE  UsedBytes(Append(b, e)) = UsedBytes(b) + Weight(e) /\ UsedBytes(b) \in Nat
<1> DEFINE e0 == [addr |-> e.addr, size |-> e.size, used |-> FALSE, prev |-> e.prev]
           N == Len(b)
           b0 == Append(b, e0)
           b1 == Append(b, e)
<1>1. e0 \in Blk /\ Weight(e0) = 0 /\ Weight(e) \in Nat
  BY DEF Blk, Weight
<1> HIDE DEF e0
<1>2. /\ N \in Nat /\ N + 1 \in 1 .. N + 1
      /\ b0 \in Seq(Blk) /\ Len(b0) = N + 1 /\ b0[N + 1] = e0 /\ \A n \in 1 .. N : b0[n] = b[n]
  BY <1>1
<1>3. b1 \in Seq(Blk) /\ Len(b1) = N + 1 /\ b1[N + 1] = e /\ \A n \in 1 .. N : b1[n] = b[n]
  OBVIOUS
<1> HIDE DEF b0, b1, N
<1>4. UsedBytes(b) = UsedBytes(b0) /\ UsedBytes(b0) \in Nat
  <2>1. Len(b) = Len(b0) - 1 /\ N + 1 \in 1 .. Len(b0) /\ Weight(b0[N + 1]) = 0
    BY <1>1, <1>2 DEF N
  <2>2. \A n \in 1 .. Len(b) : Weight(b[n]) = IF n < N + 1 THEN Weight(b0[n]) ELSE Weight(b0[n + 1])
    BY <1>2 DEF N
  <2> QED
    BY <1>2, <2>1, <2>2, SumDrop
<1>5. UsedBytes(b1) = UsedBytes(b0) + Weight(b1[N + 1]) - Weight(b0[N + 1])
  <2>1. \A n \in 1 .. Len(b0) : n # N + 1 => Weight(b1[n]) = Weight(b0[n])
    BY <1>2, <1>3
  <2>2. Len(b1) = Len(b0) /\ N + 1 \in 1 .. Len(b0)
    BY <1>2, <1>3
  <2> QED
    BY <1>2, <1>3, <2>1, <2>2, SumChange
<1> QED
  BY <1>1, <1>2, <1>3, <1>4, <1>5 DEF b1

-----------------------------------------------------------------------------
(***************************************************************************)
(* What the operators on lists return.                                     *)
(***************************************************************************)
LEMMA RemoveIs ==
  ASSUME NEW S, NEW s \in Seq(S), NEW i \in 1 .. Len(s)
  PROVE  /\ RemoveAt(s, i) \in Seq(S) /\ Len(RemoveAt(s, i)) = Len(s) - 1
         /\ \A n \in 1 .. Len(s) - 1 : RemoveAt(s, i)[n] = IF n < i THEN s[n] ELSE s[n + 1]
<1> DEFINE a == SubSeq(s, 1, i - 1)
           z == SubSeq(s, i + 1, Len(s))
<1>1. /\ a \in Seq(S) /\ Len(a) = i - 1 /\ \A n \in 1 .. i - 1 : a[n] = s[n]
      /\ z \in Seq(S) /\ Len(z) = Len(s) - i /\ \A n \in 1 .. Len(s) - i : z[n] = s[n + i]
      /\ Len(s) \in Nat
  OBVIOUS
<1>2. RemoveAt(s, i) = a \o z
  BY DEF RemoveAt
<1> HIDE DEF a, z
<1>3. /\ a \o z \in Seq(S) /\ Len(a \o z) = Len(a) + Len(z)
      /\ \A n \in 1 .. Len(a) + Len(z) : (a \o z)[n] = IF n <= Len(a) THEN a[n] ELSE z[n - Len(a)]
  BY <1>1, ConcatProperties
<1>4. ASSUME NEW n \in 1 .. Len(s) - 1
      PROVE  (a \o z)[n] = IF n < i THEN s[n] ELSE s[n + 1]
  <2>1. n \in 1 .. Len(a) + Len(z) /\ (n < i <=> n <= Len(a))
    BY <1>1
  <2>2. CASE n < i
    BY <1>1, <1>3, <2>1, <2>2
  <2>3. CASE ~(n < i)
    <3>1. (a \o z)[n] = z[n - (i - 1)] /\ n - (i - 1) \in 1 .. Len(s) - i /\ n - (i - 1) + i = n + 1
      BY <1>1, <1>3, <2>1, <2>3
    <3>2. z[n - (i - 1)] = s[n - (i - 1) + i]
      BY <1>1, <3>1
    <3> QED
      BY <2>3, <3>1, <3>2
  <2> QED
    BY <2>2, <2>3
<1> QED
  BY <1>1, <1>2, <1>3, <1>4

IsInserted(S, s, i, e, c) ==
  /\ c \in Seq(S) /\ Len(c) = Len(s) + 1
  /\ \A n \in 1 .. Len(s) + 1 : c[n] = IF n < i THEN s[n] ELSE IF n = i THEN e ELSE s[n - 1]

LEMMA InsertIs ==
  ASSUME NEW S, NEW s \in Seq(S), NEW i \in 1 .. Len(s) + 1, NEW e \in S
  PROVE  IsInserted(S, s, i, e, InsertAt(s, i, e))
<1> DEFINE a == SubSeq(s, 1, i - 1)
           one == <<e>>
           z == SubSeq(s, i, Len(s))
           ae == a \o one
<1>1. /\ a \in Seq(S) /\ Len(a) = i - 1 /\ \A n \in 1 .. i - 1 : a[n] = s[n]
      /\ z \in Seq(S) /\ Len(z) = Len(s) + 1 - i /\ \A n \in 1 .. Len(s) + 1 - i : z[n] = s[n + i - 1]
      /\ Len(s) \in Nat
  OBVIOUS
<1>2. one \in Seq(S) /\ Len(one) = 1 /\ one[1] = e
  OBVIOUS
<1>3. InsertAt(s, i, e) = ae \o z
  BY DEF InsertAt
<1> HIDE DEF one, a, z
<1>4. /\ ae \in Seq(S) /\ Len(ae) = i
      /\ \A n \in 1 .. i : ae[n] = IF n < i THEN a[n] ELSE e
  <2>1. /\ ae \in Seq(S) /\ Len(ae) = Len(a) + Len(one)
        /\ \A n \in 1 .. Len(a) + Len(one) : ae[n] = IF n <= Len(a) THEN a[n] ELSE one[n - Len(a)]
    <3>1. a \in Seq(S) /\ one \in Seq(S)
      BY <1>1, <1>2
    <3> QED
      BY ONLY <3>1, ConcatProperties
  <2> HIDE DEF ae
  <2>2. ASSUME NEW n \in 1 .. i PROVE ae[n] = IF n < i THEN a[n] ELSE e
    <3>1. n \in 1 .. Len(a) + Len(one) /\ (n <= Len(a) <=> n < i) /\ (~(n < i) => n - Len(a) = 1)
      BY <1>1, <1>2
    <3> QED
      BY <1>2, <2>1, <3>1
  <2> QED
    BY <1>1, <1>2, <2>1, <2>2
<1> HIDE DEF ae
<1>5. /\ ae \o z \in Seq(S) /\ Len(ae \o z) = Len(ae) + Len(z)
      /\ \A n \in 1 .. Len(ae) + Len(z) : (ae \o z)[n] = IF n <= Len(ae) THEN ae[n] ELSE z[n - Len(ae)]
  <2>1. ae \in Seq(S) /\ z \in Seq(S)
    BY <1>1, <1>4
  <2> QED
    BY ONLY <2>1, ConcatProperties
<1>6. ASSUME NEW n \in 1 .. Len(s) + 1
      PROVE  (ae \o z)[n] = IF n < i THEN s[n] ELSE IF n = i THEN e ELSE s[n - 1]
  <2>1. n \in 1 .. Len(ae) + Len(z) /\ Len(ae) = i
    BY <1>1, <1>4
  <2>2. CASE n <= i
    <3>1. (ae \o z)[n] = ae[n] /\ n \in 1 .. i
      BY <1>5, <2>1, <2>2
    <3> QED
      BY <1>1, <1>4, <2>2, <3>1
  <2>3. CASE ~(n <= i)
    <3>1. (ae \o z)[n] = z[n - i] /\ n - i \in 1 .. Len(s) + 1 - i /\ n - i + i - 1 = n - 1
      BY <1>1, <1>5, <2>1, <2>3
    <3>2. z[n - i] = s[n - i + i - 1]
      BY <1>1, <3>1
    <3> QED
      BY <2>3, <3>1, <3>2
  <2> QED
    BY <2>2, <2>3
<1>7. Len(ae \o z) = Len(s) + 1
  BY <1>1, <1>4, <1>5
<1> QED
  BY <1>3, <1>5, <1>6, <1>7 DEF IsInserted

(* A field of a block is written.                                          *)
LEMMA FieldsWritten ==
  ASSUME NEW e \in Blk
  PROVE  /\ \A p \in Nat \cup {NULL} :
              /\ [e EXCEPT !.prev = p] \in Blk /\ [e EXCEPT !.prev = p].prev = p
              /\ [e EXCEPT !.prev = p].addr = e.addr /\ [e EXCEPT !.prev = p].size = e.size
              /\ [e EXCEPT !.prev = p].used = e.used
         /\ \A n \in Nat :
              /\ [e EXCEPT !.size = n] \in Blk /\ [e EXCEPT !.size = n].prev = e.prev
              /\ [e EXCEPT !.size = n].addr = e.addr /\ [e EXCEPT !.size = n].size = n
              /\ [e EXCEPT !.size = n].used = e.used
         /\ \A u \in BOOLEAN :
              /\ [e EXCEPT !.used = u] \in Blk /\ [e EXCEPT !.used = u].prev = e.prev
              /\ [e EXCEPT !.used = u].addr = e.addr /\ [e EXCEPT !.used = u].size = e.size
              /\ [e EXCEPT !.used = u].used = u
  BY DEF Blk

IsRelinked(b, i, p, c) ==
  /\ c \in Seq(Blk) /\ Len(c) = Len(b)
  /\ \A n \in 1 .. Len(b) :
       /\ c[n].addr = b[n].addr /\ c[n].size = b[n].size /\ c[n].used = b[n].used
       /\ c[n].prev = IF n = i THEN p ELSE b[n].prev

LEMMA RelinkedIs ==
  ASSUME NEW b \in Seq(Blk), NEW i \in Int, NEW p \in Nat \cup {NULL}
  PROVE  IsRelinked(b, i, p, Relinked(b, i, p))
<1>1. CASE i \in 1 .. Len(b)
  <2> DEFINE e == [b[i] EXCEPT !.prev = p]
  <2>1. e \in Blk /\ e.prev = p /\ e.addr = b[i].addr /\ e.size = b[i].size /\ e.used = b[i].used
    BY <1>1, FieldsWritten
  <2>2. Relinked(b, i, p) = [b EXCEPT ![i] = e]
    BY <1>1 DEF Relinked
  <2> HIDE DEF e
  <2>3. /\ [b EXCEPT ![i] = e] \in Seq(Blk) /\ Len([b EXCEPT ![i] = e]) = Len(b)
        /\ \A n \in 1 .. Len(b) : [b EXCEPT ![i] = e][n] = IF n = i THEN e ELSE b[n]
    BY <1>1, <2>1, ExceptSeq
  <2> QED
    BY <2>1, <2>2, <2>3 DEF IsRelinked
<1>2. CASE i \notin 1 .. Len(b)
  BY <1>2 DEF Relinked, IsRelinked
<1> QED
  BY <1>1, <1>2

-----------------------------------------------------------------------------
(***************************************************************************)
(* kfree(): two free neighbours become one.                                *)
(***************************************************************************)
IsMerged(b, j, c) ==
  /\ c \in Seq(Blk) /\ Len(c) = Len(b) - 1
  /\ \A n \in 1 .. Len(c) :
       /\ c[n].addr = IF n <= j THEN b[n].addr ELSE b[n + 1].addr
       /\ c[n].used = IF n <= j THEN b[n].used ELSE b[n + 1].used
       /\ c[n].size = IF n < j THEN b[n].size ELSE IF n = j THEN b[n].size + b[n + 1].size ELSE b[n + 1].size
       /\ c[n].prev = IF n <= j THEN b[n].prev ELSE IF n = j + 1 THEN b[j].addr ELSE b[n + 1].prev

Widened(b, j) == [b EXCEPT ![j].size = @ + b[j + 1].size]

LEMMA WidenedIs ==
  ASSUME NEW b \in Seq(Blk), NEW j \in 1 .. Len(b) - 1
  PROVE  /\ Widened(b, j) \in Seq(Blk) /\ Len(Widened(b, j)) = Len(b)
         /\ \A n \in 1 .. Len(b) :
              /\ Widened(b, j)[n].addr = b[n].addr /\ Widened(b, j)[n].used = b[n].used
              /\ Widened(b, j)[n].prev = b[n].prev
              /\ Widened(b, j)[n].size = IF n = j THEN b[n].size + b[n + 1].size ELSE b[n].size
              /\ n # j => Widened(b, j)[n] = b[n]
<1> DEFINE w == Widened(b, j)
           e == [b[j] EXCEPT !.size = b[j].size + b[j + 1].size]
<1>1. /\ Len(b) \in Nat /\ j \in 1 .. Len(b) /\ b[j] \in Blk /\ b[j].size + b[j + 1].size \in Nat
  <2>1. Len(b) \in Nat /\ \A k \in 1 .. Len(b) : b[k] \in Blk /\ b[k].size \in Nat
    BY BlockTypes
  <2>2. j \in 1 .. Len(b) /\ j + 1 \in 1 .. Len(b)
    BY <2>1
  <2>3. b[j].size \in Nat /\ b[j + 1].size \in Nat /\ b[j] \in Blk
    BY <2>1, <2>2
  <2> QED
    BY <2>1, <2>2, <2>3
<1>2. /\ e \in Blk /\ e.prev = b[j].prev /\ e.addr = b[j].addr /\ e.size = b[j].size + b[j + 1].size
      /\ e.used = b[j].used
  BY <1>1, FieldsWritten
<1>3. w = [b EXCEPT ![j] = e]
  BY DEF Widened
<1> HIDE DEF e
<1>4. /\ w \in Seq(Blk) /\ Len(w) = Len(b) /\ \A n \in 1 .. Len(b) : w[n] = IF n = j THEN e ELSE b[n]
  <2>1. b \in Seq(Blk) /\ j \in 1 .. Len(b) /\ e \in Blk
    BY <1>1, <1>2
  <2>2. /\ [b EXCEPT ![j] = e] \in Seq(Blk) /\ Len([b EXCEPT ![j] = e]) = Len(b)
        /\ \A n \in 1 .. Len(b) : [b EXCEPT ![j] = e][n] = IF n = j THEN e ELSE b[n]
    BY ONLY <2>1, ExceptSeq
  <2> QED
    BY <1>3, <2>2
<1> QED
  BY <1>2, <1>4

(* Both functions widen the block in front, take the one behind out of the  *)
(* list and link the one that follows to the block that is left.            *)
LEMMA MergedIs ==
  ASSUME NEW b \in Seq(Blk), NEW j \in 1 .. Len(b) - 1,
         NEW r \in Seq(Blk), Len(r) = Len(b) - 1,
         \A n \in 1 .. Len(b) - 1 : r[n] = IF n < j + 1 THEN Widened(b, j)[n] ELSE Widened(b, j)[n + 1]
  PROVE  IsMerged(b, j, Relinked(r, j + 1, b[j].addr))
<1> DEFINE c == Relinked(r, j + 1, b[j].addr)
           w == Widened(b, j)
<1>1. /\ Len(b) \in Nat /\ j \in 1 .. Len(b) /\ j \in Int /\ j + 1 \in Int /\ b[j].addr \in Nat \cup {NULL}
  <2>1. Len(b) \in Nat /\ \A k \in 1 .. Len(b) : b[k].addr \in Nat
    BY BlockTypes
  <2> QED
    BY <2>1
<1>2. \A n \in 1 .. Len(b) :
        /\ w[n].addr = b[n].addr /\ w[n].used = b[n].used /\ w[n].prev = b[n].prev
        /\ w[n].size = IF n = j THEN b[n].size + b[n + 1].size ELSE b[n].size
  BY WidenedIs
<1>3. /\ c \in Seq(Blk) /\ Len(c) = Len(r)
      /\ \A n \in 1 .. Len(r) :
           /\ c[n].addr = r[n].addr /\ c[n].size = r[n].size
           /\ c[n].used = r[n].used
           /\ c[n].prev = IF n = j + 1 THEN b[j].addr ELSE r[n].prev
  <2>1. IsRelinked(r, j + 1, b[j].addr, c)
    BY <1>1, RelinkedIs
  <2> HIDE DEF c
  <2> QED
    BY <2>1 DEF IsRelinked
<1> HIDE DEF c, w
<1>4. ASSUME NEW n \in 1 .. Len(c)
      PROVE  /\ c[n].addr = IF n <= j THEN b[n].addr ELSE b[n + 1].addr
             /\ c[n].used = IF n <= j THEN b[n].used ELSE b[n + 1].used
             /\ c[n].size = IF n < j THEN b[n].size ELSE IF n = j THEN b[n].size + b[n + 1].size ELSE b[n + 1].size
             /\ c[n].prev = IF n <= j THEN b[n].prev ELSE IF n = j + 1 THEN b[j].addr ELSE b[n + 1].prev
  <2>1. n \in 1 .. Len(r) /\ n \in 1 .. Len(b) - 1 /\ n \in 1 .. Len(b) /\ n + 1 \in 1 .. Len(b)
        /\ n \in Int /\ j \in Int
    BY <1>1, <1>3
  <2>2. r[n] = IF n < j + 1 THEN w[n] ELSE w[n + 1]
    BY <2>1 DEF w
  <2>3. CASE n <= j
    <3>1. r[n] = w[n] /\ n # j + 1
      BY <2>1, <2>2, <2>3
    <3>2. /\ w[n].addr = b[n].addr /\ w[n].used = b[n].used /\ w[n].prev = b[n].prev
          /\ w[n].size = IF n = j THEN b[n].size + b[n + 1].size ELSE b[n].size
      BY <1>2, <2>1
    <3>3. /\ c[n].addr = r[n].addr /\ c[n].size = r[n].size /\ c[n].used = r[n].used /\ c[n].prev = r[n].prev
      BY <1>3, <2>1, <3>1
    <3> QED
      BY <2>1, <2>3, <3>1, <3>2, <3>3
  <2>4. CASE n > j
    <3>1. r[n] = w[n + 1] /\ ~(n <= j) /\ n # j /\ ~(n < j) /\ n + 1 # j
      BY <2>1, <2>2, <2>4
    <3>2. /\ w[n + 1].addr = b[n + 1].addr /\ w[n + 1].used = b[n + 1].used
          /\ w[n + 1].prev = b[n + 1].prev /\ w[n + 1].size = b[n + 1].size
      BY <1>2, <2>1, <3>1
    <3>3. /\ c[n].addr = r[n].addr /\ c[n].size = r[n].size /\ c[n].used = r[n].used
          /\ c[n].prev = IF n = j + 1 THEN b[j].addr ELSE r[n].prev
      BY <1>3, <2>1
    <3> QED
      BY <3>1, <3>2, <3>3
  <2> QED
    BY <2>1, <2>3, <2>4
<1> QED
  BY <1>3, <1>4 DEF IsMerged, c

LEMMA MergeNextIs ==
  ASSUME NEW b, Tiles(b), NEW i \in 1 .. Len(b)
  PROVE  IF i < Len(b) /\ ~b[i + 1].used THEN IsMerged(b, i, MergeNext(b, i)) ELSE MergeNext(b, i) = b
<1>1. CASE i < Len(b) /\ ~b[i + 1].used
  <2> DEFINE w == Widened(b, i)
             r == RemoveAt(w, i + 1)
  <2>1. b \in Seq(Blk) /\ Len(b) \in Nat /\ i \in 1 .. Len(b) - 1
    BY <1>1 DEF Tiles
  <2>2. w \in Seq(Blk) /\ Len(w) = Len(b) /\ i + 1 \in 1 .. Len(w)
    BY <2>1, WidenedIs
  <2>3. r \in Seq(Blk) /\ Len(r) = Len(w) - 1
        /\ \A n \in 1 .. Len(w) - 1 : r[n] = IF n < i + 1 THEN w[n] ELSE w[n + 1]
    <3> HIDE DEF w
    <3> QED
      BY <2>2, RemoveIs
  <2>4. MergeNext(b, i) = Relinked(r, i + 1, b[i].addr)
    BY <1>1 DEF MergeNext, Widened
  <2> HIDE DEF r
  <2>5. IsMerged(b, i, Relinked(r, i + 1, b[i].addr))
    BY <2>1, <2>2, <2>3, MergedIs
  <2> QED
    BY <1>1, <2>4, <2>5
<1>2. CASE ~(i < Len(b) /\ ~b[i + 1].used)
  BY <1>2 DEF MergeNext
<1> QED
  BY <1>1, <1>2

LEMMA MergePrevIs ==
  ASSUME NEW b, Tiles(b), NEW i \in 1 .. Len(b)
  PROVE  /\ b[i].prev # NULL => i > 1
         /\ IF b[i].prev # NULL /\ ~b[i - 1].used THEN IsMerged(b, i - 1, MergePrev(b, i)) ELSE MergePrev(b, i) = b
<1>1. b \in Seq(Blk) /\ Len(b) \in Nat
  BY DEF Tiles
<1>2. CASE b[i].prev = NULL
  BY <1>2 DEF MergePrev
<1>3. CASE b[i].prev # NULL
  <2> DEFINE j == i - 1
  <2>1. i # 1
    BY <1>1, <1>3 DEF Tiles
  <2>2. j \in 1 .. Len(b) - 1 /\ j \in 1 .. Len(b) /\ j + 1 = i /\ i > 1
    BY <1>1, <2>1
  <2>3. b[i].prev = b[j].addr
    <3> HIDE DEF j
    <3>1. b[j + 1].prev \in {NULL, b[j].addr}
      BY <2>2 DEF Tiles
    <3> QED
      BY <1>3, <2>2, <3>1
  <2>4. IndexOf(b, b[i].prev) = j
    <3> HIDE DEF j
    <3> QED
      BY <2>2, <2>3, IndexFound
  <2>5. CASE b[j].used
    BY <2>2, <2>4, <2>5 DEF MergePrev
  <2>6. CASE ~b[j].used
    <3> DEFINE w == Widened(b, j)
               a == SubSeq(w, 1, j)
               z == SubSeq(b, i + 1, Len(b))
               r == a \o z
    <3>1. MergePrev(b, i) = Relinked(r, j + 1, b[j].addr)
      <4> HIDE DEF j
      <4> QED
        BY <1>3, <2>2, <2>4, <2>6 DEF MergePrev, Widened
    <3> HIDE DEF j
    <3>3. w \in Seq(Blk) /\ Len(w) = Len(b) /\ \A n \in 1 .. Len(b) : n # j => w[n] = b[n]
      BY <1>1, <2>2, WidenedIs
    <3> HIDE DEF w
    <3>4. /\ a \in Seq(Blk) /\ Len(a) = j /\ \A n \in 1 .. j : a[n] = w[n]
          /\ z \in Seq(Blk) /\ Len(z) = Len(b) - i /\ \A n \in 1 .. Len(b) - i : z[n] = b[n + i]
      BY <1>1, <2>2, <3>3
    <3> HIDE DEF a, z
    <3>5. /\ r \in Seq(Blk) /\ Len(r) = Len(a) + Len(z)
          /\ \A n \in 1 .. Len(a) + Len(z) : r[n] = IF n <= Len(a) THEN a[n] ELSE z[n - Len(a)]
      <4>1. a \in Seq(Blk) /\ z \in Seq(Blk)
        BY <3>4
      <4> QED
        BY ONLY <4>1, ConcatProperties
    <3> HIDE DEF r
    <3>6. Len(r) = Len(b) - 1 /\ Len(a) + Len(z) = Len(b) - 1
      <4>1. Len(a) = j /\ Len(z) = Len(b) - i /\ Len(r) = Len(a) + Len(z)
        BY <3>4, <3>5
      <4> QED
        BY <1>1, <2>2, <4>1
    <3>7. ASSUME NEW n \in 1 .. Len(b) - 1
          PROVE  r[n] = IF n < j + 1 THEN w[n] ELSE w[n + 1]
      <4>1. n \in 1 .. Len(a) + Len(z) /\ n \in Int /\ j \in Int
        BY <1>1, <2>2, <3>6
      <4>2. CASE n <= j
        BY <3>4, <3>5, <4>1, <4>2
      <4>3. CASE n > j
        <5>1. r[n] = z[n - j] /\ n - j \in 1 .. Len(b) - i /\ n - j + i = n + 1 /\ n + 1 # j /\ n + 1 \in 1 .. Len(b)
          BY <1>1, <2>2, <3>4, <3>5, <4>1, <4>3
        <5>2. z[n - j] = b[n - j + i]
          BY <3>4, <5>1
        <5>3. w[n + 1] = b[n + 1]
          BY <3>3, <5>1
        <5> QED
          BY <4>1, <4>3, <5>1, <5>2, <5>3
      <4> QED
        BY <4>1, <4>2, <4>3
    <3>8. IsMerged(b, j, Relinked(r, j + 1, b[j].addr))
      BY <1>1, <2>2, <3>5, <3>6, <3>7, MergedIs DEF w
    <3> QED
      BY <1>3, <2>2, <2>6, <3>1, <3>8 DEF j
  <2> QED
    BY <2>2, <2>5, <2>6 DEF j
<1> QED
  BY <1>2, <1>3

LEMMA MergedTiles ==
  ASSUME NEW b, Tiles(b), NEW j \in 1 .. Len(b) - 1, NEW c, IsMerged(b, j, c)
  PROVE  Tiles(c) /\ EndOf(c) = EndOf(b)
<1>1. /\ Len(b) \in Nat /\ c \in Seq(Blk) /\ Len(c) = Len(b) - 1 /\ j \in Int /\ j \in 1 .. Len(c)
      /\ \A k \in 1 .. Len(b) : b[k].addr \in Nat /\ b[k].size \in Nat
  <2>1. Len(b) \in Nat /\ \A k \in 1 .. Len(b) : b[k].addr \in Nat /\ b[k].size \in Nat
    BY BlockTypes DEF Tiles
  <2>2. c \in Seq(Blk) /\ Len(c) = Len(b) - 1
    BY DEF IsMerged
  <2> QED
    BY <2>1, <2>2
<1>2. \A n \in 1 .. Len(c) :
        /\ c[n].addr = IF n <= j THEN b[n].addr ELSE b[n + 1].addr
        /\ c[n].size = IF n < j THEN b[n].size ELSE IF n = j THEN b[n].size + b[n + 1].size ELSE b[n + 1].size
        /\ c[n].prev = IF n <= j THEN b[n].prev ELSE IF n = j + 1 THEN b[j].addr ELSE b[n + 1].prev
  BY DEF IsMerged
<1>3. /\ \A k \in 1 .. Len(b) : b[k].size >= HEADER + KHEAP_BLOCK_MIN
      /\ b[1].addr = 0 /\ b[1].prev = NULL
      /\ \A k \in 1 .. Len(b) - 1 : b[k + 1].addr = b[k].addr + b[k].size /\ b[k + 1].prev \in {NULL, b[k].addr}
  <2>1. Len(b) > 0
    BY <1>1
  <2> QED
    BY <2>1 DEF Tiles
<1>4. ASSUME NEW n \in 1 .. Len(c)
      PROVE  c[n].size >= HEADER + KHEAP_BLOCK_MIN
  <2>1. n \in 1 .. Len(b) /\ n + 1 \in 1 .. Len(b) /\ n \in Int
    BY <1>1
  <2>2. b[n].size >= HEADER + KHEAP_BLOCK_MIN /\ b[n + 1].size >= HEADER + KHEAP_BLOCK_MIN
        /\ b[n].size \in Nat /\ b[n + 1].size \in Nat
    BY <1>1, <1>3, <2>1
  <2>3. c[n].size \in {b[n].size, b[n].size + b[n + 1].size, b[n + 1].size}
    BY <1>2
  <2> DEFINE x == b[n].size
             y == b[n + 1].size
             m == HEADER + KHEAP_BLOCK_MIN
  <2>4. x \in Nat /\ y \in Nat /\ m \in Nat /\ x >= m /\ y >= m /\ c[n].size \in {x, x + y, y}
    BY <2>2, <2>3, SizesCount
  <2> HIDE DEF x, y, m
  <2>5. c[n].size >= m
    BY <2>4
  <2> QED
    BY <2>5 DEF m
<1>5. c[1].addr = 0 /\ c[1].prev = NULL
  <2>1. 1 \in 1 .. Len(c) /\ 1 <= j
    BY <1>1
  <2> QED
    BY <1>2, <1>3, <2>1
<1>6. ASSUME NEW n \in 1 .. Len(c) - 1
      PROVE  c[n + 1].addr = c[n].addr + c[n].size /\ c[n + 1].prev \in {NULL, c[n].addr}
  <2>1. /\ n \in 1 .. Len(c) /\ n + 1 \in 1 .. Len(c) /\ n \in 1 .. Len(b) - 1 /\ n + 1 \in 1 .. Len(b) - 1
        /\ n + 1 + 1 = n + 2 /\ n \in 1 .. Len(b) /\ n + 1 \in 1 .. Len(b) /\ n \in Int
    BY <1>1
  <2>2. /\ b[n + 1].addr = b[n].addr + b[n].size /\ b[n + 1].prev \in {NULL, b[n].addr}
        /\ b[n + 2].addr = b[n + 1].addr + b[n + 1].size /\ b[n + 2].prev \in {NULL, b[n + 1].addr}
    BY <1>3, <2>1
  <2>3. b[n].addr \in Nat /\ b[n].size \in Nat /\ b[n + 1].size \in Nat
    BY <1>1, <2>1
  <2>4. /\ c[n].addr = IF n <= j THEN b[n].addr ELSE b[n + 1].addr
        /\ c[n].size = IF n < j THEN b[n].size ELSE IF n = j THEN b[n].size + b[n + 1].size ELSE b[n + 1].size
        /\ c[n + 1].addr = IF n + 1 <= j THEN b[n + 1].addr ELSE b[n + 2].addr
        /\ c[n + 1].prev = IF n + 1 <= j THEN b[n + 1].prev ELSE IF n + 1 = j + 1 THEN b[j].addr ELSE b[n + 2].prev
    BY <1>2, <2>1
  <2>5. CASE n < j
    <3>1. n <= j /\ n + 1 <= j
      BY <1>1, <2>1, <2>5
    <3> QED
      BY <2>2, <2>4, <2>5, <3>1
  <2>6. CASE n = j
    <3>1. n <= j /\ ~(n < j) /\ ~(n + 1 <= j)
      BY <1>1, <2>1, <2>6
    <3>2. c[n].size = b[n].size + b[n + 1].size /\ c[n].addr = b[n].addr /\ c[n + 1].addr = b[n + 2].addr
          /\ c[n + 1].prev = b[n].addr
      BY <2>4, <2>6, <3>1
    <3>3. b[n + 2].addr = b[n].addr + (b[n].size + b[n + 1].size)
      BY <2>2, <2>3
    <3> QED
      BY <3>2, <3>3
  <2>7. CASE n > j
    <3>1. ~(n <= j) /\ ~(n < j) /\ n # j /\ ~(n + 1 <= j) /\ n + 1 # j + 1
      BY <1>1, <2>1, <2>7
    <3> QED
      BY <2>2, <2>4, <3>1
  <2> QED
    BY <1>1, <2>1, <2>5, <2>6, <2>7
<1>7. Tiles(c)
  BY <1>1, <1>4, <1>5, <1>6 DEF Tiles
<1>8. EndOf(c) = EndOf(b)
  <2> DEFINE m == Len(c)
  <2>1. m \in 1 .. Len(c) /\ m + 1 = Len(b) /\ m \in 1 .. Len(b) - 1 /\ m \in 1 .. Len(b) /\ m + 1 \in 1 .. Len(b) /\ m # 0 /\ m + 1 # 0
    BY <1>1
  <2>2. EndOf(c) = c[m].addr + c[m].size /\ EndOf(b) = b[m + 1].addr + b[m + 1].size
    BY <1>7, <2>1, EndIs
  <2> HIDE DEF m
  <2>3. b[m + 1].addr = b[m].addr + b[m].size /\ b[m].addr \in Nat /\ b[m].size \in Nat /\ b[m + 1].size \in Nat
    BY <1>1, <1>3, <2>1
  <2>4. /\ c[m].addr = IF m <= j THEN b[m].addr ELSE b[m + 1].addr
        /\ c[m].size = IF m < j THEN b[m].size ELSE IF m = j THEN b[m].size + b[m + 1].size ELSE b[m + 1].size
    BY <1>2, <2>1
  <2>5. ~(m < j)
    BY <1>1, <2>1 DEF m
  <2>6. CASE m = j
    BY <1>1, <2>2, <2>3, <2>4, <2>6
  <2>7. CASE m # j
    <3>1. ~(m <= j)
      BY <1>1, <2>1, <2>5, <2>7
    <3> QED
      BY <2>2, <2>4, <2>5, <2>7, <3>1
  <2> QED
    BY <2>6, <2>7
<1> QED
  BY <1>7, <1>8

(* What clients hold and the bytes in use stay as they are.                *)
LEMMA MergedHolds ==
  ASSUME NEW b, Tiles(b), NEW j \in 1 .. Len(b) - 1, ~b[j].used, ~b[j + 1].used, NEW c, IsMerged(b, j, c),
         NEW h, Holds(b, h)
  PROVE  Holds(c, h) /\ UsedBytes(c) = UsedBytes(b)
<1>1. b \in Seq(Blk) /\ Len(b) \in Nat /\ c \in Seq(Blk) /\ Len(c) = Len(b) - 1 /\ j \in Int /\ j \in 1 .. Len(c)
      /\ j + 1 \in 1 .. Len(b)
  <2>1. b \in Seq(Blk) /\ Len(b) \in Nat
    BY DEF Tiles
  <2>2. c \in Seq(Blk) /\ Len(c) = Len(b) - 1
    BY DEF IsMerged
  <2> QED
    BY <2>1, <2>2
<1>2. ASSUME NEW n \in 1 .. Len(c)
      PROVE  /\ n < j => c[n].used = b[n].used /\ c[n].addr = b[n].addr /\ c[n].size = b[n].size
             /\ n = j => ~c[n].used
             /\ n > j => c[n].used = b[n + 1].used /\ c[n].addr = b[n + 1].addr /\ c[n].size = b[n + 1].size
  <2>1. n \in Int
    BY <1>1
  <2>2. /\ c[n].addr = IF n <= j THEN b[n].addr ELSE b[n + 1].addr
        /\ c[n].used = IF n <= j THEN b[n].used ELSE b[n + 1].used
        /\ c[n].size = IF n < j THEN b[n].size ELSE IF n = j THEN b[n].size + b[n + 1].size ELSE b[n + 1].size
    BY DEF IsMerged
  <2>3. n < j => n <= j
    BY <1>1, <2>1
  <2>4. n > j => ~(n <= j) /\ ~(n < j) /\ n # j
    BY <1>1, <2>1
  <2>5. n = j => n <= j
    BY <1>1
  <2> QED
    BY <2>2, <2>3, <2>4, <2>5
<1>3. Holds(c, h)
  <2>1. ASSUME NEW n \in 1 .. Len(c), c[n].used
        PROVE  c[n].addr + HEADER \in DOMAIN h /\ h[c[n].addr + HEADER] <= c[n].size - HEADER
    <3>1. n \in Int /\ n \in 1 .. Len(b) /\ n + 1 \in 1 .. Len(b) /\ n # j
      BY <1>1, <1>2, <2>1
    <3>2. CASE n < j
      BY <1>2, <2>1, <3>1, <3>2 DEF Holds
    <3>3. CASE n > j
      BY <1>2, <2>1, <3>1, <3>3 DEF Holds
    <3> QED
      BY <1>1, <3>1, <3>2, <3>3
  <2>2. ASSUME NEW p \in DOMAIN h
        PROVE  \E n \in 1 .. Len(c) : c[n].used /\ p = c[n].addr + HEADER
    <3>1. PICK i \in 1 .. Len(b) : b[i].used /\ p = b[i].addr + HEADER
      BY DEF Holds
    <3>2. i # j /\ i # j + 1 /\ i \in Int
      BY <1>1, <3>1
    <3>3. CASE i < j
      BY <1>1, <1>2, <3>1, <3>3
    <3>4. CASE i > j + 1
      <4>1. i - 1 \in 1 .. Len(c) /\ i - 1 > j /\ i - 1 + 1 = i
        BY <1>1, <3>2, <3>4
      <4>2. c[i - 1].used = b[i].used /\ c[i - 1].addr = b[i].addr
        BY <1>2, <4>1
      <4> QED
        BY <3>1, <4>1, <4>2
    <3> QED
      BY <1>1, <3>2, <3>3, <3>4
  <2> QED
    BY <2>1, <2>2 DEF Holds
<1>4. UsedBytes(c) = UsedBytes(b)
  <2>1. Weight(b[j + 1]) = 0 /\ Weight(b[j]) = 0
    BY DEF Weight
  <2>2. ASSUME NEW n \in 1 .. Len(c)
        PROVE  Weight(c[n]) = IF n < j + 1 THEN Weight(b[n]) ELSE Weight(b[n + 1])
    <3>1. n \in Int
      BY <1>1
    <3>2. CASE n < j
      BY <1>1, <1>2, <3>1, <3>2 DEF Weight
    <3>3. CASE n = j
      <4>1. Weight(c[n]) = 0 /\ n < j + 1
        BY <1>1, <1>2, <3>3 DEF Weight
      <4> QED
        BY <2>1, <3>3, <4>1
    <3>4. CASE n > j
      BY <1>1, <1>2, <3>1, <3>4 DEF Weight
    <3> QED
      BY <1>1, <3>1, <3>2, <3>3, <3>4
  <2> QED
    BY <1>1, <2>1, <2>2, SumDrop
<1> QED
  BY <1>3, <1>4

(* The block that is given back.                                           *)
Unused(b, i) == [b EXCEPT ![i].used = FALSE]

LEMMA UnusedIs ==
  ASSUME NEW b \in Seq(Blk), NEW i \in 1 .. Len(b)
  PROVE  /\ Unused(b, i) \in Seq(Blk) /\ Len(Unused(b, i)) = Len(b)
         /\ \A n \in 1 .. Len(b) :
              /\ Unused(b, i)[n].addr = b[n].addr /\ Unused(b, i)[n].size = b[n].size
              /\ Unused(b, i)[n].prev = b[n].prev
              /\ Unused(b, i)[n].used = IF n = i THEN FALSE ELSE b[n].used
<1> DEFINE e == [b[i] EXCEPT !.used = FALSE]
<1>1. e \in Blk /\ e.prev = b[i].prev /\ e.addr = b[i].addr /\ e.size = b[i].size /\ e.used = FALSE
  <2>1. b[i] \in Blk /\ FALSE \in BOOLEAN
    BY BlockTypes
  <2> QED
    BY ONLY <2>1, FieldsWritten
<1>2. Unused(b, i) = [b EXCEPT ![i] = e]
  BY DEF Unused
<1> HIDE DEF e
<1>3. /\ [b EXCEPT ![i] = e] \in Seq(Blk) /\ Len([b EXCEPT ![i] = e]) = Len(b)
      /\ \A n \in 1 .. Len(b) : [b EXCEPT ![i] = e][n] = IF n = i THEN e ELSE b[n]
  <2>1. b \in Seq(Blk) /\ i \in 1 .. Len(b) /\ e \in Blk
    BY <1>1
  <2> QED
    BY ONLY <2>1, ExceptSeq
<1> QED
  BY <1>1, <1>2, <1>3

LEMMA SameTiles ==
  ASSUME NEW b, Tiles(b), NEW c \in Seq(Blk), Len(c) = Len(b),
         \A n \in 1 .. Len(b) : c[n].addr = b[n].addr /\ c[n].size = b[n].size /\ c[n].prev = b[n].prev
  PROVE  Tiles(c) /\ EndOf(c) = EndOf(b)
<1>1. Len(b) \in Nat
  BY DEF Tiles
<1>2. \A n \in 1 .. Len(c) : c[n].size >= HEADER + KHEAP_BLOCK_MIN
  BY DEF Tiles
<1>3. Len(c) > 0 => c[1].addr = 0 /\ c[1].prev = NULL
  <2>1. Len(c) > 0 => 1 \in 1 .. Len(b)
    BY <1>1
  <2> QED
    BY <2>1 DEF Tiles
<1>4. \A n \in 1 .. Len(c) - 1 : c[n + 1].addr = c[n].addr + c[n].size /\ c[n + 1].prev \in {NULL, c[n].addr}
  <2> SUFFICES ASSUME NEW n \in 1 .. Len(c) - 1
               PROVE  c[n + 1].addr = c[n].addr + c[n].size /\ c[n + 1].prev \in {NULL, c[n].addr}
    OBVIOUS
  <2>1. n \in 1 .. Len(b) /\ n + 1 \in 1 .. Len(b) /\ n \in 1 .. Len(b) - 1
    BY <1>1
  <2>2. b[n + 1].addr = b[n].addr + b[n].size /\ b[n + 1].prev \in {NULL, b[n].addr}
    BY <2>1 DEF Tiles
  <2> QED
    BY <2>1, <2>2
<1>5. Tiles(c)
  BY <1>2, <1>3, <1>4 DEF Tiles
<1>6. EndOf(c) = EndOf(b)
  <2>1. CASE Len(b) = 0
    BY <1>5, <2>1, EndIs
  <2>2. CASE Len(b) # 0
    <3>1. Len(b) \in 1 .. Len(b)
      BY <1>1, <2>2
    <3> QED
      BY <1>5, <2>2, <3>1, EndIs
  <2> QED
    BY <2>1, <2>2
<1> QED
  BY <1>5, <1>6

Less(h, at) == [p \in DOMAIN h \ {at} |-> h[p]]

LEMMA UnusedKeeps ==
  ASSUME NEW b, Tiles(b), NEW i \in 1 .. Len(b), b[i].used, NEW h, Holds(b, h)
  PROVE  /\ Tiles(Unused(b, i)) /\ EndOf(Unused(b, i)) = EndOf(b)
         /\ Holds(Unused(b, i), Less(h, b[i].addr + HEADER))
         /\ UsedBytes(Unused(b, i)) = UsedBytes(b) - b[i].size /\ UsedBytes(b) \in Nat
<1> DEFINE c == Unused(b, i)
           at == b[i].addr + HEADER
<1>1. b \in Seq(Blk) /\ Len(b) \in Nat /\ \A n \in 1 .. Len(b) : b[n].addr \in Nat /\ b[n].size \in Nat
  BY BlockTypes DEF Tiles
<1>2. /\ c \in Seq(Blk) /\ Len(c) = Len(b)
      /\ \A n \in 1 .. Len(b) :
           /\ c[n].addr = b[n].addr /\ c[n].size = b[n].size /\ c[n].prev = b[n].prev
           /\ c[n].used = IF n = i THEN FALSE ELSE b[n].used
  <2>1. b \in Seq(Blk) /\ i \in 1 .. Len(b)
    BY <1>1
  <2> QED
    BY ONLY <2>1, UnusedIs
<1> HIDE DEF c
<1>3. Tiles(c) /\ EndOf(c) = EndOf(b)
  BY <1>2, SameTiles
<1>4. Holds(c, Less(h, at))
  <2>1. /\ DOMAIN Less(h, at) = DOMAIN h \ {at} /\ \A p \in DOMAIN h \ {at} : Less(h, at)[p] = h[p]
        /\ Less(h, at) = [p \in DOMAIN Less(h, at) |-> Less(h, at)[p]]
    BY DEF Less
  <2>2. ASSUME NEW n \in 1 .. Len(c), c[n].used
        PROVE  /\ c[n].addr + HEADER \in DOMAIN h \ {at}
               /\ Less(h, at)[c[n].addr + HEADER] <= c[n].size - HEADER
    <3>1. n # i /\ b[n].used /\ c[n].addr = b[n].addr /\ c[n].size = b[n].size /\ n \in 1 .. Len(b)
      BY <1>2, <2>2
    <3>2. b[n].addr + HEADER \in DOMAIN h /\ h[b[n].addr + HEADER] <= b[n].size - HEADER
      BY <3>1 DEF Holds
    <3>3. b[n].addr # b[i].addr
      BY <3>1, AddressesDiffer
    <3>4. b[n].addr + HEADER # at
      BY <1>1, <3>1, <3>3, SizesCount
    <3> QED
      BY <2>1, <3>1, <3>2, <3>4
  <2>3. ASSUME NEW p \in DOMAIN h \ {at}
        PROVE  \E n \in 1 .. Len(c) : c[n].used /\ p = c[n].addr + HEADER
    <3>1. PICK n \in 1 .. Len(b) : b[n].used /\ p = b[n].addr + HEADER
      BY DEF Holds
    <3> QED
      BY <1>2, <3>1
  <2>4. \A p \in DOMAIN h : h[p] \in Nat
    BY DEF Holds
  <2> HIDE DEF at
  <2> QED
    BY <2>1, <2>2, <2>3, <2>4 DEF Holds
<1>5. UsedBytes(c) = UsedBytes(b) - b[i].size /\ UsedBytes(b) \in Nat
  <2>1. \A n \in 1 .. Len(b) : n # i => Weight(c[n]) = Weight(b[n])
    BY <1>2 DEF Weight
  <2>2. Weight(c[i]) = 0 /\ Weight(b[i]) = b[i].size
    BY <1>2 DEF Weight
  <2>3. UsedBytes(c) = UsedBytes(b) + Weight(c[i]) - Weight(b[i]) /\ UsedBytes(b) \in Nat
    BY <1>1, <1>2, <2>1, SumChange
  <2> QED
    BY <1>1, <2>2, <2>3
<1> QED
  BY <1>3, <1>4, <1>5 DEF c

(* kfree() of a pointer that is held.                                      *)
Released(b, at) ==
  LET i == IndexOf(b, at - HEADER) IN MergePrev(MergeNext([b EXCEPT ![i].used = FALSE], i), i)

LEMMA HeldIndex ==
  ASSUME NEW b, Tiles(b), NEW h, Holds(b, h), NEW at \in DOMAIN h
  PROVE  LET i == IndexOf(b, at - HEADER) IN i \in 1 .. Len(b) /\ b[i].used /\ b[i].addr + HEADER = at
<1>1. PICK i \in 1 .. Len(b) : b[i].used /\ at = b[i].addr + HEADER
  BY DEF Holds
<1>2. at - HEADER = b[i].addr
  <2>1. b[i].addr \in Nat
    BY BlockTypes DEF Tiles
  <2> QED
    BY <1>1, <2>1, SizesCount
<1>3. IndexOf(b, at - HEADER) = i
  BY <1>2, IndexFound
<1> QED
  BY <1>1, <1>3

LEMMA ReleasedKeeps ==
  ASSUME NEW b, Tiles(b), NEW h, Holds(b, h), NEW at \in DOMAIN h
  PROVE  LET c == Released(b, at)
         IN  /\ Tiles(c) /\ EndOf(c) = EndOf(b) /\ Holds(c, Less(h, at))
             /\ UsedBytes(c) = UsedBytes(b) - b[IndexOf(b, at - HEADER)].size
<1> DEFINE i == IndexOf(b, at - HEADER)
           c1 == Unused(b, i)
           c2 == MergeNext(c1, i)
           c3 == MergePrev(c2, i)
           g == Less(h, at)
<1>1. i \in 1 .. Len(b) /\ b[i].used /\ b[i].addr + HEADER = at
  BY HeldIndex
<1>2. Released(b, at) = c3
  BY DEF Released, Unused
<1> HIDE DEF i
<1>3. Tiles(c1) /\ EndOf(c1) = EndOf(b) /\ Holds(c1, g) /\ UsedBytes(c1) = UsedBytes(b) - b[i].size
  BY <1>1, UnusedKeeps
<1>4. i \in 1 .. Len(c1) /\ ~c1[i].used /\ Len(c1) \in Nat
  <2>1. b \in Seq(Blk) /\ i \in 1 .. Len(b) /\ Len(b) \in Nat
    BY <1>1 DEF Tiles
  <2>2. /\ Len(c1) = Len(b)
        /\ \A n \in 1 .. Len(b) : c1[n].used = IF n = i THEN FALSE ELSE b[n].used
    BY ONLY <2>1, UnusedIs
  <2> HIDE DEF c1
  <2> QED
    BY <2>1, <2>2
<1> HIDE DEF c1, g
<1>5. /\ Tiles(c2) /\ EndOf(c2) = EndOf(c1) /\ Holds(c2, g) /\ UsedBytes(c2) = UsedBytes(c1)
      /\ i \in 1 .. Len(c2) /\ ~c2[i].used
  <2>1. CASE i < Len(c1) /\ ~c1[i + 1].used
    <3>1. IsMerged(c1, i, c2) /\ i \in 1 .. Len(c1) - 1
      BY <1>3, <1>4, <2>1, MergeNextIs
    <3> HIDE DEF c2
    <3>2. Tiles(c2) /\ EndOf(c2) = EndOf(c1)
      BY <1>3, <3>1, MergedTiles
    <3>3. Holds(c2, g) /\ UsedBytes(c2) = UsedBytes(c1)
      BY <1>3, <1>4, <2>1, <3>1, MergedHolds
    <3>4. Len(c2) = Len(c1) - 1 /\ \A n \in 1 .. Len(c2) : c2[n].used = IF n <= i THEN c1[n].used ELSE c1[n + 1].used
      BY <3>1 DEF IsMerged
    <3>5. i \in 1 .. Len(c2) /\ i <= i
      BY <1>4, <3>1, <3>4
    <3> QED
      BY <1>4, <3>2, <3>3, <3>4, <3>5
  <2>2. CASE ~(i < Len(c1) /\ ~c1[i + 1].used)
    <3>1. c2 = c1
      BY <1>3, <1>4, <2>2, MergeNextIs
    <3> QED
      BY <1>3, <1>4, <3>1
  <2> QED
    BY <2>1, <2>2
<1> HIDE DEF c2
<1>6. Tiles(c3) /\ EndOf(c3) = EndOf(c2) /\ Holds(c3, g) /\ UsedBytes(c3) = UsedBytes(c2)
  <2>1. CASE c2[i].prev # NULL /\ ~c2[i - 1].used
    <3> DEFINE j == i - 1
    <3>1. IsMerged(c2, j, c3) /\ i > 1
      BY <1>5, <2>1, MergePrevIs
    <3>2. j \in 1 .. Len(c2) - 1 /\ j + 1 = i
      <4>1. Len(c2) \in Nat
        BY <1>5 DEF Tiles
      <4> QED
        BY <1>5, <3>1, <4>1
    <3>3. ~c2[j].used
      BY <2>1
    <3> HIDE DEF c3, j
    <3>4. Tiles(c3) /\ EndOf(c3) = EndOf(c2)
      BY <1>5, <3>1, <3>2, MergedTiles
    <3>5. Holds(c3, g) /\ UsedBytes(c3) = UsedBytes(c2)
      BY <1>5, <3>1, <3>2, <3>3, MergedHolds
    <3> QED
      BY <3>4, <3>5
  <2>2. CASE ~(c2[i].prev # NULL /\ ~c2[i - 1].used)
    <3>1. c3 = c2
      BY <1>5, <2>2, MergePrevIs
    <3> QED
      BY <1>5, <3>1
  <2> QED
    BY <2>1, <2>2
<1> HIDE DEF c3
<1> QED
  BY <1>2, <1>3, <1>5, <1>6 DEF i, g

-----------------------------------------------------------------------------
(***************************************************************************)
(* kmalloc(): a block is taken, split, or put behind the last one.         *)
(***************************************************************************)
More(h, at, size) == [p \in DOMAIN h \cup {at} |-> IF p = at THEN size ELSE h[p]]

LEMMA TotalIs ==
  ASSUME NEW size \in Nat
  PROVE  /\ Total(size) \in Nat /\ Total(size) >= HEADER + KHEAP_BLOCK_MIN
         /\ size <= Total(size) - HEADER
  BY SizesCount DEF Total

LEMMA BelowEnd ==
  ASSUME NEW b, Tiles(b), NEW n \in 1 .. Len(b)
  PROVE  b[n].addr + b[n].size <= EndOf(b)
<1>1. Len(b) \in Nat /\ \A k \in 1 .. Len(b) : b[k].addr \in Nat /\ b[k].size \in Nat
  BY BlockTypes DEF Tiles
<1> DEFINE m == Len(b)
<1>2. m \in 1 .. Len(b) /\ m # 0 /\ n \in Int
  BY <1>1
<1>3. EndOf(b) = b[m].addr + b[m].size
  BY <1>2, EndIs
<1> HIDE DEF m
<1>4. CASE n = m
  BY <1>1, <1>2, <1>3, <1>4
<1>5. CASE n # m
  <2>1. n < m
    BY <1>1, <1>2, <1>5 DEF m
  <2>2. b[n].addr + b[n].size <= b[m].addr
    BY <1>2, <2>1, Ordered
  <2>3. b[n].addr \in Nat /\ b[n].size \in Nat /\ b[m].addr \in Nat /\ b[m].size \in Nat
    BY <1>1, <1>2
  <2> DEFINE x == b[n].addr + b[n].size
             y == b[m].addr
             z == b[m].size
  <2>4. x \in Nat /\ y \in Nat /\ z \in Nat /\ x <= y
    BY <2>2, <2>3
  <2> HIDE DEF x, y, z
  <2>5. x <= y + z
    BY <2>4
  <2> QED
    BY <1>3, <2>5 DEF x, y, z
<1> QED
  BY <1>4, <1>5

LEMMA EndCounts ==
  ASSUME NEW b, Tiles(b)
  PROVE  EndOf(b) \in Nat
<1>1. Len(b) \in Nat /\ \A k \in 1 .. Len(b) : b[k].addr \in Nat /\ b[k].size \in Nat
  BY BlockTypes DEF Tiles
<1>2. CASE Len(b) = 0
  BY <1>2, EndIs
<1>3. CASE Len(b) # 0
  <2>1. Len(b) \in 1 .. Len(b)
    BY <1>1, <1>3
  <2>2. b[Len(b)].addr \in Nat /\ b[Len(b)].size \in Nat
    BY <1>1, <2>1
  <2> QED
    BY <1>3, <2>2, EndIs
<1> QED
  BY <1>2, <1>3

(* The used blocks are those there were and one more.                      *)
LEMMA MoreIsHeld ==
  ASSUME NEW b, NEW h, Holds(b, h), NEW c, NEW at, at \notin DOMAIN h, NEW size \in Nat,
         \A n \in 1 .. Len(c) : c[n].used =>
           \/ c[n].addr + HEADER = at /\ size <= c[n].size - HEADER
           \/ \E k \in 1 .. Len(b) : b[k].used /\ c[n].addr = b[k].addr /\ c[n].size = b[k].size,
         \A k \in 1 .. Len(b) : b[k].used => \E n \in 1 .. Len(c) : c[n].used /\ c[n].addr = b[k].addr,
         \E n \in 1 .. Len(c) : c[n].used /\ at = c[n].addr + HEADER
  PROVE  Holds(c, More(h, at, size))
<1> DEFINE g == More(h, at, size)
<1>1. /\ DOMAIN g = DOMAIN h \cup {at} /\ g[at] = size /\ \A p \in DOMAIN h : g[p] = h[p]
      /\ g = [p \in DOMAIN g |-> g[p]]
  BY DEF More
<1> HIDE DEF g
<1>2. \A p \in DOMAIN g : g[p] \in Nat
  BY <1>1 DEF Holds
<1>3. ASSUME NEW n \in 1 .. Len(c), c[n].used
      PROVE  c[n].addr + HEADER \in DOMAIN g /\ g[c[n].addr + HEADER] <= c[n].size - HEADER
  <2>1. CASE c[n].addr + HEADER = at /\ size <= c[n].size - HEADER
    BY <1>1, <2>1
  <2>2. CASE \E k \in 1 .. Len(b) : b[k].used /\ c[n].addr = b[k].addr /\ c[n].size = b[k].size
    BY <1>1, <2>2 DEF Holds
  <2> QED
    BY <1>3, <2>1, <2>2
<1>4. ASSUME NEW p \in DOMAIN g
      PROVE  \E n \in 1 .. Len(c) : c[n].used /\ p = c[n].addr + HEADER
  <2>1. CASE p = at
    BY <2>1
  <2>2. CASE p \in DOMAIN h
    <3>1. PICK k \in 1 .. Len(b) : b[k].used /\ p = b[k].addr + HEADER
      BY <2>2 DEF Holds
    <3> QED
      BY <3>1
  <2> QED
    BY <1>1, <2>1, <2>2
<1>5. Holds(c, g)
  BY <1>1, <1>2, <1>3, <1>4 DEF Holds
<1> QED
  BY <1>5 DEF g

Appended(b, size) == Append(b, Block(EndOf(b), Total(size), TRUE, NULL))

LEMMA AppendedKeeps ==
  ASSUME NEW b, Tiles(b), NEW h, Holds(b, h), NEW size \in Nat
  PROVE  LET c == Appended(b, size)
             at == EndOf(b) + HEADER
         IN  /\ Tiles(c) /\ EndOf(c) = EndOf(b) + Total(size)
             /\ at \notin DOMAIN h /\ Holds(c, More(h, at, size))
             /\ UsedBytes(c) = UsedBytes(b) + Total(size)
<1> DEFINE c == Appended(b, size)
           at == EndOf(b) + HEADER
           t == Total(size)
           e == Block(EndOf(b), t, TRUE, NULL)
<1>1. t \in Nat /\ t >= HEADER + KHEAP_BLOCK_MIN /\ size <= t - HEADER /\ t > 0
  BY TotalIs, SizesCount
<1>2. /\ e \in Blk /\ e.addr = EndOf(b) /\ e.size = t /\ e.used = TRUE /\ e.prev = NULL /\ Weight(e) = t
  BY <1>1, EndCounts DEF Block, Blk, Weight
<1>3. c = Append(b, e)
  BY DEF Appended
<1> HIDE DEF t, e, c
<1>4. /\ b \in Seq(Blk) /\ Len(b) \in Nat /\ EndOf(b) \in Nat
      /\ \A k \in 1 .. Len(b) : b[k].addr \in Nat /\ b[k].size \in Nat
  BY BlockTypes, EndCounts DEF Tiles
<1>5. /\ c \in Seq(Blk) /\ Len(c) = Len(b) + 1 /\ c[Len(b) + 1] = e
      /\ \A n \in 1 .. Len(b) : c[n] = b[n]
  BY <1>2, <1>3, <1>4
<1>6. Tiles(c)
  <2>1. ASSUME NEW n \in 1 .. Len(c) PROVE c[n].size >= HEADER + KHEAP_BLOCK_MIN
    <3>1. CASE n \in 1 .. Len(b)
      BY <1>5, <3>1 DEF Tiles
    <3>2. CASE n = Len(b) + 1
      BY <1>1, <1>2, <1>5, <3>2
    <3> QED
      BY <1>4, <1>5, <3>1, <3>2
  <2>2. c[1].addr = 0 /\ c[1].prev = NULL
    <3>1. CASE Len(b) = 0
      BY <1>2, <1>5, <3>1, EndIs
    <3>2. CASE Len(b) > 0
      <4>1. 1 \in 1 .. Len(b)
        BY <1>4, <3>2
      <4> QED
        BY <1>5, <3>2, <4>1 DEF Tiles
    <3> QED
      BY <1>4, <3>1, <3>2
  <2>3. ASSUME NEW n \in 1 .. Len(c) - 1
        PROVE  c[n + 1].addr = c[n].addr + c[n].size /\ c[n + 1].prev \in {NULL, c[n].addr}
    <3>1. n \in 1 .. Len(b)
      BY <1>4, <1>5
    <3>2. CASE n = Len(b)
      <4>1. Len(b) # 0 /\ c[n] = b[n] /\ c[n + 1] = e
        BY <1>5, <3>1, <3>2
      <4> QED
        BY <1>2, <3>2, <4>1, EndIs
    <3>3. CASE n # Len(b)
      <4>1. n \in 1 .. Len(b) - 1 /\ n + 1 \in 1 .. Len(b)
        BY <1>4, <3>1, <3>3
      <4>2. c[n] = b[n] /\ c[n + 1] = b[n + 1]
        BY <1>5, <3>1, <4>1
      <4> QED
        BY <4>1, <4>2 DEF Tiles
    <3> QED
      BY <3>2, <3>3
  <2> QED
    BY <1>5, <2>1, <2>2, <2>3 DEF Tiles
<1>7. EndOf(c) = EndOf(b) + t
  <2>1. Len(c) # 0
    BY <1>4, <1>5
  <2> QED
    BY <1>2, <1>5, <1>6, <2>1, EndIs
<1>8. at \notin DOMAIN h
  <2>1. ASSUME at \in DOMAIN h PROVE FALSE
    <3>1. PICK n \in 1 .. Len(b) : b[n].used /\ at = b[n].addr + HEADER
      BY <2>1 DEF Holds
    <3>2. b[n].addr + b[n].size <= EndOf(b) /\ b[n].addr \in Nat /\ b[n].size \in Nat /\ b[n].size > 0
      <4>1. b[n].size >= HEADER + KHEAP_BLOCK_MIN
        BY DEF Tiles
      <4> QED
        BY <1>4, <4>1, BelowEnd, SizesCount
    <3> QED
      BY <1>4, <3>1, <3>2, SizesCount
  <2> QED
    BY <2>1
<1>9. Holds(c, More(h, at, size))
  <2>1. ASSUME NEW n \in 1 .. Len(c), c[n].used
        PROVE  \/ c[n].addr + HEADER = at /\ size <= c[n].size - HEADER
               \/ \E k \in 1 .. Len(b) : b[k].used /\ c[n].addr = b[k].addr /\ c[n].size = b[k].size
    <3>1. CASE n \in 1 .. Len(b)
      BY <1>5, <2>1, <3>1
    <3>2. CASE n = Len(b) + 1
      BY <1>1, <1>2, <1>5, <3>2
    <3> QED
      BY <1>4, <1>5, <3>1, <3>2
  <2>2. ASSUME NEW k \in 1 .. Len(b), b[k].used
        PROVE  \E n \in 1 .. Len(c) : c[n].used /\ c[n].addr = b[k].addr
    BY <1>4, <1>5, <2>2
  <2>3. \E n \in 1 .. Len(c) : c[n].used /\ at = c[n].addr + HEADER
    <3>1. Len(b) + 1 \in 1 .. Len(c)
      BY <1>4, <1>5
    <3> QED
      BY <1>2, <1>5, <3>1
  <2> HIDE DEF at
  <2> QED
    BY <1>8, <2>1, <2>2, <2>3, MoreIsHeld
<1>10. UsedBytes(c) = UsedBytes(b) + t
  BY <1>2, <1>3, <1>4, SumAppend
<1> QED
  BY <1>6, <1>7, <1>8, <1>9, <1>10 DEF c, t

-----------------------------------------------------------------------------
(* A block is taken, with the size that it has now.                        *)
Taken(b, i, size) == [b EXCEPT ![i].size = size, ![i].used = TRUE]

IsTaken(b, i, size, c) ==
  /\ c \in Seq(Blk) /\ Len(c) = Len(b)
  /\ \A n \in 1 .. Len(b) :
       /\ c[n].addr = b[n].addr /\ c[n].prev = b[n].prev
       /\ c[n].size = IF n = i THEN size ELSE b[n].size
       /\ c[n].used = IF n = i THEN TRUE ELSE b[n].used

LEMMA TakenIs ==
  ASSUME NEW b \in Seq(Blk), NEW i \in 1 .. Len(b), NEW size \in Nat
  PROVE  IsTaken(b, i, size, Taken(b, i, size))
<1> DEFINE e1 == [b[i] EXCEPT !.size = size]
           e == [e1 EXCEPT !.used = TRUE]
           b1 == [b EXCEPT ![i] = e1]
<1>1. e1 \in Blk /\ e1.prev = b[i].prev /\ e1.addr = b[i].addr /\ e1.size = size
  <2>1. b[i] \in Blk /\ size \in Nat
    BY BlockTypes
  <2> QED
    BY ONLY <2>1, FieldsWritten
<1>2. e \in Blk /\ e.prev = e1.prev /\ e.addr = e1.addr /\ e.size = e1.size /\ e.used = TRUE
  <2>1. e1 \in Blk /\ TRUE \in BOOLEAN
    BY <1>1
  <2> HIDE DEF e1
  <2> QED
    BY ONLY <2>1, FieldsWritten
<1>3. Taken(b, i, size) = [b EXCEPT ![i] = e]
  BY DEF Taken
<1> HIDE DEF e1, e
<1>4. /\ [b EXCEPT ![i] = e] \in Seq(Blk) /\ Len([b EXCEPT ![i] = e]) = Len(b)
      /\ \A n \in 1 .. Len(b) : [b EXCEPT ![i] = e][n] = IF n = i THEN e ELSE b[n]
  <2>1. b \in Seq(Blk) /\ i \in 1 .. Len(b) /\ e \in Blk
    BY <1>2
  <2> QED
    BY ONLY <2>1, ExceptSeq
<1> QED
  BY <1>1, <1>2, <1>3, <1>4 DEF IsTaken

Rest(b, i, t) == Block(b[i].addr + t, b[i].size - t, FALSE, b[i].addr)
Split(b, i, t) == Taken(InsertAt(Relinked(b, i + 1, Rest(b, i, t).addr), i + 1, Rest(b, i, t)), i, t)

(* A free block is taken as it is.                                         *)
LEMMA WholeKeeps ==
  ASSUME NEW b, Tiles(b), NEW h, Holds(b, h), NEW size \in Nat, NEW i \in 1 .. Len(b),
         ~b[i].used, b[i].size >= Total(size)
  PROVE  LET c == Taken(b, i, b[i].size)
             at == b[i].addr + HEADER
         IN  /\ Tiles(c) /\ EndOf(c) = EndOf(b)
             /\ at \notin DOMAIN h /\ Holds(c, More(h, at, size))
             /\ UsedBytes(c) = UsedBytes(b) + b[i].size
<1> DEFINE c == Taken(b, i, b[i].size)
           at == b[i].addr + HEADER
           t == b[i].size
<1>1. b \in Seq(Blk) /\ Len(b) \in Nat /\ \A n \in 1 .. Len(b) : b[n].addr \in Nat /\ b[n].size \in Nat
  BY BlockTypes DEF Tiles
<1>2. t \in Nat /\ size <= t - HEADER
  <2>1. t \in Nat /\ t >= Total(size) /\ Total(size) \in Nat /\ size <= Total(size) - HEADER
    BY <1>1, TotalIs
  <2> HIDE DEF t
  <2> QED
    BY <2>1, SizesCount
<1>3. /\ c \in Seq(Blk) /\ Len(c) = Len(b)
      /\ \A n \in 1 .. Len(b) :
           /\ c[n].addr = b[n].addr /\ c[n].prev = b[n].prev
           /\ c[n].size = IF n = i THEN t ELSE b[n].size
           /\ c[n].used = IF n = i THEN TRUE ELSE b[n].used
  <2>1. b \in Seq(Blk) /\ i \in 1 .. Len(b) /\ b[i].size \in Nat
    BY <1>1
  <2>2. IsTaken(b, i, b[i].size, c)
    BY ONLY <2>1, TakenIs
  <2> HIDE DEF c
  <2> QED
    BY <2>2 DEF IsTaken
<1> HIDE DEF c
<1>4. \A n \in 1 .. Len(b) : c[n].size = b[n].size
  BY <1>3
<1>5. Tiles(c) /\ EndOf(c) = EndOf(b)
  BY <1>3, <1>4, SameTiles
<1>6. at \notin DOMAIN h
  <2>1. ASSUME at \in DOMAIN h PROVE FALSE
    <3>1. PICK n \in 1 .. Len(b) : b[n].used /\ at = b[n].addr + HEADER
      BY <2>1 DEF Holds
    <3>2. b[n].addr = b[i].addr
      BY <1>1, <3>1, SizesCount
    <3> QED
      BY <3>1, <3>2, AddressesDiffer
  <2> QED
    BY <2>1
<1>7. Holds(c, More(h, at, size))
  <2>1. ASSUME NEW n \in 1 .. Len(c), c[n].used
        PROVE  \/ c[n].addr + HEADER = at /\ size <= c[n].size - HEADER
               \/ \E k \in 1 .. Len(b) : b[k].used /\ c[n].addr = b[k].addr /\ c[n].size = b[k].size
    <3>1. CASE n = i
      BY <1>2, <1>3, <3>1
    <3>2. CASE n # i
      BY <1>3, <2>1, <3>2
    <3> QED
      BY <3>1, <3>2
  <2>2. ASSUME NEW k \in 1 .. Len(b), b[k].used
        PROVE  \E n \in 1 .. Len(c) : c[n].used /\ c[n].addr = b[k].addr
    BY <1>3, <2>2
  <2>3. \E n \in 1 .. Len(c) : c[n].used /\ at = c[n].addr + HEADER
    BY <1>3
  <2> HIDE DEF at
  <2> QED
    BY <1>6, <2>1, <2>2, <2>3, MoreIsHeld
<1>8. UsedBytes(c) = UsedBytes(b) + t
  <2>1. \A n \in 1 .. Len(b) : n # i => Weight(c[n]) = Weight(b[n])
    BY <1>3 DEF Weight
  <2>2. Weight(c[i]) = t /\ Weight(b[i]) = 0
    BY <1>3 DEF Weight
  <2>3. UsedBytes(c) = UsedBytes(b) + Weight(c[i]) - Weight(b[i]) /\ UsedBytes(b) \in Nat
    BY <1>1, <1>3, <2>1, SumChange
  <2> HIDE DEF t
  <2> QED
    BY <1>2, <2>2, <2>3
<1> QED
  BY <1>5, <1>6, <1>7, <1>8 DEF c

IsSplit(b, i, t, c) ==
  /\ c \in Seq(Blk) /\ Len(c) = Len(b) + 1
  /\ \A n \in 1 .. i : c[n].addr = b[n].addr /\ c[n].prev = b[n].prev
  /\ \A n \in 1 .. i - 1 : c[n].size = b[n].size /\ c[n].used = b[n].used
  /\ c[i].size = t /\ c[i].used = TRUE
  /\ c[i + 1].addr = b[i].addr + t /\ c[i + 1].size = b[i].size - t
  /\ c[i + 1].used = FALSE /\ c[i + 1].prev = b[i].addr
  /\ \A n \in i + 1 .. Len(b) :
       /\ c[n + 1].addr = b[n].addr /\ c[n + 1].size = b[n].size /\ c[n + 1].used = b[n].used
       /\ c[n + 1].prev = IF n = i + 1 THEN b[i].addr + t ELSE b[n].prev

LEMMA SplitIs ==
  ASSUME NEW b \in Seq(Blk), NEW i \in 1 .. Len(b), NEW t \in Nat, b[i].size >= t
  PROVE  IsSplit(b, i, t, Split(b, i, t))
<1> DEFINE e == Rest(b, i, t)
           r == Relinked(b, i + 1, e.addr)
           d == InsertAt(r, i + 1, e)
           c == Taken(d, i, t)
<1>1. /\ Len(b) \in Nat /\ i \in Nat /\ i + 1 \in Int /\ \A n \in 1 .. Len(b) : b[n].addr \in Nat /\ b[n].size \in Nat
      /\ b[i].addr \in Nat /\ b[i].size \in Nat
  BY BlockTypes
<1>2. e \in Blk /\ e.addr = b[i].addr + t /\ e.size = b[i].size - t /\ e.used = FALSE /\ e.prev = b[i].addr
      /\ e.addr \in Nat \cup {NULL}
  <2>1. e = [addr |-> b[i].addr + t, size |-> b[i].size - t, used |-> FALSE, prev |-> b[i].addr]
    BY DEF Rest, Block
  <2>2. b[i].addr + t \in Nat /\ b[i].size - t \in Nat
    BY <1>1
  <2> QED
    BY ONLY <2>1, <2>2, <1>1 DEF Blk
<1>3. Split(b, i, t) = c
  BY DEF Split
<1> HIDE DEF e
<1>4. /\ r \in Seq(Blk) /\ Len(r) = Len(b)
      /\ \A n \in 1 .. Len(b) :
           /\ r[n].addr = b[n].addr /\ r[n].size = b[n].size /\ r[n].used = b[n].used
           /\ r[n].prev = IF n = i + 1 THEN e.addr ELSE b[n].prev
  <2>1. b \in Seq(Blk) /\ i + 1 \in Int /\ e.addr \in Nat \cup {NULL}
    BY <1>1, <1>2
  <2>2. IsRelinked(b, i + 1, e.addr, r)
    BY ONLY <2>1, RelinkedIs
  <2> HIDE DEF r
  <2> QED
    BY <2>2 DEF IsRelinked
<1> HIDE DEF r
<1>5. /\ d \in Seq(Blk) /\ Len(d) = Len(r) + 1
      /\ \A n \in 1 .. Len(r) + 1 : d[n] = IF n < i + 1 THEN r[n] ELSE IF n = i + 1 THEN e ELSE r[n - 1]
  <2>1. r \in Seq(Blk) /\ i + 1 \in 1 .. Len(r) + 1 /\ e \in Blk
    BY <1>1, <1>2, <1>4
  <2>2. IsInserted(Blk, r, i + 1, e, d)
    BY ONLY <2>1, InsertIs
  <2> HIDE DEF d
  <2> QED
    BY <2>2 DEF IsInserted
<1> HIDE DEF d
<1>6. /\ c \in Seq(Blk) /\ Len(c) = Len(d)
      /\ \A n \in 1 .. Len(d) :
           /\ c[n].addr = d[n].addr /\ c[n].prev = d[n].prev
           /\ c[n].size = IF n = i THEN t ELSE d[n].size
           /\ c[n].used = IF n = i THEN TRUE ELSE d[n].used
  <2>1. d \in Seq(Blk) /\ i \in 1 .. Len(d) /\ t \in Nat
    BY <1>1, <1>4, <1>5
  <2>2. IsTaken(d, i, t, c)
    BY ONLY <2>1, TakenIs
  <2> HIDE DEF c
  <2> QED
    BY <2>2 DEF IsTaken
<1> HIDE DEF c
<1>7. Len(d) = Len(b) + 1 /\ Len(r) + 1 = Len(b) + 1
  BY <1>4, <1>5
<1>8. ASSUME NEW n \in 1 .. i
      PROVE  /\ c[n].addr = b[n].addr /\ c[n].prev = b[n].prev
             /\ n # i => c[n].size = b[n].size /\ c[n].used = b[n].used
  <2>1. n \in 1 .. Len(b) /\ n \in 1 .. Len(b) + 1 /\ n < i + 1 /\ n # i + 1
    BY <1>1
  <2>2. d[n] = r[n]
    BY <1>5, <1>7, <2>1
  <2>3. /\ r[n].addr = b[n].addr /\ r[n].size = b[n].size /\ r[n].used = b[n].used
        /\ r[n].prev = b[n].prev
    BY <1>4, <2>1
  <2>4. /\ c[n].addr = d[n].addr /\ c[n].prev = d[n].prev
        /\ n # i => c[n].size = d[n].size /\ c[n].used = d[n].used
    BY <1>6, <1>7, <2>1
  <2> QED
    BY <2>2, <2>3, <2>4
<1>9. c[i].size = t /\ c[i].used = TRUE
  <2>1. i \in 1 .. Len(d)
    BY <1>1, <1>7
  <2> QED
    BY <1>6, <2>1
<1>10. /\ c[i + 1].addr = b[i].addr + t /\ c[i + 1].size = b[i].size - t
       /\ c[i + 1].used = FALSE /\ c[i + 1].prev = b[i].addr
  <2>1. i + 1 \in 1 .. Len(b) + 1 /\ ~(i + 1 < i + 1) /\ i + 1 # i
    BY <1>1
  <2>2. d[i + 1] = e
    BY <1>5, <1>7, <2>1
  <2> QED
    BY <1>2, <1>6, <1>7, <2>1, <2>2
<1>11. ASSUME NEW n \in i + 1 .. Len(b)
       PROVE  /\ c[n + 1].addr = b[n].addr /\ c[n + 1].size = b[n].size /\ c[n + 1].used = b[n].used
              /\ c[n + 1].prev = IF n = i + 1 THEN b[i].addr + t ELSE b[n].prev
  <2>1. n \in 1 .. Len(b) /\ n + 1 \in 1 .. Len(b) + 1 /\ ~(n + 1 < i + 1) /\ n + 1 # i + 1 /\ n + 1 - 1 = n /\ n + 1 # i
    BY <1>1
  <2>2. d[n + 1] = r[n]
    BY <1>5, <1>7, <2>1
  <2>3. /\ r[n].addr = b[n].addr /\ r[n].size = b[n].size /\ r[n].used = b[n].used
        /\ r[n].prev = IF n = i + 1 THEN e.addr ELSE b[n].prev
    BY <1>4, <2>1
  <2>4. /\ c[n + 1].addr = d[n + 1].addr /\ c[n + 1].prev = d[n + 1].prev
        /\ c[n + 1].size = d[n + 1].size /\ c[n + 1].used = d[n + 1].used
    BY <1>6, <1>7, <2>1
  <2> QED
    BY <1>2, <2>2, <2>3, <2>4
<1>12. /\ \A n \in 1 .. i : c[n].addr = b[n].addr /\ c[n].prev = b[n].prev
       /\ \A n \in 1 .. i - 1 : c[n].size = b[n].size /\ c[n].used = b[n].used
  <2>1. \A n \in 1 .. i - 1 : n \in 1 .. i /\ n # i
    BY <1>1
  <2> QED
    BY <1>8, <2>1
<1> QED
  BY <1>3, <1>6, <1>7, <1>9, <1>10, <1>11, <1>12 DEF IsSplit

(* A free block is cut in two, and the first part taken.                   *)
LEMMA SplitKeeps ==
  ASSUME NEW b, Tiles(b), NEW h, Holds(b, h), NEW size \in Nat, NEW i \in 1 .. Len(b),
         ~b[i].used, b[i].size >= Total(size) + HEADER + KHEAP_BLOCK_MIN
  PROVE  LET c == Split(b, i, Total(size))
             at == b[i].addr + HEADER
         IN  /\ Tiles(c) /\ EndOf(c) = EndOf(b)
             /\ at \notin DOMAIN h /\ Holds(c, More(h, at, size))
             /\ UsedBytes(c) = UsedBytes(b) + Total(size)
<1> DEFINE t == Total(size)
           c == Split(b, i, t)
           at == b[i].addr + HEADER
           L == Len(b)
<1>1. /\ b \in Seq(Blk) /\ L \in Nat /\ \A n \in 1 .. L : b[n].addr \in Nat /\ b[n].size \in Nat
      /\ i \in Nat /\ i \in 1 .. L
  BY BlockTypes DEF Tiles
<1>2. /\ t \in Nat /\ size <= t - HEADER /\ t >= HEADER + KHEAP_BLOCK_MIN
      /\ b[i].size >= t /\ b[i].size - t >= HEADER + KHEAP_BLOCK_MIN
  <2>1. /\ t \in Nat /\ size <= t - HEADER /\ t >= HEADER + KHEAP_BLOCK_MIN
        /\ b[i].size \in Nat /\ b[i].size >= t + HEADER + KHEAP_BLOCK_MIN
    BY <1>1, TotalIs
  <2> HIDE DEF t
  <2> QED
    BY <2>1, SizesCount
<1> HIDE DEF t
<1>3. /\ c \in Seq(Blk) /\ Len(c) = L + 1
      /\ \A n \in 1 .. i : c[n].addr = b[n].addr /\ c[n].prev = b[n].prev
      /\ \A n \in 1 .. i - 1 : c[n].size = b[n].size /\ c[n].used = b[n].used
      /\ c[i].size = t /\ c[i].used = TRUE
      /\ c[i + 1].addr = b[i].addr + t /\ c[i + 1].size = b[i].size - t
      /\ c[i + 1].used = FALSE /\ c[i + 1].prev = b[i].addr
      /\ \A n \in i + 1 .. L :
           /\ c[n + 1].addr = b[n].addr /\ c[n + 1].size = b[n].size /\ c[n + 1].used = b[n].used
           /\ c[n + 1].prev = IF n = i + 1 THEN b[i].addr + t ELSE b[n].prev
  <2>1. b \in Seq(Blk) /\ i \in 1 .. Len(b) /\ t \in Nat /\ b[i].size >= t
    BY <1>1, <1>2 DEF L
  <2>2. IsSplit(b, i, t, c)
    BY ONLY <2>1, SplitIs
  <2> HIDE DEF c
  <2> QED
    BY <2>2 DEF IsSplit, L
<1>4. /\ \A n \in 1 .. L : b[n].size >= HEADER + KHEAP_BLOCK_MIN
      /\ b[1].addr = 0 /\ b[1].prev = NULL
      /\ \A n \in 1 .. L - 1 : b[n + 1].addr = b[n].addr + b[n].size /\ b[n + 1].prev \in {NULL, b[n].addr}
  <2>1. Len(b) > 0
    BY <1>1
  <2> QED
    BY <2>1 DEF Tiles
<1> HIDE DEF c, L
(* Where the blocks of the new list come from.                             *)
<1>5. ASSUME NEW n \in 1 .. Len(c)
      PROVE  n \in 1 .. i - 1 \/ n = i \/ n = i + 1 \/ (n - 1 \in i + 1 .. L /\ n - 1 + 1 = n)
  BY <1>1, <1>3
<1>6. Tiles(c)
  <2>1. ASSUME NEW n \in 1 .. Len(c) PROVE c[n].size >= HEADER + KHEAP_BLOCK_MIN
    <3>1. CASE n \in 1 .. i - 1
      <4>1. n \in 1 .. L /\ c[n].size = b[n].size
        BY <1>1, <1>3, <3>1
      <4> QED
        BY <1>4, <4>1
    <3>2. CASE n = i \/ n = i + 1
      BY <1>2, <1>3, <3>2
    <3>3. CASE n - 1 \in i + 1 .. L /\ n - 1 + 1 = n
      <4>1. n - 1 \in 1 .. L
        BY <1>1, <3>3
      <4>2. c[n].size = b[n - 1].size
        BY <1>3, <3>3
      <4> QED
        BY <1>4, <4>1, <4>2
    <3> QED
      BY <1>5, <3>1, <3>2, <3>3
  <2>2. c[1].addr = 0 /\ c[1].prev = NULL
    <3>1. 1 \in 1 .. i
      BY <1>1
    <3> QED
      BY <1>3, <1>4, <3>1
  <2>3. ASSUME NEW n \in 1 .. Len(c) - 1
        PROVE  c[n + 1].addr = c[n].addr + c[n].size /\ c[n + 1].prev \in {NULL, c[n].addr}
    <3>1. n \in 1 .. L /\ n \in Nat /\ i \in Nat
      BY <1>1, <1>3
    <3>2. CASE n < i
      <4>1. n \in 1 .. i - 1 /\ n \in 1 .. i /\ n + 1 \in 1 .. i /\ n \in 1 .. L - 1
        BY <1>1, <3>1, <3>2
      <4>2. c[n].addr = b[n].addr /\ c[n].size = b[n].size /\ c[n + 1].addr = b[n + 1].addr
            /\ c[n + 1].prev = b[n + 1].prev
        BY <1>3, <4>1
      <4> QED
        BY <1>4, <4>1, <4>2
    <3>3. CASE n = i
      <4>1. i \in 1 .. i
        BY <1>1
      <4> QED
        BY <1>3, <3>3, <4>1
    <3>4. CASE n = i + 1
      <4>1. n \in i + 1 .. L /\ i \in 1 .. L - 1
        BY <1>1, <3>1, <3>4
      <4>2. c[n + 1].addr = b[n].addr /\ c[n + 1].prev = b[i].addr + t /\ c[n].addr = b[i].addr + t
            /\ c[n].size = b[i].size - t
        BY <1>3, <3>4, <4>1
      <4>3. b[n].addr = b[i].addr + b[i].size /\ b[i].addr \in Nat /\ b[i].size \in Nat
        BY <1>1, <1>4, <3>4, <4>1
      <4> QED
        BY <1>2, <4>2, <4>3
    <3>5. CASE n > i + 1
      <4> DEFINE m == n - 1
      <4>1. m \in i + 1 .. L /\ m + 1 = n /\ n \in i + 1 .. L /\ n # i + 1 /\ m \in 1 .. L - 1
        BY <1>1, <3>1, <3>5
      <4>2. c[n + 1].addr = b[n].addr /\ c[n + 1].prev = b[n].prev
        BY <1>3, <4>1
      <4> HIDE DEF m
      <4>3. c[m + 1].addr = b[m].addr /\ c[m + 1].size = b[m].size
        BY <1>3, <4>1
      <4>4. b[m + 1].addr = b[m].addr + b[m].size /\ b[m + 1].prev \in {NULL, b[m].addr}
        BY <1>4, <4>1
      <4> QED
        BY <4>1, <4>2, <4>3, <4>4
    <3> QED
      BY <3>1, <3>2, <3>3, <3>4, <3>5
  <2>4. Len(c) > 0 => c[1].addr = 0 /\ c[1].prev = NULL
    BY <2>2
  <2> QED
    BY <1>3, <2>1, <2>3, <2>4 DEF Tiles
<1>7. EndOf(c) = EndOf(b)
  <2>1. /\ EndOf(c) = c[L + 1].addr + c[L + 1].size /\ EndOf(b) = b[L].addr + b[L].size
        /\ b[L].addr \in Nat /\ b[L].size \in Nat
    <3>1. Len(c) # 0 /\ L # 0 /\ L \in 1 .. L
      BY <1>1, <1>3
    <3> QED
      BY <1>1, <1>3, <1>6, <3>1, EndIs DEF L
  <2>2. CASE L = i
    BY <1>2, <1>3, <2>1, <2>2
  <2>3. CASE L # i
    <3>1. L \in i + 1 .. L
      BY <1>1, <2>3
    <3> QED
      BY <1>3, <2>1, <3>1
  <2> QED
    BY <2>2, <2>3
<1>8. at \notin DOMAIN h
  <2>1. ASSUME at \in DOMAIN h PROVE FALSE
    <3>1. PICK n \in 1 .. Len(b) : b[n].used /\ at = b[n].addr + HEADER
      BY <2>1 DEF Holds
    <3>2. b[n].addr = b[i].addr
      BY <1>1, <3>1, SizesCount DEF L
    <3> QED
      BY <3>1, <3>2, AddressesDiffer
  <2> QED
    BY <2>1
<1>9. Holds(c, More(h, at, size))
  <2>1. ASSUME NEW n \in 1 .. Len(c), c[n].used
        PROVE  \/ c[n].addr + HEADER = at /\ size <= c[n].size - HEADER
               \/ \E k \in 1 .. Len(b) : b[k].used /\ c[n].addr = b[k].addr /\ c[n].size = b[k].size
    <3>1. CASE n \in 1 .. i - 1
      <4>1. n \in 1 .. i /\ n \in 1 .. Len(b)
        BY <1>1, <3>1 DEF L
      <4> QED
        BY <1>3, <2>1, <3>1, <4>1
    <3>2. CASE n = i
      <4>1. i \in 1 .. i
        BY <1>1
      <4> QED
        BY <1>2, <1>3, <3>2, <4>1
    <3>3. CASE n = i + 1
      BY <1>3, <2>1, <3>3
    <3>4. CASE n - 1 \in i + 1 .. L /\ n - 1 + 1 = n
      <4> DEFINE k == n - 1
      <4>1. k \in i + 1 .. L /\ k + 1 = n /\ k \in 1 .. Len(b)
        BY <1>1, <3>4 DEF L
      <4> HIDE DEF k
      <4>2. c[k + 1].addr = b[k].addr /\ c[k + 1].size = b[k].size /\ c[k + 1].used = b[k].used
        BY <1>3, <4>1
      <4> QED
        BY <2>1, <4>1, <4>2
    <3> QED
      BY <1>5, <3>1, <3>2, <3>3, <3>4
  <2>2. ASSUME NEW k \in 1 .. Len(b), b[k].used
        PROVE  \E n \in 1 .. Len(c) : c[n].used /\ c[n].addr = b[k].addr
    <3>1. k # i /\ k \in Nat
      BY <2>2
    <3>2. CASE k < i
      <4>1. k \in 1 .. i - 1 /\ k \in 1 .. i /\ k \in 1 .. Len(c)
        BY <1>1, <1>3, <3>1, <3>2 DEF L
      <4> QED
        BY <1>3, <2>2, <4>1
    <3>3. CASE k > i
      <4>1. k \in i + 1 .. L /\ k + 1 \in 1 .. Len(c)
        BY <1>1, <1>3, <3>1, <3>3 DEF L
      <4> QED
        BY <1>3, <2>2, <4>1
    <3> QED
      BY <1>1, <3>1, <3>2, <3>3
  <2>3. \E n \in 1 .. Len(c) : c[n].used /\ at = c[n].addr + HEADER
    <3>1. i \in 1 .. Len(c) /\ i \in 1 .. i
      BY <1>1, <1>3
    <3> QED
      BY <1>3, <3>1
  <2> HIDE DEF at
  <2> QED
    BY <1>8, <2>1, <2>2, <2>3, MoreIsHeld
(* The bytes in use: the block is taken, then the other part is put in.    *)
<1>10. UsedBytes(c) = UsedBytes(b) + t
  <2> DEFINE m == Taken(b, i, t)
  <2>1. /\ m \in Seq(Blk) /\ Len(m) = L
        /\ \A n \in 1 .. L :
             /\ m[n].size = IF n = i THEN t ELSE b[n].size
             /\ m[n].used = IF n = i THEN TRUE ELSE b[n].used
    <3>1. b \in Seq(Blk) /\ i \in 1 .. Len(b) /\ t \in Nat
      BY <1>1, <1>2 DEF L
    <3>2. IsTaken(b, i, t, m)
      BY ONLY <3>1, TakenIs
    <3> HIDE DEF m
    <3> QED
      BY <3>2 DEF IsTaken, L
  <2> HIDE DEF m
  <2>2. UsedBytes(m) = UsedBytes(b) + t
    <3>1. \A n \in 1 .. Len(b) : n # i => Weight(m[n]) = Weight(b[n])
      BY <2>1 DEF Weight, L
    <3>2. Weight(m[i]) = t /\ Weight(b[i]) = 0
      BY <1>1, <2>1 DEF Weight
    <3>3. UsedBytes(m) = UsedBytes(b) + Weight(m[i]) - Weight(b[i]) /\ UsedBytes(b) \in Nat
      BY <1>1, <2>1, <3>1, SumChange DEF L
    <3> QED
      BY <1>2, <3>2, <3>3
  <2>3. ASSUME NEW n \in 1 .. Len(m)
        PROVE  Weight(m[n]) = IF n < i + 1 THEN Weight(c[n]) ELSE Weight(c[n + 1])
    <3>1. n \in 1 .. L /\ n \in Nat
      BY <1>1, <2>1
    <3>2. CASE n < i
      <4>1. n \in 1 .. i - 1 /\ n # i /\ n < i + 1
        BY <1>1, <3>1, <3>2
      <4>2. c[n].size = b[n].size /\ c[n].used = b[n].used /\ m[n].size = b[n].size /\ m[n].used = b[n].used
        BY <1>3, <2>1, <3>1, <4>1
      <4> QED
        BY <4>1, <4>2 DEF Weight
    <3>3. CASE n = i
      <4>1. n < i + 1
        BY <1>1, <3>3
      <4> QED
        BY <1>3, <2>1, <3>1, <3>3, <4>1 DEF Weight
    <3>4. CASE n > i
      <4>1. n \in i + 1 .. L /\ n # i /\ ~(n < i + 1)
        BY <1>1, <3>1, <3>4
      <4>2. c[n + 1].size = b[n].size /\ c[n + 1].used = b[n].used /\ m[n].size = b[n].size /\ m[n].used = b[n].used
        BY <1>3, <2>1, <3>1, <4>1
      <4> QED
        BY <4>1, <4>2 DEF Weight
    <3> QED
      BY <1>1, <3>1, <3>2, <3>3, <3>4
  <2>4. UsedBytes(m) = UsedBytes(c)
    <3>1. Weight(c[i + 1]) = 0 /\ i + 1 \in 1 .. Len(c) /\ Len(m) = Len(c) - 1
      BY <1>1, <1>3, <2>1 DEF Weight
    <3> QED
      BY <1>3, <2>1, <2>3, <3>1, SumDrop
  <2> QED
    BY <2>2, <2>4
<1> QED
  BY <1>6, <1>7, <1>8, <1>9, <1>10 DEF c, t

-----------------------------------------------------------------------------
(***************************************************************************)
(* Pages and frames.                                                       *)
(***************************************************************************)
PageCount == KHEAP_END \div PMM_FRAME_SIZE

LEMMA TimesSize ==
  /\ \A a, b \in Nat : a < b => a * PMM_FRAME_SIZE + PMM_FRAME_SIZE <= b * PMM_FRAME_SIZE
  /\ \A a \in Nat : (a * PMM_FRAME_SIZE) \div PMM_FRAME_SIZE = a /\ a * PMM_FRAME_SIZE \in Nat
  /\ \A a, b \in Nat : (a + b) * PMM_FRAME_SIZE = a * PMM_FRAME_SIZE + b * PMM_FRAME_SIZE
<1> DEFINE F == PMM_FRAME_SIZE
<1>1. F \in Nat /\ F > 0
  BY SizesCount
<1> HIDE DEF F
<1>2. \A a, b \in Nat : (a + b) * F = a * F + b * F
  BY <1>1
<1>3. \A a \in Nat : a * F \in Nat
  BY <1>1
<1>4. \A a \in Nat : (a * F) \div F = a
  BY <1>1
<1>5. \A a, b \in Nat : a < b => a * F + F <= b * F
  <2> SUFFICES ASSUME NEW a \in Nat, NEW b \in Nat, a < b
               PROVE  a * F + F <= b * F
    OBVIOUS
  <2> DEFINE d == b - a - 1
  <2>1. d \in Nat /\ b = a + 1 + d
    OBVIOUS
  <2> HIDE DEF d
  <2>2. b * F = (a + 1) * F + d * F /\ (a + 1) * F = a * F + F
    BY <1>1, <2>1
  <2>3. d * F \in Nat /\ a * F \in Nat /\ b * F \in Nat
    BY <1>1, <2>1
  <2> QED
    BY <1>1, <2>2, <2>3
<1> QED
  BY <1>2, <1>3, <1>4, <1>5 DEF F

LEMMA TimesOrder ==
  \A a, b \in Nat :
    /\ a * PMM_FRAME_SIZE < b * PMM_FRAME_SIZE <=> a < b
    /\ a * PMM_FRAME_SIZE <= b * PMM_FRAME_SIZE <=> a <= b
<1> SUFFICES ASSUME NEW a \in Nat, NEW b \in Nat
             PROVE  /\ a * PMM_FRAME_SIZE < b * PMM_FRAME_SIZE <=> a < b
                    /\ a * PMM_FRAME_SIZE <= b * PMM_FRAME_SIZE <=> a <= b
  OBVIOUS
<1> DEFINE x == a * PMM_FRAME_SIZE
           y == b * PMM_FRAME_SIZE
           F == PMM_FRAME_SIZE
<1>1. /\ x \in Nat /\ y \in Nat /\ F \in Nat /\ F > 0 /\ (a < b => x + F <= y) /\ (b < a => y + F <= x)
      /\ (a = b => x = y)
  BY TimesSize, SizesCount
<1> HIDE DEF x, y, F
<1> QED
  BY <1>1 DEF x, y

LEMMA Ceiling ==
  \A n \in Nat : LET k == (n + PMM_FRAME_SIZE - 1) \div PMM_FRAME_SIZE IN k \in Nat /\ n <= k * PMM_FRAME_SIZE
<1> DEFINE F == PMM_FRAME_SIZE
<1>1. F \in Nat /\ F > 0
  BY SizesCount
<1> HIDE DEF F
<1>2. SUFFICES ASSUME NEW n \in Nat PROVE LET k == (n + F - 1) \div F IN k \in Nat /\ n <= k * F
  BY DEF F
<1> DEFINE x == n + F - 1
           k == x \div F
<1>3. x \in Nat
  BY <1>1
<1> HIDE DEF x
<1>4. k \in Nat /\ x < k * F + F /\ k * F \in Nat
  BY <1>1, <1>3
<1> HIDE DEF k
<1>5. n <= k * F
  <2> DEFINE y == k * F
  <2>1. y \in Nat /\ x < y + F
    BY <1>4
  <2> HIDE DEF y
  <2>2. n <= y
    BY <1>1, <2>1 DEF x
  <2> QED
    BY <2>2 DEF y
<1> QED
  BY <1>4, <1>5 DEF k, x

LEMMA RangeIsPages ==
  PageCount \in Nat /\ KHEAP_END = PageCount * PMM_FRAME_SIZE
<1> DEFINE F == PMM_FRAME_SIZE
           E == KHEAP_END
<1>1. F \in Nat /\ F > 0 /\ E \in Nat /\ E % F = 0
  BY HeapAssumption
<1> HIDE DEF F, E
<1>2. E \div F \in Nat /\ E = (E \div F) * F
  BY <1>1
<1> QED
  BY <1>2 DEF PageCount, F, E

LEMMA PagesOfBytes ==
  \A x \in Nat : PageOf(x) \in Nat /\ \A k \in Nat : x < k * PMM_FRAME_SIZE <=> PageOf(x) < k
<1> DEFINE F == PMM_FRAME_SIZE
<1>1. F \in Nat /\ F > 0
  BY SizesCount
<1> SUFFICES ASSUME NEW x \in Nat
             PROVE  PageOf(x) \in Nat /\ \A k \in Nat : x < k * F <=> PageOf(x) < k
  OBVIOUS
<1> DEFINE q == x \div F
<1> HIDE DEF F
<1>2. q \in Nat /\ q * F \in Nat /\ q * F <= x /\ x < q * F + F
  BY <1>1
<1>3. PageOf(x) = q
  BY DEF PageOf, F
<1> HIDE DEF q
<1>4. ASSUME NEW k \in Nat PROVE x < k * F <=> q < k
  <2> DEFINE a == q * F
             b == k * F
  <2>1. a \in Nat /\ b \in Nat /\ (q < k => a + F <= b) /\ (k <= q => b <= a)
    BY <1>2, TimesSize, TimesOrder DEF F
  <2>2. a <= x /\ x < a + F
    BY <1>2
  <2> HIDE DEF a, b
  <2>3. x < b <=> q < k
    BY <1>1, <1>2, <2>1, <2>2
  <2> QED
    BY <2>3 DEF b
<1> QED
  BY <1>2, <1>3, <1>4

(* What is kept of a block lies below the end of the list.                 *)
LEMMA KeptIsBelow ==
  ASSUME NEW b, Tiles(b), NEW i \in 1 .. Len(b), NEW x \in Kept(b[i])
  PROVE  x \in Nat /\ x < EndOf(b)
<1>1. /\ b[i].addr \in Nat /\ b[i].size \in Nat /\ b[i].size >= HEADER + KHEAP_BLOCK_MIN
  BY BlockTypes DEF Tiles
<1>2. b[i].addr + b[i].size <= EndOf(b) /\ EndOf(b) \in Nat
  BY BelowEnd, EndCounts
<1>3. x \in Nat /\ x < b[i].addr + b[i].size
  <2> DEFINE a == b[i].addr
             z == b[i].size
  <2>1. CASE b[i].used
    <3>1. x \in a .. a + z - 1
      BY <2>1 DEF Kept
    <3> QED
      BY <1>1, <3>1
  <2>2. CASE ~b[i].used
    <3>1. x \in a .. a + HEADER - 1
      BY <2>2 DEF Kept
    <3> QED
      BY <1>1, <3>1, SizesCount
  <2> QED
    BY <2>1, <2>2
<1> QED
  BY <1>1, <1>2, <1>3

LEMMA LowestIsFree ==
  ASSUME NEW taken, FreeFrames(taken) # {}
  PROVE  LowestFree(taken) \in Frame \ taken /\ LowestFree(taken) # NULL
<1>1. FreeFrames(taken) \subseteq Nat
  BY HeapAssumption DEF FreeFrames, Frame
<1>2. \E f \in FreeFrames(taken) : \A g \in FreeFrames(taken) : f <= g
  BY <1>1, Least
<1>3. LowestFree(taken) \in FreeFrames(taken)
  BY <1>2 DEF LowestFree
<1> QED
  BY <1>1, <1>3 DEF FreeFrames, NULL

(* A heap with the bitmap, as the calls pass it on.                        *)
HeapState ==
  [blocks : Seq(Blk), heap_current : Nat, heap_used : Int, mapped : [0 .. PageCount - 1 -> Frame \cup {NULL}],
   bitmap : SUBSET Frame, failed : BOOLEAN, astray : BOOLEAN, stopped : BOOLEAN]

(* No frame has two users: oth are those outside the heap.                 *)
FramesApart(s, oth) ==
  /\ KernelFrames \subseteq s.bitmap /\ oth \subseteq s.bitmap \ KernelFrames
  /\ \A p \in 0 .. PageCount - 1 : s.mapped[p] # NULL => s.mapped[p] \in s.bitmap \ (oth \cup KernelFrames)
  /\ \A p, q \in 0 .. PageCount - 1 : s.mapped[p] # NULL /\ s.mapped[p] = s.mapped[q] => p = q

(* The heap reaches the m-th page, and what is below it is mapped.         *)
Reaches(s, m) ==
  /\ m \in 0 .. PageCount /\ s.heap_current = m * PMM_FRAME_SIZE
  /\ \A p \in 0 .. m - 1 : s.mapped[p] # NULL

(* From s to t no page has lost its frame, and if t is not astray, neither *)
(* was s, and every page with something to keep has the frame it had.      *)
Spares(s, t) ==
  /\ \A p \in 0 .. PageCount - 1 : s.mapped[p] # NULL => t.mapped[p] # NULL
  /\ ~t.astray => ~s.astray /\ \A p \in 0 .. PageCount - 1 : Touched(s.blocks, p) => t.mapped[p] = s.mapped[p]

(* Something to keep is on a page from the m-th on.                        *)
Exceeds(b, m) == \E p \in Nat : m <= p /\ Touched(b, p)

(* n pages on, of the heap s that reaches page m, the state is t.          *)
Mapping(s, t, oth, m, n) ==
  /\ t \in HeapState
  /\ t.blocks = s.blocks /\ t.heap_current = s.heap_current /\ t.heap_used = s.heap_used /\ t.failed = s.failed
  /\ s.bitmap \subseteq t.bitmap
  /\ FramesApart(t, oth)
  /\ Reaches(t, m)
  /\ Spares(s, t) /\ (t.astray => s.astray \/ Exceeds(s.blocks, m))
  /\ t.stopped \/ (m + n <= PageCount /\ \A p \in 0 .. m + n - 1 : t.mapped[p] # NULL)

LEMMA PageIsMapped ==
  ASSUME NEW s, NEW t, NEW oth, NEW m, NEW n \in Nat, Mapping(s, t, oth, m, n)
  PROVE  Mapping(s, MapPage(t, n), oth, m, n + 1)
<1> DEFINE r == MapPage(t, n)
<1>1. /\ t \in HeapState
      /\ t.blocks = s.blocks /\ t.heap_current = s.heap_current /\ t.heap_used = s.heap_used /\ t.failed = s.failed
      /\ s.bitmap \subseteq t.bitmap
      /\ FramesApart(t, oth)
      /\ Reaches(t, m)
      /\ Spares(s, t) /\ (t.astray => s.astray \/ Exceeds(s.blocks, m))
      /\ t.stopped \/ (m + n <= PageCount /\ \A p \in 0 .. m + n - 1 : t.mapped[p] # NULL)
  BY DEF Mapping
<1>2. m \in 0 .. PageCount /\ m \in Nat /\ PageCount \in Nat /\ t.heap_current = m * PMM_FRAME_SIZE
  BY <1>1, RangeIsPages DEF Reaches
<1> DEFINE stops == t.stopped \/ t.heap_current + n * PMM_FRAME_SIZE >= KHEAP_END \/ FreeFrames(t.bitmap) = {}
<1>3. CASE stops
  <2>1. r = [t EXCEPT !.stopped = TRUE]
    BY <1>3 DEF MapPage
  <2>2. /\ r \in HeapState /\ r.blocks = t.blocks /\ r.heap_current = t.heap_current /\ r.heap_used = t.heap_used
        /\ r.failed = t.failed /\ r.bitmap = t.bitmap /\ r.mapped = t.mapped /\ r.astray = t.astray
        /\ r.stopped = TRUE
    <3> HIDE DEF r
    <3> QED
      BY <1>1, <2>1 DEF HeapState
  <2> HIDE DEF r
  <2>3. FramesApart(r, oth) /\ Reaches(r, m) /\ Spares(s, r)
    BY <1>1, <2>2 DEF FramesApart, Reaches, Spares
  <2> QED
    BY <1>1, <2>2, <2>3 DEF Mapping, r
<1>4. CASE ~stops
  <2> DEFINE f == LowestFree(t.bitmap)
             page == t.heap_current \div PMM_FRAME_SIZE + n
             v == [t.mapped EXCEPT ![page] = f]
             u == t.bitmap \cup {f}
             w == t.astray \/ Touched(t.blocks, page)
  <2>1. r = [t EXCEPT !.bitmap = u, !.mapped = v, !.astray = w]
    BY <1>4 DEF MapPage
  <2>2. f \in Frame /\ f \notin t.bitmap /\ f # NULL
    BY <1>4, LowestIsFree
  <2>3. page = m + n /\ m + n < PageCount
    <3>1. page = m + n
      BY <1>2, TimesSize
    <3>2. (m + n) * PMM_FRAME_SIZE < PageCount * PMM_FRAME_SIZE
      <4>1. ~(t.heap_current + n * PMM_FRAME_SIZE >= KHEAP_END)
        BY <1>4
      <4>2. (m + n) * PMM_FRAME_SIZE = m * PMM_FRAME_SIZE + n * PMM_FRAME_SIZE /\ (m + n) * PMM_FRAME_SIZE \in Nat
        <5>1. m + n \in Nat /\ m \in Nat /\ n \in Nat
          BY <1>2
        <5> QED
          BY ONLY <5>1, TimesSize
      <4>3. ~((m + n) * PMM_FRAME_SIZE >= PageCount * PMM_FRAME_SIZE)
        BY <1>2, <4>1, <4>2, RangeIsPages
      <4>4. PageCount * PMM_FRAME_SIZE \in Nat
        BY <1>2, TimesSize
      <4> DEFINE x == (m + n) * PMM_FRAME_SIZE
                 y == PageCount * PMM_FRAME_SIZE
      <4>5. x \in Nat /\ y \in Nat /\ ~(x >= y)
        BY <4>2, <4>3, <4>4
      <4> HIDE DEF x, y
      <4>6. x < y
        BY <4>5
      <4> QED
        BY <4>6 DEF x, y
    <3>3. m + n \in Nat
      BY <1>2
    <3> QED
      BY <1>2, <3>1, <3>2, <3>3, TimesOrder
  <2> HIDE DEF f, page
  <2>4. t.mapped \in [0 .. PageCount - 1 -> Frame \cup {NULL}] /\ t.bitmap \subseteq Frame
    BY <1>1 DEF HeapState
  <2>5. /\ v \in [0 .. PageCount - 1 -> Frame \cup {NULL}]
        /\ \A p \in 0 .. PageCount - 1 : v[p] = IF p = m + n THEN f ELSE t.mapped[p]
    BY <2>2, <2>3, <2>4
  <2>6. u \in SUBSET Frame /\ f \in u /\ t.bitmap \subseteq u
    BY <2>2, <2>4
  <2>6a. w \in BOOLEAN /\ (w <=> t.astray \/ Touched(s.blocks, m + n))
    <3>1. t.astray \in BOOLEAN /\ Touched(t.blocks, page) \in BOOLEAN
      BY <1>1 DEF HeapState, Touched
    <3> QED
      BY <1>1, <2>3, <3>1
  <2> HIDE DEF r, v, u, w
  <2>7. /\ r \in HeapState /\ r.blocks = t.blocks /\ r.heap_current = t.heap_current /\ r.heap_used = t.heap_used
        /\ r.failed = t.failed /\ r.bitmap = u /\ r.mapped = v /\ r.astray = w /\ r.stopped = t.stopped
    BY <1>1, <2>1, <2>5, <2>6, <2>6a DEF HeapState
  <2>8. FramesApart(r, oth)
    <3>1. KernelFrames \subseteq u /\ oth \subseteq u \ KernelFrames /\ f \notin oth \cup KernelFrames
      BY <1>1, <2>2, <2>6 DEF FramesApart
    <3>2. ASSUME NEW p \in 0 .. PageCount - 1, v[p] # NULL
          PROVE  v[p] \in u \ (oth \cup KernelFrames)
      <4>1. CASE p = m + n
        BY <2>5, <2>6, <3>1, <4>1
      <4>2. CASE p # m + n
        <5>1. v[p] = t.mapped[p]
          BY <2>5, <4>2
        <5> QED
          BY <1>1, <2>6, <3>2, <5>1 DEF FramesApart
      <4> QED
        BY <4>1, <4>2
    <3>3. ASSUME NEW p \in 0 .. PageCount - 1, NEW q \in 0 .. PageCount - 1, v[p] # NULL, v[p] = v[q]
          PROVE  p = q
      <4>1. \A k \in 0 .. PageCount - 1 : k # m + n => v[k] = t.mapped[k]
        BY <2>5
      <4>2. \A k \in 0 .. PageCount - 1 : t.mapped[k] # f
        BY <1>1, <2>2 DEF FramesApart
      <4>3. CASE p = m + n
        <5>1. v[q] = f
          BY <2>5, <3>3, <4>3
        <5> QED
          BY <4>1, <4>2, <4>3, <5>1
      <4>4. CASE q = m + n
        <5>1. v[p] = f
          BY <2>5, <3>3, <4>4
        <5> QED
          BY <4>1, <4>2, <4>4, <5>1
      <4>5. CASE p # m + n /\ q # m + n
        <5>1. v[p] = t.mapped[p] /\ v[q] = t.mapped[q]
          BY <4>1, <4>5
        <5> QED
          BY <1>1, <3>3, <5>1 DEF FramesApart
      <4> QED
        BY <4>3, <4>4, <4>5
    <3> QED
      BY <2>7, <3>1, <3>2, <3>3 DEF FramesApart
  <2>9. \A p \in 0 .. m + n : v[p] # NULL
    <3> SUFFICES ASSUME NEW p \in 0 .. m + n PROVE v[p] # NULL
      OBVIOUS
    <3>1. p \in 0 .. PageCount - 1
      BY <1>2, <2>3
    <3>2. CASE p = m + n
      BY <2>2, <2>5, <3>1, <3>2
    <3>3. CASE p # m + n
      <4>1. p \in 0 .. m + n - 1 /\ ~t.stopped
        BY <1>2, <1>4, <3>3
      <4>2. t.mapped[p] # NULL
        BY <1>1, <4>1
      <4> QED
        BY <2>5, <3>1, <3>3, <4>2
    <3> QED
      BY <3>2, <3>3
  <2>10. Reaches(r, m)
    <3>1. \A p \in 0 .. m - 1 : p \in 0 .. m + n
      BY <1>2
    <3> QED
      BY <1>1, <2>7, <2>9, <3>1 DEF Reaches
  <2>11. m + (n + 1) <= PageCount /\ \A p \in 0 .. m + (n + 1) - 1 : r.mapped[p] # NULL
    <3>1. m + (n + 1) <= PageCount /\ 0 .. m + (n + 1) - 1 = 0 .. m + n
      BY <1>2, <2>3
    <3> QED
      BY <2>7, <2>9, <3>1
  <2>12. s.bitmap \subseteq r.bitmap
    BY <1>1, <2>6, <2>7
  <2>13. Spares(s, r)
    <3>1. ASSUME NEW p \in 0 .. PageCount - 1, s.mapped[p] # NULL PROVE r.mapped[p] # NULL
      <4>1. t.mapped[p] # NULL
        BY <1>1, <3>1 DEF Spares
      <4> QED
        BY <2>2, <2>5, <2>7, <4>1
    <3>2. ASSUME ~r.astray
          PROVE  ~s.astray /\ \A p \in 0 .. PageCount - 1 : Touched(s.blocks, p) => r.mapped[p] = s.mapped[p]
      <4>1. ~t.astray /\ ~Touched(s.blocks, m + n)
        BY <2>6a, <2>7, <3>2
      <4>2. ~s.astray /\ \A p \in 0 .. PageCount - 1 : Touched(s.blocks, p) => t.mapped[p] = s.mapped[p]
        BY <1>1, <4>1 DEF Spares
      <4> QED
        BY <2>5, <2>7, <4>1, <4>2
    <3> QED
      BY <3>1, <3>2 DEF Spares
  <2>14. r.astray => s.astray \/ Exceeds(s.blocks, m)
    <3>1. m + n \in Nat /\ m <= m + n
      BY <1>2
    <3> QED
      BY <1>1, <2>6a, <2>7, <3>1 DEF Exceeds
  <2> QED
    BY <1>1, <2>7, <2>8, <2>10, <2>11, <2>12, <2>13, <2>14 DEF Mapping, r
<1> QED
  BY <1>3, <1>4

(* The pages are mapped one after the other.                               *)
LEMMA PagesSteps ==
  ASSUME NEW s, NEW size
  PROVE  LET N == (size + PMM_FRAME_SIZE - 1) \div PMM_FRAME_SIZE
         IN  N \in Nat =>
               \E f : /\ f[0] = [s EXCEPT !.stopped = FALSE]
                      /\ \A n \in 1 .. N : f[n] = MapPage(f[n - 1], n - 1)
                      /\ Extended(s, size) = IF f[N].stopped THEN [f[N] EXCEPT !.failed = TRUE]
                                             ELSE [f[N] EXCEPT !.heap_current = @ + N * PMM_FRAME_SIZE]
<1> DEFINE N == (size + PMM_FRAME_SIZE - 1) \div PMM_FRAME_SIZE
           s0 == [s EXCEPT !.stopped = FALSE]
           Is(g, k) == g = [n \in 0 .. k |-> IF n = 0 THEN s0 ELSE MapPage(g[n - 1], n - 1)]
           S == {k \in 0 .. N : \E g : Is(g, k)}
           f == CHOOSE g : Is(g, N)
<1>1. Extended(s, size) = IF f[N].stopped THEN [f[N] EXCEPT !.failed = TRUE]
                          ELSE [f[N] EXCEPT !.heap_current = @ + N * PMM_FRAME_SIZE]
  BY DEF Extended
<1>2. SUFFICES ASSUME N \in Nat
               PROVE  \E g : /\ g[0] = s0 /\ \A n \in 1 .. N : g[n] = MapPage(g[n - 1], n - 1)
                             /\ Extended(s, size) = IF g[N].stopped THEN [g[N] EXCEPT !.failed = TRUE]
                                                    ELSE [g[N] EXCEPT !.heap_current = @ + N * PMM_FRAME_SIZE]
  OBVIOUS
<1> HIDE DEF s0, N
<1>3. 0 \in S
  <2> DEFINE g == [n \in 0 .. 0 |-> s0]
  <2>1. Is(g, 0)
    OBVIOUS
  <2> HIDE DEF Is, g
  <2> QED
    BY <1>2, <2>1
<1>4. ASSUME NEW k \in 0 .. N, k \in S, k < N
      PROVE  k + 1 \in S
  <2>1. PICK g : Is(g, k)
    BY <1>4
  <2> DEFINE h == [n \in 0 .. k + 1 |-> IF n <= k THEN g[n] ELSE MapPage(g[k], k)]
  <2>2. \A n \in 0 .. k : g[n] = IF n = 0 THEN s0 ELSE MapPage(g[n - 1], n - 1)
    BY <2>1
  <2>3. \A n \in 0 .. k + 1 : h[n] = IF n = 0 THEN s0 ELSE MapPage(h[n - 1], n - 1)
    <3> SUFFICES ASSUME NEW n \in 0 .. k + 1
                 PROVE  h[n] = IF n = 0 THEN s0 ELSE MapPage(h[n - 1], n - 1)
      OBVIOUS
    <3>1. CASE n = 0
      BY <2>2, <3>1
    <3>2. CASE n \in 1 .. k
      <4>1. h[n] = g[n] /\ h[n - 1] = g[n - 1] /\ n \in 0 .. k /\ n # 0
        BY <3>2
      <4> HIDE DEF h
      <4> QED
        BY <2>2, <4>1
    <3>3. CASE n = k + 1
      <4>1. h[n] = MapPage(g[k], k) /\ h[n - 1] = g[k] /\ n # 0 /\ n - 1 = k
        BY <3>3
      <4> HIDE DEF h
      <4> QED
        BY <3>3, <4>1
    <3> QED
      BY <3>1, <3>2, <3>3
  <2>4. Is(h, k + 1)
    <3>1. h = [n \in 0 .. k + 1 |-> h[n]]
      OBVIOUS
    <3> HIDE DEF h
    <3> QED
      BY <2>3, <3>1
  <2>5. k + 1 \in 0 .. N
    BY <1>2, <1>4
  <2> HIDE DEF Is, h
  <2> QED
    BY <2>4, <2>5
<1>5. Is(f, N)
  <2>1. 0 .. N \subseteq S
    <3> HIDE DEF S
    <3> QED
      BY <1>2, <1>3, <1>4, UpTo
  <2> HIDE DEF Is
  <2>2. \E g : Is(g, N)
    BY <1>2, <2>1
  <2> QED
    BY <2>2
<1> HIDE DEF f
<1>6. \A n \in 0 .. N : f[n] = IF n = 0 THEN s0 ELSE MapPage(f[n - 1], n - 1)
  BY <1>5
<1>7. f[0] = s0 /\ \A n \in 1 .. N : f[n] = MapPage(f[n - 1], n - 1)
  BY <1>2, <1>6
<1> QED
  BY <1>1, <1>7

(* The heap reaches as far as is needed, or an extension has failed.       *)
LEMMA ExtendedKeeps ==
  ASSUME NEW s \in HeapState, NEW oth, FramesApart(s, oth), NEW m, Reaches(s, m), NEW size \in Nat
  PROVE  LET r == Extended(s, size)
         IN  /\ r \in HeapState /\ r.blocks = s.blocks /\ r.heap_used = s.heap_used
             /\ FramesApart(r, oth)
             /\ \E k : Reaches(r, k)
             /\ Spares(s, r) /\ (r.astray => s.astray \/ Exceeds(s.blocks, m))
             /\ ~r.failed => ~s.failed /\ s.heap_current + size <= r.heap_current
<1> DEFINE N == (size + PMM_FRAME_SIZE - 1) \div PMM_FRAME_SIZE
           r == Extended(s, size)
<1>1. N \in Nat /\ size <= N * PMM_FRAME_SIZE
  BY Ceiling
<1>2. PICK f : /\ f[0] = [s EXCEPT !.stopped = FALSE]
               /\ \A n \in 1 .. N : f[n] = MapPage(f[n - 1], n - 1)
               /\ r = IF f[N].stopped THEN [f[N] EXCEPT !.failed = TRUE]
                      ELSE [f[N] EXCEPT !.heap_current = @ + N * PMM_FRAME_SIZE]
  BY <1>1, PagesSteps
<1> HIDE DEF N, r
<1>3. /\ m \in Nat /\ m <= PageCount /\ s.heap_current = m * PMM_FRAME_SIZE /\ PageCount \in Nat
  BY RangeIsPages DEF Reaches
<1> DEFINE T == {n \in 0 .. N : Mapping(s, f[n], oth, m, n)}
<1>4. 0 \in T
  <2> DEFINE t == f[0]
  <2>1. t = [s EXCEPT !.stopped = FALSE]
    BY <1>2
  <2> HIDE DEF t
  <2>2. /\ t \in HeapState /\ t.blocks = s.blocks /\ t.heap_current = s.heap_current /\ t.heap_used = s.heap_used
        /\ t.failed = s.failed /\ t.bitmap = s.bitmap /\ t.mapped = s.mapped /\ t.astray = s.astray
    BY <2>1 DEF HeapState
  <2>3. FramesApart(t, oth) /\ Reaches(t, m) /\ Spares(s, t)
    BY <2>2 DEF FramesApart, Reaches, Spares
  <2>4. m + 0 <= PageCount /\ \A p \in 0 .. m + 0 - 1 : t.mapped[p] # NULL
    <3>1. m + 0 = m
      BY <1>3
    <3> QED
      BY <1>3, <2>3, <3>1 DEF Reaches
  <2>5. Mapping(s, t, oth, m, 0)
    BY <2>2, <2>3, <2>4 DEF Mapping
  <2> QED
    BY <1>1, <2>5 DEF t
<1>5. ASSUME NEW n \in 0 .. N, n \in T, n < N
      PROVE  n + 1 \in T
  <2>1. n \in Nat /\ n + 1 \in 1 .. N /\ n + 1 \in 0 .. N /\ n + 1 - 1 = n
    BY <1>1, <1>5
  <2>2. f[n + 1] = MapPage(f[n], n)
    BY <1>2, <2>1
  <2>3. Mapping(s, f[n], oth, m, n)
    BY <1>5
  <2>4. Mapping(s, MapPage(f[n], n), oth, m, n + 1)
    BY <2>1, <2>3, PageIsMapped
  <2> QED
    BY <2>1, <2>2, <2>4
<1>6. 0 .. N \subseteq T
  <2> HIDE DEF T
  <2> QED
    BY <1>1, <1>4, <1>5, UpTo
<1> DEFINE t == f[N]
<1>7. Mapping(s, t, oth, m, N)
  BY <1>1, <1>6
<1>8. r = IF t.stopped THEN [t EXCEPT !.failed = TRUE] ELSE [t EXCEPT !.heap_current = @ + N * PMM_FRAME_SIZE]
  BY <1>2
<1> HIDE DEF t
<1>9. /\ t \in HeapState /\ t.blocks = s.blocks /\ t.heap_current = s.heap_current /\ t.heap_used = s.heap_used
      /\ t.failed = s.failed /\ FramesApart(t, oth) /\ Reaches(t, m)
      /\ Spares(s, t) /\ (t.astray => s.astray \/ Exceeds(s.blocks, m))
      /\ t.stopped \/ (m + N <= PageCount /\ \A p \in 0 .. m + N - 1 : t.mapped[p] # NULL)
  BY <1>7 DEF Mapping
<1>10. CASE t.stopped
  <2>1. /\ r \in HeapState /\ r.blocks = t.blocks /\ r.heap_current = t.heap_current /\ r.heap_used = t.heap_used
        /\ r.failed = TRUE /\ r.bitmap = t.bitmap /\ r.mapped = t.mapped /\ r.astray = t.astray
    BY <1>8, <1>9, <1>10 DEF HeapState
  <2>2. FramesApart(r, oth) /\ Reaches(r, m) /\ Spares(s, r)
    BY <1>9, <2>1 DEF FramesApart, Reaches, Spares
  <2> QED
    BY <1>9, <2>1, <2>2 DEF r
<1>11. CASE ~t.stopped
  <2> DEFINE x == N * PMM_FRAME_SIZE
             k == m + N
  <2>1. x \in Nat /\ k \in Nat /\ k * PMM_FRAME_SIZE = m * PMM_FRAME_SIZE + x /\ k \in 0 .. PageCount
    <3>1. k * PMM_FRAME_SIZE = m * PMM_FRAME_SIZE + x
      BY <1>1, <1>3, TimesSize
    <3>2. x \in Nat
      BY <1>1, TimesSize
    <3>3. k \in Nat /\ k \in 0 .. PageCount
      BY <1>1, <1>3, <1>9, <1>11
    <3> QED
      BY <3>1, <3>2, <3>3
  <2>2. \A p \in 0 .. k - 1 : t.mapped[p] # NULL
    <3>1. t.stopped \/ (m + N <= PageCount /\ \A p \in 0 .. m + N - 1 : t.mapped[p] # NULL)
      BY <1>9
    <3>2. \A p \in 0 .. m + N - 1 : t.mapped[p] # NULL
      BY ONLY <1>11, <3>1, Zenon
    <3>3. m + N - 1 = k - 1
      BY <1>1, <1>3
    <3> HIDE DEF k
    <3> QED
      BY ONLY <3>2, <3>3
  <2>3. size <= x /\ r = [t EXCEPT !.heap_current = @ + x]
    BY <1>1, <1>8, <1>11
  <2> HIDE DEF x, k
  <2>4. /\ r \in HeapState /\ r.blocks = t.blocks /\ r.heap_current = t.heap_current + x
        /\ r.heap_used = t.heap_used /\ r.failed = t.failed /\ r.bitmap = t.bitmap /\ r.mapped = t.mapped
        /\ r.astray = t.astray
    <3> DEFINE y == t.heap_current + x
    <3>1. y \in Nat /\ r = [t EXCEPT !.heap_current = y]
      BY <1>9, <2>1, <2>3 DEF HeapState
    <3> HIDE DEF y
    <3>2. /\ r \in HeapState /\ r.blocks = t.blocks /\ r.heap_current = y
          /\ r.heap_used = t.heap_used /\ r.failed = t.failed /\ r.bitmap = t.bitmap /\ r.mapped = t.mapped
          /\ r.astray = t.astray
      BY <1>9, <3>1 DEF HeapState
    <3> QED
      BY <3>2 DEF y
  <2>5. FramesApart(r, oth) /\ Spares(s, r)
    BY <1>9, <2>4 DEF FramesApart, Spares
  <2>6. Reaches(r, k)
    BY <1>3, <1>9, <2>1, <2>2, <2>4 DEF Reaches
  <2>7. s.heap_current + size <= r.heap_current
    <3>1. s.heap_current \in Nat
      BY DEF HeapState
    <3> QED
      BY <1>9, <2>1, <2>3, <2>4, <3>1
  <2> QED
    BY <1>9, <2>4, <2>5, <2>6, <2>7 DEF r
<1> QED
  BY <1>10, <1>11

-----------------------------------------------------------------------------
(***************************************************************************)
(* The calls.  s is the heap, h what clients hold, oth the frames that are *)
(* in use elsewhere.                                                       *)
(***************************************************************************)
Good(s, h, oth) ==
  /\ s \in HeapState
  /\ Tiles(s.blocks) /\ Holds(s.blocks, h) /\ s.heap_used = UsedBytes(s.blocks)
  /\ FramesApart(s, oth) /\ \E m \in 0 .. PageCount : Reaches(s, m)
  /\ ~s.failed => ~s.astray /\ EndOf(s.blocks) <= s.heap_current
  /\ ~s.astray => Backed(s.mapped, 0 .. EndOf(s.blocks) - 1)

(* The frames stay as they are while the list changes.                     *)
LEMMA ListChanges ==
  ASSUME NEW s, NEW h, NEW oth, Good(s, h, oth), NEW g, NEW t \in HeapState,
         Tiles(t.blocks), Holds(t.blocks, g), t.heap_used = UsedBytes(t.blocks), EndOf(t.blocks) = EndOf(s.blocks),
         t.heap_current = s.heap_current, t.mapped = s.mapped, t.bitmap = s.bitmap, t.failed = s.failed,
         t.astray = s.astray
  PROVE  Good(t, g, oth)
<1>1. FramesApart(t, oth)
  BY DEF Good, FramesApart
<1>2. \E m \in 0 .. PageCount : Reaches(t, m)
  BY DEF Good, Reaches
<1>3. /\ ~t.failed => ~t.astray /\ EndOf(t.blocks) <= t.heap_current
      /\ ~t.astray => Backed(t.mapped, 0 .. EndOf(t.blocks) - 1)
  BY DEF Good
<1> QED
  BY <1>1, <1>2, <1>3 DEF Good

LEMMA KfreeKeeps ==
  ASSUME NEW s, NEW h, NEW oth, Good(s, h, oth), NEW at \in DOMAIN h
  PROVE  LET t == Kfree(s, at)
         IN  Good(t, Less(h, at), oth) /\ t.mapped = s.mapped /\ t.astray = s.astray
<1> DEFINE b == s.blocks
           i == IndexOf(b, at - HEADER)
           c == Released(b, at)
           x == b[i].size
           t == Kfree(s, at)
<1>1. /\ s \in HeapState /\ Tiles(b) /\ Holds(b, h) /\ s.heap_used = UsedBytes(b)
  BY DEF Good
<1>2. Tiles(c) /\ EndOf(c) = EndOf(b) /\ Holds(c, Less(h, at)) /\ UsedBytes(c) = UsedBytes(b) - x
  BY <1>1, ReleasedKeeps
<1>3. x \in Nat
  <2>1. i \in 1 .. Len(b)
    BY <1>1, HeldIndex
  <2> QED
    BY <1>1, <2>1, BlockTypes DEF Tiles
<1>4. t = [s EXCEPT !.blocks = c, !.heap_used = s.heap_used - x]
  BY DEF Kfree, Released
<1>5. c \in Seq(Blk)
  BY <1>2 DEF Tiles
<1> HIDE DEF c, x, t
<1>6. /\ t \in HeapState /\ t.blocks = c /\ t.heap_used = s.heap_used - x
      /\ t.heap_current = s.heap_current /\ t.mapped = s.mapped /\ t.bitmap = s.bitmap /\ t.failed = s.failed
      /\ t.astray = s.astray
  <2> DEFINE y == s.heap_used - x
  <2>1. y \in Int /\ t = [s EXCEPT !.blocks = c, !.heap_used = y]
    BY <1>1, <1>3, <1>4 DEF HeapState
  <2> HIDE DEF y
  <2>2. /\ t \in HeapState /\ t.blocks = c /\ t.heap_used = y
        /\ t.heap_current = s.heap_current /\ t.mapped = s.mapped /\ t.bitmap = s.bitmap /\ t.failed = s.failed
        /\ t.astray = s.astray
    BY <1>1, <1>5, <2>1 DEF HeapState
  <2> QED
    BY <2>2 DEF y
<1>7. t.heap_used = UsedBytes(t.blocks)
  BY <1>1, <1>2, <1>6
<1>8. Good(t, Less(h, at), oth)
  BY <1>2, <1>6, <1>7, ListChanges
<1> QED
  BY <1>6, <1>8 DEF t

LEMMA TakeFitKeeps ==
  ASSUME NEW s, NEW h, NEW oth, Good(s, h, oth), NEW size \in Nat,
         \E i \in 1 .. Len(s.blocks) : Fits(s.blocks[i], Total(size))
  PROVE  LET r == TakeFit(s, Total(size))
         IN  r.at \notin DOMAIN h /\ Good(r.s, More(h, r.at, size), oth) /\ Spares(s, r.s)
<1> DEFINE b == s.blocks
           t == Total(size)
           i == CHOOSE k \in 1 .. Len(b) : Fits(b[k], t) /\ \A j \in 1 .. k - 1 : ~Fits(b[j], t)
           split == b[i].size >= t + HEADER + KHEAP_BLOCK_MIN
           n == IF split THEN t ELSE b[i].size
           cut == IF split THEN InsertAt(Relinked(b, i + 1, Rest(b, i, t).addr), i + 1, Rest(b, i, t)) ELSE b
           c == IF split THEN Split(b, i, t) ELSE Taken(b, i, b[i].size)
           at == b[i].addr + HEADER
           r == TakeFit(s, t)
           u == r.s
<1>1. /\ s \in HeapState /\ Tiles(b) /\ Holds(b, h) /\ s.heap_used = UsedBytes(b) /\ Len(b) \in Nat
      /\ \A k \in 1 .. Len(b) : b[k].addr \in Nat /\ b[k].size \in Nat
  <2>1. /\ s \in HeapState /\ Tiles(b) /\ Holds(b, h) /\ s.heap_used = UsedBytes(b)
    BY DEF Good
  <2> QED
    BY <2>1, BlockTypes DEF Tiles
<1>2. i \in 1 .. Len(b) /\ ~b[i].used /\ b[i].size >= t
  <2> DEFINE S == {k \in 1 .. Len(b) : Fits(b[k], t)}
  <2>1. S \subseteq Nat /\ S # {}
    BY <1>1
  <2>2. PICK k \in S : \A j \in S : k <= j
    <3> HIDE DEF S
    <3> QED
      BY <2>1, Least
  <2>3. \A j \in 1 .. k - 1 : ~Fits(b[j], t)
    <3> SUFFICES ASSUME NEW j \in 1 .. k - 1, Fits(b[j], t) PROVE FALSE
      OBVIOUS
    <3>1. j \in 1 .. Len(b) /\ ~(k <= j)
      BY <1>1
    <3> QED
      BY <2>2, <3>1
  <2>4. \E m \in 1 .. Len(b) : Fits(b[m], t) /\ \A j \in 1 .. m - 1 : ~Fits(b[j], t)
    BY <2>3
  <2>5. i \in 1 .. Len(b) /\ Fits(b[i], t)
    <3> HIDE DEF t
    <3> QED
      BY <2>4
  <2> HIDE DEF i
  <2> QED
    BY <2>5 DEF Fits
<1>3. u = [s EXCEPT !.blocks = c, !.heap_used = s.heap_used + n] /\ r.at = at
  <2>1. r = [s |-> [s EXCEPT !.blocks = Taken(cut, i, n), !.heap_used = s.heap_used + n], at |-> at]
    BY DEF TakeFit, Taken, Rest
  <2>2. Taken(cut, i, n) = c
    <3> HIDE DEF i, t
    <3>1. CASE split
      BY <3>1 DEF Split
    <3>2. CASE ~split
      BY <3>2
    <3> QED
      BY <3>1, <3>2
  <2> HIDE DEF c, n, cut, at, r, i, t
  <2> QED
    BY <2>1, <2>2
<1>4. n \in Nat /\ t \in Nat
  BY <1>1, <1>2, TotalIs
<1> HIDE DEF i
<1>5. /\ Tiles(c) /\ EndOf(c) = EndOf(b)
      /\ at \notin DOMAIN h /\ Holds(c, More(h, at, size))
      /\ UsedBytes(c) = UsedBytes(b) + n
  <2>1. CASE split
    BY <1>1, <1>2, <2>1, SplitKeeps
  <2>2. CASE ~split
    BY <1>1, <1>2, <2>2, WholeKeeps
  <2> QED
    BY <2>1, <2>2
<1>6. c \in Seq(Blk)
  BY <1>5 DEF Tiles
<1> HIDE DEF c, n, r, at, t, u
<1>7. /\ u \in HeapState /\ u.blocks = c /\ u.heap_used = s.heap_used + n
      /\ u.heap_current = s.heap_current /\ u.mapped = s.mapped /\ u.bitmap = s.bitmap /\ u.failed = s.failed
      /\ u.astray = s.astray
  <2> DEFINE y == s.heap_used + n
  <2>1. y \in Int /\ u = [s EXCEPT !.blocks = c, !.heap_used = y]
    BY <1>1, <1>3, <1>4 DEF HeapState
  <2> HIDE DEF y
  <2>2. /\ u \in HeapState /\ u.blocks = c /\ u.heap_used = y
        /\ u.heap_current = s.heap_current /\ u.mapped = s.mapped /\ u.bitmap = s.bitmap /\ u.failed = s.failed
        /\ u.astray = s.astray
    BY <1>1, <1>6, <2>1 DEF HeapState
  <2> QED
    BY <2>2 DEF y
<1>8. u.heap_used = UsedBytes(u.blocks)
  BY <1>1, <1>5, <1>7
<1>9. Good(u, More(h, at, size), oth)
  BY <1>5, <1>7, <1>8, ListChanges
<1>10. Spares(s, u)
  BY <1>7 DEF Spares
<1> QED
  BY <1>3, <1>5, <1>9, <1>10 DEF r, t, u

LEMMA AppendBlockKeeps ==
  ASSUME NEW s, NEW h, NEW oth, Good(s, h, oth), NEW size \in Nat
  PROVE  LET r == AppendBlock(Extended(s, Total(size)), Total(size))
         IN  r.at \notin DOMAIN h /\ Good(r.s, More(h, r.at, size), oth) /\ Spares(s, r.s)
<1> DEFINE b == s.blocks
           t == Total(size)
           e == Extended(s, t)
           c == Appended(b, size)
           at == EndOf(b) + HEADER
           r == AppendBlock(e, t)
           u == r.s
           fits == Backed(e.mapped, EndOf(b) .. EndOf(b) + t - 1)
           w == e.astray \/ ~fits
<1>1. /\ s \in HeapState /\ Tiles(b) /\ Holds(b, h) /\ s.heap_used = UsedBytes(b) /\ FramesApart(s, oth)
      /\ ~s.failed => ~s.astray /\ EndOf(b) <= s.heap_current
      /\ ~s.astray => Backed(s.mapped, 0 .. EndOf(b) - 1)
  BY DEF Good
<1>2. PICK m \in 0 .. PageCount : Reaches(s, m)
  BY DEF Good
<1>3. t \in Nat /\ EndOf(b) \in Nat
  BY <1>1, TotalIs, EndCounts
<1>4. /\ Tiles(c) /\ EndOf(c) = EndOf(b) + t
      /\ at \notin DOMAIN h /\ Holds(c, More(h, at, size))
      /\ UsedBytes(c) = UsedBytes(b) + t
  BY <1>1, AppendedKeeps
<1>5. c = Append(b, Block(EndOf(b), t, TRUE, NULL))
  BY DEF Appended
<1> HIDE DEF t
<1>6. /\ e \in HeapState /\ e.blocks = b /\ e.heap_used = s.heap_used
      /\ FramesApart(e, oth)
      /\ \E k : Reaches(e, k)
      /\ Spares(s, e) /\ (e.astray => s.astray \/ Exceeds(b, m))
      /\ ~e.failed => ~s.failed /\ s.heap_current + t <= e.heap_current
  BY <1>1, <1>2, <1>3, ExtendedKeeps
<1> HIDE DEF e
<1>7. u = [e EXCEPT !.blocks = c, !.heap_used = e.heap_used + t, !.astray = w] /\ r.at = at
  BY <1>5, <1>6 DEF AppendBlock, EndOf
<1>8. c \in Seq(Blk)
  BY <1>4 DEF Tiles
<1>8a. w \in BOOLEAN /\ e.astray \in BOOLEAN
  BY <1>6 DEF HeapState, Backed
<1> HIDE DEF c, r, u, at, w
<1>9. /\ u \in HeapState /\ u.blocks = c /\ u.heap_used = s.heap_used + t
      /\ u.heap_current = e.heap_current /\ u.mapped = e.mapped /\ u.bitmap = e.bitmap /\ u.failed = e.failed
      /\ u.astray = w
  <2>1. e.heap_used + t \in Int
    BY <1>3, <1>6 DEF HeapState
  <2> DEFINE x == e.heap_used + t
  <2>2. x \in Int /\ u = [e EXCEPT !.blocks = c, !.heap_used = x, !.astray = w]
    BY <1>7, <2>1
  <2> HIDE DEF x
  <2>3. /\ u \in HeapState /\ u.blocks = c /\ u.heap_used = x
        /\ u.heap_current = e.heap_current /\ u.mapped = e.mapped /\ u.bitmap = e.bitmap /\ u.failed = e.failed
        /\ u.astray = w
    BY <1>6, <1>8, <1>8a, <2>2 DEF HeapState
  <2> QED
    BY <1>6, <2>3 DEF x
<1>10. FramesApart(u, oth)
  BY <1>6, <1>9 DEF FramesApart
<1>11. \E k \in 0 .. PageCount : Reaches(u, k)
  BY <1>6, <1>9 DEF Reaches
<1>12. ~u.failed => EndOf(u.blocks) <= u.heap_current
  <2> SUFFICES ASSUME ~u.failed PROVE EndOf(u.blocks) <= u.heap_current
    OBVIOUS
  <2>1. ~s.failed /\ s.heap_current + t <= e.heap_current /\ EndOf(b) <= s.heap_current
    BY <1>1, <1>6, <1>9
  <2>2. s.heap_current \in Nat /\ e.heap_current \in Nat
    BY <1>1, <1>6 DEF HeapState
  <2>3. EndOf(u.blocks) = EndOf(b) + t /\ u.heap_current = e.heap_current
    BY <1>4, <1>9
  <2> QED
    BY <1>3, <2>1, <2>2, <2>3
<1>13. u.heap_used = UsedBytes(u.blocks)
  BY <1>1, <1>4, <1>9
<1>14. ~u.failed => ~u.astray
  <2> SUFFICES ASSUME ~u.failed PROVE ~e.astray /\ fits
    BY <1>9 DEF w
  <2>1. /\ ~s.failed /\ ~s.astray /\ EndOf(b) <= s.heap_current /\ s.heap_current + t <= e.heap_current
        /\ s.heap_current \in Nat /\ e.heap_current \in Nat
    BY <1>1, <1>6, <1>9 DEF HeapState
  <2>2. ~Exceeds(b, m)
    <3> SUFFICES ASSUME NEW p \in Nat, m <= p, Touched(b, p) PROVE FALSE
      BY DEF Exceeds
    <3>1. PICK i \in 1 .. Len(b) : \E x \in Kept(b[i]) : PageOf(x) = p
      BY DEF Touched
    <3>2. PICK x \in Kept(b[i]) : PageOf(x) = p
      BY <3>1
    <3>3. x \in Nat /\ x < EndOf(b)
      BY <1>1, KeptIsBelow
    <3>4. m \in Nat /\ s.heap_current = m * PMM_FRAME_SIZE
      BY <1>2, RangeIsPages DEF Reaches
    <3>5. x < m * PMM_FRAME_SIZE
      <4> DEFINE y == m * PMM_FRAME_SIZE
      <4>1. y \in Nat /\ EndOf(b) <= y
        BY <2>1, <3>4
      <4> HIDE DEF y
      <4>2. x < y
        BY <1>3, <3>3, <4>1
      <4> QED
        BY <4>2 DEF y
    <3>6. PageOf(x) < m
      BY <3>3, <3>4, <3>5, PagesOfBytes
    <3> QED
      BY <3>2, <3>4, <3>6
  <2>3. ASSUME NEW x \in EndOf(b) .. EndOf(b) + t - 1
        PROVE  PageOf(x) \in DOMAIN e.mapped /\ e.mapped[PageOf(x)] # NULL
    <3>1. PICK k : k \in 0 .. PageCount /\ e.heap_current = k * PMM_FRAME_SIZE
                   /\ \A p \in 0 .. k - 1 : e.mapped[p] # NULL
      BY <1>6 DEF Reaches
    <3>2. k \in Nat /\ PageCount \in Nat /\ DOMAIN e.mapped = 0 .. PageCount - 1
      BY <1>6, <3>1, RangeIsPages DEF HeapState
    <3>3. x \in Nat /\ x < e.heap_current
      BY <1>3, <2>1
    <3>4. PageOf(x) \in Nat /\ PageOf(x) < k
      BY <3>1, <3>2, <3>3, PagesOfBytes
    <3> QED
      BY <3>1, <3>2, <3>4
  <2> QED
    BY <1>6, <2>1, <2>2, <2>3 DEF Backed
<1>15. ~u.astray => Backed(u.mapped, 0 .. EndOf(u.blocks) - 1)
  <2> SUFFICES ASSUME ~e.astray, fits, NEW x \in 0 .. EndOf(c) - 1
               PROVE  PageOf(x) \in DOMAIN e.mapped /\ e.mapped[PageOf(x)] # NULL
    BY <1>9 DEF Backed, w
  <2>1. CASE x < EndOf(b)
    <3>1. x \in 0 .. EndOf(b) - 1
      BY <1>3, <2>1
    <3>2. PageOf(x) \in DOMAIN s.mapped /\ s.mapped[PageOf(x)] # NULL
      BY <1>1, <1>6, <3>1 DEF Spares, Backed
    <3>3. DOMAIN s.mapped = 0 .. PageCount - 1 /\ DOMAIN e.mapped = 0 .. PageCount - 1
      BY <1>1, <1>6 DEF HeapState
    <3> QED
      BY <1>6, <3>2, <3>3 DEF Spares
  <2>2. CASE ~(x < EndOf(b))
    <3>1. x \in EndOf(b) .. EndOf(b) + t - 1
      BY <1>3, <1>4, <2>2
    <3> QED
      BY <3>1 DEF Backed
  <2> QED
    BY <2>1, <2>2
<1>16. Spares(s, u)
  BY <1>6, <1>9 DEF Spares, w
<1>17. Good(u, More(h, at, size), oth)
  BY <1>4, <1>9, <1>10, <1>11, <1>12, <1>13, <1>14, <1>15 DEF Good
<1> QED
  BY <1>4, <1>7, <1>16, <1>17 DEF r, u, e, t

LEMMA KmallocKeeps ==
  ASSUME NEW s, NEW h, NEW oth, Good(s, h, oth), NEW size \in Nat
  PROVE  LET r == Kmalloc(s, size)
         IN  r.at \notin DOMAIN h /\ Good(r.s, More(h, r.at, size), oth) /\ Spares(s, r.s)
<1>1. CASE \E i \in 1 .. Len(s.blocks) : Fits(s.blocks[i], Total(size))
  <2>1. Kmalloc(s, size) = TakeFit(s, Total(size))
    BY <1>1 DEF Kmalloc
  <2> QED
    BY <1>1, <2>1, TakeFitKeeps
<1>2. CASE ~\E i \in 1 .. Len(s.blocks) : Fits(s.blocks[i], Total(size))
  <2>1. Kmalloc(s, size) = AppendBlock(Extended(s, Total(size)), Total(size))
    BY <1>2 DEF Kmalloc
  <2> QED
    BY <2>1, AppendBlockKeeps
<1> QED
  BY <1>1, <1>2

-----------------------------------------------------------------------------
(***************************************************************************)
(* The steps.                                                              *)
(***************************************************************************)
IInv == Good(Here, live, others)

(* The state behind a call.                                                *)
Left(s) ==
  [blocks |-> s.blocks, heap_current |-> s.heap_current, heap_used |-> s.heap_used,
   mapped |-> s.mapped, bitmap |-> s.bitmap, failed |-> s.failed, astray |-> s.astray, stopped |-> FALSE]

LEMMA LeftIsGood ==
  ASSUME NEW s, NEW h, NEW oth, Good(s, h, oth)
  PROVE  Good(Left(s), h, oth)
<1> DEFINE t == Left(s)
<1>1. s \in HeapState
  BY DEF Good
<1>2. /\ t \in HeapState /\ t.blocks = s.blocks /\ t.heap_used = s.heap_used
      /\ t.heap_current = s.heap_current /\ t.mapped = s.mapped /\ t.bitmap = s.bitmap /\ t.failed = s.failed
      /\ t.astray = s.astray
  BY <1>1 DEF HeapState, Left
<1>3. /\ Tiles(s.blocks) /\ Holds(s.blocks, h) /\ s.heap_used = UsedBytes(s.blocks)
  BY DEF Good
<1> HIDE DEF t
<1>4. Good(t, h, oth)
  BY <1>2, <1>3, ListChanges
<1> QED
  BY <1>4 DEF t

(* A frame goes to somebody else, or comes back.                           *)
LEMMA FramesChange ==
  ASSUME NEW s, NEW h, NEW oth, Good(s, h, oth), NEW t \in HeapState, NEW f,
         t.blocks = s.blocks, t.heap_used = s.heap_used,
         t.heap_current = s.heap_current, t.mapped = s.mapped, t.failed = s.failed, t.astray = s.astray
  PROVE  /\ f \in Frame \ s.bitmap /\ t.bitmap = s.bitmap \cup {f} => Good(t, h, oth \cup {f})
         /\ f \in oth /\ t.bitmap = s.bitmap \ {f} => Good(t, h, oth \ {f})
<1>1. /\ Tiles(t.blocks) /\ Holds(t.blocks, h) /\ t.heap_used = UsedBytes(t.blocks)
      /\ ~t.failed => ~t.astray /\ EndOf(t.blocks) <= t.heap_current
      /\ ~t.astray => Backed(t.mapped, 0 .. EndOf(t.blocks) - 1)
  BY DEF Good
<1>2. \E m \in 0 .. PageCount : Reaches(t, m)
  BY DEF Good, Reaches
<1>3. FramesApart(s, oth)
  BY DEF Good
<1>4. ASSUME f \in Frame \ s.bitmap, t.bitmap = s.bitmap \cup {f}
      PROVE  Good(t, h, oth \cup {f})
  <2>1. FramesApart(t, oth \cup {f})
    BY <1>3, <1>4 DEF FramesApart
  <2> QED
    BY <1>1, <1>2, <2>1 DEF Good
<1>5. ASSUME f \in oth, t.bitmap = s.bitmap \ {f}
      PROVE  Good(t, h, oth \ {f})
  <2>1. FramesApart(t, oth \ {f})
    BY <1>3, <1>5 DEF FramesApart
  <2> QED
    BY <1>1, <1>2, <2>1 DEF Good
<1> QED
  BY <1>4, <1>5

LEMMA InitKeeps == Init => IInv
<1> SUFFICES ASSUME Init PROVE IInv
  OBVIOUS
<1> DEFINE free == [p \in 0 .. KHEAP_END \div PMM_FRAME_SIZE - 1 |-> NULL]
           s == [blocks |-> << >>, heap_current |-> 0, heap_used |-> 0,
                 mapped |-> free, bitmap |-> KernelFrames, failed |-> FALSE, astray |-> FALSE, stopped |-> FALSE]
           r == Extended(s, INITIAL)
<1>1. /\ heap = [blocks |-> << >>, heap_current |-> r.heap_current, heap_used |-> 0, mapped |-> r.mapped]
      /\ bitmap = r.bitmap /\ failed = r.failed /\ astray = FALSE /\ others = {} /\ live = << >>
  BY DEF Init
<1>2. free \in [0 .. PageCount - 1 -> Frame \cup {NULL}] /\ \A p \in 0 .. PageCount - 1 : free[p] = NULL
  BY DEF PageCount
<1> HIDE DEF free
<1>3. /\ s \in HeapState /\ s.blocks = << >> /\ s.heap_current = 0 /\ s.heap_used = 0 /\ s.mapped = free
      /\ s.bitmap = KernelFrames /\ s.failed = FALSE /\ s.astray = FALSE
  <2>1. << >> \in Seq(Blk) /\ KernelFrames \in SUBSET Frame
    BY HeapAssumption DEF Frame
  <2> QED
    BY <1>2, <2>1 DEF HeapState
<1> HIDE DEF s
<1>4. FramesApart(s, {})
  BY <1>2, <1>3 DEF FramesApart
<1>5. Reaches(s, 0)
  <2>1. 0 * PMM_FRAME_SIZE = 0 /\ 0 \in 0 .. PageCount
    BY SizesCount, RangeIsPages
  <2> QED
    BY <1>3, <2>1 DEF Reaches
<1>6. /\ r \in HeapState /\ r.blocks = s.blocks /\ r.heap_used = s.heap_used
      /\ FramesApart(r, {})
      /\ \E k : Reaches(r, k)
      /\ Spares(s, r) /\ (r.astray => s.astray \/ Exceeds(s.blocks, 0))
      /\ ~r.failed => ~s.failed /\ s.heap_current + INITIAL <= r.heap_current
  BY <1>3, <1>4, <1>5, ExtendedKeeps, SizesCount
<1> HIDE DEF r
<1>6a. r.astray = FALSE
  <2>1. ~Exceeds(s.blocks, 0)
    BY <1>3 DEF Exceeds, Touched
  <2> QED
    BY <1>3, <1>6, <2>1 DEF HeapState
<1>7. Here = Left(r)
  BY <1>1, <1>3, <1>6, <1>6a DEF Here, Left
<1>8. Good(r, << >>, {})
  <2> DEFINE b == r.blocks
  <2>1. b = << >> /\ Len(b) = 0 /\ b \in Seq(Blk)
    BY <1>3, <1>6
  <2> HIDE DEF b
  <2>2. Tiles(b) /\ EndOf(b) = 0
    BY <2>1 DEF Tiles, EndOf
  <2>3. Holds(b, << >>)
    <3>1. << >> = [p \in DOMAIN << >> |-> << >>[p]] /\ DOMAIN << >> = {}
      OBVIOUS
    <3> QED
      BY <2>1, <3>1 DEF Holds
  <2>4. UsedBytes(b) = 0
    <3>1. PICK f : /\ f[0] = 0 /\ UsedBytes(b) = f[Len(b)]
      BY <2>1, SumSteps
    <3> QED
      BY <2>1, <3>1
  <2>5. EndOf(b) <= r.heap_current
    BY <1>6, <2>2 DEF HeapState
  <2>6. \E k \in 0 .. PageCount : Reaches(r, k)
    BY <1>6 DEF Reaches
  <2>7. Backed(r.mapped, 0 .. EndOf(b) - 1)
    BY <2>2 DEF Backed
  <2> QED
    BY <1>3, <1>6, <1>6a, <2>2, <2>3, <2>4, <2>5, <2>6, <2>7 DEF Good, b
<1> QED
  BY <1>1, <1>7, <1>8, LeftIsGood DEF IInv

LEMMA BecomesLeft ==
  ASSUME NEW STATE s, Becomes(s)
  PROVE  Here' = Left(s)
  BY DEF Becomes, Here, Left

LEMMA RequestCounts == Request \subseteq Nat
  BY HeapAssumption

LEMMA MallocKeeps ==
  ASSUME IInv, NEW size \in Request, Malloc(size)
  PROVE  /\ IInv'
         /\ \E at : at \notin DOMAIN live /\ live' = More(live, at, size)
         /\ ~astray /\ Spares(Here, Here')
<1> DEFINE r == Kmalloc(Here, size)
<1>1. size \in Nat
  BY RequestCounts
<1>2. r.at \notin DOMAIN live /\ Good(r.s, More(live, r.at, size), others) /\ Spares(Here, r.s)
  BY <1>1, KmallocKeeps DEF IInv
<1>3. ~astray /\ Becomes(r.s) /\ live' = More(live, r.at, size) /\ others' = others
  BY DEF Malloc, Put, More
<1> HIDE DEF r
<1>4. Here' = Left(r.s)
  BY <1>3, BecomesLeft
<1>5. Good(Here', live', others')
  BY <1>2, <1>3, <1>4, LeftIsGood
<1>6. Spares(Here, Here')
  BY <1>2, <1>4 DEF Spares, Left
<1> QED
  BY <1>2, <1>3, <1>5, <1>6 DEF IInv

LEMMA FreeKeeps ==
  ASSUME IInv, NEW at \in DOMAIN live, Free(at)
  PROVE  IInv' /\ live' = Less(live, at) /\ ~astray /\ Spares(Here, Here')
<1> DEFINE r == Kfree(Here, at)
<1>1. Good(r, Less(live, at), others) /\ r.mapped = Here.mapped /\ r.astray = Here.astray
  BY KfreeKeeps DEF IInv
<1>2. ~astray /\ Becomes(r) /\ live' = Less(live, at) /\ others' = others
  BY DEF Free, Less
<1> HIDE DEF r
<1>3. Here' = Left(r)
  BY <1>2, BecomesLeft
<1>4. Good(Here', live', others')
  BY <1>1, <1>2, <1>3, LeftIsGood
<1>5. Spares(Here, Here')
  BY <1>1, <1>3 DEF Spares, Left
<1> QED
  BY <1>2, <1>4, <1>5 DEF IInv

LEMMA ReallocKeeps ==
  ASSUME IInv, NEW at \in DOMAIN live, NEW size \in Request, Realloc(at, size)
  PROVE  /\ IInv'
         /\ \/ live' = [live EXCEPT ![at] = size]
            \/ \E to : /\ to \notin DOMAIN live /\ live' = Less(More(live, to, size), at)
                       /\ \E s : Good(s, More(live, to, size), others)
         /\ ~astray /\ Spares(Here, Here')
<1> DEFINE i == IndexOf(heap.blocks, at - HEADER)
           blk == heap.blocks[i]
           r == Kmalloc(Here, size)
<1>1. size \in Nat
  BY RequestCounts
<1>2. CASE size <= blk.size - HEADER
  <2>1. ~astray /\ live' = [live EXCEPT ![at] = size] /\ UNCHANGED <<heap, bitmap, failed, astray, others>>
    BY <1>2 DEF Realloc
  <2>2. Here' = Here
    BY <2>1 DEF Here
  <2>3. Good(Here, live, others) /\ Here.blocks = heap.blocks
    BY DEF IInv, Here
  <2>4. Tiles(heap.blocks) /\ Holds(heap.blocks, live)
    BY <2>3 DEF Good
  <2>5. i \in 1 .. Len(heap.blocks) /\ heap.blocks[i].used /\ heap.blocks[i].addr + HEADER = at
    BY <2>4, HeldIndex
  <2> DEFINE g == [live EXCEPT ![at] = size]
             b == heap.blocks
  <2>6. Holds(b, g)
    <3>1. /\ DOMAIN g = DOMAIN live /\ g = [p \in DOMAIN g |-> g[p]]
          /\ \A p \in DOMAIN live : g[p] = IF p = at THEN size ELSE live[p]
      BY <2>4 DEF Holds
    <3> HIDE DEF g, i, b
    <3>2. \A p \in DOMAIN g : g[p] \in Nat
      BY <1>1, <2>4, <3>1 DEF Holds, b
    <3>3. ASSUME NEW n \in 1 .. Len(b), b[n].used
          PROVE  b[n].addr + HEADER \in DOMAIN g /\ g[b[n].addr + HEADER] <= b[n].size - HEADER
      <4>1. b[n].addr + HEADER \in DOMAIN live /\ live[b[n].addr + HEADER] <= b[n].size - HEADER
        BY <2>4, <3>3 DEF Holds, b
      <4>2. CASE b[n].addr + HEADER = at
        <5>1. b[n].addr \in Nat /\ b[i].addr \in Nat
          BY <2>4, <2>5, BlockTypes DEF Tiles, b
        <5>2. b[n].addr = b[i].addr
          BY <2>5, <4>2, <5>1, SizesCount DEF b
        <5>3. n = i
          BY <2>4, <2>5, <5>2, AddressesDiffer DEF b
        <5> QED
          BY <1>2, <3>1, <4>1, <4>2, <5>3 DEF b
      <4>3. CASE b[n].addr + HEADER # at
        BY <3>1, <4>1, <4>3
      <4> QED
        BY <4>2, <4>3
    <3>4. \A p \in DOMAIN g : \E n \in 1 .. Len(b) : b[n].used /\ p = b[n].addr + HEADER
      BY <2>4, <3>1 DEF Holds, b
    <3> QED
      BY <3>1, <3>2, <3>3, <3>4 DEF Holds
  <2>7. Good(Here, g, others)
    <3> HIDE DEF g
    <3> QED
      BY <2>3, <2>6 DEF Good
  <2>8. IInv'
    BY <2>1, <2>2, <2>7 DEF IInv
  <2>9. Spares(Here, Here')
    BY <2>2 DEF Spares
  <2> QED
    BY <2>1, <2>8, <2>9
<1>3. CASE ~(size <= blk.size - HEADER)
  <2> DEFINE g == More(live, r.at, size)
             t == Kfree(r.s, at)
  <2>1. ~astray /\ Becomes(t) /\ others' = others
        /\ live' = [p \in (DOMAIN live \ {at}) \cup {r.at} |-> IF p = r.at THEN size ELSE live[p]]
    BY <1>3 DEF Realloc
  <2>2. r.at \notin DOMAIN live /\ Good(r.s, g, others) /\ Spares(Here, r.s)
    BY <1>1, KmallocKeeps DEF IInv
  <2> HIDE DEF r
  <2>3. at \in DOMAIN g /\ live' = Less(g, at)
    <3>1. DOMAIN g = DOMAIN live \cup {r.at} /\ \A p \in DOMAIN g : g[p] = IF p = r.at THEN size ELSE live[p]
      BY DEF More
    <3>2. DOMAIN g \ {at} = (DOMAIN live \ {at}) \cup {r.at}
      BY <2>2, <3>1
    <3> QED
      BY <2>1, <3>1, <3>2 DEF Less
  <2> HIDE DEF g
  <2>4. Good(t, Less(g, at), others) /\ t.mapped = r.s.mapped /\ t.astray = r.s.astray
    BY <2>2, <2>3, KfreeKeeps
  <2> HIDE DEF t
  <2>5. Here' = Left(t)
    BY <2>1, BecomesLeft
  <2>6. Good(Here', live', others')
    BY <2>1, <2>3, <2>4, <2>5, LeftIsGood
  <2>7. \E to : /\ to \notin DOMAIN live /\ live' = Less(More(live, to, size), at)
                /\ \E s : Good(s, More(live, to, size), others)
    BY <2>2, <2>3 DEF g
  <2>8. Spares(Here, Here')
    BY <2>2, <2>4, <2>5 DEF Spares, Left
  <2> QED
    BY <2>1, <2>6, <2>7, <2>8 DEF IInv
<1> QED
  BY <1>2, <1>3

LEMMA FramesKeep ==
  ASSUME IInv, TakeFrame \/ \E f \in others : GiveFrame(f)
  PROVE  IInv' /\ UNCHANGED <<live, heap, astray>>
<1>1. Good(Here, live, others) /\ Here \in HeapState
  BY DEF IInv, Good
<1>2. ASSUME heap' = heap, failed' = failed, astray' = astray, bitmap' \in SUBSET Frame
      PROVE  /\ Here' \in HeapState /\ Here'.blocks = Here.blocks /\ Here'.heap_used = Here.heap_used
             /\ Here'.heap_current = Here.heap_current /\ Here'.mapped = Here.mapped /\ Here'.failed = Here.failed
             /\ Here'.astray = Here.astray /\ Here'.bitmap = bitmap' /\ Here.bitmap = bitmap
  <2>1. /\ heap.blocks \in Seq(Blk) /\ heap.heap_current \in Nat /\ heap.heap_used \in Int
        /\ heap.mapped \in [0 .. PageCount - 1 -> Frame \cup {NULL}] /\ failed \in BOOLEAN /\ astray \in BOOLEAN
    BY <1>1 DEF Here, HeapState
  <2> QED
    BY <1>2, <2>1 DEF Here, HeapState
<1>3. bitmap \subseteq Frame /\ Here.bitmap = bitmap
  BY <1>1 DEF Here, HeapState
<1>4. CASE TakeFrame
  <2> DEFINE f == LowestFree(bitmap)
  <2>1. /\ bitmap' = bitmap \cup {f} /\ others' = others \cup {f} /\ heap' = heap /\ failed' = failed /\ astray' = astray /\ live' = live
        /\ FreeFrames(bitmap) # {}
    BY <1>4 DEF TakeFrame
  <2>2. f \in Frame \ bitmap
    BY <2>1, LowestIsFree
  <2> HIDE DEF f
  <2>3. Good(Here', live, others \cup {f})
    BY <1>1, <1>2, <1>3, <2>1, <2>2, FramesChange
  <2> QED
    BY <2>1, <2>3 DEF IInv
<1>5. CASE \E f \in others : GiveFrame(f)
  <2>1. PICK f \in others : GiveFrame(f)
    BY <1>5
  <2>2. bitmap' = bitmap \ {f} /\ others' = others \ {f} /\ heap' = heap /\ failed' = failed /\ astray' = astray /\ live' = live
    BY <2>1 DEF GiveFrame
  <2>3. Good(Here', live, others \ {f})
    BY <1>1, <1>2, <1>3, <2>1, <2>2, FramesChange
  <2> QED
    BY <2>2, <2>3 DEF IInv
<1> QED
  BY <1>4, <1>5

LEMMA StepKeeps ==
  ASSUME IInv, [Next]_vars
  PROVE  IInv'
<1>1. CASE UNCHANGED vars
  BY <1>1 DEF vars, IInv, Here
<1>2. CASE \E size \in Request : Malloc(size)
  BY <1>2, MallocKeeps
<1>3. CASE \E at \in DOMAIN live : Free(at)
  BY <1>3, FreeKeeps
<1>4. CASE \E at \in DOMAIN live, size \in Request : Realloc(at, size)
  BY <1>4, ReallocKeeps
<1>5. CASE TakeFrame \/ \E f \in others : GiveFrame(f)
  BY <1>5, FramesKeep
<1> QED
  BY <1>1, <1>2, <1>3, <1>4, <1>5 DEF Next

-----------------------------------------------------------------------------
(* Everything the run checks of a state is a part of IInv.                 *)
LEMMA GoodIsInv ==
  ASSUME IInv
  PROVE  HeapInv
<1> DEFINE b == heap.blocks
<1>1. /\ b \in Seq(Blk) /\ Tiles(b) /\ Holds(b, live) /\ heap.heap_used = UsedBytes(b)
      /\ ~failed => ~astray /\ EndOf(b) <= heap.heap_current
      /\ ~astray => Backed(heap.mapped, 0 .. EndOf(b) - 1)
      /\ bitmap \subseteq Frame /\ failed \in BOOLEAN /\ astray \in BOOLEAN
      /\ heap.mapped \in [0 .. PageCount - 1 -> Frame \cup {NULL}]
  BY DEF IInv, Good, Here, HeapState
<1>2. /\ KernelFrames \subseteq bitmap /\ others \subseteq bitmap \ KernelFrames
      /\ \A p \in 0 .. PageCount - 1 :
           heap.mapped[p] # NULL => heap.mapped[p] \in bitmap \ (others \cup KernelFrames)
      /\ \A p, q \in 0 .. PageCount - 1 : heap.mapped[p] # NULL /\ heap.mapped[p] = heap.mapped[q] => p = q
  BY DEF IInv, Good, Here, FramesApart
<1>3. PICK m \in 0 .. PageCount : heap.heap_current = m * PMM_FRAME_SIZE /\ \A p \in 0 .. m - 1 : heap.mapped[p] # NULL
  BY DEF IInv, Good, Here, Reaches
<1>4. m \in Nat /\ PageCount \in Nat /\ m <= PageCount /\ KHEAP_END = PageCount * PMM_FRAME_SIZE
  BY RangeIsPages
<1>5. TypeOK
  <2>1. \A i \in 1 .. Len(b) : b[i].size >= HEADER + KHEAP_BLOCK_MIN /\ b[i].used \in BOOLEAN
    BY <1>1, BlockTypes DEF Tiles
  <2>2. heap.heap_current \in 0 .. KHEAP_END
    <3>1. m * PMM_FRAME_SIZE \in Nat /\ PageCount * PMM_FRAME_SIZE \in Nat
          /\ m * PMM_FRAME_SIZE <= PageCount * PMM_FRAME_SIZE
      BY <1>4, TimesSize, TimesOrder
    <3> QED
      BY <1>3, <1>4, <3>1
  <2> QED
    BY <1>1, <1>2, <2>1, <2>2 DEF TypeOK, Blocks
<1>6. ListOK
  <2>1. b # << >> => Len(b) > 0
    BY <1>1
  <2> QED
    BY <1>1, <2>1 DEF ListOK, Blocks, Tiles
<1>7. HeldOK
  BY <1>1 DEF HeldOK, Blocks, Holds
<1>8. FramesOK
  <2>1. DOMAIN heap.mapped = 0 .. PageCount - 1
    BY <1>1
  <2>2. ASSUME NEW p \in 0 .. PageCount - 1, (p + 1) * PMM_FRAME_SIZE <= heap.heap_current
        PROVE  heap.mapped[p] # NULL
    <3>1. p + 1 \in Nat /\ p \in Nat
      BY <1>4
    <3>2. p + 1 <= m
      BY <1>3, <1>4, <2>2, <3>1, TimesOrder
    <3> QED
      BY <1>3, <1>4, <3>1, <3>2
  <2> QED
    BY <1>2, <2>1, <2>2 DEF FramesOK, Pages
<1>9. BackedOK
  BY <1>1 DEF BackedOK, End, EndOf, Blocks
<1> QED
  BY <1>5, <1>6, <1>7, <1>8, <1>9 DEF HeapInv

(* After any requests, frees in any order, reallocations and extensions     *)
(* that stop halfway, with any number of frames and any sizes: no frame has *)
(* two users; the heap goes astray only after an extension that failed; and *)
(* until then frames of its own are behind every block, the blocks tile the *)
(* heap, a prev that is set names the block in front, a block is used if    *)
(* and only if it is held, and heap_used is the sum of them                 *)
(* (kheap.c:26-187, pmm.c:83-100).                                          *)
THEOREM HeapStaysWhole == Spec => []HeapInv
<1>1. Init => IInv
  BY InitKeeps
<1>2. IInv /\ [Next]_vars => IInv'
  BY StepKeeps
<1>3. IInv => HeapInv
  BY GoodIsInv
<1> QED
  BY <1>1, <1>2, <1>3, PTL DEF Spec

-----------------------------------------------------------------------------
(***************************************************************************)
(* The refinement.                                                         *)
(***************************************************************************)
LEMMA PiecesApart ==
  ASSUME NEW b, Tiles(b), NEW h, Holds(b, h), NEW p \in DOMAIN h, NEW q \in DOMAIN h, p # q
  PROVE  IsAllocator!Piece(p, h[p]) \cap IsAllocator!Piece(q, h[q]) = {}
<1>1. PICK i \in 1 .. Len(b) : b[i].used /\ p = b[i].addr + HEADER
  BY DEF Holds
<1>2. PICK j \in 1 .. Len(b) : b[j].used /\ q = b[j].addr + HEADER
  BY DEF Holds
<1>3. h[p] <= b[i].size - HEADER /\ h[q] <= b[j].size - HEADER /\ h[p] \in Nat /\ h[q] \in Nat
  BY <1>1, <1>2 DEF Holds
<1>4. /\ b[i].addr \in Nat /\ b[i].size \in Nat /\ b[j].addr \in Nat /\ b[j].size \in Nat /\ HEADER \in Nat
      /\ p \in Nat /\ q \in Nat
  <2>1. b \in Seq(Blk)
    BY DEF Tiles
  <2>2. b[i].addr \in Nat /\ b[i].size \in Nat /\ b[j].addr \in Nat /\ b[j].size \in Nat
    BY <2>1, BlockTypes
  <2> QED
    BY <1>1, <1>2, <2>2, SizesCount
<1>5. i # j /\ i \in Nat /\ j \in Nat
  BY <1>1, <1>2
<1> DEFINE ia == b[i].addr
           iz == b[i].size
           ja == b[j].addr
           jz == b[j].size
           x == h[p]
           y == h[q]
<1>6. /\ (i < j => ia + iz <= ja) /\ (j < i => ja + jz <= ia)
  BY Ordered
<1>7. /\ ia \in Nat /\ iz \in Nat /\ ja \in Nat /\ jz \in Nat /\ x \in Nat /\ y \in Nat /\ HEADER \in Nat
      /\ p = ia + HEADER /\ q = ja + HEADER /\ x <= iz - HEADER /\ y <= jz - HEADER
  BY <1>1, <1>2, <1>3, <1>4
<1> HIDE DEF ia, iz, ja, jz, x, y
<1>8. ia + iz <= ja \/ ja + jz <= ia
  BY <1>5, <1>6
<1>9. (p .. p + x - 1) \cap (q .. q + y - 1) = {}
  BY <1>7, <1>8
<1> QED
  BY <1>9 DEF IsAllocator!Piece, x, y

LEMMA GoodIsApart ==
  ASSUME NEW s, NEW h, NEW oth, Good(s, h, oth)
  PROVE  IsAllocator!Apart(h)
  BY PiecesApart DEF Good, IsAllocator!Apart

(* What a client holds is a part of what is kept, and below the end.       *)
LEMMA PieceIsKept ==
  ASSUME NEW s, NEW h, NEW oth, Good(s, h, oth), NEW p \in DOMAIN h, NEW x \in IsAllocator!Piece(p, h[p])
  PROVE  x \in 0 .. EndOf(s.blocks) - 1 /\ Touched(s.blocks, PageOf(x))
<1> DEFINE b == s.blocks
<1>1. Tiles(b) /\ Holds(b, h)
  BY DEF Good
<1>2. PICK i \in 1 .. Len(b) : b[i].used /\ p = b[i].addr + HEADER
  BY <1>1 DEF Holds
<1>3. h[p] <= b[i].size - HEADER /\ h[p] \in Nat
  BY <1>1, <1>2 DEF Holds
<1>4. b[i].addr \in Nat /\ b[i].size \in Nat /\ HEADER \in Nat
  BY <1>1, BlockTypes, SizesCount DEF Tiles
<1>5. x \in b[i].addr .. b[i].addr + b[i].size - 1
  <2> DEFINE a == b[i].addr
             z == b[i].size
             n == h[p]
  <2>1. x \in p .. p + n - 1 /\ p = a + HEADER
    BY <1>2 DEF IsAllocator!Piece
  <2>2. n <= z - HEADER /\ n \in Nat /\ a \in Nat /\ z \in Nat /\ HEADER \in Nat
    BY <1>3, <1>4
  <2> HIDE DEF a, z, n
  <2>3. x \in a .. a + z - 1
    BY <2>1, <2>2
  <2> QED
    BY <2>3 DEF a, z
<1>6. x \in Kept(b[i])
  BY <1>2, <1>5 DEF Kept
<1>7. x \in Nat /\ x < EndOf(b) /\ EndOf(b) \in Nat
  BY <1>1, <1>6, KeptIsBelow, EndCounts
<1> QED
  BY <1>6, <1>7 DEF Touched

(* A step that is not astray leaves what is held and was held where it is. *)
LEMMA MemoryStays ==
  ASSUME IInv, IInv', ~astray, ~astray', Spares(Here, Here')
  PROVE  IsAllocator!Apart(live') /\ IsAllocator!Real(live', heap.mapped') /\ IsAllocator!Preserved
<1>1. IsAllocator!Apart(live')
  BY GoodIsApart DEF IInv
<1>2. /\ Backed(heap.mapped, 0 .. EndOf(heap.blocks) - 1) /\ Backed(heap.mapped, 0 .. EndOf(heap.blocks) - 1)'
      /\ heap.mapped \in [0 .. PageCount - 1 -> Frame \cup {NULL}]
  BY DEF IInv, Good, Here, HeapState
<1>3. IsAllocator!Real(live', heap.mapped')
  <2> SUFFICES ASSUME NEW p \in DOMAIN live', NEW x \in IsAllocator!Piece(p, live'[p])
               PROVE  PageOf(x) \in DOMAIN heap.mapped' /\ heap.mapped'[PageOf(x)] # NULL
    BY DEF IsAllocator!Real, PageOf
  <2>1. x \in 0 .. EndOf(heap.blocks') - 1
    <3>1. Good(Here', live', others') /\ Here'.blocks = heap.blocks'
      BY DEF IInv, Here
    <3> QED
      BY <3>1, PieceIsKept
  <2> QED
    BY <1>2, <2>1 DEF Backed, EndOf
<1>4. IsAllocator!Preserved
  <2> SUFFICES ASSUME NEW p \in DOMAIN live \cap DOMAIN live', NEW x \in IsAllocator!Piece(p, live[p])
               PROVE  heap.mapped'[PageOf(x)] = heap.mapped[PageOf(x)]
    BY DEF IsAllocator!Preserved, PageOf
  <2>1. Good(Here, live, others) /\ Here.blocks = heap.blocks /\ Here.mapped = heap.mapped
        /\ Here'.mapped = heap.mapped' /\ Here'.astray = astray'
    BY DEF IInv, Here
  <2>2. x \in 0 .. EndOf(heap.blocks) - 1 /\ Touched(heap.blocks, PageOf(x))
    BY <2>1, PieceIsKept
  <2>3. PageOf(x) \in 0 .. PageCount - 1
    BY <1>2, <2>2 DEF Backed
  <2> QED
    BY <2>1, <2>2, <2>3 DEF Spares
<1> QED
  BY <1>1, <1>3, <1>4

LEMMA StepsRefine ==
  ASSUME IInv, IInv', [Next]_vars
  PROVE  IsAllocator!Next \/ UNCHANGED IsAllocator!vars
<1>1. ASSUME ~astray, Spares(Here, Here'), IsAllocator!Grants \/ IsAllocator!Returns \/ IsAllocator!Resizes
      PROVE  IsAllocator!Next
  <2>1. astray \in BOOLEAN /\ astray' \in BOOLEAN
    BY DEF IInv, Good, Here, HeapState
  <2>2. CASE astray'
    BY <1>1, <2>1, <2>2 DEF IsAllocator!Next, IsAllocator!Loses
  <2>3. CASE ~astray'
    BY <1>1, <2>1, <2>3, MemoryStays DEF IsAllocator!Next, IsAllocator!Serves
  <2> QED
    BY <2>2, <2>3
<1>2. live = [p \in DOMAIN live |-> live[p]]
  BY DEF IInv, Good, Holds
<1>3. CASE UNCHANGED vars
  BY <1>3 DEF vars, IsAllocator!vars
<1>4. CASE \E size \in Request : Malloc(size)
  <2>1. PICK size \in Request : Malloc(size)
    BY <1>4
  <2>2. PICK at : at \notin DOMAIN live /\ live' = More(live, at, size) /\ ~astray /\ Spares(Here, Here')
    BY <2>1, MallocKeeps
  <2>3. DOMAIN live' = DOMAIN live \cup {at} /\ \A p \in DOMAIN live : live'[p] = live[p]
    BY <2>2 DEF More
  <2>4. live = IsAllocator!Without(live', at)
    <3>1. DOMAIN live' \ {at} = DOMAIN live
      BY <2>2, <2>3
    <3> QED
      BY <1>2, <2>3, <3>1 DEF IsAllocator!Without
  <2>5. at \in DOMAIN live' \ DOMAIN live
    BY <2>2, <2>3
  <2>6. IsAllocator!Grants
    BY <2>4, <2>5 DEF IsAllocator!Grants
  <2> QED
    BY <1>1, <2>2, <2>6
<1>5. CASE \E at \in DOMAIN live : Free(at)
  <2>1. PICK at \in DOMAIN live : Free(at)
    BY <1>5
  <2>2. live' = IsAllocator!Without(live, at) /\ ~astray /\ Spares(Here, Here')
    BY <2>1, FreeKeeps DEF Less, IsAllocator!Without
  <2>3. IsAllocator!Returns
    BY <2>2 DEF IsAllocator!Returns
  <2> QED
    BY <1>1, <2>2, <2>3
<1>6. CASE \E at \in DOMAIN live, size \in Request : Realloc(at, size)
  <2>1. PICK at \in DOMAIN live, size \in Request : Realloc(at, size)
    BY <1>6
  <2>2. \/ live' = [live EXCEPT ![at] = size]
        \/ \E to : /\ to \notin DOMAIN live /\ live' = Less(More(live, to, size), at)
                   /\ \E s : Good(s, More(live, to, size), others)
    BY <2>1, ReallocKeeps
  <2>2a. ~astray /\ Spares(Here, Here')
    BY <2>1, ReallocKeeps
  <2>3. CASE live' = [live EXCEPT ![at] = size]
    <3>1. DOMAIN live' = DOMAIN live /\ \A p \in DOMAIN live : p # at => live'[p] = live[p]
      BY <2>3
    <3>2. IsAllocator!Without(live, at) = IsAllocator!Without(live', at) /\ at \in DOMAIN live'
      BY <3>1 DEF IsAllocator!Without
    <3>3. IsAllocator!Resizes
      BY <3>2 DEF IsAllocator!Resizes
    <3> QED
      BY <1>1, <2>2a, <3>3
  <2>4. CASE \E to : /\ to \notin DOMAIN live /\ live' = Less(More(live, to, size), at)
                     /\ \E s : Good(s, More(live, to, size), others)
    <3>1. PICK to : /\ to \notin DOMAIN live /\ live' = Less(More(live, to, size), at)
                    /\ \E s : Good(s, More(live, to, size), others)
      BY <2>4
    <3> DEFINE g == More(live, to, size)
    <3>2. IsAllocator!Apart(g)
      BY <3>1, GoodIsApart
    <3>3. DOMAIN g = DOMAIN live \cup {to} /\ \A p \in DOMAIN live : g[p] = live[p]
      BY <3>1 DEF More
    <3> HIDE DEF g
    <3>4. to # at
      BY <3>1
    <3>5. DOMAIN live' = (DOMAIN live \ {at}) \cup {to} /\ \A p \in DOMAIN live' : live'[p] = g[p]
      BY <3>1, <3>3, <3>4 DEF g, Less
    <3>6. to \in DOMAIN live' /\ live'[to] = g[to] /\ live[at] = g[at] /\ at \in DOMAIN g /\ to \in DOMAIN g
      BY <3>3, <3>5
    <3>7. IsAllocator!Piece(at, live[at]) \cap IsAllocator!Piece(to, live'[to]) = {}
      BY <3>2, <3>4, <3>6 DEF IsAllocator!Apart
    <3>8. IsAllocator!Without(live, at) = IsAllocator!Without(live', to)
      <4>1. DOMAIN live \ {at} = DOMAIN live' \ {to}
        BY <3>1, <3>5
      <4>2. \A p \in DOMAIN live \ {at} : live'[p] = live[p]
        BY <3>3, <3>5
      <4> QED
        BY <4>1, <4>2 DEF IsAllocator!Without
    <3>9. IsAllocator!Resizes
      BY <3>1, <3>6, <3>7, <3>8 DEF IsAllocator!Resizes
    <3> QED
      BY <1>1, <2>2a, <3>9
  <2> QED
    BY <2>2, <2>3, <2>4
<1>7. CASE TakeFrame \/ \E f \in others : GiveFrame(f)
  BY <1>7, FramesKeep DEF IsAllocator!vars
<1> QED
  BY <1>3, <1>4, <1>5, <1>6, <1>7 DEF Next

(* Clients see an allocator until the heap goes astray: what they hold      *)
(* never overlaps, is never less than they asked for, has frames of the     *)
(* heap behind every byte, the same ones as long as it is held, and never   *)
(* moves but in krealloc(), which has the old block until the new one is    *)
(* there (kheap.c:26-187).                                                  *)
THEOREM HeapIsAllocator == Spec => ImplementsAllocator
<1>1. Init => IInv /\ IsAllocator!Init
  BY InitKeeps DEF Init, IsAllocator!Init
<1>2. IInv /\ [Next]_vars => IInv'
  BY StepKeeps
<1>3. IInv /\ IInv' /\ [Next]_vars => [IsAllocator!Next]_(IsAllocator!vars)
  BY StepsRefine
<1> QED
  BY <1>1, <1>2, <1>3, PTL DEF Spec, ImplementsAllocator, IsAllocator!Spec
=============================================================================
