----------------------------- MODULE MountProofs -----------------------------
(***************************************************************************)
(* Proofs about Mount, for any snapshots, any files, any reads, any number *)
(* of threads and any capacity of the cache: a read returns the bytes of   *)
(* its file, the cache stays in step with its order, and a name keeps its  *)
(* number, behind which is what the snapshot has at that path.             *)
(*                                                                         *)
(* EndsOf, FlattenSeq, BuildLevels, Under and Paths are recursive          *)
(* functions; what they compute is proved by induction over a set of       *)
(* numbers (UpTo), once there is known to be a function that obeys the     *)
(* recursion (RecursionExists).                                            *)
(***************************************************************************)
EXTENDS Mount, FiniteSetTheorems, NaturalsInduction, TLAPS

(* Induction over an interval of natural numbers, on a set. *)
LEMMA UpTo ==
    ASSUME NEW n \in Nat, NEW P, 0 \in P, \A i \in 0 .. n - 1 : i \in P => i + 1 \in P
    PROVE  \A i \in 0 .. n : i \in P
<1> DEFINE Bad == {i \in 0 .. n : i \notin P}
<1> SUFFICES ASSUME Bad # {} PROVE FALSE
  OBVIOUS
<1>1. PICK x \in Bad : \A y \in Bad : ~ (<<y, x>> \in OpToRel(<, Nat))
  <2>1. Bad \subseteq Nat
    OBVIOUS
  <2>2. IsWellFoundedOn(OpToRel(<, Nat), Nat)
    BY NatLessThanWellFounded
  <2> HIDE DEF Bad
  <2> QED
    BY <2>1, <2>2, WFMin
<1>2. x \in 0 .. n /\ x # 0 /\ x \notin P
  OBVIOUS
<1>3. x - 1 \notin Bad
  <2>1. x \in Nat /\ x - 1 \in Nat /\ x - 1 < x
    BY <1>2
  <2>2. <<x - 1, x>> \in Nat \X Nat
    BY <2>1
  <2>3. <<x - 1, x>> \in OpToRel(<, Nat)
    BY <2>1, <2>2 DEF OpToRel
  <2> HIDE DEF Bad
  <2> QED
    BY <1>1, <2>3
<1>4. x - 1 \in P /\ x - 1 \in 0 .. n - 1
  BY <1>2, <1>3
<1> QED
  BY <1>2, <1>4

(* A recursive function over 0 .. n. *)
Recursion(g, St, n, base, step) ==
    /\ g \in [0 .. n -> St]
    /\ \A i \in 0 .. n : g[i] = IF i = 0 THEN base ELSE step[<<g[i - 1], i>>]

(* There is one. *)
LEMMA RecursionExists ==
    ASSUME NEW St, NEW n \in Nat, NEW base \in St, NEW step \in [St \X (1 .. n) -> St]
    PROVE  \E g : Recursion(g, St, n, base, step)
<1> DEFINE Obeys(g, m) ==
              /\ g \in [0 .. m -> St]
              /\ \A i \in 0 .. m : g[i] = IF i = 0 THEN base ELSE step[<<g[i - 1], i>>]
           P == {m \in 0 .. n : \E g : Obeys(g, m)}
<1>1. 0 \in P
  <2>1. Obeys([i \in 0 .. 0 |-> base], 0)
    OBVIOUS
  <2> HIDE DEF Obeys
  <2> QED
    BY <2>1
<1>2. ASSUME NEW m \in 0 .. n - 1, m \in P PROVE m + 1 \in P
  <2>1. PICK g : Obeys(g, m)
    BY <1>2
  <2> DEFINE h == [i \in 0 .. m + 1 |-> IF i = m + 1 THEN step[<<g[m], i>>] ELSE g[i]]
  <2>2. ASSUME NEW i \in 0 .. m PROVE h[i] = g[i]
    OBVIOUS
  <2>3. h \in [0 .. m + 1 -> St]
    BY <2>1
  <2>4. \A i \in 0 .. m + 1 : h[i] = IF i = 0 THEN base ELSE step[<<h[i - 1], i>>]
    <3> SUFFICES ASSUME NEW i \in 0 .. m + 1
                 PROVE  h[i] = IF i = 0 THEN base ELSE step[<<h[i - 1], i>>]
      OBVIOUS
    <3>1. CASE i = 0
      <4>0. 0 \in 0 .. m
        OBVIOUS
      <4>1. g[0] = base
        BY <2>1, <4>0
      <4> HIDE DEF h
      <4> QED
        BY <2>2, <3>1, <4>0, <4>1
    <3>2. CASE i # 0
      <4>1. h[i - 1] = g[i - 1]
        <5>1. i - 1 \in 0 .. m
          BY <3>2
        <5> HIDE DEF h
        <5> QED
          BY <2>2, <5>1
      <4> QED
        BY <2>1, <3>2, <4>1
    <3> QED
      BY <3>1, <3>2
  <2>5. Obeys(h, m + 1)
    BY <2>3, <2>4
  <2> HIDE DEF Obeys, h
  <2> QED
    BY <2>5
<1>3. n \in P
  <2> HIDE DEF P
  <2> QED
    BY <1>1, <1>2, UpTo
<1>4. PICK g : Obeys(g, n)
  BY <1>3
<1> QED
  BY <1>4 DEF Recursion

-----------------------------------------------------------------------------
(***************************************************************************)
(* The chunks of a file.                                                   *)
(***************************************************************************)
Chunk == DOMAIN RawLen
Byte == Chunk \X Nat

(* ChunkOffsets::from_raw_lens: where each chunk ends. *)
LEMMA EndsFacts ==
    ASSUME NEW chunks \in Seq(Chunk)
    PROVE  /\ EndsOf(chunks) \in [0 .. Len(chunks) -> Nat]
           /\ EndsOf(chunks)[0] = 0
           /\ \A k \in 1 .. Len(chunks) :
                EndsOf(chunks)[k] = EndsOf(chunks)[k - 1] + RawLen[chunks[k]] /\ RawLen[chunks[k]] \in Nat
<1> DEFINE n == Len(chunks)
           step == [x \in Nat \X (1 .. n) |-> x[1] + RawLen[chunks[x[2]]]]
           Sums(f) == f = [k \in 0 .. n |-> IF k = 0 THEN 0 ELSE f[k - 1] + RawLen[chunks[k]]]
<1>1. n \in Nat /\ \A k \in 1 .. n : RawLen[chunks[k]] \in Nat
  BY MountTrees DEF Chunk
<1>2. step \in [Nat \X (1 .. n) -> Nat]
  BY <1>1
<1>3. PICK g : Recursion(g, Nat, n, 0, step)
  <2> HIDE DEF n, step
  <2> QED
    BY <1>1, <1>2, RecursionExists
<1>4. /\ g \in [0 .. n -> Nat]
      /\ \A i \in 0 .. n : g[i] = IF i = 0 THEN 0 ELSE step[<<g[i - 1], i>>]
  <2> HIDE DEF n, step
  <2> QED
    BY <1>3 DEF Recursion
<1>5. \A i \in 0 .. n : g[i] = IF i = 0 THEN 0 ELSE g[i - 1] + RawLen[chunks[i]]
  <2> SUFFICES ASSUME NEW i \in 0 .. n, i # 0 PROVE g[i] = g[i - 1] + RawLen[chunks[i]]
    BY <1>4
  <2>1. i - 1 \in 0 .. n /\ i \in 1 .. n
    BY <1>1
  <2>2. <<g[i - 1], i>> \in Nat \X (1 .. n)
    BY <1>4, <2>1
  <2>3. step[<<g[i - 1], i>>] = g[i - 1] + RawLen[chunks[i]]
    BY <2>2
  <2> HIDE DEF step, n
  <2> QED
    BY <1>4, <2>3
<1>6. Sums(g)
  <2> HIDE DEF step, n
  <2> QED
    BY <1>4, <1>5
<1> DEFINE f == CHOOSE f : Sums(f)
<1>7. Sums(f)
  <2> HIDE DEF Sums
  <2> QED
    BY <1>6, Zenon
<1>8. EndsOf(chunks) = f
  BY DEF EndsOf
<1> HIDE DEF f
<1>9. \A k \in 0 .. n : f[k] = IF k = 0 THEN 0 ELSE f[k - 1] + RawLen[chunks[k]]
  <2> HIDE DEF n
  <2> QED
    BY <1>7
<1> DEFINE P == {k \in 0 .. n : f[k] \in Nat}
<1>10. 0 \in P
  BY <1>1, <1>9
<1>11. ASSUME NEW k \in 0 .. n - 1, k \in P PROVE k + 1 \in P
  <2>1. k + 1 \in 0 .. n /\ k + 1 # 0 /\ (k + 1) - 1 = k /\ k + 1 \in 1 .. n
    BY <1>1
  <2>2. f[k + 1] = f[k] + RawLen[chunks[k + 1]]
    <3> HIDE DEF n
    <3> QED
      BY <1>9, <2>1
  <2> QED
    BY <1>1, <1>11, <2>1, <2>2
<1>12. \A k \in 0 .. n : k \in P
  <2> HIDE DEF P, n
  <2> QED
    BY <1>1, <1>10, <1>11, UpTo
<1>13. DOMAIN f = 0 .. n
  <2> HIDE DEF n
  <2> QED
    BY <1>7
<1>14. f \in [0 .. n -> Nat]
  <2>1. f = [k \in 0 .. n |-> f[k]]
    <3> HIDE DEF n
    <3> QED
      BY <1>7
  <2> QED
    BY <1>12, <2>1
<1> HIDE DEF n
<1> QED
  BY <1>1, <1>8, <1>9, <1>14 DEF n

(* Every position before the end of a file is in one chunk: the first that *)
(* ends after it (ChunkOffsets::locate).                                   *)
LEMMA LocateFacts ==
    ASSUME NEW chunks \in Seq(Chunk), NEW offset \in Nat, offset < Total(chunks)
    PROVE  /\ Locate(chunks, offset) \in 1 .. Len(chunks)
           /\ EndsOf(chunks)[Locate(chunks, offset) - 1] <= offset
           /\ offset < EndsOf(chunks)[Locate(chunks, offset)]
<1> DEFINE n == Len(chunks)
           ends == EndsOf(chunks)
           Is(k) == ends[k] > offset /\ \A j \in DOMAIN chunks : ends[j] > offset => k <= j
<1>1. /\ n \in Nat /\ DOMAIN chunks = 1 .. n
      /\ ends \in [0 .. n -> Nat] /\ ends[0] = 0 /\ offset < ends[n]
  BY EndsFacts DEF Total
<1> HIDE DEF n, ends
<1>2. \E k \in 1 .. n : Is(k)
  <2> SUFFICES ASSUME \A k \in 1 .. n : ~Is(k) PROVE FALSE
    OBVIOUS
  <2> DEFINE P == {i \in 0 .. n : \A j \in 0 .. i : ends[j] <= offset}
  <2>1. 0 \in P
    BY <1>1
  <2>2. ASSUME NEW i \in 0 .. n - 1, i \in P PROVE i + 1 \in P
    <3>0. n \in Nat /\ i + 1 \in 1 .. n /\ i + 1 \in 0 .. n
      BY <1>1
    <3>1. i + 1 \in 1 .. n /\ 0 .. i + 1 = 0 .. i \cup {i + 1} /\ ends[i + 1] \in Nat
      <4>1. i \in Nat
        BY <3>0
      <4>2. 0 .. i + 1 = 0 .. i \cup {i + 1}
        BY <4>1
      <4> QED
        BY <1>1, <3>0, <4>2
    <3>2. ASSUME ends[i + 1] > offset PROVE FALSE
      <4>1. \A j \in 1 .. n : ends[j] > offset => i + 1 <= j
        <5> SUFFICES ASSUME NEW j \in 1 .. n, ends[j] > offset, ~(i + 1 <= j) PROVE FALSE
          OBVIOUS
        <5>0. n \in Nat
          BY <1>1
        <5>1. j \in 0 .. i /\ j \in 0 .. n
          BY <5>0
        <5>2. ends[j] <= offset
          BY <2>2, <5>1
        <5>3. ends[j] \in Nat
          BY <1>1, <5>1
        <5> QED
          BY <5>2, <5>3
      <4> QED
        BY <1>1, <3>1, <3>2, <4>1
    <3>3. ends[i + 1] <= offset
      BY <3>1, <3>2
    <3> QED
      BY <1>1, <2>2, <3>1, <3>3
  <2>3. \A i \in 0 .. n : i \in P
    <3> HIDE DEF P
    <3> QED
      BY <1>1, <2>1, <2>2, UpTo
  <2>4. n \in P
    <3> HIDE DEF P
    <3> QED
      BY <1>1, <2>3
  <2> QED
    BY <1>1, <2>4
<1> DEFINE k == Locate(chunks, offset)
<1>3. k \in 1 .. n /\ Is(k)
  <2>1. k = CHOOSE i \in DOMAIN chunks : Is(i)
    BY DEF Locate, ends
  <2> HIDE DEF k
  <2> QED
    BY <1>1, <1>2, <2>1
<1> HIDE DEF k
<1>4. ends[k - 1] <= offset
  <2>1. CASE k = 1
    BY <1>1, <2>1
  <2>2. CASE k # 1
    <3>1. k - 1 \in 1 .. n /\ k - 1 \in 0 .. n /\ ~(k <= k - 1)
      BY <1>1, <1>3, <2>2
    <3>2. ends[k - 1] \in Nat
      BY <1>1, <3>1
    <3>3. ~(ends[k - 1] > offset)
      BY <1>1, <1>3, <3>1
    <3> QED
      BY <3>2, <3>3
  <2> QED
    BY <2>1, <2>2
<1>5. offset < ends[k]
  BY <1>1, <1>3
<1> QED
  BY <1>3, <1>4, <1>5 DEF n, ends, k
(* Two sequences, one after the other. *)
LEMMA ConcatFacts ==
    ASSUME NEW T, NEW u \in Seq(T), NEW v \in Seq(T)
    PROVE  /\ u \o v \in Seq(T) /\ Len(u \o v) = Len(u) + Len(v)
           /\ \A j \in 1 .. Len(u) + Len(v) : (u \o v)[j] = IF j <= Len(u) THEN u[j] ELSE v[j - Len(u)]
OBVIOUS

(* What a file holds: its chunks, one after the other. *)
ContentOf(chunks) == FlattenSeq([k \in DOMAIN chunks |-> Bytes(chunks[k])])

(* A byte of a chunk is where the ends say. *)
LEMMA ContentFacts ==
    ASSUME NEW chunks \in Seq(Chunk)
    PROVE  /\ ContentOf(chunks) \in Seq(Byte)
           /\ Len(ContentOf(chunks)) = Total(chunks)
           /\ \A k \in 1 .. Len(chunks) : \A j \in 1 .. RawLen[chunks[k]] :
                 ContentOf(chunks)[EndsOf(chunks)[k - 1] + j] = <<chunks[k], j>>
<1> DEFINE n == Len(chunks)
           ends == EndsOf(chunks)
           ss == [k \in DOMAIN chunks |-> Bytes(chunks[k])]
           step == [x \in Seq(Byte) \X (1 .. n) |-> x[1] \o ss[x[2]]]
           Flattens(f) == f = [i \in 1 .. Len(ss) |-> IF i = 1 THEN ss[i] ELSE f[i - 1] \o ss[i]]
           Holds(s, i) == /\ s \in Seq(Byte) /\ Len(s) = ends[i]
                          /\ \A k \in 1 .. i : \A j \in 1 .. RawLen[chunks[k]] :
                                ends[k - 1] + j \in 1 .. ends[i] /\ s[ends[k - 1] + j] = <<chunks[k], j>>
<1>1. /\ n \in Nat /\ DOMAIN chunks = 1 .. n /\ \A k \in 1 .. n : chunks[k] \in Chunk
      /\ ends \in [0 .. n -> Nat] /\ ends[0] = 0
      /\ \A k \in 1 .. n : ends[k] = ends[k - 1] + RawLen[chunks[k]] /\ RawLen[chunks[k]] \in Nat
  BY EndsFacts
<1>2. ASSUME NEW k \in 1 .. n
      PROVE  /\ ss[k] \in Seq(Byte) /\ Len(ss[k]) = RawLen[chunks[k]]
             /\ \A j \in 1 .. RawLen[chunks[k]] : ss[k][j] = <<chunks[k], j>>
  <2> DEFINE l == RawLen[chunks[k]]
  <2>1. ss[k] = [j \in 1 .. l |-> <<chunks[k], j>>]
    BY <1>1 DEF Bytes
  <2>2. l \in Nat /\ chunks[k] \in Chunk
    BY <1>1
  <2> HIDE DEF ss, l
  <2>3. ss[k] \in [1 .. l -> Byte]
    BY <2>1, <2>2 DEF Byte
  <2>4. ss[k] \in Seq(Byte) /\ Len(ss[k]) = l
    BY <2>2, <2>3
  <2> QED
    BY <2>1, <2>4 DEF l
<1>3. Len(ss) = n /\ DOMAIN ss = 1 .. n
  BY <1>1
<1>4. ContentOf(chunks) = FlattenSeq(ss)
  BY DEF ContentOf
<1>5. CASE n = 0
  <2>1. ss = <<>>
    BY <1>1, <1>5
  <2>2. FlattenSeq(ss) = ss
    <3>1. Len(ss) = 0
      BY <1>3, <1>5
    <3> QED
      BY <3>1, Zenon DEF FlattenSeq
  <2> HIDE DEF ss, ends
  <2> QED
    BY <1>1, <1>4, <1>5, <2>1, <2>2 DEF Total, ends
<1>6. CASE n # 0
  <2>0. 1 \in 1 .. n /\ ss[1] \in Seq(Byte)
    BY <1>1, <1>2, <1>6
  <2>1. step \in [Seq(Byte) \X (1 .. n) -> Seq(Byte)]
    <3> SUFFICES ASSUME NEW s \in Seq(Byte), NEW i \in 1 .. n PROVE s \o ss[i] \in Seq(Byte)
      OBVIOUS
    <3>1. ss[i] \in Seq(Byte)
      BY <1>2
    <3> HIDE DEF ss
    <3> QED
      BY <3>1
  <2> HIDE DEF ss
  <2>2. PICK g : Recursion(g, Seq(Byte), n, <<>>, step)
    <3>1. <<>> \in Seq(Byte)
      OBVIOUS
    <3> HIDE DEF n, step
    <3> QED
      BY <1>1, <2>1, <3>1, RecursionExists
  <2>3. /\ g \in [0 .. n -> Seq(Byte)] /\ g[0] = <<>>
        /\ \A i \in 0 .. n : g[i] = IF i = 0 THEN <<>> ELSE step[<<g[i - 1], i>>]
    <3>1. 0 \in 0 .. n
      BY <1>1
    <3> HIDE DEF n, step
    <3> QED
      BY <2>2, <3>1 DEF Recursion
  <2>4. \A i \in 1 .. n : g[i - 1] \in Seq(Byte) /\ g[i] = g[i - 1] \o ss[i]
    <3> SUFFICES ASSUME NEW i \in 1 .. n PROVE g[i - 1] \in Seq(Byte) /\ g[i] = g[i - 1] \o ss[i]
      OBVIOUS
    <3>1. i - 1 \in 0 .. n /\ i \in 0 .. n /\ i # 0
      BY <1>1
    <3>2. g[i - 1] \in Seq(Byte) /\ g[i] = step[<<g[i - 1], i>>]
      <4> HIDE DEF n, step
      <4> QED
        BY <2>3, <3>1
    <3>3. <<g[i - 1], i>> \in Seq(Byte) \X (1 .. n)
      BY <3>2
    <3> QED
      BY <3>2, <3>3
  <2> DEFINE h == [i \in 1 .. Len(ss) |-> g[i]]
  <2>5. Flattens(h)
    <3>1. \A i \in 1 .. n : g[i] = IF i = 1 THEN ss[i] ELSE h[i - 1] \o ss[i]
      <4> SUFFICES ASSUME NEW i \in 1 .. n PROVE g[i] = IF i = 1 THEN ss[i] ELSE h[i - 1] \o ss[i]
        OBVIOUS
      <4>1. CASE i = 1
        <5>1. g[1] = g[0] \o ss[1]
          <6>1. 1 - 1 = 0
            OBVIOUS
          <6> HIDE DEF h, n
          <6> QED
            BY <2>0, <2>4, <6>1
        <5>2. <<>> \o ss[1] = ss[1]
          BY <2>0
        <5> HIDE DEF h
        <5> QED
          BY <2>3, <4>1, <5>1, <5>2
      <4>2. CASE i # 1
        <5>1. i - 1 \in 1 .. Len(ss)
          BY <1>1, <1>3, <4>2
        <5> QED
          BY <2>4, <4>2, <5>1
      <4> QED
        BY <4>1, <4>2
    <3> QED
      BY <1>3, <3>1
  <2> DEFINE f == CHOOSE f : Flattens(f)
  <2>6. Flattens(f)
    <3> HIDE DEF Flattens, h
    <3> QED
      BY <2>5, Zenon
  <2>7. FlattenSeq(ss) = f[Len(ss)]
    <3>1. Len(ss) # 0
      BY <1>3, <1>6
    <3> QED
      BY <3>1, Zenon DEF FlattenSeq
  <2> HIDE DEF f
  <2>8. \A i \in 1 .. n : f[i] = IF i = 1 THEN ss[i] ELSE f[i - 1] \o ss[i]
    <3> HIDE DEF n
    <3> QED
      BY <1>3, <2>6
  <2> DEFINE P == {i \in 0 .. n : i # 0 => Holds(f[i], i)}
  <2>9. 0 \in P
    BY <1>1
  <2> HIDE DEF n, ends
  <2>10. ASSUME NEW i \in 0 .. n - 1, i \in P PROVE i + 1 \in P
    <3> DEFINE e == ends[i]
               l == RawLen[chunks[i + 1]]
               s == f[i + 1]
    <3>1. /\ i \in Nat /\ i + 1 \in 1 .. n /\ i + 1 \in 0 .. n /\ i + 1 # 0 /\ (i + 1) - 1 = i
          /\ 1 .. i + 1 = 1 .. i \cup {i + 1}
      <4>1. n \in Nat
        BY <1>1
      <4>2. i \in Nat /\ i + 1 \in 1 .. n /\ i + 1 \in 0 .. n /\ i + 1 # 0 /\ (i + 1) - 1 = i
        BY <4>1
      <4>3. 1 .. i + 1 = 1 .. i \cup {i + 1}
        BY <4>2
      <4> QED
        BY <4>2, <4>3
    <3>2. e \in Nat /\ l \in Nat /\ ends[i + 1] = e + l
      BY <1>1, <3>1
    <3>3. /\ ss[i + 1] \in Seq(Byte) /\ Len(ss[i + 1]) = l
          /\ \A j \in 1 .. l : ss[i + 1][j] = <<chunks[i + 1], j>>
      BY <1>2, <3>1
    <3>4. /\ s \in Seq(Byte) /\ Len(s) = e + l
          /\ \A j \in 1 .. l : s[e + j] = ss[i + 1][j]
          /\ \A k \in 1 .. i : \A j \in 1 .. RawLen[chunks[k]] :
                ends[k - 1] + j \in 1 .. e /\ s[ends[k - 1] + j] = <<chunks[k], j>>
      <4>1. CASE i = 0
        <5>1. s = ss[i + 1] /\ e = 0
          BY <1>1, <2>0, <2>8, <4>1
        <5>2. 1 .. i = {}
          BY <4>1
        <5> HIDE DEF s, e, l
        <5> QED
          BY <3>2, <3>3, <5>1, <5>2
      <4>2. CASE i # 0
        <5>1. s = f[i] \o ss[i + 1]
          <6>1. i + 1 # 1
            BY <3>1, <4>2
          <6> QED
            BY <2>8, <3>1, <6>1
        <5>2. Holds(f[i], i)
          BY <2>10, <4>2
        <5>3. f[i] \in Seq(Byte) /\ Len(f[i]) = e
          BY <5>2
        <5> DEFINE u == f[i]
                   v == ss[i + 1]
        <5>a. u \in Seq(Byte) /\ Len(u) = e /\ v \in Seq(Byte) /\ Len(v) = l /\ s = u \o v
          BY <3>3, <5>1, <5>3
        <5>4. \A j \in 1 .. e + l : s[j] = IF j <= e THEN u[j] ELSE v[j - e]
          <6> HIDE DEF s, e, l, u, v
          <6> QED
            BY <5>a, ConcatFacts
        <5>5. s \in Seq(Byte) /\ Len(s) = e + l
          <6> HIDE DEF s, e, l, u, v
          <6> QED
            BY <5>a, ConcatFacts
        <5>6. ASSUME NEW j \in 1 .. l PROVE s[e + j] = ss[i + 1][j]
          <6> HIDE DEF s, e, l
          <6>1. e + j \in 1 .. e + l /\ ~(e + j <= e) /\ (e + j) - e = j
            BY <3>2
          <6> QED
            BY <5>4, <6>1
        <5>7. ASSUME NEW k \in 1 .. i, NEW j \in 1 .. RawLen[chunks[k]]
              PROVE  ends[k - 1] + j \in 1 .. e /\ s[ends[k - 1] + j] = <<chunks[k], j>>
          <6>1. ends[k - 1] + j \in 1 .. e /\ f[i][ends[k - 1] + j] = <<chunks[k], j>>
            BY <5>2
          <6> DEFINE q == ends[k - 1] + j
          <6> HIDE DEF s, e, l, q
          <6>2. q \in 1 .. e + l /\ q <= e
            BY <3>2, <6>1 DEF q
          <6> QED
            BY <5>4, <6>1, <6>2 DEF q
        <5> QED
          BY <5>5, <5>6, <5>7
      <4> QED
        BY <4>1, <4>2
    <3> HIDE DEF s, e, l
    <3>5. ASSUME NEW k \in 1 .. i + 1, NEW j \in 1 .. RawLen[chunks[k]]
          PROVE  ends[k - 1] + j \in 1 .. e + l /\ s[ends[k - 1] + j] = <<chunks[k], j>>
      <4>1. CASE k \in 1 .. i
        <5> DEFINE q == ends[k - 1] + j
        <5>1. q \in 1 .. e /\ s[q] = <<chunks[k], j>>
          BY <3>4, <4>1
        <5> HIDE DEF q
        <5>2. q \in 1 .. e + l
          BY <3>2, <5>1
        <5> QED
          BY <5>1, <5>2 DEF q
      <4>2. CASE k = i + 1
        <5>1. k - 1 = i /\ j \in 1 .. l /\ ends[k - 1] = e
          BY <3>1, <4>2 DEF l, e
        <5>2. e + j \in 1 .. e + l
          BY <3>2, <5>1
        <5>3. s[e + j] = <<chunks[k], j>>
          BY <3>3, <3>4, <4>2, <5>1
        <5> QED
          BY <5>1, <5>2, <5>3
      <4> QED
        BY <3>1, <4>1, <4>2
    <3>6. Holds(s, i + 1)
      BY <3>2, <3>4, <3>5
    <3> HIDE DEF Holds
    <3> QED
      BY <3>1, <3>6 DEF s
  <2>11. Holds(f[n], n)
    <3> HIDE DEF P
    <3>1. \A i \in 0 .. n : i \in P
      BY <1>1, <2>9, <2>10, UpTo
    <3>2. n \in P
      BY <1>1, <3>1
    <3> QED
      BY <1>6, <3>2 DEF P
  <2> QED
    BY <1>3, <1>4, <2>7, <2>11 DEF Total, n, ends
<1> QED
  BY <1>5, <1>6
(* A part of a sequence. *)
LEMMA PartFacts ==
    ASSUME NEW T, NEW s \in Seq(T), NEW a \in Nat, NEW b \in Nat, a <= b, b <= Len(s)
    PROVE  /\ SubSeq(s, a + 1, b) \in Seq(T) /\ Len(SubSeq(s, a + 1, b)) = b - a
           /\ \A j \in 1 .. b - a : SubSeq(s, a + 1, b)[j] = s[a + j]
OBVIOUS

(* Two parts of a sequence that meet. *)
LEMMA PartsMeet ==
    ASSUME NEW T, NEW s \in Seq(T), NEW a \in Nat, NEW b \in Nat, NEW c \in Nat,
           a <= b, b <= c, c <= Len(s)
    PROVE  SubSeq(s, a + 1, b) \o SubSeq(s, b + 1, c) = SubSeq(s, a + 1, c)
<1> DEFINE u == SubSeq(s, a + 1, b)
           v == SubSeq(s, b + 1, c)
           w == SubSeq(s, a + 1, c)
<1>0. b <= Len(s) /\ a <= c
  <2>1. Len(s) \in Nat
    OBVIOUS
  <2> QED
    BY <2>1
<1>1. u \in Seq(T) /\ Len(u) = b - a /\ \A j \in 1 .. b - a : u[j] = s[a + j]
  BY <1>0, PartFacts
<1>2. v \in Seq(T) /\ Len(v) = c - b /\ \A j \in 1 .. c - b : v[j] = s[b + j]
  BY PartFacts
<1>3. w \in Seq(T) /\ Len(w) = c - a /\ \A j \in 1 .. c - a : w[j] = s[a + j]
  BY <1>0, PartFacts
<1> HIDE DEF u, v, w
<1>4. /\ u \o v \in Seq(T) /\ Len(u \o v) = (b - a) + (c - b)
      /\ \A j \in 1 .. (b - a) + (c - b) : (u \o v)[j] = IF j <= b - a THEN u[j] ELSE v[j - (b - a)]
  <2> DEFINE m == Len(u)
             n == Len(v)
  <2>1. /\ u \o v \in Seq(T) /\ Len(u \o v) = m + n
        /\ \A j \in 1 .. m + n : (u \o v)[j] = IF j <= m THEN u[j] ELSE v[j - m]
    BY <1>1, <1>2, ConcatFacts
  <2>2. m = b - a /\ n = c - b
    BY <1>1, <1>2
  <2> HIDE DEF m, n
  <2> QED
    BY <2>1, <2>2
<1>5. ASSUME NEW j \in 1 .. c - a PROVE (u \o v)[j] = w[j]
  <2>1. j \in 1 .. (b - a) + (c - b)
    OBVIOUS
  <2>2. CASE j <= b - a
    <3>1. j \in 1 .. b - a
      BY <2>2
    <3> QED
      BY <1>1, <1>3, <1>4, <2>1, <2>2, <3>1
  <2>3. CASE ~(j <= b - a)
    <3>1. j - (b - a) \in 1 .. c - b /\ b + (j - (b - a)) = a + j
      BY <2>3
    <3>2. v[j - (b - a)] = s[a + j]
      BY <1>2, <3>1
    <3> QED
      BY <1>3, <1>4, <2>1, <2>3, <3>2
  <2> QED
    BY <2>2, <2>3
<1>6. Len(u \o v) = Len(w)
  BY <1>3, <1>4
<1> DEFINE x == u \o v
<1> HIDE DEF x
<1>7. x \in Seq(T) /\ w \in Seq(T) /\ Len(x) = Len(w) /\ \A j \in 1 .. Len(w) : x[j] = w[j]
  BY <1>3, <1>4, <1>5, <1>6 DEF x
<1>8. x = w
  BY <1>7
<1> QED
  BY <1>8 DEF x, u, v, w

(* The numbers of a round: what is skipped, and what is taken. *)
TakenRight(before, l, pos, end, skip, take) ==
    /\ skip \in Nat /\ skip < l /\ take \in Nat \ {0}
    /\ skip + take \in Nat /\ skip <= skip + take /\ skip + take <= l /\ (skip + take) - skip = take
    /\ pos + take \in Nat /\ pos <= pos + take /\ pos + take <= end /\ (pos + take) - pos = take
    /\ \A j \in 1 .. take : skip + j \in 1 .. l /\ before + (skip + j) = pos + j

(* They are right for a position in the chunk. *)
LEMMA TakeFacts ==
    ASSUME NEW before \in Nat, NEW l \in Nat, NEW pos \in Nat, NEW end \in Nat,
           before <= pos, pos < before + l, pos < end,
           NEW skip, skip = pos - before, NEW take, take = Lesser(l - skip, end - pos)
    PROVE  TakenRight(before, l, pos, end, skip, take)
<1>1. take = IF l - skip < end - pos THEN l - skip ELSE end - pos
  BY DEF Lesser
<1>2. skip \in Nat /\ skip < l
  OBVIOUS
<1>3. take \in Nat \ {0} /\ take <= l - skip /\ take <= end - pos
  BY <1>1, <1>2
<1> QED
  BY <1>2, <1>3 DEF TakenRight

Skipped(chunks, pos) == pos - EndsOf(chunks)[Locate(chunks, pos) - 1]
Taken(chunks, pos, end) == Lesser(RawLen[chunks[Locate(chunks, pos)]] - Skipped(chunks, pos), end - pos)
Piece(chunks, pos, end) ==
    SubSeq(Bytes(chunks[Locate(chunks, pos)]), Skipped(chunks, pos) + 1,
           Skipped(chunks, pos) + Taken(chunks, pos, end))

(* A round goes on by at least one byte, and what it adds are the next ones. *)
GoesOn(chunks, start, pos, end) ==
    /\ Taken(chunks, pos, end) \in Nat \ {0} /\ pos + Taken(chunks, pos, end) <= end
    /\ SubSeq(ContentOf(chunks), start + 1, pos) \o Piece(chunks, pos, end)
         = SubSeq(ContentOf(chunks), start + 1, pos + Taken(chunks, pos, end))

(* One round of read_file's loop. *)
LEMMA CopyFacts ==
    ASSUME NEW chunks \in Seq(Chunk), NEW start \in Nat, NEW pos \in Nat, NEW end \in Nat,
           start <= pos, pos < end, end <= Total(chunks)
    PROVE  GoesOn(chunks, start, pos, end)
<1> DEFINE n == Len(chunks)
           ends == EndsOf(chunks)
           s == ContentOf(chunks)
           k == Locate(chunks, pos)
           skip == Skipped(chunks, pos)
           take == Taken(chunks, pos, end)
           l == RawLen[chunks[k]]
           before == ends[k - 1]
<1>1. k \in 1 .. n /\ before <= pos /\ pos < ends[k]
  <2>1. Len(chunks) \in Nat /\ EndsOf(chunks) \in [0 .. Len(chunks) -> Nat]
    BY EndsFacts
  <2>2. Total(chunks) \in Nat
    BY <2>1 DEF Total
  <2>3. pos < Total(chunks)
    BY <2>2
  <2> QED
    BY <2>3, LocateFacts
<1>2. before \in Nat /\ l \in Nat /\ ends[k] = before + l
  <2>1. k - 1 \in 0 .. n
    BY <1>1
  <2> QED
    BY <1>1, <2>1, EndsFacts
<1>3. s \in Seq(Byte) /\ Len(s) = Total(chunks)
      /\ \A j \in 1 .. l : s[before + j] = <<chunks[k], j>>
  BY <1>1, ContentFacts
<1>a. skip = pos - before /\ take = Lesser(l - skip, end - pos)
  BY DEF Skipped, Taken
<1>b. Piece(chunks, pos, end) = SubSeq(Bytes(chunks[k]), skip + 1, skip + take)
  BY DEF Piece
<1> HIDE DEF s, l, before, ends, n, k, skip, take
<1>4. before <= pos /\ pos < before + l /\ skip = pos - before /\ take = Lesser(l - skip, end - pos)
  BY <1>1, <1>2, <1>a
<1>5. /\ skip \in Nat /\ skip < l /\ take \in Nat \ {0}
      /\ skip + take \in Nat /\ skip <= skip + take /\ skip + take <= l /\ (skip + take) - skip = take
      /\ pos + take \in Nat /\ pos <= pos + take /\ pos + take <= end /\ (pos + take) - pos = take
      /\ \A j \in 1 .. take : skip + j \in 1 .. l /\ before + (skip + j) = pos + j
  <2>1. before \in Nat /\ l \in Nat
    BY <1>2
  <2>2. TakenRight(before, l, pos, end, skip, take)
    BY <1>4, <2>1, TakeFacts
  <2> QED
    BY <2>2 DEF TakenRight
<1>6. pos + take <= Len(s)
  <2>1. Total(chunks) \in Nat
    BY <1>3
  <2> QED
    BY <1>3, <1>5, <2>1
<1> DEFINE b == Bytes(chunks[k])
           p == SubSeq(b, skip + 1, skip + take)
           q == SubSeq(s, pos + 1, pos + take)
<1>7. b \in Seq({chunks[k]} \X Nat) /\ Len(b) = l /\ \A j \in 1 .. l : b[j] = <<chunks[k], j>>
  <2>1. b = [j \in 1 .. l |-> <<chunks[k], j>>]
    BY DEF Bytes, l
  <2> HIDE DEF b
  <2>2. b \in [1 .. l -> {chunks[k]} \X Nat]
    BY <1>2, <2>1
  <2> QED
    BY <1>2, <2>1, <2>2
<1> HIDE DEF b
<1>8. p \in Seq({chunks[k]} \X Nat) /\ Len(p) = take /\ \A j \in 1 .. take : p[j] = b[skip + j]
  <2> DEFINE c == skip + take
  <2>1. c \in Nat /\ skip <= c /\ c <= Len(b) /\ c - skip = take
    BY <1>5, <1>7
  <2> DEFINE T == {chunks[k]} \X Nat
  <2>2. b \in Seq(T) /\ skip \in Nat
    BY <1>5, <1>7
  <2> HIDE DEF c, T, p
  <2>3. /\ SubSeq(b, skip + 1, c) \in Seq(T) /\ Len(SubSeq(b, skip + 1, c)) = c - skip
        /\ \A j \in 1 .. c - skip : SubSeq(b, skip + 1, c)[j] = b[skip + j]
    BY <2>1, <2>2, PartFacts
  <2> QED
    BY <2>1, <2>3 DEF c, T, p
<1>9. q \in Seq(Byte) /\ Len(q) = take /\ \A j \in 1 .. take : q[j] = s[pos + j]
  <2> DEFINE c == pos + take
  <2>1. c \in Nat /\ pos <= c /\ c <= Len(s) /\ c - pos = take
    BY <1>5, <1>6
  <2>3. s \in Seq(Byte)
    BY <1>3
  <2> HIDE DEF c
  <2>2. /\ SubSeq(s, pos + 1, c) \in Seq(Byte) /\ Len(SubSeq(s, pos + 1, c)) = c - pos
        /\ \A j \in 1 .. c - pos : SubSeq(s, pos + 1, c)[j] = s[pos + j]
    BY <2>1, <2>3, PartFacts
  <2> QED
    BY <2>1, <2>2 DEF c
<1> HIDE DEF p, q
<1>10. ASSUME NEW j \in 1 .. take PROVE p[j] = q[j]
  <2>1. skip + j \in 1 .. l /\ before + (skip + j) = pos + j
    BY <1>5
  <2>2. s[pos + j] = <<chunks[k], skip + j>>
    <3>1. s[before + (skip + j)] = <<chunks[k], skip + j>>
      BY <1>3, <2>1
    <3> QED
      BY <2>1, <3>1
  <2> QED
    BY <1>7, <1>8, <1>9, <2>1, <2>2
<1>11. p = q
  BY <1>5, <1>8, <1>9, <1>10
<1>12. SubSeq(s, start + 1, pos) \o SubSeq(s, pos + 1, pos + take) = SubSeq(s, start + 1, pos + take)
  <2> DEFINE c == pos + take
  <2>1. c \in Nat /\ pos <= c /\ c <= Len(s)
    BY <1>5, <1>6
  <2> HIDE DEF c
  <2>2. SubSeq(s, start + 1, pos) \o SubSeq(s, pos + 1, c) = SubSeq(s, start + 1, c)
    BY <1>3, <2>1, PartsMeet
  <2> QED
    BY <2>2 DEF c
<1> QED
  BY <1>5, <1>11, <1>12, <1>b DEF p, q, b, s, take, GoesOn
-----------------------------------------------------------------------------
(***************************************************************************)
(* The levels above the roots.                                             *)
(***************************************************************************)
Tree == DOMAIN EntriesOf
Names == EntryNames \cup RootNames

(* What a directory of the mount can show. *)
StoredEntry == UNION {EntriesOf[tree] : tree \in Tree}
RootEntry == [name : RootNames, kind : {"dir"}, tree : Tree]
MadeUpEntry == [name : RootNames, kind : {"synthetic"}, tree : {NoTree}]
ViewEntry == StoredEntry \cup RootEntry \cup MadeUpEntry

Levels == UNION {[D -> SUBSET ViewEntry] : D \in SUBSET Seq(Names)}

Pair == {p \in [root : PathRoot, form : {"dir", "leaf", "flatten"}] :
            p.form = "leaf" => EntriesOf[p.root.tree] # {}}

(* Directories have their trees, files their chunks. *)
LEMMA EntryFacts ==
    ASSUME NEW e \in ViewEntry
    PROVE  /\ e.kind = "dir" => e.tree \in Tree \cup {NoTree}
           /\ e.kind = "file" => e.tree \in DOMAIN ChunksOf
<1>1. CASE e \in StoredEntry
  BY <1>1, MountTrees DEF StoredEntry, Tree
<1>2. CASE e \in RootEntry
  <2>1. e.kind = "dir" /\ e.tree \in Tree
    BY <1>2 DEF RootEntry
  <2> QED
    BY <2>1
<1>3. CASE e \in MadeUpEntry
  <2>1. e.kind = "synthetic"
    BY <1>3 DEF MadeUpEntry
  <2> QED
    BY <2>1
<1> QED
  BY <1>1, <1>2, <1>3 DEF ViewEntry

(* What it is to be a map of levels. *)
LEMMA LevelsFacts ==
    /\ \A L \in Levels : /\ L = [k \in DOMAIN L |-> L[k]]
                         /\ DOMAIN L \in SUBSET Seq(Names)
                         /\ \A k \in DOMAIN L : L[k] \in SUBSET ViewEntry
    /\ \A D \in SUBSET Seq(Names) : \A L \in [D -> SUBSET ViewEntry] : L \in Levels
BY DEF Levels

(* An entry that is put at a level. *)
LEMMA PushTyped ==
    ASSUME NEW L \in Levels, NEW key \in Seq(Names), NEW es \in SUBSET ViewEntry
    PROVE  PushReal(L, key, es) \in Levels
<1> DEFINE value == {v \in LevelAt(L, key) : v.name \notin {e.name : e \in es}} \cup es
           D == DOMAIN L \cup {key}
<1>1. LevelAt(L, key) \in SUBSET ViewEntry
  BY LevelsFacts DEF LevelAt
<1>2. value \in SUBSET ViewEntry
  BY <1>1
<1>3. PushReal(L, key, es) = [k \in D |-> IF k = key THEN value ELSE L[k]]
  BY DEF PushReal, With
<1> HIDE DEF value
<1>4. D \in SUBSET Seq(Names)
  BY LevelsFacts
<1>5. \A k \in D : (IF k = key THEN value ELSE L[k]) \in SUBSET ViewEntry
  BY <1>2, LevelsFacts
<1>6. [k \in D |-> IF k = key THEN value ELSE L[k]] \in [D -> SUBSET ViewEntry]
  BY <1>5
<1> HIDE DEF D
<1> QED
  BY <1>3, <1>4, <1>6, LevelsFacts

(* The levels above a root. *)
LEMMA ParentsTyped ==
    ASSUME NEW L \in Levels, NEW path \in Seq(RootNames)
    PROVE  Parents(L, path) \in Levels
<1> DEFINE keys == {SubSeq(path, 1, k - 1) : k \in 1 .. Len(path) - 1}
           next(key) == path[Len(key) + 1]
           new(key) == LevelAt(L, key) \cup
                         IF key \in keys /\ \A v \in LevelAt(L, key) : v.name # next(key)
                         THEN {MadeUp(next(key))} ELSE {}
           D == DOMAIN L \cup keys
<1>1. \A key \in keys : key \in Seq(Names) /\ next(key) \in RootNames
  <2> SUFFICES ASSUME NEW k \in 1 .. Len(path) - 1
               PROVE  /\ SubSeq(path, 1, k - 1) \in Seq(Names)
                      /\ path[Len(SubSeq(path, 1, k - 1)) + 1] \in RootNames
    OBVIOUS
  <2> DEFINE m == k - 1
  <2>1. Len(path) \in Nat /\ k \in 1 .. Len(path) /\ m \in Nat /\ m <= Len(path) /\ m + 1 = k
    OBVIOUS
  <2> HIDE DEF m
  <2>2. SubSeq(path, 1, m) \in Seq(RootNames) /\ Len(SubSeq(path, 1, m)) = m
    BY <2>1
  <2>3. SubSeq(path, 1, m) \in Seq(Names)
    BY <2>2 DEF Names
  <2>4. path[m + 1] \in RootNames
    BY <2>1
  <2> QED
    BY <2>2, <2>3, <2>4 DEF m
<1>2. \A key \in keys : MadeUp(next(key)) \in ViewEntry
  <2>1. \A name \in RootNames : MadeUp(name) \in MadeUpEntry
    BY DEF MadeUp, MadeUpEntry
  <2> HIDE DEF keys, next
  <2> QED
    BY <1>1, <2>1 DEF ViewEntry
<1>3. Parents(L, path) = [key \in D |-> new(key)]
  BY DEF Parents
<1>4. D \in SUBSET Seq(Names)
  <2> HIDE DEF keys, next
  <2> QED
    BY <1>1, LevelsFacts
<1>5. \A key \in D : new(key) \in SUBSET ViewEntry
  <2>1. \A key : LevelAt(L, key) \in SUBSET ViewEntry
    BY LevelsFacts DEF LevelAt
  <2> HIDE DEF keys, next
  <2> QED
    BY <1>2, <2>1
<1> HIDE DEF D, new
<1>6. [key \in D |-> new(key)] \in [D -> SUBSET ViewEntry]
  BY <1>5
<1> QED
  BY <1>3, <1>4, <1>6, LevelsFacts

(* A root that is added. *)
LEMMA AddRootTyped ==
    ASSUME NEW L \in Levels, NEW pair \in Pair
    PROVE  AddRoot(L, pair) \in Levels
<1> DEFINE path == pair.root.path
           tree == pair.root.tree
<1>1. path \in Seq(RootNames) /\ tree \in Tree /\ (pair.form = "leaf" => EntriesOf[tree] # {})
  BY DEF Pair, PathRoot, Tree
<1>2. EntriesOf[tree] \in SUBSET ViewEntry
  BY <1>1 DEF ViewEntry, StoredEntry
<1>3. CASE path # <<>>
  <2>1. Len(path) \in Nat \ {0} /\ path[Len(path)] \in RootNames
    BY <1>1, <1>3
  <2>2. Front(path) \in Seq(Names)
    <3> DEFINE m == Len(path) - 1
    <3>1. m \in Nat /\ m <= Len(path)
      BY <2>1
    <3> HIDE DEF m
    <3>2. SubSeq(path, 1, m) \in Seq(RootNames)
      BY <1>1, <3>1
    <3>3. SubSeq(path, 1, m) \in Seq(Names)
      BY <3>2 DEF Names
    <3> QED
      BY <3>3 DEF Front, m
  <2>3. Leaf(pair) \in ViewEntry
    <3>1. CASE pair.form = "leaf"
      <4>1. Leaf(pair) \in EntriesOf[tree]
        BY <1>1, <3>1 DEF Leaf
      <4> QED
        BY <1>2, <4>1
    <3>2. CASE pair.form # "leaf"
      <4>1. Leaf(pair) = [name |-> path[Len(path)], kind |-> "dir", tree |-> tree]
        BY <3>2 DEF Leaf, Last
      <4>2. Leaf(pair) \in RootEntry
        BY <1>1, <2>1, <4>1 DEF RootEntry
      <4> QED
        BY <4>2 DEF ViewEntry
    <3> QED
      BY <3>1, <3>2
  <2>4. Parents(L, path) \in Levels
    BY <1>1, ParentsTyped
  <2>5. PushReal(Parents(L, path), Front(path), {Leaf(pair)}) \in Levels
    BY <2>2, <2>3, <2>4, PushTyped
  <2> QED
    BY <1>3, <2>5 DEF AddRoot
<1>4. CASE path = <<>>
  <2>1. TopLevel \in Seq(Names)
    BY DEF TopLevel
  <2>2. PushReal(L, TopLevel, EntriesOf[tree]) \in Levels
    BY <1>2, <2>1, PushTyped
  <2> QED
    BY <1>4, <2>2 DEF AddRoot
<1> QED
  BY <1>3, <1>4

(* VirtualRoot::build: root by root. *)
LEMMA BuildRuns ==
    ASSUME NEW pairs \in Seq(Pair)
    PROVE  \E f : /\ f \in [0 .. Len(pairs) -> Levels] /\ f[0] = NoLevels
                  /\ \A k \in 1 .. Len(pairs) : f[k] = AddRoot(f[k - 1], pairs[k])
                  /\ BuildLevels(pairs) = f[Len(pairs)]
<1> DEFINE n == Len(pairs)
           step == [x \in Levels \X (1 .. n) |-> AddRoot(x[1], pairs[x[2]])]
           Builds(f) == f = [k \in 0 .. Len(pairs) |-> IF k = 0 THEN NoLevels ELSE AddRoot(f[k - 1], pairs[k])]
<1>1. n \in Nat /\ \A k \in 1 .. n : pairs[k] \in Pair
  OBVIOUS
<1>2. NoLevels \in Levels
  <2>1. NoLevels \in [{} -> SUBSET ViewEntry]
    BY DEF NoLevels
  <2> QED
    BY <2>1, LevelsFacts
<1>3. step \in [Levels \X (1 .. n) -> Levels]
  <2> HIDE DEF n
  <2> QED
    BY <1>1, AddRootTyped
<1>4. PICK g : Recursion(g, Levels, n, NoLevels, step)
  <2> HIDE DEF n, step
  <2> QED
    BY <1>1, <1>2, <1>3, RecursionExists
<1>5. /\ g \in [0 .. n -> Levels]
      /\ \A i \in 0 .. n : g[i] = IF i = 0 THEN NoLevels ELSE step[<<g[i - 1], i>>]
  <2> HIDE DEF n, step
  <2> QED
    BY <1>4 DEF Recursion
<1>6. Builds(g)
  <2>1. \A i \in 0 .. n : g[i] = IF i = 0 THEN NoLevels ELSE AddRoot(g[i - 1], pairs[i])
    <3> SUFFICES ASSUME NEW i \in 0 .. n, i # 0 PROVE g[i] = AddRoot(g[i - 1], pairs[i])
      BY <1>5
    <3>1. i - 1 \in 0 .. n /\ i \in 1 .. n
      BY <1>1
    <3>2. <<g[i - 1], i>> \in Levels \X (1 .. n)
      BY <1>5, <3>1
    <3>3. step[<<g[i - 1], i>>] = AddRoot(g[i - 1], pairs[i])
      BY <3>2
    <3> HIDE DEF step, n
    <3> QED
      BY <1>5, <3>3
  <2> HIDE DEF step
  <2> QED
    BY <1>5, <2>1
<1> DEFINE f == CHOOSE f : Builds(f)
<1>7. Builds(f)
  <2> HIDE DEF Builds
  <2> QED
    BY <1>6, Zenon
<1>8. BuildLevels(pairs) = f[n]
  BY DEF BuildLevels
<1> HIDE DEF f
<1>9. \A k \in 0 .. n : f[k] = IF k = 0 THEN NoLevels ELSE AddRoot(f[k - 1], pairs[k])
  <2>1. f = [k \in 0 .. n |-> IF k = 0 THEN NoLevels ELSE AddRoot(f[k - 1], pairs[k])]
    BY <1>7
  <2> HIDE DEF n
  <2> QED
    BY <2>1
<1> DEFINE P == {k \in 0 .. n : f[k] \in Levels}
<1>10. 0 \in P
  BY <1>1, <1>2, <1>9
<1> HIDE DEF n
<1>11. ASSUME NEW k \in 0 .. n - 1, k \in P PROVE k + 1 \in P
  <2>1. k + 1 \in 0 .. n /\ k + 1 # 0 /\ (k + 1) - 1 = k /\ k + 1 \in 1 .. n
    BY <1>1
  <2>2. f[k + 1] = AddRoot(f[k], pairs[k + 1])
    BY <1>9, <2>1
  <2>3. f[k] \in Levels /\ pairs[k + 1] \in Pair
    BY <1>1, <1>11, <2>1
  <2>4. AddRoot(f[k], pairs[k + 1]) \in Levels
    BY <2>3, AddRootTyped
  <2> QED
    BY <2>1, <2>2, <2>4
<1>12. \A k \in 0 .. n : k \in P
  <2> HIDE DEF P
  <2> QED
    BY <1>1, <1>10, <1>11, UpTo
<1>13. f \in [0 .. n -> Levels]
  <2>1. f = [k \in 0 .. n |-> f[k]]
    BY <1>7 DEF n
  <2> QED
    BY <1>12, <2>1
<1>14. f[0] = NoLevels /\ \A k \in 1 .. n : f[k] = AddRoot(f[k - 1], pairs[k])
  BY <1>1, <1>9
<1> QED
  BY <1>8, <1>13, <1>14 DEF n

(* What it builds is a map of levels. *)
LEMMA BuildTyped ==
    ASSUME NEW pairs \in Seq(Pair)
    PROVE  BuildLevels(pairs) \in Levels
<1>1. PICK f : f \in [0 .. Len(pairs) -> Levels] /\ BuildLevels(pairs) = f[Len(pairs)]
  BY BuildRuns
<1> QED
  BY <1>1
-----------------------------------------------------------------------------
(***************************************************************************)
(* The cache of chunks.                                                    *)
(***************************************************************************)
(* A set of numbers has a least one. *)
LEMMA Least ==
    ASSUME NEW I \in SUBSET Nat, I # {}
    PROVE  \E i \in I : \A j \in I : i <= j
<1>1. PICK i \in I : \A j \in I : ~ (<<j, i>> \in OpToRel(<, Nat))
  <2>1. IsWellFoundedOn(OpToRel(<, Nat), Nat)
    BY NatLessThanWellFounded
  <2> QED
    BY <2>1, WFMin
<1>2. ASSUME NEW j \in I PROVE i <= j
  <2>1. i \in Nat /\ j \in Nat
    OBVIOUS
  <2>2. <<j, i>> \in Nat \X Nat
    BY <2>1
  <2>3. ~ (j < i)
    BY <1>1, <2>2 DEF OpToRel
  <2> QED
    BY <2>1, <2>3
<1> QED
  BY <1>2

(* No id is in the order of use twice. *)
Distinct(s) == \A i, j \in 1 .. Len(s) : s[i] = s[j] => i = j

(* Such an order has as many ids as places. *)
LEMMA DistinctCount ==
    ASSUME NEW T, NEW s \in Seq(T), Distinct(s)
    PROVE  Cardinality(ToSet(s)) = Len(s)
<1>1. Len(s) \in Nat /\ DOMAIN s = 1 .. Len(s)
  OBVIOUS
<1>2. s \in Bijection(1 .. Len(s), ToSet(s))
  <2>1. ToSet(s) = {s[i] : i \in 1 .. Len(s)}
    BY <1>1 DEF ToSet
  <2>2. s \in [1 .. Len(s) -> ToSet(s)]
    BY <1>1, <2>1
  <2> QED
    BY <2>1, <2>2 DEF Bijection, Injection, Surjection, IsInjective, Distinct
<1>3. ExistsBijection(1 .. Len(s), ToSet(s))
  BY <1>2 DEF ExistsBijection
<1> QED
  BY <1>1, <1>3, FS_CountingElements

(* Moving one to the front only changes the order. *)
LEMMA FrontFacts ==
    ASSUME NEW T, NEW s \in Seq(T), Distinct(s), NEW i \in 1 .. Len(s),
           NEW r, r = <<s[i]>> \o RemoveAt(s, i)
    PROVE  r \in Seq(T) /\ Len(r) = Len(s) /\ Distinct(r) /\ ToSet(r) = ToSet(s)
<1> DEFINE n == Len(s)
           u == SubSeq(s, 1, i - 1)
           v == SubSeq(s, i + 1, n)
           w == u \o v
           from(j) == IF j = 1 THEN i ELSE IF j <= i THEN j - 1 ELSE j
<1>1. n \in Nat /\ i \in 1 .. n /\ s \in [1 .. n -> T]
  OBVIOUS
<1>2. u \in Seq(T) /\ Len(u) = i - 1 /\ \A j \in 1 .. i - 1 : u[j] = s[j]
  OBVIOUS
<1>3. v \in Seq(T) /\ Len(v) = n - i /\ \A j \in 1 .. n - i : v[j] = s[i + j]
  <2> HIDE DEF n
  <2> QED
    BY <1>1, PartFacts
<1> HIDE DEF u, v
<1>4. w \in Seq(T) /\ Len(w) = n - 1
      /\ \A j \in 1 .. n - 1 : w[j] = IF j <= i - 1 THEN u[j] ELSE v[j - (i - 1)]
  <2> DEFINE a == Len(u)
             b == Len(v)
  <2>1. /\ w \in Seq(T) /\ Len(w) = a + b
        /\ \A j \in 1 .. a + b : w[j] = IF j <= a THEN u[j] ELSE v[j - a]
    BY <1>2, <1>3, ConcatFacts
  <2>2. a = i - 1 /\ a + b = n - 1
    BY <1>1, <1>2, <1>3
  <2> HIDE DEF a, b, w, n
  <2> QED
    BY <2>1, <2>2
<1>5. ASSUME NEW j \in 1 .. n - 1 PROVE w[j] = s[IF j <= i - 1 THEN j ELSE j + 1]
  <2> HIDE DEF w, n
  <2>1. CASE j <= i - 1
    <3>1. j \in 1 .. i - 1
      BY <1>1, <2>1
    <3> QED
      BY <1>2, <1>4, <2>1, <3>1
  <2>2. CASE ~(j <= i - 1)
    <3>1. j - (i - 1) \in 1 .. n - i /\ i + (j - (i - 1)) = j + 1
      BY <1>1, <2>2
    <3> QED
      BY <1>3, <1>4, <2>2, <3>1
  <2> QED
    BY <2>1, <2>2
<1>6. r = <<s[i]>> \o w
  BY DEF RemoveAt, u, v
<1> HIDE DEF w
<1>7. r \in Seq(T) /\ Len(r) = n /\ \A j \in 1 .. n : r[j] = IF j = 1 THEN s[i] ELSE w[j - 1]
  <2>1. <<s[i]>> \in Seq(T) /\ Len(<<s[i]>>) = 1 /\ <<s[i]>>[1] = s[i]
    BY <1>1
  <2> DEFINE x == <<s[i]>>
  <2> HIDE DEF x, n
  <2>2. /\ x \o w \in Seq(T) /\ Len(x \o w) = Len(x) + Len(w)
        /\ \A j \in 1 .. Len(x) + Len(w) : (x \o w)[j] = IF j <= Len(x) THEN x[j] ELSE w[j - Len(x)]
    <3>1. x \in Seq(T)
      BY <2>1 DEF x
    <3> QED
      BY <1>4, <3>1, ConcatFacts
  <2>3. Len(x) = 1 /\ x[1] = s[i] /\ r = x \o w /\ Len(x) + Len(w) = n
    BY <1>1, <1>4, <1>6, <2>1 DEF x
  <2>4. /\ r \in Seq(T) /\ Len(r) = n
        /\ \A j \in 1 .. n : r[j] = IF j <= 1 THEN x[j] ELSE w[j - 1]
    BY <2>2, <2>3
  <2>5. \A j \in 1 .. n : j <= 1 <=> j = 1
    BY <1>1
  <2> QED
    BY <2>3, <2>4, <2>5
<1>8. \A j \in 1 .. n : from(j) \in 1 .. n /\ r[j] = s[from(j)]
  <2> SUFFICES ASSUME NEW j \in 1 .. n PROVE from(j) \in 1 .. n /\ r[j] = s[from(j)]
    OBVIOUS
  <2> HIDE DEF n
  <2>1. CASE j = 1
    BY <1>1, <1>7, <2>1
  <2>2. CASE j # 1
    <3>1. j - 1 \in 1 .. n - 1 /\ (j - 1) + 1 = j /\ (j - 1 <= i - 1 <=> j <= i)
      BY <1>1, <2>2
    <3>2. w[j - 1] = s[IF j - 1 <= i - 1 THEN j - 1 ELSE (j - 1) + 1]
      BY <1>5, <3>1
    <3> QED
      BY <1>1, <1>7, <2>2, <3>1, <3>2
  <2> QED
    BY <2>1, <2>2
<1>9. \A j, k \in 1 .. n : from(j) = from(k) => j = k
  <2> HIDE DEF n
  <2> QED
    BY <1>1
<1>10. \A k \in 1 .. n : \E j \in 1 .. n : from(j) = k
  <2> SUFFICES ASSUME NEW k \in 1 .. n PROVE \E j \in 1 .. n : from(j) = k
    OBVIOUS
  <2> HIDE DEF n
  <2>1. CASE k = i
    <3>1. 1 \in 1 .. n /\ from(1) = i
      BY <1>1
    <3> QED
      BY <2>1, <3>1
  <2>2. CASE k < i
    <3>1. k + 1 \in 1 .. n /\ from(k + 1) = k
      BY <1>1, <2>2
    <3> QED
      BY <3>1
  <2>3. CASE k > i
    <3>1. from(k) = k
      BY <1>1, <2>3
    <3> QED
      BY <3>1
  <2> QED
    BY <1>1, <2>1, <2>2, <2>3
<1> HIDE DEF from
<1>11. Distinct(r)
  <2>1. \A j, k \in 1 .. n : s[j] = s[k] => j = k
    BY DEF Distinct, n
  <2> HIDE DEF n
  <2>2. ASSUME NEW j \in 1 .. n, NEW k \in 1 .. n, r[j] = r[k] PROVE j = k
    <3>1. s[from(j)] = s[from(k)] /\ from(j) \in 1 .. n /\ from(k) \in 1 .. n
      BY <1>8, <2>2
    <3>2. from(j) = from(k)
      BY <2>1, <3>1
    <3> QED
      BY <1>9, <3>2
  <2>3. Len(r) = n
    BY <1>7
  <2> QED
    BY <2>2, <2>3 DEF Distinct
<1>12. ToSet(r) = ToSet(s)
  <2>1. Len(r) = n /\ Len(s) = n /\ r \in Seq(T) /\ s \in Seq(T)
    BY <1>7 DEF n
  <2> HIDE DEF n
  <2>2. DOMAIN r = 1 .. n /\ DOMAIN s = 1 .. n
    BY <2>1
  <2>3. ToSet(r) = {r[j] : j \in 1 .. n} /\ ToSet(s) = {s[j] : j \in 1 .. n}
    BY <2>2 DEF ToSet
  <2>4. ASSUME NEW j \in 1 .. n PROVE r[j] \in ToSet(s)
    BY <1>8, <2>3
  <2>5. ASSUME NEW k \in 1 .. n PROVE s[k] \in ToSet(r)
    <3>1. PICK j \in 1 .. n : from(j) = k
      BY <1>10
    <3>2. r[j] = s[k]
      BY <1>8, <3>1
    <3> QED
      BY <2>3, <3>2
  <2> QED
    BY <2>3, <2>4, <2>5
<1> QED
  BY <1>7, <1>11, <1>12 DEF n

(* What the cache is: no more than its capacity, and the map and the order *)
(* in step.                                                                *)
CacheRight(cache) ==
    /\ cache = [order |-> cache.order, held |-> cache.held]
    /\ cache.order \in Seq(Chunk) /\ Distinct(cache.order)
    /\ Len(cache.order) <= CacheCap
    /\ cache.held = ToSet(cache.order)

(* Lru::touch *)
LEMMA UsedRight ==
    ASSUME CacheRight(lru), NEW id \in lru.held
    PROVE  CacheRight(Used(id))
<1> DEFINE s == lru.order
           r == ToFront(id)
           At(k) == s[k] = id
<1>1. s \in Seq(Chunk) /\ Distinct(s) /\ Len(s) <= CacheCap /\ lru.held = ToSet(s) /\ Len(s) \in Nat
  BY DEF CacheRight
<1>2. \E i \in 1 .. Len(s) : s[i] = id
  BY <1>1 DEF ToSet
<1> DEFINE I == {i \in 1 .. Len(s) : s[i] = id}
<1>3. \E i \in 1 .. Len(s) : s[i] = id /\ r = <<id>> \o RemoveAt(s, i)
  <2>1. r = <<id>> \o RemoveAt(s, SelectInSeq(s, LAMBDA v : v = id))
    BY <1>2 DEF ToFront, RemoveFirst
  <2>2. SelectInSeq(s, LAMBDA v : v = id) \in I
    <3>1. PICK i \in I : \A j \in I : i <= j
      <4>1. I \in SUBSET Nat /\ I # {}
        BY <1>1, <1>2
      <4> HIDE DEF I
      <4> QED
        BY <4>1, Least
    <3> QED
      BY <3>1 DEF SelectInSeq, Min
  <2> QED
    BY <2>1, <2>2
<1>4. PICK i \in 1 .. Len(s) : s[i] = id /\ r = <<s[i]>> \o RemoveAt(s, i)
  BY <1>3
<1> HIDE DEF s, r
<1>5. r \in Seq(Chunk) /\ Len(r) = Len(s) /\ Distinct(r) /\ ToSet(r) = ToSet(s)
  BY <1>1, <1>4, FrontFacts
<1>6. Used(id) = [order |-> r, held |-> lru.held]
  BY DEF Used, r, CacheRight
<1> QED
  BY <1>1, <1>5, <1>6 DEF CacheRight
(* The first elements of a sequence. *)
LEMMA FirstFacts ==
    ASSUME NEW T, NEW s \in Seq(T), NEW c \in Nat, c <= Len(s)
    PROVE  SubSeq(s, 1, c) \in Seq(T) /\ Len(SubSeq(s, 1, c)) = c /\ \A j \in 1 .. c : SubSeq(s, 1, c)[j] = s[j]
OBVIOUS

(* All elements of a sequence. *)
LEMMA WholeFacts ==
    ASSUME NEW T, NEW s \in Seq(T)
    PROVE  SubSeq(s, 1, Len(s)) = s
OBVIOUS

(* The last element of a sequence. *)
LEMMA LastFacts ==
    ASSUME NEW T, NEW s \in Seq(T), NEW c \in Nat, Len(s) = c + 1
    PROVE  /\ SubSeq(s, c + 1, Len(s)) = <<s[c + 1]>>
           /\ ToSet(<<s[c + 1]>>) = {s[c + 1]}
<1> DEFINE d == c + 1
           u == SubSeq(s, c + 1, d)
<1>1. u = <<s[c + 1]>>
  <2>1. d \in Nat /\ c <= d /\ d <= Len(s) /\ d - c = 1
    OBVIOUS
  <2> HIDE DEF d
  <2>2. u \in Seq(T) /\ Len(u) = 1 /\ u[1] = s[c + 1]
    <3>1. /\ u \in Seq(T) /\ Len(u) = d - c
          /\ \A j \in 1 .. d - c : u[j] = s[c + j]
      BY <2>1, PartFacts
    <3> HIDE DEF u
    <3>2. 1 \in 1 .. d - c
      BY <2>1
    <3> QED
      BY <2>1, <3>1, <3>2
  <2> HIDE DEF u
  <2> QED
    BY <2>2
<1>2. \A x : ToSet(<<x>>) = {x}
  BY DEF ToSet
<1> QED
  BY <1>1, <1>2

(* No element after the last one. *)
LEMMA NoneFacts ==
    ASSUME NEW T, NEW s \in Seq(T), NEW c \in Nat, Len(s) <= c
    PROVE  ToSet(SubSeq(s, c + 1, Len(s))) = {}
<1>1. SubSeq(s, c + 1, Len(s)) = <<>>
  OBVIOUS
<1>2. ToSet(<<>>) = {}
  BY DEF ToSet
<1> QED
  BY <1>1, <1>2

(* What stays of an order of use when a chunk is put before it, and what not. *)
Stays(s, id) == LET order == <<id>> \o s IN SubSeq(order, 1, Lesser(CacheCap, Len(order)))
Falls(s, id) == LET order == <<id>> \o s IN SubSeq(order, CacheCap + 1, Len(order))

(* Lru::put, for a chunk that is not there. *)
LEMMA PutFacts ==
    ASSUME NEW s \in Seq(Chunk), Distinct(s), Len(s) <= CacheCap, NEW id \in Chunk, id \notin ToSet(s)
    PROVE  /\ Stays(s, id) \in Seq(Chunk) /\ Distinct(Stays(s, id)) /\ Len(Stays(s, id)) <= CacheCap
           /\ ToSet(Stays(s, id)) = (ToSet(s) \cup {id}) \ ToSet(Falls(s, id))
<1> DEFINE n == Len(s)
           c == CacheCap
           order == <<id>> \o s
           stay == SubSeq(order, 1, Lesser(c, Len(order)))
           gone == SubSeq(order, c + 1, Len(order))
<1>0. Stays(s, id) = stay /\ Falls(s, id) = gone
  BY DEF Stays, Falls
<1>1. n \in Nat /\ c \in Nat \ {0} /\ n <= c /\ s \in [1 .. n -> Chunk]
  BY MountConstants
<1>2. DOMAIN s = 1 .. n /\ ToSet(s) = {s[j] : j \in 1 .. n}
  BY DEF ToSet
<1>3. \A j, k \in 1 .. n : s[j] = s[k] => j = k
  BY DEF Distinct
<1> DEFINE x == <<id>>
<1>4. x \in Seq(Chunk) /\ Len(x) = 1 /\ x[1] = id
  OBVIOUS
<1>5. order \in Seq(Chunk) /\ Len(order) = n + 1 /\ order[1] = id /\ \A j \in 1 .. n : order[j + 1] = s[j]
  <2>1. x \o s = order
    BY DEF order
  <2> HIDE DEF x
  <2>2. /\ x \o s \in Seq(Chunk) /\ Len(x \o s) = Len(x) + Len(s)
        /\ \A j \in 1 .. Len(x) + Len(s) : (x \o s)[j] = IF j <= Len(x) THEN x[j] ELSE s[j - Len(x)]
    BY <1>4, ConcatFacts
  <2>3. Len(x) + Len(s) = n + 1 /\ Len(x) = 1
    BY <1>1, <1>4
  <2>4. /\ order \in Seq(Chunk) /\ Len(order) = n + 1
        /\ \A j \in 1 .. n + 1 : order[j] = IF j <= 1 THEN x[j] ELSE s[j - 1]
    BY <2>1, <2>2, <2>3
  <2> HIDE DEF n
  <2>5. 1 \in 1 .. n + 1 /\ \A j \in 1 .. n : j + 1 \in 1 .. n + 1 /\ ~(j + 1 <= 1) /\ (j + 1) - 1 = j
    BY <1>1
  <2> QED
    BY <1>4, <2>4, <2>5
<1> HIDE DEF n, c, order, stay, gone
<1>6. \A j \in 1 .. n + 1 : j = 1 \/ \E k \in 1 .. n : j = k + 1
  <2> SUFFICES ASSUME NEW j \in 1 .. n + 1, j # 1 PROVE \E k \in 1 .. n : j = k + 1
    OBVIOUS
  <2>1. j - 1 \in 1 .. n /\ j = (j - 1) + 1
    BY <1>1
  <2> QED
    BY <2>1
<1>7. DOMAIN order = 1 .. n + 1 /\ ToSet(order) = {order[j] : j \in 1 .. n + 1}
  <2>1. DOMAIN order = 1 .. n + 1
    BY <1>5
  <2> QED
    BY <2>1 DEF ToSet
<1>8. ToSet(order) = ToSet(s) \cup {id}
  <2>1. ASSUME NEW j \in 1 .. n + 1 PROVE order[j] \in ToSet(s) \cup {id}
    BY <1>2, <1>5, <1>6
  <2>2. id \in ToSet(order)
    <3>1. 1 \in 1 .. n + 1
      BY <1>1
    <3> QED
      BY <1>5, <1>7, <3>1
  <2>3. ASSUME NEW j \in 1 .. n PROVE s[j] \in ToSet(order)
    <3>1. j + 1 \in 1 .. n + 1
      BY <1>1
    <3> QED
      BY <1>5, <1>7, <3>1
  <2> QED
    BY <1>2, <1>7, <2>1, <2>2, <2>3
<1>9. ASSUME NEW j \in 1 .. n + 1, NEW k \in 1 .. n + 1, order[j] = order[k] PROVE j = k
  <2>1. \A i \in 1 .. n : s[i] # id
    BY <1>2
  <2> QED
    BY <1>3, <1>5, <1>6, <1>9, <2>1
<1> DEFINE Good == /\ stay \in Seq(Chunk) /\ Distinct(stay) /\ Len(stay) <= c
                   /\ ToSet(stay) = (ToSet(s) \cup {id}) \ ToSet(gone)
<1>10. ASSUME n + 1 <= c PROVE Good
  <2>1. Lesser(c, Len(order)) = n + 1
    BY <1>1, <1>5, <1>10 DEF Lesser
  <2>2. stay = order
    <3>1. stay = SubSeq(order, 1, Len(order))
      BY <1>5, <2>1 DEF stay
    <3> QED
      BY <1>5, <3>1, WholeFacts
  <2>4. ToSet(gone) = {}
    <3>1. Len(order) <= c
      BY <1>1, <1>5, <1>10
    <3> QED
      BY <1>1, <1>5, <3>1, NoneFacts DEF gone
  <2> QED
    BY <1>5, <1>8, <1>9, <1>10, <2>2, <2>4 DEF Distinct
<1>11. ASSUME ~(n + 1 <= c) PROVE Good
  <2>1. n = c
    BY <1>1, <1>11
  <2>2. Lesser(c, Len(order)) = c
    BY <1>1, <1>5, <2>1 DEF Lesser
  <2>3. stay \in Seq(Chunk) /\ Len(stay) = c /\ \A j \in 1 .. c : stay[j] = order[j]
    <3>1. stay = SubSeq(order, 1, c) /\ c \in Nat /\ c <= Len(order)
      BY <1>1, <1>5, <2>1, <2>2 DEF stay
    <3>2. /\ SubSeq(order, 1, c) \in Seq(Chunk) /\ Len(SubSeq(order, 1, c)) = c
          /\ \A j \in 1 .. c : SubSeq(order, 1, c)[j] = order[j]
      BY <1>5, <3>1, FirstFacts
    <3> QED
      BY <3>1, <3>2
  <2>5. ToSet(gone) = {order[c + 1]}
    <3>1. Len(order) = c + 1
      BY <1>1, <1>5, <2>1
    <3> QED
      BY <1>1, <1>5, <3>1, LastFacts DEF gone
  <2>6. ToSet(stay) = {order[j] : j \in 1 .. c}
    <3>1. DOMAIN stay = 1 .. c
      BY <1>1, <2>3
    <3>2. ToSet(stay) = {stay[j] : j \in 1 .. c}
      BY <3>1 DEF ToSet
    <3>3. \A j \in 1 .. c : stay[j] = order[j]
      BY <2>3
    <3> QED
      BY <3>2, <3>3
  <2>7. 1 .. n + 1 = 1 .. c \cup {c + 1} /\ c + 1 \notin 1 .. c /\ 1 .. c \subseteq 1 .. n + 1
        /\ c + 1 \in 1 .. n + 1
    BY <1>1, <2>1
  <2>8. \A j \in 1 .. c : order[j] # order[c + 1]
    BY <1>9, <2>7
  <2>9. ToSet(stay) = ToSet(order) \ ToSet(gone)
    <3>1. ToSet(order) = {order[j] : j \in 1 .. c} \cup {order[c + 1]}
      BY <1>7, <2>7
    <3> QED
      BY <2>5, <2>6, <2>8, <3>1
  <2>10. Distinct(stay)
    <3>1. ASSUME NEW j \in 1 .. c, NEW k \in 1 .. c, stay[j] = stay[k] PROVE j = k
      <4>1. order[j] = order[k] /\ j \in 1 .. n + 1 /\ k \in 1 .. n + 1
        BY <2>3, <2>7, <3>1
      <4> QED
        BY <1>9, <4>1
    <3> QED
      BY <2>3, <3>1 DEF Distinct
  <2>11. Len(stay) <= c
    BY <1>1, <2>3
  <2> QED
    BY <1>8, <2>3, <2>9, <2>10, <2>11
<1> QED
  BY <1>0, <1>10, <1>11 DEF c

(* Lru::put *)
LEMMA PutRight ==
    ASSUME CacheRight(lru), NEW id \in Chunk
    PROVE  CacheRight(PutChunk(id))
<1>1. CASE id \in lru.held
  BY <1>1, UsedRight DEF PutChunk
<1>2. CASE id \notin lru.held
  <2> DEFINE s == lru.order
             held == (ToSet(s) \cup {id}) \ ToSet(Falls(s, id))
  <2>1. s \in Seq(Chunk) /\ Distinct(s) /\ Len(s) <= CacheCap /\ lru.held = ToSet(s) /\ id \notin ToSet(s)
    BY <1>2 DEF CacheRight
  <2>2. PutChunk(id) = [order |-> Stays(s, id), held |-> held]
    BY <1>2, <2>1 DEF PutChunk, Stays, Falls
  <2> HIDE DEF s
  <2>3. /\ Stays(s, id) \in Seq(Chunk) /\ Distinct(Stays(s, id)) /\ Len(Stays(s, id)) <= CacheCap
        /\ ToSet(Stays(s, id)) = held
    BY <2>1, PutFacts
  <2> HIDE DEF held
  <2> QED
    BY <2>2, <2>3 DEF CacheRight
<1> QED
  BY <1>1, <1>2

-----------------------------------------------------------------------------
(***************************************************************************)
(* The numbers, and the calls.                                             *)
(***************************************************************************)
Kinds == {"root", "client", "synthetic", "dir"} \cup {e.kind : e \in ViewEntry}
Targets == Tree \cup {NoTree} \cup {e.tree : e \in ViewEntry}

(* What is behind a number. *)
Node == {node \in [is : Kinds, tree : Targets, levels : Levels, level : Seq(Names)] :
            /\ node.is = "dir" => node.tree \in Tree \cup {NoTree}
            /\ node.is = "file" => node.tree \in DOMAIN ChunksOf}

Phases == {"idle", "list", "snapshot", "roots", "tree", "resolve", "chunk", "fetch", "done", "short"}
CallNames == Names \cup {NoName, MountClient} \cup DOMAIN RootsOf

CallRecord ==
    [at : Phases, ino : Nat, name : CallNames, tree : Tree \cup {NoTree}, pairs : Seq(Pair), doubtful : BOOLEAN,
     span : [offset : Nat, size : Nat], pos : Nat, end : Nat, buf : Seq(Byte)]

(* The chunks of the file behind a number. *)
ChunksAt(is, ino) == ChunksOf[is[ino].tree]

(* Where a read ends. *)
EndOf(chunks, span) == Lesser(Total(chunks), span.offset + span.size)

(* What a read has put together at a position. *)
ReadSoFar(chunks, span, pos) == SubSeq(ContentOf(chunks), span.offset + 1, pos)

(* What a call is at, in every phase: a name or a tree that there is; a     *)
(* file, and all of its bytes from the offset of the read to the position. *)
CallRight(is, c) ==
    /\ c.at # "short"
    /\ c.at \in {"snapshot", "roots"} => c.name \in DOMAIN RootsOf
    /\ c.at = "tree" => c.tree \in Tree
    /\ c.at \in {"resolve", "chunk", "fetch", "done"} => c.ino \in DOMAIN is /\ is[c.ino].is = "file"
    /\ c.at = "resolve" => c.buf = <<>>
    /\ c.at \in {"chunk", "fetch"} =>
          /\ c.span.offset <= c.pos /\ c.pos < c.end
          /\ c.end = EndOf(ChunksAt(is, c.ino), c.span)
          /\ c.buf = ReadSoFar(ChunksAt(is, c.ino), c.span, c.pos)
    /\ c.at = "done" =>
          c.buf = ReadSoFar(ChunksAt(is, c.ino), c.span, EndOf(ChunksAt(is, c.ino), c.span))

(* The inductive invariant. *)
MountRight ==
    /\ inodes \in Seq(Node)
    /\ calls \in [Thread -> CallRecord]
    /\ \A t \in Thread : CallRight(inodes, calls[t])
    /\ CacheRight(lru)

(* What a lookup can put behind a number. *)
LEMMA PlainTyped ==
    /\ \A is \in Kinds \ {"dir", "file"} : \A tree \in Targets : Plain(is, tree) \in Node
    /\ \A tree \in Tree \cup {NoTree} : Plain("dir", tree) \in Node
    /\ \A e \in ViewEntry : Plain(e.kind, e.tree) \in Node
    /\ \A levels \in Levels, level \in Seq(Names) : Synthetic(levels, level) \in Node
<1>1. NoLevels \in Levels /\ TopLevel \in Seq(Names)
  <2>1. NoLevels \in [{} -> SUBSET ViewEntry]
    BY DEF NoLevels
  <2>2. NoLevels \in Levels
    BY <2>1, LevelsFacts
  <2>3. TopLevel \in Seq(Names)
    BY DEF TopLevel
  <2> QED
    BY <2>2, <2>3
<1>2. \A is \in Kinds, tree \in Targets :
         /\ is = "dir" => tree \in Tree \cup {NoTree}
         /\ is = "file" => tree \in DOMAIN ChunksOf
         => Plain(is, tree) \in Node
  BY <1>1 DEF Plain, NodeOf, Node
<1>3. \A levels \in Levels, level \in Seq(Names) : Synthetic(levels, level) \in Node
  BY DEF Synthetic, NodeOf, Node, Kinds, Targets
<1>4. \A e \in ViewEntry : e.kind \in Kinds /\ e.tree \in Targets
  BY DEF Kinds, Targets
<1>5. \A tree \in Tree \cup {NoTree} : tree \in Targets
  BY DEF Targets
<1>6. "dir" \in Kinds
  BY DEF Kinds
<1> QED
  BY <1>2, <1>3, <1>4, <1>5, <1>6, EntryFacts

(* A call that begins, and one that is over. *)
LEMMA NoCallTyped ==
    NoCall \in CallRecord /\ \A is : CallRight(is, NoCall)
<1>1. NoSpan \in [offset : Nat, size : Nat]
  BY DEF NoSpan
<1>2. <<>> \in Seq(Pair) /\ <<>> \in Seq(Byte)
  OBVIOUS
<1> QED
  BY <1>1, <1>2 DEF NoCall, CallRecord, CallRight, Phases, CallNames

(* What a number stands for stays when there are more. *)
LEMMA GrowKeeps ==
    ASSUME NEW is \in Seq(Node), NEW node \in Node, NEW c, CallRight(is, c)
    PROVE  CallRight(Append(is, node), c)
<1>1. /\ DOMAIN is \subseteq DOMAIN Append(is, node)
      /\ \A i \in DOMAIN is : Append(is, node)[i] = is[i]
  OBVIOUS
<1> DEFINE more == Append(is, node)
<1> HIDE DEF more
<1>2. DOMAIN is \subseteq DOMAIN more /\ \A i \in DOMAIN is : more[i] = is[i]
  BY <1>1 DEF more
<1>3. CallRight(more, c)
  BY <1>2 DEF CallRight, ChunksAt
<1> QED
  BY <1>3 DEF more

CallOk(c) == c \in CallRecord /\ CallRight(inodes, c)

(* What a step may change. *)
NumbersGrow == inodes' = inodes \/ \E node \in Node : inodes' = Append(inodes, node)
CallGoes == calls' = calls \/ \E t \in Thread : \E c : CallOk(c) /\ calls' = [calls EXCEPT ![t] = c]
CacheTurns == lru' = lru \/ (\E id \in lru.held : lru' = Used(id)) \/ (\E id \in Chunk : lru' = PutChunk(id))
Effects == NumbersGrow /\ CallGoes /\ CacheTurns

(* insert_named *)
LEMMA InsertGrows ==
    ASSUME NEW parent, NEW name, NEW node \in Node, InsertNamed(parent, name, node)
    PROVE  NumbersGrow
BY DEF InsertNamed, Insert, NumbersGrow

(* A question of a lookup. *)
LEMMA AsksOk ==
    ASSUME NEW ino \in Nat, NEW name \in CallNames, NEW phase \in {"list", "snapshot", "tree"},
           NEW tree \in Tree \cup {NoTree},
           phase = "snapshot" => name \in DOMAIN RootsOf,
           phase = "tree" => tree \in Tree
    PROVE  CallOk(Asks(ino, name, phase, tree))
<1> DEFINE c == Asks(ino, name, phase, tree)
<1>1. c = [NoCall EXCEPT !.at = phase, !.ino = ino, !.name = name, !.tree = tree]
  BY DEF Asks
<1>2. NoCall \in CallRecord /\ phase \in Phases
  BY NoCallTyped DEF Phases
<1> HIDE DEF c
<1>4. c \in CallRecord
  BY <1>1, <1>2 DEF CallRecord
<1>5. c.at = phase /\ c.ino = ino /\ c.name = name /\ c.tree = tree
  BY <1>1, <1>2 DEF CallRecord
<1>6. CallRight(inodes, c)
  BY <1>5 DEF CallRight
<1> QED
  BY <1>4, <1>6 DEF CallOk, c

(* lookup in the top directory, and below a client *)
LEMMA LookupEffects ==
    ASSUME MountRight, NEW t \in Thread, NEW ino \in DOMAIN inodes
    PROVE  /\ LookupClient(t, ino, MountClient) => Effects
           /\ \A ts \in DOMAIN RootsOf : LookupSnapshot(t, ino, ts) => Effects
<1>1. ino \in Nat
  BY DEF MountRight
<1>2. CallOk(Asks(ino, MountClient, "list", NoTree))
  BY <1>1, AsksOk DEF CallNames
<1>3. \A ts \in DOMAIN RootsOf : CallOk(Asks(ino, ts, "snapshot", NoTree))
  BY <1>1, AsksOk DEF CallNames
<1>4. ASSUME LookupClient(t, ino, MountClient) PROVE Effects
  BY <1>2, <1>4 DEF LookupClient, Begin, Effects, NumbersGrow, CallGoes, CacheTurns
<1>5. ASSUME NEW ts \in DOMAIN RootsOf, LookupSnapshot(t, ino, ts) PROVE Effects
  BY <1>3, <1>5 DEF LookupSnapshot, Begin, Effects, NumbersGrow, CallGoes, CacheTurns
<1> QED
  BY <1>4, <1>5

(* real_inode *)
LEMMA RealInodeEffects ==
    ASSUME MountRight, NEW t \in Thread, NEW ino \in DOMAIN inodes, NEW e \in ViewEntry, e.name \in Names,
           RealInode(t, ino, e)
    PROVE  NumbersGrow /\ CallGoes
<1>1. ino \in Nat
  BY DEF MountRight
<1>2. CASE e.kind = "dir" /\ e.tree # NoTree
  <2>1. e.tree \in Tree /\ e.name \in CallNames
    BY <1>2, EntryFacts DEF CallNames
  <2>2. CallOk(Asks(ino, e.name, "tree", e.tree))
    BY <1>1, <2>1, AsksOk
  <2> QED
    BY <1>2, <2>2 DEF RealInode, NumbersGrow, CallGoes
<1>3. CASE ~(e.kind = "dir" /\ e.tree # NoTree)
  <2>1. Plain(e.kind, e.tree) \in Node
    BY PlainTyped
  <2>2. CASE Known(ino, e.name)
    BY <2>2 DEF RealInode, NumbersGrow, CallGoes
  <2>3. CASE InsertNamed(ino, e.name, Plain(e.kind, e.tree)) /\ UNCHANGED calls
    BY <2>1, <2>3, InsertGrows DEF CallGoes
  <2> QED
    BY <1>3, <2>2, <2>3 DEF RealInode
<1> QED
  BY <1>2, <1>3

(* lookup in a directory, of the file system or made up *)
LEMMA LookupNameEffects ==
    ASSUME MountRight, NEW t \in Thread, NEW ino \in DOMAIN inodes, NEW name \in Names
    PROVE  /\ LookupLevel(t, ino, name) => Effects
           /\ LookupEntry(t, ino, name) => Effects
<1> DEFINE node == inodes[ino]
<1>1. node \in Node
  BY DEF MountRight
<1>2. node.levels \in Levels /\ node.level \in Seq(Names)
      /\ (node.is = "dir" => node.tree \in Tree \cup {NoTree})
  BY <1>1 DEF Node
<1>3. ASSUME LookupLevel(t, ino, name) PROVE Effects
  <2>1. PICK v \in LevelAt(node.levels, node.level) :
          /\ v.name = name
          /\ IF v.kind = "synthetic"
             THEN /\ InsertNamed(ino, name, Synthetic(node.levels, Append(node.level, name)))
                  /\ UNCHANGED calls
             ELSE RealInode(t, ino, v)
    BY <1>3 DEF LookupLevel
  <2>2. v \in ViewEntry
    BY <1>2, LevelsFacts DEF LevelAt
  <2>3. UNCHANGED lru
    BY <1>3 DEF LookupLevel
  <2>4. CASE v.kind = "synthetic"
    <3>1. Append(node.level, name) \in Seq(Names)
      BY <1>2
    <3>2. Synthetic(node.levels, Append(node.level, name)) \in Node
      BY <1>2, <3>1, PlainTyped
    <3>3. NumbersGrow
      BY <2>1, <2>4, <3>2, InsertGrows
    <3>4. UNCHANGED calls
      BY <2>1, <2>4
    <3> QED
      BY <2>3, <3>3, <3>4 DEF Effects, CallGoes, CacheTurns
  <2>5. CASE v.kind # "synthetic"
    <3>1. RealInode(t, ino, v) /\ v.name \in Names
      BY <2>1, <2>5
    <3> QED
      BY <2>2, <2>3, <3>1, RealInodeEffects DEF Effects, CacheTurns
  <2> QED
    BY <2>4, <2>5
<1>4. ASSUME LookupEntry(t, ino, name) PROVE Effects
  <2>1. PICK e \in EntriesOf[node.tree] : e.name = name /\ RealInode(t, ino, e)
    BY <1>4 DEF LookupEntry
  <2>2. node.tree \in Tree /\ UNCHANGED lru
    BY <1>2, <1>4 DEF LookupEntry
  <2>3. e \in ViewEntry /\ e.name \in Names
    BY <2>1, <2>2 DEF ViewEntry, StoredEntry
  <2> QED
    BY <2>1, <2>2, <2>3, RealInodeEffects DEF Effects, CacheTurns
<1> QED
  BY <1>3, <1>4

(* A call that changes, and one that ends. *)
LEMMA CallChanges ==
    ASSUME MountRight, NEW t \in Thread
    PROVE  /\ Ends(t) => CallGoes
           /\ \A c : Goes(t, c) /\ CallOk(c) => CallGoes
           /\ \A c : Begin(t, c) /\ CallOk(c) => CallGoes
           /\ CallOk(calls[t])
BY NoCallTyped DEF Ends, Goes, Begin, CallGoes, CallOk, MountRight

(* What has a failure, or an answer, for an end. *)
LEMMA EndEffects ==
    ASSUME MountRight, NEW t \in Thread
    PROVE  /\ Fails(t) => Effects
           /\ ReadReturns(t) => Effects
BY CallChanges DEF Fails, ReadReturns, Effects, NumbersGrow, CacheTurns

(* The clients are listed. *)
LEMMA ListEffects ==
    ASSUME MountRight, NEW t \in Thread, ListClients(t)
    PROVE  Effects
<1>1. CallGoes /\ UNCHANGED lru
  BY CallChanges DEF ListClients
<1>2. Plain("client", NoTree) \in Node
  <2>1. "client" \in Kinds \ {"dir", "file"} /\ NoTree \in Targets
    BY DEF Kinds, Targets
  <2> QED
    BY <2>1, PlainTyped
<1>3. NumbersGrow
  <2>1. InsertNamed(calls[t].ino, calls[t].name, Plain("client", NoTree)) \/ UNCHANGED inodes
    BY DEF ListClients
  <2> QED
    BY <1>2, <2>1, InsertGrows DEF NumbersGrow
<1> QED
  BY <1>1, <1>3 DEF Effects, CacheTurns

(* The snapshot is read. *)
LEMMA ReadSnapshotEffects ==
    ASSUME MountRight, NEW t \in Thread, ReadSnapshot(t)
    PROVE  Effects
<1> DEFINE c == calls[t]
           d == [c EXCEPT !.at = "roots"]
<1>1. CallOk(c) /\ c.at = "snapshot" /\ c \in CallRecord
  BY CallChanges DEF ReadSnapshot, CallOk
<1>2. Goes(t, d) \/ Goes(t, NoCall)
  BY DEF ReadSnapshot
<1> HIDE DEF c
<1>3. d \in CallRecord /\ d.at = "roots" /\ d.name = c.name
  BY <1>1 DEF CallRecord, Phases
<1>4. CallOk(d)
  <2> HIDE DEF d
  <2> QED
    BY <1>1, <1>3 DEF CallOk, CallRight
<1>5. CallGoes
  BY <1>2, <1>4, CallChanges DEF Ends
<1> QED
  BY <1>5 DEF ReadSnapshot, Effects, NumbersGrow, CacheTurns

(* What a root is. *)
LEMMA FormTyped ==
    ASSUME NEW root \in PathRoot, NEW form \in {FormOf(root), "dir"}
    PROVE  [root |-> root, form |-> form] \in Pair
<1>1. form \in {"dir", "leaf", "flatten"}
  BY DEF FormOf
<1>2. form = "leaf" => EntriesOf[root.tree] # {}
  <2> SUFFICES ASSUME form = "leaf" PROVE EntriesOf[root.tree] # {}
    OBVIOUS
  <2>1. FormOf(root) = "leaf"
    OBVIOUS
  <2>2. Cardinality(EntriesOf[root.tree]) = 1
    BY <2>1 DEF FormOf
  <2>3. Cardinality({}) = 0
    BY FS_EmptySet
  <2> QED
    BY <2>2, <2>3
<1> QED
  BY <1>1, <1>2 DEF Pair

(* The next root of the snapshot is read, or cannot be. *)
LEMMA ReadRootEffects ==
    ASSUME MountRight, NEW t \in Thread, ReadRoot(t)
    PROVE  Effects
<1> DEFINE c == calls[t]
           root == NextRoot(t)
<1>1. CallOk(c) /\ c.at = "roots" /\ c \in CallRecord /\ c.name \in DOMAIN RootsOf /\ RootsLeft(t)
  BY CallChanges DEF ReadRoot, CallOk, CallRight
<1>2. root \in PathRoot
  <2>1. RootsOf[c.name] \in Seq(PathRoot)
    BY <1>1, MountTrees
  <2>2. Len(c.pairs) \in Nat /\ Len(c.pairs) < Len(RootsOf[c.name])
    BY <1>1 DEF RootsLeft, CallRecord
  <2> DEFINE n == Len(c.pairs)
             s == RootsOf[c.name]
  <2>3. root = s[n + 1]
    BY DEF NextRoot
  <2> HIDE DEF n, s, root
  <2>4. n \in Nat /\ n < Len(s) /\ s \in Seq(PathRoot)
    BY <2>1, <2>2 DEF n, s
  <2> QED
    BY <2>3, <2>4
<1>3. \E form \in {FormOf(root), "dir"}, doubt \in BOOLEAN : Goes(t, WithRoot(c, root, form, doubt))
  BY DEF ReadRoot
<1>4. PICK form \in {FormOf(root), "dir"}, doubt \in BOOLEAN : Goes(t, WithRoot(c, root, form, doubt))
  BY <1>3
<1> HIDE DEF root, c
<1>5. [root |-> root, form |-> form] \in Pair
  BY <1>2, FormTyped
<1> DEFINE d == WithRoot(c, root, form, doubt)
<1>6. d \in CallRecord /\ d.at = "roots" /\ d.name = c.name
  <2> DEFINE ps == Append(c.pairs, [root |-> root, form |-> form])
             doubtful == c.doubtful \/ doubt
  <2>1. ps \in Seq(Pair)
    BY <1>1, <1>5 DEF CallRecord
  <2>2. doubtful \in BOOLEAN
    OBVIOUS
  <2>3. d = [c EXCEPT !.pairs = ps, !.doubtful = doubtful]
    BY DEF WithRoot
  <2> HIDE DEF d, ps, doubtful
  <2> QED
    BY <1>1, <2>1, <2>2, <2>3 DEF CallRecord
<1>7. CallOk(d)
  <2> HIDE DEF d
  <2> QED
    BY <1>1, <1>6 DEF CallOk, CallRight
<1>8. CallGoes
  <2> HIDE DEF CallOk
  <2> QED
    BY <1>4, <1>7, CallChanges
<1> QED
  BY <1>8 DEF ReadRoot, Effects, NumbersGrow, CacheTurns

(* The view of the snapshot gets its number. *)
LEMMA ShowEffects ==
    ASSUME MountRight, NEW t \in Thread, ShowSnapshot(t)
    PROVE  Effects
<1> DEFINE top == Synthetic(BuildLevels(calls[t].pairs), TopLevel)
<1>1. calls[t].pairs \in Seq(Pair)
  BY CallChanges DEF CallOk, CallRecord
<1>2. top \in Node
  <2>1. BuildLevels(calls[t].pairs) \in Levels
    BY <1>1, BuildTyped
  <2>2. TopLevel \in Seq(Names)
    BY DEF TopLevel
  <2> QED
    BY <2>1, <2>2, PlainTyped
<1>3. Insert(top) \/ InsertNamed(calls[t].ino, calls[t].name, top)
  BY DEF ShowSnapshot, RememberIfSure
<1> HIDE DEF top
<1>4. NumbersGrow
  BY <1>2, <1>3, InsertGrows DEF Insert, NumbersGrow
<1> QED
  BY <1>4, CallChanges DEF ShowSnapshot, Effects, CacheTurns

(* The tree of a directory is read. *)
LEMMA ReadTreeEffects ==
    ASSUME MountRight, NEW t \in Thread, ReadTree(t)
    PROVE  Effects
<1>1. calls[t].tree \in Tree
  BY CallChanges DEF ReadTree, CallOk, CallRight
<1>2. Plain("dir", calls[t].tree) \in Node
  BY <1>1, PlainTyped
<1>3. InsertNamed(calls[t].ino, calls[t].name, Plain("dir", calls[t].tree)) /\ Ends(t) /\ UNCHANGED lru
  BY DEF ReadTree
<1>4. NumbersGrow
  BY <1>2, <1>3, InsertGrows
<1> QED
  BY <1>3, <1>4, CallChanges DEF Effects, CacheTurns

(* No part of a sequence. *)
LEMMA NothingFacts ==
    ASSUME NEW T, NEW s \in Seq(T), NEW k \in Nat, NEW m \in Nat, m < k
    PROVE  SubSeq(s, k, m) = <<>>
OBVIOUS

(* A call that reads: its file and what it has read. *)
LEMMA ReaderFacts ==
    ASSUME MountRight, NEW c, CallOk(c), c.at \in {"resolve", "chunk", "fetch", "done"}
    PROVE  /\ ChunksAt(inodes, c.ino) \in Seq(Chunk)
           /\ Total(ChunksAt(inodes, c.ino)) \in Nat
           /\ EndOf(ChunksAt(inodes, c.ino), c.span) \in Nat
           /\ EndOf(ChunksAt(inodes, c.ino), c.span) <= Total(ChunksAt(inodes, c.ino))
           /\ c.span.offset \in Nat /\ c.span.size \in Nat /\ c.pos \in Nat /\ c.end \in Nat
<1> DEFINE chunks == ChunksAt(inodes, c.ino)
<1>1. c.ino \in DOMAIN inodes /\ inodes[c.ino].is = "file"
  BY DEF CallOk, CallRight
<1>2. inodes[c.ino] \in Node
  BY <1>1 DEF MountRight
<1>3. chunks \in Seq(Chunk)
  BY <1>1, <1>2, MountTrees DEF Node, ChunksAt, Chunk
<1> HIDE DEF chunks
<1>4. Total(chunks) \in Nat
  <2>1. Len(chunks) \in Nat /\ EndsOf(chunks) \in [0 .. Len(chunks) -> Nat]
    BY <1>3, EndsFacts
  <2> QED
    BY <2>1 DEF Total
<1>5. c.span \in [offset : Nat, size : Nat] /\ c.pos \in Nat /\ c.end \in Nat
  BY DEF CallOk, CallRecord
<1>6. c.span.offset \in Nat /\ c.span.size \in Nat
  BY <1>5
<1>7. EndOf(chunks, c.span) \in Nat /\ EndOf(chunks, c.span) <= Total(chunks)
  BY <1>4, <1>6 DEF EndOf, Lesser
<1> QED
  BY <1>3, <1>4, <1>5, <1>6, <1>7 DEF chunks

(* A read begins. *)
LEMMA ReadFileEffects ==
    ASSUME MountRight, NEW t \in Thread, NEW ino \in DOMAIN inodes, NEW span \in ReadSpans,
           ReadFile(t, ino, span)
    PROVE  Effects
<1> DEFINE c == [NoCall EXCEPT !.at = "resolve", !.ino = ino, !.span = span]
<1>1. Begin(t, c) /\ inodes[ino].is = "file"
  BY DEF ReadFile
<1>2. NoCall \in CallRecord /\ NoCall.buf = <<>>
  BY NoCallTyped DEF NoCall
<1>3. ino \in Nat /\ span \in [offset : Nat, size : Nat]
  BY MountConstants DEF MountRight
<1>4. c \in CallRecord /\ c.at = "resolve" /\ c.ino = ino /\ c.buf = <<>>
  BY <1>2, <1>3 DEF CallRecord, Phases
<1>5. CallOk(c)
  <2> HIDE DEF c
  <2> QED
    BY <1>1, <1>4 DEF CallOk, CallRight
<1>6. CallGoes
  <2> HIDE DEF c
  <2> QED
    BY <1>1, <1>5, CallChanges
<1> QED
  BY <1>6 DEF ReadFile, Effects, NumbersGrow, CacheTurns

(* The chunks of the file are known: where it is read, or that there is    *)
(* nothing to read.                                                        *)
LEMMA ResolveEffects ==
    ASSUME MountRight, NEW t \in Thread, ResolveFile(t)
    PROVE  Effects
<1> DEFINE c == calls[t]
           chunks == ChunksAt(inodes, c.ino)
           end == EndOf(chunks, c.span)
           d == [c EXCEPT !.at = IF c.span.offset >= end THEN "done" ELSE "chunk",
                          !.pos = c.span.offset, !.end = end]
<1>1. CallOk(c) /\ c \in CallRecord /\ c.at = "resolve"
  BY CallChanges DEF ResolveFile, CallOk
<1>2. Goes(t, d)
  BY DEF ResolveFile, FileChunks, ChunksAt, EndOf
<1> HIDE DEF c
<1>3. chunks \in Seq(Chunk) /\ Total(chunks) \in Nat /\ end \in Nat /\ end <= Total(chunks)
      /\ c.span.offset \in Nat
  BY <1>1, ReaderFacts
<1>4. c.buf = <<>> /\ c.ino \in DOMAIN inodes /\ inodes[c.ino].is = "file"
  BY <1>1 DEF CallOk, CallRight
<1>5. ContentOf(chunks) \in Seq(Byte)
  BY <1>3, ContentFacts
<1>6. \A m \in Nat : m <= c.span.offset => ReadSoFar(chunks, c.span, m) = <<>>
  <2> SUFFICES ASSUME NEW m \in Nat, m <= c.span.offset
               PROVE  ReadSoFar(chunks, c.span, m) = <<>>
    OBVIOUS
  <2> DEFINE k == c.span.offset + 1
             s == ContentOf(chunks)
  <2>1. k \in Nat /\ m < k
    BY <1>3
  <2>2. s \in Seq(Byte)
    BY <1>5
  <2> HIDE DEF k, s
  <2>3. SubSeq(s, k, m) = <<>>
    BY <2>1, <2>2, NothingFacts
  <2> QED
    BY <2>3 DEF ReadSoFar, k, s
<1> DEFINE phase == IF c.span.offset >= end THEN "done" ELSE "chunk"
<1>7. d = [c EXCEPT !.at = phase, !.pos = c.span.offset, !.end = end]
  OBVIOUS
<1>8. phase \in Phases
  BY DEF Phases
<1> HIDE DEF d, end
<1>9. d \in CallRecord /\ d.at = phase /\ d.pos = c.span.offset /\ d.end = end
      /\ d.buf = c.buf /\ d.ino = c.ino /\ d.span = c.span
  <2> HIDE DEF phase, chunks
  <2> QED
    BY <1>1, <1>3, <1>7, <1>8 DEF CallRecord
<1>10. d.end = EndOf(ChunksAt(inodes, d.ino), d.span)
  BY <1>9 DEF end
<1>11. CASE c.span.offset >= end
  <2>1. d.at = "done"
    BY <1>9, <1>11
  <2>2. d.buf = ReadSoFar(ChunksAt(inodes, d.ino), d.span, EndOf(ChunksAt(inodes, d.ino), d.span))
    <3>1. ReadSoFar(chunks, c.span, end) = <<>>
      BY <1>3, <1>6, <1>11
    <3> QED
      BY <1>4, <1>9, <3>1 DEF end
  <2>3. CallOk(d)
    BY <1>4, <1>9, <2>1, <2>2 DEF CallOk, CallRight
  <2> QED
    BY <1>2, <2>3, CallChanges DEF ResolveFile, Effects, NumbersGrow, CacheTurns
<1>12. CASE ~(c.span.offset >= end)
  <2>1. d.at = "chunk" /\ d.span.offset <= d.pos /\ d.pos < d.end
    BY <1>3, <1>9, <1>12
  <2>2. d.buf = ReadSoFar(ChunksAt(inodes, d.ino), d.span, d.pos)
    BY <1>3, <1>4, <1>6, <1>9
  <2>3. CallOk(d)
    BY <1>4, <1>9, <1>10, <2>1, <2>2 DEF CallOk, CallRight
  <2> QED
    BY <1>2, <2>3, CallChanges DEF ResolveFile, Effects, NumbersGrow, CacheTurns
<1> QED
  BY <1>11, <1>12

(* One round of the loop: what the call is afterwards. *)
LEMMA CopiedOk ==
    ASSUME MountRight, NEW t \in Thread, calls[t].at \in {"chunk", "fetch"}
    PROVE  CallOk(Copied(t)) /\ ChunkHere(t) \in Chunk
<1> DEFINE c == calls[t]
           chunks == ChunksAt(inodes, c.ino)
           start == c.span.offset
           take == Taken(chunks, c.pos, c.end)
           buf == c.buf \o Piece(chunks, c.pos, c.end)
           pos == c.pos + take
           phase == IF take = 0 THEN "short" ELSE IF c.pos + take < c.end THEN "chunk" ELSE "done"
           d == [c EXCEPT !.buf = buf, !.pos = pos, !.at = phase]
<1>1. CallOk(c) /\ c \in CallRecord /\ c.at \in {"chunk", "fetch"}
  BY CallChanges DEF CallOk
<1>2. Copied(t) = d
  BY DEF Copied, Taken, Skipped, Piece, ChunkHere, Here, FileChunks, ChunksAt
<1>3. ChunkHere(t) = chunks[Locate(chunks, c.pos)]
  BY DEF ChunkHere, Here, FileChunks, ChunksAt
<1> HIDE DEF c, d, start
<1>4. /\ chunks \in Seq(Chunk) /\ Total(chunks) \in Nat
      /\ start \in Nat /\ c.pos \in Nat /\ c.end \in Nat
      /\ EndOf(chunks, c.span) <= Total(chunks)
  BY <1>1, ReaderFacts DEF start
<1>5. /\ start <= c.pos /\ c.pos < c.end /\ c.end = EndOf(chunks, c.span)
      /\ c.buf = ReadSoFar(chunks, c.span, c.pos)
      /\ c.ino \in DOMAIN inodes /\ inodes[c.ino].is = "file"
  BY <1>1 DEF CallOk, CallRight, start
<1> HIDE DEF chunks
<1>6. c.end <= Total(chunks)
  BY <1>4, <1>5
<1>7. /\ take \in Nat \ {0} /\ pos <= c.end
      /\ SubSeq(ContentOf(chunks), start + 1, c.pos) \o Piece(chunks, c.pos, c.end)
           = SubSeq(ContentOf(chunks), start + 1, pos)
  <2> DEFINE p == c.pos
             e == c.end
  <2>1. /\ chunks \in Seq(Chunk) /\ start \in Nat /\ p \in Nat /\ e \in Nat
        /\ start <= p /\ p < e /\ e <= Total(chunks)
    BY <1>4, <1>5, <1>6
  <2> HIDE DEF p, e
  <2>2. GoesOn(chunks, start, p, e)
    BY <2>1, CopyFacts
  <2> QED
    BY <2>2 DEF p, e, GoesOn
<1> HIDE DEF take
<1>8. pos \in Nat /\ start <= pos /\ pos <= Total(chunks)
  <2>1. take \in Nat /\ pos <= c.end
    BY <1>7
  <2>2. c.pos \in Nat /\ c.end \in Nat /\ start \in Nat /\ Total(chunks) \in Nat
        /\ start <= c.pos /\ c.end <= Total(chunks)
    BY <1>4, <1>5, <1>6
  <2>3. pos = c.pos + take
    OBVIOUS
  <2>4. pos \in Nat /\ c.pos <= pos
    BY <2>1, <2>2, <2>3
  <2> HIDE DEF pos
  <2> QED
    BY <2>1, <2>2, <2>4
<1>9. buf = ReadSoFar(chunks, c.span, pos)
  BY <1>5, <1>7 DEF ReadSoFar, start
<1> HIDE DEF buf, pos
<1>10. buf \in Seq(Byte)
  <2>1. ContentOf(chunks) \in Seq(Byte) /\ Len(ContentOf(chunks)) = Total(chunks)
    BY <1>4, ContentFacts
  <2> DEFINE s == ContentOf(chunks)
  <2>2. s \in Seq(Byte) /\ pos <= Len(s)
    BY <1>8, <2>1
  <2> HIDE DEF s
  <2>3. SubSeq(s, start + 1, pos) \in Seq(Byte)
    BY <1>4, <1>8, <2>2, PartFacts
  <2> QED
    BY <1>9, <2>3 DEF ReadSoFar, s, start
<1>11. phase = IF pos < c.end THEN "chunk" ELSE "done"
  BY <1>7 DEF pos
<1>12. phase \in Phases
  BY <1>11 DEF Phases
<1> HIDE DEF phase
<1>13. /\ d \in CallRecord /\ d.at = phase /\ d.pos = pos /\ d.buf = buf
       /\ d.end = c.end /\ d.ino = c.ino /\ d.span = c.span
  <2>1. d = [c EXCEPT !.buf = buf, !.pos = pos, !.at = phase]
    BY DEF d
  <2> QED
    BY <1>1, <1>8, <1>10, <1>12, <2>1 DEF CallRecord
<1>14. chunks = ChunksAt(inodes, d.ino)
  BY <1>13 DEF chunks
<1>15. ASSUME pos < c.end PROVE CallOk(d)
  <2>1. d.at = "chunk"
    BY <1>11, <1>13, <1>15
  <2>2. d.span.offset <= d.pos /\ d.pos < d.end /\ d.end = EndOf(chunks, d.span)
        /\ d.buf = ReadSoFar(chunks, d.span, d.pos)
    BY <1>5, <1>8, <1>9, <1>13, <1>15 DEF start
  <2> QED
    BY <1>5, <1>13, <1>14, <2>1, <2>2 DEF CallOk, CallRight
<1>16. ASSUME ~(pos < c.end) PROVE CallOk(d)
  <2>1. d.at = "done"
    BY <1>11, <1>13, <1>16
  <2>2. pos = EndOf(chunks, c.span)
    BY <1>4, <1>5, <1>7, <1>8, <1>16
  <2>3. d.buf = ReadSoFar(chunks, d.span, EndOf(chunks, d.span))
    BY <1>9, <1>13, <2>2
  <2> QED
    BY <1>5, <1>13, <1>14, <2>1, <2>3 DEF CallOk, CallRight
<1>17. ChunkHere(t) \in Chunk
  <2>1. c.pos < Total(chunks)
    BY <1>4, <1>5, <1>6
  <2>2. Locate(chunks, c.pos) \in 1 .. Len(chunks)
    BY <1>4, <2>1, LocateFacts
  <2> DEFINE k == Locate(chunks, c.pos)
  <2> HIDE DEF k
  <2>3. chunks[k] \in Chunk
    BY <1>4, <2>2 DEF k
  <2> QED
    BY <1>3, <2>3 DEF k, chunks
<1>18. CallOk(d)
  BY <1>15, <1>16
<1> QED
  BY <1>2, <1>17, <1>18

(* A round of the loop, with a chunk from the cache or one that is fetched. *)
LEMMA ChunkEffects ==
    ASSUME MountRight, NEW t \in Thread
    PROVE  /\ ChunkCached(t) => Effects
           /\ FetchChunk(t) => Effects
           /\ ChunkMissing(t) => Effects
<1>1. ASSUME ChunkCached(t) PROVE Effects
  <2>1. CallGoes
    BY <1>1, CopiedOk, CallChanges DEF ChunkCached
  <2>2. CacheTurns
    BY <1>1 DEF ChunkCached, CacheTurns
  <2> QED
    BY <1>1, <2>1, <2>2 DEF ChunkCached, Effects, NumbersGrow
<1>2. ASSUME FetchChunk(t) PROVE Effects
  <2>1. CallGoes
    BY <1>2, CopiedOk, CallChanges DEF FetchChunk
  <2>2. CacheTurns
    BY <1>2, CopiedOk DEF FetchChunk, CacheTurns
  <2> QED
    BY <1>2, <2>1, <2>2 DEF FetchChunk, Effects, NumbersGrow
<1>3. ASSUME ChunkMissing(t) PROVE Effects
  <2> DEFINE c == calls[t]
             d == [c EXCEPT !.at = "fetch"]
  <2>1. CallOk(c) /\ c \in CallRecord /\ c.at = "chunk" /\ Goes(t, d)
    BY <1>3, CallChanges DEF ChunkMissing, CallOk
  <2> HIDE DEF c
  <2>2. /\ d \in CallRecord /\ d.at = "fetch" /\ d.pos = c.pos /\ d.buf = c.buf
        /\ d.end = c.end /\ d.ino = c.ino /\ d.span = c.span
    BY <2>1 DEF CallRecord, Phases
  <2> HIDE DEF d
  <2>3. CallOk(d)
    BY <2>1, <2>2 DEF CallOk, CallRight
  <2>4. CallGoes
    BY <2>1, <2>3, CallChanges
  <2> QED
    BY <1>3, <2>4 DEF ChunkMissing, Effects, NumbersGrow, CacheTurns
<1> QED
  BY <1>1, <1>2, <1>3

(* What any step may change. *)
LEMMA StepEffects ==
    ASSUME MountRight, [MountNext]_mountVars
    PROVE  Effects
<1>1. CASE UNCHANGED mountVars
  BY <1>1 DEF mountVars, Effects, NumbersGrow, CallGoes, CacheTurns
<1>2. ASSUME NEW ts \in kept, ForgetSnapshot(ts) PROVE Effects
  BY <1>2 DEF ForgetSnapshot, Effects, NumbersGrow, CallGoes, CacheTurns
<1>3. ASSUME NEW t \in Thread, NEW ino \in DOMAIN inodes,
             \/ LookupClient(t, ino, MountClient)
             \/ \E ts \in DOMAIN RootsOf : LookupSnapshot(t, ino, ts)
             \/ \E n \in EntryNames \cup RootNames : LookupLevel(t, ino, n) \/ LookupEntry(t, ino, n)
             \/ \E span \in ReadSpans : ReadFile(t, ino, span)
      PROVE  Effects
  BY <1>3, LookupEffects, LookupNameEffects, ReadFileEffects DEF Names
<1>4. ASSUME NEW t \in Thread,
             \/ ListClients(t) \/ ReadSnapshot(t) \/ ReadRoot(t) \/ ShowSnapshot(t) \/ ReadTree(t)
             \/ ResolveFile(t) \/ ChunkCached(t) \/ ChunkMissing(t) \/ FetchChunk(t) \/ ReadReturns(t)
             \/ Fails(t)
      PROVE  Effects
  BY <1>4, ListEffects, ReadSnapshotEffects, ReadRootEffects, ShowEffects, ReadTreeEffects,
     ResolveEffects, ChunkEffects, EndEffects
<1> QED
  BY <1>1, <1>2, <1>3, <1>4 DEF MountNext

(* The invariant holds in the beginning. *)
LEMMA MountStarts ==
    ASSUME MountInit
    PROVE  MountRight
<1>1. Plain("root", NoTree) \in Node
  <2>1. "root" \in Kinds \ {"dir", "file"} /\ NoTree \in Targets
    BY DEF Kinds, Targets
  <2> QED
    BY <2>1, PlainTyped
<1>2. inodes \in Seq(Node)
  BY <1>1 DEF MountInit
<1>3. calls \in [Thread -> CallRecord] /\ \A t \in Thread : CallRight(inodes, calls[t])
  BY NoCallTyped DEF MountInit
<1>4. CacheRight(lru)
  <2>1. ToSet(<<>>) = {} /\ Len(<<>>) = 0 /\ <<>> \in Seq(Chunk)
    BY DEF ToSet
  <2>2. Distinct(<<>>)
    BY DEF Distinct
  <2>3. lru = [order |-> <<>>, held |-> {}]
    BY DEF MountInit
  <2>4. 0 <= CacheCap
    BY MountConstants
  <2> QED
    BY <2>1, <2>2, <2>3, <2>4 DEF CacheRight
<1> QED
  BY <1>2, <1>3, <1>4 DEF MountRight

(* No step breaks it. *)
LEMMA MountStays ==
    ASSUME MountRight, [MountNext]_mountVars
    PROVE  MountRight'
<1>1. Effects
  BY StepEffects
<1>2. inodes' \in Seq(Node)
  BY <1>1 DEF Effects, NumbersGrow, MountRight
<1>3. \A c : CallRight(inodes, c) => CallRight(inodes', c)
  <2>1. inodes \in Seq(Node)
    BY DEF MountRight
  <2> QED
    BY <1>1, <2>1, GrowKeeps DEF Effects, NumbersGrow
<1>4. /\ calls' \in [Thread -> CallRecord]
      /\ \A t \in Thread : CallRight(inodes, calls'[t])
  BY <1>1 DEF Effects, CallGoes, CallOk, MountRight
<1>5. CacheRight(lru')
  BY <1>1, UsedRight, PutRight DEF Effects, CacheTurns, MountRight
<1>6. \A t \in Thread : CallRight(inodes', calls'[t])
  BY <1>3, <1>4
<1>7. CacheRight(lru)' <=> CacheRight(lru')
  BY DEF CacheRight
<1> QED
  BY <1>2, <1>4, <1>5, <1>6 DEF MountRight, CacheRight, CallRight, ChunksAt

-----------------------------------------------------------------------------
(* In every state of a session the numbers stand for nodes of snapshots,    *)
(* the calls have found out what is so, and a read in progress has the      *)
(* bytes of its file from its offset up to where it is (read_file's loop),  *)
(* while the cache is in step with its order (Lru).                         *)
THEOREM MountInvariance == MountSpec => []MountRight
<1>1. MountInit => MountRight
  BY MountStarts
<1>2. MountRight /\ [MountNext]_mountVars => MountRight'
  BY MountStays
<1> QED
  BY <1>1, <1>2, PTL DEF MountSpec

(* read_file, for files of any chunks, reads of any offset and size and any *)
(* capacity: what is returned are the bytes of the file from the offset on, *)
(* as many as were asked for or as there are; a read is never short of a    *)
(* chunk; and the cache keeps within its capacity.                          *)
THEOREM ReadsExact == MountSpec => []ReadExact
<1>1. MountRight => ReadExact
  <2> SUFFICES ASSUME MountRight PROVE ReadExact
    OBVIOUS
  <2>1. Len(lru.order) <= CacheCap /\ lru.held = ToSet(lru.order) /\ Cardinality(lru.held) = Len(lru.order)
    BY DistinctCount DEF MountRight, CacheRight
  <2>2. ASSUME NEW t \in Thread, calls[t].at = "done"
        PROVE  calls[t].buf = SubSeq(ContentOf(FileChunks(t)), calls[t].span.offset + 1,
                                     Lesser(calls[t].span.offset + calls[t].span.size,
                                            Len(ContentOf(FileChunks(t)))))
    <3> DEFINE c == calls[t]
               chunks == ChunksAt(inodes, c.ino)
    <3>1. CallOk(c)
      BY DEF MountRight, CallOk
    <3>2. FileChunks(t) = chunks
      BY DEF FileChunks, ChunksAt
    <3>3. c.at = "done"
      BY <2>2
    <3> HIDE DEF c
    <3>4. /\ chunks \in Seq(Chunk) /\ Total(chunks) \in Nat
          /\ c.span.offset \in Nat /\ c.span.size \in Nat
          /\ c.buf = ReadSoFar(chunks, c.span, EndOf(chunks, c.span))
      BY <3>1, <3>3, ReaderFacts DEF CallOk, CallRight
    <3> HIDE DEF chunks
    <3>5. Len(ContentOf(chunks)) = Total(chunks)
      BY <3>4, ContentFacts
    <3>6. EndOf(chunks, c.span) = Lesser(c.span.offset + c.span.size, Len(ContentOf(chunks)))
      BY <3>4, <3>5 DEF EndOf, Lesser
    <3>7. c.buf = SubSeq(ContentOf(chunks), c.span.offset + 1,
                         Lesser(c.span.offset + c.span.size, Len(ContentOf(chunks))))
      BY <3>4, <3>6 DEF ReadSoFar
    <3> QED
      BY <3>2, <3>7 DEF c
  <2>3. \A t \in Thread : calls[t].at # "short"
    BY DEF MountRight, CallRight
  <2> QED
    BY <2>1, <2>2, <2>3 DEF ReadExact, ContentOf
<1> QED
  BY <1>1, MountInvariance, PTL

-----------------------------------------------------------------------------
(***************************************************************************)
(* Names and their numbers.                                                *)
(***************************************************************************)
(* What was answered for a name is the number that is remembered for it,   *)
(* and it is the number of a node.                                         *)
AnswersRight ==
    /\ \A k \in DOMAIN numbered : numbered[k] \in DOMAIN inodes
    /\ \A g \in answered : <<g[1], g[2]>> \in DOMAIN numbered /\ g[3] = numbered[<<g[1], g[2]>>]

(* A step remembers nothing new, or answers for one name. *)
Recalls ==
    \/ UNCHANGED <<numbered, answered>>
    \/ \E parent, name : Known(parent, name) /\ Answers(parent, name, numbered[<<parent, name>>])
                            /\ UNCHANGED numbered
    \/ \E parent, name :
          /\ ~Known(parent, name)
          /\ numbered' = With(numbered, <<parent, name>>, Len(inodes) + 1)
          /\ Answers(parent, name, Len(inodes) + 1)
          /\ Len(inodes') = Len(inodes) + 1

(* insert_named *)
LEMMA InsertRecalls ==
    ASSUME MountRight, NEW parent, NEW name, NEW node, InsertNamed(parent, name, node)
    PROVE  Recalls
<1>1. inodes \in Seq(Node)
  BY DEF MountRight
<1>2. Len(Append(inodes, node)) = Len(inodes) + 1
  BY <1>1
<1> QED
  BY <1>2 DEF InsertNamed, Insert, Recalls

(* real_inode *)
LEMMA RealInodeRecalls ==
    ASSUME MountRight, NEW t, NEW ino, NEW e, RealInode(t, ino, e)
    PROVE  Recalls
BY InsertRecalls DEF RealInode, Recalls

(* Every step. *)
LEMMA StepRecalls ==
    ASSUME MountRight, [MountNext]_mountVars
    PROVE  Recalls
<1>1. CASE UNCHANGED mountVars
  BY <1>1 DEF mountVars, Recalls
<1>2. ASSUME NEW ts \in kept, ForgetSnapshot(ts) PROVE Recalls
  BY <1>2 DEF ForgetSnapshot, Recalls
<1>3. ASSUME NEW t \in Thread, NEW ino \in DOMAIN inodes, LookupClient(t, ino, MountClient) PROVE Recalls
  BY <1>3 DEF LookupClient, Recalls
<1>4. ASSUME NEW t \in Thread, NEW ino \in DOMAIN inodes, NEW ts, LookupSnapshot(t, ino, ts) PROVE Recalls
  BY <1>4 DEF LookupSnapshot, Recalls
<1>5. ASSUME NEW t \in Thread, NEW ino \in DOMAIN inodes, NEW name, LookupLevel(t, ino, name) PROVE Recalls
  BY <1>5, InsertRecalls, RealInodeRecalls DEF LookupLevel
<1>6. ASSUME NEW t \in Thread, NEW ino \in DOMAIN inodes, NEW name, LookupEntry(t, ino, name) PROVE Recalls
  BY <1>6, RealInodeRecalls DEF LookupEntry
<1>7. ASSUME NEW t \in Thread, NEW ino \in DOMAIN inodes, NEW span, ReadFile(t, ino, span) PROVE Recalls
  BY <1>7 DEF ReadFile, Recalls
<1>8. ASSUME NEW t \in Thread, ListClients(t) PROVE Recalls
  BY <1>8, InsertRecalls DEF ListClients, Recalls
<1>9. ASSUME NEW t \in Thread, ShowSnapshot(t) PROVE Recalls
  BY <1>9, InsertRecalls DEF ShowSnapshot, RememberIfSure, Recalls
<1>10. ASSUME NEW t \in Thread, ReadTree(t) PROVE Recalls
  BY <1>10, InsertRecalls DEF ReadTree
<1>11. ASSUME NEW t \in Thread,
              \/ ReadSnapshot(t) \/ ReadRoot(t) \/ ResolveFile(t) \/ ChunkCached(t) \/ ChunkMissing(t)
              \/ FetchChunk(t) \/ ReadReturns(t) \/ Fails(t)
       PROVE  Recalls
  BY <1>11 DEF ReadSnapshot, ReadRoot, ResolveFile, ChunkCached, ChunkMissing, FetchChunk, ReadReturns,
     Fails, Recalls
<1> QED
  BY <1>1, <1>2, <1>3, <1>4, <1>5, <1>6, <1>7, <1>8, <1>9, <1>10, <1>11 DEF MountNext

(* No step takes a number from a name, or a node from a number. *)
NumbersKept ==
    /\ \A k \in DOMAIN numbered : k \in DOMAIN numbered' /\ numbered'[k] = numbered[k]
    /\ \A i \in DOMAIN inodes : i \in DOMAIN inodes' /\ inodes'[i] = inodes[i]

(* What one step keeps. *)
LEMMA StepKeeps ==
    ASSUME MountRight, AnswersRight, [MountNext]_mountVars
    PROVE  NumbersKept /\ AnswersRight'
<1>1. Recalls
  BY StepRecalls
<1>2. NumbersGrow
  BY StepEffects DEF Effects
<1>3. inodes \in Seq(Node) /\ Len(inodes) \in Nat /\ DOMAIN inodes = 1 .. Len(inodes)
  BY DEF MountRight
<1>4. \A i \in DOMAIN inodes : i \in DOMAIN inodes' /\ inodes'[i] = inodes[i]
  BY <1>2, <1>3 DEF NumbersGrow
<1>5. \A k \in DOMAIN numbered : k \in DOMAIN numbered' /\ numbered'[k] = numbered[k]
  BY <1>1 DEF Recalls, With, Known
<1>6. \A k \in DOMAIN numbered' : numbered'[k] \in DOMAIN inodes'
  <2>1. CASE numbered' = numbered
    BY <1>4, <2>1 DEF AnswersRight
  <2>2. ASSUME NEW key, numbered' = With(numbered, key, Len(inodes) + 1), Len(inodes') = Len(inodes) + 1
        PROVE  \A k \in DOMAIN numbered' : numbered'[k] \in DOMAIN inodes'
    <3>1. Len(inodes) + 1 \in DOMAIN inodes'
      <4>1. inodes' \in Seq(Node)
        BY <1>2, <1>3 DEF NumbersGrow
      <4> QED
        BY <1>3, <2>2, <4>1
    <3>2. \A k \in DOMAIN numbered' : numbered'[k] = IF k = key THEN Len(inodes) + 1 ELSE numbered[k]
      BY <2>2 DEF With
    <3>3. \A k \in DOMAIN numbered' : k = key \/ k \in DOMAIN numbered
      BY <2>2 DEF With
    <3> QED
      BY <1>4, <3>1, <3>2, <3>3 DEF AnswersRight
  <2> QED
    BY <1>1, <2>1, <2>2 DEF Recalls
<1>7. \A g \in answered' : <<g[1], g[2]>> \in DOMAIN numbered' /\ g[3] = numbered'[<<g[1], g[2]>>]
  <2>1. \A g \in answered : <<g[1], g[2]>> \in DOMAIN numbered' /\ g[3] = numbered'[<<g[1], g[2]>>]
    BY <1>5 DEF AnswersRight
  <2>2. CASE answered' = answered
    BY <2>1, <2>2
  <2>3. ASSUME NEW parent, NEW name, Known(parent, name),
               Answers(parent, name, numbered[<<parent, name>>]), UNCHANGED numbered
        PROVE  \A g \in answered' : <<g[1], g[2]>> \in DOMAIN numbered' /\ g[3] = numbered'[<<g[1], g[2]>>]
    <3> DEFINE a == <<parent, name, numbered[<<parent, name>>]>>
    <3>1. a[1] = parent /\ a[2] = name /\ a[3] = numbered[<<parent, name>>]
      OBVIOUS
    <3>2. answered' = answered \cup {a} /\ numbered' = numbered /\ <<parent, name>> \in DOMAIN numbered
      BY <2>3 DEF Known, Answers
    <3> HIDE DEF a
    <3>3. <<a[1], a[2]>> \in DOMAIN numbered' /\ a[3] = numbered'[<<a[1], a[2]>>]
      BY <3>1, <3>2
    <3> QED
      BY <2>1, <3>2, <3>3
  <2>4. ASSUME NEW parent, NEW name, numbered' = With(numbered, <<parent, name>>, Len(inodes) + 1),
               Answers(parent, name, Len(inodes) + 1)
        PROVE  \A g \in answered' : <<g[1], g[2]>> \in DOMAIN numbered' /\ g[3] = numbered'[<<g[1], g[2]>>]
    <3>1. /\ <<parent, name>> \in DOMAIN numbered'
          /\ numbered'[<<parent, name>>] = Len(inodes) + 1
      BY <2>4 DEF With
    <3> DEFINE a == <<parent, name, Len(inodes) + 1>>
    <3>2. answered' = answered \cup {a}
      BY <2>4 DEF Answers
    <3>3. a[1] = parent /\ a[2] = name /\ a[3] = Len(inodes) + 1
      OBVIOUS
    <3> HIDE DEF a
    <3>4. <<a[1], a[2]>> \in DOMAIN numbered' /\ a[3] = numbered'[<<a[1], a[2]>>]
      BY <3>1, <3>3
    <3> QED
      BY <2>1, <3>2, <3>4
  <2> QED
    BY <1>1, <2>2, <2>3, <2>4 DEF Recalls
<1> QED
  BY <1>4, <1>5, <1>6, <1>7 DEF NumbersKept, AnswersRight

(* insert_named: whichever threads look a name up and whatever fails, its   *)
(* number stays what it was, and what is behind the number.                 *)
THEOREM NumbersStay == MountSpec => [][NumbersKept]_mountVars
<1>1. MountInit => AnswersRight
  BY DEF MountInit, AnswersRight
<1>2. MountRight /\ AnswersRight /\ [MountNext]_mountVars => NumbersKept /\ AnswersRight'
  BY StepKeeps
<1> QED
  BY <1>1, <1>2, MountInvariance, PTL DEF MountSpec

(* lookup: all the answers to a name, of every thread and at any time, are  *)
(* one number.                                                              *)
THEOREM OneNumber == MountSpec => []NamesOnce
<1>1. MountInit => AnswersRight
  BY DEF MountInit, AnswersRight
<1>2. MountRight /\ AnswersRight /\ [MountNext]_mountVars => AnswersRight'
  BY StepKeeps
<1>3. AnswersRight => NamesOnce
  BY DEF AnswersRight, NamesOnce
<1> QED
  BY <1>1, <1>2, <1>3, MountInvariance, PTL DEF MountSpec

-----------------------------------------------------------------------------
(***************************************************************************)
(* What there is at a path.                                                *)
(***************************************************************************)
(* A path that another one begins with. *)
Starts(s, t) == Len(s) <= Len(t) /\ \A j \in 1 .. Len(s) : s[j] = t[j]

LEMMA PrefixStarts ==
    ASSUME NEW S, NEW s \in Seq(S), NEW t \in Seq(S)
    PROVE  IsPrefix(s, t) <=> Starts(s, t)
<1> DEFINE n == Len(s)
           u == SubSeq(s, 1, n)
           v == SubSeq(t, 1, n)
<1>1. n \in Nat /\ Len(t) \in Nat
  OBVIOUS
<1>2. ASSUME n <= Len(t) PROVE u = v <=> \A j \in 1 .. n : s[j] = t[j]
  <2>1. u \in Seq(S) /\ Len(u) = n /\ \A j \in 1 .. n : u[j] = s[j]
    OBVIOUS
  <2>2. v \in Seq(S) /\ Len(v) = n /\ \A j \in 1 .. n : v[j] = t[j]
    BY <1>2
  <2> HIDE DEF u, v, n
  <2>3. ASSUME u = v PROVE \A j \in 1 .. n : s[j] = t[j]
    BY <2>1, <2>2, <2>3
  <2>4. ASSUME \A j \in 1 .. n : s[j] = t[j] PROVE u = v
    <3>1. \A j \in 1 .. n : u[j] = v[j]
      BY <2>1, <2>2, <2>4
    <3>2. u = [j \in 1 .. n |-> u[j]] /\ v = [j \in 1 .. n |-> v[j]]
      BY <2>1, <2>2
    <3> QED
      BY <3>1, <3>2
  <2> QED
    BY <2>3, <2>4
<1> QED
  BY <1>1, <1>2 DEF IsPrefix, Starts

(* Paths of the same names are the same. *)
LEMMA SamePath ==
    ASSUME NEW S, NEW s \in Seq(S), NEW t \in Seq(S), Len(s) = Len(t), Starts(s, t)
    PROVE  s = t
<1>1. s = [j \in 1 .. Len(s) |-> s[j]] /\ t = [j \in 1 .. Len(t) |-> t[j]]
  OBVIOUS
<1> QED
  BY <1>1 DEF Starts

(* A path, and a name more or less. *)
LEMMA PathFacts ==
    ASSUME NEW S, NEW s \in Seq(S), NEW n \in S
    PROVE  /\ Append(s, n) \in Seq(S) /\ Len(Append(s, n)) = Len(s) + 1 /\ Append(s, n) # <<>>
           /\ Append(s, n)[Len(s) + 1] = n /\ \A j \in 1 .. Len(s) : Append(s, n)[j] = s[j]
           /\ Front(Append(s, n)) = s /\ Last(Append(s, n)) = n
<1> DEFINE q == Append(s, n)
<1>1. /\ q \in Seq(S) /\ Len(q) = Len(s) + 1 /\ q # <<>>
      /\ q[Len(s) + 1] = n /\ \A j \in 1 .. Len(s) : q[j] = s[j]
  OBVIOUS
<1> HIDE DEF q
<1>2. Front(q) = s
  <2>1. Len(s) \in Nat /\ Len(q) - 1 = Len(s)
    BY <1>1
  <2> DEFINE u == SubSeq(q, 1, Len(s))
  <2>2. u \in Seq(S) /\ Len(u) = Len(s) /\ \A j \in 1 .. Len(s) : u[j] = q[j]
    BY <1>1, <2>1
  <2> HIDE DEF u
  <2>3. Starts(u, s)
    BY <1>1, <2>1, <2>2 DEF Starts
  <2>4. u = s
    BY <2>2, <2>3, SamePath
  <2> QED
    BY <2>1, <2>4 DEF Front, u
<1>3. Last(q) = n
  BY <1>1 DEF Last
<1> QED
  BY <1>1, <1>2, <1>3 DEF q

LEMMA FrontLast ==
    ASSUME NEW S, NEW s \in Seq(S), s # <<>>
    PROVE  /\ Front(s) \in Seq(S) /\ Len(Front(s)) = Len(s) - 1 /\ Last(s) \in S
           /\ \A j \in 1 .. Len(s) - 1 : Front(s)[j] = s[j]
           /\ Append(Front(s), Last(s)) = s
<1> DEFINE m == Len(s) - 1
           u == SubSeq(s, 1, m)
<1>1. Len(s) \in Nat /\ Len(s) # 0 /\ m \in Nat /\ m <= Len(s) /\ m + 1 = Len(s)
  OBVIOUS
<1> HIDE DEF m
<1>2. u \in Seq(S) /\ Len(u) = m /\ \A j \in 1 .. m : u[j] = s[j]
  BY <1>1
<1> HIDE DEF u
<1>3. s[Len(s)] \in S
  BY <1>1
<1> DEFINE q == Append(u, s[Len(s)])
<1>4. q \in Seq(S) /\ Len(q) = m + 1 /\ q[m + 1] = s[Len(s)] /\ \A j \in 1 .. m : q[j] = u[j]
  BY <1>2, <1>3, PathFacts
<1> HIDE DEF q
<1>5. Starts(q, s)
  <2>1. \A j \in 1 .. m + 1 : j \in 1 .. m \/ j = m + 1
    BY <1>1
  <2> QED
    BY <1>1, <1>2, <1>4, <2>1 DEF Starts
<1>6. q = s
  BY <1>1, <1>4, <1>5, SamePath
<1>7. u = Front(s)
  BY DEF Front, u, m
<1> QED
  BY <1>2, <1>3, <1>6, <1>7, <1>1 DEF q, m, Last

(* The names of a path that are left. *)
LEMMA RestFacts ==
    ASSUME NEW S, NEW s \in Seq(S), NEW n \in S, NEW m \in 1 .. Len(s) + 1
    PROVE  /\ SubSeq(s, m, Len(s)) \in Seq(S)
           /\ SubSeq(s, Len(s) + 1, Len(s)) = <<>>
           /\ SubSeq(Append(s, n), m, Len(s) + 1) = Append(SubSeq(s, m, Len(s)), n)
<1> DEFINE l == Len(s)
           q == Append(s, n)
           u == SubSeq(s, m, l)
           v == SubSeq(q, m, l + 1)
           w == Append(u, n)
<1>1. l \in Nat /\ m \in Nat /\ 1 <= m /\ m <= l + 1
  OBVIOUS
<1>2. q \in Seq(S) /\ Len(q) = l + 1 /\ q[l + 1] = n /\ \A j \in 1 .. l : q[j] = s[j]
  BY PathFacts
<1>3. u \in Seq(S) /\ Len(u) = l + 1 - m /\ \A j \in 1 .. l + 1 - m : u[j] = s[m + j - 1]
  BY <1>1
<1>4. SubSeq(s, Len(s) + 1, Len(s)) = <<>>
  OBVIOUS
<1> HIDE DEF l, q, u
<1>5. v \in Seq(S) /\ Len(v) = l + 2 - m /\ \A j \in 1 .. l + 2 - m : v[j] = q[m + j - 1]
  BY <1>1, <1>2
<1>6. w \in Seq(S) /\ Len(w) = l + 2 - m /\ w[l + 2 - m] = n /\ \A j \in 1 .. l + 1 - m : w[j] = u[j]
  <2>1. /\ w \in Seq(S) /\ Len(w) = Len(u) + 1 /\ w[Len(u) + 1] = n
        /\ \A j \in 1 .. Len(u) : w[j] = u[j]
    BY <1>3, PathFacts
  <2>2. Len(u) + 1 = l + 2 - m
    BY <1>1, <1>3
  <2> HIDE DEF w
  <2> QED
    BY <1>3, <2>1, <2>2
<1> HIDE DEF v, w
<1>7. \A j \in 1 .. l + 2 - m : v[j] = w[j]
  <2> SUFFICES ASSUME NEW j \in 1 .. l + 2 - m PROVE v[j] = w[j]
    OBVIOUS
  <2>1. CASE j = l + 2 - m
    <3>1. m + j - 1 = l + 1
      BY <1>1, <2>1
    <3> QED
      BY <1>2, <1>5, <1>6, <2>1, <3>1
  <2>2. CASE j # l + 2 - m
    <3>1. j \in 1 .. l + 1 - m /\ m + j - 1 \in 1 .. l
      BY <1>1, <2>2
    <3> QED
      BY <1>2, <1>3, <1>5, <1>6, <3>1
  <2> QED
    BY <2>1, <2>2
<1>8. Starts(v, w)
  BY <1>1, <1>5, <1>6, <1>7 DEF Starts
<1>9. v = w
  BY <1>5, <1>6, <1>8, SamePath
<1> QED
  BY <1>3, <1>4, <1>9 DEF l, q, u, v, w

-----------------------------------------------------------------------------
(* One name further down from a node. *)
Deeper(node, n) ==
    IF node.is # "dir" \/ node.tree = NoTree THEN Nowhere
    ELSE LET es == {e \in EntriesOf[node.tree] : e.name = n}
         IN IF es = {} THEN Nowhere
            ELSE LET e == CHOOSE e \in es : TRUE IN Plain(e.kind, e.tree)

(* What can be below a tree. *)
Below == {Nowhere} \cup {Plain("dir", tree) : tree \in Tree} \cup {Plain(e.kind, e.tree) : e \in StoredEntry}

LEMMA PlainFields ==
    /\ \A is, tree : /\ Plain(is, tree).is = is /\ Plain(is, tree).tree = tree
                     /\ Plain(is, tree).levels = NoLevels /\ Plain(is, tree).level = TopLevel
                     /\ [Plain(is, tree) EXCEPT !.levels = NoLevels] = Plain(is, tree)
    /\ \A levels, level : /\ Synthetic(levels, level).is = "synthetic"
                          /\ Synthetic(levels, level).levels = levels
                          /\ Synthetic(levels, level).level = level
                          /\ [Synthetic(levels, level) EXCEPT !.levels = NoLevels] = Synthetic(NoLevels, level)
    /\ Nowhere.is = "nowhere"
BY DEF Plain, Synthetic, NodeOf, Nowhere

LEMMA BelowFacts ==
    /\ Nowhere \in Below /\ \A tree \in Tree : Plain("dir", tree) \in Below
    /\ \A node \in Below : /\ node.is \notin {"root", "client", "synthetic"}
                           /\ node = Plain(node.is, node.tree)
                           /\ node.is = "dir" => node.tree \in Tree \cup {NoTree}
<1>1. \A e \in StoredEntry : /\ e.kind \notin {"root", "client", "synthetic", "nowhere"}
                             /\ e.kind = "dir" => e.tree \in Tree \cup {NoTree}
  BY MountSnapshots, MountTrees DEF StoredEntry, Tree
<1>2. ASSUME NEW node \in Below
      PROVE  /\ node.is \notin {"root", "client", "synthetic"}
             /\ node = Plain(node.is, node.tree)
             /\ node.is = "dir" => node.tree \in Tree \cup {NoTree}
  <2>1. CASE node = Nowhere
    BY <2>1, PlainFields DEF Nowhere
  <2>2. CASE \E tree \in Tree : node = Plain("dir", tree)
    BY <2>2, PlainFields
  <2>3. CASE \E e \in StoredEntry : node = Plain(e.kind, e.tree)
    BY <1>1, <2>3, PlainFields
  <2> QED
    BY <2>1, <2>2, <2>3 DEF Below
<1> QED
  BY <1>2 DEF Below

LEMMA DeeperTyped ==
    ASSUME NEW node \in Below, NEW n
    PROVE  Deeper(node, n) \in Below
<1> DEFINE es == {e \in EntriesOf[node.tree] : e.name = n}
<1>1. CASE node.is # "dir" \/ node.tree = NoTree \/ es = {}
  BY <1>1 DEF Deeper, Below
<1>2. CASE ~(node.is # "dir" \/ node.tree = NoTree \/ es = {})
  <2>1. node.tree \in Tree
    BY <1>2, BelowFacts
  <2> DEFINE e == CHOOSE e \in es : TRUE
  <2>2. e \in es
    BY <1>2
  <2>3. e \in StoredEntry
    BY <2>1, <2>2 DEF StoredEntry
  <2>4. Deeper(node, n) = Plain(e.kind, e.tree)
    BY <1>2 DEF Deeper
  <2> HIDE DEF e
  <2> QED
    BY <2>3, <2>4 DEF Below
<1> QED
  BY <1>1, <1>2

(* The entry of a name is what is there. *)
LEMMA DeeperFinds ==
    ASSUME NEW tree \in Tree, NEW e \in EntriesOf[tree]
    PROVE  Deeper(Plain("dir", tree), e.name) = Plain(e.kind, e.tree)
<1> DEFINE es == {f \in EntriesOf[tree] : f.name = e.name}
<1>1. es = {e}
  BY MountSnapshots DEF Tree
<1>2. tree # NoTree
  BY MountSnapshots DEF Tree
<1>3. Deeper(Plain("dir", tree), e.name) =
        LET f == CHOOSE f \in es : TRUE IN Plain(f.kind, f.tree)
  BY <1>1, <1>2, PlainFields DEF Deeper
<1>4. (CHOOSE f \in es : TRUE) = e
  BY <1>1
<1> HIDE DEF es
<1> QED
  BY <1>3, <1>4

(* Under obeys its recursion. *)
UnderBy(g, tree, names) ==
    g = [k \in 0 .. Len(names) |-> IF k = 0 THEN Plain("dir", tree) ELSE Deeper(g[k - 1], names[k])]

LEMMA UnderRuns ==
    ASSUME NEW S, NEW names \in Seq(S), NEW tree \in Tree
    PROVE  \E g : /\ g \in [0 .. Len(names) -> Below]
                  /\ \A k \in 0 .. Len(names) :
                        g[k] = IF k = 0 THEN Plain("dir", tree) ELSE Deeper(g[k - 1], names[k])
                  /\ Under(tree, names) = g[Len(names)]
<1> DEFINE n == Len(names)
           step == [x \in Below \X (1 .. n) |-> Deeper(x[1], names[x[2]])]
<1>1. n \in Nat /\ Plain("dir", tree) \in Below
  BY BelowFacts
<1>2. step \in [Below \X (1 .. n) -> Below]
  <2> HIDE DEF n
  <2> QED
    BY DeeperTyped
<1>3. PICK g : Recursion(g, Below, n, Plain("dir", tree), step)
  <2> HIDE DEF n, step
  <2> QED
    BY <1>1, <1>2, RecursionExists
<1>4. /\ g \in [0 .. n -> Below]
      /\ \A i \in 0 .. n : g[i] = IF i = 0 THEN Plain("dir", tree) ELSE step[<<g[i - 1], i>>]
  <2> HIDE DEF n, step
  <2> QED
    BY <1>3 DEF Recursion
<1>5. \A i \in 0 .. n : g[i] = IF i = 0 THEN Plain("dir", tree) ELSE Deeper(g[i - 1], names[i])
  <2> SUFFICES ASSUME NEW i \in 0 .. n, i # 0 PROVE g[i] = Deeper(g[i - 1], names[i])
    BY <1>4
  <2>1. i - 1 \in 0 .. n /\ i \in 1 .. n
    BY <1>1
  <2>2. <<g[i - 1], i>> \in Below \X (1 .. n)
    BY <1>4, <2>1
  <2>3. step[<<g[i - 1], i>>] = Deeper(g[i - 1], names[i])
    BY <2>2
  <2> HIDE DEF step, n
  <2> QED
    BY <1>4, <2>3
<1> HIDE DEF step
<1>6. UnderBy(g, tree, names)
  BY <1>4, <1>5 DEF UnderBy
<1> DEFINE f == CHOOSE f : UnderBy(f, tree, names)
<1>7. UnderBy(f, tree, names)
  BY <1>6, Zenon
<1>8. Under(tree, names) = f[n]
  BY Zenon DEF Under, UnderBy, Deeper
<1> HIDE DEF f
<1>9. \A k \in 0 .. n : f[k] = IF k = 0 THEN Plain("dir", tree) ELSE Deeper(f[k - 1], names[k])
  BY <1>7 DEF UnderBy
<1> HIDE DEF n
<1> DEFINE P == {k \in 0 .. n : f[k] = g[k]}
<1>10. 0 \in P
  BY <1>1, <1>5, <1>9
<1>11. ASSUME NEW k \in 0 .. n - 1, k \in P PROVE k + 1 \in P
  <2>1. k + 1 \in 0 .. n /\ k + 1 # 0 /\ (k + 1) - 1 = k
    BY <1>1
  <2>2. f[k + 1] = Deeper(f[k], names[k + 1]) /\ g[k + 1] = Deeper(g[k], names[k + 1])
    BY <1>5, <1>9, <2>1
  <2> QED
    BY <1>11, <2>1, <2>2
<1>12. n \in P
  <2> HIDE DEF P
  <2>1. \A k \in 0 .. n : k \in P
    BY <1>1, <1>10, <1>11, UpTo
  <2> QED
    BY <1>1, <2>1
<1> QED
  BY <1>4, <1>5, <1>8, <1>12 DEF n

(* Name by name. *)
LEMMA UnderFacts ==
    ASSUME NEW S, NEW names \in Seq(S), NEW n \in S, NEW tree \in Tree
    PROVE  /\ Under(tree, <<>>) = Plain("dir", tree)
           /\ Under(tree, names) \in Below
           /\ Under(tree, Append(names, n)) = Deeper(Under(tree, names), n)
<1>1. Under(tree, <<>>) = Plain("dir", tree)
  <2>1. <<>> \in Seq(S) /\ Len(<<>>) = 0 /\ 0 \in 0 .. 0
    OBVIOUS
  <2>2. PICK g : /\ \A k \in 0 .. Len(<<>>) :
                       g[k] = IF k = 0 THEN Plain("dir", tree) ELSE Deeper(g[k - 1], <<>>[k])
                 /\ Under(tree, <<>>) = g[Len(<<>>)]
    BY <2>1, UnderRuns
  <2> QED
    BY <2>1, <2>2
<1> DEFINE more == Append(names, n)
           l == Len(names)
<1>2. /\ more \in Seq(S) /\ Len(more) = l + 1 /\ more[l + 1] = n /\ l \in Nat
      /\ \A j \in 1 .. l : more[j] = names[j]
  BY PathFacts
<1>3. PICK g : /\ g \in [0 .. l -> Below]
               /\ \A k \in 0 .. l :
                     g[k] = IF k = 0 THEN Plain("dir", tree) ELSE Deeper(g[k - 1], names[k])
               /\ Under(tree, names) = g[l]
  BY UnderRuns
<1> HIDE DEF more, l
<1>4. PICK h : /\ h \in [0 .. l + 1 -> Below]
               /\ \A k \in 0 .. l + 1 :
                     h[k] = IF k = 0 THEN Plain("dir", tree) ELSE Deeper(h[k - 1], more[k])
               /\ Under(tree, more) = h[l + 1]
  <2>1. more \in Seq(S)
    BY <1>2
  <2>2. PICK h : /\ h \in [0 .. Len(more) -> Below]
                 /\ \A k \in 0 .. Len(more) :
                       h[k] = IF k = 0 THEN Plain("dir", tree) ELSE Deeper(h[k - 1], more[k])
                 /\ Under(tree, more) = h[Len(more)]
    BY <2>1, UnderRuns
  <2>3. Len(more) = l + 1
    BY <1>2
  <2> QED
    BY <2>2, <2>3
<1> DEFINE P == {k \in 0 .. l : h[k] = g[k]}
<1>5. 0 \in P
  <2>1. 0 \in 0 .. l /\ 0 \in 0 .. l + 1
    BY <1>2
  <2> QED
    BY <1>3, <1>4, <2>1
<1>6. ASSUME NEW k \in 0 .. l - 1, k \in P PROVE k + 1 \in P
  <2>1. k + 1 \in 0 .. l /\ k + 1 \in 0 .. l + 1 /\ k + 1 # 0 /\ (k + 1) - 1 = k /\ k + 1 \in 1 .. l
    BY <1>2
  <2>2. g[k + 1] = Deeper(g[k], names[k + 1]) /\ h[k + 1] = Deeper(h[k], more[k + 1])
    BY <1>3, <1>4, <2>1
  <2>3. more[k + 1] = names[k + 1]
    BY <1>2, <2>1
  <2> QED
    BY <1>6, <2>1, <2>2, <2>3
<1>7. h[l] = g[l]
  <2> HIDE DEF P
  <2>1. \A k \in 0 .. l : k \in P
    BY <1>2, <1>5, <1>6, UpTo
  <2>2. l \in P
    BY <1>2, <2>1
  <2> QED
    BY <2>2 DEF P
<1>8. h[l + 1] = Deeper(h[l], n)
  <2>1. l + 1 \in 0 .. l + 1 /\ l + 1 # 0 /\ (l + 1) - 1 = l
    BY <1>2
  <2> QED
    BY <1>2, <1>4, <2>1
<1>9. g[l] \in Below
  BY <1>2, <1>3
<1> QED
  BY <1>1, <1>3, <1>4, <1>7, <1>8, <1>9 DEF more

-----------------------------------------------------------------------------
(* The roots of a snapshot. *)
RootCount(ts) == Len(RootsOf[ts])
PathOf(ts, i) == RootsOf[ts][i].path
PairsOf(ts) ==
    [k \in DOMAIN RootsOf[ts] |-> [root |-> RootsOf[ts][k], form |-> FormOf(RootsOf[ts][k])]]

LEMMA RootsFacts ==
    ASSUME NEW ts \in DOMAIN RootsOf
    PROVE  /\ RootCount(ts) \in Nat \ {0} /\ DOMAIN RootsOf[ts] = 1 .. RootCount(ts)
           /\ \A i \in 1 .. RootCount(ts) : /\ RootsOf[ts][i] \in PathRoot
                                            /\ PathOf(ts, i) \in Seq(RootNames)
                                            /\ PathOf(ts, i) \in Seq(Names)
                                            /\ RootsOf[ts][i].tree \in Tree
           /\ ToSet(RootsOf[ts]) = {RootsOf[ts][i] : i \in 1 .. RootCount(ts)}
<1>1. RootsOf[ts] \in Seq(PathRoot) /\ RootsOf[ts] # <<>>
  BY MountTrees, MountSnapshots
<1>2. RootCount(ts) \in Nat \ {0} /\ DOMAIN RootsOf[ts] = 1 .. RootCount(ts)
  BY <1>1 DEF RootCount
<1>3. ASSUME NEW i \in 1 .. RootCount(ts)
      PROVE  /\ RootsOf[ts][i] \in PathRoot /\ PathOf(ts, i) \in Seq(RootNames)
             /\ PathOf(ts, i) \in Seq(Names) /\ RootsOf[ts][i].tree \in Tree
  <2>1. RootsOf[ts][i] \in PathRoot
    BY <1>1, <1>2
  <2>2. PathOf(ts, i) \in Seq(RootNames) /\ RootsOf[ts][i].tree \in Tree
    BY <2>1 DEF PathRoot, PathOf, Tree
  <2>3. PathOf(ts, i) \in Seq(Names)
    BY <2>2 DEF Names
  <2> QED
    BY <2>1, <2>2, <2>3
<1> QED
  BY <1>2, <1>3 DEF ToSet

(* No root is in another, so a path is in one at most. *)
LEMMA RootsApart ==
    ASSUME NEW ts \in DOMAIN RootsOf, NEW i \in 1 .. RootCount(ts), NEW j \in 1 .. RootCount(ts)
    PROVE  /\ Starts(PathOf(ts, i), PathOf(ts, j)) => i = j
           /\ \A path \in Seq(Names) :
                 Starts(PathOf(ts, i), path) /\ Starts(PathOf(ts, j), path) => i = j
<1>1. ASSUME NEW k \in 1 .. RootCount(ts), NEW l \in 1 .. RootCount(ts),
             Starts(PathOf(ts, k), PathOf(ts, l))
      PROVE  k = l
  <2>1. PathOf(ts, k) \in Seq(Names) /\ PathOf(ts, l) \in Seq(Names)
        /\ k \in DOMAIN RootsOf[ts] /\ l \in DOMAIN RootsOf[ts]
    BY RootsFacts
  <2>2. IsPrefix(PathOf(ts, k), PathOf(ts, l))
    BY <1>1, <2>1, PrefixStarts
  <2> QED
    BY <2>1, <2>2, MountSnapshots DEF PathOf
<1>2. ASSUME NEW path \in Seq(Names), Starts(PathOf(ts, i), path), Starts(PathOf(ts, j), path)
      PROVE  i = j
  <2>1. Len(PathOf(ts, i)) \in Nat /\ Len(PathOf(ts, j)) \in Nat
    <3>1. PathOf(ts, i) \in Seq(Names) /\ PathOf(ts, j) \in Seq(Names)
      BY RootsFacts
    <3> QED
      BY <3>1
  <2>2. CASE Len(PathOf(ts, i)) <= Len(PathOf(ts, j))
    <3>1. Starts(PathOf(ts, i), PathOf(ts, j))
      BY <1>2, <2>1, <2>2 DEF Starts
    <3> QED
      BY <1>1, <3>1
  <2>3. CASE Len(PathOf(ts, j)) <= Len(PathOf(ts, i))
    <3>1. Starts(PathOf(ts, j), PathOf(ts, i))
      BY <1>2, <2>1, <2>3 DEF Starts
    <3>2. j = i
      BY <1>1, <3>1
    <3> QED
      BY <3>2
  <2> QED
    BY <2>1, <2>2, <2>3
<1> QED
  BY <1>1, <1>2

(* A path that is above a root. *)
Above(ts, path) ==
    \E i \in 1 .. RootCount(ts) : Starts(path, PathOf(ts, i)) /\ Len(path) < Len(PathOf(ts, i))

(* What PlaceOf is about, in terms of the numbers of the roots. *)
LEMMA PlaceCases ==
    ASSUME NEW ts \in DOMAIN RootsOf, NEW path \in Seq(Names)
    PROVE  /\ \A i \in 1 .. RootCount(ts) :
                 path # <<>> /\ Starts(PathOf(ts, i), path) => PlaceOf(ts, path) = InRoot(RootsOf[ts][i], path)
           /\ (path = <<>> \/ \A i \in 1 .. RootCount(ts) : ~Starts(PathOf(ts, i), path)) =>
                 PlaceOf(ts, path) = IF \E i \in 1 .. RootCount(ts) : Starts(path, PathOf(ts, i))
                                     THEN Synthetic(NoLevels, path) ELSE Nowhere
<1> DEFINE roots == ToSet(RootsOf[ts])
           over == {r \in roots : IsPrefix(r.path, path)}
           n == RootCount(ts)
<1>1. roots = {RootsOf[ts][i] : i \in 1 .. n}
  BY RootsFacts
<1>2. \A i \in 1 .. n : /\ IsPrefix(RootsOf[ts][i].path, path) <=> Starts(PathOf(ts, i), path)
                        /\ IsPrefix(path, RootsOf[ts][i].path) <=> Starts(path, PathOf(ts, i))
  <2> SUFFICES ASSUME NEW i \in 1 .. n
               PROVE  /\ IsPrefix(PathOf(ts, i), path) <=> Starts(PathOf(ts, i), path)
                      /\ IsPrefix(path, PathOf(ts, i)) <=> Starts(path, PathOf(ts, i))
    BY DEF PathOf
  <2>1. PathOf(ts, i) \in Seq(Names)
    BY RootsFacts
  <2> QED
    BY <2>1, PrefixStarts
<1>3. PlaceOf(ts, path) =
        IF path # <<>> /\ over # {} THEN InRoot(CHOOSE r \in over : TRUE, path)
        ELSE IF \E r \in roots : IsPrefix(path, r.path) THEN Synthetic(NoLevels, path)
        ELSE Nowhere
  BY DEF PlaceOf
<1>4. (\E r \in roots : IsPrefix(path, r.path)) <=> \E i \in 1 .. n : Starts(path, PathOf(ts, i))
  <2> HIDE DEF roots, n
  <2> QED
    BY <1>1, <1>2
<1>5. ASSUME NEW i \in 1 .. n, path # <<>>, Starts(PathOf(ts, i), path)
      PROVE  PlaceOf(ts, path) = InRoot(RootsOf[ts][i], path)
  <2>1. over = {RootsOf[ts][i]}
    <3>1. RootsOf[ts][i] \in over
      <4> HIDE DEF roots, n
      <4> QED
        BY <1>1, <1>2, <1>5
    <3>2. \A j \in 1 .. n : Starts(PathOf(ts, j), path) => j = i
      BY <1>5, RootsApart
    <3>3. \A r \in over : r = RootsOf[ts][i]
      <4> HIDE DEF roots, n
      <4> QED
        BY <1>1, <1>2, <3>2
    <3> HIDE DEF over
    <3> QED
      BY <3>1, <3>3
  <2> HIDE DEF over, roots
  <2>2. over # {} /\ (CHOOSE r \in over : TRUE) = RootsOf[ts][i]
    BY <2>1
  <2> QED
    BY <1>3, <1>5, <2>2
<1>6. ASSUME path = <<>> \/ \A i \in 1 .. n : ~Starts(PathOf(ts, i), path)
      PROVE  PlaceOf(ts, path) = IF \E i \in 1 .. n : Starts(path, PathOf(ts, i))
                                 THEN Synthetic(NoLevels, path) ELSE Nowhere
  <2>1. path = <<>> \/ over = {}
    <3> HIDE DEF n, roots
    <3> QED
      BY <1>1, <1>2, <1>6
  <2> HIDE DEF over, roots, n
  <2> QED
    BY <1>3, <1>4, <2>1
<1> QED
  BY <1>5, <1>6

LEMMA PlaceAbove ==
    ASSUME NEW ts \in DOMAIN RootsOf, NEW path \in Seq(Names), path = <<>> \/ Above(ts, path)
    PROVE  PlaceOf(ts, path) = Synthetic(NoLevels, path)
<1>1. \E i \in 1 .. RootCount(ts) : Starts(path, PathOf(ts, i))
  <2>1. CASE path = <<>>
    <3>1. 1 \in 1 .. RootCount(ts)
      BY RootsFacts
    <3>2. PathOf(ts, 1) \in Seq(Names)
      BY <3>1, RootsFacts
    <3>3. Len(<<>>) = 0 /\ 0 <= Len(PathOf(ts, 1)) /\ 1 .. 0 = {}
      BY <3>2
    <3>4. Starts(path, PathOf(ts, 1))
      BY <2>1, <3>3 DEF Starts
    <3> QED
      BY <3>1, <3>4
  <2>2. CASE Above(ts, path)
    BY <2>2 DEF Above
  <2> QED
    BY <2>1, <2>2
<1>2. path = <<>> \/ \A i \in 1 .. RootCount(ts) : ~Starts(PathOf(ts, i), path)
  <2> SUFFICES ASSUME path # <<>>, NEW i \in 1 .. RootCount(ts), Starts(PathOf(ts, i), path) PROVE FALSE
    OBVIOUS
  <2>1. PICK j \in 1 .. RootCount(ts) : Starts(path, PathOf(ts, j)) /\ Len(path) < Len(PathOf(ts, j))
    BY DEF Above
  <2>2. PathOf(ts, i) \in Seq(Names) /\ PathOf(ts, j) \in Seq(Names)
    BY RootsFacts
  <2>3. Len(PathOf(ts, i)) \in Nat /\ Len(path) \in Nat /\ Len(PathOf(ts, j)) \in Nat
    BY <2>2
  <2>4. Starts(PathOf(ts, i), PathOf(ts, j))
    BY <2>1, <2>3 DEF Starts
  <2>5. i = j
    BY <2>4, RootsApart
  <2> QED
    BY <2>1, <2>3, <2>5 DEF Starts
<1> QED
  BY <1>1, <1>2, PlaceCases

(* One name further down inside a root. *)
LEMMA InRootDeeper ==
    ASSUME NEW ts \in DOMAIN RootsOf, NEW i \in 1 .. RootCount(ts), NEW path \in Seq(Names),
           path # <<>>, Starts(PathOf(ts, i), path), NEW n \in Names
    PROVE  /\ InRoot(RootsOf[ts][i], path) \in Below
           /\ InRoot(RootsOf[ts][i], Append(path, n)) = Deeper(InRoot(RootsOf[ts][i], path), n)
<1> DEFINE r == RootsOf[ts][i]
           m == IF FormOf(r) = "leaf" THEN Len(r.path) ELSE Len(r.path) + 1
           rest == SubSeq(path, m, Len(path))
<1>1. r.path = PathOf(ts, i) /\ r.path \in Seq(Names) /\ r.tree \in Tree
  BY RootsFacts DEF PathOf
<1>2. m \in 1 .. Len(path) + 1
  <2>1. Len(r.path) \in Nat /\ Len(path) \in Nat /\ Len(r.path) <= Len(path)
    BY <1>1 DEF Starts
  <2>2. FormOf(r) = "leaf" => r.path # <<>>
    BY DEF FormOf
  <2>3. r.path # <<>> => Len(r.path) # 0
    BY <1>1
  <2> HIDE DEF r
  <2> QED
    BY <2>1, <2>2, <2>3
<1>3. InRoot(r, path) = Under(r.tree, rest)
  BY DEF InRoot
<1>4. Len(Append(path, n)) = Len(path) + 1
  BY PathFacts
<1>5. InRoot(r, Append(path, n)) = Under(r.tree, SubSeq(Append(path, n), m, Len(path) + 1))
  BY <1>4 DEF InRoot
<1> HIDE DEF m, r
<1>6. rest \in Seq(Names) /\ SubSeq(Append(path, n), m, Len(path) + 1) = Append(rest, n)
  BY <1>2, RestFacts
<1> HIDE DEF rest
<1>7. Under(r.tree, rest) \in Below /\ Under(r.tree, Append(rest, n)) = Deeper(Under(r.tree, rest), n)
  BY <1>1, <1>6, UnderFacts
<1>8. InRoot(r, path) \in Below /\ InRoot(r, Append(path, n)) = Deeper(InRoot(r, path), n)
  BY <1>3, <1>5, <1>6, <1>7
<1> QED
  BY <1>8 DEF r

(* What is below a directory is in its tree. *)
LEMMA PlaceDeeper ==
    ASSUME NEW ts \in DOMAIN RootsOf, NEW path \in Seq(Names), NEW n \in Names,
           PlaceOf(ts, path).is = "dir"
    PROVE  PlaceOf(ts, Append(path, n)) = Deeper(PlaceOf(ts, path), n)
<1>1. path # <<>> /\ \E i \in 1 .. RootCount(ts) : Starts(PathOf(ts, i), path)
  <2> SUFFICES ASSUME path = <<>> \/ \A i \in 1 .. RootCount(ts) : ~Starts(PathOf(ts, i), path)
               PROVE  FALSE
    OBVIOUS
  <2>1. PlaceOf(ts, path) = Synthetic(NoLevels, path) \/ PlaceOf(ts, path) = Nowhere
    BY PlaceCases
  <2> QED
    BY <2>1, PlainFields
<1>2. PICK i \in 1 .. RootCount(ts) : Starts(PathOf(ts, i), path)
  BY <1>1
<1> DEFINE q == Append(path, n)
<1>3. q \in Seq(Names) /\ q # <<>> /\ Len(q) = Len(path) + 1 /\ \A j \in 1 .. Len(path) : q[j] = path[j]
  BY PathFacts
<1> HIDE DEF q
<1>4. Starts(PathOf(ts, i), q)
  <2>1. Len(PathOf(ts, i)) \in Nat /\ Len(path) \in Nat
    <3>1. PathOf(ts, i) \in Seq(Names)
      BY RootsFacts
    <3> QED
      BY <3>1
  <2> QED
    BY <1>2, <1>3, <2>1 DEF Starts
<1>5. PlaceOf(ts, path) = InRoot(RootsOf[ts][i], path) /\ PlaceOf(ts, q) = InRoot(RootsOf[ts][i], q)
  BY <1>1, <1>2, <1>3, <1>4, PlaceCases
<1>6. InRoot(RootsOf[ts][i], q) = Deeper(InRoot(RootsOf[ts][i], path), n)
  BY <1>1, <1>2, InRootDeeper DEF q
<1> QED
  BY <1>5, <1>6 DEF q

-----------------------------------------------------------------------------
(* One root more, in what every level shows. *)
LEMMA PushAt ==
    ASSUME NEW L, NEW at, NEW es, NEW key
    PROVE  LevelAt(PushReal(L, at, es), key) =
             IF key = at THEN {v \in LevelAt(L, at) : v.name \notin {e.name : e \in es}} \cup es
             ELSE LevelAt(L, key)
<1> DEFINE value == {v \in LevelAt(L, at) : v.name \notin {e.name : e \in es}} \cup es
           M == [k \in DOMAIN L \cup {at} |-> IF k = at THEN value ELSE L[k]]
<1>1. PushReal(L, at, es) = M
  BY DEF PushReal, With
<1>2. LevelAt(M, key) = IF key = at THEN value ELSE LevelAt(L, key)
  <2> HIDE DEF value
  <2> QED
    BY DEF LevelAt
<1> QED
  BY <1>1, <1>2

(* A level that is made up above the last one of a path. *)
Leads(key, path) == Starts(key, path) /\ Len(key) + 1 < Len(path)

LEMMA ParentsAt ==
    ASSUME NEW L, NEW S, NEW path \in Seq(S), NEW key \in Seq(S)
    PROVE  LevelAt(Parents(L, path), key) =
             LevelAt(L, key) \cup
               IF Leads(key, path) /\ \A v \in LevelAt(L, key) : v.name # path[Len(key) + 1]
               THEN {MadeUp(path[Len(key) + 1])} ELSE {}
<1> DEFINE keys == {SubSeq(path, 1, k - 1) : k \in 1 .. Len(path) - 1}
           next(k) == path[Len(k) + 1]
           new(k) == LevelAt(L, k) \cup
                       IF k \in keys /\ \A v \in LevelAt(L, k) : v.name # next(k)
                       THEN {MadeUp(next(k))} ELSE {}
           D == DOMAIN L \cup keys
<1>1. Parents(L, path) = [k \in D |-> new(k)]
  BY DEF Parents
<1>2. key \in keys <=> Leads(key, path)
  <2>1. ASSUME NEW k \in 1 .. Len(path) - 1, key = SubSeq(path, 1, k - 1) PROVE Leads(key, path)
    <3> DEFINE m == k - 1
    <3>1. Len(path) \in Nat /\ m \in Nat /\ m + 1 < Len(path)
      OBVIOUS
    <3>2. key = SubSeq(path, 1, m)
      BY <2>1
    <3> HIDE DEF m
    <3>3. Len(key) = m /\ \A j \in 1 .. m : key[j] = path[j]
      BY <3>1, <3>2
    <3> QED
      BY <3>1, <3>3 DEF Leads, Starts
  <2>2. ASSUME Leads(key, path) PROVE \E k \in 1 .. Len(path) - 1 : key = SubSeq(path, 1, k - 1)
    <3> DEFINE m == Len(key)
               u == SubSeq(path, 1, m)
    <3>1. m \in Nat /\ Len(path) \in Nat /\ m + 1 < Len(path)
      BY <2>2 DEF Leads
    <3>2. u \in Seq(S) /\ Len(u) = m /\ \A j \in 1 .. m : u[j] = path[j]
      BY <3>1
    <3> HIDE DEF u
    <3>3. Starts(key, u)
      BY <2>2, <3>1, <3>2 DEF Leads, Starts
    <3>4. key = u
      BY <3>2, <3>3, SamePath
    <3>5. m + 1 \in 1 .. Len(path) - 1 /\ (m + 1) - 1 = m
      BY <3>1
    <3> QED
      BY <3>4, <3>5 DEF u
  <2> QED
    BY <2>1, <2>2
<1>3. LevelAt([k \in D |-> new(k)], key) = new(key)
  <2>1. CASE key \in D
    <3> HIDE DEF new, D
    <3> QED
      BY <2>1 DEF LevelAt
  <2>2. CASE key \notin D
    <3>1. key \notin DOMAIN L /\ key \notin keys
      BY <2>2
    <3>2. LevelAt(L, key) = {}
      BY <3>1 DEF LevelAt
    <3>3. new(key) = {}
      <4> HIDE DEF keys
      <4> QED
        BY <3>1, <3>2
    <3> HIDE DEF new, D
    <3> QED
      BY <2>2, <3>3 DEF LevelAt
  <2> QED
    BY <2>1, <2>2
<1> HIDE DEF keys, D
<1> QED
  BY <1>1, <1>2, <1>3

(* Nothing is in the way of a root, and only directories that are made up  *)
(* are in the way of those above it.                                       *)
HasRoom(L, pair, path) ==
    /\ path \in Seq(Names) /\ path = pair.root.path /\ path # <<>>
    /\ Leaf(pair).name = Last(path)
    /\ \A w \in LevelAt(L, Front(path)) : w.name # Last(path)
    /\ \A at \in Seq(Names) : Leads(at, path) =>
          \A w \in LevelAt(L, at) : w.name = path[Len(at) + 1] => w = MadeUp(path[Len(at) + 1])

(* AddRoot *)
LEMMA AddRootAt ==
    ASSUME NEW L, NEW pair, NEW path, HasRoom(L, pair, path), NEW key \in Seq(Names), NEW v
    PROVE  v \in LevelAt(AddRoot(L, pair), key) <=>
             \/ v \in LevelAt(L, key)
             \/ key = Front(path) /\ v = Leaf(pair)
             \/ Leads(key, path) /\ v = MadeUp(path[Len(key) + 1])
<1> DEFINE P == Parents(L, path)
           at == Front(path)
           leaf == Leaf(pair)
<1>0. /\ path \in Seq(Names) /\ path = pair.root.path /\ path # <<>> /\ leaf.name = Last(path)
      /\ \A w \in LevelAt(L, at) : w.name # Last(path)
      /\ Leads(key, path) => \A w \in LevelAt(L, key) :
            w.name = path[Len(key) + 1] => w = MadeUp(path[Len(key) + 1])
  BY DEF HasRoom
<1>1. AddRoot(L, pair) = PushReal(P, at, {leaf})
  BY <1>0 DEF AddRoot
<1>2. at \in Seq(Names) /\ Len(at) = Len(path) - 1 /\ Len(path) \in Nat
  BY <1>0, FrontLast
<1>3. ~Leads(at, path)
  BY <1>2 DEF Leads
<1>4. LevelAt(P, at) = LevelAt(L, at)
  <2>1. LevelAt(P, at) = LevelAt(L, at) \cup
          IF Leads(at, path) /\ \A w \in LevelAt(L, at) : w.name # path[Len(at) + 1]
          THEN {MadeUp(path[Len(at) + 1])} ELSE {}
    <3> HIDE DEF at
    <3> QED
      BY <1>0, <1>2, ParentsAt
  <2> HIDE DEF P, at
  <2> QED
    BY <1>3, <2>1
<1>5. LevelAt(AddRoot(L, pair), key) =
        IF key = at THEN {w \in LevelAt(P, at) : w.name \notin {e.name : e \in {leaf}}} \cup {leaf}
        ELSE LevelAt(P, key)
  <2> HIDE DEF P, at, leaf
  <2>1. \A es : LevelAt(PushReal(P, at, es), key) =
                 IF key = at THEN {w \in LevelAt(P, at) : w.name \notin {e.name : e \in es}} \cup es
                 ELSE LevelAt(P, key)
    BY PushAt
  <2> QED
    BY <1>1, <2>1, Zenon
<1>6. CASE key = at
  <2>1. {w \in LevelAt(L, at) : w.name \notin {e.name : e \in {leaf}}} = LevelAt(L, at)
    BY <1>0
  <2>2. LevelAt(AddRoot(L, pair), key) = LevelAt(L, at) \cup {leaf}
    BY <1>4, <1>5, <1>6, <2>1
  <2> QED
    BY <1>3, <1>6, <2>2
<1>7. CASE key # at
  <2>1. LevelAt(AddRoot(L, pair), key) = LevelAt(P, key)
    BY <1>5, <1>7
  <2> DEFINE next == path[Len(key) + 1]
  <2>2. LevelAt(P, key) = LevelAt(L, key) \cup
          IF Leads(key, path) /\ \A w \in LevelAt(L, key) : w.name # next
          THEN {MadeUp(next)} ELSE {}
    BY <1>0, ParentsAt
  <2>3. Leads(key, path) => \A w \in LevelAt(L, key) : w.name = next => w = MadeUp(next)
    BY <1>0
  <2> HIDE DEF next, P, leaf, at
  <2>4. v \in LevelAt(P, key) <=> v \in LevelAt(L, key) \/ (Leads(key, path) /\ v = MadeUp(next))
    BY <2>2, <2>3
  <2> QED
    BY <1>7, <2>1, <2>4 DEF at, next
<1> QED
  BY <1>6, <1>7

(* The roots of a snapshot, and what they are. *)
LEMMA PairsFacts ==
    ASSUME NEW ts \in DOMAIN RootsOf
    PROVE  /\ PairsOf(ts) \in Seq(Pair) /\ Len(PairsOf(ts)) = RootCount(ts)
           /\ \A i \in 1 .. RootCount(ts) :
                 /\ PairsOf(ts)[i].root = RootsOf[ts][i] /\ PairsOf(ts)[i].form = FormOf(RootsOf[ts][i])
                 /\ PairsOf(ts)[i] \in Pair
<1> DEFINE n == RootCount(ts)
           pairs == PairsOf(ts)
<1>1. n \in Nat /\ DOMAIN RootsOf[ts] = 1 .. n /\ \A i \in 1 .. n : RootsOf[ts][i] \in PathRoot
  BY RootsFacts
<1>2. pairs = [k \in 1 .. n |-> [root |-> RootsOf[ts][k], form |-> FormOf(RootsOf[ts][k])]]
  BY <1>1 DEF PairsOf
<1> HIDE DEF n, pairs
<1>3. \A i \in 1 .. n : pairs[i] = [root |-> RootsOf[ts][i], form |-> FormOf(RootsOf[ts][i])]
  BY <1>2
<1>4. \A i \in 1 .. n : pairs[i] \in Pair
  BY <1>1, <1>3, FormTyped
<1>5. pairs \in [1 .. n -> Pair]
  BY <1>2, <1>4
<1>6. pairs \in Seq(Pair) /\ Len(pairs) = n
  BY <1>1, <1>5
<1> QED
  BY <1>3, <1>4, <1>6 DEF n, pairs

(* What a root is shown as. *)
LEMMA LeafFacts ==
    ASSUME NEW ts \in DOMAIN RootsOf, NEW i \in 1 .. RootCount(ts), PathOf(ts, i) # <<>>
    PROVE  LET v == Leaf(PairsOf(ts)[i])
           IN /\ v.name = Last(PathOf(ts, i))
              /\ v.kind \notin {"root", "client", "synthetic", "nowhere"}
              /\ InRoot(RootsOf[ts][i], PathOf(ts, i)) = Plain(v.kind, v.tree)
<1> DEFINE r == RootsOf[ts][i]
           p == PathOf(ts, i)
           v == Leaf(PairsOf(ts)[i])
           es == EntriesOf[r.tree]
           l == Len(p)
<1>1. r.path = p /\ p \in Seq(Names) /\ r.tree \in Tree
  BY RootsFacts DEF PathOf
<1>2. PairsOf(ts)[i].root = r /\ PairsOf(ts)[i].form = FormOf(r)
  BY PairsFacts
<1>3. l \in Nat \ {0} /\ p[l] \in Names /\ Last(p) = p[l]
  BY <1>1 DEF Last
<1>4. CASE FormOf(r) = "leaf"
  <2>1. Cardinality(es) = 1 /\ \A e \in es : e.kind # "dir" /\ e.name = Last(p)
    BY <1>1, <1>4 DEF FormOf
  <2>2. es # {}
    <3>1. Cardinality({}) = 0
      BY FS_EmptySet
    <3> HIDE DEF es
    <3> QED
      BY <2>1, <3>1
  <2>3. v = CHOOSE e \in es : TRUE
    BY <1>2, <1>4 DEF Leaf
  <2>4. v \in es
    BY <2>2, <2>3
  <2>5. InRoot(r, p) = Under(r.tree, SubSeq(p, l, l))
    BY <1>1, <1>4 DEF InRoot
  <2>6. SubSeq(p, l, l) = Append(<<>>, p[l])
    <3> DEFINE u == SubSeq(p, l, l)
               w == Append(<<>>, p[l])
    <3>1. u \in Seq(Names) /\ Len(u) = 1 /\ u[1] = p[l]
      BY <1>1, <1>3
    <3>2. w \in Seq(Names) /\ Len(w) = 1 /\ w[1] = p[l]
      BY <1>3
    <3> HIDE DEF u, w
    <3>3. Starts(u, w)
      BY <3>1, <3>2 DEF Starts
    <3>4. u = w
      BY <3>1, <3>2, <3>3, SamePath
    <3> QED
      BY <3>4 DEF u, w
  <2>7. <<>> \in Seq(Names)
    OBVIOUS
  <2>8. Under(r.tree, Append(<<>>, p[l])) = Deeper(Plain("dir", r.tree), p[l])
    <3>1. r.tree \in Tree /\ p[l] \in Names
      BY <1>1, <1>3
    <3> DEFINE tree == r.tree
               n == p[l]
    <3> HIDE DEF tree, n
    <3>2. /\ Under(tree, <<>>) = Plain("dir", tree)
          /\ Under(tree, Append(<<>>, n)) = Deeper(Under(tree, <<>>), n)
      BY <2>7, <3>1, UnderFacts DEF tree, n
    <3> QED
      BY <3>2 DEF tree, n
  <2>9. Deeper(Plain("dir", r.tree), v.name) = Plain(v.kind, v.tree)
    BY <1>1, <2>4, DeeperFinds
  <2>10. v.name = p[l] /\ v.kind \notin {"root", "client", "synthetic", "nowhere"}
    BY <1>1, <1>3, <2>1, <2>4, MountSnapshots DEF Tree
  <2> HIDE DEF v, r, p, l
  <2>11. InRoot(r, p) = Plain(v.kind, v.tree)
    BY <2>5, <2>6, <2>8, <2>9, <2>10
  <2> QED
    BY <1>3, <2>10, <2>11 DEF v, r, p, l
<1>5. CASE FormOf(r) # "leaf"
  <2>1. v = [name |-> Last(p), kind |-> "dir", tree |-> r.tree]
    BY <1>1, <1>2, <1>5 DEF Leaf
  <2>2. InRoot(r, p) = Under(r.tree, SubSeq(p, l + 1, l))
    BY <1>1, <1>5 DEF InRoot
  <2>3. SubSeq(p, l + 1, l) = <<>>
    BY <1>1
  <2>4. p[l] \in Names
    BY <1>3
  <2>5. Under(r.tree, <<>>) = Plain("dir", r.tree)
    BY <1>1, <2>4, UnderFacts
  <2> HIDE DEF r, p, l, v
  <2>6. InRoot(r, p) = Plain(v.kind, v.tree)
    BY <2>1, <2>2, <2>3, <2>5
  <2>7. v.name = Last(p) /\ v.kind = "dir"
    BY <2>1
  <2> QED
    BY <2>6, <2>7 DEF r, p, v
<1> QED
  BY <1>4, <1>5

(* A snapshot of everything: its only root is the top. *)
Whole(ts) == \E i \in 1 .. RootCount(ts) : PathOf(ts, i) = <<>>

(* What the first roots show at a level. *)
Shown(ts, k, key, v) ==
    \E i \in 1 .. k :
       \/ key = Front(PathOf(ts, i)) /\ v = Leaf(PairsOf(ts)[i])
       \/ Leads(key, PathOf(ts, i)) /\ v = MadeUp(PathOf(ts, i)[Len(key) + 1])

(* The next root is not in the way of any before it, nor they in its way. *)
LEMMA NothingInTheWay ==
    ASSUME NEW ts \in DOMAIN RootsOf, ~Whole(ts), NEW k \in 0 .. RootCount(ts) - 1, NEW v
    PROVE  LET path == PathOf(ts, k + 1)
           IN /\ Shown(ts, k, Front(path), v) => v.name # Last(path)
              /\ \A key \in Seq(Names) :
                    Leads(key, path) /\ Shown(ts, k, key, v) /\ v.name = path[Len(key) + 1]
                      => v = MadeUp(path[Len(key) + 1])
<1> DEFINE path == PathOf(ts, k + 1)
           n == RootCount(ts)
           l == Len(path)
<1>1. n \in Nat /\ k + 1 \in 1 .. n /\ \A i \in 1 .. k : i \in 1 .. n /\ i # k + 1
  <2>1. n \in Nat
    BY RootsFacts
  <2> QED
    BY <2>1
<1>2. \A i \in 1 .. n : PathOf(ts, i) \in Seq(Names) /\ PathOf(ts, i) # <<>>
  BY RootsFacts DEF Whole
<1>3. \A i \in 1 .. k : ~Starts(PathOf(ts, i), path) /\ ~Starts(path, PathOf(ts, i))
  <2> HIDE DEF n
  <2> QED
    BY <1>1, RootsApart DEF n
<1>4. path \in Seq(Names) /\ path # <<>>
  BY <1>1, <1>2
<1> HIDE DEF path
<1>5. /\ l \in Nat \ {0} /\ Last(path) = path[l] /\ Front(path) \in Seq(Names)
      /\ Len(Front(path)) = l - 1 /\ \A j \in 1 .. l - 1 : Front(path)[j] = path[j]
  <2>1. l \in Nat \ {0}
    BY <1>4
  <2> QED
    BY <1>4, <2>1, FrontLast DEF Last
<1>6. ASSUME NEW i \in 1 .. k
      PROVE  LET p == PathOf(ts, i)
             IN /\ p \in Seq(Names) /\ Len(p) \in Nat \ {0} /\ Last(p) = p[Len(p)]
                /\ Leaf(PairsOf(ts)[i]).name = p[Len(p)]
                /\ Len(Front(p)) = Len(p) - 1 /\ \A j \in 1 .. Len(p) - 1 : Front(p)[j] = p[j]
  <2> DEFINE p == PathOf(ts, i)
  <2>1. p \in Seq(Names) /\ p # <<>>
    BY <1>1, <1>2
  <2>2. i \in 1 .. RootCount(ts) /\ Leaf(PairsOf(ts)[i]).name = Last(p)
    BY <1>1, <2>1, LeafFacts
  <2> HIDE DEF p
  <2>3. Len(p) \in Nat \ {0} /\ Last(p) = p[Len(p)]
    BY <2>1 DEF Last
  <2>4. Len(Front(p)) = Len(p) - 1 /\ \A j \in 1 .. Len(p) - 1 : Front(p)[j] = p[j]
    BY <2>1, FrontLast
  <2> QED
    BY <2>1, <2>2, <2>3, <2>4 DEF p
<1>7. ASSUME Shown(ts, k, Front(path), v), v.name = Last(path) PROVE FALSE
  <2>1. PICK i \in 1 .. k :
            \/ Front(path) = Front(PathOf(ts, i)) /\ v = Leaf(PairsOf(ts)[i])
            \/ Leads(Front(path), PathOf(ts, i)) /\ v = MadeUp(PathOf(ts, i)[Len(Front(path)) + 1])
    BY <1>7 DEF Shown
  <2> DEFINE p == PathOf(ts, i)
  <2>2. /\ p \in Seq(Names) /\ Len(p) \in Nat \ {0}
        /\ Leaf(PairsOf(ts)[i]).name = p[Len(p)]
        /\ Len(Front(p)) = Len(p) - 1 /\ \A j \in 1 .. Len(p) - 1 : Front(p)[j] = p[j]
    BY <1>6
  <2>3. ~Starts(p, path) /\ ~Starts(path, p)
    BY <1>3
  <2>4. \/ Front(path) = Front(p) /\ v = Leaf(PairsOf(ts)[i])
        \/ Leads(Front(path), p) /\ v = MadeUp(p[l])
    BY <1>5, <2>1
  <2> HIDE DEF p
  <2>5. CASE Front(path) = Front(p) /\ v = Leaf(PairsOf(ts)[i])
    <3>1. Len(p) = l
      BY <1>5, <2>2, <2>5
    <3>2. p[l] = path[l]
      BY <1>5, <1>7, <2>2, <2>5, <3>1
    <3>3. \A j \in 1 .. l - 1 : p[j] = path[j]
      BY <1>5, <2>2, <2>5, <3>1
    <3>4. \A j \in 1 .. l : j \in 1 .. l - 1 \/ j = l
      BY <1>5
    <3>5. Starts(p, path)
      BY <1>5, <3>1, <3>2, <3>3, <3>4 DEF Starts
    <3> QED
      BY <2>3, <3>5
  <2>6. CASE Leads(Front(path), p) /\ v = MadeUp(p[l])
    <3>1. l < Len(p) /\ \A j \in 1 .. l - 1 : path[j] = p[j]
      BY <1>5, <2>6 DEF Leads, Starts
    <3>2. path[l] = p[l]
      BY <1>5, <1>7, <2>6 DEF MadeUp
    <3>3. \A j \in 1 .. l : j \in 1 .. l - 1 \/ j = l
      BY <1>5
    <3>4. Starts(path, p)
      BY <1>5, <2>2, <3>1, <3>2, <3>3 DEF Starts
    <3> QED
      BY <2>3, <3>4
  <2> QED
    BY <2>4, <2>5, <2>6
<1>8. ASSUME NEW key \in Seq(Names), Leads(key, path), Shown(ts, k, key, v), v.name = path[Len(key) + 1]
      PROVE  v = MadeUp(path[Len(key) + 1])
  <2>1. PICK i \in 1 .. k :
            \/ key = Front(PathOf(ts, i)) /\ v = Leaf(PairsOf(ts)[i])
            \/ Leads(key, PathOf(ts, i)) /\ v = MadeUp(PathOf(ts, i)[Len(key) + 1])
    BY <1>8 DEF Shown
  <2> DEFINE p == PathOf(ts, i)
             m == Len(key)
  <2>2. /\ p \in Seq(Names) /\ Len(p) \in Nat \ {0}
        /\ Leaf(PairsOf(ts)[i]).name = p[Len(p)]
        /\ Len(Front(p)) = Len(p) - 1 /\ \A j \in 1 .. Len(p) - 1 : Front(p)[j] = p[j]
    BY <1>6
  <2>3. ~Starts(p, path)
    BY <1>3
  <2>4. \/ key = Front(p) /\ v = Leaf(PairsOf(ts)[i])
        \/ Leads(key, p) /\ v = MadeUp(p[m + 1])
    BY <2>1
  <2>5. m \in Nat /\ m + 1 < l /\ (\A j \in 1 .. m : key[j] = path[j]) /\ v.name = path[m + 1]
    BY <1>8 DEF Leads, Starts
  <2> HIDE DEF p, m
  <2>6. CASE key = Front(p) /\ v = Leaf(PairsOf(ts)[i])
    <3>1. Len(p) = m + 1
      BY <2>2, <2>5, <2>6 DEF m
    <3>2. p[m + 1] = path[m + 1]
      BY <2>2, <2>5, <2>6, <3>1
    <3>3. \A j \in 1 .. m : p[j] = path[j]
      BY <2>2, <2>5, <2>6, <3>1
    <3>4. \A j \in 1 .. m + 1 : j \in 1 .. m \/ j = m + 1
      BY <2>5
    <3>5. Starts(p, path)
      BY <1>5, <2>5, <3>1, <3>2, <3>3, <3>4 DEF Starts
    <3> QED
      BY <2>3, <3>5
  <2>7. CASE Leads(key, p) /\ v = MadeUp(p[m + 1])
    <3>1. v.name = p[m + 1]
      BY <2>7 DEF MadeUp
    <3>2. v = MadeUp(path[m + 1])
      BY <2>5, <2>7, <3>1
    <3> QED
      BY <3>2 DEF m
  <2> QED
    BY <2>4, <2>6, <2>7
<1> QED
  BY <1>7, <1>8 DEF path

(* VirtualRoot::build: a level shows the roots in it, and the next          *)
(* directory towards each of those below.                                   *)
LEMMA LevelsShow ==
    ASSUME NEW ts \in DOMAIN RootsOf, ~Whole(ts), NEW key \in Seq(Names), NEW v
    PROVE  v \in LevelAt(BuildLevels(PairsOf(ts)), key) <=> Shown(ts, RootCount(ts), key, v)
<1> DEFINE n == RootCount(ts)
           pairs == PairsOf(ts)
           Right(M, k) == \A at \in Seq(Names) : \A w : w \in LevelAt(M, at) <=> Shown(ts, k, at, w)
<1>1. /\ n \in Nat /\ pairs \in Seq(Pair) /\ Len(pairs) = n
      /\ \A i \in 1 .. n : pairs[i].root = RootsOf[ts][i]
  BY RootsFacts, PairsFacts
<1>2. PICK f : /\ f[0] = NoLevels
               /\ \A k \in 1 .. n : f[k] = AddRoot(f[k - 1], pairs[k])
               /\ BuildLevels(pairs) = f[n]
  <2> HIDE DEF n, pairs
  <2> QED
    BY <1>1, BuildRuns
<1> HIDE DEF n, pairs
<1> DEFINE P == {k \in 0 .. n : Right(f[k], k)}
<1>3. 0 \in P
  <2>1. \A at, w : w \notin LevelAt(NoLevels, at)
    BY DEF LevelAt, NoLevels
  <2>2. \A at, w : ~Shown(ts, 0, at, w)
    BY DEF Shown
  <2> QED
    BY <1>1, <1>2, <2>1, <2>2
<1>4. ASSUME NEW k \in 0 .. n - 1, k \in P PROVE k + 1 \in P
  <2> DEFINE path == PathOf(ts, k + 1)
             pair == pairs[k + 1]
             L == f[k]
  <2>1. k + 1 \in 1 .. n /\ k + 1 \in 0 .. n /\ (k + 1) - 1 = k /\ k \in Nat
    BY <1>1
  <2>2. f[k + 1] = AddRoot(L, pair)
    BY <1>2, <2>1
  <2>3. path \in Seq(Names) /\ path # <<>> /\ path = pair.root.path
    BY <1>1, <2>1, RootsFacts DEF Whole, PathOf, n
  <2>4. Leaf(pair).name = Last(path)
    BY <2>1, <2>3, LeafFacts DEF n, pairs
  <2>5. Right(L, k)
    BY <1>4
  <2> HIDE DEF L, pair
  <2>6. \A at \in Seq(Names) : Leads(at, path) =>
            \A w \in LevelAt(L, at) : w.name = path[Len(at) + 1] => w = MadeUp(path[Len(at) + 1])
    BY <2>5, NothingInTheWay DEF n
  <2>7. \A w \in LevelAt(L, Front(path)) : w.name # Last(path)
    <3>1. Front(path) \in Seq(Names)
      BY <2>3, FrontLast
    <3> QED
      BY <2>5, <3>1, NothingInTheWay DEF n
  <2> HIDE DEF path
  <2>8. ASSUME NEW at \in Seq(Names), NEW w
        PROVE  w \in LevelAt(AddRoot(L, pair), at) <=>
                 \/ w \in LevelAt(L, at)
                 \/ at = Front(path) /\ w = Leaf(pair)
                 \/ Leads(at, path) /\ w = MadeUp(path[Len(at) + 1])
    <3>1. HasRoom(L, pair, path)
      BY <2>3, <2>4, <2>6, <2>7 DEF HasRoom
    <3> QED
      BY <3>1, AddRootAt
  <2>9. ASSUME NEW at \in Seq(Names), NEW w
        PROVE  Shown(ts, k + 1, at, w) <=>
                 \/ Shown(ts, k, at, w)
                 \/ at = Front(path) /\ w = Leaf(pair)
                 \/ Leads(at, path) /\ w = MadeUp(path[Len(at) + 1])
    <3>1. 1 .. k + 1 = 1 .. k \cup {k + 1}
      BY <2>1
    <3> QED
      BY <3>1 DEF Shown, path, pair, pairs
  <2>10. Right(f[k + 1], k + 1)
    BY <2>2, <2>5, <2>8, <2>9
  <2> QED
    BY <2>1, <2>10
<1>5. n \in P
  <2> HIDE DEF P
  <2>1. \A k \in 0 .. n : k \in P
    BY <1>1, <1>3, <1>4, UpTo
  <2> QED
    BY <1>1, <2>1
<1>6. Right(f[n], n)
  BY <1>5
<1> QED
  BY <1>2, <1>6 DEF n, pairs

(* A snapshot of everything shows what is in its tree. *)
LEMMA WholeShows ==
    ASSUME NEW ts \in DOMAIN RootsOf, Whole(ts)
    PROVE  /\ RootCount(ts) = 1 /\ PathOf(ts, 1) = <<>>
           /\ LevelAt(BuildLevels(PairsOf(ts)), TopLevel) = EntriesOf[RootsOf[ts][1].tree]
           /\ \A n \in Names : PlaceOf(ts, <<n>>) = Deeper(Plain("dir", RootsOf[ts][1].tree), n)
<1> DEFINE r == RootsOf[ts][1]
           pairs == PairsOf(ts)
<1>1. PICK i \in 1 .. RootCount(ts) : PathOf(ts, i) = <<>>
  BY DEF Whole
<1>2. RootCount(ts) \in Nat \ {0} /\ \A j \in 1 .. RootCount(ts) : PathOf(ts, j) \in Seq(Names)
  BY RootsFacts
<1>3. \A j \in 1 .. RootCount(ts) : i = j
  <2> SUFFICES ASSUME NEW j \in 1 .. RootCount(ts) PROVE i = j
    OBVIOUS
  <2>1. PathOf(ts, j) \in Seq(Names)
    BY <1>2
  <2>2. Len(<<>>) = 0 /\ Len(PathOf(ts, j)) \in Nat /\ 1 .. 0 = {}
    BY <2>1
  <2>3. Starts(PathOf(ts, i), PathOf(ts, j))
    BY <1>1, <2>2 DEF Starts
  <2> QED
    BY <2>3, RootsApart
<1>4. i = 1 /\ RootCount(ts) = 1
  <2>1. 1 \in 1 .. RootCount(ts) /\ RootCount(ts) \in 1 .. RootCount(ts)
    BY <1>2
  <2> QED
    BY <1>3, <2>1
<1>5. r.path = <<>> /\ r.tree \in Tree /\ FormOf(r) = "flatten"
  <2>1. 1 \in 1 .. RootCount(ts)
    BY <1>4
  <2>2. r.path = <<>> /\ r.tree \in Tree
    BY <1>1, <1>4, <2>1, RootsFacts DEF PathOf
  <2> QED
    BY <2>2 DEF FormOf
<1>6. /\ pairs \in Seq(Pair) /\ Len(pairs) = 1
      /\ pairs[1].root = r /\ pairs[1].form = "flatten"
  <2>1. 1 \in 1 .. RootCount(ts)
    BY <1>4
  <2> QED
    BY <1>4, <1>5, <2>1, PairsFacts
<1> HIDE DEF r, pairs
<1>7. BuildLevels(pairs) = AddRoot(NoLevels, pairs[1])
  <2>1. PICK f : /\ f[0] = NoLevels
                 /\ \A k \in 1 .. Len(pairs) : f[k] = AddRoot(f[k - 1], pairs[k])
                 /\ BuildLevels(pairs) = f[Len(pairs)]
    BY <1>6, BuildRuns
  <2>2. 1 \in 1 .. Len(pairs) /\ 1 - 1 = 0
    BY <1>6
  <2> QED
    BY <1>6, <2>1, <2>2
<1>8. BuildLevels(pairs) = PushReal(NoLevels, TopLevel, EntriesOf[r.tree])
  BY <1>5, <1>6, <1>7 DEF AddRoot
<1>9. LevelAt(BuildLevels(pairs), TopLevel) = EntriesOf[r.tree]
  <2> DEFINE es == EntriesOf[r.tree]
  <2>1. LevelAt(PushReal(NoLevels, TopLevel, es), TopLevel) =
          {v \in LevelAt(NoLevels, TopLevel) : v.name \notin {e.name : e \in es}} \cup es
    <3> HIDE DEF es
    <3> QED
      BY PushAt
  <2>2. LevelAt(NoLevels, TopLevel) = {}
    BY DEF LevelAt, NoLevels
  <2> HIDE DEF es
  <2>3. LevelAt(PushReal(NoLevels, TopLevel, es), TopLevel) = es
    BY <2>1, <2>2
  <2> QED
    BY <1>8, <2>3 DEF es
<1>10. ASSUME NEW n \in Names PROVE PlaceOf(ts, <<n>>) = Deeper(Plain("dir", r.tree), n)
  <2>1. <<n>> \in Seq(Names) /\ <<n>> # <<>> /\ Len(<<n>>) = 1 /\ <<n>> = Append(<<>>, n)
        /\ <<>> \in Seq(Names) /\ Len(<<>>) = 0
    OBVIOUS
  <2>2. 1 \in 1 .. RootCount(ts) /\ Starts(PathOf(ts, 1), <<n>>)
    BY <1>1, <1>4, <2>1 DEF Starts
  <2>3. PlaceOf(ts, <<n>>) = InRoot(r, <<n>>)
    BY <2>1, <2>2, PlaceCases DEF r
  <2>4. InRoot(r, <<n>>) = Under(r.tree, SubSeq(<<n>>, 1, 1))
    BY <1>5, <2>1 DEF InRoot
  <2>5. SubSeq(<<n>>, 1, 1) = <<n>>
    <3> DEFINE q == <<n>>
    <3>1. q \in Seq(Names) /\ Len(q) = 1
      BY <2>1
    <3> HIDE DEF q
    <3>2. SubSeq(q, 1, Len(q)) = q
      BY <3>1, WholeFacts
    <3> QED
      BY <3>1, <3>2 DEF q
  <2>6. Under(r.tree, Append(<<>>, n)) = Deeper(Under(r.tree, <<>>), n) /\ Under(r.tree, <<>>) = Plain("dir", r.tree)
    <3> DEFINE tree == r.tree
    <3>1. tree \in Tree
      BY <1>5
    <3> HIDE DEF tree
    <3>2. /\ Under(tree, <<>>) = Plain("dir", tree)
          /\ Under(tree, Append(<<>>, n)) = Deeper(Under(tree, <<>>), n)
      BY <2>1, <3>1, UnderFacts
    <3> QED
      BY <3>2 DEF tree
  <2> QED
    BY <2>1, <2>3, <2>4, <2>5, <2>6
<1> QED
  BY <1>1, <1>4, <1>9, <1>10 DEF r, pairs

(* A path with one name more. *)
LEMMA StartsMore ==
    ASSUME NEW S, NEW s \in Seq(S), NEW t \in Seq(S), NEW n \in S
    PROVE  /\ Starts(Append(s, n), t) <=> Starts(s, t) /\ Len(s) < Len(t) /\ t[Len(s) + 1] = n
           /\ Starts(t, Append(s, n)) <=> Starts(t, s) \/ t = Append(s, n)
<1> DEFINE q == Append(s, n)
           l == Len(s)
           m == Len(t)
<1>1. /\ q \in Seq(S) /\ Len(q) = l + 1 /\ q[l + 1] = n /\ l \in Nat /\ m \in Nat
      /\ \A j \in 1 .. l : q[j] = s[j]
  BY PathFacts
<1> HIDE DEF q, l, m
<1>2. \A j \in 1 .. l + 1 : j \in 1 .. l \/ j = l + 1
  BY <1>1
<1>3. Starts(q, t) <=> Starts(s, t) /\ l < m /\ t[l + 1] = n
  <2>1. ASSUME Starts(q, t) PROVE Starts(s, t) /\ l < m /\ t[l + 1] = n
    <3>1. l + 1 <= m /\ \A j \in 1 .. l + 1 : q[j] = t[j]
      BY <1>1, <2>1 DEF Starts, m
    <3>2. l + 1 \in 1 .. l + 1 /\ \A j \in 1 .. l : j \in 1 .. l + 1
      BY <1>1
    <3> QED
      BY <1>1, <3>1, <3>2 DEF Starts, l, m
  <2>2. ASSUME Starts(s, t), l < m, t[l + 1] = n PROVE Starts(q, t)
    <3>1. \A j \in 1 .. l : s[j] = t[j]
      BY <2>2 DEF Starts, l
    <3>2. \A j \in 1 .. l + 1 : q[j] = t[j]
      BY <1>1, <1>2, <2>2, <3>1
    <3>3. l + 1 <= m
      BY <1>1, <2>2
    <3> QED
      BY <1>1, <3>2, <3>3 DEF Starts, m
  <2> QED
    BY <2>1, <2>2
<1>4. Starts(t, q) <=> Starts(t, s) \/ t = q
  <2>1. ASSUME Starts(t, q), t # q PROVE Starts(t, s)
    <3>1. m <= l + 1 /\ \A j \in 1 .. m : t[j] = q[j]
      BY <1>1, <2>1 DEF Starts, m
    <3>2. m # l + 1
      BY <1>1, <2>1, SamePath DEF m
    <3>3. m <= l /\ \A j \in 1 .. m : j \in 1 .. l
      BY <1>1, <3>1, <3>2
    <3> QED
      BY <1>1, <3>1, <3>3 DEF Starts, l, m
  <2>2. ASSUME Starts(t, s) PROVE Starts(t, q)
    <3>1. m <= l /\ \A j \in 1 .. m : t[j] = s[j]
      BY <2>2 DEF Starts, l, m
    <3>2. m <= l + 1 /\ \A j \in 1 .. m : j \in 1 .. l
      BY <1>1, <3>1
    <3> QED
      BY <1>1, <3>1, <3>2 DEF Starts, m
  <2>3. ASSUME t = q PROVE Starts(t, q)
    BY <1>1, <2>3 DEF Starts, m
  <2> QED
    BY <2>1, <2>2, <2>3
<1> QED
  BY <1>3, <1>4 DEF q, l, m

(* What a level that is made up shows, and nothing else, is in the snapshot *)
(* at that path.                                                            *)
LevelTrue(ts, path) ==
    LET L == BuildLevels(PairsOf(ts))
    IN /\ \A v \in LevelAt(L, path) :
             /\ v.name \in Names
             /\ v.kind = "synthetic" =>
                   Above(ts, Append(path, v.name))
             /\ v.kind # "synthetic" =>
                   /\ PlaceOf(ts, Append(path, v.name)) = Plain(v.kind, v.tree)
                   /\ v.kind \notin {"root", "client", "synthetic", "nowhere"}
       /\ \A n \in Names : PlaceOf(ts, Append(path, n)).is # "nowhere" =>
             \E v \in LevelAt(L, path) : v.name = n

LEMMA LevelPlaces ==
    ASSUME NEW ts \in DOMAIN RootsOf, NEW path \in Seq(Names), path = <<>> \/ Above(ts, path)
    PROVE  LevelTrue(ts, path)
<1> DEFINE L == BuildLevels(PairsOf(ts))
           c == RootCount(ts)
<1>1. L \in Levels
  BY PairsFacts, BuildTyped
<1>2. \A v \in LevelAt(L, path) : v.name \in Names
  <2>1. LevelAt(L, path) \in SUBSET ViewEntry
    BY <1>1, LevelsFacts DEF LevelAt
  <2>2. \A v \in StoredEntry : v.name \in Names
    BY DEF StoredEntry, Names, EntryNames, Tree
  <2>3. \A v \in RootEntry \cup MadeUpEntry : v.name \in Names
    BY DEF RootEntry, MadeUpEntry, Names
  <2> HIDE DEF L
  <2> QED
    BY <2>1, <2>2, <2>3 DEF ViewEntry
<1>3. c \in Nat \ {0} /\ \A i \in 1 .. c : PathOf(ts, i) \in Seq(Names)
  BY RootsFacts
<1>4. CASE Whole(ts)
  <2> DEFINE tree == RootsOf[ts][1].tree
             es == EntriesOf[tree]
  <2>1. /\ c = 1 /\ PathOf(ts, 1) = <<>> /\ LevelAt(L, TopLevel) = es
        /\ \A n \in Names : PlaceOf(ts, <<n>>) = Deeper(Plain("dir", tree), n)
    BY <1>4, WholeShows
  <2>2. path = <<>>
    <3> SUFFICES ASSUME Above(ts, path) PROVE FALSE
      OBVIOUS
    <3>1. PICK i \in 1 .. c : Len(path) < Len(PathOf(ts, i))
      BY DEF Above
    <3>2. i = 1
      BY <2>1, <3>1
    <3> QED
      BY <2>1, <3>1, <3>2
  <2>3. tree \in Tree
    <3>1. 1 \in 1 .. RootCount(ts)
      BY <2>1
    <3> QED
      BY <3>1, RootsFacts
  <2>4. \A n : Append(path, n) = <<n>>
    BY <2>2
  <2>5. LevelAt(L, path) = es
    BY <2>1, <2>2 DEF TopLevel
  <2> HIDE DEF L, tree
  <2>6. ASSUME NEW v \in es
        PROVE  /\ PlaceOf(ts, Append(path, v.name)) = Plain(v.kind, v.tree)
               /\ v.kind \notin {"root", "client", "synthetic", "nowhere"}
    <3>1. v.name \in Names
      BY <1>2, <2>5
    <3>2. Deeper(Plain("dir", tree), v.name) = Plain(v.kind, v.tree)
      BY <2>3, DeeperFinds
    <3>3. v.kind \notin {"root", "client", "synthetic", "nowhere"}
      BY <2>3, MountSnapshots DEF Tree
    <3> QED
      BY <2>1, <2>4, <3>1, <3>2, <3>3
  <2>7. ASSUME NEW n \in Names, PlaceOf(ts, Append(path, n)).is # "nowhere"
        PROVE  \E v \in es : v.name = n
    <3>0. PlaceOf(ts, Append(path, n)) = Deeper(Plain("dir", tree), n)
      BY <2>1, <2>4
    <3>1. Deeper(Plain("dir", tree), n) # Nowhere
      <4> HIDE DEF Nowhere
      <4> QED
        BY <2>7, <3>0, PlainFields
    <3>2. {e \in EntriesOf[Plain("dir", tree).tree] : e.name = n} # {}
      BY <3>1 DEF Deeper
    <3> QED
      BY <3>2, PlainFields
  <2>8. \A v \in es : v.kind # "synthetic"
    BY <2>6
  <2> QED
    BY <1>2, <2>5, <2>6, <2>7, <2>8 DEF LevelTrue, L
<1>5. CASE ~Whole(ts)
  <2>1. \A i \in 1 .. c : PathOf(ts, i) # <<>>
    BY <1>5 DEF Whole
  <2>2. \A v : v \in LevelAt(L, path) <=> Shown(ts, c, path, v)
    BY <1>5, LevelsShow
  <2> HIDE DEF L, c
  <2>3. ASSUME NEW i \in 1 .. c, path = Front(PathOf(ts, i)), NEW v, v = Leaf(PairsOf(ts)[i])
        PROVE  /\ v.name = Last(PathOf(ts, i)) /\ Append(path, v.name) = PathOf(ts, i)
               /\ PlaceOf(ts, Append(path, v.name)) = Plain(v.kind, v.tree)
               /\ v.kind \notin {"root", "client", "synthetic", "nowhere"}
    <3> DEFINE p == PathOf(ts, i)
    <3>1. p \in Seq(Names) /\ p # <<>>
      BY <1>3, <2>1
    <3>2. /\ v.name = Last(p) /\ v.kind \notin {"root", "client", "synthetic", "nowhere"}
          /\ InRoot(RootsOf[ts][i], p) = Plain(v.kind, v.tree)
      BY <2>3, <3>1, LeafFacts DEF c
    <3>3. Append(path, v.name) = p
      BY <2>3, <3>1, <3>2, FrontLast
    <3>4. PlaceOf(ts, p) = InRoot(RootsOf[ts][i], p)
      <4>1. Starts(p, p)
        BY <3>1 DEF Starts
      <4> QED
        BY <3>1, <4>1, PlaceCases DEF c
    <3> QED
      BY <3>2, <3>3, <3>4
  <2>4. ASSUME NEW i \in 1 .. c, Leads(path, PathOf(ts, i)), NEW v,
               v = MadeUp(PathOf(ts, i)[Len(path) + 1])
        PROVE  v.kind = "synthetic" /\ Above(ts, Append(path, v.name))
    <3> DEFINE p == PathOf(ts, i)
               n == p[Len(path) + 1]
    <3>1. v.name = n /\ v.kind = "synthetic"
      BY <2>4 DEF MadeUp
    <3>2. p \in Seq(Names)
      BY <1>3
    <3> HIDE DEF p
    <3>3. Len(path) \in Nat /\ Len(p) \in Nat /\ Len(path) + 1 < Len(p) /\ Starts(path, p)
      BY <2>4, <3>2 DEF Leads, p
    <3>4. n \in Names
      BY <3>2, <3>3
    <3> HIDE DEF n
    <3>5. Starts(Append(path, n), p)
      BY <3>2, <3>3, <3>4, StartsMore DEF n
    <3>6. Len(Append(path, n)) = Len(path) + 1
      BY <3>4, PathFacts
    <3>7. Above(ts, Append(path, n))
      BY <3>3, <3>5, <3>6 DEF Above, p, c
    <3> QED
      BY <3>1, <3>7
  <2>5. ASSUME NEW n \in Names, PlaceOf(ts, Append(path, n)).is # "nowhere"
        PROVE  \E v : Shown(ts, c, path, v) /\ v.name = n
    <3> DEFINE q == Append(path, n)
    <3>1. q \in Seq(Names) /\ q # <<>> /\ Len(q) = Len(path) + 1 /\ Front(q) = path /\ Last(q) = n
      BY PathFacts
    <3>2. \E i \in 1 .. c : Starts(PathOf(ts, i), q) \/ Starts(q, PathOf(ts, i))
      <4> HIDE DEF q
      <4> SUFFICES ASSUME \A i \in 1 .. c : ~Starts(PathOf(ts, i), q) /\ ~Starts(q, PathOf(ts, i))
                   PROVE  FALSE
        OBVIOUS
      <4>1. PlaceOf(ts, q) = Nowhere
        BY <3>1, PlaceCases DEF c
      <4> QED
        BY <2>5, <4>1, PlainFields DEF q
    <3>3. PICK i \in 1 .. c : Starts(PathOf(ts, i), q) \/ Starts(q, PathOf(ts, i))
      BY <3>2
    <3> DEFINE p == PathOf(ts, i)
    <3>4. p \in Seq(Names) /\ p # <<>>
      BY <1>3, <2>1
    <3>5. ~Starts(p, path)
      <4> SUFFICES ASSUME Starts(p, path) PROVE FALSE
        OBVIOUS
      <4>1. path # <<>>
        <5>1. Len(p) \in Nat \ {0}
          BY <3>4
        <5> QED
          BY <5>1 DEF Starts
      <4>2. PICK j \in 1 .. c : Starts(path, PathOf(ts, j)) /\ Len(path) < Len(PathOf(ts, j))
        BY <4>1 DEF Above, c
      <4>3. PathOf(ts, j) \in Seq(Names)
        BY <1>3
      <4>4. Len(p) \in Nat /\ Len(path) \in Nat /\ Len(PathOf(ts, j)) \in Nat
        BY <3>4, <4>3
      <4> HIDE DEF p
      <4>5. Starts(p, PathOf(ts, j))
        BY <4>2, <4>4 DEF Starts
      <4>6. i = j
        BY <4>5, RootsApart DEF p, c
      <4> QED
        BY <4>2, <4>4, <4>6 DEF Starts, p
    <3>6. CASE p = q
      <4>1. PICK v : v = Leaf(PairsOf(ts)[i])
        OBVIOUS
      <4>2. path = Front(PathOf(ts, i)) /\ v.name = n
        BY <2>3, <3>1, <3>6, <4>1
      <4>3. Shown(ts, c, path, v)
        BY <4>1, <4>2 DEF Shown
      <4> QED
        BY <4>2, <4>3
    <3>7. CASE p # q
      <4> HIDE DEF p
      <4>1. Starts(q, p)
        BY <3>3, <3>4, <3>5, <3>7, StartsMore DEF p
      <4>2. Starts(path, p) /\ Len(path) < Len(p) /\ p[Len(path) + 1] = n
        BY <3>4, <4>1, StartsMore
      <4>3. Len(p) # Len(path) + 1
        BY <3>1, <3>4, <3>7, <4>1, SamePath
      <4>4. Len(path) + 1 < Len(p)
        BY <3>4, <4>2, <4>3
      <4>5. Leads(path, p)
        BY <4>2, <4>4 DEF Leads
      <4>6. Shown(ts, c, path, MadeUp(n))
        BY <4>2, <4>5 DEF Shown, p
      <4>7. MadeUp(n).name = n
        BY DEF MadeUp
      <4> QED
        BY <4>6, <4>7
    <3> QED
      BY <3>6, <3>7
  <2>6. ASSUME NEW v \in LevelAt(L, path)
        PROVE  /\ v.kind = "synthetic" => Above(ts, Append(path, v.name))
               /\ v.kind # "synthetic" =>
                     /\ PlaceOf(ts, Append(path, v.name)) = Plain(v.kind, v.tree)
                     /\ v.kind \notin {"root", "client", "synthetic", "nowhere"}
    <3>1. PICK i \in 1 .. c :
              \/ path = Front(PathOf(ts, i)) /\ v = Leaf(PairsOf(ts)[i])
              \/ Leads(path, PathOf(ts, i)) /\ v = MadeUp(PathOf(ts, i)[Len(path) + 1])
      BY <2>2 DEF Shown
    <3> QED
      BY <2>3, <2>4, <3>1
  <2> QED
    BY <1>2, <2>2, <2>5, <2>6 DEF LevelTrue, L
<1> QED
  BY <1>4, <1>5

(***************************************************************************)
(* What is behind the numbers.                                             *)
(***************************************************************************)
(* What there can be behind a name in a directory. *)
ChildOf(parent, name, node) ==
    \/ parent.is = "root" /\ node = Plain("client", NoTree) /\ name = MountClient
    \/ /\ parent.is = "client" /\ name \in DOMAIN RootsOf
       /\ node = Synthetic(BuildLevels(PairsOf(name)), TopLevel)
    \/ /\ parent.is = "synthetic"
       /\ \E v \in LevelAt(parent.levels, parent.level) :
             /\ v.name = name
             /\ v.kind = "synthetic" => node = Synthetic(parent.levels, Append(parent.level, name))
             /\ v.kind # "synthetic" => node = Plain(v.kind, v.tree)
    \/ /\ parent.is = "dir" /\ parent.tree \in Tree
       /\ \E e \in EntriesOf[parent.tree] : e.name = name /\ node = Plain(e.kind, e.tree)

(* What a lookup has found out, when it has not taken the lock again. *)
CallFinds(is, c) ==
    /\ c.at \in {"list", "snapshot", "roots", "tree"} => c.ino \in DOMAIN is
    /\ c.at = "list" => is[c.ino].is = "root"
    /\ c.at \in {"snapshot", "roots"} => is[c.ino].is = "client"
    /\ c.at = "snapshot" => c.pairs = <<>>
    /\ c.at = "roots" =>
          /\ Len(c.pairs) <= RootCount(c.name)
          /\ c.doubtful \/ \A k \in 1 .. Len(c.pairs) : c.pairs[k] = PairsOf(c.name)[k]
    /\ c.at = "tree" => ChildOf(is[c.ino], c.name, Plain("dir", c.tree))

(* The inductive invariant: a name that has a number is that of a child. *)
NumbersRight ==
    /\ 1 \in DOMAIN inodes /\ inodes[1] = Plain("root", NoTree)
    /\ \A k \in DOMAIN numbered :
          /\ k[1] \in DOMAIN inodes /\ numbered[k] \in DOMAIN inodes /\ k[1] < numbered[k]
          /\ ChildOf(inodes[k[1]], k[2], inodes[numbered[k]])
    /\ \A t \in Thread : CallFinds(inodes, calls[t])

(* What a step does to the numbers, and to the calls. *)
NumberStep ==
    \/ UNCHANGED numbered
    \/ \E parent \in DOMAIN inodes : \E name, node :
          /\ ChildOf(inodes[parent], name, node)
          /\ inodes' = Append(inodes, node)
          /\ numbered' = With(numbered, <<parent, name>>, Len(inodes) + 1)
CallStep == calls' = calls \/ \E t \in Thread : \E c : CallFinds(inodes, c) /\ calls' = [calls EXCEPT ![t] = c]

(* insert_named *)
LEMMA InsertChild ==
    ASSUME NEW parent \in DOMAIN inodes, NEW name, NEW node, ChildOf(inodes[parent], name, node),
           InsertNamed(parent, name, node)
    PROVE  NumberStep
BY DEF InsertNamed, Insert, NumberStep

(* A call that does not look up a name. *)
LEMMA NoLookupFinds ==
    /\ \A is, c : c.at \notin {"list", "snapshot", "roots", "tree"} => CallFinds(is, c)
    /\ \A is : CallFinds(is, NoCall)
    /\ \A ino, name, phase, tree : /\ Asks(ino, name, phase, tree).at = phase
                                   /\ Asks(ino, name, phase, tree).ino = ino
                                   /\ Asks(ino, name, phase, tree).name = name
                                   /\ Asks(ino, name, phase, tree).tree = tree
                                   /\ Asks(ino, name, phase, tree).pairs = <<>>
BY DEF CallFinds, NoCall, Asks

(* A call that ends, and one that begins. *)
LEMMA CallSteps ==
    ASSUME NEW t \in Thread
    PROVE  /\ Ends(t) => CallStep
           /\ \A c : Goes(t, c) /\ CallFinds(inodes, c) => CallStep
           /\ \A c : Begin(t, c) /\ CallFinds(inodes, c) => CallStep
BY NoLookupFinds DEF Ends, Goes, Begin, CallStep

(* real_inode *)
LEMMA RealInodeChild ==
    ASSUME NEW t \in Thread, NEW ino \in DOMAIN inodes, NEW e,
           ChildOf(inodes[ino], e.name, Plain(e.kind, e.tree)), RealInode(t, ino, e)
    PROVE  NumberStep /\ CallStep
<1>1. CASE UNCHANGED <<calls, numbered>>
  BY <1>1 DEF NumberStep, CallStep
<1>2. CASE /\ e.kind = "dir" /\ e.tree # NoTree /\ UNCHANGED numbered
           /\ calls' = [calls EXCEPT ![t] = Asks(ino, e.name, "tree", e.tree)]
  <2> DEFINE c == Asks(ino, e.name, "tree", e.tree)
  <2>1. c.at = "tree" /\ c.ino = ino /\ c.name = e.name /\ c.tree = e.tree
    BY NoLookupFinds
  <2>2. calls' = [calls EXCEPT ![t] = c]
    BY <1>2
  <2> HIDE DEF c
  <2>3. CallFinds(inodes, c)
    BY <1>2, <2>1 DEF CallFinds
  <2> QED
    BY <1>2, <2>2, <2>3 DEF NumberStep, CallStep
<1>3. CASE InsertNamed(ino, e.name, Plain(e.kind, e.tree)) /\ UNCHANGED calls
  BY <1>3, InsertChild DEF CallStep
<1> QED
  BY <1>1, <1>2, <1>3 DEF RealInode

(* lookup in a directory that is made up *)
LEMMA LevelChild ==
    ASSUME NEW t \in Thread, NEW ino \in DOMAIN inodes, NEW name, LookupLevel(t, ino, name)
    PROVE  NumberStep /\ CallStep
<1> DEFINE node == inodes[ino]
<1>1. PICK v \in LevelAt(node.levels, node.level) :
         /\ v.name = name
         /\ IF v.kind = "synthetic"
            THEN /\ InsertNamed(ino, name, Synthetic(node.levels, Append(node.level, name)))
                 /\ UNCHANGED calls
            ELSE RealInode(t, ino, v)
  BY DEF LookupLevel
<1>2. node.is = "synthetic"
  BY DEF LookupLevel
<1> HIDE DEF node
<1>3. CASE v.kind = "synthetic"
  <2>1. ChildOf(node, name, Synthetic(node.levels, Append(node.level, name)))
    BY <1>1, <1>2, <1>3 DEF ChildOf
  <2> QED
    BY <1>1, <1>3, <2>1, InsertChild DEF CallStep, node
<1>4. CASE v.kind # "synthetic"
  <2>1. ChildOf(node, v.name, Plain(v.kind, v.tree))
    BY <1>1, <1>2, <1>4 DEF ChildOf
  <2> QED
    BY <1>1, <1>4, <2>1, RealInodeChild DEF node
<1> QED
  BY <1>3, <1>4

(* lookup in a directory *)
LEMMA EntryChild ==
    ASSUME MountRight, NEW t \in Thread, NEW ino \in DOMAIN inodes, NEW name, LookupEntry(t, ino, name)
    PROVE  NumberStep /\ CallStep
<1> DEFINE node == inodes[ino]
<1>1. PICK e \in EntriesOf[node.tree] : e.name = name /\ RealInode(t, ino, e)
  BY DEF LookupEntry
<1>2. node.is = "dir" /\ node.tree \in Tree
  <2>1. node \in Node
    BY DEF MountRight
  <2> QED
    BY <2>1 DEF LookupEntry, Node
<1> HIDE DEF node
<1>3. ChildOf(node, e.name, Plain(e.kind, e.tree))
  BY <1>1, <1>2 DEF ChildOf
<1> QED
  BY <1>1, <1>3, RealInodeChild DEF node

(* lookup in the top directory, and below a client *)
LEMMA TopChild ==
    ASSUME NEW t \in Thread, NEW ino \in DOMAIN inodes
    PROVE  /\ LookupClient(t, ino, MountClient) => NumberStep /\ CallStep
           /\ \A ts : LookupSnapshot(t, ino, ts) => NumberStep /\ CallStep
<1>1. ASSUME LookupClient(t, ino, MountClient) PROVE NumberStep /\ CallStep
  <2> DEFINE c == Asks(ino, MountClient, "list", NoTree)
  <2>1. c.at = "list" /\ c.ino = ino
    BY NoLookupFinds
  <2>2. Begin(t, c) /\ UNCHANGED numbered /\ inodes[ino].is = "root"
    BY <1>1 DEF LookupClient
  <2> HIDE DEF c
  <2>3. CallFinds(inodes, c)
    BY <2>1, <2>2 DEF CallFinds
  <2> QED
    BY <2>2, <2>3, CallSteps DEF NumberStep
<1>2. ASSUME NEW ts, LookupSnapshot(t, ino, ts) PROVE NumberStep /\ CallStep
  <2> DEFINE c == Asks(ino, ts, "snapshot", NoTree)
  <2>1. c.at = "snapshot" /\ c.ino = ino /\ c.pairs = <<>>
    BY NoLookupFinds
  <2>2. Begin(t, c) /\ UNCHANGED numbered /\ inodes[ino].is = "client"
    BY <1>2 DEF LookupSnapshot
  <2> HIDE DEF c
  <2>3. CallFinds(inodes, c)
    BY <2>1, <2>2 DEF CallFinds
  <2> QED
    BY <2>2, <2>3, CallSteps DEF NumberStep
<1> QED
  BY <1>1, <1>2

(* The answers of the repository: the clients, ... *)
LEMMA ListChild ==
    ASSUME NumbersRight, NEW t \in Thread, ListClients(t)
    PROVE  NumberStep /\ CallStep
<1>1. calls[t].ino \in DOMAIN inodes /\ inodes[calls[t].ino].is = "root"
  BY DEF NumbersRight, CallFinds, ListClients
<1>2. CallStep
  BY CallSteps DEF ListClients
<1>3. CASE UNCHANGED numbered
  BY <1>2, <1>3 DEF NumberStep
<1>4. CASE calls[t].name = MountClient /\ InsertNamed(calls[t].ino, calls[t].name, Plain("client", NoTree))
  <2>1. ChildOf(inodes[calls[t].ino], calls[t].name, Plain("client", NoTree))
    BY <1>1, <1>4 DEF ChildOf
  <2> QED
    BY <1>1, <1>2, <1>4, <2>1, InsertChild
<1> QED
  BY <1>3, <1>4 DEF ListClients

(* ... the snapshot, ... *)
LEMMA SnapshotChild ==
    ASSUME MountRight, NumbersRight, NEW t \in Thread, ReadSnapshot(t)
    PROVE  NumberStep /\ CallStep
<1>1. calls[t] \in CallRecord /\ CallFinds(inodes, calls[t]) /\ CallRight(inodes, calls[t])
  BY DEF MountRight, NumbersRight
<1>2. calls[t].at = "snapshot" /\ UNCHANGED numbered
  BY DEF ReadSnapshot
<1>3. CASE Goes(t, NoCall)
  BY <1>2, <1>3, NoLookupFinds, CallSteps DEF NumberStep
<1>4. CASE Goes(t, [calls[t] EXCEPT !.at = "roots"])
  <2> DEFINE c == [calls[t] EXCEPT !.at = "roots"]
  <2>1. c.at = "roots" /\ c.ino = calls[t].ino /\ c.pairs = calls[t].pairs /\ c.name = calls[t].name
    BY <1>1 DEF CallRecord
  <2> HIDE DEF c
  <2>2. c.ino \in DOMAIN inodes /\ inodes[c.ino].is = "client" /\ c.pairs = <<>> /\ c.name \in DOMAIN RootsOf
    BY <1>1, <1>2, <2>1 DEF CallFinds, CallRight
  <2>3. Len(c.pairs) = 0 /\ 1 .. Len(c.pairs) = {} /\ RootCount(c.name) \in Nat
    BY <2>2, RootsFacts
  <2>4. CallFinds(inodes, c)
    BY <2>1, <2>2, <2>3 DEF CallFinds
  <2> QED
    BY <1>2, <1>4, <2>4, CallSteps DEF NumberStep, c
<1> QED
  BY <1>3, <1>4 DEF ReadSnapshot

(* ... its roots, one by one, ... *)
LEMMA RootChild ==
    ASSUME MountRight, NumbersRight, NEW t \in Thread, ReadRoot(t)
    PROVE  NumberStep /\ CallStep
<1> DEFINE call == calls[t]
<1>1. call \in CallRecord /\ CallFinds(inodes, call) /\ CallRight(inodes, call)
  BY DEF MountRight, NumbersRight
<1>2. call.at = "roots" /\ UNCHANGED numbered /\ Len(call.pairs) < RootCount(call.name)
  BY DEF ReadRoot, RootsLeft, RootCount
<1>3. PICK form, doubt : /\ Goes(t, WithRoot(call, NextRoot(t), form, doubt))
                         /\ doubt \in BOOLEAN /\ (doubt \/ form = FormOf(NextRoot(t)))
  BY Zenon DEF ReadRoot
<1> DEFINE c == WithRoot(call, NextRoot(t), form, doubt)
           pair == [root |-> NextRoot(t), form |-> form]
<1>4. /\ c.at = call.at /\ c.ino = call.ino /\ c.name = call.name /\ c.pairs = Append(call.pairs, pair)
      /\ c.doubtful = (call.doubtful \/ doubt)
  BY <1>1 DEF WithRoot, CallRecord
<1>5. call.pairs \in Seq(Pair) /\ call.name \in DOMAIN RootsOf
  BY <1>1, <1>2 DEF CallRecord, CallRight
<1>6. NextRoot(t) = RootsOf[call.name][Len(call.pairs) + 1]
  BY DEF NextRoot
<1> DEFINE m == Len(call.pairs)
<1>7. m \in Nat /\ RootCount(call.name) \in Nat /\ m + 1 \in 1 .. RootCount(call.name)
  BY <1>2, <1>5, RootsFacts
<1>8. doubt \/ pair = PairsOf(call.name)[m + 1]
  <2> SUFFICES ASSUME ~doubt PROVE pair = PairsOf(call.name)[m + 1]
    OBVIOUS
  <2>1. m + 1 \in DOMAIN RootsOf[call.name]
    BY <1>5, <1>7, RootsFacts
  <2>2. PairsOf(call.name)[m + 1] =
          [root |-> RootsOf[call.name][m + 1], form |-> FormOf(RootsOf[call.name][m + 1])]
    BY <2>1 DEF PairsOf
  <2> QED
    BY <1>3, <1>6, <2>2
<1>9. Len(Append(call.pairs, pair)) = m + 1
      /\ \A k \in 1 .. m + 1 : Append(call.pairs, pair)[k] = IF k = m + 1 THEN pair ELSE call.pairs[k]
  <2> HIDE DEF pair, call
  <2> QED
    BY <1>5
<1> HIDE DEF c, pair, call, m
<1>10. c.doubtful \/ \A k \in 1 .. Len(c.pairs) : c.pairs[k] = PairsOf(c.name)[k]
  <2> SUFFICES ASSUME ~call.doubtful, ~doubt, NEW k \in 1 .. Len(c.pairs) PROVE c.pairs[k] = PairsOf(c.name)[k]
    BY <1>3, <1>4
  <2>1. k \in 1 .. m + 1 /\ (k = m + 1 \/ k \in 1 .. m)
    BY <1>4, <1>7, <1>9
  <2>2. k \in 1 .. m => call.pairs[k] = PairsOf(call.name)[k]
    BY <1>1, <1>2 DEF CallFinds, m
  <2> QED
    BY <1>4, <1>7, <1>8, <1>9, <2>1, <2>2
<1>11. CallFinds(inodes, c)
  <2>1. c.at = "roots" /\ c.ino \in DOMAIN inodes /\ inodes[c.ino].is = "client"
    BY <1>1, <1>2, <1>4 DEF CallFinds
  <2>2. Len(c.pairs) <= RootCount(c.name)
    BY <1>4, <1>7, <1>9
  <2> QED
    BY <1>10, <2>1, <2>2 DEF CallFinds
<1> QED
  BY <1>2, <1>3, <1>11, CallSteps DEF NumberStep, c

(* ... so that a view is remembered only if it is what the snapshot is, ... *)
LEMMA ShowChild ==
    ASSUME MountRight, NumbersRight, NEW t \in Thread, ShowSnapshot(t)
    PROVE  NumberStep /\ CallStep
<1> DEFINE call == calls[t]
<1>1. call \in CallRecord /\ CallFinds(inodes, call) /\ CallRight(inodes, call)
  BY DEF MountRight, NumbersRight
<1>2. call.at = "roots" /\ ~(Len(call.pairs) < RootCount(call.name)) /\ CallStep
  BY CallSteps DEF ShowSnapshot, RootsLeft, RootCount
<1>3. CASE UNCHANGED numbered
  BY <1>2, <1>3 DEF NumberStep
<1>4. CASE ~call.doubtful /\ InsertNamed(call.ino, call.name, Synthetic(BuildLevels(call.pairs), TopLevel))
  <2> HIDE DEF call
  <2>1. call.pairs \in Seq(Pair) /\ call.name \in DOMAIN RootsOf
    BY <1>1, <1>2 DEF CallRecord, CallRight
  <2>2. /\ call.ino \in DOMAIN inodes /\ inodes[call.ino].is = "client"
        /\ Len(call.pairs) <= RootCount(call.name)
        /\ \A k \in 1 .. Len(call.pairs) : call.pairs[k] = PairsOf(call.name)[k]
    BY <1>1, <1>2, <1>4 DEF CallFinds
  <2>3. PairsOf(call.name) \in Seq(Pair) /\ Len(PairsOf(call.name)) = RootCount(call.name)
        /\ RootCount(call.name) \in Nat /\ Len(call.pairs) \in Nat
    BY <2>1, PairsFacts, RootsFacts
  <2>4. Len(call.pairs) = Len(PairsOf(call.name))
    BY <1>2, <2>2, <2>3
  <2>5. Starts(call.pairs, PairsOf(call.name))
    BY <2>2, <2>3, <2>4 DEF Starts
  <2>6. call.pairs = PairsOf(call.name)
    <3> DEFINE p == PairsOf(call.name)
               q == call.pairs
    <3>1. p \in Seq(Pair) /\ q \in Seq(Pair) /\ Len(q) = Len(p) /\ Starts(q, p)
      BY <2>1, <2>3, <2>4, <2>5
    <3> HIDE DEF p, q
    <3>2. q = p
      BY <3>1, SamePath
    <3> QED
      BY <3>2 DEF p, q
  <2>7. ChildOf(inodes[call.ino], call.name, Synthetic(BuildLevels(call.pairs), TopLevel))
    BY <2>1, <2>2, <2>6 DEF ChildOf
  <2> QED
    BY <1>2, <1>4, <2>2, <2>7, InsertChild
<1> QED
  BY <1>3, <1>4 DEF ShowSnapshot, RememberIfSure

(* ... and the tree of a directory. *)
LEMMA TreeChild ==
    ASSUME NumbersRight, NEW t \in Thread, ReadTree(t)
    PROVE  NumberStep /\ CallStep
<1>1. calls[t].at = "tree" /\ CallStep
      /\ InsertNamed(calls[t].ino, calls[t].name, Plain("dir", calls[t].tree))
  BY CallSteps DEF ReadTree
<1>2. /\ calls[t].ino \in DOMAIN inodes
      /\ ChildOf(inodes[calls[t].ino], calls[t].name, Plain("dir", calls[t].tree))
  BY <1>1 DEF NumbersRight, CallFinds
<1> QED
  BY <1>1, <1>2, InsertChild

(* Every step. *)
LEMMA StepChildren ==
    ASSUME MountRight, NumbersRight, [MountNext]_mountVars
    PROVE  NumberStep /\ CallStep
<1>1. CASE UNCHANGED mountVars
  BY <1>1 DEF mountVars, NumberStep, CallStep
<1>2. ASSUME NEW ts \in kept, ForgetSnapshot(ts) PROVE NumberStep /\ CallStep
  BY <1>2 DEF ForgetSnapshot, NumberStep, CallStep
<1>3. ASSUME NEW t \in Thread, NEW ino \in DOMAIN inodes,
             \/ LookupClient(t, ino, MountClient)
             \/ \E ts \in DOMAIN RootsOf : LookupSnapshot(t, ino, ts)
             \/ \E n : LookupLevel(t, ino, n) \/ LookupEntry(t, ino, n)
      PROVE  NumberStep /\ CallStep
  BY <1>3, TopChild, LevelChild, EntryChild
<1>4. ASSUME NEW t \in Thread, NEW ino \in DOMAIN inodes, NEW span, ReadFile(t, ino, span)
      PROVE  NumberStep /\ CallStep
  <2> DEFINE c == [NoCall EXCEPT !.at = "resolve", !.ino = ino, !.span = span]
  <2>1. c.at = "resolve"
    BY DEF NoCall
  <2>2. Begin(t, c) /\ UNCHANGED numbered
    BY <1>4 DEF ReadFile
  <2> HIDE DEF c
  <2> QED
    BY <2>1, <2>2, NoLookupFinds, CallSteps DEF NumberStep
<1>5. ASSUME NEW t \in Thread, ResolveFile(t) PROVE NumberStep /\ CallStep
  <2>1. PICK at, pos, end : /\ Goes(t, [calls[t] EXCEPT !.at = at, !.pos = pos, !.end = end])
                            /\ at \in {"done", "chunk"}
    BY <1>5 DEF ResolveFile
  <2> DEFINE c == [calls[t] EXCEPT !.at = at, !.pos = pos, !.end = end]
  <2>2. c.at = at
    <3>1. calls[t] \in CallRecord
      BY DEF MountRight
    <3> QED
      BY <3>1 DEF CallRecord
  <2> HIDE DEF c
  <2>3. CallFinds(inodes, c)
    BY <2>1, <2>2, NoLookupFinds
  <2> QED
    BY <1>5, <2>1, <2>3, CallSteps DEF ResolveFile, NumberStep, c
<1>6. ASSUME NEW t \in Thread, ChunkCached(t) \/ FetchChunk(t) PROVE NumberStep /\ CallStep
  <2>1. Copied(t).at \in {"short", "chunk", "done"}
    <3>1. calls[t] \in CallRecord
      BY DEF MountRight
    <3> QED
      BY <3>1 DEF Copied, CallRecord
  <2>2. CallFinds(inodes, Copied(t))
    BY <2>1, NoLookupFinds
  <2> QED
    BY <1>6, <2>2, CallSteps DEF ChunkCached, FetchChunk, NumberStep
<1>7. ASSUME NEW t \in Thread, ChunkMissing(t) PROVE NumberStep /\ CallStep
  <2>1. [calls[t] EXCEPT !.at = "fetch"].at = "fetch"
    <3>1. calls[t] \in CallRecord
      BY DEF MountRight
    <3> QED
      BY <3>1 DEF CallRecord
  <2>2. CallFinds(inodes, [calls[t] EXCEPT !.at = "fetch"])
    BY <2>1, NoLookupFinds
  <2> QED
    BY <1>7, <2>2, CallSteps DEF ChunkMissing, NumberStep
<1>8. ASSUME NEW t \in Thread, ReadReturns(t) \/ Fails(t) PROVE NumberStep /\ CallStep
  BY <1>8, CallSteps DEF ReadReturns, Fails, NumberStep
<1> QED
  BY <1>1, <1>2, <1>3, <1>4, <1>5, <1>6, <1>7, <1>8, ListChild, SnapshotChild, RootChild, ShowChild, TreeChild
     DEF MountNext

(* Nodes keep their numbers, so what was true of them stays so. *)
LEMMA NumbersStayRight ==
    ASSUME MountRight, NumbersRight, [MountNext]_mountVars
    PROVE  NumbersRight'
<1>1. NumberStep /\ CallStep /\ NumbersGrow
  BY StepChildren, StepEffects DEF Effects
<1>2. inodes \in Seq(Node) /\ Len(inodes) \in Nat /\ DOMAIN inodes = 1 .. Len(inodes)
  BY DEF MountRight
<1>3. \A i \in DOMAIN inodes : i \in DOMAIN inodes' /\ inodes'[i] = inodes[i]
  BY <1>1, <1>2 DEF NumbersGrow
<1>4. 1 \in DOMAIN inodes' /\ inodes'[1] = Plain("root", NoTree)
  BY <1>3 DEF NumbersRight
<1>5. \A k \in DOMAIN numbered :
         /\ k[1] \in DOMAIN inodes' /\ numbered[k] \in DOMAIN inodes' /\ k[1] < numbered[k]
         /\ ChildOf(inodes'[k[1]], k[2], inodes'[numbered[k]])
  BY <1>3 DEF NumbersRight
<1>6. \A k \in DOMAIN numbered' :
         /\ k[1] \in DOMAIN inodes' /\ numbered'[k] \in DOMAIN inodes' /\ k[1] < numbered'[k]
         /\ ChildOf(inodes'[k[1]], k[2], inodes'[numbered'[k]])
  <2>1. CASE numbered' = numbered
    BY <1>5, <2>1
  <2>2. ASSUME NEW parent \in DOMAIN inodes, NEW name, NEW node, ChildOf(inodes[parent], name, node),
               inodes' = Append(inodes, node), numbered' = With(numbered, <<parent, name>>, Len(inodes) + 1)
        PROVE  \A k \in DOMAIN numbered' :
                  /\ k[1] \in DOMAIN inodes' /\ numbered'[k] \in DOMAIN inodes' /\ k[1] < numbered'[k]
                  /\ ChildOf(inodes'[k[1]], k[2], inodes'[numbered'[k]])
    <3> DEFINE key == <<parent, name>>
               n == Len(inodes) + 1
    <3>1. key[1] = parent /\ key[2] = name
      OBVIOUS
    <3>2. n \in DOMAIN inodes' /\ inodes'[n] = node /\ parent < n
      <4>1. Len(Append(inodes, node)) = n /\ Append(inodes, node)[n] = node
            /\ DOMAIN Append(inodes, node) = 1 .. n
        BY <1>2
      <4> QED
        BY <1>2, <2>2, <4>1
    <3>3. /\ \A k \in DOMAIN numbered' : k = key \/ k \in DOMAIN numbered
          /\ \A k \in DOMAIN numbered' : numbered'[k] = IF k = key THEN n ELSE numbered[k]
      BY <2>2 DEF With
    <3> HIDE DEF key, n
    <3> SUFFICES ASSUME NEW k \in DOMAIN numbered'
                 PROVE  /\ k[1] \in DOMAIN inodes' /\ numbered'[k] \in DOMAIN inodes' /\ k[1] < numbered'[k]
                        /\ ChildOf(inodes'[k[1]], k[2], inodes'[numbered'[k]])
      OBVIOUS
    <3>4. CASE k = key
      <4>1. numbered'[k] = n /\ k[1] = parent /\ k[2] = name
        BY <3>1, <3>3, <3>4
      <4>2. parent \in DOMAIN inodes' /\ inodes'[parent] = inodes[parent]
        BY <1>3
      <4> QED
        BY <2>2, <3>2, <4>1, <4>2
    <3>5. CASE k # key
      <4>1. k \in DOMAIN numbered /\ numbered'[k] = numbered[k]
        BY <3>3, <3>5
      <4> QED
        BY <1>5, <4>1
    <3> QED
      BY <3>4, <3>5
  <2> QED
    BY <1>1, <2>1, <2>2 DEF NumberStep
<1>7. \A c : CallFinds(inodes, c) => CallFinds(inodes', c)
  BY <1>3 DEF CallFinds
<1>8. \A t \in Thread : CallFinds(inodes', calls'[t])
  <2>1. \A t \in Thread : CallFinds(inodes, calls[t]) /\ DOMAIN calls = Thread
    BY DEF NumbersRight, MountRight
  <2>2. \A t \in Thread : CallFinds(inodes, calls'[t])
    BY <1>1, <2>1 DEF CallStep
  <2> QED
    BY <1>7, <2>2
<1> QED
  BY <1>4, <1>6, <1>8 DEF NumbersRight

-----------------------------------------------------------------------------
(* A node below a snapshot is what is there. *)
Right(node, ts, path) ==
    \/ node = Synthetic(BuildLevels(PairsOf(ts)), path) /\ (path = <<>> \/ Above(ts, path))
    \/ /\ node = PlaceOf(ts, path) /\ node = Plain(node.is, node.tree)
       /\ node.is \notin {"root", "client", "synthetic", "nowhere"}

(* So are its children. *)
LEMMA RightDeeper ==
    ASSUME NEW ts \in DOMAIN RootsOf, NEW path \in Seq(Names), NEW parent, Right(parent, ts, path),
           NEW name, NEW node, ChildOf(parent, name, node)
    PROVE  name \in Names /\ Right(node, ts, Append(path, name))
<1> DEFINE L == BuildLevels(PairsOf(ts))
<1>1. CASE parent = Synthetic(L, path) /\ (path = <<>> \/ Above(ts, path))
  <2>1. LevelTrue(ts, path)
    BY <1>1, LevelPlaces
  <2>2. parent.is = "synthetic" /\ parent.levels = L /\ parent.level = path
    BY <1>1, PlainFields
  <2>3. PICK v \in LevelAt(L, path) :
           /\ v.name = name
           /\ v.kind = "synthetic" => node = Synthetic(L, Append(path, name))
           /\ v.kind # "synthetic" => node = Plain(v.kind, v.tree)
    BY <2>2 DEF ChildOf
  <2>4. /\ v.name \in Names
        /\ v.kind = "synthetic" => Above(ts, Append(path, v.name))
        /\ v.kind # "synthetic" =>
              /\ PlaceOf(ts, Append(path, v.name)) = Plain(v.kind, v.tree)
              /\ v.kind \notin {"root", "client", "synthetic", "nowhere"}
    BY <2>1 DEF LevelTrue
  <2> HIDE DEF L
  <2>5. CASE v.kind = "synthetic"
    BY <2>3, <2>4, <2>5 DEF Right, L
  <2>6. CASE v.kind # "synthetic"
    <3>1. node.is = v.kind /\ node.tree = v.tree
      BY <2>3, <2>6, PlainFields
    <3> QED
      BY <2>3, <2>4, <2>6, <3>1 DEF Right
  <2> QED
    BY <2>5, <2>6
<1>2. CASE /\ parent = PlaceOf(ts, path) /\ parent = Plain(parent.is, parent.tree)
           /\ parent.is \notin {"root", "client", "synthetic", "nowhere"}
  <2>1. parent.is = "dir" /\ parent.tree \in Tree
    BY <1>2 DEF ChildOf
  <2> DEFINE tree == parent.tree
  <2>2. PICK e \in EntriesOf[tree] : e.name = name /\ node = Plain(e.kind, e.tree)
    BY <1>2 DEF ChildOf
  <2>3. name \in Names
    BY <2>1, <2>2 DEF Names, EntryNames, Tree
  <2>4. PlaceOf(ts, Append(path, name)) = Deeper(parent, name)
    BY <1>2, <2>1, <2>3, PlaceDeeper
  <2>5. Deeper(parent, name) = Deeper(Plain("dir", tree), name)
    <3>1. parent = Plain("dir", tree)
      BY <1>2, <2>1
    <3> QED
      BY <3>1
  <2>6. Deeper(Plain("dir", tree), name) = Plain(e.kind, e.tree)
    <3> HIDE DEF tree
    <3>1. tree \in Tree
      BY <2>1 DEF tree
    <3> QED
      BY <2>2, <3>1, DeeperFinds
  <2>7. e.kind \notin {"root", "client", "synthetic", "nowhere"}
    BY <2>1, <2>2, MountSnapshots DEF Tree
  <2>8. node.is = e.kind /\ node.tree = e.tree
    BY <2>2, PlainFields
  <2> QED
    BY <2>2, <2>3, <2>4, <2>5, <2>6, <2>7, <2>8 DEF Right
<1> QED
  BY <1>1, <1>2 DEF Right

(* What is at the names from the top on: the client, the snapshot, a path. *)
AllNames == Names \cup {MountClient} \cup DOMAIN RootsOf

PathLeft(names) == SubSeq(names, 3, Len(names))

Placed(names, node) ==
    /\ names \in Seq(AllNames)
    /\ Len(names) = 0 => node = Plain("root", NoTree)
    /\ Len(names) = 1 => node = Plain("client", NoTree)
    /\ Len(names) > 1 => /\ names[2] \in DOMAIN RootsOf /\ PathLeft(names) \in Seq(Names)
                         /\ Right(node, names[2], PathLeft(names))

(* A name more leads to the child of that name. *)
LEMMA PlacedDeeper ==
    ASSUME NEW names, NEW parent, Placed(names, parent), NEW name, NEW node, ChildOf(parent, name, node)
    PROVE  Placed(Append(names, name), node)
<1> DEFINE l == Len(names)
           more == Append(names, name)
<1>1. names \in Seq(AllNames) /\ l \in Nat
  BY DEF Placed
<1>2. CASE l = 0
  <2>1. parent.is = "root"
    BY <1>2, PlainFields DEF Placed
  <2>2. name = MountClient /\ node = Plain("client", NoTree)
    BY <2>1 DEF ChildOf
  <2>3. name \in AllNames
    BY <2>2 DEF AllNames
  <2>4. more \in Seq(AllNames) /\ Len(more) = 1
    BY <1>1, <1>2, <2>3
  <2> HIDE DEF more
  <2> QED
    BY <2>2, <2>4 DEF Placed, more
<1>3. CASE l = 1
  <2>1. parent.is = "client"
    BY <1>3, PlainFields DEF Placed
  <2>2. name \in DOMAIN RootsOf /\ node = Synthetic(BuildLevels(PairsOf(name)), TopLevel)
    BY <2>1 DEF ChildOf
  <2>3. name \in AllNames
    BY <2>2 DEF AllNames
  <2>4. more \in Seq(AllNames) /\ Len(more) = 2 /\ more[2] = name
    <3>1. more \in Seq(AllNames) /\ Len(more) = l + 1 /\ more[l + 1] = name
      BY <1>1, <2>3, PathFacts
    <3> HIDE DEF more
    <3> QED
      BY <1>1, <1>3, <3>1
  <2>5. PathLeft(more) = <<>>
    <3> HIDE DEF more
    <3> QED
      BY <2>4, NothingFacts DEF PathLeft
  <2>6. Right(node, name, <<>>)
    BY <2>2 DEF Right, TopLevel
  <2>7. <<>> \in Seq(Names)
    OBVIOUS
  <2> HIDE DEF more
  <2> QED
    BY <2>2, <2>4, <2>5, <2>6, <2>7 DEF Placed, more
<1>4. CASE l > 1
  <2> DEFINE ts == names[2]
             path == PathLeft(names)
  <2>1. ts \in DOMAIN RootsOf /\ path \in Seq(Names) /\ Right(parent, ts, path)
    BY <1>4 DEF Placed
  <2> HIDE DEF ts, path
  <2>2. name \in Names /\ Right(node, ts, Append(path, name))
    BY <2>1, RightDeeper
  <2>3. name \in AllNames
    BY <2>2 DEF AllNames
  <2>4. more \in Seq(AllNames) /\ Len(more) = l + 1 /\ more[2] = ts
    BY <1>1, <1>4, <2>3 DEF ts
  <2>5. PathLeft(more) = Append(path, name)
    <3>1. 3 \in 1 .. Len(names) + 1
      BY <1>1, <1>4
    <3>2. SubSeq(Append(names, name), 3, Len(names) + 1) = Append(SubSeq(names, 3, Len(names)), name)
      BY <1>1, <2>3, <3>1, RestFacts
    <3> QED
      BY <2>4, <3>2 DEF PathLeft, path
  <2>6. Append(path, name) \in Seq(Names)
    BY <2>1, <2>2
  <2> HIDE DEF more
  <2> QED
    BY <1>1, <1>4, <2>1, <2>2, <2>4, <2>5, <2>6 DEF Placed, more
<1> HIDE DEF l
<1>5. l = 0 \/ l = 1 \/ l > 1
  BY <1>1
<1> QED
  BY <1>2, <1>3, <1>4, <1>5

(* The names on the way to a number, from those to its directory. *)
KeysOf(i) == {k \in DOMAIN numbered : numbered[k] = i /\ k[1] < i}
KeyOf(i) == CHOOSE k \in KeysOf(i) : TRUE

PathAt(g, i) ==
    IF i = 1 THEN [sure |-> TRUE, names |-> <<>>]
    ELSE IF KeysOf(i) = {} THEN [sure |-> FALSE, names |-> <<>>]
    ELSE [sure |-> g[KeyOf(i)[1]].sure, names |-> Append(g[KeyOf(i)[1]].names, KeyOf(i)[2])]

PathsBy(g, n) == g = [i \in 1 .. n |-> PathAt(g, i)]

(* The number of a child is greater than that of the directory. *)
LEMMA KeyFacts ==
    ASSUME MountRight, NumbersRight, NEW i \in DOMAIN inodes, KeysOf(i) # {}
    PROVE  /\ KeyOf(i)[1] \in 1 .. i - 1
           /\ ChildOf(inodes[KeyOf(i)[1]], KeyOf(i)[2], inodes[i])
<1>1. KeyOf(i) \in KeysOf(i)
  BY DEF KeyOf
<1>2. DOMAIN inodes = 1 .. Len(inodes) /\ Len(inodes) \in Nat
  BY DEF MountRight
<1> DEFINE k == KeyOf(i)
<1>3. k \in DOMAIN numbered /\ numbered[k] = i /\ k[1] < i
  BY <1>1 DEF KeysOf
<1> HIDE DEF k
<1>4. k[1] \in DOMAIN inodes /\ ChildOf(inodes[k[1]], k[2], inodes[numbered[k]])
  BY <1>3 DEF NumbersRight
<1> QED
  BY <1>2, <1>3, <1>4 DEF k

(* There is a function that does, so Paths does. *)
LEMMA PathsRun ==
    ASSUME MountRight, NumbersRight
    PROVE  PathsBy(Paths, Len(inodes))
<1> DEFINE n == Len(inodes)
           R == {m \in 0 .. n : \E g : PathsBy(g, m)}
<1>1. DOMAIN inodes = 1 .. n /\ n \in Nat
  BY DEF MountRight
<1>2. 0 \in R
  <2>1. 0 \in 0 .. n /\ 1 .. 0 = {}
    BY <1>1
  <2> DEFINE g == [i \in 1 .. 0 |-> 0]
  <2>2. g = [i \in 1 .. 0 |-> PathAt(g, i)]
    BY <2>1
  <2> HIDE DEF g
  <2>3. PathsBy(g, 0)
    BY <2>2 DEF PathsBy
  <2> QED
    BY <2>1, <2>3
<1>3. \A m \in 0 .. n - 1 : m \in R => m + 1 \in R
  <2> SUFFICES ASSUME NEW m \in 0 .. n - 1, NEW g, PathsBy(g, m) PROVE m + 1 \in R
    OBVIOUS
  <2> DEFINE h == [i \in 1 .. m + 1 |-> IF i <= m THEN g[i] ELSE PathAt(g, i)]
  <2>1. \A i \in 1 .. m : g[i] = PathAt(g, i)
    BY DEF PathsBy
  <2>2. \A i \in 1 .. m + 1 : h[i] = PathAt(g, i)
    BY <1>1, <2>1
  <2>3. \A i \in 1 .. m : h[i] = g[i]
    BY <1>1
  <2>4. h = [i \in 1 .. m + 1 |-> h[i]]
    OBVIOUS
  <2> HIDE DEF h
  <2>5. ASSUME NEW i \in 1 .. m + 1 PROVE PathAt(h, i) = PathAt(g, i)
    <3>1. i \in DOMAIN inodes
      BY <1>1
    <3>2. KeysOf(i) # {} => h[KeyOf(i)[1]] = g[KeyOf(i)[1]]
      <4> SUFFICES ASSUME KeysOf(i) # {} PROVE h[KeyOf(i)[1]] = g[KeyOf(i)[1]]
        OBVIOUS
      <4>1. KeyOf(i)[1] \in 1 .. i - 1
        BY <3>1, KeyFacts
      <4> QED
        BY <1>1, <2>3, <4>1
    <3> QED
      BY <3>2 DEF PathAt
  <2>6. \A i \in 1 .. m + 1 : h[i] = PathAt(h, i)
    BY <2>2, <2>5
  <2>7. PathsBy(h, m + 1)
    <3>1. [i \in 1 .. m + 1 |-> h[i]] = [i \in 1 .. m + 1 |-> PathAt(h, i)]
      BY <2>6
    <3> QED
      BY <2>4, <3>1 DEF PathsBy
  <2>8. m + 1 \in 0 .. n
    BY <1>1
  <2> QED
    BY <2>7, <2>8
<1> HIDE DEF R
<1>4. n \in R
  <2>1. n \in 0 .. n
    BY <1>1
  <2> QED
    BY <1>1, <1>2, <1>3, <2>1, UpTo
<1>5. PICK g : PathsBy(g, n)
  BY <1>4 DEF R
<1> DEFINE f == CHOOSE h : PathsBy(h, n)
<1>6. PathsBy(f, n)
  BY <1>5
<1>7. Paths = f
  <2>1. \A h : PathsBy(h, n) <=> h = [i \in DOMAIN inodes |-> PathAt(h, i)]
    BY <1>1 DEF PathsBy
  <2> QED
    BY <1>1, Zenon DEF Paths, PathsBy, PathAt, KeysOf, KeyOf
<1> QED
  BY <1>6, <1>7

(* The names on the way to a number lead there. *)
LEMMA PathsPlaced ==
    ASSUME MountRight, NumbersRight
    PROVE  \A i \in DOMAIN inodes : Paths[i].sure => Placed(Paths[i].names, inodes[i])
<1> DEFINE n == Len(inodes)
           R == {m \in 0 .. n : \A i \in 1 .. m : Paths[i].sure => Placed(Paths[i].names, inodes[i])}
<1>1. DOMAIN inodes = 1 .. n /\ n \in Nat
  BY DEF MountRight
<1>2. \A i \in 1 .. n : Paths[i] = PathAt(Paths, i)
  <2>1. PathsBy(Paths, n)
    BY PathsRun
  <2> QED
    BY <2>1 DEF PathsBy
<1>3. 0 \in R
  BY <1>1
<1>4. \A m \in 0 .. n - 1 : m \in R => m + 1 \in R
  <2> SUFFICES ASSUME NEW m \in 0 .. n - 1, m \in R PROVE m + 1 \in R
    OBVIOUS
  <2> DEFINE i == m + 1
  <2>1. i \in 1 .. n /\ i \in DOMAIN inodes /\ i \in 0 .. n /\ m = i - 1
    BY <1>1
  <2>2. \A j \in 1 .. i - 1 : Paths[j].sure => Placed(Paths[j].names, inodes[j])
    BY <2>1
  <2>3. \A j \in 1 .. i : j = i \/ j \in 1 .. i - 1
    BY <2>1
  <2> HIDE DEF i
  <2>4. Paths[i].sure => Placed(Paths[i].names, inodes[i])
    <3> SUFFICES ASSUME Paths[i].sure PROVE Placed(Paths[i].names, inodes[i])
      OBVIOUS
    <3>1. CASE i = 1
      <4>1. Paths[i].names = <<>>
        <5>1. PathAt(Paths, i) = [sure |-> TRUE, names |-> <<>>]
          BY <3>1 DEF PathAt
        <5> QED
          BY <1>2, <2>1, <5>1
      <4>2. inodes[i] = Plain("root", NoTree)
        BY <3>1 DEF NumbersRight
      <4>3. <<>> \in Seq(AllNames) /\ Len(<<>>) = 0
        OBVIOUS
      <4> QED
        BY <4>1, <4>2, <4>3 DEF Placed
    <3>2. CASE i # 1
      <4>0. Paths[i] = PathAt(Paths, i)
        BY <1>2, <2>1
      <4>1. KeysOf(i) # {}
        <5> SUFFICES ASSUME KeysOf(i) = {} PROVE FALSE
          OBVIOUS
        <5>1. PathAt(Paths, i) = [sure |-> FALSE, names |-> <<>>]
          BY <3>2 DEF PathAt
        <5>2. ~PathAt(Paths, i).sure
          BY <5>1
        <5> QED
          BY <4>0, <5>2
      <4> DEFINE k == KeyOf(i)
      <4>2. k[1] \in 1 .. i - 1 /\ ChildOf(inodes[k[1]], k[2], inodes[i])
        BY <2>1, <4>1, KeyFacts
      <4>3. Paths[i] = [sure |-> Paths[k[1]].sure, names |-> Append(Paths[k[1]].names, k[2])]
        BY <3>2, <4>0, <4>1 DEF PathAt
      <4> HIDE DEF k
      <4>4. Paths[k[1]].sure /\ Paths[i].names = Append(Paths[k[1]].names, k[2])
        BY <4>3
      <4>5. Placed(Paths[k[1]].names, inodes[k[1]])
        BY <2>2, <4>2, <4>4
      <4> QED
        BY <4>2, <4>4, <4>5, PlacedDeeper
    <3> QED
      BY <3>1, <3>2
  <2>5. \A j \in 1 .. i : Paths[j].sure => Placed(Paths[j].names, inodes[j])
    BY <2>2, <2>3, <2>4
  <2> QED
    BY <2>1, <2>5 DEF i
<1> HIDE DEF R
<1>5. n \in R
  <2>1. n \in 0 .. n
    BY <1>1
  <2> QED
    BY <1>1, <1>3, <1>4, <2>1, UpTo
<1> QED
  BY <1>1, <1>5 DEF R

(* A directory that is made up shows all there is. *)
LEMMA ShowsWhatIs ==
    ASSUME NEW ts \in DOMAIN RootsOf, NEW path \in Seq(Names), path = <<>> \/ Above(ts, path)
    PROVE  ShowsAll(Synthetic(BuildLevels(PairsOf(ts)), path), ts)
<1> DEFINE L == BuildLevels(PairsOf(ts))
<1>1. LevelTrue(ts, path)
  BY LevelPlaces
<1>2. Synthetic(L, path).levels = L /\ Synthetic(L, path).level = path
  BY PlainFields
<1>3. ASSUME NEW v \in LevelAt(L, path) PROVE v.name \in Names /\ PlaceOf(ts, Append(path, v.name)).is # "nowhere"
  <2>1. v.name \in Names
    BY <1>1 DEF LevelTrue
  <2>2. CASE v.kind = "synthetic"
    <3>1. Above(ts, Append(path, v.name)) /\ Append(path, v.name) \in Seq(Names)
      BY <1>1, <2>1, <2>2 DEF LevelTrue
    <3>2. PlaceOf(ts, Append(path, v.name)) = Synthetic(NoLevels, Append(path, v.name))
      BY <3>1, PlaceAbove
    <3> QED
      BY <2>1, <3>2, PlainFields
  <2>3. CASE v.kind # "synthetic"
    <3>1. PlaceOf(ts, Append(path, v.name)) = Plain(v.kind, v.tree) /\ v.kind # "nowhere"
      BY <1>1, <2>3 DEF LevelTrue
    <3> QED
      BY <2>1, <3>1, PlainFields
  <2> QED
    BY <2>2, <2>3
<1>4. \A n \in Names : PlaceOf(ts, Append(path, n)).is # "nowhere" => \E v \in LevelAt(L, path) : v.name = n
  BY <1>1 DEF LevelTrue
<1> HIDE DEF L
<1>5. {v.name : v \in LevelAt(L, path)} = {n \in Names : PlaceOf(ts, Append(path, n)).is # "nowhere"}
  BY <1>3, <1>4
<1> QED
  BY <1>2, <1>5 DEF ShowsAll, Names, L

(* lookup: for snapshots with any roots and any trees, whatever fails and   *)
(* whichever threads race, a name has one number for the whole session, and *)
(* behind it is what restore would put at that path; a directory that is    *)
(* made up shows every root below it and nothing else.                      *)
THEOREM NamesAlwaysTrue == MountSpec => []NamesTrue
<1>1. MountInit => NumbersRight
  <2> SUFFICES ASSUME MountInit PROVE NumbersRight
    OBVIOUS
  <2>1. inodes = <<Plain("root", NoTree)>> /\ DOMAIN numbered = {} /\ \A t \in Thread : calls[t] = NoCall
    BY DEF MountInit
  <2>2. 1 \in DOMAIN inodes /\ inodes[1] = Plain("root", NoTree)
    BY <2>1
  <2> QED
    BY <2>1, <2>2, NoLookupFinds DEF NumbersRight
<1>2. MountRight /\ NumbersRight /\ [MountNext]_mountVars => NumbersRight'
  BY NumbersStayRight
<1>3. ASSUME MountRight, NumbersRight, NamesOnce PROVE NamesTrue
  <2> DEFINE paths == Paths
  <2> SUFFICES ASSUME NEW i \in DOMAIN inodes, paths[i].sure, Len(paths[i].names) > 1
               PROVE  LET ts == paths[i].names[2]
                          path == PathLeft(paths[i].names)
                      IN /\ inodes[i].is = "synthetic" => ShowsAll(inodes[i], ts)
                         /\ [inodes[i] EXCEPT !.levels = NoLevels] = PlaceOf(ts, path)
    BY <1>3 DEF NamesTrue, PathLeft
  <2> DEFINE ts == paths[i].names[2]
             path == PathLeft(paths[i].names)
             node == inodes[i]
  <2>1. ts \in DOMAIN RootsOf /\ path \in Seq(Names) /\ Right(node, ts, path)
    BY <1>3, PathsPlaced DEF Placed
  <2> HIDE DEF ts, path, node, paths
  <2>2. CASE node = Synthetic(BuildLevels(PairsOf(ts)), path) /\ (path = <<>> \/ Above(ts, path))
    <3>1. ShowsAll(node, ts)
      BY <2>1, <2>2, ShowsWhatIs
    <3>2. [node EXCEPT !.levels = NoLevels] = Synthetic(NoLevels, path)
      BY <2>2, PlainFields
    <3>3. PlaceOf(ts, path) = Synthetic(NoLevels, path)
      BY <2>1, <2>2, PlaceAbove
    <3> QED
      BY <3>1, <3>2, <3>3 DEF ts, path, node
  <2>3. CASE /\ node = PlaceOf(ts, path) /\ node = Plain(node.is, node.tree)
             /\ node.is \notin {"root", "client", "synthetic", "nowhere"}
    <3>1. [node EXCEPT !.levels = NoLevels] = node
      BY <2>3, PlainFields
    <3> QED
      BY <2>3, <3>1 DEF ts, path, node
  <2> QED
    BY <2>1, <2>2, <2>3 DEF Right
<1> QED
  BY <1>1, <1>2, <1>3, MountInvariance, OneNumber, PTL DEF MountSpec
=============================================================================
