----------------------- MODULE RequestResponseProofs -----------------------
(***************************************************************************)
(* For any site, configuration and peers: every reply is logged once, and  *)
(* while nothing of what Harmless excludes happens no write leaves a       *)
(* response buffer, no worker ends or hangs, and the cache and the         *)
(* compressed contents belong together.  Where the peers ask as Tellable   *)
(* says, each of them reads one right reply per request.                   *)
(***************************************************************************)
EXTENDS RequestResponse, TLAPS, WellFoundedInduction, SequenceTheorems

(* From 0 up to n, one at a time.                                          *)
LEMMA Climb ==
  ASSUME NEW n \in Nat, NEW S, 0 \in S, \A k \in 1..n : k - 1 \in S => k \in S
  PROVE  0..n \subseteq S
<1> DEFINE T == {k \in 0..n : k \notin S}
           R == OpToRel(<, Nat)
<1> SUFFICES ASSUME T # {} PROVE FALSE
  OBVIOUS
<1>1. PICK x \in T : \A y \in T : ~ (<<y, x>> \in R)
  <2>1. T \subseteq Nat
    OBVIOUS
  <2> HIDE DEF R, T
  <2>2. IsWellFoundedOn(R, Nat)
    BY NatLessThanWellFounded DEF R
  <2> QED
    BY <2>1, <2>2, WFMin
<1>2. x \in 1..n /\ x - 1 \in 0..n /\ x - 1 < x
  OBVIOUS
<1>3. x - 1 \in S
  <2> SUFFICES ASSUME x - 1 \notin S PROVE FALSE
    OBVIOUS
  <2>1. x - 1 \in T /\ <<x - 1, x>> \in R
    BY <1>2 DEF OpToRel
  <2> QED
    BY <1>1, <2>1
<1> QED
  BY <1>2, <1>3

(* A set of numbers has a least one, which is what Min returns.            *)
LEMMA MinIs ==
  ASSUME NEW S \in SUBSET Nat, S # {}
  PROVE  Min(S) \in S /\ \A y \in S : Min(S) <= y
<1> DEFINE R == OpToRel(<, Nat)
<1>1. PICK x \in S : \A y \in S : ~ (<<y, x>> \in R)
  <2> HIDE DEF R
  <2>1. IsWellFoundedOn(R, Nat)
    BY NatLessThanWellFounded DEF R
  <2> QED
    BY <2>1, WFMin
<1>2. ASSUME NEW y \in S PROVE x <= y
  <2>1. x \in Nat /\ y \in Nat
    OBVIOUS
  <2>2. ~(y < x)
    BY <1>1, <2>1 DEF OpToRel
  <2> QED
    BY <2>1, <2>2
<1> QED
  BY <1>2 DEF Min
----------------------------------------------------------------------------
(* The sizes a growing buffer goes through.                                *)
IsSizes(size, n, f) == f = [k \in 0..n |-> IF k = 0 THEN size ELSE GrownSize(f[k - 1])]

LEMMA SizesAre ==
  ASSUME NEW b
  PROVE  /\ Sizes(b)[0] = b.size
         /\ \A k \in 1..MaxGrowths : Sizes(b)[k] = GrownSize(Sizes(b)[k - 1])
<1> DEFINE S == {n \in 0..MaxGrowths : \E f : IsSizes(b.size, n, f)}
           found == CHOOSE f : IsSizes(b.size, MaxGrowths, f)
<1>1. MaxGrowths \in Nat
  BY BufferAssumption
<1>2. 0 \in S
  <2>1. IsSizes(b.size, 0, [k \in 0..0 |-> b.size])
    BY DEF IsSizes
  <2> QED
    BY <1>1, <2>1
<1>3. ASSUME NEW n \in 1..MaxGrowths, n - 1 \in S PROVE n \in S
  <2>1. PICK f : IsSizes(b.size, n - 1, f)
    BY <1>3
  <2> DEFINE g == [k \in 0..n |-> IF k = n THEN GrownSize(f[n - 1]) ELSE f[k]]
  <2>2. \A k \in 0..n - 1 : f[k] = IF k = 0 THEN b.size ELSE GrownSize(f[k - 1])
    BY <2>1 DEF IsSizes
  <2>3. \A k \in 0..n - 1 : g[k] = f[k]
    BY <1>3
  <2>4. \A k \in 0..n : g[k] = IF k = 0 THEN b.size ELSE GrownSize(g[k - 1])
    <3>1. g[n] = GrownSize(f[n - 1])
      BY <1>3
    <3> QED
      BY <1>3, <2>2, <2>3, <3>1
  <2>5. g = [k \in 0..n |-> g[k]]
    OBVIOUS
  <2> HIDE DEF g
  <2>6. IsSizes(b.size, n, g)
    BY <2>4, <2>5 DEF IsSizes
  <2> QED
    BY <1>3, <2>6
<1>4. MaxGrowths \in S
  <2> HIDE DEF S
  <2> QED
    BY <1>1, <1>2, <1>3, Climb
<1>5. IsSizes(b.size, MaxGrowths, found)
  BY <1>4
<1>6. Sizes(b) = found
  BY DEF Sizes, IsSizes
<1> HIDE DEF found
<1>7. \A k \in 0..MaxGrowths :
        found[k] = IF k = 0 THEN b.size ELSE GrownSize(found[k - 1])
  BY <1>5 DEF IsSizes
<1> QED
  BY <1>1, <1>6, <1>7

(* A sequence, of whatever.                                                *)
IsSeq(s) == s \in Seq(Range(s))

LEMMA JoinIs ==
  ASSUME NEW s, NEW t, IsSeq(s), IsSeq(t)
  PROVE  IsSeq(s \o t) /\ Len(s \o t) = Len(s) + Len(t)
<1> DEFINE A == Range(s) \cup Range(t)
<1>1. s \in Seq(A) /\ t \in Seq(A)
  BY DEF IsSeq
<1> HIDE DEF A
<1>2. s \o t \in Seq(A) /\ Len(s \o t) = Len(s) + Len(t)
  BY <1>1
<1> DEFINE u == s \o t
<1> HIDE DEF u
<1>3. u \in [1..Len(u) -> A] /\ Len(u) \in Nat /\ DOMAIN u = 1..Len(u)
  <2>1. u \in Seq(A)
    BY <1>2 DEF u
  <2> QED
    BY <2>1
<1>4. u \in [1..Len(u) -> Range(u)]
  BY <1>3 DEF Range
<1>5. u \in Seq(Range(u))
  BY <1>3, <1>4
<1> QED
  BY <1>2, <1>5 DEF u, IsSeq

LEMMA NothingIs == IsSeq(<<>>) /\ Len(<<>>) = 0 /\ \A s : IsSeq(s) => s \o <<>> = s
<1>1. ASSUME NEW s, IsSeq(s) PROVE s \o <<>> = s
  <2> DEFINE A == Range(s)
  <2>1. s \in Seq(A)
    BY <1>1 DEF IsSeq
  <2> HIDE DEF A
  <2> QED
    BY <2>1
<1> QED
  BY <1>1 DEF IsSeq

(* A part of a sequence.                                                   *)
LEMMA SliceIs ==
  ASSUME NEW s, IsSeq(s), NEW m \in Nat, m >= 1, NEW n \in Nat, n <= Len(s)
  PROVE  /\ IsSeq(SubSeq(s, m, n))
         /\ Len(SubSeq(s, m, n)) = IF m <= n THEN n - m + 1 ELSE 0
         /\ \A i \in 1..n - m + 1 : SubSeq(s, m, n)[i] = s[m + i - 1]
<1> DEFINE t == SubSeq(s, m, n)
           A == Range(s)
<1>1. s \in Seq(A)
  BY DEF IsSeq
<1> HIDE DEF A
<1>2. \A i \in m..n : s[i] \in A
  BY <1>1
<1>3. /\ t \in Seq(A) /\ Len(t) = IF m <= n THEN n - m + 1 ELSE 0
      /\ \A i \in 1..n - m + 1 : t[i] = s[m + i - 1]
  BY <1>2, SubSeqProperties
<1> HIDE DEF t
<1>4. IsSeq(t)
  BY <1>3, SeqOfRange DEF IsSeq
<1> QED
  BY <1>3, <1>4 DEF t

(* The elements of two sequences joined.                                   *)
LEMMA JoinAt ==
  ASSUME NEW s, NEW t, IsSeq(s), IsSeq(t)
  PROVE  /\ \A i \in 1..Len(s) : (s \o t)[i] = s[i]
         /\ \A i \in 1..Len(t) : (s \o t)[Len(s) + i] = t[i]
<1> DEFINE A == Range(s) \cup Range(t)
<1>1. s \in Seq(A) /\ t \in Seq(A)
  BY DEF IsSeq
<1> HIDE DEF A
<1> QED
  BY <1>1

(* A part of the first of two sequences, and of the second.                *)
LEMMA SliceOfJoin ==
  ASSUME NEW s, NEW t, IsSeq(s), IsSeq(t), NEW m \in Nat, m >= 1, NEW n \in Nat
  PROVE  /\ n <= Len(s) => SubSeq(s \o t, m, n) = SubSeq(s, m, n)
         /\ n <= Len(t) => SubSeq(s \o t, Len(s) + m, Len(s) + n) = SubSeq(t, m, n)
<1> DEFINE l == Len(s)
           u == s \o t
<1>1. /\ l \in Nat /\ Len(t) \in Nat /\ IsSeq(u) /\ Len(u) = l + Len(t)
      /\ \A i \in 1..l : u[i] = s[i]
      /\ \A i \in 1..Len(t) : u[l + i] = t[i]
  BY JoinIs, JoinAt DEF IsSeq
<1> HIDE DEF l, u
<1>2. ASSUME n <= l PROVE SubSeq(u, m, n) = SubSeq(s, m, n)
  <2>1. l = Len(s) /\ n <= Len(u)
    BY <1>1, <1>2 DEF l
  <2> DEFINE v == SubSeq(u, m, n)
             w == SubSeq(s, m, n)
  <2>2. /\ IsSeq(v) /\ Len(v) = IF m <= n THEN n - m + 1 ELSE 0
        /\ \A i \in 1..n - m + 1 : v[i] = u[m + i - 1]
    BY <1>1, <2>1, SliceIs
  <2>3. /\ IsSeq(w) /\ Len(w) = IF m <= n THEN n - m + 1 ELSE 0
        /\ \A i \in 1..n - m + 1 : w[i] = s[m + i - 1]
    BY <1>2, <2>1, SliceIs
  <2>4. \A i \in 1..n - m + 1 : m + i - 1 \in 1..l
    BY <1>1, <1>2
  <2> HIDE DEF v, w
  <2>5. \A i \in 1..n - m + 1 : v[i] = w[i]
    <3>1. ASSUME NEW i \in 1..n - m + 1 PROVE v[i] = w[i]
      <4>1. u[m + i - 1] = s[m + i - 1]
        BY <1>1, <2>4
      <4> QED
        BY <2>2, <2>3, <4>1
    <3> QED
      BY <3>1
  <2>6. v \in Seq(Range(v) \cup Range(w)) /\ w \in Seq(Range(v) \cup Range(w))
    BY <2>2, <2>3 DEF IsSeq
  <2>7. \A i \in 1..Len(v) : v[i] = w[i]
    BY <2>2, <2>5
  <2>8. v = w
    BY <2>2, <2>3, <2>6, <2>7, SeqEqual
  <2> QED
    BY <2>8 DEF v, w
<1>3. ASSUME n <= Len(t) PROVE SubSeq(u, l + m, l + n) = SubSeq(t, m, n)
  <2>1. l + m \in Nat /\ l + m >= 1 /\ l + n \in Nat /\ l + n <= Len(u)
    BY <1>1, <1>3
  <2> DEFINE v == SubSeq(u, l + m, l + n)
             w == SubSeq(t, m, n)
  <2>2. /\ IsSeq(v) /\ Len(v) = IF l + m <= l + n THEN (l + n) - (l + m) + 1 ELSE 0
        /\ \A i \in 1..(l + n) - (l + m) + 1 : v[i] = u[(l + m) + i - 1]
    BY <1>1, <2>1, SliceIs
  <2>3. /\ IsSeq(w) /\ Len(w) = IF m <= n THEN n - m + 1 ELSE 0
        /\ \A i \in 1..n - m + 1 : w[i] = t[m + i - 1]
    BY <1>3, SliceIs
  <2>4. /\ (l + n) - (l + m) + 1 = n - m + 1 /\ (l + m <= l + n <=> m <= n)
        /\ \A i \in 1..n - m + 1 :
             m + i - 1 \in 1..Len(t) /\ (l + m) + i - 1 = l + (m + i - 1)
    BY <1>1, <1>3
  <2> HIDE DEF v, w
  <2>5. Len(v) = Len(w) /\ \A i \in 1..n - m + 1 : v[i] = w[i]
    <3>1. ASSUME NEW i \in 1..n - m + 1 PROVE v[i] = w[i]
      <4>1. v[i] = u[l + (m + i - 1)]
        BY <2>2, <2>4
      <4>2. u[l + (m + i - 1)] = t[m + i - 1]
        BY <1>1, <2>4
      <4> QED
        BY <2>3, <4>1, <4>2
    <3> QED
      BY <2>2, <2>3, <2>4, <3>1
  <2>6. v \in Seq(Range(v) \cup Range(w)) /\ w \in Seq(Range(v) \cup Range(w))
    BY <2>2, <2>3 DEF IsSeq
  <2>7. v = w
    BY <2>3, <2>5, <2>6, SeqEqual
  <2> QED
    BY <2>7 DEF v, w
<1> QED
  BY <1>2, <1>3 DEF u, l

(* A response buffer, whatever it holds.                                   *)
BufferOf(size, process, data) ==
  [size |-> size, process |-> process, data |-> data, is |-> "sound"]

IsBuffer(b) ==
  /\ b = BufferOf(b.size, b.process, b.data)
  /\ b.size \in Nat /\ b.size >= 6 /\ b.process \in 0..Len(b.data)
  /\ IsSeq(b.data) /\ Len(b.data) <= b.size - 1

LEMMA BufferSound == ASSUME NEW b, IsBuffer(b) PROVE Sound(b)
BY DEF IsBuffer, Sound, BufferOf

(* A buffer a reply is composed in: nothing of it has been sent.           *)
Filling(b) == IsBuffer(b) /\ b.process = 0

LEMMA BufferFields ==
  ASSUME NEW size \in Nat, size >= 6, NEW process, NEW data, IsSeq(data),
         process \in 0..Len(data), Len(data) <= size - 1
  PROVE  /\ IsBuffer(BufferOf(size, process, data))
         /\ BufferOf(size, process, data).size = size
         /\ BufferOf(size, process, data).process = process
         /\ BufferOf(size, process, data).data = data
         /\ BufferOf(size, process, data).is = "sound"
BY DEF IsBuffer, BufferOf

LEMMA FillingIs ==
  ASSUME NEW size \in Nat, size >= 6, NEW data, IsSeq(data), Len(data) <= size - 1
  PROVE  Filling(BufferOf(size, 0, data)) /\ BufferOf(size, 0, data).data = data
<1>1. 0 \in 0..Len(data)
  BY DEF IsSeq
<1> QED
  BY <1>1, BufferFields DEF Filling

LEMMA HoldingIs ==
  ASSUME NEW size, NEW process, NEW data, NEW new
  PROVE  Holding(BufferOf(size, process, data), new) = BufferOf(size, process, new)
BY DEF Holding, BufferOf

LEMMA BufferUpdates ==
  ASSUME NEW b, IsBuffer(b), NEW x
  PROVE  /\ [b EXCEPT !.size = x] = BufferOf(x, b.process, b.data)
         /\ [b EXCEPT !.process = x] = BufferOf(b.size, x, b.data)
         /\ [b EXCEPT !.data = x] = BufferOf(b.size, b.process, x)
<1> DEFINE size == b.size
           process == b.process
           data == b.data
<1>1. b = BufferOf(size, process, data)
  BY DEF IsBuffer
<1> HIDE DEF size, process, data
<1>2. /\ [b EXCEPT !.size = x] = BufferOf(x, process, data)
      /\ [b EXCEPT !.process = x] = BufferOf(size, x, data)
      /\ [b EXCEPT !.data = x] = BufferOf(size, process, x)
  BY <1>1 DEF BufferOf
<1> QED
  BY <1>2 DEF size, process, data

(* Up to the limit the growing loop finds room: it doubles.                *)
LEMMA GrownIs ==
  ASSUME ContentsFit, NEW b, IsBuffer(b), NEW need \in Nat, need < GrowthLimit
  PROVE  \E n \in Nat : /\ n >= b.size /\ need <= n - 1
                        /\ Grown(b, need) = BufferOf(n, b.process, b.data)
<1> DEFINE f == Sizes(b)
           turns == {k \in 0..MaxGrowths : need <= f[k] - 1}
           m == Min(turns)
<1>1. /\ MaxGrowths \in Nat /\ GrowthLimit \in Nat /\ GrowthLimit <= MaxGrowths
      /\ b.size \in Nat /\ b.size >= 6 /\ Len(b.data) \in Nat /\ Len(b.data) <= b.size - 1
  BY BufferAssumption DEF ContentsFit, IsBuffer, IsSeq
<1>2. f[0] = b.size /\ \A k \in 1..MaxGrowths : f[k] = GrownSize(f[k - 1])
  BY SizesAre
<1> HIDE DEF f
<1> DEFINE Doubled(k) == f[k] \in Nat /\ f[k] >= b.size + k
<1>3. ASSUME NEW l \in 0..MaxGrowths, \A k \in 0..MaxGrowths : k < l => k \notin turns
      PROVE  \A k \in 0..l : Doubled(k)
  <2> DEFINE S == {k \in 0..l : Doubled(k)}
  <2>1. 0 \in S
    BY <1>1, <1>2
  <2>2. ASSUME NEW k \in 1..l, k - 1 \in S PROVE k \in S
    <3>1. /\ k - 1 \in 0..MaxGrowths /\ k - 1 < l /\ k \in 1..MaxGrowths
          /\ k \in Nat /\ k \in 0..l
      BY <1>1
    <3>2. f[k - 1] \in Nat /\ f[k - 1] >= b.size + k - 1
      BY <2>2, <1>1, <3>1
    <3>3. ~(need <= f[k - 1] - 1)
      BY <1>3, <3>1
    <3>4. f[k - 1] <= GrowthLimit
      BY <1>1, <3>2, <3>3
    <3>5. f[k] = 2 * f[k - 1]
      BY <1>2, <3>1, <3>4 DEF GrownSize
    <3> QED
      BY <1>1, <3>1, <3>2, <3>5
  <2>3. l \in Nat
    BY <1>1
  <2> HIDE DEF S
  <2>4. \A k \in 1..l : k - 1 \in S => k \in S
    BY <2>2
  <2>5. 0..l \subseteq S
    BY <2>1, <2>3, <2>4, Climb
  <2> HIDE DEF Doubled
  <2> QED
    BY <2>5 DEF S
<1>4. turns # {}
  <2> SUFFICES ASSUME turns = {} PROVE FALSE
    OBVIOUS
  <2>1. MaxGrowths \in 0..MaxGrowths /\ \A k \in 0..MaxGrowths : k \notin turns
    BY <1>1
  <2>2. Doubled(MaxGrowths)
    BY <1>3, <2>1
  <2>3. need <= f[MaxGrowths] - 1
    BY <1>1, <2>2
  <2> QED
    BY <2>1, <2>3
<1>5. m \in turns /\ \A k \in turns : m <= k
  <2>1. turns \in SUBSET Nat
    BY <1>1
  <2> HIDE DEF turns
  <2> QED
    BY <1>4, <2>1, MinIs
<1>6. m \in 0..MaxGrowths /\ need <= f[m] - 1
  BY <1>5
<1>7. \A k \in 0..MaxGrowths : k < m => k \notin turns
  BY <1>5, <1>6
<1>8. \A k \in 0..m : Doubled(k)
  BY <1>3, <1>6, <1>7
<1>9. \A k \in 0..m : ~(f[k] < Len(b.data))
  BY <1>1, <1>6, <1>8
<1>10. Grown(b, need) = [b EXCEPT !.size = f[m]]
  BY <1>4, <1>9 DEF Grown, GrowTo, f
<1>11. f[m] \in Nat /\ f[m] >= b.size
  BY <1>1, <1>6, <1>8
<1>12. Grown(b, need) = BufferOf(f[m], b.process, b.data)
  BY <1>10, BufferUpdates
<1> HIDE DEF m, turns, Doubled
<1> QED
  BY <1>6, <1>11, <1>12

LEMMA StrcpyIs ==
  ASSUME ContentsFit, NEW b, Filling(b), NEW s, IsSeq(s), Len(s) < GrowthLimit
  PROVE  Filling(StrcpyHttpBuffer(b, s)) /\ StrcpyHttpBuffer(b, s).data = s
<1>1. IsBuffer(b) /\ b.process = 0 /\ b.is = "sound" /\ b.size \in Nat /\ b.size >= 6
  BY DEF Filling, IsBuffer, BufferOf
<1>2. Len(s) \in Nat
  BY DEF IsSeq
<1>3. PICK n \in Nat : /\ n >= b.size /\ Len(s) <= n - 1
                       /\ Grown(b, Len(s)) = BufferOf(n, 0, b.data)
  BY <1>1, <1>2, GrownIs
<1>4. StrcpyHttpBuffer(b, s) = BufferOf(n, 0, s)
  BY <1>1, <1>3, HoldingIs DEF StrcpyHttpBuffer
<1>5. n >= 6
  BY <1>1, <1>2, <1>3
<1> QED
  BY <1>3, <1>4, <1>5, FillingIs

LEMMA MemcatIs ==
  ASSUME ContentsFit, NEW b, Filling(b), NEW s, IsSeq(s),
         Len(b.data) + Len(s) < GrowthLimit
  PROVE  Filling(MemcatHttpBuffer(b, s)) /\ MemcatHttpBuffer(b, s).data = b.data \o s
<1>1. /\ IsBuffer(b) /\ b.process = 0 /\ b.is = "sound" /\ b.size \in Nat /\ b.size >= 6
      /\ IsSeq(b.data)
  BY DEF Filling, IsBuffer, BufferOf
<1>2. /\ Len(s) \in Nat /\ Len(b.data) \in Nat
      /\ IsSeq(b.data \o s) /\ Len(b.data \o s) = Len(b.data) + Len(s)
  BY <1>1, JoinIs DEF IsSeq
<1>3. PICK n \in Nat : /\ n >= b.size /\ Len(b.data) + Len(s) <= n - 1
                       /\ Grown(b, Len(b.data) + Len(s)) = BufferOf(n, 0, b.data)
  BY <1>1, <1>2, GrownIs
<1>4. MemcatHttpBuffer(b, s) = BufferOf(n, 0, b.data \o s)
  BY <1>1, <1>3, HoldingIs DEF MemcatHttpBuffer
<1>5. n >= 6 /\ Len(b.data \o s) <= n - 1
  BY <1>1, <1>2, <1>3
<1> QED
  BY <1>2, <1>3, <1>4, <1>5, FillingIs

(* A text that fits, the terminating zero included or not.                 *)
LEMMA StrcatfIs ==
  ASSUME NEW b, Filling(b), NEW s, IsSeq(s),
         Len(s) <= Room(b), Len(b.data) + Len(s) < GrowthLimit
  PROVE  Filling(StrcatfHttpBuffer(b, s)) /\ StrcatfHttpBuffer(b, s).data = b.data \o s
<1>1. /\ IsBuffer(b) /\ b.process = 0 /\ b.is = "sound" /\ b.size \in Nat /\ b.size >= 6
      /\ IsSeq(b.data) /\ b = BufferOf(b.size, 0, b.data) /\ Len(b.data) <= b.size - 1
  BY DEF Filling, IsBuffer, BufferOf
<1>2. /\ Len(s) \in Nat /\ Len(b.data) \in Nat /\ GrowthLimit \in Nat
      /\ IsSeq(b.data \o s) /\ Len(b.data \o s) = Len(b.data) + Len(s)
  BY <1>1, JoinIs, BufferAssumption DEF IsSeq
<1>3. Room(b) = b.size - 1 - Len(b.data) /\ Room(b) \in Int
  BY <1>1, <1>2 DEF Room
<1>4. PICK n \in Nat : /\ n >= b.size /\ Len(b.data) + Len(s) <= n - 1
                       /\ (IF Len(s) = Room(b) THEN ReallocHttpBuffer(b, GrownSize(b.size))
                           ELSE b) = BufferOf(n, 0, b.data)
  <2>1. CASE Len(s) = Room(b)
    <3>1. b.size <= GrowthLimit
      BY <1>1, <1>2, <1>3, <2>1
    <3>2. GrownSize(b.size) = 2 * b.size /\ ~(2 * b.size < Len(b.data)) /\ 2 * b.size \in Nat
      BY <1>1, <1>2, <3>1 DEF GrownSize
    <3>3. ReallocHttpBuffer(b, GrownSize(b.size)) = [b EXCEPT !.size = 2 * b.size]
      BY <3>2 DEF ReallocHttpBuffer
    <3>5. [b EXCEPT !.size = 2 * b.size] = BufferOf(2 * b.size, 0, b.data)
      BY <1>1, BufferUpdates
    <3>4. 2 * b.size >= b.size /\ Len(b.data) + Len(s) <= 2 * b.size - 1
      BY <1>1, <1>2, <1>3, <2>1
    <3> QED
      BY <2>1, <3>2, <3>3, <3>4, <3>5
  <2>2. CASE Len(s) # Room(b)
    <3>1. Len(b.data) + Len(s) <= b.size - 1
      BY <1>1, <1>2, <1>3
    <3> QED
      BY <1>1, <2>2, <3>1
  <2> QED
    BY <2>1, <2>2
<1>5. ~(Len(s) > Room(b))
  BY <1>2, <1>3
<1>6. StrcatfHttpBuffer(b, s) = BufferOf(n, 0, b.data \o s)
  BY <1>1, <1>4, <1>5, HoldingIs DEF StrcatfHttpBuffer
<1>7. n >= 6 /\ Len(b.data \o s) <= n - 1
  BY <1>1, <1>2, <1>4
<1> QED
  BY <1>2, <1>4, <1>6, <1>7, FillingIs
----------------------------------------------------------------------------
(* A request in progress, whatever its fields.                             *)
ProgressOf(status, buf, files, zip, up) ==
  [status |-> status, buf |-> buf, cached |-> files, zip |-> zip, worker |-> up]

IsProgress(st) == st = ProgressOf(st.status, st.buf, st.cached, st.zip, st.worker)

LEMMA ProgressFields ==
  ASSUME NEW status, NEW buf, NEW files, NEW zip, NEW up
  PROVE  /\ IsProgress(ProgressOf(status, buf, files, zip, up))
         /\ ProgressOf(status, buf, files, zip, up).status = status
         /\ ProgressOf(status, buf, files, zip, up).buf = buf
         /\ ProgressOf(status, buf, files, zip, up).cached = files
         /\ ProgressOf(status, buf, files, zip, up).zip = zip
         /\ ProgressOf(status, buf, files, zip, up).worker = up
BY DEF IsProgress, ProgressOf

(* What changing a field makes of it.                                      *)
LEMMA StatusSet ==
  ASSUME NEW st, IsProgress(st), NEW x
  PROVE  Progress(x, st) = ProgressOf(x, st.buf, st.cached, st.zip, st.worker)
<1> DEFINE status == st.status
           buf == st.buf
           files == st.cached
           zip == st.zip
           up == st.worker
<1>1. st = ProgressOf(status, buf, files, zip, up)
  BY DEF IsProgress
<1> HIDE DEF status, buf, files, zip, up
<1>2. Progress(x, st) = ProgressOf(x, buf, files, zip, up)
  BY <1>1 DEF Progress, ProgressOf
<1> QED
  BY <1>2 DEF status, buf, files, zip, up

LEMMA CacheSet ==
  ASSUME NEW st, IsProgress(st), NEW x
  PROVE  /\ [st EXCEPT !.zip = x] = ProgressOf(st.status, st.buf, st.cached, x, st.worker)
         /\ [st EXCEPT !.cached = x] = ProgressOf(st.status, st.buf, x, st.zip, st.worker)
<1> DEFINE status == st.status
           buf == st.buf
           files == st.cached
           zip == st.zip
           up == st.worker
<1>1. st = ProgressOf(status, buf, files, zip, up)
  BY DEF IsProgress
<1> HIDE DEF status, buf, files, zip, up
<1>2. [st EXCEPT !.zip = x] = ProgressOf(status, buf, files, x, up)
  BY <1>1 DEF ProgressOf
<1>3. [st EXCEPT !.cached = x] = ProgressOf(status, buf, x, zip, up)
  BY <1>1 DEF ProgressOf
<1> QED
  BY <1>2, <1>3 DEF status, buf, files, zip, up

LEMMA BufferSet ==
  ASSUME NEW st, IsProgress(st), NEW x
  PROVE  /\ [st EXCEPT !.buf = x] = ProgressOf(st.status, x, st.cached, st.zip, st.worker)
         /\ \A y : [st EXCEPT !.buf = x, !.worker = y]
                     = ProgressOf(st.status, x, st.cached, st.zip, y)
<1> DEFINE status == st.status
           buf == st.buf
           files == st.cached
           zip == st.zip
           up == st.worker
<1>1. st = ProgressOf(status, buf, files, zip, up)
  BY DEF IsProgress
<1> HIDE DEF status, buf, files, zip, up
<1>2. [st EXCEPT !.buf = x] = ProgressOf(status, x, files, zip, up)
  BY <1>1 DEF ProgressOf
<1>3. ASSUME NEW y
      PROVE  [st EXCEPT !.buf = x, !.worker = y] = ProgressOf(status, x, files, zip, y)
  <2>1. [st EXCEPT !.buf = x, !.worker = y] = [[st EXCEPT !.buf = x] EXCEPT !.worker = y]
    OBVIOUS
  <2>2. [ProgressOf(status, x, files, zip, up) EXCEPT !.worker = y]
          = ProgressOf(status, x, files, zip, y)
    BY DEF ProgressOf
  <2> QED
    BY <1>2, <2>1, <2>2
<1> QED
  BY <1>2, <1>3 DEF status, buf, files, zip, up

One(x) == <<x>>

LEMMA OneIs == ASSUME NEW x PROVE IsSeq(One(x)) /\ Len(One(x)) = 1 /\ One(x)[1] = x
BY DEF IsSeq, Range, One

(* The reply so far is its start line: there is room for headers.          *)
Started(b) == Filling(b) /\ b.data = One(StartLine(200))

LEMMA StartedIs == ASSUME NEW b, Started(b) PROVE Filling(b) /\ Len(b.data) = 1
BY OneIs DEF Started

(* What may be in the cache, and what may be kept compressed.              *)
Cacheable(path) == Kind(path) = "dir" \/ Readable(path)
Algorithms == {"gzip", "deflate"}
Kept(files, zip) ==
  /\ \A path \in files : Cacheable(path)
  /\ \A z \in zip : z[1] \in files /\ z[2] \in Algorithms

LEMMA OneIsSeq == ASSUME NEW x PROVE IsSeq(<<x>>) /\ Len(<<x>>) = 1
BY DEF IsSeq, Range

LEMMA TwoIsSeq == ASSUME NEW x, NEW y PROVE IsSeq(<<x, y>>) /\ Len(<<x, y>>) = 2
BY DEF IsSeq, Range

LEMMA ThreeIsSeq ==
  ASSUME NEW x, NEW y, NEW z PROVE IsSeq(<<x, y, z>>) /\ Len(<<x, y, z>>) = 3
BY DEF IsSeq, Range

LEMMA ContentIs ==
  ASSUME ContentsFit, NEW path, Readable(path), NEW enc
  PROVE  IsSeq(ContentOf(path, enc)) /\ Len(ContentOf(path, enc)) + 2 < GrowthLimit
<1> DEFINE size == Site[OnDisk(path)].size
           n == IF enc = "plain" THEN size ELSE Zipped(size)
<1>1. size \in Nat /\ size + 3 <= GrowthLimit /\ GrowthLimit \in Nat
  BY UriAssumption, BufferAssumption DEF ContentsFit, Readable
<1> HIDE DEF size
<1>2. n \in Nat /\ n <= size
  <2>1. Zipped(size) \in Nat /\ Zipped(size) <= size
    BY <1>1 DEF Zipped
  <2>2. n = size \/ n = Zipped(size)
    OBVIOUS
  <2> HIDE DEF n
  <2> QED
    BY <1>1, <2>1, <2>2
<1>3. ContentOf(path, enc) = [i \in 1..n |-> Content(OnDisk(path), enc, i)]
  BY DEF ContentOf, size
<1> HIDE DEF n
<1> DEFINE body == [i \in 1..n |-> Content(OnDisk(path), enc, i)]
<1>4. Len(body) = n /\ body \in Seq(Range(body))
  <2>1. body \in [1..n -> Range(body)]
    BY DEF Range
  <2>2. body \in Seq(Range(body)) /\ DOMAIN body = 1..n
    BY <1>2, <2>1
  <2> HIDE DEF body
  <2> QED
    BY <1>2, <2>2
<1> QED
  BY <1>1, <1>2, <1>3, <1>4 DEF IsSeq

(* Headers, and a content that fits.                                       *)
FileReply(req, enc, body) ==
  (One(StartLine(200)) \o One(Headers(enc, Len(body), req.keepalive)))
    \o (IF req.method = "GET" THEN body ELSE <<>>)

LEMMA AppendReplyIs ==
  ASSUME ContentsFit, NEW st, IsProgress(st), Started(st.buf), NEW req, NEW enc,
         NEW body, IsSeq(body), Len(body) + 2 < GrowthLimit
  PROVE  \E b : /\ Filling(b)
                /\ b.data = FileReply(req, enc, body)
                /\ AppendReply(st, req, enc, body) =
                     ProgressOf(st.status, b, st.cached, st.zip, st.worker)
<1> DEFINE h == One(Headers(enc, Len(body), req.keepalive))
           b1 == StrcatfHttpBuffer(st.buf, h)
           rest == IF req.method = "GET" THEN body ELSE <<>>
           b2 == MemcatHttpBuffer(b1, rest)
<1>1. /\ Filling(st.buf) /\ Len(st.buf.data) = 1 /\ st.buf.size \in Nat /\ st.buf.size >= 6
      /\ GrowthLimit \in Nat /\ GrowthLimit >= 6 /\ IsSeq(st.buf.data)
  BY StartedIs, BufferAssumption, ResponseAssumption DEF Filling, IsBuffer, ContentsFit
<1>2. IsSeq(h) /\ Len(h) = 1
  BY OneIs
<1>3. IsSeq(rest) /\ Len(rest) + 2 < GrowthLimit /\ Len(rest) \in Nat
  <2>1. IsSeq(<<>>) /\ Len(<<>>) = 0
    BY DEF IsSeq
  <2>2. Len(body) \in Nat
    BY DEF IsSeq
  <2>3. CASE req.method = "GET"
    BY <2>2, <2>3
  <2>4. CASE req.method # "GET"
    BY <1>1, <2>1, <2>4
  <2> QED
    BY <2>3, <2>4
<1> HIDE DEF h, rest
<1>4. Len(h) <= Room(st.buf) /\ Len(st.buf.data) + Len(h) < GrowthLimit
  BY <1>1, <1>2 DEF Room
<1>5. Filling(b1) /\ b1.data = st.buf.data \o h
  BY <1>1, <1>2, <1>4, StrcatfIs
<1> HIDE DEF b1
<1>6. Len(b1.data) + Len(rest) < GrowthLimit
  <2>1. Len(st.buf.data \o h) = Len(st.buf.data) + Len(h)
    BY <1>1, <1>2, JoinIs
  <2> QED
    BY <1>1, <1>2, <1>3, <1>5, <2>1
<1>7. Filling(b2) /\ b2.data = b1.data \o rest
  BY <1>3, <1>5, <1>6, MemcatIs
<1>8. AppendReply(st, req, enc, body) = Filled(st, b2)
  BY DEF AppendReply, b1, h, rest, One
<1> HIDE DEF b2
<1>9. b2.is # "endless"
  BY <1>7 DEF Filling, IsBuffer, BufferOf
<1>10. Filled(st, b2) = ProgressOf(st.status, b2, st.cached, st.zip, st.worker)
  BY <1>9, BufferSet DEF Filled
<1>11. b2.data = (One(StartLine(200)) \o h) \o rest
  BY <1>5, <1>7 DEF Started
<1>12. b2.data = FileReply(req, enc, body)
  BY <1>11 DEF h, rest, FileReply
<1> QED
  BY <1>7, <1>8, <1>10, <1>12

(* The whole reply with the content of a file, or a page.                  *)
PageIs(data, req, path) ==
  /\ Framed(data, 1) /\ Announced(data, 1, req) \in Nat /\ data[1].status = 200
  /\ Len(data) = 2 + Announced(data, 1, req)
  /\ ~IsPage(path) =>
       AnswersWith(ContentOf(path, Reply(data, 1, req).headers.encoding),
                   Reply(data, 1, req), req)

(* What comes first in a join of a piece, another and the rest.            *)
InFront(data, first, second, rest) ==
  /\ Len(rest) \in Nat /\ Len(data) = 2 + Len(rest)
  /\ data[1] = first /\ data[2] = second
  /\ SubSeq(data, 3, 2 + Len(rest)) = rest

LEMMA FrontIs ==
  ASSUME NEW s, IsSeq(s), Len(s) = 1, NEW t, IsSeq(t), Len(t) = 1, NEW rest, IsSeq(rest)
  PROVE  InFront((s \o t) \o rest, s[1], t[1], rest)
<1> DEFINE front == s \o t
           data == front \o rest
           n == Len(rest)
<1>1. IsSeq(front) /\ Len(front) = 2 /\ front[1] = s[1] /\ front[2] = t[1]
  <2>1. IsSeq(front)
    BY JoinIs
  <2>2. Len(front) = Len(s) + Len(t)
    BY JoinIs
  <2>3. /\ \A i \in 1..Len(s) : front[i] = s[i]
        /\ \A i \in 1..Len(t) : front[Len(s) + i] = t[i]
    BY JoinAt
  <2> HIDE DEF front
  <2>4. Len(front) = 2
    BY <2>2
  <2>5. front[1] = s[1]
    BY <2>3
  <2>6. front[1 + 1] = t[1]
    BY <2>3
  <2> QED
    BY <2>1, <2>4, <2>5, <2>6
<1>2. n \in Nat
  BY DEF IsSeq
<1> HIDE DEF front
<1>3. Len(data) = 2 + n /\ \A i \in 1..2 : data[i] = front[i]
  <2>1. IsSeq(front)
    BY <1>1
  <2>2. Len(data) = Len(front) + Len(rest)
    BY <2>1, JoinIs
  <2>3. \A i \in 1..Len(front) : data[i] = front[i]
    BY <2>1, JoinAt
  <2> HIDE DEF data
  <2> QED
    BY <1>1, <2>2, <2>3
<1>4. SubSeq(data, 3, 2 + n) = rest
  <2>1. n <= Len(rest) =>
          SubSeq(data, Len(front) + 1, Len(front) + n) = SubSeq(rest, 1, n)
    <3> HIDE DEF n
    <3>1. IsSeq(front) /\ 1 \in Nat /\ 1 >= 1
      BY <1>1
    <3> QED
      BY <1>2, <3>1, SliceOfJoin
  <2>2. rest \in Seq(Range(rest))
    BY DEF IsSeq
  <2>3. SubSeq(rest, 1, n) = rest
    BY <2>2, SubSeqFull
  <2>4. n <= Len(rest)
    BY <1>2
  <2> HIDE DEF data, n
  <2> QED
    BY <1>1, <1>2, <2>1, <2>3, <2>4
<1> HIDE DEF data, n
<1>5. data[1] = front[1] /\ data[2] = front[2]
  BY <1>3
<1> QED
  BY <1>1, <1>2, <1>3, <1>4, <1>5 DEF InFront, data, front, n

(* A reply of which the start line and the headers are known.              *)
Opens(data, status, headers) ==
  1 < Len(data) /\ data[1] = StartLine(status) /\ data[2] = headers

Announces(data, req, status, len) ==
  /\ Framed(data, 1) /\ data[1].status = status
  /\ Announced(data, 1, req) = IF req.method = "HEAD" THEN 0 ELSE len

LEMMA FramedIs ==
  ASSUME NEW data, NEW enc, NEW len, NEW keep, NEW req, NEW status,
         Opens(data, status, Headers(enc, len, keep))
  PROVE  Announces(data, req, status, len)
<1> DEFINE start == StartLine(status)
           h == Headers(enc, len, keep)
<1>1. start.is = "start" /\ start.status = status /\ h.is = "headers" /\ h.length = len
  BY DEF StartLine, Headers
<1> HIDE DEF start, h
<1>2. data[1] = start /\ data[1 + 1] = h
  BY DEF Opens, start, h
<1>3. Framed(data, 1) /\ data[1].status = status
  <2>1. 1 < Len(data)
    BY DEF Opens
  <2> QED
    BY <1>1, <1>2, <2>1 DEF Framed
<1>4. Announced(data, 1, req) = IF req.method = "HEAD" THEN 0 ELSE len
  BY <1>1, <1>2 DEF Announced
<1> QED
  BY <1>3, <1>4 DEF Announces

LEMMA ContentTold ==
  ASSUME NEW req, req.method \in {"GET", "HEAD"}, NEW path, NEW enc,
         NEW body, IsSeq(body), body = ContentOf(path, enc),
         (enc # "plain") <=> Compresses(req), Compresses(req) => enc \in Range(req.accept)
  PROVE  PageIs(FileReply(req, enc, body), req, path)
<1> DEFINE start == StartLine(200)
           h == Headers(enc, Len(body), req.keepalive)
           rest == IF req.method = "GET" THEN body ELSE <<>>
           n == Len(rest)
           s == One(start)
           t == One(h)
           data == FileReply(req, enc, body)
<1>1. start.is = "start" /\ start.status = 200
  BY DEF StartLine
<1>2. /\ h.is = "headers" /\ h.encoding = enc /\ h.length = Len(body)
      /\ h.keep = req.keepalive
  BY DEF Headers
<1>3. IsSeq(rest) /\ n = IF req.method = "HEAD" THEN 0 ELSE Len(body)
  BY NothingIs
<1>4. data = (s \o t) \o rest
  BY DEF FileReply
<1>5. rest = IF req.method = "HEAD" THEN <<>> ELSE body
  OBVIOUS
<1>6. IsSeq(s) /\ Len(s) = 1 /\ s[1] = start /\ IsSeq(t) /\ Len(t) = 1 /\ t[1] = h
  BY OneIs
<1> HIDE DEF start, h, rest, s, t, data
<1>7. /\ n \in Nat /\ Len(data) = 2 + n /\ data[1] = start /\ data[2] = h
      /\ SubSeq(data, 3, 2 + n) = rest
  <2>1. IsSeq(s) /\ Len(s) = 1 /\ IsSeq(t) /\ Len(t) = 1 /\ IsSeq(rest)
    BY <1>3, <1>6
  <2>2. InFront((s \o t) \o rest, s[1], t[1], rest)
    BY <2>1, FrontIs
  <2>3. InFront(data, start, h, rest)
    BY <1>4, <1>6, <2>2
  <2> QED
    BY <2>3 DEF InFront
<1> HIDE DEF n
<1>8. 1 < Len(data) /\ data[1 + 1] = h /\ 1 + 2 = 3 /\ 1 + 1 + n = 2 + n
  BY <1>7
<1>9. Framed(data, 1) /\ Announced(data, 1, req) = n
  <2>1. Opens(data, 200, Headers(enc, Len(body), req.keepalive))
    BY <1>7, <1>8 DEF Opens, start, h
  <2>2. Announces(data, req, 200, Len(body))
    BY <2>1, FramedIs
  <2> QED
    BY <1>3, <2>2 DEF Announces
<1>10. Reply(data, 1, req) = [status |-> 200, headers |-> h, body |-> rest]
  <2>1. SubSeq(data, 1 + 2, 1 + 1 + n) = rest
    BY <1>7, <1>8
  <2> QED
    BY <1>1, <1>7, <1>8, <1>9, <2>1 DEF Reply
<1> DEFINE reply == Reply(data, 1, req)
<1>11. reply.headers = h /\ reply.body = rest
  BY <1>10
<1> HIDE DEF reply
<1>12. AnswersWith(body, reply, req)
  BY <1>2, <1>5, <1>11 DEF AnswersWith
<1>13. AnswersWith(ContentOf(path, reply.headers.encoding), reply, req)
  BY <1>2, <1>11, <1>12
<1> QED
  BY <1>1, <1>7, <1>9, <1>13 DEF PageIs, reply, data

JoinedOf(u, s, t) ==
  /\ \A i \in 1..Len(s) : u[i] = s[i]
  /\ \A i \in 1..Len(t) : u[Len(s) + i] = t[i]

LEMMA JoinedIs ==
  ASSUME NEW s, IsSeq(s), NEW t, IsSeq(t) PROVE JoinedOf(s \o t, s, t)
BY JoinAt DEF JoinedOf

LEMMA JoinOfTwo ==
  ASSUME NEW s, IsSeq(s), Len(s) = 1, NEW t, IsSeq(t), Len(t) = 2
  PROVE  Len(s \o t) = 3 /\ (s \o t)[1] = s[1] /\ (s \o t)[2] = t[1]
<1> DEFINE data == s \o t
<1>1. Len(data) = Len(s) + Len(t)
  BY JoinIs
<1>2. JoinedOf(data, s, t)
  BY JoinedIs
<1> HIDE DEF data
<1>3. Len(data) = 3
  BY <1>1
<1>4. data[1] = s[1]
  BY <1>2 DEF JoinedOf
<1>5. data[1 + 1] = t[1]
  BY <1>2 DEF JoinedOf
<1> QED
  BY <1>3, <1>4, <1>5 DEF data

LEMMA PageTold ==
  ASSUME NEW req, req.method # "HEAD", NEW path, IsPage(path),
         NEW t, IsSeq(t), Len(t) = 2, t[1] = Headers("plain", 1, FALSE)
  PROVE  PageIs(One(StartLine(200)) \o t, req, path)
<1> DEFINE s == One(StartLine(200))
           data == s \o t
<1>1. IsSeq(s) /\ Len(s) = 1 /\ s[1] = StartLine(200)
  BY OneIs
<1> HIDE DEF s
<1>2. Len(data) = 3 /\ data[1] = s[1] /\ data[2] = t[1]
  BY <1>1, JoinOfTwo
<1> HIDE DEF data
<1>3. Opens(data, 200, Headers("plain", 1, FALSE))
  BY <1>1, <1>2 DEF Opens
<1>4. Announces(data, req, 200, 1)
  BY <1>3, FramedIs
<1>5. PageIs(data, req, path)
  BY <1>2, <1>4 DEF PageIs, Announces
<1> QED
  BY <1>5 DEF data, s

(* What the proof of RepliesMatch needs to know of a request and a path:   *)
(* the parts of Tellable that are about them.                              *)
PlainAt(req, path, ext) ==
  /\ req.method \in {"GET", "HEAD"} /\ (CompressOn \/ req.accept = None)
  /\ IsPage(path) => req.method # "HEAD"
  /\ ext = <<HsType>> => IsPage(path)

Plain(req, path, parts) ==
  Kind(path) # "none" => ~Refused(path, parts.ret) /\ PlainAt(req, path, parts.ext)

(* What appending the reply to a file leads to: go on, done, or an error   *)
(* of a compression before anything was appended.                          *)
Composed(st, u, path) ==
  /\ IsProgress(u) /\ Filling(u.buf) /\ u.cached = st.cached /\ u.worker = "up"
  /\ \/ /\ u.status = 0
        /\ \A z \in u.zip : z \in st.zip \/ (z[1] = path /\ z[2] \in Algorithms)
     \/ u.status = 200 /\ u.zip = st.zip
     \/ u.status = 500 /\ u.zip = st.zip /\ u.buf = st.buf

(* What it says to the peer, and that it fails only where a call does.     *)
Tells(u, req, fault, path, ext) ==
  /\ PlainAt(req, path, ext) /\ u.status # 500 => PageIs(u.buf.data, req, path)
  /\ fault = "none" => u.status # 500

LEMMA TellsIs ==
  ASSUME NEW status, NEW b, NEW files, NEW zip, NEW req, NEW fault, NEW path, NEW ext,
         IF status = 500 THEN fault # "none"
         ELSE PlainAt(req, path, ext) => PageIs(b.data, req, path)
  PROVE  Tells(ProgressOf(status, b, files, zip, "up"), req, fault, path, ext)
<1> DEFINE u == ProgressOf(status, b, files, zip, "up")
<1>1. u.status = status /\ u.buf = b
  BY ProgressFields
<1> HIDE DEF u
<1> QED
  BY <1>1 DEF Tells, u

LEMMA ComposedIs ==
  ASSUME NEW st, NEW path, NEW b, Filling(b), NEW zip, NEW status,
         \/ /\ status = 0
            /\ \A z \in zip : z \in st.zip \/ (z[1] = path /\ z[2] \in Algorithms)
         \/ status = 200 /\ zip = st.zip
  PROVE  Composed(st, ProgressOf(status, b, st.cached, zip, "up"), path)
<1> DEFINE u == ProgressOf(status, b, st.cached, zip, "up")
<1>1. /\ IsProgress(u) /\ u.status = status /\ u.buf = b /\ u.cached = st.cached
      /\ u.zip = zip /\ u.worker = "up"
  BY ProgressFields
<1> HIDE DEF u
<1> QED
  BY <1>1 DEF Composed, u

LEMMA FailedIs ==
  ASSUME NEW st, NEW path, Filling(st.buf)
  PROVE  Composed(st, ProgressOf(500, st.buf, st.cached, st.zip, "up"), path)
<1> DEFINE u == ProgressOf(500, st.buf, st.cached, st.zip, "up")
<1>1. /\ IsProgress(u) /\ u.status = 500 /\ u.buf = st.buf /\ u.cached = st.cached
      /\ u.zip = st.zip /\ u.worker = "up"
  BY ProgressFields
<1> HIDE DEF u
<1> QED
  BY <1>1 DEF Composed, u

LEMMA AppendFileIs ==
  ASSUME ContentsFit, NEW st, IsProgress(st), Started(st.buf), st.status = 0,
         st.worker = "up", NEW path, Readable(path), NEW ext, QueryMimeType(ext),
         NEW req \in AllAsks, NEW fault
  PROVE  /\ Composed(st, AppendFile(st, req, fault, path, ext), path)
         /\ Tells(AppendFile(st, req, fault, path, ext), req, fault, path, ext)
<1> DEFINE Fine(u) == Composed(st, u, path) /\ Tells(u, req, fault, path, ext)
<1>1. Filling(st.buf) /\ Len(st.buf.data) = 1
  BY StartedIs
<1>2. ASSUME req.accept # None, ~CompressOn PROVE Fine(st)
  <2>1. st = ProgressOf(0, st.buf, st.cached, st.zip, "up")
    BY DEF IsProgress
  <2>2. Composed(st, st, path)
    BY <1>1, <2>1, ComposedIs
  <2>3. Tells(st, req, fault, path, ext)
    BY <1>2 DEF Tells, PlainAt
  <2> QED
    BY <2>2, <2>3
<1>3. ASSUME ext = <<HsType>> PROVE Fine(Callback(st, path))
  <2> DEFINE piece == Content(path, "plain", 1)
             s == <<Headers("plain", 1, FALSE), piece>>
             b == StrcatfHttpBuffer(st.buf, s)
             v == [st EXCEPT !.buf = b]
  <2>1. IsSeq(s) /\ Len(s) = 2 /\ s[1] = Headers("plain", 1, FALSE)
    BY TwoIsSeq
  <2> HIDE DEF piece, s
  <2>2. PlainAt(req, path, ext) => PageIs(One(StartLine(200)) \o s, req, path)
    <3>1. PlainAt(req, path, ext) => IsPage(path) /\ req.method # "HEAD"
      BY <1>3 DEF PlainAt
    <3> QED
      BY <2>1, <3>1, PageTold
  <2>3. /\ st.buf.size \in Nat /\ st.buf.size >= 6
        /\ GrowthLimit \in Nat /\ GrowthLimit >= 6
    BY <1>1, BufferAssumption, ResponseAssumption DEF Filling, IsBuffer, ContentsFit
  <2>4. Len(s) <= Room(st.buf) /\ Len(st.buf.data) + Len(s) < GrowthLimit
    BY <1>1, <2>1, <2>3 DEF Room
  <2>5. Filling(b) /\ b.data = st.buf.data \o s
    BY <1>1, <2>1, <2>4, StrcatfIs
  <2>6. Callback(st, path) = Progress(200, v)
    BY DEF Callback, s, piece
  <2> HIDE DEF b
  <2>7. v = ProgressOf(0, b, st.cached, st.zip, "up")
    BY BufferSet
  <2>8. Progress(200, v) = ProgressOf(200, b, st.cached, st.zip, "up")
    <3>1. /\ IsProgress(v) /\ v.buf = b /\ v.cached = st.cached
          /\ v.zip = st.zip /\ v.worker = "up"
      BY <2>7, ProgressFields
    <3> HIDE DEF v
    <3> QED
      BY <3>1, StatusSet
  <2>9. Composed(st, ProgressOf(200, b, st.cached, st.zip, "up"), path)
    <3>1. Filling(b)
      BY <2>5
    <3> QED
      BY <3>1, ComposedIs
  <2>10. Tells(ProgressOf(200, b, st.cached, st.zip, "up"), req, fault, path, ext)
    <3>1. PlainAt(req, path, ext) => PageIs(b.data, req, path)
      BY <2>2, <2>5 DEF Started
    <3> QED
      BY <3>1, TellsIs
  <2> QED
    BY <2>6, <2>8, <2>9, <2>10
(* The content in a form the peer may be sent.                             *)
<1>4. ASSUME NEW enc, NEW files, NEW zip, NEW w,
             w = ProgressOf(0, st.buf, files, zip, "up"),
             (enc # "plain") <=> Compresses(req), Compresses(req) => enc \in Range(req.accept)
      PROVE  \E b : /\ Filling(b)
                    /\ AppendReply(w, req, enc, ContentOf(path, enc)) =
                         ProgressOf(0, b, files, zip, "up")
                    /\ Tells(ProgressOf(0, b, files, zip, "up"), req, fault, path, ext)
  <2> DEFINE body == ContentOf(path, enc)
             data == FileReply(req, enc, body)
  <2>1. IsSeq(body) /\ Len(body) + 2 < GrowthLimit
    BY ContentIs
  <2>2. PlainAt(req, path, ext) => PageIs(data, req, path)
    BY <1>4, <2>1, ContentTold DEF PlainAt
  <2>3. /\ IsProgress(w) /\ w.buf = st.buf /\ w.status = 0 /\ w.cached = files
        /\ w.zip = zip /\ w.worker = "up"
    <3> DEFINE b == st.buf
    <3> HIDE DEF b
    <3>1. w = ProgressOf(0, b, files, zip, "up")
      BY <1>4 DEF b
    <3> QED
      BY <3>1, ProgressFields DEF b
  <2> HIDE DEF body
  <2>4. PICK b : /\ Filling(b) /\ b.data = data
                 /\ AppendReply(w, req, enc, body) = ProgressOf(0, b, files, zip, "up")
    BY <2>1, <2>3, AppendReplyIs
  <2> HIDE DEF data
  <2>5. Tells(ProgressOf(0, b, files, zip, "up"), req, fault, path, ext)
    BY <2>2, <2>4, TellsIs
  <2> QED
    BY <2>4, <2>5 DEF body
<1>5. ASSUME Known(req.accept) = {}
      PROVE  Fine(AppendReply(st, req, "plain", ContentOf(path, "plain")))
  <2>1. ~Compresses(req)
    BY <1>5 DEF Known, Compresses, Range
  <2>2. st = ProgressOf(0, st.buf, st.cached, st.zip, "up")
    BY DEF IsProgress
  <2>3. PICK b : /\ Filling(b)
                 /\ AppendReply(st, req, "plain", ContentOf(path, "plain")) =
                      ProgressOf(0, b, st.cached, st.zip, "up")
                 /\ Tells(ProgressOf(0, b, st.cached, st.zip, "up"), req, fault, path, ext)
    BY <1>4, <2>1, <2>2
  <2>4. Composed(st, ProgressOf(0, b, st.cached, st.zip, "up"), path)
    BY <2>3, ComposedIs
  <2> QED
    BY <2>3, <2>4
<1>6. ASSUME Known(req.accept) # {}
      PROVE  Fine(AppendZipped(st, req, fault, path, req.accept[Min(Known(req.accept))]))
  <2> DEFINE enc == req.accept[Min(Known(req.accept))]
             w == [st EXCEPT !.zip = @ \cup {<<path, enc>>}]
  <2>1. enc \in Algorithms /\ enc \in Range(req.accept) /\ Compresses(req) /\ enc # "plain"
    <3>1. req.accept # None /\ req.accept \in Seq(Range(req.accept))
      BY <1>6, TableAssumption DEF Known
    <3>2. Known(req.accept) = {i \in DOMAIN req.accept : req.accept[i] \in Algorithms}
      BY <3>1 DEF Known, Algorithms
    <3>3. Known(req.accept) \in SUBSET Nat
      BY <3>1, <3>2
    <3>4. Min(Known(req.accept)) \in Known(req.accept)
      BY <1>6, <3>3, MinIs
    <3>5. enc \in Algorithms /\ enc \in Range(req.accept)
      BY <3>2, <3>4 DEF Range
    <3> HIDE DEF enc
    <3> QED
      BY <3>1, <3>5 DEF Compresses, Algorithms
  <2> HIDE DEF enc
  <2>2. CASE <<path, enc>> \notin st.zip /\ fault = "compress"
    <3>1. AppendZipped(st, req, fault, path, enc) = Progress(500, st)
      BY <2>2 DEF AppendZipped
    <3>2. Progress(500, st) = ProgressOf(500, st.buf, st.cached, st.zip, "up")
      BY StatusSet
    <3> HIDE DEF w
    <3>3. Composed(st, ProgressOf(500, st.buf, st.cached, st.zip, "up"), path)
      BY <1>1, FailedIs
    <3>4. Tells(ProgressOf(500, st.buf, st.cached, st.zip, "up"), req, fault, path, ext)
      BY <2>2, TellsIs
    <3> QED
      BY <3>1, <3>2, <3>3, <3>4 DEF enc
  <2>3. CASE ~(<<path, enc>> \notin st.zip /\ fault = "compress")
    <3> DEFINE zip == st.zip \cup {<<path, enc>>}
    <3>1. AppendZipped(st, req, fault, path, enc)
            = AppendReply(w, req, enc, ContentOf(path, enc))
      BY <2>3 DEF AppendZipped
    <3>2. w = ProgressOf(0, st.buf, st.cached, zip, "up")
      BY CacheSet
    <3> HIDE DEF zip, w
    <3>3. PICK b : /\ Filling(b)
                   /\ AppendReply(w, req, enc, ContentOf(path, enc)) =
                        ProgressOf(0, b, st.cached, zip, "up")
                   /\ Tells(ProgressOf(0, b, st.cached, zip, "up"), req, fault, path, ext)
      BY <1>4, <2>1, <3>2
    <3>4. \A z \in zip : z \in st.zip \/ (z[1] = path /\ z[2] \in Algorithms)
      <4>1. enc \in Algorithms
        BY <2>1
      <4> QED
        BY <4>1 DEF zip
    <3>5. Composed(st, ProgressOf(0, b, st.cached, zip, "up"), path)
      BY <3>3, <3>4, ComposedIs
    <3> QED
      BY <3>1, <3>3, <3>5 DEF enc
  <2> QED
    BY <2>2, <2>3 DEF enc
<1> HIDE DEF Fine
<1>7. Fine(AppendNegotiated(st, req, fault, path))
  BY <1>2, <1>5, <1>6 DEF AppendNegotiated
<1>8. Fine(AppendFile(st, req, fault, path, ext))
  BY <1>3, <1>7 DEF AppendFile
<1> QED
  BY <1>8 DEF Fine

(* A request whose reply may go on: buffer and cache are in order.         *)
Settled(st) ==
  IsProgress(st) /\ Filling(st.buf) /\ Kept(st.cached, st.zip) /\ st.worker = "up"

LEMMA SettledIs ==
  ASSUME NEW status, NEW b, Filling(b), NEW files, NEW zip, Kept(files, zip)
  PROVE  /\ Settled(ProgressOf(status, b, files, zip, "up"))
         /\ ProgressOf(status, b, files, zip, "up").status = status
         /\ ProgressOf(status, b, files, zip, "up").buf = b
<1> DEFINE u == ProgressOf(status, b, files, zip, "up")
<1>1. /\ IsProgress(u) /\ u.status = status /\ u.buf = b /\ u.cached = files
      /\ u.zip = zip /\ u.worker = "up"
  BY ProgressFields
<1> HIDE DEF u
<1> QED
  BY <1>1 DEF Settled, u

(* The end of a request that went well, or whose compression failed.       *)
Registered(st, u, v, fault) ==
  /\ Settled(v) /\ v.status \in {200, 500} /\ v.buf = u.buf
  /\ v.status = 200 \/ fault = "watch" \/ v.buf = st.buf
  /\ v.status = 200 => u.status # 500
  /\ fault = "none" /\ u.status # 500 => v.status = 200

LEMMA RegisterIs ==
  ASSUME NEW st, Kept(st.cached, st.zip), NEW path, Cacheable(path), NEW u,
         Composed(st, u, path), NEW fault
  PROVE  Registered(st, u, RegisterInCache(u, fault, path), fault)
<1> DEFINE v == RegisterInCache(u, fault, path)
<1>1. IsProgress(u) /\ Filling(u.buf) /\ u.cached = st.cached /\ u.worker = "up"
  BY DEF Composed
<1>2. CASE u.status # 0
  <2>1. v = u
    BY <1>2 DEF RegisterInCache, GoesOn
  <2>2. /\ u.status \in {200, 500} /\ u.zip = st.zip
        /\ u.status = 200 \/ u.buf = st.buf
    BY <1>2 DEF Composed
  <2> HIDE DEF v
  <2> QED
    BY <1>1, <2>1, <2>2 DEF Registered, Settled, v
<1>3. CASE u.status = 0
  <2>1. /\ GoesOn(u)
        /\ \A z \in u.zip : z \in st.zip \/ (z[1] = path /\ z[2] \in Algorithms)
    BY <1>1, <1>3 DEF GoesOn, Composed
  <2>2. CASE path \in u.cached
    <3>1. v = Progress(200, u)
      BY <2>1, <2>2 DEF RegisterInCache
    <3>2. Progress(200, u) = ProgressOf(200, u.buf, u.cached, u.zip, "up")
      BY <1>1, StatusSet
    <3>3. Kept(u.cached, u.zip)
      BY <1>1, <2>1, <2>2 DEF Kept
    <3> HIDE DEF v
    <3>4. Settled(v) /\ v.status = 200 /\ v.buf = u.buf
      BY <1>1, <3>1, <3>2, <3>3, SettledIs
    <3> QED
      BY <1>3, <3>4 DEF Registered, v
  <2>3. CASE path \notin u.cached /\ fault = "watch"
    <3> DEFINE zip == {z \in u.zip : z[1] # path}
               w == [u EXCEPT !.zip = zip]
    <3>1. v = Progress(500, w)
      BY <2>1, <2>3 DEF RegisterInCache
    <3>2. Kept(u.cached, zip)
      BY <1>1, <2>1 DEF Kept
    <3> HIDE DEF zip
    <3>3. w = ProgressOf(0, u.buf, u.cached, zip, "up")
      BY <1>1, <1>3, CacheSet
    <3> HIDE DEF w
    <3>4. /\ IsProgress(w) /\ w.buf = u.buf /\ w.cached = u.cached
          /\ w.zip = zip /\ w.worker = "up"
      BY <3>3, ProgressFields
    <3> HIDE DEF v
    <3>5. v = ProgressOf(500, u.buf, u.cached, zip, "up")
      BY <3>1, <3>4, StatusSet
    <3>6. Settled(v) /\ v.status = 500 /\ v.buf = u.buf
      BY <1>1, <3>2, <3>5, SettledIs
    <3> QED
      BY <1>3, <2>3, <3>6 DEF Registered, v
  <2>4. CASE path \notin u.cached /\ fault # "watch"
    <3> DEFINE files == u.cached \cup {path}
               w == [u EXCEPT !.cached = files]
    <3>1. v = Progress(200, w)
      BY <2>1, <2>4 DEF RegisterInCache
    <3>2. Kept(files, u.zip)
      BY <1>1, <2>1 DEF Kept
    <3> HIDE DEF files
    <3>3. w = ProgressOf(0, u.buf, files, u.zip, "up")
      BY <1>1, <1>3, CacheSet
    <3> HIDE DEF w
    <3>4. /\ IsProgress(w) /\ w.buf = u.buf /\ w.cached = files
          /\ w.zip = u.zip /\ w.worker = "up"
      BY <3>3, ProgressFields
    <3> HIDE DEF v
    <3>5. v = ProgressOf(200, u.buf, files, u.zip, "up")
      BY <3>1, <3>4, StatusSet
    <3>6. Settled(v) /\ v.status = 200 /\ v.buf = u.buf
      BY <1>1, <3>2, <3>5, SettledIs
    <3> QED
      BY <1>3, <3>6 DEF Registered, v
  <2> QED
    BY <2>2, <2>3, <2>4
<1> QED
  BY <1>2, <1>3

(* A path whose look-up ends well is a directory or can be read.           *)
LEMMA OpenedIs ==
  ASSUME NEW st, Kept(st.cached, st.zip), NEW path, NEW ret, OpenStatus(st, path, ret) = 0
  PROVE  Cacheable(path) /\ (Kind(path) # "dir" => Readable(path) /\ Kind(path) = "file")
<1>1. ~(path \in st.cached) => Kind(path) # "none"
                /\ ~(Kind(path) = "file" /\ Site[OnDisk(path)].size = 0)
  BY DEF OpenStatus
<1>2. Kind(path) # "none" => OnDisk(path) \in DOMAIN Site
  BY DEF Kind
<1>3. OnDisk(path) \in DOMAIN Site =>
        /\ Kind(path) = Site[OnDisk(path)].kind /\ Kind(path) \in {"file", "dir"}
        /\ Site[OnDisk(path)].size \in Nat
  BY UriAssumption DEF Kind
<1>4. Cacheable(path)
  <2>1. CASE path \in st.cached
    BY <2>1 DEF Kept
  <2>2. CASE path \notin st.cached
    BY <1>1, <1>2, <1>3, <2>2 DEF Cacheable, Readable
  <2> QED
    BY <2>1, <2>2
<1>5. Readable(path) => Kind(path) = "file"
  BY <1>3 DEF Readable
<1> QED
  BY <1>4, <1>5 DEF Cacheable

(* A file has been tried: it was served, or nothing was appended, or what  *)
(* was appended could not be watched.                                      *)
Tried(st, v, req, fault, path, parts) ==
  /\ Settled(v) /\ v.status \in {200, 400, 404, 500}
  /\ v.status = 200 \/ v.buf = st.buf \/ (fault = "watch" /\ Readable(path))
  /\ v.status = 200 =>
       Readable(path) /\ (Plain(req, path, parts) => PageIs(v.buf.data, req, path))
  /\ fault = "none" /\ Plain(req, path, parts) /\ Readable(path) => v.status = 200

(* A file that can be read, and named, is opened.                          *)
LEMMA ReadableOpens ==
  ASSUME NEW st, NEW req, NEW path, NEW parts, Plain(req, path, parts), Readable(path)
  PROVE  /\ OpenStatus(st, path, parts.ret) = 0 /\ Kind(path) = "file"
         /\ PlainAt(req, path, parts.ext)
<1>1. Kind(path) = "file" /\ Site[OnDisk(path)].size # 0
  BY UriAssumption DEF Readable, Kind
<1>2. ~Refused(path, parts.ret) /\ PlainAt(req, path, parts.ext)
  BY <1>1 DEF Plain
<1> QED
  BY <1>1, <1>2 DEF OpenStatus

LEMMA ProcessFileIs ==
  ASSUME ContentsFit, NEW st, Settled(st), st.status = 0, NEW req \in AllAsks,
         NEW fault, NEW path, NEW parts,
         Kind(path) = "file" => QueryMimeType(parts.ext),
         Readable(path) => Started(st.buf)
  PROVE  Tried(st, ProcessFile(st, req, fault, path, parts), req, fault, path, parts)
<1> DEFINE v == ProcessFile(st, req, fault, path, parts)
           status == OpenStatus(st, path, parts.ret)
<1>1. /\ IsProgress(st) /\ Filling(st.buf) /\ Kept(st.cached, st.zip)
      /\ st.worker = "up"
  BY DEF Settled
<1>2. ASSUME NEW x \in {400, 404, 500}, ~(Plain(req, path, parts) /\ Readable(path))
      PROVE  Tried(st, Progress(x, st), req, fault, path, parts)
  <2> DEFINE w == ProgressOf(x, st.buf, st.cached, st.zip, "up")
  <2>1. Progress(x, st) = w
    BY <1>1, StatusSet
  <2>2. Settled(w) /\ w.status = x /\ w.buf = st.buf
    BY <1>1, SettledIs
  <2> HIDE DEF w
  <2> QED
    BY <1>2, <2>1, <2>2 DEF Tried
<1>3. CASE status # 0
  <2>1. v = Progress(status, st) /\ status \in {400, 404, 500}
    BY <1>3 DEF ProcessFile, OpenStatus
  <2>2. ~(Plain(req, path, parts) /\ Readable(path))
    BY <1>3, ReadableOpens
  <2> HIDE DEF v, status
  <2> QED
    BY <1>2, <2>1, <2>2 DEF v
<1>4. CASE status = 0 /\ Kind(path) = "dir"
  <2>1. v = Progress(404, st)
    BY <1>4 DEF ProcessFile
  <2>2. ~(Plain(req, path, parts) /\ Readable(path))
    BY <1>4, ReadableOpens
  <2> QED
    BY <1>2, <2>1, <2>2
<1>5. CASE status = 0 /\ Kind(path) # "dir"
  <2> DEFINE u == AppendFile(st, req, fault, path, parts.ext)
  <2>1. Cacheable(path) /\ Readable(path) /\ Kind(path) = "file"
    BY <1>1, <1>5, OpenedIs
  <2>2. Composed(st, u, path) /\ Tells(u, req, fault, path, parts.ext)
    BY <1>1, <2>1, AppendFileIs
  <2>3. v = RegisterInCache(u, fault, path)
    BY <1>5 DEF ProcessFile
  <2> HIDE DEF u, v
  <2>4. Registered(st, u, v, fault)
    BY <1>1, <2>1, <2>2, <2>3, RegisterIs
  <2>5. Plain(req, path, parts) => PlainAt(req, path, parts.ext)
    BY <2>1, ReadableOpens
  <2>6. /\ v.status = 200 /\ Plain(req, path, parts) => PageIs(v.buf.data, req, path)
        /\ fault = "none" => v.status = 200
    BY <2>2, <2>4, <2>5 DEF Registered, Tells
  <2> QED
    BY <2>1, <2>4, <2>6 DEF Registered, Tried, v
<1> QED
  BY <1>3, <1>4, <1>5

LEMMA MaxIs ==
  ASSUME NEW n \in Nat, NEW s \in SUBSET (1..n), n \in s
  PROVE  Max(s) = n
<1>1. n \in s /\ \A y \in s : n >= y
  OBVIOUS
<1>2. \A x \in s : (\A y \in s : x >= y) => x = n
  OBVIOUS
<1> QED
  BY <1>1, <1>2 DEF Max

(* What the two folds of the model do with their k-th element: the next    *)
(* index file is tried, the next key is put into the table.                *)
Trial(req, fault, path) ==
  [is |-> "trial", req |-> req, fault |-> fault, path |-> path, keys |-> <<>>]
Push(keys) ==
  [is |-> "push", req |-> None, fault |-> "none", path |-> <<>>, keys |-> keys]
FoldStep(how, x, k) ==
  IF how.is = "trial" THEN TryIndex(x, how.req, how.fault, how.path, Index[k])
  ELSE PushHashNode(x, how.keys[k])

(* The function by which a fold is defined.                                *)
IsFold(base, how, n, f) ==
  f = [s \in SUBSET (1..n) |->
         IF s = {} THEN base ELSE FoldStep(how, f[s \ {Max(s)}], Max(s))]

(* It exists, so the elements are taken one after the other.               *)
LEMMA FoldExists ==
  ASSUME NEW base, NEW how, NEW n \in Nat
  PROVE  \E f : IsFold(base, how, n, f)
<1> DEFINE S == {k \in 0..n : \E f : IsFold(base, how, k, f)}
           Folded(f, s) == IF s = {} THEN base
                          ELSE FoldStep(how, f[s \ {Max(s)}], Max(s))
<1>1. 0 \in S
  <2> DEFINE f == [s \in SUBSET (1..0) |-> base]
  <2>1. \A s \in SUBSET (1..0) : s = {}
    OBVIOUS
  <2>2. f = [s \in SUBSET (1..0) |-> Folded(f, s)]
    BY <2>1
  <2> HIDE DEF f
  <2>3. IsFold(base, how, 0, f)
    BY <2>2 DEF IsFold
  <2> QED
    BY <2>3
<1>2. ASSUME NEW k \in 1..n, k - 1 \in S PROVE k \in S
  <2>1. PICK f : IsFold(base, how, k - 1, f)
    BY <1>2
  <2>2. \A s \in SUBSET (1..k - 1) : f[s] = Folded(f, s)
    BY <2>1 DEF IsFold
  <2> DEFINE g == [s \in SUBSET (1..k) |->
                     IF k \in s THEN FoldStep(how, f[s \ {k}], k) ELSE f[s]]
  <2>3. \A s \in SUBSET (1..k) : k \notin s => s \in SUBSET (1..k - 1)
    BY <1>2
  <2>4. \A s \in SUBSET (1..k - 1) : g[s] = f[s]
    BY <1>2
  <2>5. ASSUME NEW s \in SUBSET (1..k) PROVE g[s] = Folded(g, s)
    <3>1. CASE k \in s
      <4>1. Max(s) = k /\ s # {} /\ s \ {k} \in SUBSET (1..k - 1)
        BY <1>2, <3>1, <2>3, MaxIs
      <4>2. g[s \ {k}] = f[s \ {k}]
        BY <2>4, <4>1
      <4>3. g[s] = FoldStep(how, f[s \ {k}], k)
        BY <3>1
      <4> HIDE DEF g
      <4> QED
        BY <4>1, <4>2, <4>3
    <3>2. CASE k \notin s
      <4>1. s \in SUBSET (1..k - 1) /\ s \ {Max(s)} \in SUBSET (1..k - 1)
        BY <2>3, <3>2
      <4>2. g[s] = f[s] /\ g[s \ {Max(s)}] = f[s \ {Max(s)}] /\ f[s] = Folded(f, s)
        BY <2>2, <2>4, <4>1
      <4> HIDE DEF g
      <4> QED
        BY <4>2
    <3> QED
      BY <3>1, <3>2
  <2>6. g = [s \in SUBSET (1..k) |-> g[s]]
    OBVIOUS
  <2> HIDE DEF g
  <2>7. IsFold(base, how, k, g)
    BY <2>5, <2>6 DEF IsFold
  <2> QED
    BY <1>2, <2>7
<1> HIDE DEF S
<1>3. n \in S
  BY <1>1, <1>2, Climb
<1> QED
  BY <1>3 DEF S

LEMMA FoldSteps ==
  ASSUME NEW base, NEW how, NEW n \in Nat, NEW g, IsFold(base, how, n, g)
  PROVE  \E f : /\ f[0] = base
                /\ \A k \in 1..n : f[k] = FoldStep(how, f[k - 1], k)
                /\ g[1..n] = f[n]
<1> DEFINE f == [k \in 0..n |-> g[1..k]]
<1>1. \A s \in SUBSET (1..n) :
        g[s] = IF s = {} THEN base ELSE FoldStep(how, g[s \ {Max(s)}], Max(s))
  BY DEF IsFold
<1>2. f[0] = base
  <2>1. 1..0 = {} /\ {} \in SUBSET (1..n)
    OBVIOUS
  <2>2. g[1..0] = base
    BY <1>1, <2>1
  <2> QED
    BY <2>2
<1>3. ASSUME NEW k \in 1..n PROVE f[k] = FoldStep(how, f[k - 1], k)
  <2>1. k \in 1..k /\ 1..k \in SUBSET (1..n) /\ k \in Nat /\ 1..k \in SUBSET (1..k)
    OBVIOUS
  <2>2. Max(1..k) = k
    BY <2>1, MaxIs
  <2>3. (1..k) \ {k} = 1..(k - 1)
    OBVIOUS
  <2>4. g[1..k] = FoldStep(how, g[1..(k - 1)], k)
    BY <1>1, <2>1, <2>2, <2>3
  <2>5. k \in 0..n /\ k - 1 \in 0..n
    OBVIOUS
  <2> QED
    BY <2>4, <2>5
<1>4. f[n] = g[1..n]
  OBVIOUS
<1> HIDE DEF f
<1> QED
  BY <1>2, <1>3, <1>4

(* The fold over the index files.                                          *)
TriedAll(base, req, fault, path) ==
  FoldLeft(LAMBDA before, name : TryIndex(before, req, fault, path, name), base, Index)

LEMMA IndexFoldIs ==
  ASSUME NEW base, NEW req, NEW fault, NEW path
  PROVE  \E f : /\ f[0] = base
                /\ \A k \in 1..Len(Index) :
                     f[k] = TryIndex(f[k - 1], req, fault, path, Index[k])
                /\ TriedAll(base, req, fault, path) = f[Len(Index)]
<1> DEFINE n == Len(Index)
           how == Trial(req, fault, path)
           IsIndexFold(f) ==
             f = [s \in SUBSET (1..n) |->
                    IF s = {} THEN base
                    ELSE TryIndex(f[s \ {Max(s)}], req, fault, path, Index[Max(s)])]
           g == CHOOSE f : IsIndexFold(f)
<1>1. n \in Nat /\ DOMAIN Index = 1..n
  BY TableAssumption
<1>2. \A x, k : FoldStep(how, x, k) = TryIndex(x, req, fault, path, Index[k])
  BY DEF FoldStep, Trial
<1> HIDE DEF how
<1>3. \A f : IsFold(base, how, n, f) <=> IsIndexFold(f)
  BY <1>2 DEF IsFold
<1>4. IsFold(base, how, n, g)
  <2>1. \E f : IsIndexFold(f)
    <3> HIDE DEF IsIndexFold, n
    <3> QED
      BY <1>1, <1>3, FoldExists
  <2> HIDE DEF IsIndexFold
  <2> QED
    BY <1>3, <2>1
<1>5. TriedAll(base, req, fault, path)
        = (CHOOSE h : h = [s \in SUBSET DOMAIN Index |->
             IF s = {} THEN base
             ELSE TryIndex(h[s \ {Max(s)}], req, fault, path, Index[Max(s)])])[DOMAIN Index]
  BY DEF TriedAll, FoldLeft, MapThenFoldSet
<1>6. TriedAll(base, req, fault, path) = g[1..n]
  BY <1>1, <1>5
<1> HIDE DEF g, n
<1> QED
  BY <1>1, <1>2, <1>4, <1>6, FoldSteps DEF n

(* After k index files the reply is there, or is still its start line, or  *)
(* one of the files was appended and could not be watched.                 *)
IndexParts(path, k) == SplitHttpUri(path, Index[k])

PlainIndex(req, path) ==
  \A k \in 1..Len(Index) : Plain(req, path \o Index[k], IndexParts(path, k))

(* The first one that can be read, where no call fails.                    *)
Serves(x, req, fault, path, j) ==
  /\ Readable(path \o Index[j]) /\ PageIs(x.buf.data, req, path \o Index[j])
  /\ fault = "none" => \A i \in 1..j - 1 : ~Readable(path \o Index[i])

Chosen(x, req, fault, path, k) ==
  /\ x.status = 200 => \E j \in 1..k : Serves(x, req, fault, path, j)
  /\ x.status # 200 /\ fault = "none" => \A j \in 1..k : ~Readable(path \o Index[j])

Trying(x, req, fault, path, k) ==
  /\ Settled(x) /\ x.status \in {200, 400, 404, 500}
  /\ \/ x.status = 200 \/ Started(x.buf)
     \/ fault = "watch" /\ \E j \in 1..k : Readable(path \o Index[j])
  /\ PlainIndex(req, path) => Chosen(x, req, fault, path, k)

LEMMA TryIndexIs ==
  ASSUME Harmless, NEW req \in AllAsks, NEW fault \in Faults, NEW path \in Requested,
         NEW k \in 1..Len(Index), NEW x, Trying(x, req, fault, path, k - 1)
  PROVE  Trying(TryIndex(x, req, fault, path, Index[k]), req, fault, path, k)
<1> DEFINE y == TryIndex(x, req, fault, path, Index[k])
           file == path \o Index[k]
<1>1. /\ Settled(x) /\ IsProgress(x) /\ Filling(x.buf) /\ Kept(x.cached, x.zip)
      /\ x.worker = "up"
  BY DEF Trying, Settled
<1>2. /\ Len(Index) \in Nat /\ DOMAIN Index = 1..Len(Index) /\ k \in 1..k
      /\ \A j \in 1..k - 1 : j \in 1..k /\ j \in DOMAIN Index /\ j # k
  BY TableAssumption
<1>3. CASE x.status = 200
  <2>1. y = x
    BY <1>3 DEF TryIndex
  <2>2. Chosen(x, req, fault, path, k - 1) => Chosen(x, req, fault, path, k)
    BY <1>2, <1>3 DEF Chosen
  <2> HIDE DEF y
  <2> QED
    BY <1>3, <2>1, <2>2 DEF Trying, y
<1>4. CASE x.status # 200
  <2> DEFINE st == ProgressOf(0, x.buf, x.cached, x.zip, "up")
             parts == IndexParts(path, k)
  <2>1. y = ProcessFile(st, req, fault, file, parts)
    <3>1. Progress(0, x) = st
      BY <1>1, StatusSet
    <3> QED
      BY <1>1, <1>4, <3>1 DEF TryIndex, IndexParts
  <2>2. Settled(st) /\ st.status = 0 /\ st.buf = x.buf
    BY <1>1, SettledIs
  <2>3. Kind(file) = "file" => QueryMimeType(parts.ext)
    BY <1>2 DEF Harmless, TypesKnown, IndexParts
  <2>4. Readable(file) => Started(x.buf)
    <3> SUFFICES ASSUME Readable(file), ~Started(x.buf) PROVE FALSE
      OBVIOUS
    <3>1. PICK j \in 1..k - 1 : fault = "watch" /\ Readable(path \o Index[j])
      BY <1>4 DEF Trying
    <3>2. j = k
      BY <1>2, <3>1 DEF Harmless, OneIndexFile
    <3> QED
      BY <1>2, <3>2
  <2> HIDE DEF st, parts, file, y
  <2>5. Tried(st, y, req, fault, file, parts)
    BY <2>1, <2>2, <2>3, <2>4, ProcessFileIs DEF Harmless
  <2>6. \/ y.status = 200 \/ Started(y.buf)
        \/ fault = "watch" /\ \E j \in 1..k : Readable(path \o Index[j])
    <3>1. CASE y.status = 200 \/ y.buf # st.buf
      BY <1>2, <2>5, <3>1 DEF Tried, file
    <3>2. CASE y.buf = st.buf
      BY <1>2, <1>4, <2>2, <3>2 DEF Trying
    <3> QED
      BY <3>1, <3>2
  <2>7. ASSUME PlainIndex(req, path) PROVE Chosen(y, req, fault, path, k)
    <3>1. Chosen(x, req, fault, path, k - 1) /\ Plain(req, file, parts)
      BY <1>2, <2>7 DEF Trying, PlainIndex, file, parts
    <3>2. fault = "none" => \A j \in 1..k - 1 : ~Readable(path \o Index[j])
      BY <1>4, <3>1 DEF Chosen
    <3>3. y.status = 200 => Readable(file) /\ PageIs(y.buf.data, req, file)
      BY <2>5, <3>1 DEF Tried
    <3>4. y.status # 200 /\ fault = "none" => ~Readable(file)
      BY <2>5, <3>1 DEF Tried
    <3>5. y.status = 200 => Serves(y, req, fault, path, k)
      BY <3>2, <3>3 DEF Serves, file
    <3>6. \A j \in 1..k : j = k \/ j \in 1..k - 1
      BY <1>2
    <3>7. y.status # 200 /\ fault = "none" => \A j \in 1..k : ~Readable(path \o Index[j])
      BY <3>2, <3>4, <3>6 DEF file
    <3> QED
      BY <1>2, <3>5, <3>7 DEF Chosen
  <2> QED
    BY <2>5, <2>6, <2>7 DEF Tried, Trying, y
<1> QED
  BY <1>3, <1>4

(* A directory answers with its first index file that can be read.         *)
IndexFound(path) == {i \in DOMAIN Index : Readable(path \o Index[i])}

Listed(v, req, fault, path) ==
  /\ Settled(v) /\ v.status \in {200, 404, 500}
  /\ PlainIndex(req, path) /\ IndexDecides =>
       /\ v.status = 200 =>
            IndexFound(path) # {} /\ PageIs(v.buf.data, req, path \o Index[Min(IndexFound(path))])
       /\ fault = "none" /\ IndexFound(path) # {} => v.status = 200

(* The one that was served is that one.                                    *)
LEMMA ServesFirst ==
  ASSUME IndexDecides, NEW fault \in Faults, NEW path \in Requested,
         NEW x, NEW req, NEW j \in 1..Len(Index), Serves(x, req, fault, path, j)
  PROVE  IndexFound(path) # {} /\ PageIs(x.buf.data, req, path \o Index[Min(IndexFound(path))])
<1>1. DOMAIN Index = 1..Len(Index) /\ Len(Index) \in Nat
  BY TableAssumption
<1>2. IndexFound(path) \in SUBSET Nat /\ j \in IndexFound(path)
  BY <1>1 DEF IndexFound, Serves
<1> DEFINE m == Min(IndexFound(path))
<1>3. m \in IndexFound(path) /\ m <= j
  BY <1>2, MinIs
<1> HIDE DEF m
<1>4. m = j
  <2>1. CASE fault = "none"
    <3>1. ~(m \in 1..j - 1)
      BY <1>3, <2>1 DEF IndexFound, Serves
    <3>2. m \in 1..Len(Index)
      BY <1>1, <1>3 DEF IndexFound
    <3> QED
      BY <1>1, <1>3, <3>1, <3>2
  <2>2. CASE fault # "none"
    <3>1. \A i, k \in DOMAIN Index :
            Readable(path \o Index[i]) /\ Readable(path \o Index[k]) => i = k
      BY <2>2 DEF IndexDecides
    <3> QED
      BY <1>2, <1>3, <3>1 DEF IndexFound
  <2> QED
    BY <2>1, <2>2
<1> QED
  BY <1>2, <1>4 DEF Serves, m

LEMMA ProcessDirectoryIs ==
  ASSUME Harmless, NEW req \in AllAsks, NEW fault \in Faults, NEW path \in Requested,
         Kind(path) = "dir", NEW st, Settled(st), Started(st.buf)
  PROVE  Listed(ProcessDirectory(st, req, fault, path), req, fault, path)
<1> DEFINE n == Len(Index)
           base == Progress(404, st)
           last == TriedAll(base, req, fault, path)
<1>1. /\ IsProgress(st) /\ Filling(st.buf) /\ Kept(st.cached, st.zip)
      /\ st.worker = "up" /\ n \in Nat
  BY TableAssumption DEF Settled
<1>2. Trying(base, req, fault, path, 0)
  <2> DEFINE w == ProgressOf(404, st.buf, st.cached, st.zip, "up")
  <2>1. base = w
    BY <1>1, StatusSet
  <2>2. Settled(w) /\ w.status = 404 /\ w.buf = st.buf
    BY <1>1, SettledIs
  <2> HIDE DEF w, base
  <2> QED
    BY <2>1, <2>2 DEF Trying, Chosen, base
<1> HIDE DEF base
<1>3. PICK f : /\ f[0] = base
               /\ \A k \in 1..n : f[k] = TryIndex(f[k - 1], req, fault, path, Index[k])
               /\ last = f[n]
  BY IndexFoldIs
<1> HIDE DEF last
<1> DEFINE S == {k \in 0..n : Trying(f[k], req, fault, path, k)}
<1>4. 0 \in S
  <2>1. Trying(f[0], req, fault, path, 0)
    BY <1>2, <1>3
  <2>2. 0 \in 0..n
    BY <1>1
  <2> QED
    BY <2>1, <2>2
<1>5. ASSUME NEW k \in 1..n, k - 1 \in S PROVE k \in S
  <2>1. Trying(f[k - 1], req, fault, path, k - 1)
    BY <1>5
  <2>2. Trying(f[k], req, fault, path, k)
    BY <1>3, <2>1, TryIndexIs
  <2> QED
    BY <2>2
<1>6. n \in S
  <2> HIDE DEF S
  <2>1. n \in Nat /\ 0 \in S /\ \A k \in 1..n : k - 1 \in S => k \in S
    BY <1>1, <1>4, <1>5
  <2> HIDE DEF n
  <2>2. 0..n \subseteq S
    BY <2>1, Climb
  <2> QED
    BY <2>1, <2>2
<1>7. /\ Settled(last)
      /\ PlainIndex(req, path) => Chosen(last, req, fault, path, n)
  BY <1>3, <1>6 DEF Trying
<1>8. ProcessDirectory(st, req, fault, path) = RegisterInCache(ServedIndex(last), fault, path)
  BY DEF ProcessDirectory, TriedAll, base, last
<1> HIDE DEF S
<1>9. /\ IsProgress(last) /\ Filling(last.buf) /\ Kept(last.cached, last.zip)
      /\ last.worker = "up"
  BY <1>7 DEF Settled
<1> DEFINE v == ProcessDirectory(st, req, fault, path)
<1>10. CASE last.status = 200
  <2> DEFINE w == ProgressOf(0, last.buf, last.cached, last.zip, "up")
  <2>1. ServedIndex(last) = w
    BY <1>9, <1>10, StatusSet DEF ServedIndex
  <2>2. Composed(last, w, path)
    BY <1>9, ComposedIs
  <2>3. Cacheable(path) /\ w.buf = last.buf /\ w.status = 0
    BY ProgressFields DEF Cacheable
  <2> HIDE DEF w
  <2>4. Registered(last, w, v, fault)
    <3> HIDE DEF v
    <3>1. v = RegisterInCache(w, fault, path)
      BY <1>8, <2>1 DEF v
    <3> QED
      BY <1>9, <2>2, <2>3, <3>1, RegisterIs
  <2> HIDE DEF v
  <2>5. /\ Settled(v) /\ v.status \in {200, 500} /\ v.buf = last.buf
        /\ fault = "none" => v.status = 200
    BY <2>3, <2>4 DEF Registered
  <2>6. ASSUME PlainIndex(req, path), IndexDecides
        PROVE  IndexFound(path) # {} /\ PageIs(last.buf.data, req, path \o Index[Min(IndexFound(path))])
    <3>1. PICK j \in 1..n : Serves(last, req, fault, path, j)
      BY <1>7, <1>10, <2>6 DEF Chosen
    <3> QED
      BY <2>6, <3>1, ServesFirst DEF n
  <2>7. Listed(v, req, fault, path)
    BY <2>5, <2>6 DEF Listed
  <2> QED
    BY <2>7 DEF v
<1>11. CASE last.status # 200
  <2> DEFINE w == ProgressOf(404, last.buf, last.cached, last.zip, "up")
  <2>1. ServedIndex(last) = w
    BY <1>9, <1>11, StatusSet DEF ServedIndex
  <2>2. Settled(w) /\ w.status = 404
    BY <1>9, SettledIs
  <2> HIDE DEF w
  <2>3. RegisterInCache(w, fault, path) = w
    BY <2>2 DEF RegisterInCache, GoesOn
  <2>4. PlainIndex(req, path) /\ fault = "none" => IndexFound(path) = {}
    <3>1. DOMAIN Index = 1..n
      BY TableAssumption
    <3> QED
      BY <1>7, <1>11, <3>1 DEF Chosen, IndexFound
  <2>5. v = w
    BY <1>8, <2>1, <2>3
  <2> HIDE DEF v
  <2>6. Listed(v, req, fault, path)
    BY <2>2, <2>4, <2>5 DEF Listed
  <2> QED
    BY <2>6 DEF v
<1> QED
  BY <1>10, <1>11

(* Of a path that is asked for as Tellable says.                           *)
LEMMA PlainIs ==
  ASSUME Tellable, NEW req \in AllAsks, NEW h \in Range(Servers)
  PROVE  LET path == h.wwwroot \o req.uri
         IN  /\ Plain(req, path, SplitHttpUri(h.wwwroot, req.uri))
             /\ PlainIndex(req, path)
<1> DEFINE path == h.wwwroot \o req.uri
           parts == SplitHttpUri(h.wwwroot, req.uri)
<1>1. path \in Requested
  <2>1. path \in {h.wwwroot \o r.uri : r \in AllAsks}
    OBVIOUS
  <2> QED
    BY <2>1 DEF Requested
<1>2. /\ req.method \in {"GET", "HEAD"} /\ (CompressOn \/ req.accept = None)
      /\ Nameable(h.wwwroot, req.uri)
      /\ \A i \in DOMAIN Index : Nameable(path, Index[i])
  BY <1>1 DEF Tellable, GetOrHead, Negotiates, NamesPlain
<1>3. req.method = "HEAD" =>
        ~IsPage(path) /\ \A i \in DOMAIN Index : ~IsPage(path \o Index[i])
  BY DEF Tellable, PagesWhole
<1>4. Kind(path) # "none" =>
        ~Refused(path, parts.ret) /\ (parts.ext = <<HsType>> => IsPage(path))
  BY <1>2 DEF Nameable
<1> DEFINE file(k) == path \o Index[k]
<1>5. DOMAIN Index = 1..Len(Index)
  BY TableAssumption
<1>6. \A k \in 1..Len(Index) :
        Kind(file(k)) # "none" =>
          /\ ~Refused(file(k), IndexParts(path, k).ret)
          /\ IndexParts(path, k).ext = <<HsType>> => IsPage(file(k))
  BY <1>2, <1>5 DEF Nameable, IndexParts
<1> HIDE DEF path, parts
<1>7. Plain(req, path, parts)
  BY <1>2, <1>3, <1>4 DEF Plain, PlainAt
<1>8. PlainIndex(req, path)
  BY <1>2, <1>3, <1>5, <1>6 DEF PlainIndex, Plain, PlainAt
<1> QED
  BY <1>7, <1>8 DEF path, parts

(* A request is served with buffer and cache in order, and as it deserves. *)
WantedOn(host, req) ==
  IF host = None THEN {} ELSE WantedAt(host.wwwroot \o req.uri)

Fit(v, req, fault, wanted) ==
  /\ v.status = 200 => \E p \in wanted : PageIs(v.buf.data, req, p)
  /\ fault = "none" /\ wanted # {} => v.status = 200

ServedFit(v, req, fault, host) ==
  /\ Settled(v) /\ v.status \in {200, 400, 403, 404, 500}
  /\ Tellable => Fit(v, req, fault, WantedOn(host, req))

LEMMA TriedFits ==
  ASSUME NEW st, NEW v, NEW req, NEW fault, NEW path, NEW parts,
         Tried(st, v, req, fault, path, parts), Plain(req, path, parts), Kind(path) # "dir"
  PROVE  Fit(v, req, fault, WantedAt(path))
<1>1. WantedAt(path) = IF Readable(path) THEN {path} ELSE {}
  BY DEF WantedAt
<1>2. /\ v.status = 200 => Readable(path) /\ PageIs(v.buf.data, req, path)
      /\ fault = "none" /\ Readable(path) => v.status = 200
  BY DEF Tried
<1> QED
  BY <1>1, <1>2 DEF Fit

LEMMA DirWanted ==
  ASSUME NEW path, Kind(path) = "dir"
  PROVE  /\ ~Readable(path)
         /\ WantedAt(path) = IF IndexFound(path) = {} THEN {}
                             ELSE {path \o Index[Min(IndexFound(path))]}
<1>1. ~Readable(path)
  BY DEF Readable, Kind
<1> QED
  BY <1>1 DEF WantedAt, IndexFound

LEMMA ListedFits ==
  ASSUME NEW v, NEW req, NEW fault, NEW path, Listed(v, req, fault, path),
         PlainIndex(req, path), IndexDecides, Kind(path) = "dir"
  PROVE  Fit(v, req, fault, WantedAt(path))
<1> DEFINE found == IndexFound(path)
           file == path \o Index[Min(found)]
<1>1. /\ v.status = 200 => found # {} /\ PageIs(v.buf.data, req, file)
      /\ fault = "none" /\ found # {} => v.status = 200
  BY DEF Listed
<1>2. WantedAt(path) = IF found = {} THEN {} ELSE {file}
  BY DirWanted
<1> HIDE DEF found, file
<1> QED
  BY <1>1, <1>2 DEF Fit

LEMMA ServedIs ==
  ASSUME Harmless, NEW b, Filling(b), Kept(cached, zipped), NEW req \in AllAsks,
         NEW fault \in Faults, NEW host \in Range(Servers) \cup {None}
  PROVE  ServedFit(Served(b, req, fault, host), req, fault, host)
<1> DEFINE st == ProgressOf(0, b, cached, zipped, "up")
           d == FormatStartLine(b, 200)
           st2 == ProgressOf(0, d, cached, zipped, "up")
           path == host.wwwroot \o req.uri
           parts == SplitHttpUri(host.wwwroot, req.uri)
<1>1. Served(b, req, fault, host) =
        IF host = None THEN Progress(403, st)
        ELSE ProcessHttpRequest([st EXCEPT !.buf = d], req, fault, path, parts)
  BY DEF Served, ProgressOf
<1>2. IsProgress(st) /\ st.buf = b /\ st.cached = cached /\ st.zip = zipped
        /\ st.worker = "up" /\ st.status = 0
  BY ProgressFields
<1>3. CASE host = None
  <2> DEFINE w == ProgressOf(403, b, cached, zipped, "up")
  <2>1. Progress(403, st) = w
    <3> HIDE DEF st
    <3> QED
      BY <1>2, StatusSet
  <2>2. Settled(w) /\ w.status = 403
    BY SettledIs
  <2>3. WantedOn(host, req) = {}
    BY <1>3 DEF WantedOn
  <2> HIDE DEF w, st
  <2>4. ServedFit(w, req, fault, host)
    BY <2>2, <2>3 DEF ServedFit, Fit
  <2>5. Served(b, req, fault, host) = w
    BY <1>1, <1>3, <2>1
  <2> QED
    BY <2>4, <2>5
<1>4. CASE host # None
  <2>1. host \in Range(Servers) /\ path \in Requested
    <3>1. host \in Range(Servers)
      BY <1>4
    <3>3. path \in {host.wwwroot \o r.uri : r \in AllAsks}
      OBVIOUS
    <3> QED
      BY <3>1, <3>3 DEF Requested
  <2>2. [st EXCEPT !.buf = d] = st2
    <3> HIDE DEF st, d
    <3>1. [st EXCEPT !.buf = d] = ProgressOf(st.status, d, st.cached, st.zip, st.worker)
      BY <1>2, BufferSet
    <3> QED
      BY <1>2, <3>1
  <2>3. Started(d)
    <3> DEFINE start == One(StartLine(200))
    <3>1. IsSeq(start) /\ Len(start) = 1
      BY OneIs
    <3>2. 1 < GrowthLimit
      BY BufferAssumption, ResponseAssumption DEF Harmless, ContentsFit
    <3>3. d = StrcpyHttpBuffer(b, start)
      BY DEF FormatStartLine, One
    <3> HIDE DEF d, start
    <3>4. Filling(d) /\ d.data = start
      BY <3>1, <3>2, <3>3, StrcpyIs DEF Harmless
    <3> QED
      BY <3>4 DEF Started, start
  <2>4. Filling(d)
    BY <2>3 DEF Started
  <2> HIDE DEF d
  <2>5. Settled(st2) /\ st2.status = 0 /\ st2.buf = d
    BY <2>4, SettledIs
  <2>6. Kind(path) = "file" => QueryMimeType(parts.ext)
    BY <2>1 DEF Harmless, TypesKnown
  <2>10. Tellable => /\ Plain(req, path, parts) /\ PlainIndex(req, path)
                     /\ IndexDecides
    BY <2>1, PlainIs DEF Tellable
  <2>11. WantedOn(host, req) = WantedAt(path)
    BY <1>4 DEF WantedOn
  <2> HIDE DEF st, st2, path, parts
  <2>7. Served(b, req, fault, host) = ProcessHttpRequest(st2, req, fault, path, parts)
    BY <1>1, <1>4, <2>2
  <2> DEFINE v == Served(b, req, fault, host)
             file == ProcessFile(st2, req, fault, path, parts)
             list == ProcessDirectory(st2, req, fault, path)
  <2>12. Tried(st2, file, req, fault, path, parts)
    <3>1. ContentsFit
      BY DEF Harmless
    <3> QED
      BY <2>3, <2>5, <2>6, <3>1, ProcessFileIs
  <2>8. CASE Kind(path) = "dir"
    <3>1. Listed(list, req, fault, path)
      BY <2>1, <2>3, <2>5, <2>8, ProcessDirectoryIs
    <3>2. CASE OpenStatus(st2, path, parts.ret) = 0
      <4>1. v = list
        BY <2>7, <2>8, <3>2 DEF ProcessHttpRequest
      <4> HIDE DEF v, list
      <4>2. Tellable => Fit(v, req, fault, WantedAt(path))
        BY <2>8, <2>10, <3>1, <4>1, ListedFits
      <4>3. Settled(v) /\ v.status \in {200, 404, 500}
        BY <3>1, <4>1 DEF Listed
      <4> QED
        BY <2>11, <4>2, <4>3 DEF ServedFit, v
    <3>3. CASE OpenStatus(st2, path, parts.ret) # 0
      <4>1. v = file
        BY <2>7, <3>3 DEF ProcessHttpRequest
      <4>2. ~Tellable
        BY <2>8, <2>10, <3>3 DEF Plain, OpenStatus
      <4> HIDE DEF v, file
      <4> QED
        BY <2>12, <4>1, <4>2 DEF ServedFit, Tried, v
    <3> QED
      BY <3>2, <3>3
  <2>9. CASE Kind(path) # "dir"
    <3>1. v = file
      BY <2>7, <2>9 DEF ProcessHttpRequest
    <3> HIDE DEF v, file
    <3>2. Tellable => Fit(v, req, fault, WantedAt(path))
      BY <2>9, <2>10, <2>12, <3>1, TriedFits
    <3> QED
      BY <2>11, <2>12, <3>1, <3>2 DEF ServedFit, Tried, v
  <2> QED
    BY <2>8, <2>9
<1> QED
  BY <1>3, <1>4
----------------------------------------------------------------------------
(* The table of virtual hosts: chains of configured domains.               *)
Domains == {h.domain : h \in Range(Servers)}
IsTable(t, n) == t \in [1..n -> Seq(Domains)]

LEMMA BucketIs ==
  ASSUME NEW n \in Nat, n > 0, NEW t, IsTable(t, n), NEW key \in DOMAIN Hash
  PROVE  Bucket(t, key) + 1 \in 1..n
<1>1. t \in Seq(Seq(Domains)) /\ Len(t) = n
  BY DEF IsTable
<1>2. Hash[key] \in Nat
  BY TableAssumption
<1> DEFINE h == Hash[key]
<1> HIDE DEF h
<1>3. h % n \in 0..n - 1
  BY <1>2 DEF h
<1> QED
  BY <1>1, <1>3 DEF Bucket, h

LEMMA PushIs ==
  ASSUME NEW n \in Nat, n > 0, NEW t, IsTable(t, n), NEW key \in Domains
  PROVE  IsTable(PushHashNode(t, key), n)
<1> DEFINE b == Bucket(t, key) + 1
           chain == t[b]
<1>1. b \in 1..n
  BY BucketIs, TableAssumption DEF Domains
<1>2. chain \in Seq(Domains)
  BY <1>1 DEF IsTable
<1>3. PushHashNode(t, key) = t \/ PushHashNode(t, key) = [t EXCEPT ![b] = <<key>> \o chain]
  BY DEF PushHashNode
<1> HIDE DEF b, chain
<1>4. <<key>> \o chain \in Seq(Domains)
  BY <1>2
<1> QED
  BY <1>1, <1>3, <1>4 DEF IsTable

(* A key put into the table is found in it, and so is every one before.    *)
LEMMA LengthIs ==
  ASSUME NEW n \in Nat, NEW t, IsTable(t, n) PROVE Len(t) = n
BY DEF IsTable

LEMMA FrontOf ==
  ASSUME NEW key, NEW chain, IsSeq(chain)
  PROVE  key \in Range(<<key>> \o chain) /\ Range(chain) \subseteq Range(<<key>> \o chain)
<1> DEFINE s == <<key>>
           u == s \o chain
<1>1. IsSeq(s) /\ Len(s) = 1 /\ s[1] = key
  BY OneIs DEF One
<1> HIDE DEF s
<1>2. IsSeq(u) /\ Len(u) = Len(s) + Len(chain)
  BY <1>1, JoinIs
<1>3. JoinedOf(u, s, chain)
  BY <1>1, JoinedIs
<1> HIDE DEF u
<1>4. DOMAIN u = 1..Len(u) /\ DOMAIN chain = 1..Len(chain) /\ Len(chain) \in Nat
  BY <1>2 DEF IsSeq
<1>5. Len(u) = 1 + Len(chain)
  BY <1>1, <1>2
<1>6. u[1] = key /\ \A i \in 1..Len(chain) : u[1 + i] = chain[i]
  BY <1>1, <1>3 DEF JoinedOf
<1>7. key \in Range(u)
  BY <1>4, <1>5, <1>6 DEF Range
<1>8. ASSUME NEW x \in Range(chain) PROVE x \in Range(u)
  <2>1. PICK i \in 1..Len(chain) : x = chain[i]
    BY <1>4 DEF Range
  <2>2. 1 + i \in DOMAIN u /\ u[1 + i] = x
    BY <1>4, <1>5, <1>6, <2>1
  <2> QED
    BY <2>2 DEF Range
<1> QED
  BY <1>7, <1>8 DEF u, s

LEMMA PushFinds ==
  ASSUME NEW n \in Nat, n > 0, NEW t, IsTable(t, n), NEW key \in Domains
  PROVE  /\ QueryHashNode(PushHashNode(t, key), key)
         /\ \A other \in Domains :
              QueryHashNode(t, other) => QueryHashNode(PushHashNode(t, key), other)
<1> DEFINE v == PushHashNode(t, key)
           b == Bucket(t, key) + 1
           chain == t[b]
           At(k) == Bucket(t, k) + 1
<1>1. b \in 1..n
  BY BucketIs, TableAssumption DEF Domains
<1>2. IsSeq(chain) /\ DOMAIN t = 1..n
  <2>1. chain \in Seq(Domains) /\ DOMAIN t = 1..n
    BY <1>1 DEF IsTable
  <2> HIDE DEF chain
  <2>2. chain \in Seq(Range(chain))
    BY <2>1 DEF Range
  <2> QED
    BY <2>1, <2>2 DEF IsSeq
<1>3. \A k : Bucket(v, k) = Bucket(t, k)
  <2>1. IsTable(v, n)
    BY PushIs
  <2> HIDE DEF v
  <2>2. Len(v) = n /\ Len(t) = n
    BY <2>1, LengthIs
  <2> QED
    BY <2>2 DEF Bucket
<1>4. \/ key \in Range(chain) /\ v = t
      \/ v = [t EXCEPT ![b] = <<key>> \o chain]
  BY DEF PushHashNode
<1>5. key \in Range(<<key>> \o chain) /\ Range(chain) \subseteq Range(<<key>> \o chain)
  BY <1>2, FrontOf
<1> DEFINE new == <<key>> \o chain
<1>6. \A k : QueryHashNode(v, k) <=> k \in Range(v[At(k)])
  BY <1>3 DEF QueryHashNode
<1>7. \A k : QueryHashNode(t, k) <=> k \in Range(t[At(k)])
  BY DEF QueryHashNode
<1>8. b = At(key)
  OBVIOUS
<1> HIDE DEF v, b, chain, new, At
<1>9. QueryHashNode(v, key)
  <2>1. v[b] = chain \/ v[b] = new
    BY <1>1, <1>2, <1>4 DEF new, chain
  <2>2. key \in Range(v[b])
    BY <1>1, <1>2, <1>4, <1>5, <2>1 DEF new, chain
  <2> QED
    BY <1>6, <1>8, <2>2
<1>10. ASSUME NEW other \in Domains, QueryHashNode(t, other) PROVE QueryHashNode(v, other)
  <2>1. other \in Range(t[At(other)])
    BY <1>7, <1>10
  <2>2. At(other) \in 1..n
    BY BucketIs, TableAssumption DEF Domains, At
  <2>3. v[At(other)] = t[At(other)] \/ (At(other) = b /\ v[b] = new)
    BY <1>1, <1>2, <1>4, <2>2 DEF new
  <2>4. other \in Range(v[At(other)])
    BY <1>5, <2>1, <2>3 DEF new, chain
  <2> QED
    BY <1>6, <2>4
<1> QED
  BY <1>9, <1>10 DEF v

LEMMA HostTableIs ==
  \E n \in Nat : /\ n > 0 /\ IsTable(VirtualHostTable, n)
                  /\ \A key \in Domains : QueryHashNode(VirtualHostTable, key)
<1> DEFINE n == (Len(Servers) + 1) * 2
           keys == [i \in DOMAIN Servers |-> Servers[i].domain]
           base == EmptyTable(n)
           l == Len(Servers)
           IsTableFold(f) ==
             f = [s \in SUBSET (1..l) |->
                    IF s = {} THEN base
                    ELSE PushHashNode(f[s \ {Max(s)}], keys[Max(s)])]
           g == CHOOSE f : IsTableFold(f)
<1>1. l \in Nat /\ DOMAIN Servers = 1..l /\ n \in Nat /\ n > 0
  BY TableAssumption
<1>2. DOMAIN keys = 1..l /\ \A k \in 1..l : keys[k] \in Domains
  BY <1>1 DEF Domains, Range
<1>3. VirtualHostTable
        = (CHOOSE h : h = [s \in SUBSET DOMAIN keys |->
             IF s = {} THEN base
             ELSE PushHashNode(h[s \ {Max(s)}], keys[Max(s)])])[DOMAIN keys]
  BY DEF VirtualHostTable, FoldLeft, MapThenFoldSet
<1>4. VirtualHostTable = g[1..l]
  BY <1>2, <1>3
<1>5. IsTable(base, n)
  BY <1>1 DEF EmptyTable, IsTable
<1> DEFINE how == Push(keys)
<1> HIDE DEF keys, base, n, l
<1>6. \A x, k : FoldStep(how, x, k) = PushHashNode(x, keys[k])
  BY DEF FoldStep, Push
<1> HIDE DEF how
<1>7. \A f : IsFold(base, how, l, f) <=> IsTableFold(f)
  BY <1>6 DEF IsFold
<1>8. IsFold(base, how, l, g)
  <2>1. \E f : IsTableFold(f)
    <3> HIDE DEF IsTableFold
    <3> QED
      BY <1>1, <1>7, FoldExists
  <2> HIDE DEF IsTableFold
  <2> QED
    BY <1>7, <2>1
<1> HIDE DEF g
<1>9. PICK f : /\ f[0] = base
               /\ \A k \in 1..l : f[k] = FoldStep(how, f[k - 1], k)
               /\ g[1..l] = f[l]
  <2>1. l \in Nat
    BY <1>1
  <2> QED
    BY <1>8, <2>1, FoldSteps
<1> DEFINE Finds(k) == \A i \in 1..k : QueryHashNode(f[k], keys[i])
           S == {k \in 0..l : IsTable(f[k], n) /\ Finds(k)}
<1>10. 0 \in S
  BY <1>1, <1>5, <1>9
<1>11. ASSUME NEW k \in 1..l, k - 1 \in S PROVE k \in S
  <2>1. IsTable(f[k - 1], n) /\ Finds(k - 1) /\ k \in 0..l
    BY <1>1, <1>11
  <2>2. f[k] = PushHashNode(f[k - 1], keys[k])
    BY <1>6, <1>9
  <2>3. IsTable(f[k], n)
    BY <1>1, <1>2, <2>1, <2>2, PushIs
  <2>4. /\ QueryHashNode(f[k], keys[k])
        /\ \A key \in Domains : QueryHashNode(f[k - 1], key) => QueryHashNode(f[k], key)
    BY <1>1, <1>2, <2>1, <2>2, PushFinds
  <2>5. \A i \in 1..k : i \in 1..l /\ (i = k \/ i \in 1..k - 1)
    BY <1>1
  <2>6. Finds(k)
    BY <1>2, <2>1, <2>4, <2>5
  <2> QED
    BY <2>1, <2>3, <2>6
<1>12. l \in S
  <2> HIDE DEF S
  <2> QED
    BY <1>1, <1>10, <1>11, Climb
<1>13. ASSUME NEW key \in Domains PROVE QueryHashNode(f[l], key)
  <2>1. PICK i \in 1..l : key = keys[i]
    <3>1. PICK h \in Range(Servers) : key = h.domain
      BY DEF Domains
    <3>2. PICK i \in DOMAIN Servers : h = Servers[i]
      BY <3>1 DEF Range
    <3> QED
      BY <1>1, <3>1, <3>2 DEF keys
  <2> QED
    BY <1>12, <2>1
<1> QED
  BY <1>1, <1>4, <1>9, <1>12, <1>13

(* The table knows the configured domains and no others.                   *)
LEMMA TableKnows ==
  ASSUME NEW key \in DOMAIN Hash
  PROVE  QueryHashNode(VirtualHostTable, key) <=> key \in Domains
<1> DEFINE T == VirtualHostTable
<1>1. PICK n \in Nat : /\ n > 0 /\ IsTable(T, n)
                       /\ \A k \in Domains : QueryHashNode(T, k)
  BY HostTableIs
<1> HIDE DEF T
<1>2. ASSUME QueryHashNode(T, key) PROVE key \in Domains
  <2>1. Bucket(T, key) + 1 \in 1..n
    BY <1>1, BucketIs
  <2>2. T[Bucket(T, key) + 1] \in Seq(Domains)
    BY <1>1, <2>1 DEF IsTable
  <2> QED
    BY <1>2, <2>2 DEF QueryHashNode, Range
<1> QED
  BY <1>1, <1>2 DEF T

(* A request finds the host it asked for, or the default one.              *)
LEMMA QueryVirtualHostIs ==
  ASSUME NEW req \in AllAsks
  PROVE  /\ QueryVirtualHost(req) \in Range(Servers) \cup {None}
         /\ DefaultHost # None => QueryVirtualHost(req) # None
         /\ QueryVirtualHost(req) = HostFor(req)
<1> DEFINE key == Asked(req.host)
           fits == {h \in Range(Servers) : h.domain = req.host}
<1>1. QueryHashNode(VirtualHostTable, key) <=> key \in Domains
  BY TableKnows, TableAssumption
<1>2. QueryVirtualHost(req) = IF key \in Domains THEN HostOf(key) ELSE DefaultHost
  BY <1>1 DEF QueryVirtualHost
<1>3. key \in Domains => HostOf(key) \in Range(Servers) /\ HostOf(key).domain = key
  BY DEF Domains, HostOf
<1>4. DefaultHost \in Range(Servers) \cup {None}
  BY DEF DefaultHost, HostOf
<1>5. None \notin Range(Servers) /\ \A h \in Range(Servers) : h.domain # None
  BY TableAssumption
<1>6. \A g, h \in Range(Servers) : g.domain = h.domain => g = h
  BY ResponseAssumption DEF Range
<1>7. QueryVirtualHost(req) = HostFor(req)
  <2>1. CASE req.host = None
    <3>1. key = DefaultDomain
      BY <2>1 DEF Asked
    <3>2. key \in Domains => DefaultHost = HostOf(key)
      BY <3>1 DEF DefaultHost, Domains
    <3>3. fits = {}
      BY <1>5, <2>1
    <3> HIDE DEF key
    <3> QED
      BY <1>2, <3>2, <3>3 DEF HostFor
  <2>2. CASE req.host # None
    <3>1. key = req.host
      BY <2>2 DEF Asked
    <3>2. fits # {} <=> key \in Domains
      BY <3>1 DEF Domains
    <3>3. ASSUME key \in Domains PROVE HostOf(key) = CHOOSE h \in fits : TRUE
      <4>1. HostOf(key) \in fits
        BY <1>3, <3>1, <3>3
      <4>2. \A h \in fits : h = HostOf(key)
        BY <1>6, <4>1
      <4> HIDE DEF fits, key
      <4> QED
        BY <4>1, <4>2
    <3>4. HostFor(req) = IF fits # {} THEN CHOOSE h \in fits : TRUE ELSE DefaultHost
      BY DEF HostFor
    <3> HIDE DEF key, fits
    <3> QED
      BY <1>2, <3>2, <3>3, <3>4
  <2> QED
    BY <2>1, <2>2
<1> HIDE DEF key
<1> QED
  BY <1>2, <1>3, <1>4, <1>5, <1>7
----------------------------------------------------------------------------
(* The reply of a status: its text, and what the missing argument gave.    *)
ErrorRest(status) == <<Headers("plain", 1, FALSE), StatusText(status), Stray>>
ErrorReply(status) == One(StartLine(status)) \o ErrorRest(status)

LEMMA ErrorIs ==
  ASSUME Harmless, NEW b, Filling(b), NEW status
  PROVE  /\ Filling(FormatErrorReply(b, status))
         /\ FormatErrorReply(b, status).data = ErrorReply(status)
<1> DEFINE start == One(StartLine(status))
           d == FormatStartLine(b, status)
           rest == ErrorRest(status)
<1>1. GrowthLimit \in Nat /\ GrowthLimit >= 6 /\ ContentsFit
  BY BufferAssumption, ResponseAssumption DEF Harmless, ContentsFit
<1>2. IsSeq(start) /\ Len(start) = 1
  BY OneIs
<1>3. d = StrcpyHttpBuffer(b, start)
  BY DEF FormatStartLine, One
<1>4. IsSeq(rest) /\ Len(rest) = 3
  BY ThreeIsSeq DEF ErrorRest
<1>5. FormatErrorReply(b, status) = StrcatfHttpBuffer(d, rest)
  BY DEF FormatErrorReply, ErrorRest
<1> HIDE DEF start, d, rest
<1>6. Filling(d) /\ d.data = start
  <2>1. Len(start) < GrowthLimit
    BY <1>1, <1>2
  <2> QED
    BY <1>1, <1>2, <1>3, <2>1, StrcpyIs
<1>7. d.size \in Nat /\ d.size >= 6 /\ Len(d.data) = 1
  BY <1>2, <1>6 DEF Filling, IsBuffer
<1>8. Len(rest) <= Room(d)
  BY <1>4, <1>7 DEF Room
<1>9. Len(d.data) + Len(rest) < GrowthLimit
  BY <1>1, <1>4, <1>7
<1> QED
  BY <1>4, <1>5, <1>6, <1>8, <1>9, StrcatfIs DEF ErrorReply, start, rest

(* What is sent fits, an error as well.                                    *)
LEMMA RepliedIs ==
  ASSUME Harmless, NEW done, Settled(done)
  PROVE  /\ Filling(Replied(done))
         /\ done.status = 200 => Replied(done).data = done.buf.data
         /\ done.status # 200 => Replied(done).data = ErrorReply(done.status)
<1> DEFINE b == done.buf
           status == done.status
<1>1. Filling(b)
  BY DEF Settled
<1>2. Replied(done) = IF status = 200 THEN b ELSE FormatErrorReply(b, status)
  BY DEF Replied
<1> HIDE DEF b, status
<1>3. /\ Filling(FormatErrorReply(b, status))
      /\ FormatErrorReply(b, status).data = ErrorReply(status)
  BY <1>1, ErrorIs
<1> QED
  BY <1>1, <1>2, <1>3 DEF b, status

(* Cleaned, a buffer may be given back.                                    *)
LEMMA ResetIs ==
  ASSUME NEW b, IsBuffer(b)
  PROVE  Filling(ResetResponseBuffer(b))
<1> DEFINE c == BufferOf(b.size, 0, <<>>)
<1>1. b.size \in Nat /\ b.size >= 6 /\ DefaultSize \in Nat /\ DefaultSize >= 6
  BY ResponseAssumption DEF IsBuffer
<1>2. IsSeq(<<>>) /\ Len(<<>>) = 0
  BY DEF IsSeq
<1>3. Filling(c) /\ c.data = <<>>
  BY <1>1, <1>2, FillingIs
<1>4. CleanHttpBuffer(b) = c
  <2> DEFINE size == b.size
             process == b.process
             data == b.data
  <2>1. b = BufferOf(size, process, data)
    BY DEF IsBuffer
  <2> HIDE DEF size, process, data
  <2>2. [b EXCEPT !.data = <<>>] = BufferOf(size, process, <<>>)
    BY <2>1 DEF BufferOf
  <2>3. [BufferOf(size, process, <<>>) EXCEPT !.process = 0] = BufferOf(size, 0, <<>>)
    BY DEF BufferOf
  <2>4. CleanHttpBuffer(b) = [[b EXCEPT !.data = <<>>] EXCEPT !.process = 0]
    BY DEF CleanHttpBuffer
  <2> QED
    BY <2>2, <2>3, <2>4 DEF size
<1> HIDE DEF c
<1>5. ReallocHttpBuffer(c, DefaultSize) = BufferOf(DefaultSize, c.process, <<>>)
  <2>1. ~(DefaultSize < Len(c.data))
    BY <1>1, <1>2, <1>3
  <2>2. [c EXCEPT !.size = DefaultSize] = BufferOf(DefaultSize, c.process, c.data)
    BY <1>3, BufferUpdates DEF Filling
  <2> QED
    BY <1>3, <2>1, <2>2 DEF ReallocHttpBuffer
<1>6. Filling(ReallocHttpBuffer(c, DefaultSize))
  BY <1>1, <1>2, <1>3, <1>5, FillingIs DEF Filling
<1> QED
  BY <1>3, <1>4, <1>6 DEF ResetResponseBuffer
----------------------------------------------------------------------------
(* A connection, whatever its fields, and what the actions make of it.     *)
ConnOf(phase, buf, asked, out, logged) ==
  [phase |-> phase, buf |-> buf, asked |-> asked, out |-> out, logged |-> logged]

IsConn(x) == x = ConnOf(x.phase, x.buf, x.asked, x.out, x.logged)
Conns(f) == f = [c \in Conn |-> f[c]] /\ \A c \in Conn : IsConn(f[c])

LEMMA ConnFields ==
  ASSUME NEW phase, NEW buf, NEW asked, NEW out, NEW logged
  PROVE  /\ IsConn(ConnOf(phase, buf, asked, out, logged))
         /\ ConnOf(phase, buf, asked, out, logged).phase = phase
         /\ ConnOf(phase, buf, asked, out, logged).buf = buf
         /\ ConnOf(phase, buf, asked, out, logged).asked = asked
         /\ ConnOf(phase, buf, asked, out, logged).out = out
         /\ ConnOf(phase, buf, asked, out, logged).logged = logged
BY DEF IsConn, ConnOf

(* One connection is changed, the others are not.                          *)
LEMMA ConnChanged ==
  ASSUME NEW f, Conns(f), NEW c \in Conn, NEW x, IsConn(x)
  PROVE  /\ Conns([f EXCEPT ![c] = x]) /\ [f EXCEPT ![c] = x][c] = x
         /\ \A d \in Conn : d # c => [f EXCEPT ![c] = x][d] = f[d]
BY DEF Conns

LEMMA ReceivedIs ==
  ASSUME Conns(conn), NEW c \in Conn, NEW req, NEW fault, OnReceivingSocket(c, req, fault)
  PROVE  \E done :
           /\ done = Served(conn[c].buf, req, fault, QueryVirtualHost(req))
           /\ conn' = [conn EXCEPT ![c] =
                ConnOf("writing", Replied(done),
                       Append(conn[c].asked, [req |-> req, fault |-> fault]),
                       conn[c].out, conn[c].logged)]
           /\ cached' = done.cached /\ zipped' = done.zip /\ worker' = done.worker
<1> DEFINE buf == conn[c].buf
           asked == conn[c].asked
           out == conn[c].out
           logged == conn[c].logged
           new == Append(asked, [req |-> req, fault |-> fault])
           done == Served(buf, req, fault, QueryVirtualHost(req))
           b == Replied(done)
<1>1. /\ cached' = done.cached /\ zipped' = done.zip /\ worker' = done.worker
      /\ conn' = [conn EXCEPT ![c].phase = "writing", ![c].asked = new, ![c].buf = b]
  BY DEF OnReceivingSocket
<1>2. conn[c] = ConnOf(conn[c].phase, buf, asked, out, logged)
      /\ conn = [d \in Conn |-> conn[d]]
  BY DEF Conns, IsConn
<1> HIDE DEF buf, asked, out, logged, new, done, b
<1>3. [conn EXCEPT ![c].phase = "writing", ![c].asked = new, ![c].buf = b]
        = [conn EXCEPT ![c] = [conn[c] EXCEPT !.phase = "writing", !.asked = new, !.buf = b]]
  BY <1>2
<1>4. [conn[c] EXCEPT !.phase = "writing", !.asked = new, !.buf = b]
        = ConnOf("writing", b, new, out, logged)
  <2>1. [conn[c] EXCEPT !.phase = "writing", !.asked = new, !.buf = b]
          = [[[conn[c] EXCEPT !.phase = "writing"] EXCEPT !.asked = new] EXCEPT !.buf = b]
    OBVIOUS
  <2>2. [conn[c] EXCEPT !.phase = "writing"] = ConnOf("writing", buf, asked, out, logged)
    BY <1>2 DEF ConnOf
  <2>3. [ConnOf("writing", buf, asked, out, logged) EXCEPT !.asked = new]
          = ConnOf("writing", buf, new, out, logged)
    BY DEF ConnOf
  <2>4. [ConnOf("writing", buf, new, out, logged) EXCEPT !.buf = b]
          = ConnOf("writing", b, new, out, logged)
    BY DEF ConnOf
  <2> QED
    BY <2>1, <2>2, <2>3, <2>4
<1>5. conn' = [conn EXCEPT ![c] = ConnOf("writing", b, new, out, logged)]
  BY <1>1, <1>3, <1>4
<1> QED
  BY <1>1, <1>5 DEF buf, asked, out, logged, new, done, b

LEMMA PartSentIs ==
  ASSUME Conns(conn), NEW c \in Conn, IsBuffer(conn[c].buf), NEW n, SendsPart(c, n)
  PROVE  conn' = [conn EXCEPT ![c] =
           ConnOf(conn[c].phase,
                  BufferOf(conn[c].buf.size, conn[c].buf.process + n, conn[c].buf.data),
                  conn[c].asked, conn[c].out \o Sent(c, n), conn[c].logged)]
<1> DEFINE phase == conn[c].phase
           buf == conn[c].buf
           asked == conn[c].asked
           out == conn[c].out
           logged == conn[c].logged
           more == out \o Sent(c, n)
           new == buf.process + n
           b == BufferOf(buf.size, new, buf.data)
<1>1. conn' = [conn EXCEPT ![c].buf.process = new, ![c].out = more]
  BY DEF SendsPart
<1>2. conn[c] = ConnOf(phase, buf, asked, out, logged) /\ conn = [d \in Conn |-> conn[d]]
  BY DEF Conns, IsConn
<1>3. [buf EXCEPT !.process = new] = b
  <2> HIDE DEF new
  <2> QED
    BY BufferUpdates
<1> HIDE DEF phase, buf, asked, out, logged, more, new, b
<1>4. [conn EXCEPT ![c].buf.process = new, ![c].out = more]
        = [conn EXCEPT ![c] = [conn[c] EXCEPT !.buf = [buf EXCEPT !.process = new],
                                              !.out = more]]
  BY <1>2 DEF buf
<1>5. [conn[c] EXCEPT !.buf = b, !.out = more] = ConnOf(phase, b, asked, more, logged)
  <2>1. [conn[c] EXCEPT !.buf = b, !.out = more]
          = [[conn[c] EXCEPT !.buf = b] EXCEPT !.out = more]
    OBVIOUS
  <2>2. [conn[c] EXCEPT !.buf = b] = ConnOf(phase, b, asked, out, logged)
    BY <1>2 DEF ConnOf
  <2>3. [ConnOf(phase, b, asked, out, logged) EXCEPT !.out = more]
          = ConnOf(phase, b, asked, more, logged)
    BY DEF ConnOf
  <2> QED
    BY <2>1, <2>2, <2>3
<1>6. conn' = [conn EXCEPT ![c] = ConnOf(phase, b, asked, more, logged)]
  BY <1>1, <1>3, <1>4, <1>5
<1> QED
  BY <1>6 DEF phase, buf, asked, out, logged, more, new, b

LEMMA RestSentIs ==
  ASSUME Conns(conn), NEW c \in Conn, SendsRest(c)
  PROVE  conn' = [conn EXCEPT ![c] =
           ConnOf(IF LastAsked(c).keepalive THEN "reading" ELSE "closed",
                  ResetResponseBuffer(AllSent(conn[c].buf)),
                  conn[c].asked, conn[c].out \o Sent(c, Unsent(c)), AccessLog(c))]
<1> DEFINE asked == conn[c].asked
           more == conn[c].out \o Sent(c, Unsent(c))
           lines == AccessLog(c)
           b == ResetResponseBuffer(AllSent(conn[c].buf))
           phase == IF LastAsked(c).keepalive THEN "reading" ELSE "closed"
<1>1. conn' = [conn EXCEPT ![c].out = more, ![c].logged = lines, ![c].phase = phase,
                           ![c].buf = b]
  BY DEF SendsRest
<1>2. conn[c] = ConnOf(conn[c].phase, conn[c].buf, asked, conn[c].out, conn[c].logged)
      /\ conn = [d \in Conn |-> conn[d]]
  BY DEF Conns, IsConn
<1> HIDE DEF asked, more, lines, b, phase
<1>3. [conn EXCEPT ![c].out = more, ![c].logged = lines, ![c].phase = phase, ![c].buf = b]
        = [conn EXCEPT ![c] = [conn[c] EXCEPT !.out = more, !.logged = lines,
                                              !.phase = phase, !.buf = b]]
  BY <1>2
<1>4. [conn[c] EXCEPT !.out = more, !.logged = lines, !.phase = phase, !.buf = b]
        = ConnOf(phase, b, asked, more, lines)
  <2>1. [conn[c] EXCEPT !.out = more, !.logged = lines, !.phase = phase, !.buf = b]
          = [[[[conn[c] EXCEPT !.out = more] EXCEPT !.logged = lines]
               EXCEPT !.phase = phase] EXCEPT !.buf = b]
    OBVIOUS
  <2>2. [conn[c] EXCEPT !.out = more]
          = ConnOf(conn[c].phase, conn[c].buf, asked, more, conn[c].logged)
    BY <1>2 DEF ConnOf
  <2>3. [ConnOf(conn[c].phase, conn[c].buf, asked, more, conn[c].logged)
          EXCEPT !.logged = lines]
          = ConnOf(conn[c].phase, conn[c].buf, asked, more, lines)
    BY DEF ConnOf
  <2>4. [ConnOf(conn[c].phase, conn[c].buf, asked, more, lines) EXCEPT !.phase = phase]
          = ConnOf(phase, conn[c].buf, asked, more, lines)
    BY DEF ConnOf
  <2>5. [ConnOf(phase, conn[c].buf, asked, more, lines) EXCEPT !.buf = b]
          = ConnOf(phase, b, asked, more, lines)
    BY DEF ConnOf
  <2> QED
    BY <2>1, <2>2, <2>3, <2>4, <2>5
<1>5. conn' = [conn EXCEPT ![c] = ConnOf(phase, b, asked, more, lines)]
  BY <1>1, <1>3, <1>4
<1> QED
  BY <1>5 DEF asked, more, lines, b, phase

LEMMA FailedConnIs ==
  ASSUME Conns(conn), NEW c \in Conn, ConnectionFails(c)
  PROVE  conn' = [conn EXCEPT ![c] =
           ConnOf("failed", ResetResponseBuffer(conn[c].buf), <<>>, <<>>, <<>>)]
BY DEF ConnectionFails, ConnOf
----------------------------------------------------------------------------
(* The logs: with a default host there is a host whenever a reply is going *)
(* out, of the request received last, whose connection that may not be.    *)
Counted(x) ==
  /\ IsSeq(x.asked) /\ IsSeq(x.logged)
  /\ Len(x.logged) = Len(x.asked) - (IF x.phase = "writing" THEN 1 ELSE 0)

LoggedInv ==
  /\ Conns(conn) /\ \A c \in Conn : Counted(conn[c])
  /\ p_virtualhost # None \/ \A c \in Conn : conn[c].phase # "writing"

LEMMA AppendIs ==
  ASSUME NEW s, IsSeq(s), NEW x
  PROVE  IsSeq(Append(s, x)) /\ Len(Append(s, x)) = Len(s) + 1
<1>1. IsSeq(<<x>>) /\ Len(<<x>>) = 1
  BY OneIsSeq
<1>2. s \in Seq(Range(s) \cup {x})
  BY DEF IsSeq
<1>3. Append(s, x) = s \o <<x>>
  BY <1>2
<1> QED
  BY <1>1, <1>3, JoinIs

LEMMA CountedIs ==
  ASSUME NEW phase, NEW buf, NEW asked, NEW out, NEW logged,
         IsSeq(asked), IsSeq(logged),
         Len(logged) = Len(asked) - (IF phase = "writing" THEN 1 ELSE 0)
  PROVE  Counted(ConnOf(phase, buf, asked, out, logged))
BY DEF Counted, ConnOf

LEMMA InitLogged == Init => LoggedInv
<1> SUFFICES ASSUME Init PROVE LoggedInv
  OBVIOUS
<1> DEFINE x == ConnOf("reading", NewBuffer(DefaultSize), <<>>, <<>>, <<>>)
<1>1. conn = [c \in Conn |-> x]
  BY DEF Init, ConnOf
<1>2. IsConn(x) /\ x.phase = "reading" /\ x.asked = <<>> /\ x.logged = <<>>
  BY ConnFields
<1>3. Counted(x)
  <2>1. IsSeq(<<>>) /\ Len(<<>>) = 0
    BY DEF IsSeq
  <2> HIDE DEF x
  <2> QED
    BY <1>2, <2>1 DEF Counted
<1> HIDE DEF x
<1> QED
  BY <1>1, <1>2, <1>3 DEF LoggedInv, Conns

LEMMA NextLogged ==
  ASSUME DefaultHost # None, LoggedInv, [Next]_vars
  PROVE  LoggedInv'
<1>1. Conns(conn) /\ \A c \in Conn : Counted(conn[c])
  BY DEF LoggedInv
<1>2. ASSUME NEW c \in Conn, NEW x, IsConn(x), conn' = [conn EXCEPT ![c] = x], Counted(x),
             p_virtualhost' # None
               \/ (p_virtualhost' = p_virtualhost
                   /\ (x.phase = "writing" => conn[c].phase = "writing"))
      PROVE  LoggedInv'
  <2> DEFINE g == [conn EXCEPT ![c] = x]
  <2>0. Conns(g) /\ g[c] = x /\ \A d \in Conn : d # c => g[d] = conn[d]
    <3>1. Conns(conn) /\ IsConn(x)
      BY <1>1, <1>2
    <3> QED
      BY <3>1, ConnChanged
  <2>1. Conns(conn') /\ conn'[c] = x /\ \A d \in Conn : d # c => conn'[d] = conn[d]
    BY <1>2, <2>0
  <2>2. Conns(conn)' /\ (\A d \in Conn : Counted(conn[d]))'
    BY <1>1, <1>2, <2>1 DEF Counted, Conns, IsConn
  <2>3. (p_virtualhost # None \/ \A d \in Conn : conn[d].phase # "writing")'
    BY <1>2, <2>1 DEF LoggedInv
  <2> QED
    BY <2>2, <2>3 DEF LoggedInv
<1>3. ASSUME NEW c \in Conn, NEW req \in Asks[c], NEW fault \in Faults,
             OnReceivingSocket(c, req, fault)
      PROVE  LoggedInv'
  <2>1. req \in AllAsks
    BY DEF AllAsks
  <2>2. p_virtualhost' # None
    BY <1>3, <2>1, QueryVirtualHostIs DEF OnReceivingSocket
  <2>3. conn[c].phase = "reading" /\ Counted(conn[c])
    BY <1>1, <1>3 DEF OnReceivingSocket
  <2> DEFINE asked == Append(conn[c].asked, [req |-> req, fault |-> fault])
  <2>4. PICK b : conn' = [conn EXCEPT ![c] =
                   ConnOf("writing", b, asked, conn[c].out, conn[c].logged)]
    BY <1>1, <1>3, ReceivedIs
  <2>5. IsSeq(asked) /\ Len(asked) = Len(conn[c].asked) + 1
    BY <2>3, AppendIs DEF Counted
  <2> HIDE DEF asked
  <2>6. /\ IsSeq(conn[c].logged) /\ Len(conn[c].logged) = Len(conn[c].asked) - 0
        /\ Len(conn[c].asked) \in Nat
    BY <2>3 DEF Counted, IsSeq
  <2> DEFINE x == ConnOf("writing", b, asked, conn[c].out, conn[c].logged)
  <2>7. Len(conn[c].logged) = Len(asked) - 1
    BY <2>5, <2>6
  <2>8. Counted(x)
    BY <2>5, <2>6, <2>7, CountedIs
  <2>9. IsConn(x)
    BY ConnFields
  <2> HIDE DEF x
  <2> QED
    BY <1>2, <2>2, <2>4, <2>8, <2>9 DEF x
<1>4. ASSUME NEW c \in Conn, NEW n \in 1..(Unsent(c) - 1), SendsPart(c, n)
      PROVE  LoggedInv'
  <2>1. conn[c].phase = "writing" /\ Counted(conn[c]) /\ p_virtualhost' = p_virtualhost
    BY <1>1, <1>4 DEF SendsPart
  <2>2. PICK b, out : conn' = [conn EXCEPT ![c] =
                   ConnOf("writing", b, conn[c].asked, out, conn[c].logged)]
    <3> DEFINE more == conn[c].out \o Sent(c, n)
               new == conn[c].buf.process + n
    <3>1. conn' = [conn EXCEPT ![c].buf.process = new, ![c].out = more]
      BY <1>4 DEF SendsPart
    <3>2. conn[c] = ConnOf("writing", conn[c].buf, conn[c].asked, conn[c].out, conn[c].logged)
          /\ conn = [d \in Conn |-> conn[d]]
      BY <1>1, <2>1 DEF Conns, IsConn
    <3> DEFINE buf == conn[c].buf
               b == [buf EXCEPT !.process = new]
               asked == conn[c].asked
               out == conn[c].out
               logged == conn[c].logged
    <3> HIDE DEF more, new, asked, out, logged, buf, b
    <3>3. [conn EXCEPT ![c].buf.process = new, ![c].out = more]
            = [conn EXCEPT ![c] = [conn[c] EXCEPT !.buf = b, !.out = more]]
      BY <3>2 DEF b, buf
    <3>4. [conn[c] EXCEPT !.buf = b, !.out = more]
            = [[conn[c] EXCEPT !.buf = b] EXCEPT !.out = more]
      OBVIOUS
    <3>5. [conn[c] EXCEPT !.buf = b] = ConnOf("writing", b, asked, out, logged)
      BY <3>2 DEF ConnOf, buf, asked, out, logged
    <3>6. [ConnOf("writing", b, asked, out, logged) EXCEPT !.out = more]
            = ConnOf("writing", b, asked, more, logged)
      BY DEF ConnOf
    <3>7. conn' = [conn EXCEPT ![c] = ConnOf("writing", b, asked, more, logged)]
      BY <3>1, <3>3, <3>4, <3>5, <3>6
    <3> QED
      BY <3>7 DEF asked, logged
  <2> DEFINE x == ConnOf("writing", b, conn[c].asked, out, conn[c].logged)
  <2>3. Counted(x)
    <3>1. /\ IsSeq(conn[c].asked) /\ IsSeq(conn[c].logged)
          /\ Len(conn[c].logged) = Len(conn[c].asked) - 1
      BY <2>1 DEF Counted
    <3> QED
      BY <3>1, CountedIs
  <2>4. IsConn(x)
    BY ConnFields
  <2>5. p_virtualhost' # None \/ (p_virtualhost' = p_virtualhost
                                 /\ (x.phase = "writing" => conn[c].phase = "writing"))
    BY <2>1
  <2> HIDE DEF x
  <2> QED
    BY <1>2, <2>2, <2>3, <2>4, <2>5 DEF x
<1>5. ASSUME NEW c \in Conn, SendsRest(c) PROVE LoggedInv'
  <2>1. /\ conn[c].phase = "writing" /\ Counted(conn[c]) /\ p_virtualhost' = p_virtualhost
        /\ p_virtualhost # None
    BY <1>1, <1>5 DEF SendsRest, LoggedInv
  <2> DEFINE lines == AccessLog(c)
             phase == IF LastAsked(c).keepalive THEN "reading" ELSE "closed"
             out == conn[c].out \o Sent(c, Unsent(c))
             b == ResetResponseBuffer(AllSent(conn[c].buf))
             x == ConnOf(phase, b, conn[c].asked, out, lines)
  <2>2. conn' = [conn EXCEPT ![c] = x]
    BY <1>1, <1>5, RestSentIs
  <2>3. IsSeq(lines) /\ Len(lines) = Len(conn[c].logged) + 1
    <3>1. lines = Append(conn[c].logged, p_virtualhost.wwwroot)
      BY <2>1 DEF AccessLog
    <3> HIDE DEF lines
    <3> QED
      BY <2>1, <3>1, AppendIs DEF Counted
  <2>4. phase # "writing"
    OBVIOUS
  <2> HIDE DEF lines, phase, out, b
  <2>5. /\ IsSeq(conn[c].asked) /\ Len(conn[c].logged) = Len(conn[c].asked) - 1
        /\ Len(conn[c].asked) \in Nat
    BY <2>1 DEF Counted, IsSeq
  <2>6. Len(lines) = Len(conn[c].asked) - 0
    BY <2>3, <2>5
  <2>7. Counted(x)
    BY <2>3, <2>4, <2>5, <2>6, CountedIs
  <2>8. IsConn(x)
    BY ConnFields
  <2> HIDE DEF x
  <2> QED
    BY <1>2, <2>1, <2>2, <2>7, <2>8
<1>6. ASSUME NEW c \in Conn, ConnectionFails(c)
      PROVE  LoggedInv'
  <2> DEFINE b == ResetResponseBuffer(conn[c].buf)
             x == ConnOf("failed", b, <<>>, <<>>, <<>>)
  <2>1. conn' = [conn EXCEPT ![c] = x] /\ p_virtualhost' = p_virtualhost
    BY <1>1, <1>6, FailedConnIs DEF ConnectionFails
  <2> HIDE DEF b
  <2>2. IsSeq(<<>>) /\ Len(<<>>) = 0
    BY DEF IsSeq
  <2>3. Counted(x)
    BY <2>2, CountedIs
  <2>4. IsConn(x) /\ x.phase = "failed"
    BY ConnFields
  <2> HIDE DEF x
  <2> QED
    BY <1>2, <2>1, <2>3, <2>4
<1>7. ASSUME UNCHANGED <<conn, p_virtualhost>> PROVE LoggedInv'
  BY <1>7 DEF LoggedInv, Conns, IsConn, Counted
<1>8. CASE \E path \in cached : CacheEvicts(path)
  BY <1>7, <1>8 DEF CacheEvicts
<1>9. CASE UNCHANGED vars
  BY <1>7, <1>9 DEF vars
<1> QED
  BY <1>3, <1>4, <1>5, <1>6, <1>8, <1>9 DEF Next

(* With a default host every reply that went out whole has left exactly    *)
(* one line in an access log, however the connections of the worker        *)
(* interleave and whatever fails (RepliesLogged; OnSendingSocket 46-72).   *)
THEOREM ResponseLogged ==
  ASSUME DefaultHost # None
  PROVE  Spec => []RepliesLogged
<1>1. LoggedInv => RepliesLogged
  BY DEF LoggedInv, Counted, RepliesLogged
<1>2. Init => LoggedInv
  BY InitLogged
<1>3. LoggedInv /\ [Next]_vars => LoggedInv'
  BY NextLogged
<1> QED
  BY <1>1, <1>2, <1>3, PTL DEF Spec
----------------------------------------------------------------------------
(* The buffers and the cache: what every action relies on and leaves.  A   *)
(* request is read only behind a reply that is gone, so a reply is always  *)
(* composed from the base of its buffer.                                   *)
Serving(c, x) ==
  /\ x.phase \in {"reading", "writing", "closed", "failed"}
  /\ IsBuffer(x.buf) /\ (x.phase = "reading" => x.buf.process = 0)
  /\ x.asked \in Seq([req : Asks[c], fault : Faults]) /\ Len(x.asked) <= MaxRequests

ResponseInv ==
  /\ Conns(conn) /\ \A c \in Conn : Serving(c, conn[c])
  /\ p_virtualhost \in Range(Servers) \cup {None}
  /\ Kept(cached, zipped)
  /\ worker = "up"

LEMMA ServingIs ==
  ASSUME NEW c, NEW phase \in {"reading", "writing", "closed", "failed"},
         NEW buf, IsBuffer(buf), phase = "reading" => buf.process = 0,
         NEW asked \in Seq([req : Asks[c], fault : Faults]), Len(asked) <= MaxRequests,
         NEW out, NEW logged
  PROVE  Serving(c, ConnOf(phase, buf, asked, out, logged))
<1> DEFINE x == ConnOf(phase, buf, asked, out, logged)
<1>1. x.phase = phase /\ x.buf = buf /\ x.asked = asked
  BY ConnFields
<1> HIDE DEF x
<1> QED
  BY <1>1 DEF Serving, x

LEMMA InitServing == Init => ResponseInv
<1> SUFFICES ASSUME Init PROVE ResponseInv
  OBVIOUS
<1> DEFINE b == BufferOf(DefaultSize, 0, <<>>)
           x == ConnOf("reading", b, <<>>, <<>>, <<>>)
<1>1. conn = [c \in Conn |-> x]
  BY DEF Init, ConnOf, NewBuffer, BufferOf
<1>2. IsSeq(<<>>) /\ Len(<<>>) = 0
  BY DEF IsSeq
<1>3. Filling(b)
  BY <1>2, FillingIs, ResponseAssumption
<1> HIDE DEF b
<1>4. IsConn(x)
  BY ConnFields
<1>5. ASSUME NEW c PROVE Serving(c, x)
  <2>1. /\ <<>> \in Seq([req : Asks[c], fault : Faults]) /\ Len(<<>>) <= MaxRequests
        /\ IsBuffer(b) /\ b.process = 0
    BY <1>2, <1>3, ResponseAssumption DEF Filling
  <2> QED
    BY <2>1, ServingIs
<1> HIDE DEF x
<1>6. Kept({}, {})
  BY DEF Kept
<1>7. p_virtualhost = None /\ cached = {} /\ zipped = {} /\ worker = "up"
  BY DEF Init
<1> QED
  BY <1>1, <1>4, <1>5, <1>6, <1>7 DEF ResponseInv, Conns

LEMMA NextServing ==
  ASSUME Harmless, ResponseInv, [Next]_vars
  PROVE  ResponseInv'
<1>1. /\ Conns(conn) /\ \A c \in Conn : Serving(c, conn[c])
      /\ p_virtualhost \in Range(Servers) \cup {None}
      /\ Kept(cached, zipped) /\ worker = "up"
  BY DEF ResponseInv
<1>2. ASSUME NEW c \in Conn, NEW x, IsConn(x), conn' = [conn EXCEPT ![c] = x], Serving(c, x),
             p_virtualhost' \in Range(Servers) \cup {None},
             Kept(cached', zipped'), worker' = "up"
      PROVE  ResponseInv'
  <2> DEFINE g == [conn EXCEPT ![c] = x]
  <2>1. Conns(g) /\ g[c] = x /\ \A d \in Conn : d # c => g[d] = conn[d]
    <3>1. Conns(conn) /\ IsConn(x)
      BY <1>1, <1>2
    <3> QED
      BY <3>1, ConnChanged
  <2>2. Conns(conn') /\ conn'[c] = x /\ \A d \in Conn : d # c => conn'[d] = conn[d]
    BY <1>2, <2>1
  <2>3. \A d \in Conn : Serving(d, conn'[d])
    BY <1>1, <1>2, <2>2
  <2> QED
    BY <1>2, <2>2, <2>3 DEF ResponseInv, Serving, Conns, IsConn, Kept
<1>3. ASSUME NEW c \in Conn, NEW req \in Asks[c], NEW fault \in Faults,
             OnReceivingSocket(c, req, fault)
      PROVE  ResponseInv'
  <2> DEFINE host == QueryVirtualHost(req)
  <2>1. req \in AllAsks
    BY DEF AllAsks
  <2>2. host \in Range(Servers) \cup {None}
    BY <2>1, QueryVirtualHostIs
  <2>3. p_virtualhost' = host /\ Len(conn[c].asked) < MaxRequests /\ conn[c].phase = "reading"
    BY <1>3 DEF OnReceivingSocket, AsksOn
  <2> HIDE DEF host
  <2>4. Filling(conn[c].buf)
    BY <1>1, <2>3 DEF Serving, Filling
  <2> DEFINE asked == Append(conn[c].asked, [req |-> req, fault |-> fault])
  <2>5. PICK done :
          /\ done = Served(conn[c].buf, req, fault, host)
          /\ conn' = [conn EXCEPT ![c] =
               ConnOf("writing", Replied(done), asked, conn[c].out, conn[c].logged)]
          /\ cached' = done.cached /\ zipped' = done.zip /\ worker' = done.worker
    BY <1>1, <1>3, ReceivedIs DEF host
  <2>6. Settled(done)
    BY <1>1, <2>1, <2>2, <2>4, <2>5, ServedIs DEF ServedFit
  <2>7. Kept(cached', zipped') /\ worker' = "up"
    BY <2>5, <2>6 DEF Settled
  <2>8. asked \in Seq([req : Asks[c], fault : Faults]) /\ Len(asked) <= MaxRequests
    <3>1. conn[c].asked \in Seq([req : Asks[c], fault : Faults])
      BY <1>1 DEF Serving
    <3> DEFINE s == conn[c].asked
               a == [req |-> req, fault |-> fault]
               A == [req : Asks[c], fault : Faults]
    <3>2. a \in A
      OBVIOUS
    <3> HIDE DEF s, a, A
    <3>3. Append(s, a) \in Seq(A) /\ Len(Append(s, a)) = Len(s) + 1 /\ Len(s) \in Nat
      BY <3>1, <3>2 DEF s, A
    <3>4. MaxRequests \in Nat
      BY ResponseAssumption
    <3> QED
      BY <2>3, <3>3, <3>4 DEF s, a, A
  <2> DEFINE b == Replied(done)
             x == ConnOf("writing", b, asked, conn[c].out, conn[c].logged)
  <2>9. IsBuffer(b)
    BY <2>6, RepliedIs DEF Filling
  <2> HIDE DEF asked, b
  <2>10. Serving(c, x)
    BY <2>8, <2>9, ServingIs
  <2>11. IsConn(x)
    BY ConnFields
  <2>12. conn' = [conn EXCEPT ![c] = x]
    BY <2>5 DEF b
  <2> HIDE DEF x
  <2> QED
    BY <1>2, <2>2, <2>3, <2>7, <2>10, <2>11, <2>12
<1>4. ASSUME NEW c \in Conn, NEW n \in 1..(Unsent(c) - 1), SendsPart(c, n)
      PROVE  ResponseInv'
  <2> DEFINE size == conn[c].buf.size
             process == conn[c].buf.process
             data == conn[c].buf.data
             asked == conn[c].asked
             out == conn[c].out \o Sent(c, n)
             b == BufferOf(size, process + n, data)
             x == ConnOf(conn[c].phase, b, asked, out, conn[c].logged)
  <2>1. /\ conn[c].phase = "writing" /\ p_virtualhost' = p_virtualhost
        /\ cached' = cached /\ zipped' = zipped /\ worker' = worker
    BY <1>4 DEF SendsPart
  <2>2. IsBuffer(conn[c].buf) /\ asked \in Seq([req : Asks[c], fault : Faults])
        /\ Len(asked) <= MaxRequests
    BY <1>1 DEF Serving
  <2>3. conn' = [conn EXCEPT ![c] = x]
    BY <1>1, <1>4, <2>2, PartSentIs
  <2>4. IsBuffer(b)
    <3>1. /\ size \in Nat /\ size >= 6 /\ process \in 0..Len(data) /\ IsSeq(data)
          /\ Len(data) <= size - 1
      BY <2>2 DEF IsBuffer
    <3>2. n \in 1..(Len(data) - process - 1)
      BY DEF Unsent
    <3> HIDE DEF size, process, data
    <3>3. Len(data) \in Nat
      BY <3>1 DEF IsSeq
    <3>4. process + n \in 0..Len(data)
      BY <3>1, <3>2, <3>3
    <3> DEFINE p == process + n
    <3> HIDE DEF p
    <3>5. IsBuffer(BufferOf(size, p, data))
      BY <3>1, <3>4, BufferFields DEF p
    <3> QED
      BY <3>5 DEF p
  <2> HIDE DEF size, process, data, asked, out, b
  <2>5. Serving(c, x)
    BY <2>1, <2>2, <2>4, ServingIs
  <2>6. IsConn(x)
    BY ConnFields
  <2> HIDE DEF x
  <2> QED
    BY <1>1, <1>2, <2>1, <2>3, <2>5, <2>6
<1>5. ASSUME NEW c \in Conn, SendsRest(c) PROVE ResponseInv'
  <2> DEFINE lines == AccessLog(c)
             phase == IF LastAsked(c).keepalive THEN "reading" ELSE "closed"
             asked == conn[c].asked
             out == conn[c].out \o Sent(c, Unsent(c))
             all == AllSent(conn[c].buf)
             b == ResetResponseBuffer(all)
             x == ConnOf(phase, b, asked, out, lines)
  <2>1. /\ p_virtualhost' = p_virtualhost
        /\ cached' = cached /\ zipped' = zipped /\ worker' = worker
    BY <1>5 DEF SendsRest
  <2>2. conn' = [conn EXCEPT ![c] = x]
    BY <1>1, <1>5, RestSentIs
  <2>3. IsBuffer(conn[c].buf) /\ asked \in Seq([req : Asks[c], fault : Faults])
        /\ Len(asked) <= MaxRequests
    BY <1>1 DEF Serving
  <2>4. IsBuffer(all)
    <3> DEFINE buf == conn[c].buf
               l == Len(buf.data)
    <3>1. /\ buf.size \in Nat /\ buf.size >= 6 /\ IsSeq(buf.data) /\ l <= buf.size - 1
          /\ l \in Nat
      BY <2>3 DEF IsBuffer, IsSeq
    <3>2. all = BufferOf(buf.size, l, buf.data)
      <4>1. all = [buf EXCEPT !.process = l]
        BY DEF AllSent
      <4> HIDE DEF l, buf, all
      <4> QED
        BY <2>3, <4>1, BufferUpdates DEF buf
    <3>3. l \in 0..Len(buf.data)
      BY <3>1
    <3>4. IsBuffer(BufferOf(buf.size, l, buf.data))
      <4> HIDE DEF buf
      <4> QED
        BY <3>1, <3>3, BufferFields
    <3> QED
      BY <3>2, <3>4
  <2> HIDE DEF lines, asked, out, all
  <2>5. IsBuffer(b) /\ b.process = 0
    BY <2>4, ResetIs DEF Filling
  <2>6. phase \in {"reading", "writing", "closed", "failed"}
    OBVIOUS
  <2> HIDE DEF phase, b
  <2>7. Serving(c, x)
    BY <2>3, <2>5, <2>6, ServingIs
  <2>8. IsConn(x)
    BY ConnFields
  <2> HIDE DEF x
  <2> QED
    BY <1>1, <1>2, <2>1, <2>2, <2>7, <2>8
<1>6. ASSUME NEW c \in Conn, ConnectionFails(c)
      PROVE  ResponseInv'
  <2> DEFINE b == ResetResponseBuffer(conn[c].buf)
             x == ConnOf("failed", b, <<>>, <<>>, <<>>)
  <2>2. /\ p_virtualhost' = p_virtualhost
        /\ cached' = cached /\ zipped' = zipped /\ worker' = worker
    BY <1>6 DEF ConnectionFails
  <2>3. conn' = [conn EXCEPT ![c] = x]
    BY <1>1, <1>6, FailedConnIs
  <2>4. IsBuffer(b) /\ b.process = 0
    BY <1>1, ResetIs DEF Serving, Filling
  <2> HIDE DEF b
  <2>5. Serving(c, x)
    <3>1. <<>> \in Seq([req : Asks[c], fault : Faults]) /\ Len(<<>>) <= MaxRequests
      BY ResponseAssumption
    <3> QED
      BY <2>4, <3>1, ServingIs
  <2>6. IsConn(x)
    BY ConnFields
  <2> HIDE DEF x
  <2> QED
    BY <1>1, <1>2, <2>2, <2>3, <2>5, <2>6
<1>7. CASE \E path \in cached : CacheEvicts(path)
  <2>1. PICK path \in cached : CacheEvicts(path)
    BY <1>7
  <2>2. Kept(cached', zipped')
    BY <1>1, <2>1 DEF CacheEvicts, Kept
  <2>3. conn' = conn /\ p_virtualhost' = p_virtualhost /\ worker' = worker
    BY <2>1 DEF CacheEvicts
  <2> QED
    BY <1>1, <2>2, <2>3 DEF ResponseInv, Serving, Conns, IsConn, Kept
<1>8. CASE UNCHANGED vars
  BY <1>1, <1>8 DEF vars, ResponseInv, Serving, Conns, IsConn, Kept
<1> QED
  BY <1>3, <1>4, <1>5, <1>6, <1>7, <1>8 DEF Next

(* No write leaves a response buffer and the worker goes on serving, over  *)
(* any number of replies, growths, resets and failures on any number of    *)
(* connections, unless one of the three things Harmless names happens      *)
(* (StrcpyHttpBuffer, StrcatfHttpBuffer, MemcatHttpBuffer and              *)
(* ReallocHttpBuffer; ProcessHttpRequest 332).                             *)
THEOREM ResponseBuffers ==
  ASSUME Harmless
  PROVE  Spec => []BuffersSound
<1>1. ResponseInv => BuffersSound
  BY BufferSound DEF ResponseInv, Serving, BuffersSound
<1>2. Init => ResponseInv
  BY InitServing
<1>3. ResponseInv /\ [Next]_vars => ResponseInv'
  BY NextServing
<1> QED
  BY <1>1, <1>2, <1>3, PTL DEF Spec

(* Under the same conditions connections, host and cache keep their types: *)
(* only what exists is cached, and a content is kept compressed only while *)
(* its file is in the cache, also where compressing or watching failed     *)
(* (ProcessHttpRequest 353-401, HtmlCacheEventHander).                     *)
THEOREM ResponseTypes ==
  ASSUME Harmless
  PROVE  Spec => []ResponseTypeOK
<1>1. ResponseInv => ResponseTypeOK
  <2> SUFFICES ASSUME ResponseInv PROVE ResponseTypeOK
    OBVIOUS
  <2>1. ASSUME NEW c \in Conn
        PROVE  /\ conn[c].phase \in {"reading", "writing", "closed", "failed"}
               /\ conn[c].buf.size \in Nat /\ conn[c].buf.process \in Nat
               /\ Len(conn[c].asked) <= MaxRequests
    <3>1. Serving(c, conn[c])
      BY DEF ResponseInv
    <3>2. conn[c].buf.size \in Nat /\ conn[c].buf.process \in Nat
      BY <3>1 DEF Serving, IsBuffer
    <3> QED
      BY <3>1, <3>2 DEF Serving
  <2>2. ASSUME NEW c \in Conn, NEW k \in DOMAIN conn[c].asked
        PROVE  conn[c].asked[k].req \in Asks[c]
    <3>1. conn[c].asked \in Seq([req : Asks[c], fault : Faults])
      BY DEF ResponseInv, Serving
    <3> DEFINE s == conn[c].asked
               A == [req : Asks[c], fault : Faults]
    <3>2. k \in DOMAIN s /\ s \in Seq(A)
      BY <3>1
    <3>3. s[k] \in A
      <4> HIDE DEF s, A
      <4> QED
        BY <3>2
    <3>4. s[k].req \in Asks[c]
      BY <3>3
    <3> QED
      BY <3>4 DEF s
  <2>3. ASSUME NEW path \in cached PROVE Kind(path) # "none"
    BY DEF ResponseInv, Kept, Cacheable, Readable, Kind
  <2>4. ASSUME NEW z \in zipped PROVE z[1] \in cached /\ z[2] \in {"gzip", "deflate"}
    BY DEF ResponseInv, Kept, Algorithms
  <2> QED
    BY <2>1, <2>2, <2>3, <2>4 DEF ResponseInv, ResponseTypeOK
<1>2. Init => ResponseInv
  BY InitServing
<1>3. ResponseInv /\ [Next]_vars => ResponseInv'
  BY NextServing
<1> QED
  BY <1>1, <1>2, <1>3, PTL DEF Spec
----------------------------------------------------------------------------
(* A reply that ends in the first of two sequences, and one in the second. *)
LEMMA ReplyInFirst ==
  ASSUME NEW s, NEW t, IsSeq(s), IsSeq(t), NEW i \in Nat, i >= 1, i < Len(s), NEW req
  PROVE  /\ (s \o t)[i] = s[i]
         /\ Framed(s \o t, i) <=> Framed(s, i)
         /\ Announced(s \o t, i, req) = Announced(s, i, req)
         /\ Announced(s, i, req) \in Nat /\ i + 1 + Announced(s, i, req) <= Len(s) =>
              Reply(s \o t, i, req) = Reply(s, i, req)
<1> DEFINE u == s \o t
           l == Len(s)
           n == Announced(s, i, req)
<1>1. l \in Nat /\ Len(t) \in Nat /\ Len(u) = l + Len(t)
  BY JoinIs DEF IsSeq
<1>2. u[i] = s[i] /\ u[i + 1] = s[i + 1]
  <2>1. \A j \in 1..l : u[j] = s[j]
    BY JoinAt
  <2> HIDE DEF u
  <2> QED
    BY <1>1, <2>1
<1>3. Framed(u, i) <=> Framed(s, i)
  <2>1. i < Len(u)
    BY <1>1
  <2> HIDE DEF u
  <2> QED
    BY <1>2, <2>1 DEF Framed
<1>4. Announced(u, i, req) = n
  <2> HIDE DEF u
  <2> QED
    BY <1>2 DEF Announced
<1>5. ASSUME n \in Nat, i + 1 + n <= l PROVE Reply(u, i, req) = Reply(s, i, req)
  <2>1. i + 2 \in Nat /\ i + 2 >= 1 /\ i + 1 + n \in Nat
    BY <1>5
  <2>2. SubSeq(u, i + 2, i + 1 + n) = SubSeq(s, i + 2, i + 1 + n)
    <3> HIDE DEF n
    <3> QED
      BY <1>5, <2>1, SliceOfJoin
  <2> HIDE DEF u, n
  <2> QED
    BY <1>2, <1>3, <1>4, <2>2 DEF Reply, n
<1> QED
  BY <1>2, <1>3, <1>4, <1>5

LEMMA ReplyInSecond ==
  ASSUME NEW s, NEW t, IsSeq(s), IsSeq(t), 1 < Len(t), NEW req
  PROVE  /\ (s \o t)[Len(s) + 1] = t[1]
         /\ Framed(s \o t, Len(s) + 1) <=> Framed(t, 1)
         /\ Announced(s \o t, Len(s) + 1, req) = Announced(t, 1, req)
         /\ Announced(t, 1, req) \in Nat /\ 2 + Announced(t, 1, req) <= Len(t) =>
              Reply(s \o t, Len(s) + 1, req) = Reply(t, 1, req)
<1> DEFINE u == s \o t
           l == Len(s)
           n == Announced(t, 1, req)
<1>1. l \in Nat /\ Len(t) \in Nat /\ Len(u) = l + Len(t)
  BY JoinIs DEF IsSeq
<1>2. u[l + 1] = t[1] /\ u[(l + 1) + 1] = t[1 + 1]
  <2>1. \A j \in 1..Len(t) : u[l + j] = t[j]
    BY JoinAt
  <2> HIDE DEF u, l
  <2>2. 1 \in 1..Len(t) /\ 2 \in 1..Len(t) /\ (l + 1) + 1 = l + 2
    BY <1>1
  <2> QED
    BY <2>1, <2>2
<1>3. Framed(u, l + 1) <=> Framed(t, 1)
  <2>1. l + 1 < Len(u)
    BY <1>1
  <2> HIDE DEF u, l
  <2> QED
    BY <1>2, <2>1 DEF Framed
<1>4. Announced(u, l + 1, req) = n
  <2> HIDE DEF u, l
  <2> QED
    BY <1>2 DEF Announced
<1>5. ASSUME n \in Nat, 2 + n <= Len(t) PROVE Reply(u, l + 1, req) = Reply(t, 1, req)
  <2>1. 3 \in Nat /\ 3 >= 1 /\ 2 + n \in Nat
    BY <1>5
  <2>2. SubSeq(u, l + 3, l + (2 + n)) = SubSeq(t, 3, 2 + n)
    <3> HIDE DEF n
    <3> QED
      BY <1>5, <2>1, SliceOfJoin
  <2> HIDE DEF u, n, l
  <2>3. (l + 1) + 2 = l + 3 /\ (l + 1) + 1 + n = l + (2 + n) /\ 1 + 2 = 3 /\ 1 + 1 + n = 2 + n
    BY <1>1, <1>5
  <2>4. SubSeq(u, (l + 1) + 2, (l + 1) + 1 + n) = SubSeq(t, 1 + 2, 1 + 1 + n)
    BY <2>2, <2>3
  <2> QED
    BY <1>2, <1>3, <1>4, <2>4 DEF Reply, n
<1> QED
  BY <1>2, <1>3, <1>4, <1>5
----------------------------------------------------------------------------
(* Where the replies to the requests of a connection begin in a stream:    *)
(* one behind the other, each whole and right, and nothing behind the last *)
(* one if it is a 200.                                                     *)
RightAt(at, s, asked, k) ==
  LET i == at[k - 1]
      a == asked[k]
  IN  /\ i \in Nat /\ i >= 1 /\ Framed(s, i) /\ Announced(s, i, a.req) \in Nat
      /\ at[k] = i + 2 + Announced(s, i, a.req) /\ at[k] <= Len(s) + 1
      /\ Answers(Reply(s, i, a.req), a.req, a.fault, Wanted(a.req))

EndsAt(at, s, n) == at[n] = Len(s) + 1 \/ (n > 0 /\ s[at[n - 1]].status # 200)

Layout(at, s, asked) ==
  /\ at[0] = 1 /\ EndsAt(at, s, Len(asked))
  /\ \A k \in 1..Len(asked) : RightAt(at, s, asked, k)

(* The bytes of one right reply.                                           *)
RightReply(data, req, fault) ==
  /\ IsSeq(data) /\ Framed(data, 1) /\ Announced(data, 1, req) \in Nat
  /\ 2 + Announced(data, 1, req) <= Len(data)
  /\ data[1].status = 200 => 2 + Announced(data, 1, req) = Len(data)
  /\ Answers(Reply(data, 1, req), req, fault, Wanted(req))

LEMMA LayoutGrows ==
  ASSUME NEW s, IsSeq(s), NEW asked, IsSeq(asked), NEW at, Layout(at, s, asked),
         at[Len(asked)] = Len(s) + 1, NEW req, NEW fault, NEW data,
         RightReply(data, req, fault)
  PROVE  \E new : Layout(new, s \o data, Append(asked, [req |-> req, fault |-> fault]))
<1> DEFINE n == Len(asked)
           a == [req |-> req, fault |-> fault]
           more == Append(asked, a)
           u == s \o data
           last == Len(s) + 3 + Announced(data, 1, req)
           new == [k \in 0..n + 1 |-> IF k = n + 1 THEN last ELSE at[k]]
<1>1. /\ n \in Nat /\ Len(more) = n + 1 /\ more[n + 1] = a
      /\ \A k \in 1..n : more[k] = asked[k]
  <2> DEFINE A == Range(asked) \cup {a}
  <2>1. asked \in Seq(A) /\ a \in A
    BY DEF IsSeq
  <2> HIDE DEF A, a
  <2> QED
    BY <2>1
<1>2. /\ IsSeq(data) /\ Len(data) \in Nat /\ Len(s) \in Nat /\ IsSeq(u)
      /\ Len(u) = Len(s) + Len(data) /\ 1 < Len(data)
  BY JoinIs DEF RightReply, IsSeq, Framed
<1>3. /\ new[n + 1] = last /\ \A k \in 0..n : new[k] = at[k]
  BY <1>1
<1>4. a.req = req /\ a.fault = fault
  OBVIOUS
<1> HIDE DEF a, more, u, new, n
<1>5. ASSUME NEW k \in 1..n PROVE RightAt(new, u, more, k)
  <2> DEFINE i == at[k - 1]
             r == asked[k].req
  <2>1. RightAt(at, s, asked, k)
    BY DEF Layout, n
  <2>2. /\ i \in Nat /\ i >= 1 /\ Framed(s, i) /\ Announced(s, i, r) \in Nat
        /\ at[k] = i + 2 + Announced(s, i, r) /\ at[k] <= Len(s) + 1
        /\ Answers(Reply(s, i, r), r, asked[k].fault, Wanted(r))
    BY <2>1 DEF RightAt
  <2>3. new[k - 1] = i /\ new[k] = at[k] /\ more[k] = asked[k]
    BY <1>1, <1>3
  <2> HIDE DEF i, r
  <2>4. i < Len(s)
    BY <2>2 DEF Framed
  <2>5. i + 1 + Announced(s, i, r) <= Len(s)
    BY <1>2, <2>2
  <2>6. /\ Framed(u, i) /\ Announced(u, i, r) = Announced(s, i, r)
        /\ Reply(u, i, r) = Reply(s, i, r)
    BY <1>2, <2>2, <2>4, <2>5, ReplyInFirst DEF u
  <2>7. at[k] <= Len(u) + 1
    BY <1>2, <2>2
  <2> QED
    BY <2>2, <2>3, <2>6, <2>7 DEF RightAt, i, r
<1>6. /\ Framed(u, Len(s) + 1) /\ Announced(u, Len(s) + 1, req) = Announced(data, 1, req)
      /\ u[Len(s) + 1] = data[1] /\ Reply(u, Len(s) + 1, req) = Reply(data, 1, req)
  BY <1>2, ReplyInSecond DEF RightReply, u
<1>7. /\ Announced(data, 1, req) \in Nat /\ 2 + Announced(data, 1, req) <= Len(data)
      /\ data[1].status = 200 => 2 + Announced(data, 1, req) = Len(data)
      /\ Answers(Reply(data, 1, req), req, fault, Wanted(req))
  BY DEF RightReply
<1>8. at[n] = Len(s) + 1 /\ new[n] = at[n] /\ n + 1 - 1 = n
  BY <1>1, <1>3 DEF n
<1>9. last = Len(s) + 1 + 2 + Announced(data, 1, req) /\ last <= Len(u) + 1
  BY <1>2, <1>7
<1>10. RightAt(new, u, more, n + 1)
  <2>1. new[n + 1 - 1] = Len(s) + 1
    BY <1>8
  <2> HIDE DEF last
  <2> QED
    BY <1>1, <1>2, <1>3, <1>4, <1>6, <1>7, <1>9, <2>1 DEF RightAt
<1>11. EndsAt(new, u, n + 1)
  <2>1. CASE data[1].status = 200
    <3>1. last = Len(u) + 1
      BY <1>2, <1>7, <2>1
    <3> QED
      BY <1>3, <3>1 DEF EndsAt
  <2>2. CASE data[1].status # 200
    BY <1>1, <1>6, <1>8, <2>2 DEF EndsAt
  <2> QED
    BY <2>1, <2>2
<1>12. new[0] = 1
  BY <1>1, <1>3 DEF Layout
<1>13. \A k \in 1..n + 1 : RightAt(new, u, more, k)
  <2>1. \A k \in 1..n + 1 : k \in 1..n \/ k = n + 1
    BY <1>1
  <2> QED
    BY <1>5, <1>10, <2>1
<1>14. Layout(new, u, more)
  BY <1>1, <1>11, <1>12, <1>13 DEF Layout
<1> QED
  BY <1>14 DEF u, more, a

(* The places from which a peer reads on.                                  *)
ReadOn(out, i, req) ==
  IF Framed(out, i) THEN i + 2 + Announced(out, i, req) ELSE Len(out) + 1

IsStarts(out, asked, n, f) ==
  f = [k \in 0..n |-> IF k = 0 THEN 1 ELSE ReadOn(out, f[k - 1], asked[k].req)]

LEMMA StartsAre ==
  ASSUME NEW out, NEW asked, Len(asked) \in Nat
  PROVE  /\ Starts(out, asked)[0] = 1
         /\ \A k \in 1..Len(asked) :
              Starts(out, asked)[k] = ReadOn(out, Starts(out, asked)[k - 1], asked[k].req)
<1> DEFINE l == Len(asked)
           S == {n \in 0..l : \E f : IsStarts(out, asked, n, f)}
           found == CHOOSE f : IsStarts(out, asked, l, f)
<1>1. 0 \in S
  <2>1. IsStarts(out, asked, 0, [k \in 0..0 |-> 1])
    BY DEF IsStarts
  <2> QED
    BY <2>1
<1>2. ASSUME NEW n \in 1..l, n - 1 \in S PROVE n \in S
  <2>1. PICK f : IsStarts(out, asked, n - 1, f)
    BY <1>2
  <2> DEFINE g == [k \in 0..n |-> IF k = n THEN ReadOn(out, f[n - 1], asked[n].req)
                                  ELSE f[k]]
  <2>2. \A k \in 0..n - 1 :
          f[k] = IF k = 0 THEN 1 ELSE ReadOn(out, f[k - 1], asked[k].req)
    BY <2>1 DEF IsStarts
  <2>3. \A k \in 0..n - 1 : g[k] = f[k]
    BY <1>2
  <2>4. \A k \in 0..n :
          g[k] = IF k = 0 THEN 1 ELSE ReadOn(out, g[k - 1], asked[k].req)
    <3>1. g[n] = ReadOn(out, f[n - 1], asked[n].req)
      BY <1>2
    <3> QED
      BY <1>2, <2>2, <2>3, <3>1
  <2>5. g = [k \in 0..n |-> g[k]]
    OBVIOUS
  <2> HIDE DEF g
  <2>6. IsStarts(out, asked, n, g)
    BY <2>4, <2>5 DEF IsStarts
  <2> QED
    BY <1>2, <2>6
<1>3. l \in S
  <2>1. l \in Nat
    OBVIOUS
  <2> HIDE DEF S, l
  <2> QED
    BY <1>1, <1>2, <2>1, Climb
<1>4. IsStarts(out, asked, l, found)
  BY <1>3
<1>5. Starts(out, asked) = found
  BY DEF Starts, IsStarts, ReadOn
<1> HIDE DEF found
<1>6. \A k \in 0..l :
        found[k] = IF k = 0 THEN 1 ELSE ReadOn(out, found[k - 1], asked[k].req)
  BY <1>4 DEF IsStarts
<1> QED
  BY <1>5, <1>6

(* As far as the stream has gone out, the peer finds the replies in their  *)
(* places, and what it reads is right.                                     *)
ReadRight(out, rest, asked, at) ==
  /\ \A k \in DOMAIN Replies(out, asked) :
       /\ k \in DOMAIN asked
       /\ Replies(out, asked)[k].status = (out \o rest)[at[k - 1]].status
       /\ Answers(Replies(out, asked)[k], asked[k].req, asked[k].fault,
                  Wanted(asked[k].req))
  /\ rest = <<>> => DOMAIN Replies(out, asked) = DOMAIN asked

LEMMA RepliesAre ==
  ASSUME NEW out, IsSeq(out), NEW rest, IsSeq(rest), NEW asked, IsSeq(asked),
         NEW at, Layout(at, out \o rest, asked)
  PROVE  ReadRight(out, rest, asked, at)
<1> DEFINE n == Len(asked)
           m == Len(out)
           s == out \o rest
           st == Starts(out, asked)
           Found(k) == \/ st[k] = at[k]
                       \/ st[k] \in Nat /\ st[k] >= m /\ at[k] >= m
<1>1. n \in Nat /\ DOMAIN asked = 1..n /\ m \in Nat /\ IsSeq(s) /\ Len(s) = m + Len(rest)
        /\ Len(rest) \in Nat
  BY JoinIs DEF IsSeq
<1>2. at[0] = 1 /\ \A k \in 1..n : RightAt(at, s, asked, k)
  BY DEF Layout
<1>3. st[0] = 1 /\ \A k \in 1..n : st[k] = ReadOn(out, st[k - 1], asked[k].req)
  BY <1>1, StartsAre
<1>4. \A i : Framed(out, i) => i < m
  BY DEF Framed
<1> HIDE DEF n, m, s, st
(* A reply that begins in what went out.                                   *)
<1>5. ASSUME NEW k \in 1..n, at[k - 1] < m
      PROVE  /\ at[k - 1] \in Nat /\ Framed(out, at[k - 1])
             /\ Announced(out, at[k - 1], asked[k].req) \in Nat
             /\ at[k] = ReadOn(out, at[k - 1], asked[k].req)
             /\ at[k] = at[k - 1] + 2 + Announced(out, at[k - 1], asked[k].req)
             /\ at[k] <= m + 1 =>
                  /\ Reply(out, at[k - 1], asked[k].req).status = s[at[k - 1]].status
                  /\ Answers(Reply(out, at[k - 1], asked[k].req), asked[k].req,
                             asked[k].fault, Wanted(asked[k].req))
  <2> DEFINE i == at[k - 1]
             r == asked[k].req
  <2>1. /\ i \in Nat /\ i >= 1 /\ Framed(s, i) /\ Announced(s, i, r) \in Nat
        /\ at[k] = i + 2 + Announced(s, i, r)
        /\ Answers(Reply(s, i, r), r, asked[k].fault, Wanted(r))
    BY <1>2 DEF RightAt
  <2> HIDE DEF i, r
  <2>2. i < Len(out)
    BY <1>5 DEF i, m
  <2>3. /\ s[i] = out[i] /\ (Framed(s, i) <=> Framed(out, i))
        /\ Announced(s, i, r) = Announced(out, i, r)
        /\ Announced(out, i, r) \in Nat /\ i + 1 + Announced(out, i, r) <= Len(out) =>
             Reply(s, i, r) = Reply(out, i, r)
    BY <2>1, <2>2, ReplyInFirst DEF s
  <2>4. at[k] = ReadOn(out, i, r)
    BY <2>1, <2>3 DEF ReadOn
  <2>5. ASSUME at[k] <= m + 1
        PROVE  /\ Reply(out, i, r).status = s[i].status
               /\ Answers(Reply(out, i, r), r, asked[k].fault, Wanted(r))
    <3>1. i + 1 + Announced(out, i, r) <= Len(out)
      BY <1>1, <2>1, <2>3, <2>5 DEF m
    <3>2. Reply(s, i, r) = Reply(out, i, r)
      BY <2>1, <2>3, <3>1
    <3>3. Reply(out, i, r).status = out[i].status
      BY <2>1, <2>3 DEF Reply
    <3> QED
      BY <2>1, <2>3, <3>2, <3>3
  <2> QED
    BY <2>1, <2>3, <2>4, <2>5 DEF i, r
<1>6. ASSUME NEW k \in 1..n, Found(k - 1) PROVE Found(k)
  <2>1. at[k - 1] \in Nat /\ at[k] \in Nat /\ at[k] >= at[k - 1]
    <3> DEFINE i == at[k - 1]
               x == Announced(s, i, asked[k].req)
    <3>1. i \in Nat /\ x \in Nat /\ at[k] = i + 2 + x
      BY <1>2 DEF RightAt
    <3> HIDE DEF i, x
    <3>2. i + 2 + x \in Nat /\ i + 2 + x >= i
      BY <3>1
    <3> QED
      BY <3>1, <3>2 DEF i
  <2>2. st[k] = ReadOn(out, st[k - 1], asked[k].req)
    BY <1>3
  <2>3. CASE st[k - 1] = at[k - 1] /\ at[k - 1] < m
    BY <1>5, <2>2, <2>3
  <2>4. CASE st[k - 1] \in Nat /\ st[k - 1] >= m /\ at[k - 1] >= m
    <3>1. ~Framed(out, st[k - 1])
      BY <1>1, <1>4, <2>4
    <3>2. st[k] = m + 1
      BY <2>2, <3>1 DEF ReadOn, m
    <3>3. m + 1 \in Nat /\ m + 1 >= m /\ at[k] >= m
      BY <1>1, <2>1, <2>4
    <3> QED
      BY <3>2, <3>3
  <2>5. CASE st[k - 1] = at[k - 1] /\ ~(at[k - 1] < m)
    <3>1. at[k - 1] >= m
      BY <1>1, <2>1, <2>5
    <3> QED
      BY <2>1, <2>4, <2>5, <3>1
  <2> QED
    BY <1>6, <2>3, <2>4, <2>5
<1>7. ASSUME NEW k \in 0..n PROVE Found(k)
  <2> DEFINE S == {j \in 0..n : Found(j)}
  <2>1. 0 \in S
    BY <1>1, <1>2, <1>3
  <2>2. ASSUME NEW j \in 1..n, j - 1 \in S PROVE j \in S
    BY <1>6, <2>2
  <2> HIDE DEF S
  <2>3. 0..n \subseteq S
    BY <1>1, <2>1, <2>2, Climb
  <2> HIDE DEF Found
  <2> QED
    BY <2>3 DEF S
<1>8. ASSUME NEW k \in 1..n PROVE at[k - 1] < m => st[k - 1] = at[k - 1]
  <2>1. k - 1 \in 0..n
    BY <1>1
  <2>2. Found(k - 1)
    BY <1>7, <2>1
  <2>3. at[k - 1] \in Nat
    BY <1>2 DEF RightAt
  <2> QED
    BY <1>1, <2>2, <2>3
<1>9. /\ DOMAIN Replies(out, asked) = {k \in 1..n : Whole(out, st[k - 1], asked[k].req)}
      /\ \A k \in DOMAIN Replies(out, asked) :
           Replies(out, asked)[k] = Reply(out, st[k - 1], asked[k].req)
  BY <1>1 DEF Replies, st
<1>10. ASSUME NEW k \in 1..n, Whole(out, st[k - 1], asked[k].req)
       PROVE  st[k - 1] = at[k - 1] /\ at[k - 1] < m /\ at[k] <= m + 1
  <2>1. st[k - 1] < m
    BY <1>10 DEF Whole, m
  <2>2. at[k - 1] < m /\ st[k - 1] = at[k - 1]
    <3>1. Found(k - 1)
      BY <1>1, <1>7
    <3> QED
      BY <1>1, <2>1, <3>1
  <2>3. /\ at[k - 1] \in Nat /\ Framed(out, at[k - 1])
        /\ Announced(out, at[k - 1], asked[k].req) \in Nat
        /\ at[k] = at[k - 1] + 2 + Announced(out, at[k - 1], asked[k].req)
    BY <1>5, <2>2
  <2>4. at[k - 1] + 1 + Announced(out, at[k - 1], asked[k].req) <= m
    BY <1>10, <2>2, <2>3 DEF Whole, m
  <2> QED
    BY <1>1, <2>2, <2>3, <2>4
<1>11. ASSUME NEW k \in DOMAIN Replies(out, asked)
       PROVE  /\ k \in DOMAIN asked
              /\ Replies(out, asked)[k].status = s[at[k - 1]].status
              /\ Answers(Replies(out, asked)[k], asked[k].req, asked[k].fault,
                         Wanted(asked[k].req))
  <2>1. k \in 1..n /\ Whole(out, st[k - 1], asked[k].req)
    BY <1>9
  <2>2. st[k - 1] = at[k - 1] /\ at[k - 1] < m /\ at[k] <= m + 1
    BY <1>10, <2>1
  <2> QED
    BY <1>1, <1>5, <1>9, <2>1, <2>2
<1>12. ASSUME rest = <<>>, NEW k \in 1..n PROVE Whole(out, st[k - 1], asked[k].req)
  <2> DEFINE i == at[k - 1]
             r == asked[k].req
  <2>1. Len(s) = m
    BY <1>1, <1>12
  <2>2. i \in Nat /\ Framed(s, i) /\ at[k] <= Len(s) + 1
    BY <1>2 DEF RightAt
  <2>3. i < m
    BY <2>1, <2>2 DEF Framed
  <2>4. /\ st[k - 1] = i /\ Announced(out, i, r) \in Nat
        /\ at[k] = i + 2 + Announced(out, i, r)
    BY <1>5, <1>8, <2>3
  <2> HIDE DEF i, r
  <2>5. i + 1 + Announced(out, i, r) <= m
    BY <1>1, <2>1, <2>2, <2>4
  <2>6. Whole(out, i, r)
    BY <2>3, <2>5 DEF Whole, m
  <2> QED
    BY <2>4, <2>6 DEF r
<1>13. rest = <<>> => DOMAIN Replies(out, asked) = DOMAIN asked
  BY <1>1, <1>9, <1>12
<1> QED
  BY <1>11, <1>13 DEF s, ReadRight
----------------------------------------------------------------------------
(* The stream of a connection: what went out and, of the reply on its way, *)
(* what did not yet.                                                       *)
Rest(x) ==
  IF x.phase = "writing"
    THEN SubSeq(x.buf.data, x.buf.process + 1, Len(x.buf.data)) ELSE <<>>

Told(x) ==
  /\ IsSeq(x.out) /\ IsSeq(x.asked)
  /\ \E at : Layout(at, x.out \o Rest(x), x.asked)

TellingInv == \A c \in Conn : Told(conn[c])

LEMMA ToldIs ==
  ASSUME NEW phase, NEW buf, NEW asked, NEW out, NEW logged, IsSeq(out), IsSeq(asked),
         NEW rest, NEW at, Layout(at, out \o rest, asked),
         rest = IF phase = "writing" THEN SubSeq(buf.data, buf.process + 1, Len(buf.data))
                ELSE <<>>
  PROVE  Told(ConnOf(phase, buf, asked, out, logged))
<1> DEFINE x == ConnOf(phase, buf, asked, out, logged)
<1>1. x.phase = phase /\ x.buf = buf /\ x.asked = asked /\ x.out = out
  BY ConnFields
<1> HIDE DEF x
<1>2. Rest(x) = rest
  BY <1>1 DEF Rest
<1> QED
  BY <1>1, <1>2 DEF Told, x

(* A new connection, and one that failed.                                  *)
LEMMA NothingTold ==
  ASSUME NEW phase \in {"reading", "failed"}, NEW buf
  PROVE  Told(ConnOf(phase, buf, <<>>, <<>>, <<>>))
<1>1. IsSeq(<<>>) /\ Len(<<>>) = 0 /\ <<>> \o <<>> = <<>>
  BY NothingIs
<1>2. Layout([k \in 0..0 |-> 1], <<>>, <<>>)
  BY <1>1 DEF Layout, EndsAt
<1> QED
  BY <1>1, <1>2, ToldIs

LEMMA InitTelling == Init => TellingInv
<1> SUFFICES ASSUME Init, NEW c \in Conn PROVE Told(conn[c])
  BY DEF TellingInv
<1>1. conn[c] = ConnOf("reading", NewBuffer(DefaultSize), <<>>, <<>>, <<>>)
  BY DEF Init, ConnOf
<1> QED
  BY <1>1, NothingTold

LEMMA PartsOfRest ==
  ASSUME NEW data, IsSeq(data), NEW p \in Nat, NEW n \in Nat, p + n <= Len(data)
  PROVE  /\ IsSeq(SubSeq(data, p + 1, p + n))
         /\ IsSeq(SubSeq(data, p + n + 1, Len(data)))
         /\ SubSeq(data, p + 1, p + n) \o SubSeq(data, p + n + 1, Len(data))
              = SubSeq(data, p + 1, Len(data))
<1> DEFINE l == Len(data)
           k == p + n
           A == Range(data)
<1>1. l \in Nat /\ data \in Seq(A) /\ k \in Nat /\ k <= l
  BY DEF IsSeq
<1>2. p + 1 \in 1..l + 1 /\ k \in (p + 1) - 1..l /\ l \in k..l
  BY <1>1
<1>3. k + 1 \in Nat /\ k + 1 >= 1 /\ p + 1 \in Nat /\ p + 1 >= 1
  BY <1>1
<1>4. IsSeq(SubSeq(data, p + 1, k)) /\ IsSeq(SubSeq(data, k + 1, l))
  <2> HIDE DEF k
  <2> QED
    BY <1>1, <1>3, SliceIs
<1> HIDE DEF k, A
<1>5. SubSeq(data, p + 1, k) \o SubSeq(data, k + 1, l) = SubSeq(data, p + 1, l)
  BY <1>1, <1>2, ConcatAdjacentSubSeq
<1> QED
  BY <1>4, <1>5 DEF k

LEMMA JoinsAssociate ==
  ASSUME NEW s, NEW t, NEW u, IsSeq(s), IsSeq(t), IsSeq(u)
  PROVE  (s \o t) \o u = s \o (t \o u)
<1> DEFINE A == Range(s) \cup Range(t) \cup Range(u)
<1>1. s \in Seq(A) /\ t \in Seq(A) /\ u \in Seq(A)
  BY DEF IsSeq
<1> HIDE DEF A
<1> QED
  BY <1>1, ConcatAssociative

Moved(out, sent, more) ==
  IsSeq(out \o sent) /\ (out \o sent) \o more = out \o (sent \o more)

LEMMA MovedIs ==
  ASSUME NEW out, NEW sent, NEW more, IsSeq(out), IsSeq(sent), IsSeq(more)
  PROVE  Moved(out, sent, more)
BY JoinIs, JoinsAssociate DEF Moved

(* Sending n pieces moves them from the rest to what went out.             *)
LEMMA SentMoves ==
  ASSUME NEW c \in Conn, Conns(conn), IsBuffer(conn[c].buf), IsSeq(conn[c].out),
         conn[c].phase = "writing", NEW n \in Nat, n <= Unsent(c)
  PROVE  /\ IsSeq(conn[c].out \o Sent(c, n))
         /\ (conn[c].out \o Sent(c, n))
              \o SubSeq(conn[c].buf.data, conn[c].buf.process + n + 1, Len(conn[c].buf.data))
              = conn[c].out \o Rest(conn[c])
<1> DEFINE data == conn[c].buf.data
           p == conn[c].buf.process
           out == conn[c].out
           more == SubSeq(data, p + n + 1, Len(data))
           sent == SubSeq(data, p + 1, p + n)
<1>1. IsSeq(data) /\ p \in Nat /\ Len(data) \in Nat
  BY DEF IsBuffer, IsSeq
<1>2. p + n <= Len(data)
  BY <1>1 DEF Unsent
<1>3. Sent(c, n) = sent /\ Rest(conn[c]) = SubSeq(data, p + 1, Len(data))
  BY DEF Sent, Rest
<1> HIDE DEF data, p
<1>4. IsSeq(sent) /\ IsSeq(more) /\ sent \o more = SubSeq(data, p + 1, Len(data))
  BY <1>1, <1>2, PartsOfRest
<1>5. IsSeq(out)
  OBVIOUS
<1> HIDE DEF sent, more, out
<1>6. Moved(out, sent, more)
  <2>1. IsSeq(out) /\ IsSeq(sent) /\ IsSeq(more)
    BY <1>4, <1>5
  <2> QED
    BY <2>1, MovedIs
<1> QED
  BY <1>3, <1>4, <1>6 DEF Moved, data, p, more, out

(* The stream when the next reply is begun.                                *)
LEMMA MayAsk ==
  ASSUME GivesUp, NEW c \in Conn, Conns(conn), Told(conn[c]), AsksOn(c),
         conn[c].phase = "reading"
  PROVE  \E at : /\ Layout(at, conn[c].out, conn[c].asked)
                 /\ at[Len(conn[c].asked)] = Len(conn[c].out) + 1
<1> DEFINE out == conn[c].out
           asked == conn[c].asked
           n == Len(asked)
           none == Rest(conn[c])
<1>1. /\ IsSeq(out) /\ IsSeq(asked) /\ none = <<>> /\ out \o none = out
      /\ IsSeq(none)
  BY NothingIs DEF Told, Rest
<1>2. PICK at : Layout(at, out \o none, asked)
  BY <1>1 DEF Told
<1>3. \A k \in DOMAIN Replies(out, asked) : Replies(out, asked)[k].status = 200
  BY DEF AsksOn, RepliesTo
<1>4. n \in Nat /\ DOMAIN asked = 1..n
  BY <1>1 DEF IsSeq
<1> HIDE DEF out, asked, n, none
<1>5. /\ DOMAIN Replies(out, asked) = DOMAIN asked
      /\ \A k \in DOMAIN Replies(out, asked) :
           Replies(out, asked)[k].status = (out \o none)[at[k - 1]].status
  <2>1. IsSeq(out) /\ IsSeq(none) /\ IsSeq(asked)
    BY <1>1
  <2>2. ReadRight(out, none, asked, at)
    BY <1>2, <2>1, RepliesAre
  <2> QED
    BY <1>1, <2>2 DEF ReadRight
<1>6. EndsAt(at, out, n)
  BY <1>1, <1>2 DEF Layout, n
<1>7. at[n] = Len(out) + 1
  <2> SUFFICES ASSUME n > 0, out[at[n - 1]].status # 200 PROVE FALSE
    BY <1>6 DEF EndsAt
  <2>1. n \in DOMAIN asked
    BY <1>4
  <2> QED
    BY <1>1, <1>3, <1>5, <2>1
<1> QED
  BY <1>1, <1>2, <1>7 DEF out, asked, n

LEMMA SliceOfOne ==
  ASSUME NEW s, IsSeq(s), NEW m \in Nat, m >= 1, m <= Len(s)
  PROVE  IsSeq(SubSeq(s, m, m)) /\ Len(SubSeq(s, m, m)) = 1 /\ SubSeq(s, m, m)[1] = s[m]
<1> DEFINE w == SubSeq(s, m, m)
<1>1. /\ IsSeq(w) /\ Len(w) = IF m <= m THEN m - m + 1 ELSE 0
      /\ \A i \in 1..m - m + 1 : w[i] = s[m + i - 1]
  BY SliceIs
<1> HIDE DEF w
<1>2. m - m + 1 = 1 /\ m + 1 - 1 = m
  OBVIOUS
<1>3. Len(w) = 1
  BY <1>1, <1>2
<1>4. w[1] = s[m]
  BY <1>1, <1>2
<1> QED
  BY <1>1, <1>3, <1>4 DEF w

LEMMA JoinOfThree ==
  ASSUME NEW s, IsSeq(s), Len(s) = 1, NEW t, IsSeq(t), Len(t) = 3
  PROVE  /\ IsSeq(s \o t) /\ Len(s \o t) = 4
         /\ (s \o t)[1] = s[1] /\ (s \o t)[2] = t[1] /\ (s \o t)[3] = t[2]
<1> DEFINE data == s \o t
<1>1. IsSeq(data) /\ Len(data) = Len(s) + Len(t)
  BY JoinIs
<1>2. JoinedOf(data, s, t)
  BY JoinedIs
<1> HIDE DEF data
<1>3. Len(data) = 4
  BY <1>1
<1>4. data[1] = s[1]
  BY <1>2 DEF JoinedOf
<1>5. data[1 + 1] = t[1] /\ data[1 + 2] = t[2]
  BY <1>2 DEF JoinedOf
<1> QED
  BY <1>1, <1>3, <1>4, <1>5 DEF data

LEMMA ErrorParts ==
  ASSUME NEW status
  PROVE  /\ IsSeq(ErrorReply(status)) /\ Len(ErrorReply(status)) = 4
         /\ Opens(ErrorReply(status), status, Headers("plain", 1, FALSE))
         /\ ErrorReply(status)[3] = StatusText(status)
<1> DEFINE s == One(StartLine(status))
           t == ErrorRest(status)
           data == s \o t
<1>1. IsSeq(s) /\ Len(s) = 1 /\ s[1] = StartLine(status)
  BY OneIs
<1>2. IsSeq(t) /\ Len(t) = 3
  BY ThreeIsSeq DEF ErrorRest
<1>3. t[1] = Headers("plain", 1, FALSE) /\ t[2] = StatusText(status)
  BY DEF ErrorRest
<1>4. data = ErrorReply(status)
  BY DEF ErrorReply
<1> HIDE DEF s, t
<1>5. /\ IsSeq(data) /\ Len(data) = 4
      /\ data[1] = s[1] /\ data[2] = t[1] /\ data[3] = t[2]
  BY <1>1, <1>2, JoinOfThree
<1> HIDE DEF data
<1>6. Opens(data, status, Headers("plain", 1, FALSE))
  BY <1>1, <1>3, <1>5 DEF Opens
<1> QED
  BY <1>3, <1>4, <1>5, <1>6

LEMMA ErrorAnnounces ==
  ASSUME NEW status, NEW req PROVE Announces(ErrorReply(status), req, status, 1)
<1>1. Opens(ErrorReply(status), status, Headers("plain", 1, FALSE))
  BY ErrorParts
<1> QED
  BY <1>1, FramedIs

LEMMA ErrorTold ==
  ASSUME NEW status \in {400, 403, 404, 500}, NEW req, NEW fault, NEW wanted,
         ~(wanted # {} /\ fault = "none"), req.method \in {"GET", "HEAD"},
         wanted = Wanted(req)
  PROVE  RightReply(ErrorReply(status), req, fault)
<1> DEFINE data == ErrorReply(status)
           n == Announced(data, 1, req)
           reply == Reply(data, 1, req)
<1>1. /\ IsSeq(data) /\ Len(data) = 4
      /\ Opens(data, status, Headers("plain", 1, FALSE))
      /\ data[3] = StatusText(status)
  BY ErrorParts
<1> HIDE DEF data
<1>2. Announces(data, req, status, 1)
  BY ErrorAnnounces DEF data
<1>3. /\ Framed(data, 1) /\ data[1].status = status
      /\ n = IF req.method = "HEAD" THEN 0 ELSE 1
  BY <1>2 DEF Announces
<1>4. reply.status = status /\ reply.body = SubSeq(data, 3, 2 + n)
  <2> DEFINE h == data[1 + 1]
  <2>1. 1 + 2 = 3 /\ 1 + 1 + n = 2 + n
    BY <1>3
  <2>2. reply = [status |-> data[1].status, headers |-> h,
                 body |-> SubSeq(data, 1 + 2, 1 + 1 + n)]
    BY <1>3 DEF Reply
  <2> HIDE DEF h, reply, n
  <2> QED
    BY <1>3, <2>1, <2>2
<1> HIDE DEF n, reply
<1>5. req.method = "GET" => reply.body = <<StatusText(status)>>
  <2> SUFFICES ASSUME req.method = "GET" PROVE reply.body = <<StatusText(status)>>
    OBVIOUS
  <2> DEFINE w == SubSeq(data, 3, 3)
             text == StatusText(status)
             one == <<text>>
  <2>1. reply.body = w
    BY <1>3, <1>4
  <2>2. IsSeq(w) /\ Len(w) = 1 /\ w[1] = text
    <3>1. IsSeq(data) /\ 3 \in Nat /\ 3 >= 1 /\ 3 <= Len(data)
      BY <1>1
    <3>2. IsSeq(w) /\ Len(w) = 1 /\ w[1] = data[3]
      BY <3>1, SliceOfOne
    <3> HIDE DEF w
    <3> QED
      BY <1>1, <3>2
  <2>3. w \in Seq(Range(w)) /\ Len(w) = 1 /\ w[1] = text
    BY <2>2 DEF IsSeq
  <2> HIDE DEF w, text
  <2>4. w = <<text>>
    BY <2>3
  <2> QED
    BY <2>1, <2>4 DEF text
<1>6. Answers(reply, req, fault, wanted)
  BY <1>4, <1>5 DEF Answers
<1> QED
  BY <1>1, <1>3, <1>6 DEF RightReply, reply, n, data

LEMMA PageSent ==
  ASSUME NEW data, IsSeq(data), NEW req, NEW fault, NEW path \in Wanted(req),
         PageIs(data, req, path)
  PROVE  RightReply(data, req, fault)
<1> DEFINE reply == Reply(data, 1, req)
<1>1. /\ Framed(data, 1) /\ Announced(data, 1, req) \in Nat /\ data[1].status = 200
      /\ Len(data) = 2 + Announced(data, 1, req)
      /\ ~IsPage(path) => AnswersWith(ContentOf(path, reply.headers.encoding), reply, req)
  BY DEF PageIs
<1>2. reply.status = 200
  BY <1>1 DEF Reply
<1> HIDE DEF reply
<1>3. Answers(reply, req, fault, Wanted(req))
  BY <1>1, <1>2 DEF Answers
<1> QED
  BY <1>1, <1>3 DEF RightReply, reply

LEMMA ReplyIsRight ==
  ASSUME Harmless, Tellable, NEW b, Filling(b), Kept(cached, zipped),
         NEW req \in AllAsks, NEW fault \in Faults
  PROVE  RightReply(Replied(Served(b, req, fault, QueryVirtualHost(req))).data, req, fault)
<1> DEFINE host == QueryVirtualHost(req)
           v == Served(b, req, fault, host)
           data == Replied(v).data
           wanted == Wanted(req)
<1>1. host \in Range(Servers) \cup {None} /\ host = HostFor(req)
  BY QueryVirtualHostIs
<1>2. WantedOn(host, req) = wanted
  <2> HIDE DEF host
  <2> QED
    BY <1>1 DEF WantedOn, Wanted
<1> HIDE DEF host, wanted
<1>3. ServedFit(v, req, fault, host)
  BY <1>1, ServedIs
<1> HIDE DEF v
<1>4. /\ Settled(v) /\ v.status \in {200, 400, 403, 404, 500}
      /\ v.status = 200 => \E p \in wanted : PageIs(v.buf.data, req, p)
      /\ fault = "none" /\ wanted # {} => v.status = 200
  BY <1>2, <1>3 DEF ServedFit, Fit
<1>5. /\ v.status = 200 => data = v.buf.data
      /\ v.status # 200 => data = ErrorReply(v.status)
      /\ IsSeq(data)
  BY <1>4, RepliedIs DEF Filling, IsBuffer
<1> HIDE DEF data
<1>6. CASE v.status = 200
  <2>1. PICK p \in Wanted(req) : PageIs(data, req, p)
    BY <1>4, <1>5, <1>6 DEF wanted
  <2>2. RightReply(data, req, fault)
    BY <1>5, <2>1, PageSent
  <2> QED
    BY <2>2 DEF data, v, host
<1>7. CASE v.status # 200
  <2>1. req.method \in {"GET", "HEAD"}
    BY DEF Tellable, GetOrHead
  <2>2. v.status \in {400, 403, 404, 500} /\ ~(wanted # {} /\ fault = "none")
    BY <1>4, <1>7
  <2>3. RightReply(data, req, fault)
    BY <1>5, <1>7, <2>1, <2>2, ErrorTold DEF wanted
  <2> QED
    BY <2>3 DEF data, v, host
<1> QED
  BY <1>6, <1>7

LEMMA NextTelling ==
  ASSUME Harmless, Tellable, ResponseInv, TellingInv, [Next]_vars
  PROVE  TellingInv'
<1>1. /\ Conns(conn) /\ \A c \in Conn : Serving(c, conn[c]) /\ Told(conn[c])
      /\ Kept(cached, zipped)
  BY DEF ResponseInv, TellingInv
<1>2. ASSUME NEW c \in Conn, NEW x, IsConn(x), conn' = [conn EXCEPT ![c] = x], Told(x)
      PROVE  TellingInv'
  <2> DEFINE g == [conn EXCEPT ![c] = x]
  <2>1. Conns(g) /\ g[c] = x /\ \A d \in Conn : d # c => g[d] = conn[d]
    <3>1. Conns(conn) /\ IsConn(x)
      BY <1>1, <1>2
    <3> QED
      BY <3>1, ConnChanged
  <2>2. \A d \in Conn : Told(conn'[d])
    BY <1>1, <1>2, <2>1
  <2> QED
    BY <2>2 DEF TellingInv, Told, Rest, Layout, EndsAt, RightAt
<1>3. ASSUME NEW c \in Conn, NEW req \in Asks[c], NEW fault \in Faults,
             OnReceivingSocket(c, req, fault)
      PROVE  TellingInv'
  <2> DEFINE b == Replied(Served(conn[c].buf, req, fault, QueryVirtualHost(req)))
             asked == Append(conn[c].asked, [req |-> req, fault |-> fault])
             out == conn[c].out
             x == ConnOf("writing", b, asked, out, conn[c].logged)
  <2>1. req \in AllAsks /\ conn[c].phase = "reading" /\ AsksOn(c)
    BY <1>3 DEF AllAsks, OnReceivingSocket
  <2>2. Filling(conn[c].buf)
    BY <1>1, <2>1 DEF Serving, Filling
  <2>3. conn' = [conn EXCEPT ![c] = x]
    BY <1>1, <1>3, ReceivedIs
  <2>4. RightReply(b.data, req, fault)
    BY <1>1, <2>1, <2>2, ReplyIsRight
  <2>5. PICK at : /\ Layout(at, out, conn[c].asked)
                  /\ at[Len(conn[c].asked)] = Len(out) + 1
    BY <1>1, <2>1, MayAsk DEF Tellable
  <2>6. IsSeq(out) /\ IsSeq(conn[c].asked)
    BY <1>1 DEF Told
  <2>7. Filling(b)
    <3>1. QueryVirtualHost(req) \in Range(Servers) \cup {None}
      BY <2>1, QueryVirtualHostIs
    <3> QED
      BY <1>1, <2>1, <2>2, <3>1, ServedIs, RepliedIs DEF ServedFit
  <2> HIDE DEF b, x
  <2>8. PICK new : Layout(new, out \o b.data, asked)
    BY <2>4, <2>5, <2>6, LayoutGrows
  <2>9. b.process + 1 = 1 /\ SubSeq(b.data, 1, Len(b.data)) = b.data
    <3>1. b.process = 0 /\ b.data \in Seq(Range(b.data))
      BY <2>7 DEF Filling, IsBuffer, IsSeq
    <3> QED
      BY <3>1, SubSeqFull
  <2>10. IsSeq(asked)
    BY <2>6, AppendIs
  <2> HIDE DEF asked, out
  <2>11. Told(x)
    BY <2>6, <2>8, <2>9, <2>10, ToldIs DEF x
  <2>12. IsConn(x)
    BY ConnFields DEF x
  <2> QED
    BY <1>2, <2>3, <2>11, <2>12
<1>4. ASSUME NEW c \in Conn, NEW n \in 1..(Unsent(c) - 1), SendsPart(c, n)
      PROVE  TellingInv'
  <2> DEFINE buf == conn[c].buf
             new == buf.process + n
             b == BufferOf(buf.size, new, buf.data)
             out == conn[c].out \o Sent(c, n)
             x == ConnOf("writing", b, conn[c].asked, out, conn[c].logged)
             rest == SubSeq(buf.data, new + 1, Len(buf.data))
  <2>1. conn[c].phase = "writing" /\ IsBuffer(buf) /\ Told(conn[c])
    BY <1>1, <1>4 DEF SendsPart, Serving
  <2>2. conn' = [conn EXCEPT ![c] = x]
    BY <1>1, <1>4, <2>1, PartSentIs
  <2>3. n \in Nat /\ n <= Unsent(c)
    <3>1. Unsent(c) \in Int
      BY <2>1 DEF Unsent, IsBuffer, IsSeq
    <3> QED
      BY <3>1
  <2>4. IsSeq(out) /\ out \o rest = conn[c].out \o Rest(conn[c])
    BY <1>1, <2>1, <2>3, SentMoves DEF Told
  <2>5. PICK at : Layout(at, out \o rest, conn[c].asked)
    BY <2>1, <2>4 DEF Told
  <2>6. b.data = buf.data /\ b.process = new
    BY DEF BufferOf
  <2>7. IsSeq(conn[c].asked)
    BY <2>1 DEF Told
  <2> HIDE DEF out, b, new, x
  <2>8. rest = SubSeq(b.data, b.process + 1, Len(b.data))
    BY <2>6
  <2> HIDE DEF rest
  <2>9. Told(x)
    BY <2>4, <2>5, <2>7, <2>8, ToldIs DEF x
  <2>10. IsConn(x)
    BY ConnFields DEF x
  <2> QED
    BY <1>2, <2>2, <2>9, <2>10
<1>5. ASSUME NEW c \in Conn, SendsRest(c) PROVE TellingInv'
  <2> DEFINE phase == IF LastAsked(c).keepalive THEN "reading" ELSE "closed"
             lines == AccessLog(c)
             n == Unsent(c)
             out == conn[c].out \o Sent(c, n)
             buf == conn[c].buf
             b == ResetResponseBuffer(AllSent(buf))
             x == ConnOf(phase, b, conn[c].asked, out, lines)
             rest == SubSeq(buf.data, buf.process + n + 1, Len(buf.data))
  <2>1. conn[c].phase = "writing" /\ IsBuffer(buf) /\ Told(conn[c])
    BY <1>1, <1>5 DEF SendsRest, Serving
  <2>2. conn' = [conn EXCEPT ![c] = x]
    BY <1>1, <1>5, RestSentIs
  <2>3. n \in Nat /\ buf.process + n = Len(buf.data) /\ Len(buf.data) \in Nat
    BY <2>1 DEF Unsent, IsBuffer, IsSeq
  <2>4. IsSeq(out) /\ out \o rest = conn[c].out \o Rest(conn[c])
    <3>1. n <= Unsent(c) /\ IsSeq(conn[c].out)
      BY <2>1, <2>3 DEF Told
    <3> HIDE DEF n
    <3> QED
      BY <1>1, <2>1, <2>3, <3>1, SentMoves
  <2>5. rest = <<>>
    <3>1. rest = SubSeq(buf.data, Len(buf.data) + 1, Len(buf.data))
      BY <2>3
    <3> HIDE DEF rest, n
    <3> QED
      BY <2>3, <3>1, SubSeqEmpty
  <2>6. PICK at : Layout(at, out \o <<>>, conn[c].asked)
    BY <2>1, <2>4, <2>5 DEF Told
  <2>7. IsSeq(conn[c].asked) /\ phase # "writing"
    BY <2>1 DEF Told
  <2> HIDE DEF out, b, n, x, lines, phase, rest
  <2>8. Told(x)
    BY <2>4, <2>6, <2>7, ToldIs DEF x
  <2>9. IsConn(x)
    BY ConnFields DEF x
  <2> QED
    BY <1>2, <2>2, <2>8, <2>9
<1>6. ASSUME NEW c \in Conn, ConnectionFails(c)
      PROVE  TellingInv'
  <2> DEFINE b == ResetResponseBuffer(conn[c].buf)
             x == ConnOf("failed", b, <<>>, <<>>, <<>>)
  <2>1. conn' = [conn EXCEPT ![c] = x]
    BY <1>1, <1>6, FailedConnIs
  <2> HIDE DEF b
  <2>2. Told(x) /\ IsConn(x)
    BY NothingTold, ConnFields
  <2> HIDE DEF x
  <2> QED
    BY <1>2, <2>1, <2>2
<1>7. ASSUME UNCHANGED conn PROVE TellingInv'
  <2>1. \A d \in Conn : Told(conn'[d])
    BY <1>1, <1>7
  <2> QED
    BY <2>1 DEF TellingInv, Told, Rest, Layout, EndsAt, RightAt
<1>8. CASE \E path \in cached : CacheEvicts(path)
  BY <1>7, <1>8 DEF CacheEvicts
<1>9. CASE UNCHANGED vars
  BY <1>7, <1>9 DEF vars
<1> QED
  BY <1>3, <1>4, <1>5, <1>6, <1>8, <1>9 DEF Next

THEOREM ResponseReplies ==
  ASSUME Harmless, Tellable
  PROVE  Spec => []RepliesMatch
<1>1. ResponseInv /\ TellingInv => RepliesMatch
  <2> SUFFICES ASSUME ResponseInv, TellingInv, NEW c \in Conn
               PROVE  LET replies == RepliesTo(c)
                      IN  /\ \A k \in DOMAIN replies :
                               LET a == conn[c].asked[k]
                               IN  Answers(replies[k], a.req, a.fault, Wanted(a.req))
                          /\ conn[c].phase \in {"reading", "closed"} =>
                               DOMAIN replies = DOMAIN conn[c].asked
    BY DEF RepliesMatch
  <2> DEFINE out == conn[c].out
             asked == conn[c].asked
             rest == Rest(conn[c])
  <2>1. Told(conn[c]) /\ IsSeq(out) /\ IsSeq(asked)
    BY DEF TellingInv, Told
  <2>2. IsSeq(rest) /\ (conn[c].phase \in {"reading", "closed"} => rest = <<>>)
    <3> DEFINE data == conn[c].buf.data
               p == conn[c].buf.process
    <3>1. IsSeq(data) /\ p \in 0..Len(data) /\ Len(data) \in Nat
      <4>1. IsBuffer(conn[c].buf)
        BY DEF ResponseInv, Serving
      <4> QED
        BY <4>1 DEF IsBuffer, IsSeq
    <3>2. IsSeq(SubSeq(data, p + 1, Len(data)))
      <4> HIDE DEF data, p
      <4>1. p + 1 \in Nat /\ p + 1 >= 1
        BY <3>1
      <4> QED
        BY <3>1, <4>1, SliceIs
    <3> QED
      BY <3>2, NothingIs DEF Rest
  <2>3. PICK at : Layout(at, out \o rest, asked)
    BY <2>1 DEF Told
  <2>4. RepliesTo(c) = Replies(out, asked)
    BY DEF RepliesTo
  <2> HIDE DEF out, asked, rest
  <2>5. /\ \A k \in DOMAIN Replies(out, asked) :
             Answers(Replies(out, asked)[k], asked[k].req, asked[k].fault,
                     Wanted(asked[k].req))
        /\ rest = <<>> => DOMAIN Replies(out, asked) = DOMAIN asked
    BY <2>1, <2>2, <2>3, RepliesAre DEF ReadRight
  <2> QED
    BY <2>2, <2>4, <2>5 DEF asked
<1>2. Init => ResponseInv /\ TellingInv
  BY InitServing, InitTelling
<1>3. ResponseInv /\ TellingInv /\ [Next]_vars => (ResponseInv /\ TellingInv)'
  BY NextServing, NextTelling
<1> QED
  BY <1>1, <1>2, <1>3, PTL DEF Spec
=============================================================================
