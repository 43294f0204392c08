---------------------------- MODULE LevMemProofs ----------------------------
(***************************************************************************)
(* Proofs about LevMem, for any number of blocks, userdata and slab        *)
(* classes and for every input, the mishandled ones included.              *)
(***************************************************************************)
EXTENDS LevMem, FiniteSetTheorems, TLAPS

(* The part of the inductive invariant that is about the slab alone. *)
SlabOK(m) ==
  /\ m \in SlabStates
  /\ \A c \in Classes : Len(m.pool[c]) <= PoolMin[c]
  /\ \A c, d \in Classes : \A i \in 1 .. Len(m.pool[c]), j \in 1 .. Len(m.pool[d]) :
       m.pool[c][i] = m.pool[d][j] => c = d /\ i = j
  /\ \A b \in Blocks : IsPooled(m, b) => b \in m.heap

(* u counts, for each block, owners that the slab state m accounts for. *)
Covers(m, u) ==
  \A b \in Blocks :
    /\ u[b] > 0 => InUse(m, b)
    /\ InUse(m, b) => m.refcount[b] >= u[b]

Inc(u, b) == [u EXCEPT ![b] = @ + 1]
Dec(u, b) == [u EXCEPT ![b] = @ - 1]

(* Blocks other than b keep their place and their header from m to n. *)
SameBut(m, n, b) ==
  \A x \in Blocks \ {b} :
    /\ InUse(n, x) <=> InUse(m, x)
    /\ n.class[x] = m.class[x]
    /\ n.refcount[x] = m.refcount[x]
    /\ n.nbytes[x] = m.nbytes[x]

-----------------------------------------------------------------------------
(* The fields of a slab state and their types. *)
LEMMA SlabTypes ==
  ASSUME NEW m \in SlabStates
  PROVE  /\ m.heap \subseteq Blocks
         /\ m.pool \in [Classes -> Seq(Blocks)]
         /\ m.class \in [Blocks -> Classes]
         /\ m.refcount \in [Blocks -> Int]
         /\ m.nbytes \in [Blocks -> Nat]
         /\ \A c \in Classes : m.pool[c] \in Seq(Blocks) /\ Len(m.pool[c]) \in Nat
<1>1. /\ m.heap \subseteq Blocks
      /\ m.pool \in [Classes -> Seq(Blocks)]
      /\ m.class \in [Blocks -> Classes]
      /\ m.refcount \in [Blocks -> Int]
      /\ m.nbytes \in [Blocks -> Nat]
  BY DEF SlabStates
<1>2. ASSUME NEW c \in Classes PROVE m.pool[c] \in Seq(Blocks) /\ Len(m.pool[c]) \in Nat
  <2>1. m.pool[c] \in Seq(Blocks)
    BY <1>1
  <2> QED BY <2>1
<1> QED BY <1>1, <1>2

(* What Append does to the length and to the entries of a free list. *)
LEMMA AppendFacts ==
  ASSUME NEW S, NEW q \in Seq(S), NEW e \in S
  PROVE  /\ Len(q) \in Nat
         /\ Len(Append(q, e)) = Len(q) + 1
         /\ Append(q, e)[Len(q) + 1] = e
         /\ \A i \in 1 .. Len(q) : Append(q, e)[i] = q[i]
  OBVIOUS

(* lev_slab_getBlock returns a block that nobody uses, with refcount 0. *)
LEMMA GetBlockLemma ==
  ASSUME NEW m, NEW u \in [Blocks -> Nat], SlabOK(m), Covers(m, u),
         NEW c \in Classes, NEW b \in Available(m, c)
  PROVE  LET n == lev_slab_getBlock(m, c, b)
         IN /\ SlabOK(n) /\ Covers(n, u) /\ SameBut(m, n, b)
            /\ b \in Blocks /\ ~InUse(m, b) /\ InUse(n, b)
            /\ u[b] = 0 /\ n.refcount[b] = 0 /\ n.nbytes[b] = 0 /\ n.class[b] = c
<1> DEFINE n == lev_slab_getBlock(m, c, b)
           k == Len(m.pool[c])
<1>1. m \in SlabStates /\ m.pool[c] \in Seq(Blocks) /\ k \in Nat
  BY SlabTypes DEF SlabOK
<1>2. b \in Blocks /\ ~InUse(m, b)
  <2>1. CASE m.pool[c] # <<>>
    <3>1. k \in 1 .. k /\ b = m.pool[c][k]
      BY <1>1, <2>1 DEF Available
    <3> QED BY <3>1, <1>1 DEF InUse, IsPooled
  <2>2. CASE m.pool[c] = <<>>
    BY <2>2, <1>1 DEF Available, InUse
  <2> QED BY <2>1, <2>2
<1>3. /\ n.heap = m.heap \cup {b} /\ n.class = [m.class EXCEPT ![b] = c]
      /\ n.refcount = [m.refcount EXCEPT ![b] = 0]
      /\ n.nbytes = [m.nbytes EXCEPT ![b] = 0]
      /\ n.pool \in [Classes -> Seq(Blocks)]
      /\ \A d \in Classes : d # c => n.pool[d] = m.pool[d]
      /\ m.pool[c] = <<>> => n.pool = m.pool
      /\ m.pool[c] # <<>> => n.pool[c] = SubSeq(m.pool[c], 1, k - 1) /\ k > 0
  BY <1>1 DEF lev_slab_getBlock, SlabStates
<1>4. ASSUME NEW d \in Classes
      PROVE  /\ Len(n.pool[d]) \in Nat /\ Len(m.pool[d]) \in Nat
             /\ Len(n.pool[d]) <= Len(m.pool[d])
             /\ \A i \in 1 .. Len(n.pool[d]) :
                  i \in 1 .. Len(m.pool[d]) /\ n.pool[d][i] = m.pool[d][i]
  <2>1. m.pool[d] \in Seq(Blocks) /\ Len(m.pool[d]) \in Nat
    BY <1>1, SlabTypes
  <2>2. CASE d = c /\ m.pool[c] # <<>>
    <3>1. n.pool[d] = SubSeq(m.pool[d], 1, k - 1) /\ k > 0 /\ k = Len(m.pool[d])
      BY <2>2, <1>3
    <3> HIDE DEF n
    <3> QED BY <3>1, <2>1
  <2>3. CASE ~(d = c /\ m.pool[c] # <<>>)
    BY <2>1, <2>3, <1>3
  <2> QED BY <2>2, <2>3
<1>5. ~IsPooled(n, b)
  <2>1. SUFFICES ASSUME NEW d \in Classes, NEW i \in 1 .. Len(n.pool[d]), n.pool[d][i] = b
                 PROVE  FALSE
    BY DEF IsPooled
  <2>2. i \in 1 .. Len(m.pool[d]) /\ m.pool[d][i] = b /\ IsPooled(m, b) /\ b \in m.heap
    BY <2>1, <1>2, <1>4 DEF IsPooled, SlabOK
  <2>3. m.pool[c] # <<>> /\ k \in 1 .. k /\ m.pool[c][k] = b
    BY <2>2, <1>1 DEF Available
  <2>4. d = c /\ i = k
    BY <2>2, <2>3 DEF SlabOK
  <2> QED BY <2>1, <2>3, <2>4, <1>1, <1>3
<1>6. \A x \in Blocks \ {b} : IsPooled(n, x) <=> IsPooled(m, x)
  <2> SUFFICES ASSUME NEW x \in Blocks \ {b} PROVE IsPooled(n, x) <=> IsPooled(m, x)
    OBVIOUS
  <2>1. IsPooled(n, x) => IsPooled(m, x)
    BY <1>4 DEF IsPooled
  <2>2. ASSUME NEW d \in Classes, NEW i \in 1 .. Len(m.pool[d]), m.pool[d][i] = x
        PROVE  i \in 1 .. Len(n.pool[d])
    <3>1. CASE d = c /\ m.pool[c] # <<>>
      <4>1. b = m.pool[c][k]
        BY <3>1 DEF Available
      <4>2. i # k
        BY <4>1, <2>2, <3>1
      <4> QED BY <4>2, <3>1, <1>1, <1>3
    <3>2. CASE ~(d = c /\ m.pool[c] # <<>>)
      BY <3>2, <1>3
    <3> QED BY <3>1, <3>2
  <2>3. IsPooled(m, x) => IsPooled(n, x)
    BY <2>2, <1>4 DEF IsPooled
  <2> QED BY <2>1, <2>3
<1>7. InUse(n, b) /\ SameBut(m, n, b)
  BY <1>1, <1>2, <1>3, <1>5, <1>6 DEF InUse, SameBut, SlabStates
<1>8. n \in SlabStates
  BY <1>1, <1>2, <1>3 DEF SlabStates, lev_slab_getBlock
<1>9. SlabOK(n)
  <2>1. \A d \in Classes : Len(n.pool[d]) <= PoolMin[d]
    <3> SUFFICES ASSUME NEW d \in Classes PROVE Len(n.pool[d]) <= PoolMin[d]
      OBVIOUS
    <3>1. PoolMin[d] \in Nat
      BY SlabAssumption DEF Classes
    <3> QED BY <3>1, <1>4 DEF SlabOK
  <2>2. \A d, e \in Classes : \A i \in 1 .. Len(n.pool[d]), j \in 1 .. Len(n.pool[e]) :
          n.pool[d][i] = n.pool[e][j] => d = e /\ i = j
    <3> SUFFICES ASSUME NEW d \in Classes, NEW e \in Classes,
                        NEW i \in 1 .. Len(n.pool[d]), NEW j \in 1 .. Len(n.pool[e]),
                        n.pool[d][i] = n.pool[e][j]
                 PROVE  d = e /\ i = j
      OBVIOUS
    <3>1. i \in 1 .. Len(m.pool[d]) /\ j \in 1 .. Len(m.pool[e])
      BY <1>4
    <3>2. m.pool[d][i] = m.pool[e][j]
      BY <1>4
    <3> QED BY <3>1, <3>2 DEF SlabOK
  <2>3. \A x \in Blocks : IsPooled(n, x) => x \in n.heap
    BY <1>3, <1>5, <1>6 DEF SlabOK
  <2> QED BY <1>8, <2>1, <2>2, <2>3 DEF SlabOK
<1>10. u[b] = 0 /\ n.refcount[b] = 0 /\ n.nbytes[b] = 0 /\ n.class[b] = c
  BY <1>1, <1>2, <1>3 DEF Covers, SlabStates
<1>11. Covers(n, u)
  BY <1>2, <1>7, <1>10 DEF Covers, SameBut
<1> QED BY <1>2, <1>7, <1>9, <1>10, <1>11

(* lev_slab_incRef accounts for one more owner. *)
LEMMA IncRefLemma ==
  ASSUME NEW m, NEW u \in [Blocks -> Nat], SlabOK(m), Covers(m, u),
         NEW b \in Blocks, InUse(m, b)
  PROVE  LET n == lev_slab_incRef(m, b)
         IN /\ SlabOK(n) /\ Covers(n, Inc(u, b)) /\ SameBut(m, n, b)
            /\ InUse(n, b) /\ n.nbytes = m.nbytes /\ n.class = m.class
            /\ n.refcount[b] = m.refcount[b] + 1
<1> DEFINE n == lev_slab_incRef(m, b)
<1>1. m \in SlabStates
  BY DEF SlabOK
<1>2. /\ n.heap = m.heap /\ n.pool = m.pool /\ n.class = m.class /\ n.nbytes = m.nbytes
      /\ n.refcount = [m.refcount EXCEPT ![b] = @ + 1]
      /\ n \in SlabStates
  <2>1. [m.refcount EXCEPT ![b] = @ + 1] \in [Blocks -> Int]
    BY <1>1, SlabTypes
  <2> QED BY <1>1, <2>1 DEF lev_slab_incRef, SlabStates
<1>3. \A x \in Blocks : (InUse(n, x) <=> InUse(m, x)) /\ (IsPooled(n, x) <=> IsPooled(m, x))
  BY <1>2 DEF InUse, IsPooled
<1>4. SlabOK(n)
  <2> HIDE DEF n
  <2> QED BY <1>2, <1>3 DEF SlabOK
<1>5. m.refcount[b] \in Int /\ n.refcount[b] = m.refcount[b] + 1 /\ SameBut(m, n, b)
  BY <1>1, <1>2, <1>3 DEF SameBut, SlabStates
<1>6. Covers(n, Inc(u, b))
  BY <1>3, <1>5 DEF Covers, SameBut, Inc
<1> QED BY <1>2, <1>3, <1>4, <1>5, <1>6

(* lev_slab_decRef gives up one owner, and releases the block only when    *)
(* no owner is left.                                                       *)
LEMMA DecRefLemma ==
  ASSUME NEW m, NEW u \in [Blocks -> Nat], SlabOK(m), Covers(m, u),
         NEW b \in Blocks, u[b] > 0
  PROVE  LET n == lev_slab_decRef(m, b)
         IN /\ SlabOK(n) /\ Covers(n, Dec(u, b)) /\ SameBut(m, n, b)
            /\ n.nbytes = m.nbytes /\ n.class = m.class
            /\ n.refcount[b] = m.refcount[b] - 1
            /\ InUse(n, b) <=> m.refcount[b] # 1
<1> DEFINE n == lev_slab_decRef(m, b)
           c == m.class[b]
           last == m.refcount[b] = 1
           room == Len(m.pool[c]) < PoolMin[c]
<1>1. /\ m \in SlabStates /\ c \in Classes /\ m.pool[c] \in Seq(Blocks)
      /\ m.refcount[b] \in Int /\ InUse(m, b) /\ PoolMin[c] \in Nat
  BY SlabAssumption DEF SlabOK, SlabStates, Covers, Classes
<1>2. /\ n.class = m.class /\ n.nbytes = m.nbytes
      /\ n.refcount = [m.refcount EXCEPT ![b] = @ - 1]
      /\ n.heap = (IF last /\ ~room THEN m.heap \ {b} ELSE m.heap)
      /\ n.pool = (IF last /\ room THEN [m.pool EXCEPT ![c] = Append(@, b)] ELSE m.pool)
  BY DEF lev_slab_decRef
<1>3. n.pool \in [Classes -> Seq(Blocks)] /\ m.pool \in [Classes -> Seq(Blocks)]
  BY <1>1, <1>2 DEF SlabStates
<1>4. n \in SlabStates
  BY <1>1, <1>2, <1>3 DEF SlabStates, lev_slab_decRef
<1>5. CASE last /\ room
  <2>1. /\ n.pool[c] = Append(m.pool[c], b) /\ n.heap = m.heap
        /\ \A d \in Classes : d # c => n.pool[d] = m.pool[d]
    BY <1>2, <1>3, <1>5, <1>1
  <2>2. /\ Len(n.pool[c]) = Len(m.pool[c]) + 1 /\ n.pool[c][Len(m.pool[c]) + 1] = b
        /\ \A i \in 1 .. Len(m.pool[c]) : n.pool[c][i] = m.pool[c][i]
        /\ Len(m.pool[c]) \in Nat
    <3> HIDE DEF n, c
    <3> QED BY <2>1, <1>1, AppendFacts
  <2>3. IsPooled(n, b)
    <3>1. Len(m.pool[c]) + 1 \in 1 .. Len(n.pool[c])
      BY <2>2
    <3> QED BY <3>1, <2>2, <1>1 DEF IsPooled
  <2>4. \A x \in Blocks \ {b} : IsPooled(n, x) <=> IsPooled(m, x)
    <3> SUFFICES ASSUME NEW x \in Blocks \ {b} PROVE IsPooled(n, x) <=> IsPooled(m, x)
      OBVIOUS
    <3>1. ASSUME NEW d \in Classes, NEW i \in 1 .. Len(n.pool[d]), n.pool[d][i] = x
          PROVE  i \in 1 .. Len(m.pool[d]) /\ m.pool[d][i] = x
      <4>1. CASE d = c
        <5> HIDE DEF n, c
        <5>1. i # Len(m.pool[c]) + 1
          BY <3>1, <4>1, <2>2
        <5>2. i \in 1 .. Len(m.pool[c])
          BY <5>1, <4>1, <2>2
        <5> QED BY <5>2, <3>1, <4>1, <2>2
      <4>2. CASE d # c
        BY <3>1, <4>2, <2>1
      <4> QED BY <4>1, <4>2
    <3>2. ASSUME NEW d \in Classes, NEW i \in 1 .. Len(m.pool[d]), m.pool[d][i] = x
          PROVE  i \in 1 .. Len(n.pool[d]) /\ n.pool[d][i] = x
      <4>1. CASE d = c
        <5> HIDE DEF n, c
        <5> QED BY <3>2, <4>1, <2>2
      <4>2. CASE d # c
        BY <3>2, <4>2, <2>1
      <4> QED BY <4>1, <4>2
    <3> QED BY <3>1, <3>2 DEF IsPooled
  <2>5. \A d \in Classes : Len(n.pool[d]) <= PoolMin[d]
    <3> SUFFICES ASSUME NEW d \in Classes PROVE Len(n.pool[d]) <= PoolMin[d]
      OBVIOUS
    <3>1. CASE d = c
      BY <3>1, <2>2, <1>1, <1>5
    <3>2. CASE d # c
      BY <3>2, <2>1 DEF SlabOK
    <3> QED BY <3>1, <3>2
  <2>6. \A d, e \in Classes : \A i \in 1 .. Len(n.pool[d]), j \in 1 .. Len(n.pool[e]) :
          n.pool[d][i] = n.pool[e][j] => d = e /\ i = j
    <3> SUFFICES ASSUME NEW d \in Classes, NEW e \in Classes,
                        NEW i \in 1 .. Len(n.pool[d]), NEW j \in 1 .. Len(n.pool[e]),
                        n.pool[d][i] = n.pool[e][j]
                 PROVE  d = e /\ i = j
      OBVIOUS
    <3>1. ASSUME NEW f \in Classes, NEW k \in 1 .. Len(n.pool[f])
          PROVE  \/ k \in 1 .. Len(m.pool[f]) /\ n.pool[f][k] = m.pool[f][k] /\ n.pool[f][k] # b
                 \/ f = c /\ k = Len(m.pool[c]) + 1 /\ n.pool[f][k] = b
      <4>1. ~IsPooled(m, b)
        BY <1>1 DEF InUse
      <4>2. k \in 1 .. Len(m.pool[f]) => m.pool[f][k] # b
        BY <4>1 DEF IsPooled
      <4>3. CASE f = c
        <5> HIDE DEF n, c
        <5>1. CASE k = Len(m.pool[c]) + 1
          BY <4>3, <5>1, <2>2
        <5>2. CASE k # Len(m.pool[c]) + 1
          <6>1. k \in 1 .. Len(m.pool[c])
            BY <4>3, <5>2, <2>2
          <6> QED BY <4>2, <4>3, <6>1, <2>2
        <5> QED BY <5>1, <5>2
      <4>4. CASE f # c
        BY <4>2, <4>4, <2>1
      <4> QED BY <4>3, <4>4
    <3>2. \/ i \in 1 .. Len(m.pool[d]) /\ n.pool[d][i] = m.pool[d][i] /\ n.pool[d][i] # b
          \/ d = c /\ i = Len(m.pool[c]) + 1 /\ n.pool[d][i] = b
      BY <3>1
    <3>3. \/ j \in 1 .. Len(m.pool[e]) /\ n.pool[e][j] = m.pool[e][j] /\ n.pool[e][j] # b
          \/ e = c /\ j = Len(m.pool[c]) + 1 /\ n.pool[e][j] = b
      BY <3>1
    <3> QED BY <3>2, <3>3 DEF SlabOK
  <2>7. \A x \in Blocks : IsPooled(n, x) => x \in n.heap
    BY <2>1, <2>4, <1>1 DEF SlabOK, InUse
  <2>8. SlabOK(n)
    BY <1>4, <2>5, <2>6, <2>7 DEF SlabOK
  <2>9. ~InUse(n, b) /\ \A x \in Blocks \ {b} : InUse(n, x) <=> InUse(m, x)
    BY <2>1, <2>3, <2>4 DEF InUse
  <2>10. u[b] = 1
    BY <1>1, <1>5 DEF Covers
  <2>11. SameBut(m, n, b) /\ n.refcount[b] = m.refcount[b] - 1
    BY <2>9, <1>1, <1>2 DEF SameBut, SlabStates
  <2>12. Covers(n, Dec(u, b))
    BY <2>9, <2>10, <2>11 DEF Covers, SameBut, Dec
  <2> QED BY <2>8, <2>9, <2>11, <2>12, <1>2, <1>5
<1>6. CASE ~(last /\ room)
  <2>1. n.pool = m.pool /\ \A x \in Blocks : IsPooled(n, x) <=> IsPooled(m, x)
    <3>1. n.pool = m.pool
      BY <1>2, <1>6
    <3> HIDE DEF n
    <3> QED BY <3>1 DEF IsPooled
  <2>2. \A x \in Blocks \ {b} : (x \in n.heap <=> x \in m.heap) /\ (InUse(n, x) <=> InUse(m, x))
    BY <1>2, <2>1 DEF InUse
  <2>3. InUse(n, b) <=> ~last
    BY <1>1, <1>2, <1>6, <2>1 DEF InUse
  <2>4. SlabOK(n)
    <3>1. \A x \in Blocks : IsPooled(n, x) => x \in n.heap
      BY <2>1, <2>2, <1>1 DEF SlabOK, InUse
    <3> QED BY <1>4, <2>1, <3>1 DEF SlabOK
  <2>5. SameBut(m, n, b) /\ n.refcount[b] = m.refcount[b] - 1
    BY <2>2, <1>1, <1>2 DEF SameBut, SlabStates
  <2>6. Covers(n, Dec(u, b))
    BY <2>2, <2>3, <2>5, <1>1 DEF Covers, SameBut, Dec
  <2> QED BY <2>3, <2>4, <2>5, <2>6, <1>2
<1> QED BY <1>5, <1>6

(* mb->nbytes += n moves no reference. *)
LEMMA ConsumeLemma ==
  ASSUME NEW m, NEW u \in [Blocks -> Nat], SlabOK(m), Covers(m, u),
         NEW b \in Blocks, NEW k \in Nat
  PROVE  LET n == Consume(m, b, k)
         IN /\ SlabOK(n) /\ Covers(n, u) /\ SameBut(m, n, b)
            /\ n.refcount = m.refcount /\ n.class = m.class
            /\ n.nbytes[b] = m.nbytes[b] + k
            /\ InUse(n, b) <=> InUse(m, b)
<1> DEFINE n == Consume(m, b, k)
<1>1. m \in SlabStates
  BY DEF SlabOK
<1>2. /\ n.heap = m.heap /\ n.pool = m.pool /\ n.class = m.class /\ n.refcount = m.refcount
      /\ n.nbytes = [m.nbytes EXCEPT ![b] = @ + k]
      /\ n \in SlabStates
  <2>1. [m.nbytes EXCEPT ![b] = @ + k] \in [Blocks -> Nat]
    BY <1>1, SlabTypes
  <2> QED BY <1>1, <2>1 DEF Consume, SlabStates
<1>3. \A x \in Blocks : (InUse(n, x) <=> InUse(m, x)) /\ (IsPooled(n, x) <=> IsPooled(m, x))
  BY <1>2 DEF InUse, IsPooled
<1>4. SlabOK(n)
  BY <1>2, <1>3 DEF SlabOK
<1>5. Covers(n, u)
  BY <1>2, <1>3 DEF Covers
<1>6. SameBut(m, n, b) /\ n.nbytes[b] = m.nbytes[b] + k
  BY <1>1, <1>2, <1>3 DEF SameBut, SlabStates
<1> QED BY <1>2, <1>3, <1>4, <1>5, <1>6

-----------------------------------------------------------------------------
(* Counting owners. *)
SliceRec == [mb : Blocks \cup {NULL}, off : Nat, until : Nat]
MsTypes == [Slices -> SliceRec]
On(f, b) == {s \in Slices : f[s].mb = b}
UsersOf(f, st) ==
  [b \in Blocks |-> Cardinality(On(f, b)) + (IF st = b THEN 1 ELSE 0)]

(* Finitely many userdata lie on a block, and their number is a natural. *)
LEMMA OnFinite == ASSUME NEW f, NEW b
                  PROVE  IsFiniteSet(On(f, b)) /\ Cardinality(On(f, b)) \in Nat
<1>1. On(f, b) \subseteq Slices
  BY DEF On
<1>2. IsFiniteSet(On(f, b))
  BY <1>1, InputAssumption, FS_Subset
<1> QED BY <1>2, FS_CardinalityType

(* Every block has a natural number of owners. *)
LEMMA UsersType == ASSUME NEW f, NEW st PROVE UsersOf(f, st) \in [Blocks -> Nat]
<1> SUFFICES ASSUME NEW b \in Blocks
             PROVE  Cardinality(On(f, b)) + (IF st = b THEN 1 ELSE 0) \in Nat
  BY DEF UsersOf
<1>1. Cardinality(On(f, b)) \in Nat
  BY OnFinite
<1> QED BY <1>1

(* f and g differ at most in the slice of s. *)
SameElse(f, g, s) == \A x \in Slices \ {s} : g[x] = f[x]

(* A userdata that takes block b adds one owner of b and no other. *)
LEMMA AddUser ==
  ASSUME NEW f \in MsTypes, NEW g \in MsTypes, NEW st, NEW s \in Slices, SameElse(f, g, s),
         NEW b \in Blocks, f[s].mb = NULL, g[s].mb = b
  PROVE  UsersOf(g, st) = Inc(UsersOf(f, st), b)
<1>2. On(g, b) = On(f, b) \cup {s} /\ s \notin On(f, b)
  BY InputAssumption DEF On, SameElse
<1>3. Cardinality(On(g, b)) = Cardinality(On(f, b)) + 1
  BY <1>2, OnFinite, FS_AddElement
<1>4. \A x \in Blocks \ {b} : On(g, x) = On(f, x)
  BY InputAssumption DEF On, SameElse
<1>5. \A x \in Blocks : Cardinality(On(f, x)) \in Nat
  BY OnFinite
<1>6. \A x \in Blocks : UsersOf(g, st)[x] = Inc(UsersOf(f, st), b)[x]
  <2> SUFFICES ASSUME NEW x \in Blocks
               PROVE  UsersOf(g, st)[x] = Inc(UsersOf(f, st), b)[x]
    OBVIOUS
  <2>1. CASE x = b
    BY <2>1, <1>3, <1>5 DEF UsersOf, Inc
  <2>2. CASE x # b
    BY <2>2, <1>4 DEF UsersOf, Inc
  <2> QED BY <2>1, <2>2
<1>7. UsersOf(g, st) \in [Blocks -> Nat] /\ UsersOf(f, st) \in [Blocks -> Nat]
  BY UsersType
<1> QED BY <1>6, <1>7 DEF Inc

(* Taking an owner and giving it back again changes no count. *)
LEMMA PlusMinus ==
  ASSUME NEW u \in [Blocks -> Nat], NEW b \in Blocks, NEW v, v = Inc(u, b)
  PROVE  v \in [Blocks -> Nat] /\ v[b] > 0 /\ u = Dec(v, b)
<1>1. v \in [Blocks -> Nat] /\ v[b] = u[b] + 1 /\ \A x \in Blocks \ {b} : v[x] = u[x]
  BY DEF Inc
<1>2. Dec(v, b) \in [Blocks -> Int] /\ \A x \in Blocks : Dec(v, b)[x] = u[x]
  BY <1>1 DEF Dec
<1>3. u = Dec(v, b)
  BY <1>2
<1> QED BY <1>1, <1>3

(* An owner that moves from b to x. *)
LEMMA MoveUser ==
  ASSUME NEW u \in [Blocks -> Nat], NEW b \in Blocks, NEW x \in Blocks, x # b, u[b] > 0
  PROVE  Dec(Inc(u, x), b) = Inc(Dec(u, b), x) /\ Inc(Dec(u, b), x) \in [Blocks -> Nat]
<1>1. /\ Inc(u, x) \in [Blocks -> Nat] /\ Inc(u, x)[x] = u[x] + 1
      /\ \A y \in Blocks \ {x} : Inc(u, x)[y] = u[y]
  BY DEF Inc
<1>2. /\ Dec(u, b) \in [Blocks -> Nat] /\ Dec(u, b)[b] = u[b] - 1
      /\ \A y \in Blocks \ {b} : Dec(u, b)[y] = u[y]
  BY DEF Dec
<1>3. Dec(Inc(u, x), b) \in [Blocks -> Int] /\ Inc(Dec(u, b), x) \in [Blocks -> Nat]
  BY <1>1, <1>2 DEF Inc, Dec
<1>4. \A y \in Blocks : Dec(Inc(u, x), b)[y] = Inc(Dec(u, b), x)[y]
  <2>1. \A y \in Blocks : Dec(Inc(u, x), b)[y] = IF y = b THEN Inc(u, x)[y] - 1 ELSE Inc(u, x)[y]
    BY <1>1 DEF Dec
  <2>2. \A y \in Blocks : Inc(Dec(u, b), x)[y] = IF y = x THEN Dec(u, b)[y] + 1 ELSE Dec(u, b)[y]
    BY <1>2 DEF Inc
  <2> QED BY <2>1, <2>2, <1>1, <1>2
<1> QED BY <1>3, <1>4

(* A userdata that is finalised takes one owner away from its block. *)
LEMMA DropUser ==
  ASSUME NEW f \in MsTypes, NEW g \in MsTypes, NEW st, NEW s \in Slices, SameElse(f, g, s),
         NEW b \in Blocks, f[s].mb = b, g[s].mb = NULL
  PROVE  UsersOf(f, st)[b] > 0 /\ UsersOf(g, st) = Dec(UsersOf(f, st), b)
<1>1. SameElse(g, f, s)
  BY DEF SameElse
<1>2. UsersOf(f, st) = Inc(UsersOf(g, st), b)
  BY <1>1, AddUser
<1>3. UsersOf(g, st) \in [Blocks -> Nat]
  BY UsersType
<1> QED BY <1>2, <1>3, PlusMinus

(* A userdata that keeps its block keeps the count. *)
LEMMA KeepUser ==
  ASSUME NEW f \in MsTypes, NEW g \in MsTypes, NEW st, NEW s \in Slices, SameElse(f, g, s),
         g[s].mb = f[s].mb
  PROVE  UsersOf(g, st) = UsersOf(f, st)
<1>1. \A x \in Blocks : On(g, x) = On(f, x)
  BY DEF On, SameElse
<1> QED BY <1>1 DEF UsersOf

(* The static pointer is an owner like any other. *)
LEMMA StaticUser ==
  ASSUME NEW f, NEW b \in Blocks
  PROVE  UsersOf(f, b) = Inc(UsersOf(f, NULL), b)
<1>1. \A x \in Blocks : Cardinality(On(f, x)) \in Nat /\ x # NULL
  BY OnFinite, InputAssumption
<1>2. \A x \in Blocks : UsersOf(f, b)[x] = Inc(UsersOf(f, NULL), b)[x]
  <2> SUFFICES ASSUME NEW x \in Blocks
               PROVE  UsersOf(f, b)[x] = Inc(UsersOf(f, NULL), b)[x]
    OBVIOUS
  <2>1. CASE x = b
    BY <2>1, <1>1 DEF UsersOf, Inc
  <2>2. CASE x # b
    BY <2>2, <1>1 DEF UsersOf, Inc
  <2> QED BY <2>1, <2>2
<1>3. UsersOf(f, b) \in [Blocks -> Nat] /\ UsersOf(f, NULL) \in [Blocks -> Nat]
  BY UsersType
<1> QED BY <1>2, <1>3 DEF Inc

-----------------------------------------------------------------------------
(***************************************************************************)
(* The inductive invariant.  Covers says that refcounts account for the    *)
(* owners; ReadOK says that the block being read into belongs to nobody    *)
(* else and is still untouched.                                            *)
(***************************************************************************)
ReadOK(m, u, rd) ==
  rd # NULL => /\ rd \in Blocks /\ InUse(m, rd) /\ u[rd] = 0
               /\ size(m, rd) = ReadSize /\ m.nbytes[rd] = 0

IInv ==
  /\ TypeOK
  /\ SlabOK(mem)
  /\ Covers(mem, UsersOf(ms, newStatic))
  /\ ReadOK(mem, UsersOf(ms, newStatic), readStatic)

(* A step confined to block b leaves the read block alone. *)
LEMMA ReadKept ==
  ASSUME NEW m, NEW n, NEW u, NEW v, NEW rd, NEW b, ReadOK(m, u, rd), SameBut(m, n, b),
         rd # NULL => rd # b /\ v[rd] = u[rd]
  PROVE  ReadOK(n, v, rd)
  BY DEF ReadOK, SameBut, size

(* CarveFrom on a block that st or nobody owns so far. *)
LEMMA CarveLemma ==
  ASSUME NEW m, SlabOK(m), NEW b \in Blocks, InUse(m, b),
         NEW f \in MsTypes, NEW g \in MsTypes, NEW s \in Slices, SameElse(f, g, s),
         f[s].mb = NULL, g[s].mb = b,
         NEW st, Covers(m, UsersOf(f, st)),
         st = b \/ (st = NULL /\ m.refcount[b] = 0),
         NEW whole \in BOOLEAN, NEW n \in Nat
  PROVE  LET held == IF ~whole /\ m.refcount[b] = 0 THEN lev_slab_incRef(m, b) ELSE m
             m2   == Consume(lev_slab_incRef(held, b), b, n)
             v    == UsersOf(g, IF whole THEN NULL ELSE b)
         IN /\ SlabOK(m2) /\ Covers(m2, v) /\ SameBut(m, m2, b)
            /\ \A x \in Blocks \ {b} : v[x] = UsersOf(f, st)[x]
<1> DEFINE held == IF ~whole /\ m.refcount[b] = 0 THEN lev_slab_incRef(m, b) ELSE m
           m1   == lev_slab_incRef(held, b)
           m2   == Consume(m1, b, n)
           u    == UsersOf(f, st)
           v    == UsersOf(g, IF whole THEN NULL ELSE b)
           w    == IF ~whole /\ m.refcount[b] = 0 THEN Inc(u, b) ELSE u
<1>1. u \in [Blocks -> Nat] /\ v \in [Blocks -> Nat] /\ Inc(u, b) \in [Blocks -> Nat]
      /\ w \in [Blocks -> Nat] /\ Inc(w, b) \in [Blocks -> Nat] /\ b # NULL
  BY UsersType, InputAssumption DEF Inc
<1>2. SlabOK(held) /\ Covers(held, w) /\ SameBut(m, held, b) /\ InUse(held, b)
  <2>1. CASE ~whole /\ m.refcount[b] = 0
    BY <2>1, <1>1, IncRefLemma
  <2>2. CASE ~(~whole /\ m.refcount[b] = 0)
    BY <2>2 DEF SameBut
  <2> QED BY <2>1, <2>2
<1>3. SlabOK(m1) /\ Covers(m1, Inc(w, b)) /\ SameBut(held, m1, b) /\ InUse(m1, b)
  <2> HIDE DEF held, w
  <2> QED BY <1>1, <1>2, IncRefLemma
<1>4. SlabOK(m2) /\ Covers(m2, Inc(w, b)) /\ SameBut(m1, m2, b)
  <2> HIDE DEF held, w, m1
  <2> QED BY <1>1, <1>3, ConsumeLemma
<1>5. SameBut(m, m2, b)
  <2> HIDE DEF held, m1, m2
  <2> QED BY <1>2, <1>3, <1>4 DEF SameBut
<1>6. \A x \in Blocks : v[x] <= Inc(w, b)[x] /\ (x # b => v[x] = u[x])
  <2>1. UsersOf(g, NULL) = Inc(UsersOf(f, NULL), b) /\ UsersOf(g, b) = Inc(UsersOf(f, b), b)
    BY AddUser
  <2>2. UsersOf(g, b) = Inc(UsersOf(g, NULL), b) /\ UsersOf(f, b) = Inc(UsersOf(f, NULL), b)
    BY StaticUser
  <2>3. UsersOf(f, NULL) \in [Blocks -> Nat]
    BY UsersType
  <2>4. CASE st = b
    <3>1. m.refcount[b] # 0
      <4>1. u[b] > 0
        BY <2>2, <2>3, <2>4 DEF Inc
      <4> QED BY <4>1, <1>1 DEF Covers
    <3>2. w = u
      BY <3>1
    <3> QED BY <3>2, <2>1, <2>2, <2>3, <2>4 DEF Inc
  <2>5. CASE st = NULL /\ m.refcount[b] = 0
    BY <2>5, <2>1, <2>2, <2>3 DEF Inc
  <2> QED BY <2>4, <2>5
<1>7. Covers(m2, v)
  <2> HIDE DEF m2, v, w, u
  <2>1. m2.refcount \in [Blocks -> Int]
    BY <1>4, SlabTypes DEF SlabOK
  <2> QED BY <2>1, <1>1, <1>4, <1>6 DEF Covers
<1> QED BY <1>4, <1>5, <1>6, <1>7

(* What TypeOK says of the userdata. *)
LEMMA TypeFacts ==
  ASSUME TypeOK
  PROVE  /\ ms \in MsTypes /\ mem \in SlabStates
         /\ newStatic \in Blocks \cup {NULL} /\ readStatic \in Blocks \cup {NULL}
  BY DEF TypeOK, MsTypes, SliceRec

(* A block is as large as its class: positive, and below the word size. *)
LEMMA SizeType ==
  ASSUME NEW m \in SlabStates, NEW b \in Blocks
  PROVE  size(m, b) \in Nat /\ size(m, b) > 0 /\ size(m, b) < Word
<1>1. m.class[b] \in Classes
  BY SlabTypes
<1>2. \A c \in Classes : ClassSize[c] \in Nat /\ ClassSize[c] > 0 /\ ClassSize[c] < Word
  BY SlabAssumption, InputAssumption DEF Classes
<1> QED BY <1>1, <1>2 DEF size

(* The length lev_pushbuffer_from_mb records is a natural, for 0 as well. *)
LEMMA UntilType ==
  ASSUME NEW m \in SlabStates, NEW b \in Blocks, NEW n \in Nat
  PROVE  UntilOf(m, b, n) \in Nat
<1>1. m.nbytes[b] \in Nat
  BY SlabTypes
<1> QED BY <1>1, SizeType DEF UntilOf

(* A userdata carved out of a block keeps the invariant. *)
LEMMA CarveStep ==
  ASSUME TypeOK, NEW s \in Slices, NEW n \in Nat, Free(s),
         NEW STATE m, NEW STATE b, b \in Blocks, SlabOK(m), InUse(m, b),
         NEW STATE st, Covers(m, UsersOf(ms, st)),
         st = b \/ (st = NULL /\ m.refcount[b] = 0),
         ReadOK(m, UsersOf(ms, st), readStatic), readStatic # b,
         CarveFrom(s, n, m, b), UNCHANGED readStatic
  PROVE  IInv'
<1> DEFINE r == [mb |-> b, off |-> m.nbytes[b], until |-> UntilOf(m, b, n)]
           whole == n = size(m, b)
           held == IF ~whole /\ m.refcount[b] = 0 THEN lev_slab_incRef(m, b) ELSE m
<1>1. m \in SlabStates /\ m.nbytes[b] \in Nat /\ UntilOf(m, b, n) \in Nat
  BY SlabTypes, UntilType DEF SlabOK
<1>2. r \in SliceRec /\ r.mb = b
  BY <1>1 DEF SliceRec
<1>3. /\ newStatic' = (IF whole THEN NULL ELSE b)
      /\ ms' = [ms EXCEPT ![s] = r]
      /\ mem' = Consume(lev_slab_incRef(held, b), b, n)
  BY DEF CarveFrom, lev_pushbuffer_from_mb
<1>4. ms \in MsTypes /\ readStatic \in Blocks \cup {NULL}
  BY TypeFacts
<1>5. ms' \in MsTypes /\ SameElse(ms, ms', s) /\ ms'[s].mb = b
  <2> HIDE DEF r
  <2> QED BY <1>2, <1>3, <1>4 DEF MsTypes, SameElse
<1>6. /\ SlabOK(mem') /\ Covers(mem', UsersOf(ms', newStatic')) /\ SameBut(m, mem', b)
      /\ \A x \in Blocks \ {b} : UsersOf(ms', newStatic')[x] = UsersOf(ms, st)[x]
  <2>1. whole \in BOOLEAN
    OBVIOUS
  <2>2. ms[s].mb = NULL
    BY DEF Free
  <2> HIDE DEF whole
  <2> DEFINE m2 == Consume(lev_slab_incRef(held, b), b, n)
             w  == UsersOf(ms', IF whole THEN NULL ELSE b)
  <2>3. /\ SlabOK(m2) /\ Covers(m2, w) /\ SameBut(m, m2, b)
        /\ \A x \in Blocks \ {b} : w[x] = UsersOf(ms, st)[x]
    BY <1>4, <1>5, <2>1, <2>2, CarveLemma
  <2> QED BY <1>3, <2>3
<1>7. ReadOK(mem', UsersOf(ms', newStatic'), readStatic)
  BY <1>4, <1>6, ReadKept DEF ReadOK
<1>8. TypeOK'
  BY <1>3, <1>4, <1>5, <1>6 DEF TypeOK, MsTypes, SliceRec, SlabOK
<1> QED BY <1>6, <1>7, <1>8 DEF IInv

(* Buffer:new and the copying concat. *)
LEMMA BufferNewStep ==
  ASSUME IInv, NEW s \in Slices, NEW n \in Nat, lev_buffer_new(s, n)
  PROVE  IInv'
<1> DEFINE u == UsersOf(ms, newStatic)
<1>1. /\ TypeOK /\ SlabOK(mem) /\ Covers(mem, u) /\ ReadOK(mem, u, readStatic)
      /\ ms \in MsTypes /\ newStatic \in Blocks \cup {NULL} /\ u \in [Blocks -> Nat]
      /\ NULL \notin Blocks
  BY TypeFacts, UsersType, InputAssumption DEF IInv
<1>2. Free(s) /\ UNCHANGED readStatic
  BY DEF lev_buffer_new
<1>3. newStatic # NULL => /\ u = Inc(UsersOf(ms, NULL), newStatic) /\ u[newStatic] > 0
                          /\ InUse(mem, newStatic) /\ readStatic # newStatic
  <2> SUFFICES ASSUME newStatic # NULL
               PROVE  /\ u = Inc(UsersOf(ms, NULL), newStatic) /\ u[newStatic] > 0
                      /\ InUse(mem, newStatic) /\ readStatic # newStatic
    OBVIOUS
  <2>1. newStatic \in Blocks /\ u = Inc(UsersOf(ms, NULL), newStatic)
    BY <1>1, StaticUser
  <2>2. u[newStatic] > 0
    BY <2>1, UsersType, PlusMinus
  <2> QED BY <2>1, <2>2, <1>1 DEF Covers, ReadOK
<1>4. CASE ~NeedsBlock(n) /\ CarveFrom(s, n, mem, newStatic)
  <2>1. newStatic # NULL
    BY <1>4 DEF NeedsBlock
  <2> QED BY <2>1, <1>1, <1>2, <1>3, <1>4, CarveStep
<1>5. ASSUME NeedsBlock(n), NEW c \in ClassesFor(n), NEW b \in Available(Retired(n), c),
             CarveFrom(s, n, lev_slab_getBlock(Retired(n), c, b), b)
      PROVE  IInv'
  <2> DEFINE m == Retired(n)
             v == UsersOf(ms, NULL)
             k == lev_slab_getBlock(m, c, b)
  <2>1. SlabOK(m) /\ Covers(m, v) /\ ReadOK(m, v, readStatic) /\ v \in [Blocks -> Nat]
    <3>1. CASE newStatic = NULL
      BY <3>1, <1>1 DEF Retired
    <3>2. CASE newStatic # NULL
      <4>1. m = lev_slab_decRef(mem, newStatic)
        BY <3>2, <1>5 DEF NeedsBlock, Retired
      <4>2. v = Dec(u, newStatic) /\ v \in [Blocks -> Nat]
        BY <3>2, <1>1, <1>3, UsersType, PlusMinus
      <4>3. SlabOK(m) /\ Covers(m, v) /\ SameBut(mem, m, newStatic)
        BY <3>2, <4>1, <4>2, <1>1, <1>3, DecRefLemma
      <4>4. readStatic # NULL => v[readStatic] = u[readStatic]
        BY <3>2, <4>2, <1>1, <1>3 DEF Dec, ReadOK
      <4>5. ReadOK(m, v, readStatic)
        BY <4>3, <4>4, <1>1, <1>3, <3>2, ReadKept
      <4> QED BY <4>2, <4>3, <4>5
    <3> QED BY <3>1, <3>2
  <2>2. c \in Classes
    BY DEF ClassesFor
  <2>3. /\ SlabOK(k) /\ Covers(k, v) /\ SameBut(m, k, b) /\ b \in Blocks /\ ~InUse(m, b)
        /\ InUse(k, b) /\ k.refcount[b] = 0
    <3>1. b \in Available(m, c)
      OBVIOUS
    <3> HIDE DEF m, v
    <3> QED BY <3>1, <2>1, <2>2, GetBlockLemma
  <2>4. readStatic # b /\ ReadOK(k, v, readStatic)
    <3> HIDE DEF m, k, v
    <3>1. readStatic # b
      BY <2>1, <2>3, <1>1 DEF ReadOK
    <3> QED BY <3>1, <2>1, <2>3, ReadKept
  <2> HIDE DEF k
  <2> QED BY <1>1, <1>2, <1>5, <2>3, <2>4, CarveStep DEF k
<1> QED BY <1>4, <1>5 DEF lev_buffer_new

(* A live userdata counts as an owner, so its block is in use. *)
LEMMA LiveFacts ==
  ASSUME IInv, NEW p \in Slices, Live(p)
  PROVE  /\ ms[p].mb \in Blocks /\ ms[p].off \in Nat /\ ms[p].until \in Nat
         /\ ms[p] \in SliceRec
         /\ UsersOf(ms, newStatic)[ms[p].mb] > 0
         /\ InUse(mem, ms[p].mb) /\ readStatic # ms[p].mb
<1> DEFINE g == [ms EXCEPT ![p] = NoSlice]
<1>1. ms \in MsTypes /\ Covers(mem, UsersOf(ms, newStatic))
      /\ ReadOK(mem, UsersOf(ms, newStatic), readStatic)
  BY TypeFacts DEF IInv
<1>2. ms[p].mb \in Blocks /\ ms[p].off \in Nat /\ ms[p].until \in Nat /\ ms[p] \in SliceRec
  BY <1>1 DEF MsTypes, SliceRec, Live
<1>3. g \in MsTypes /\ SameElse(ms, g, p) /\ g[p].mb = NULL
  BY <1>1 DEF MsTypes, SliceRec, NoSlice, SameElse
<1>4. UsersOf(ms, newStatic)[ms[p].mb] > 0
  <2> HIDE DEF g
  <2> QED BY <1>1, <1>2, <1>3, DropUser
<1> QED BY <1>1, <1>2, <1>4, InputAssumption DEF Covers, ReadOK

(* Creating a cBuffer on a block b that is in use. *)
LEMMA ShareStep0 ==
  ASSUME TypeOK, NEW s \in Slices, Free(s),
         NEW STATE m, NEW STATE b, b \in Blocks, SlabOK(m), InUse(m, b),
         Covers(m, UsersOf(ms, newStatic)),
         NEW STATE rd, rd \in Blocks \cup {NULL}, rd # b,
         ReadOK(m, UsersOf(ms, newStatic), rd),
         ms' \in MsTypes, SameElse(ms, ms', s), ms'[s].mb = b, NEW STATE k, k \in Nat,
         \/ mem' = lev_slab_incRef(m, b)
         \/ mem' = Consume(lev_slab_incRef(m, b), b, k),
         newStatic' = newStatic, readStatic' = rd
  PROVE  IInv'
<1> DEFINE u == UsersOf(ms, newStatic)
           m1 == lev_slab_incRef(m, b)
<1>1. ms \in MsTypes /\ newStatic \in Blocks \cup {NULL} /\ u \in [Blocks -> Nat]
  BY TypeFacts, UsersType
<1>3. UsersOf(ms', newStatic') = Inc(u, b) /\ Inc(u, b) \in [Blocks -> Nat]
  <2>1. UsersOf(ms', newStatic) = Inc(UsersOf(ms, newStatic), b)
    BY <1>1, AddUser DEF Free
  <2> HIDE DEF u
  <2>2. UsersOf(ms', newStatic') = Inc(u, b)
    BY <2>1 DEF u
  <2> QED BY <1>1, <2>2, PlusMinus
<1>4. SlabOK(m1) /\ Covers(m1, Inc(u, b)) /\ SameBut(m, m1, b)
  <2> HIDE DEF u
  <2> QED BY <1>1, IncRefLemma DEF u
<1>5. SlabOK(mem') /\ Covers(mem', Inc(u, b)) /\ SameBut(m, mem', b)
  <2>1. CASE mem' = m1
    BY <2>1, <1>4
  <2>2. CASE mem' = Consume(m1, b, k)
    <3> HIDE DEF u, m1
    <3>1. SlabOK(mem') /\ Covers(mem', Inc(u, b)) /\ SameBut(m1, mem', b)
      BY <2>2, <1>3, <1>4, ConsumeLemma
    <3> QED BY <3>1, <1>4 DEF SameBut
  <2> QED BY <2>1, <2>2
<1>6. ReadOK(mem', Inc(u, b), readStatic')
  <2>1. rd # NULL => Inc(u, b)[rd] = u[rd]
    BY <1>1 DEF Inc
  <2> QED BY <2>1, <1>5, ReadKept
<1>7. TypeOK'
  BY <1>1, <1>5 DEF TypeOK, MsTypes, SliceRec, SlabOK
<1> QED BY <1>3, <1>5, <1>6, <1>7 DEF IInv

(* lev_pushbuffer_from_mb on a block in use, after its caller took a reference. *)
LEMMA ShareStep ==
  ASSUME TypeOK, NEW s \in Slices, Free(s),
         NEW STATE m, NEW STATE b, b \in Blocks, SlabOK(m), InUse(m, b),
         Covers(m, UsersOf(ms, newStatic)),
         NEW STATE rd, rd \in Blocks \cup {NULL}, rd # b,
         ReadOK(m, UsersOf(ms, newStatic), rd),
         NEW STATE r, r \in SliceRec, r.mb = b, NEW STATE k, k \in Nat,
         \/ mem' = lev_slab_incRef(m, b)
         \/ mem' = Consume(lev_slab_incRef(m, b), b, k),
         ms' = [ms EXCEPT ![s] = r], newStatic' = newStatic, readStatic' = rd
  PROVE  IInv'
<1>1. ms \in MsTypes
  BY TypeFacts
<1>2. ms' \in MsTypes /\ SameElse(ms, ms', s) /\ ms'[s].mb = b
  BY <1>1 DEF MsTypes, SameElse
<1> QED BY <1>2, ShareStep0

(* Buffer:slice takes a reference for the userdata it makes. *)
LEMMA SliceStep ==
  ASSUME IInv, NEW s \in Slices, NEW p \in Slices, NEW i \in Nat, NEW n \in Nat,
         buffer_slice(s, p, i, n)
  PROVE  IInv'
<1> DEFINE r == [mb |-> ms[p].mb, off |-> ms[p].off + i - 1, until |-> n]
<1>1. /\ Free(s) /\ Live(p) /\ i >= 1
      /\ mem' = lev_slab_incRef(mem, ms[p].mb) /\ ms' = [ms EXCEPT ![s] = r]
      /\ newStatic' = newStatic /\ readStatic' = readStatic
  BY DEF buffer_slice
<1>2. /\ ms[p].mb \in Blocks /\ ms[p].off \in Nat /\ InUse(mem, ms[p].mb)
      /\ readStatic # ms[p].mb
  BY <1>1, LiveFacts
<1>3. r \in SliceRec /\ r.mb = ms[p].mb
  BY <1>1, <1>2 DEF SliceRec
<1> HIDE DEF r
<1> QED BY <1>1, <1>2, <1>3, ShareStep, TypeFacts DEF IInv

(* __gc: the userdata's reference is the one given back. *)
LEMMA GcStep ==
  ASSUME IInv, NEW s \in Slices, buffer__gc(s)
  PROVE  IInv'
<1> DEFINE u == UsersOf(ms, newStatic)
           b == ms[s].mb
<1>1. /\ Live(s) /\ mem' = lev_slab_decRef(mem, b) /\ ms' = [ms EXCEPT ![s] = NoSlice]
      /\ newStatic' = newStatic /\ readStatic' = readStatic
  BY DEF buffer__gc
<1>2. b \in Blocks /\ u[b] > 0 /\ readStatic # b
  BY <1>1, LiveFacts
<1>3. /\ TypeOK /\ SlabOK(mem) /\ Covers(mem, u) /\ ReadOK(mem, u, readStatic)
      /\ ms \in MsTypes /\ u \in [Blocks -> Nat]
  BY TypeFacts, UsersType DEF IInv
<1>4. ms' \in MsTypes /\ SameElse(ms, ms', s) /\ ms'[s].mb = NULL
  BY <1>1, <1>3 DEF MsTypes, SliceRec, NoSlice, SameElse
<1>5. UsersOf(ms', newStatic') = Dec(u, b)
  <2> HIDE DEF b
  <2>1. ms[s].mb = b
    BY DEF b
  <2>2. UsersOf(ms', newStatic) = Dec(UsersOf(ms, newStatic), b)
    BY <1>2, <1>3, <1>4, <2>1, DropUser
  <2> QED BY <2>2, <1>1
<1>6. SlabOK(mem') /\ Covers(mem', Dec(u, b)) /\ SameBut(mem, mem', b)
  <2> HIDE DEF b, u
  <2> QED BY <1>1, <1>2, <1>3, DecRefLemma
<1>7. ReadOK(mem', Dec(u, b), readStatic')
  <2>1. readStatic # NULL => Dec(u, b)[readStatic] = u[readStatic]
    <3> HIDE DEF b, u
    <3> QED BY <1>2, <1>3 DEF Dec, ReadOK
  <2> QED BY <2>1, <1>1, <1>2, <1>3, <1>6, ReadKept
<1>8. TypeOK'
  BY <1>1, <1>3, <1>4, <1>6 DEF TypeOK, MsTypes, SliceRec, SlabOK
<1> QED BY <1>5, <1>6, <1>7, <1>8 DEF IInv

(* The copying half of buffer__concat. *)
LEMMA CopyStep ==
  ASSUME IInv, NEW s \in Slices, NEW p \in Slices, NEW STATE n, n \in Nat,
         Free(s), Live(p), ConcatCopy(s, p, n)
  PROVE  IInv'
<1> DEFINE b == ms[p].mb
           r == [mb |-> b, off |-> ms[p].off, until |-> UntilOf(mem, b, ms[p].until + n)]
<1>1. /\ b \in Blocks /\ ms[p].off \in Nat /\ ms[p].until \in Nat /\ InUse(mem, b)
      /\ readStatic # b
  BY LiveFacts
<1>2. CASE lev_buffer_new(s, ms[p].until + n)
  BY <1>1, <1>2, BufferNewStep
<1>3. CASE /\ mem' = Consume(lev_slab_incRef(mem, b), b, n)
           /\ lev_pushbuffer_from_mb(mem, s, b, ms[p].off, ms[p].until + n)
           /\ UNCHANGED <<newStatic, readStatic>>
  <2>1. r \in SliceRec /\ r.mb = b
    BY <1>1, UntilType, TypeFacts DEF IInv, SliceRec
  <2>2. ms' = [ms EXCEPT ![s] = r]
    BY <1>3 DEF lev_pushbuffer_from_mb
  <2> HIDE DEF r, b
  <2> QED BY <1>1, <1>3, <2>1, <2>2, ShareStep, TypeFacts DEF IInv
<1> QED BY <1>2, <1>3 DEF ConcatCopy

(* Both halves of buffer__concat: the union of neighbours and the copy. *)
LEMMA ConcatStep ==
  ASSUME IInv, NEW s \in Slices, NEW p \in Slices, NEW q \in Slices, buffer__concat(s, p, q)
  PROVE  IInv'
<1>1. Free(s) /\ Live(p) /\ Live(q)
  BY DEF buffer__concat
<1>2. /\ ms[p].mb \in Blocks /\ ms[p].off \in Nat /\ ms[p].until \in Nat
      /\ InUse(mem, ms[p].mb) /\ readStatic # ms[p].mb
      /\ ms[q].off \in Nat /\ ms[q].until \in Nat
  BY <1>1, LiveFacts
<1>3. CASE ConcatCopy(s, p, ms[q].until)
  BY <1>1, <1>2, <1>3, CopyStep
<1>4. CASE ConcatUnion(s, p, q)
  <2> DEFINE b == ms[p].mb
             o == IF ms[p].off > ms[q].off THEN ms[q].off ELSE ms[p].off
             r == [mb |-> b, off |-> o, until |-> UntilOf(mem, b, ms[p].until + ms[q].until)]
  <2>1. r \in SliceRec /\ r.mb = b
    BY <1>2, UntilType, TypeFacts DEF IInv, SliceRec
  <2>2. /\ ms' = [ms EXCEPT ![s] = r] /\ mem' = lev_slab_incRef(mem, b)
        /\ newStatic' = newStatic /\ readStatic' = readStatic
    BY <1>4 DEF ConcatUnion, lev_pushbuffer_from_mb
  <2> HIDE DEF r, b
  <2> QED BY <1>1, <1>2, <2>1, <2>2, ShareStep, TypeFacts DEF IInv, b
<1> QED BY <1>3, <1>4 DEF buffer__concat

(* An unpacked raw shares the block of its message. *)
LEMMA RawStep ==
  ASSUME IInv, NEW s \in Slices, NEW p \in Slices, NEW o \in Nat, NEW n \in RawLens,
         mprbuf_unpack_raw(s, p, o, n)
  PROVE  IInv'
<1> DEFINE r == [mb |-> ms[p].mb, off |-> ms[p].off + o, until |-> UntilOf(mem, ms[p].mb, n)]
<1>1. /\ Free(s) /\ Live(p) /\ n \in Nat
      /\ mem' = lev_slab_incRef(mem, ms[p].mb) /\ ms' = [ms EXCEPT ![s] = r]
      /\ newStatic' = newStatic /\ readStatic' = readStatic
  BY InputAssumption DEF mprbuf_unpack_raw, lev_pushbuffer_from_mb
<1>2. /\ ms[p].mb \in Blocks /\ ms[p].off \in Nat /\ InUse(mem, ms[p].mb)
      /\ readStatic # ms[p].mb
  BY <1>1, LiveFacts
<1>3. r \in SliceRec /\ r.mb = ms[p].mb
  BY <1>1, <1>2, UntilType, TypeFacts DEF IInv, SliceRec
<1> HIDE DEF r
<1> QED BY <1>1, <1>2, <1>3, ShareStep, TypeFacts DEF IInv

(* msgpack_pack_api: the packed bytes get a block of their own. *)
LEMMA PackStep ==
  ASSUME IInv, NEW s \in Slices, msgpack_pack_api(s)
  PROVE  IInv'
<1> DEFINE u == UsersOf(ms, newStatic)
<1>1. PICK n \in PackSizes : \E c \in ClassesFor(n) : \E b \in Available(mem, c) :
        LET m == lev_slab_getBlock(mem, c, b)
        IN mem' = lev_slab_incRef(m, b) /\ lev_pushbuffer_from_mb(m, s, b, 0, n)
  BY DEF msgpack_pack_api
<1>2a. PICK c \in ClassesFor(n) : \E b \in Available(mem, c) :
        LET m == lev_slab_getBlock(mem, c, b)
        IN mem' = lev_slab_incRef(m, b) /\ lev_pushbuffer_from_mb(m, s, b, 0, n)
  BY <1>1
<1>2. PICK b \in Available(mem, c) :
        LET m == lev_slab_getBlock(mem, c, b)
        IN mem' = lev_slab_incRef(m, b) /\ lev_pushbuffer_from_mb(m, s, b, 0, n)
  BY <1>2a
<1> DEFINE m == lev_slab_getBlock(mem, c, b)
           r == [mb |-> b, off |-> 0, until |-> UntilOf(m, b, n)]
<1>3. /\ TypeOK /\ SlabOK(mem) /\ Covers(mem, u) /\ ReadOK(mem, u, readStatic)
      /\ u \in [Blocks -> Nat] /\ readStatic \in Blocks \cup {NULL} /\ NULL \notin Blocks
      /\ n \in Nat /\ c \in Classes
  BY TypeFacts, UsersType, InputAssumption DEF IInv, ClassesFor
<1>4. /\ SlabOK(m) /\ Covers(m, u) /\ SameBut(mem, m, b) /\ b \in Blocks /\ ~InUse(mem, b)
      /\ InUse(m, b)
  <2> HIDE DEF u
  <2> QED BY <1>3, GetBlockLemma
<1> HIDE DEF m
<1>5. readStatic # b /\ ReadOK(m, u, readStatic)
  <2>1. readStatic # b
    BY <1>3, <1>4 DEF ReadOK
  <2> QED BY <2>1, <1>3, <1>4, ReadKept
<1>6. r \in SliceRec /\ r.mb = b
  BY <1>3, <1>4, UntilType DEF SliceRec, SlabOK
<1>7. /\ ms' = [ms EXCEPT ![s] = r] /\ mem' = lev_slab_incRef(m, b) /\ Free(s)
      /\ newStatic' = newStatic /\ readStatic' = readStatic
  BY <1>2 DEF m, msgpack_pack_api, lev_pushbuffer_from_mb
<1> HIDE DEF r
<1> QED BY <1>3, <1>4, <1>5, <1>6, <1>7, ShareStep

(* ClassesFor picks the class whose size is exactly STATIC_MB_SIZE. *)
LEMMA ReadClass ==
  ASSUME NEW c \in ClassesFor(ReadSize)
  PROVE  c \in Classes /\ ClassSize[c] = ReadSize
<1>1. PICK d \in Classes : ClassSize[d] = ReadSize
  BY SlabAssumption
<1>2. \A x \in Classes : x \in Nat /\ ClassSize[x] \in Nat
  BY SlabAssumption DEF Classes
<1>3. c \in Classes /\ ReadSize <= ClassSize[c] /\ (d < c => ReadSize > ClassSize[d])
  BY DEF ClassesFor
<1>4. ~(d < c) /\ ~(c < d)
  BY <1>1, <1>2, <1>3, SlabAssumption
<1> QED BY <1>1, <1>2, <1>3, <1>4

(* on_alloc takes a whole read block that nobody references yet. *)
LEMMA AllocStep ==
  ASSUME IInv, on_alloc
  PROVE  IInv'
<1> DEFINE u == UsersOf(ms, newStatic)
           short == readStatic # NULL /\ Room(mem, readStatic) < ReadSize
<1>1. /\ TypeOK /\ SlabOK(mem) /\ Covers(mem, u) /\ ReadOK(mem, u, readStatic)
      /\ u \in [Blocks -> Nat] /\ NULL \notin Blocks /\ ReadSize \in Nat
  BY TypeFacts, UsersType, InputAssumption, SlabAssumption DEF IInv
<1>2. ~short
  BY <1>1 DEF ReadOK, Room
<1>3a. PICK c \in ClassesFor(ReadSize) : \E b \in Available(mem, c) :
        mem' = lev_slab_getBlock(mem, c, b) /\ readStatic' = b
  BY <1>2 DEF on_alloc
<1>3. PICK b \in Available(mem, c) : mem' = lev_slab_getBlock(mem, c, b) /\ readStatic' = b
  BY <1>3a
<1>4. c \in Classes /\ ClassSize[c] = ReadSize
  BY ReadClass
<1>5. /\ SlabOK(mem') /\ Covers(mem', u) /\ b \in Blocks
      /\ InUse(mem', b) /\ u[b] = 0 /\ mem'.nbytes[b] = 0 /\ mem'.class[b] = c
  <2> HIDE DEF u
  <2> QED BY <1>1, <1>3, <1>4, GetBlockLemma
<1>6. ReadOK(mem', u, readStatic')
  BY <1>3, <1>4, <1>5 DEF ReadOK, size
<1>7. newStatic' = newStatic /\ ms' = ms
  BY DEF on_alloc
<1>8. TypeOK'
  BY <1>1, <1>3, <1>5, <1>7 DEF TypeOK, SlabOK
<1> QED BY <1>5, <1>6, <1>7, <1>8 DEF IInv

(* The read callback turns the read block into a cBuffer or gives it back. *)
LEMMA ReadStep ==
  ASSUME IInv, NEW s \in Slices, NEW n \in Int, lev_pushbuffer_from_static_mb(s, n)
  PROVE  IInv'
<1> DEFINE u == UsersOf(ms, newStatic)
           b == readStatic
<1>1. /\ TypeOK /\ SlabOK(mem) /\ Covers(mem, u) /\ b # NULL /\ NULL \notin Blocks
      /\ u \in [Blocks -> Nat] /\ b \in Blocks /\ InUse(mem, b) /\ u[b] = 0
      /\ ReadSize = size(mem, b) /\ mem.nbytes[b] = 0
  BY UsersType, InputAssumption DEF IInv, ReadOK, lev_pushbuffer_from_static_mb
<1>2. readStatic' = NULL /\ newStatic' = newStatic
  BY <1>1 DEF lev_pushbuffer_from_static_mb
<1>3. ReadOK(mem', u, NULL) /\ NULL # b
  BY <1>1 DEF ReadOK
<1>4. CASE /\ mem' = lev_slab_decRef(lev_slab_incRef(mem, b), b)
           /\ UNCHANGED ms
  <2> DEFINE m == lev_slab_incRef(mem, b)
  <2> HIDE DEF u, b
  <2>1. SlabOK(m) /\ Covers(m, Inc(u, b))
    BY <1>1, IncRefLemma
  <2>2. Inc(u, b) \in [Blocks -> Nat] /\ Inc(u, b)[b] > 0 /\ u = Dec(Inc(u, b), b)
    BY <1>1, PlusMinus
  <2> HIDE DEF m
  <2>3. SlabOK(mem') /\ Covers(mem', u)
    BY <1>1, <1>4, <2>1, <2>2, DecRefLemma DEF m
  <2>4. TypeOK'
    BY <1>1, <1>2, <1>4, <2>3 DEF TypeOK, SlabOK
  <2> QED BY <2>3, <2>4, <1>2, <1>3, <1>4 DEF IInv, u
<1>5. CASE /\ Free(s) /\ n \in 0 .. Room(mem, b)
           /\ mem' = Consume(lev_slab_incRef(mem, b), b, n)
           /\ lev_pushbuffer_from_mb(mem, s, b, mem.nbytes[b], n)
  <2> DEFINE r == [mb |-> b, off |-> mem.nbytes[b], until |-> UntilOf(mem, b, n)]
  <2>1. n \in Nat
    BY <1>5
  <2>2. r \in SliceRec /\ r.mb = b
    BY <1>1, <2>1, UntilType DEF SliceRec, SlabOK
  <2>3. ms' = [ms EXCEPT ![s] = r]
    BY <1>5 DEF lev_pushbuffer_from_mb
  <2>4. ReadOK(mem, u, NULL)
    BY DEF ReadOK
  <2> HIDE DEF r
  <2> QED BY <1>1, <1>2, <1>3, <1>5, <2>1, <2>2, <2>3, <2>4, ShareStep
<1> QED BY <1>1, <1>4, <1>5 DEF lev_pushbuffer_from_static_mb

(* setuid and setgid: the scratch block is given back or lost, never shared. *)
LEMMA SetuidStep ==
  ASSUME IInv, NEW o, core_setuid(o)
  PROVE  IInv'
<1> DEFINE u == UsersOf(ms, newStatic)
<1>1a. PICK c \in ClassesFor(1) : \E b \in Available(mem, c) :
        LET m == lev_slab_incRef(lev_slab_getBlock(mem, c, b), b)
        IN mem' = IF o = "found" THEN lev_slab_decRef(m, b) ELSE m
  BY DEF core_setuid
<1>1. PICK b \in Available(mem, c) :
        LET m == lev_slab_incRef(lev_slab_getBlock(mem, c, b), b)
        IN mem' = IF o = "found" THEN lev_slab_decRef(m, b) ELSE m
  BY <1>1a
<1> DEFINE k == lev_slab_getBlock(mem, c, b)
           m == lev_slab_incRef(k, b)
<1>2. /\ TypeOK /\ SlabOK(mem) /\ Covers(mem, u) /\ ReadOK(mem, u, readStatic)
      /\ u \in [Blocks -> Nat] /\ NULL \notin Blocks /\ c \in Classes
  BY TypeFacts, UsersType, InputAssumption DEF IInv, ClassesFor
<1>3. /\ SlabOK(k) /\ Covers(k, u) /\ SameBut(mem, k, b) /\ b \in Blocks /\ ~InUse(mem, b)
      /\ InUse(k, b) /\ u[b] = 0
  <2> HIDE DEF u
  <2> QED BY <1>2, GetBlockLemma
<1>4. /\ SlabOK(m) /\ Covers(m, Inc(u, b)) /\ SameBut(k, m, b)
  <2> HIDE DEF u, k
  <2> QED BY <1>2, <1>3, IncRefLemma
<1>5. Inc(u, b) \in [Blocks -> Nat] /\ Inc(u, b)[b] > 0 /\ u = Dec(Inc(u, b), b)
      /\ \A x \in Blocks : u[x] <= Inc(u, b)[x]
  <2> HIDE DEF u
  <2>1. Inc(u, b) \in [Blocks -> Nat] /\ Inc(u, b)[b] > 0 /\ u = Dec(Inc(u, b), b)
    BY <1>2, <1>3, PlusMinus
  <2>2. \A x \in Blocks : u[x] <= Inc(u, b)[x]
    BY <1>2, <1>3 DEF Inc
  <2> QED BY <2>1, <2>2
<1>6. SlabOK(mem') /\ Covers(mem', u) /\ SameBut(m, mem', b)
  <2>1. CASE o = "found"
    <3>1. mem' = lev_slab_decRef(m, b)
      BY <1>1, <2>1
    <3> HIDE DEF u, m
    <3> QED BY <3>1, <1>3, <1>4, <1>5, DecRefLemma
  <2>2. CASE o # "found"
    <3>1. mem' = m
      BY <1>1, <2>2
    <3> HIDE DEF u, m
    <3>2. m.refcount \in [Blocks -> Int]
      BY <1>4, SlabTypes DEF SlabOK
    <3>3. Covers(m, u)
      BY <3>2, <1>2, <1>4, <1>5 DEF Covers
    <3> QED BY <3>1, <3>3, <1>4 DEF SameBut
  <2> QED BY <2>1, <2>2
<1> HIDE DEF m, k
<1>7. SameBut(mem, mem', b)
  BY <1>3, <1>4, <1>6 DEF SameBut
<1>8. ReadOK(mem', u, readStatic)
  <2>1. readStatic # NULL => readStatic # b
    BY <1>2, <1>3 DEF ReadOK
  <2> QED BY <2>1, <1>2, <1>7, ReadKept
<1>9. newStatic' = newStatic /\ ms' = ms /\ readStatic' = readStatic
  BY DEF core_setuid
<1>10. TypeOK'
  BY <1>2, <1>6, <1>9 DEF TypeOK, SlabOK
<1> QED BY <1>6, <1>8, <1>9, <1>10 DEF IInv

(* buf[i] = str: the userdata grows in place or moves to a new block. *)
LEMMA StoreStep ==
  ASSUME IInv, NEW s \in Slices, NEW i \in Nat, NEW l \in Nat, buffer__newindex(s, i, l)
  PROVE  IInv'
<1> DEFINE u == UsersOf(ms, newStatic)
           b == ms[s].mb
           n == i - 1 + l + 1
<1>1. /\ Live(s) /\ lev_memslice_resize(s, i - 1 + l)
      /\ newStatic' = newStatic /\ readStatic' = readStatic /\ n \in Nat
  BY DEF buffer__newindex
<1>2. /\ b \in Blocks /\ u[b] > 0 /\ readStatic # b /\ ms[s] \in SliceRec
      /\ InUse(mem, b)
  BY <1>1, LiveFacts
<1>3. /\ TypeOK /\ SlabOK(mem) /\ Covers(mem, u) /\ ReadOK(mem, u, readStatic)
      /\ ms \in MsTypes /\ u \in [Blocks -> Nat] /\ NULL \notin Blocks
  BY TypeFacts, UsersType, InputAssumption DEF IInv
<1>4. CASE mem' = Consume(mem, b, n) /\ ms' = [ms EXCEPT ![s].until = n]
  <2>1. ms' \in MsTypes /\ SameElse(ms, ms', s) /\ ms'[s].mb = ms[s].mb
    BY <1>1, <1>2, <1>3, <1>4 DEF MsTypes, SliceRec, SameElse
  <2>2. UsersOf(ms', newStatic') = u
    <3>1. UsersOf(ms', newStatic) = UsersOf(ms, newStatic)
      BY <1>3, <2>1, KeepUser
    <3> QED BY <3>1, <1>1
  <2>3. SlabOK(mem') /\ Covers(mem', u) /\ SameBut(mem, mem', b)
    <3> HIDE DEF u, b, n
    <3> QED BY <1>1, <1>2, <1>3, <1>4, ConsumeLemma
  <2>4. ReadOK(mem', u, readStatic')
    BY <1>1, <1>2, <1>3, <2>3, ReadKept
  <2>5. TypeOK'
    BY <1>1, <1>3, <2>1, <2>3 DEF TypeOK, MsTypes, SliceRec, SlabOK
  <2> QED BY <2>2, <2>3, <2>4, <2>5 DEF IInv
<1>5. ASSUME NEW c \in ClassesFor(n), NEW x \in Available(mem, c),
             mem' = Consume(lev_slab_decRef(lev_slab_incRef(lev_slab_getBlock(mem, c, x), x), b), x, n),
             ms' = [ms EXCEPT ![s] = [mb |-> x, off |-> 0, until |-> n]]
      PROVE  IInv'
  <2> DEFINE m1 == lev_slab_getBlock(mem, c, x)
             m2 == lev_slab_incRef(m1, x)
             m3 == lev_slab_decRef(m2, b)
             g  == [ms EXCEPT ![s] = NoSlice]
             v  == Dec(u, b)
  <2>1. c \in Classes
    BY DEF ClassesFor
  <2>2. /\ SlabOK(m1) /\ Covers(m1, u) /\ SameBut(mem, m1, x) /\ x \in Blocks
        /\ ~InUse(mem, x) /\ InUse(m1, x)
    <3> HIDE DEF u
    <3> QED BY <1>3, <2>1, GetBlockLemma
  <2>3. x # b /\ x # readStatic
    BY <1>2, <1>3, <2>2 DEF ReadOK
  <2>4. SlabOK(m2) /\ Covers(m2, Inc(u, x)) /\ SameBut(m1, m2, x)
    <3> HIDE DEF u, m1
    <3> QED BY <1>3, <2>2, IncRefLemma
  <2>5. Inc(u, x) \in [Blocks -> Nat] /\ Inc(u, x)[b] > 0
    <3> HIDE DEF u, b
    <3> QED BY <1>2, <1>3, <2>2, <2>3 DEF Inc
  <2>6. SlabOK(m3) /\ Covers(m3, Dec(Inc(u, x), b)) /\ SameBut(m2, m3, b)
    <3> HIDE DEF u, b, m2
    <3> QED BY <1>2, <2>4, <2>5, DecRefLemma
  <2>7. Dec(Inc(u, x), b) = Inc(v, x) /\ Inc(v, x) \in [Blocks -> Nat]
    <3> HIDE DEF u, b
    <3> QED BY <1>2, <1>3, <2>2, <2>3, MoveUser
  <2>8. SlabOK(mem') /\ Covers(mem', Inc(v, x)) /\ SameBut(m3, mem', x)
    <3>1. mem' = Consume(m3, x, n)
      BY <1>5
    <3> HIDE DEF u, v, b, n, m3
    <3> QED BY <3>1, <1>1, <2>2, <2>6, <2>7, ConsumeLemma
  <2>9. ms' \in MsTypes /\ ms'[s].mb = x /\ \A t \in Slices \ {s} : ms'[t] = ms[t]
    <3>1. [mb |-> x, off |-> 0, until |-> n] \in SliceRec
      BY <1>1, <2>2 DEF SliceRec
    <3> HIDE DEF n
    <3> QED BY <3>1, <1>3, <1>5 DEF MsTypes
  <2>10. g \in MsTypes /\ SameElse(ms, g, s) /\ g[s].mb = NULL /\ SameElse(g, ms', s)
    BY <1>3, <2>9 DEF MsTypes, SliceRec, NoSlice, SameElse
  <2> HIDE DEF g
  <2>11. UsersOf(ms', newStatic') = Inc(v, x)
    <3>1. UsersOf(g, newStatic) = v
      <4> HIDE DEF b
      <4>1. ms[s].mb = b
        BY DEF b
      <4>2. UsersOf(g, newStatic) = Dec(UsersOf(ms, newStatic), b)
        BY <4>1, <1>2, <1>3, <2>10, DropUser
      <4> QED BY <4>2
    <3>2. UsersOf(ms', newStatic) = Inc(UsersOf(g, newStatic), x)
      BY <2>2, <2>9, <2>10, AddUser
    <3> QED BY <3>1, <3>2, <1>1
  <2>12. readStatic # NULL => Inc(v, x)[readStatic] = u[readStatic]
    <3> HIDE DEF u, b
    <3> QED BY <1>2, <1>3, <2>2, <2>3 DEF Inc, Dec, ReadOK
  <2> HIDE DEF m1, m2, m3, u, v, b
  <2>13. ReadOK(mem', Inc(v, x), readStatic')
    <3>1. ReadOK(m1, u, readStatic)
      BY <1>3, <2>2, <2>3, ReadKept
    <3>2. ReadOK(m2, u, readStatic)
      BY <3>1, <2>3, <2>4, ReadKept
    <3>3. ReadOK(m3, u, readStatic)
      BY <3>2, <1>2, <2>6, ReadKept
    <3> QED BY <3>3, <1>1, <2>3, <2>8, <2>12, ReadKept
  <2>14. TypeOK'
    BY <1>1, <1>3, <2>8, <2>9 DEF TypeOK, MsTypes, SliceRec, SlabOK
  <2> QED BY <2>8, <2>11, <2>13, <2>14 DEF IInv
<1> QED BY <1>1, <1>4, <1>5 DEF lev_memslice_resize

-----------------------------------------------------------------------------
(* lev_slab_fill leaves every pool full and no block in use. *)
LEMMA InitLemma == ASSUME Init PROVE IInv
<1>1. PICK pool \in Filled :
        mem = [heap |-> {b \in Blocks : \E c \in Classes : \E i \in 1 .. Len(pool[c]) : pool[c][i] = b},
               pool |-> pool, class |-> [b \in Blocks |-> 1],
               refcount |-> [b \in Blocks |-> 0], nbytes |-> [b \in Blocks |-> 0]]
  BY DEF Init
<1>2. /\ mem.pool = pool /\ mem.class = [b \in Blocks |-> 1]
      /\ mem.refcount = [b \in Blocks |-> 0] /\ mem.nbytes = [b \in Blocks |-> 0]
      /\ mem.heap = {b \in Blocks : IsPooled(mem, b)}
  BY <1>1 DEF IsPooled
<1>3. ms = [s \in Slices |-> NoSlice] /\ newStatic = NULL /\ readStatic = NULL
  BY DEF Init
<1>4. 1 \in Classes
  BY SlabAssumption DEF Classes
<1>5. pool \in [Classes -> Seq(Blocks)] /\ IsFilled(pool)
  <2>1. pool \in [Classes -> UNION {[1 .. PoolMin[c] -> Blocks] : c \in Classes}] /\ IsFilled(pool)
    BY DEF Filled
  <2>2. ASSUME NEW c \in Classes PROVE pool[c] \in Seq(Blocks)
    <3>1. PICK d \in Classes : pool[c] \in [1 .. PoolMin[d] -> Blocks]
      BY <2>1
    <3>2. PoolMin[d] \in Nat
      BY SlabAssumption DEF Classes
    <3> QED BY <3>1, <3>2
  <2> QED BY <2>1, <2>2
<1>6. mem \in SlabStates
  <2>1. mem.class \in [Blocks -> Classes] /\ mem.heap \in SUBSET Blocks
    BY <1>2, <1>4
  <2> QED BY <1>1, <1>4, <1>5 DEF SlabStates
<1>7. SlabOK(mem)
  <2>1. \A c \in Classes : Len(mem.pool[c]) <= PoolMin[c]
    <3> SUFFICES ASSUME NEW c \in Classes PROVE Len(mem.pool[c]) <= PoolMin[c]
      OBVIOUS
    <3>1. PoolMin[c] \in Nat
      BY SlabAssumption DEF Classes
    <3> QED BY <3>1, <1>2, <1>5 DEF IsFilled
  <2> QED BY <2>1, <1>2, <1>5, <1>6 DEF SlabOK, IsFilled
<1>8. \A b \in Blocks : ~InUse(mem, b)
  BY <1>2 DEF InUse
<1>9. \A b \in Blocks : UsersOf(ms, newStatic)[b] = 0
  <2> SUFFICES ASSUME NEW b \in Blocks PROVE UsersOf(ms, newStatic)[b] = 0
    OBVIOUS
  <2>1. On(ms, b) = {}
    BY <1>3, InputAssumption DEF On, NoSlice
  <2>2. Cardinality(On(ms, b)) = 0
    BY <2>1, FS_EmptySet
  <2> QED BY <2>2, <1>3, InputAssumption DEF UsersOf
<1>10. Covers(mem, UsersOf(ms, newStatic))
  BY <1>8, <1>9 DEF Covers
<1>11. ms \in [Slices -> [mb : Blocks \cup {NULL}, off : Nat, until : Nat]]
  BY <1>3 DEF NoSlice
<1>12. TypeOK
  BY <1>3, <1>6, <1>11 DEF TypeOK
<1> QED BY <1>3, <1>7, <1>10, <1>12 DEF IInv, ReadOK

(* Every operation, and every stuttering step, preserves the invariant. *)
LEMMA NextLemma == ASSUME IInv, [Next]_vars PROVE IInv'
<1>1. ASSUME NEW s \in Slices, buffer_new(s) PROVE IInv'
  BY <1>1, BufferNewStep, InputAssumption DEF buffer_new
<1>2. ASSUME NEW s \in Slices, NEW p \in Slices, NEW i \in 1 .. MaxBytes, NEW n \in 1 .. MaxBytes,
             buffer_slice(s, p, i, n)
      PROVE  IInv'
  BY <1>2, SliceStep, InputAssumption
<1>3. ASSUME NEW s \in Slices, buffer__gc(s) PROVE IInv'
  BY <1>3, GcStep
<1>4. ASSUME NEW s \in Slices, NEW p \in Slices, NEW q \in Slices, buffer__concat(s, p, q)
      PROVE  IInv'
  BY <1>4, ConcatStep
<1>5. ASSUME NEW s \in Slices, NEW p \in Slices, buffer__concat_string(s, p) PROVE IInv'
  <2>1. PICK n \in StrLens : ConcatCopy(s, p, n)
    BY <1>5 DEF buffer__concat_string
  <2>2. Free(s) /\ Live(p) /\ n \in Nat
    BY <1>5, InputAssumption DEF buffer__concat_string
  <2> QED BY <2>1, <2>2, CopyStep
<1>6. ASSUME NEW s \in Slices, NEW q \in Slices, string__concat_buffer(s, q) PROVE IInv'
  <2>1. Live(q) /\ lev_buffer_new(s, ms[q].until)
    BY <1>6 DEF string__concat_buffer
  <2>2. ms[q].until \in Nat
    BY <2>1, LiveFacts
  <2> QED BY <2>1, <2>2, BufferNewStep
<1>7. ASSUME NEW s \in Slices, NEW i \in 1 .. MaxBytes, NEW n \in StoreLens,
             buffer__newindex(s, i, n)
      PROVE  IInv'
  <2>1. i \in Nat /\ n \in Nat
    BY InputAssumption
  <2> QED BY <1>7, <2>1, StoreStep
<1>8. CASE on_alloc
  BY <1>8, AllocStep
<1>9. ASSUME NEW s \in Slices, NEW n \in -1 .. ReadSize, lev_pushbuffer_from_static_mb(s, n)
      PROVE  IInv'
  BY <1>9, ReadStep
<1>10. ASSUME NEW s \in Slices, msgpack_pack_api(s) PROVE IInv'
  BY <1>10, PackStep
<1>11. ASSUME NEW s \in Slices, NEW p \in Slices, NEW o \in 1 .. MaxBytes, NEW n \in RawLens,
              mprbuf_unpack_raw(s, p, o, n)
       PROVE  IInv'
  <2>1. o \in Nat
    BY InputAssumption
  <2> QED BY <1>11, <2>1, RawStep
<1>12. ASSUME NEW o \in Lookups, core_setuid(o) PROVE IInv'
  BY <1>12, SetuidStep
<1>13. CASE UNCHANGED vars
  BY <1>13 DEF vars, IInv, TypeOK
<1> QED
  BY <1>1, <1>2, <1>3, <1>4, <1>5, <1>6, <1>7, <1>8, <1>9, <1>10, <1>11, <1>12, <1>13 DEF Next

(* The inductive invariant holds in every reachable state. *)
LEMMA InvariantHolds == Spec => []IInv
<1>1. Init => IInv
  BY InitLemma
<1>2. IInv /\ [Next]_vars => IInv'
  BY NextLemma
<1> QED BY <1>1, <1>2, PTL DEF Spec

(* The headers, the free lists, the userdata and the static pointers keep  *)
(* their types through every operation of the slab and of its clients.     *)
THEOREM TypeCorrect == Spec => []TypeOK
<1>1. IInv => TypeOK
  BY DEF IInv
<1> QED BY <1>1, InvariantHolds, PTL

(* No use after free: whatever order Lua calls the operations and the      *)
(* collector runs in, a block that a cBuffer or a static pointer refers to *)
(* stays out of the free lists and its refcount covers its owners.         *)
THEOREM NoUseAfterFree == Spec => []OwnedBlocksAreHeld
<1>1. ASSUME IInv PROVE OwnedBlocksAreHeld
  <2>1. \A b \in Blocks : Users(b) = UsersOf(ms, newStatic)[b]
    BY DEF Users, UsersOf, On
  <2>2. Covers(mem, UsersOf(ms, newStatic)) /\ ReadOK(mem, UsersOf(ms, newStatic), readStatic)
    BY <1>1 DEF IInv
  <2> QED BY <2>1, <2>2 DEF OwnedBlocksAreHeld, Covers, ReadOK
<1> QED BY <1>1, InvariantHolds, PTL

(* No double free: lev_slab_decRef never shelves a block twice, nor more   *)
(* blocks than pool_min, for any number of classes.                        *)
THEOREM NoDoubleFree == Spec => []FreeListsAreSound
<1>1. IInv => FreeListsAreSound
  BY DEF IInv, SlabOK, FreeListsAreSound
<1> QED BY <1>1, InvariantHolds, PTL
=============================================================================
