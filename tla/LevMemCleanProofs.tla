------------------------- MODULE LevMemCleanProofs -------------------------
(***************************************************************************)
(* What LevMem guarantees when its clients ask for no empty buffer, pack   *)
(* no empty raw, store nothing past the end of a cBuffer and look up only  *)
(* known names: no block leaks, every cBuffer stays inside its block, and  *)
(* no append reaches another cBuffer's bytes.  Each of these inputs, taken *)
(* alone, breaks one of these properties.                                  *)
(*                                                                         *)
(* The argument follows the steps of the slab one by one on a predicate    *)
(* Clean(m, f, st, P): m is the slab, f the userdata, st the static        *)
(* pointer of lev_new_buffer.c and P the blocks that are in use although   *)
(* nobody owns them yet (the read block, a block just obtained).           *)
(***************************************************************************)
EXTENDS LevMemProofs

CleanInputs ==
  /\ 0 \notin NewSizes /\ 0 \notin RawLens
  /\ StoreLens = {}
  /\ "unknown" \notin Lookups

(* Refcounts count the owners and nobody else. *)
Exact(m, u, P) ==
  \A b \in Blocks :
    InUse(m, b) => m.refcount[b] = u[b] /\ (u[b] > 0 \/ b \in P)

(* No block is filled beyond its size. *)
Fits(m) == \A b \in Blocks : InUse(m, b) => m.nbytes[b] <= size(m, b)

(* The range r of a block is what a cBuffer may cover. *)
RangeFits(m, r, st) ==
  /\ r.until > 0
  /\ r.off + r.until <= size(m, r.mb)
  /\ r.off + r.until <= m.nbytes[r.mb] \/ (m.nbytes[r.mb] = 0 /\ r.mb # st)

Clean(m, f, st, P) ==
  /\ Exact(m, UsersOf(f, st), P)
  /\ Fits(m)
  /\ \A s \in Slices : f[s].mb # NULL => RangeFits(m, f[s], st)
  /\ st # NULL => m.nbytes[st] > 0

(* The bytes added to a block from m to n belong to no range of f, and the *)
(* range that is new in g ends with them.                                  *)
Appends(m, n, f, g) ==
  \A b \in Blocks : n.nbytes[b] > m.nbytes[b] =>
    /\ \A s \in Slices : f[s].mb = b => f[s].off + f[s].until <= m.nbytes[b]
    /\ \A s \in Slices : g[s].mb = b /\ g[s] # f[s] => g[s].off + g[s].until = n.nbytes[b]

(* The inductive invariant. *)
CleanInv == IInv /\ Clean(mem, ms, newStatic, {readStatic})

-----------------------------------------------------------------------------
(* A block without owners has no userdata on it and is not the static one. *)
LEMMA Unowned ==
  ASSUME NEW f \in MsTypes, NEW st, NEW b \in Blocks, UsersOf(f, st)[b] = 0
  PROVE  st # b /\ \A s \in Slices : f[s].mb # b
<1>1. Cardinality(On(f, b)) \in Nat
  BY OnFinite
<1>2. st # b
  BY <1>1 DEF UsersOf
<1>3. ASSUME NEW s \in Slices, f[s].mb = b PROVE FALSE
  <2> DEFINE g == [f EXCEPT ![s] = NoSlice]
  <2>1. g \in MsTypes /\ SameElse(f, g, s) /\ g[s].mb = NULL
    BY DEF MsTypes, SliceRec, NoSlice, SameElse
  <2> HIDE DEF g
  <2>2. UsersOf(f, st)[b] > 0
    BY <1>3, <2>1, DropUser
  <2> QED BY <2>2
<1> QED BY <1>2, <1>3

(* The converse: the block of a userdata and the static block have owners. *)
LEMMA Owned ==
  ASSUME NEW f \in MsTypes, NEW st, NEW b \in Blocks,
         st = b \/ \E s \in Slices : f[s].mb = b
  PROVE  UsersOf(f, st)[b] > 0
<1>1. UsersOf(f, st)[b] \in Nat
  BY UsersType
<1> QED BY <1>1, Unowned

(* The numbers in the header of a block and in a range of it. *)
LEMMA Numbers ==
  ASSUME NEW m, SlabOK(m), NEW b \in Blocks
  PROVE  m.nbytes[b] \in Nat /\ m.refcount[b] \in Int /\ size(m, b) \in Nat
<1>1. m \in SlabStates
  BY DEF SlabOK
<1> QED BY <1>1, SlabTypes, SizeType

(* A range keeps fitting when its block keeps its class and its nbytes. *)
LEMMA RangeKept ==
  ASSUME NEW m, NEW n, NEW r, NEW st, NEW st2, RangeFits(m, r, st),
         n.class[r.mb] = m.class[r.mb], n.nbytes[r.mb] = m.nbytes[r.mb],
         st2 # r.mb \/ st2 = st \/ m.nbytes[r.mb] # 0
  PROVE  RangeFits(n, r, st2)
  BY DEF RangeFits, size

(* lev_slab_getBlock: the block obtained is empty and owned by nobody yet. *)
LEMMA GetClean ==
  ASSUME NEW m, NEW f \in MsTypes, NEW st, NEW P, SlabOK(m), Covers(m, UsersOf(f, st)),
         Clean(m, f, st, P), NEW c \in Classes, NEW b \in Available(m, c), st \in Blocks \cup {NULL}
  PROVE  Clean(lev_slab_getBlock(m, c, b), f, st, P \cup {b})
<1> DEFINE n == lev_slab_getBlock(m, c, b)
           u == UsersOf(f, st)
<1>1. /\ SlabOK(n) /\ SameBut(m, n, b) /\ b \in Blocks /\ InUse(n, b)
      /\ u[b] = 0 /\ n.refcount[b] = 0 /\ n.nbytes[b] = 0 /\ NULL \notin Blocks
  <2>1. u \in [Blocks -> Nat]
    BY UsersType
  <2> HIDE DEF u
  <2> QED BY <2>1, GetBlockLemma, InputAssumption DEF u
<1>2. st # b /\ \A s \in Slices : f[s].mb # b
  BY <1>1, Unowned
<1> HIDE DEF n
<1>3. Exact(n, u, P \cup {b})
  <2> HIDE DEF u
  <2> QED BY <1>1 DEF Exact, SameBut, Clean, u
<1>4. Fits(n)
  <2>1. size(n, b) \in Nat
    BY <1>1, Numbers
  <2> QED BY <2>1, <1>1 DEF Fits, SameBut, Clean, size
<1>5. ASSUME NEW s \in Slices, f[s].mb # NULL PROVE RangeFits(n, f[s], st)
  <2>1. f[s].mb \in Blocks /\ f[s].mb # b
    BY <1>5, <1>2 DEF MsTypes, SliceRec
  <2> QED BY <2>1, <1>1, <1>5, RangeKept DEF SameBut, Clean
<1>6. st # NULL => n.nbytes[st] > 0
  BY <1>1, <1>2 DEF SameBut, Clean
<1> QED BY <1>3, <1>4, <1>5, <1>6 DEF Clean, n

(* A block that nobody owns leaves: the read block disposed of on error,   *)
(* the scratch block of setuid.                                            *)
LEMMA GoneClean ==
  ASSUME NEW m, NEW n, NEW f \in MsTypes, NEW st, NEW P, NEW b \in Blocks,
         st \in Blocks \cup {NULL}, Clean(m, f, st, P),
         SameBut(m, n, b), ~InUse(n, b), UsersOf(f, st)[b] = 0
  PROVE  Clean(n, f, st, P \ {b})
<1> DEFINE u == UsersOf(f, st)
<1>2. st # b /\ \A s \in Slices : f[s].mb # b
  BY Unowned
<1>3. Exact(n, u, P \ {b})
  <2> HIDE DEF u
  <2> QED BY DEF Exact, SameBut, Clean, u
<1>4. Fits(n)
  BY DEF Fits, SameBut, Clean, size
<1>5. ASSUME NEW s \in Slices, f[s].mb # NULL PROVE RangeFits(n, f[s], st)
  <2>1. f[s].mb \in Blocks /\ f[s].mb # b
    BY <1>5, <1>2 DEF MsTypes, SliceRec
  <2> QED BY <2>1, <1>5, RangeKept DEF SameBut, Clean
<1>6. st # NULL => n.nbytes[st] > 0
  BY <1>2 DEF SameBut, Clean
<1> QED BY <1>3, <1>4, <1>5, <1>6 DEF Clean

(* lev_slab_decRef by one of the owners of b, with v the owners left: the  *)
(* block stays in use exactly as long as it has some.                      *)
LEMMA ReleaseClean ==
  ASSUME NEW m, SlabOK(m), NEW f \in MsTypes, NEW g \in MsTypes, NEW st, NEW st2, NEW P,
         NEW b \in Blocks, st \in Blocks \cup {NULL}, st2 \in {st, NULL},
         Clean(m, f, st, P), Covers(m, UsersOf(f, st)), UsersOf(f, st)[b] > 0,
         UsersOf(g, st2) = Dec(UsersOf(f, st), b),
         \A s \in Slices : g[s].mb # NULL => g[s] = f[s]
  PROVE  Clean(lev_slab_decRef(m, b), g, st2, P)
<1> DEFINE n == lev_slab_decRef(m, b)
           u == UsersOf(f, st)
<1>1. /\ SlabOK(n) /\ SameBut(m, n, b) /\ n.nbytes = m.nbytes /\ n.class = m.class
      /\ n.refcount[b] = m.refcount[b] - 1 /\ (InUse(n, b) <=> m.refcount[b] # 1)
      /\ u \in [Blocks -> Nat] /\ InUse(m, b) /\ NULL \notin Blocks
  <2>1. u \in [Blocks -> Nat] /\ InUse(m, b)
    BY UsersType DEF Covers
  <2> HIDE DEF u
  <2> QED BY <2>1, DecRefLemma, InputAssumption DEF u
<1> HIDE DEF n
<1>2. Exact(n, Dec(u, b), P)
  <2> HIDE DEF u
  <2>1. m.refcount[b] = u[b] /\ Dec(u, b)[b] = u[b] - 1 /\ u[b] \in Nat
    BY <1>1 DEF Clean, Exact, Dec, u
  <2>2. \A x \in Blocks \ {b} : Dec(u, b)[x] = u[x]
    BY <1>1 DEF Dec
  <2>3. InUse(n, b) => n.refcount[b] = Dec(u, b)[b] /\ Dec(u, b)[b] > 0
    BY <1>1, <2>1 DEF u
  <2>4. ASSUME NEW x \in Blocks \ {b}, InUse(n, x)
        PROVE  n.refcount[x] = Dec(u, b)[x] /\ (Dec(u, b)[x] > 0 \/ x \in P)
    BY <1>1, <2>2, <2>4 DEF SameBut, Clean, Exact, u
  <2> QED BY <2>3, <2>4 DEF Exact
<1>3. Fits(n)
  <2> SUFFICES ASSUME NEW x \in Blocks, InUse(n, x) PROVE n.nbytes[x] <= size(n, x)
    BY DEF Fits
  <2>1. InUse(m, x)
    BY <1>1 DEF SameBut
  <2> QED BY <2>1, <1>1 DEF Fits, Clean, size
<1>4. ASSUME NEW s \in Slices, g[s].mb # NULL PROVE RangeFits(n, g[s], st2)
  <2>1. g[s] = f[s] /\ g[s].mb \in Blocks
    BY <1>4 DEF MsTypes, SliceRec
  <2>2. RangeFits(m, g[s], st)
    BY <1>4, <2>1 DEF Clean
  <2> QED BY <2>1, <2>2, <1>1, RangeKept
<1>5. st2 # NULL => n.nbytes[st2] > 0
  BY <1>1 DEF Clean
<1> QED BY <1>2, <1>3, <1>4, <1>5 DEF Clean, n

(* lev_pushbuffer_from_mb: a userdata s takes the range r of a block b     *)
(* that is in use, and k bytes are appended to b for it.                   *)
Shared(m, n, f, g, s, r, k) ==
  /\ r \in SliceRec /\ r.mb \in Blocks /\ k \in Nat
  /\ f[s].mb = NULL /\ g[s] = r /\ SameElse(f, g, s)
  /\ InUse(m, r.mb) /\ SameBut(m, n, r.mb) /\ InUse(n, r.mb)
  /\ n.class[r.mb] = m.class[r.mb]
  /\ n.refcount[r.mb] = m.refcount[r.mb] + 1
  /\ n.nbytes[r.mb] = m.nbytes[r.mb] + k

(* Such a step keeps the state clean when the range fits, and when the     *)
(* bytes are appended to a block whose content is accounted for by nbytes  *)
(* or that nobody uses yet.                                                *)
LEMMA ShareClean ==
  ASSUME NEW m, SlabOK(m), NEW n, NEW f \in MsTypes, NEW g \in MsTypes, NEW st, NEW P,
         st \in Blocks \cup {NULL}, Clean(m, f, st, P),
         NEW s \in Slices, NEW r, NEW k, Shared(m, n, f, g, s, r, k),
         RangeFits(n, r, st), m.nbytes[r.mb] + k <= size(m, r.mb),
         k = 0 \/ m.nbytes[r.mb] > 0 \/ UsersOf(f, st)[r.mb] = 0
  PROVE  Clean(n, g, st, P \ {r.mb})
<1> DEFINE u == UsersOf(f, st)
           b == r.mb
<1>1. /\ b \in Blocks /\ u \in [Blocks -> Nat] /\ UsersOf(g, st) = Inc(u, b) /\ NULL \notin Blocks
      /\ m.nbytes[b] \in Nat /\ k \in Nat /\ size(m, b) \in Nat
  BY AddUser, UsersType, InputAssumption, Numbers DEF Shared
<1>2. Exact(n, Inc(u, b), P \ {b})
  <2> HIDE DEF u, b
  <2>1. m.refcount[b] = u[b] /\ Inc(u, b)[b] = u[b] + 1 /\ u[b] \in Nat
    BY <1>1 DEF Clean, Exact, Inc, u, b, Shared
  <2>2. \A x \in Blocks \ {b} : Inc(u, b)[x] = u[x]
    BY <1>1 DEF Inc
  <2>3. n.refcount[b] = Inc(u, b)[b] /\ Inc(u, b)[b] > 0
    BY <2>1 DEF Shared, b
  <2>4. ASSUME NEW x \in Blocks \ {b}, InUse(n, x)
        PROVE  n.refcount[x] = Inc(u, b)[x] /\ (Inc(u, b)[x] > 0 \/ x \in P \ {b})
    BY <2>2, <2>4 DEF SameBut, Clean, Exact, u, b, Shared
  <2> QED BY <2>3, <2>4 DEF Exact
<1>3. Fits(n)
  BY <1>1 DEF Fits, SameBut, Clean, size, Shared
<1>4. ASSUME NEW t \in Slices, g[t].mb # NULL PROVE RangeFits(n, g[t], st)
  <2>1. CASE t = s
    BY <2>1 DEF Shared
  <2>2. CASE t # s /\ g[t].mb # b
    <3>1. g[t] = f[t] /\ g[t].mb \in Blocks \ {b}
      BY <1>4, <2>2 DEF Shared, SameElse, MsTypes, SliceRec
    <3>2. RangeFits(m, g[t], st)
      BY <1>4, <3>1 DEF Clean
    <3> QED BY <3>1, <3>2, RangeKept DEF Shared, SameBut
  <2>3. CASE t # s /\ g[t].mb = b
    <3>1. g[t] = f[t] /\ g[t] \in SliceRec /\ f[t].mb = b
      BY <2>3 DEF Shared, SameElse, MsTypes
    <3>2. RangeFits(m, g[t], st)
      BY <1>4, <3>1 DEF Clean
    <3>3. u[b] # 0
      BY <1>1, <3>1, Unowned
    <3>4. CASE k = 0
      BY <2>3, <3>2, <3>4, <1>1, RangeKept DEF Shared
    <3>5. CASE m.nbytes[b] > 0
      <4> DEFINE q == g[t]
      <4>1. q.off \in Nat /\ q.until \in Nat /\ q.mb = b /\ RangeFits(m, q, st)
        BY <2>3, <3>1, <3>2 DEF SliceRec
      <4>2. n.nbytes[b] = m.nbytes[b] + k /\ size(n, b) = size(m, b)
        BY DEF Shared, size
      <4> HIDE DEF q, b
      <4>3. RangeFits(n, q, st)
        BY <4>1, <4>2, <3>5, <1>1 DEF RangeFits
      <4> QED BY <4>3 DEF q
    <3> QED BY <3>3, <3>4, <3>5
  <2> QED BY <2>1, <2>2, <2>3
<1>5. st # NULL => n.nbytes[st] > 0
  <2>1. CASE st = b
    BY <2>1, <1>1 DEF Clean, Shared
  <2>2. CASE st # b
    BY <2>2 DEF Clean, Shared, SameBut
  <2> QED BY <2>1, <2>2
<1> HIDE DEF u
<1> QED BY <1>1, <1>2, <1>3, <1>4, <1>5 DEF Clean

(* The static pointer of lev_new_buffer.c takes a reference to the block   *)
(* that a cBuffer has just been carved out of.                             *)
LEMMA TakeClean ==
  ASSUME NEW m, SlabOK(m), NEW n, NEW f \in MsTypes, NEW P, NEW b \in Blocks,
         Clean(m, f, NULL, P), SameBut(m, n, b), InUse(m, b), InUse(n, b),
         n.class[b] = m.class[b], n.nbytes[b] = m.nbytes[b], m.nbytes[b] > 0,
         n.refcount[b] = m.refcount[b] + 1
  PROVE  Clean(n, f, b, P)
<1> DEFINE u == UsersOf(f, NULL)
<1>1. u \in [Blocks -> Nat] /\ UsersOf(f, b) = Inc(u, b) /\ NULL \notin Blocks
  BY StaticUser, UsersType, InputAssumption
<1>2. Exact(n, Inc(u, b), P)
  <2> HIDE DEF u
  <2>1. m.refcount[b] = u[b] /\ Inc(u, b)[b] = u[b] + 1 /\ u[b] \in Nat
    BY <1>1 DEF Clean, Exact, Inc, u
  <2>2. \A x \in Blocks \ {b} : Inc(u, b)[x] = u[x]
    BY <1>1 DEF Inc
  <2>3. n.refcount[b] = Inc(u, b)[b] /\ Inc(u, b)[b] > 0
    BY <2>1
  <2>4. ASSUME NEW x \in Blocks \ {b}, InUse(n, x)
        PROVE  n.refcount[x] = Inc(u, b)[x] /\ (Inc(u, b)[x] > 0 \/ x \in P)
    BY <2>2, <2>4 DEF SameBut, Clean, Exact, u
  <2> QED BY <2>3, <2>4 DEF Exact
<1>3. Fits(n)
  BY DEF Fits, SameBut, Clean, size
<1>4. ASSUME NEW t \in Slices, f[t].mb # NULL PROVE RangeFits(n, f[t], b)
  <2>1. f[t].mb \in Blocks /\ RangeFits(m, f[t], NULL)
    BY <1>4 DEF Clean, MsTypes, SliceRec
  <2>2. n.class[f[t].mb] = m.class[f[t].mb] /\ n.nbytes[f[t].mb] = m.nbytes[f[t].mb]
    BY <2>1 DEF SameBut
  <2>3. b # f[t].mb \/ m.nbytes[f[t].mb] # 0
    OBVIOUS
  <2> QED BY <2>1, <2>2, <2>3, RangeKept
<1> HIDE DEF u
<1> QED BY <1>1, <1>2, <1>3, <1>4 DEF Clean

(* More blocks may be without an owner than are. *)
LEMMA WiderClean ==
  ASSUME NEW m, NEW f, NEW st, NEW P, NEW Q, Clean(m, f, st, P),
         \A b \in Blocks : b \in P => b \in Q
  PROVE  Clean(m, f, st, Q)
  BY DEF Clean, Exact

(* A step that gives userdata s a range on b appends only to b, and only   *)
(* bytes that no other userdata has.                                       *)
LEMMA AppendFits ==
  ASSUME NEW m, m.nbytes \in [Blocks -> Nat], NEW n, NEW f, NEW g, NEW s \in Slices, NEW b,
         SameElse(f, g, s), \A x \in Blocks \ {b} : n.nbytes[x] = m.nbytes[x],
         \/ n.nbytes[b] = m.nbytes[b] \/ n.nbytes[b] = 0
         \/ /\ \A t \in Slices : f[t].mb = b => f[t].off + f[t].until <= m.nbytes[b]
            /\ g[s].mb = b => g[s].off + g[s].until = n.nbytes[b]
  PROVE  Appends(m, n, f, g)
<1> SUFFICES ASSUME NEW x \in Blocks, n.nbytes[x] > m.nbytes[x]
             PROVE  /\ \A t \in Slices : f[t].mb = x => f[t].off + f[t].until <= m.nbytes[x]
                    /\ \A t \in Slices : g[t].mb = x /\ g[t] # f[t] => g[t].off + g[t].until = n.nbytes[x]
  BY DEF Appends
<1>1. m.nbytes[x] \in Nat
  OBVIOUS
<1>2. x = b /\ n.nbytes[b] # m.nbytes[b] /\ n.nbytes[b] # 0
  BY <1>1
<1>3. \A t \in Slices : g[t] # f[t] => t = s
  BY DEF SameElse
<1> QED BY <1>2, <1>3

(* The range r and the k bytes appended for it suit the block r.mb of m. *)
RangeSuits(m, f, st, r, k) ==
  /\ r.until > 0 /\ r.off + r.until <= size(m, r.mb)
  /\ m.nbytes[r.mb] + k <= size(m, r.mb)
  /\ k = 0 => r.off + r.until <= m.nbytes[r.mb] \/ (m.nbytes[r.mb] = 0 /\ r.mb # st)
  /\ k > 0 => /\ r.off + r.until = m.nbytes[r.mb] + k
              /\ m.nbytes[r.mb] > 0 \/ UsersOf(f, st)[r.mb] = 0

(* lev_slab_incRef(mb), then mb->nbytes += k where there is something to add. *)
Pushed(m, n, b, k) ==
  \/ n = Consume(lev_slab_incRef(m, b), b, k)
  \/ k = 0 /\ n = lev_slab_incRef(m, b)

(* What becomes of the header of the block then. *)
LEMMA IncConsume ==
  ASSUME NEW m, SlabOK(m), NEW u \in [Blocks -> Nat], Covers(m, u),
         NEW b \in Blocks, InUse(m, b), NEW k \in Nat,
         NEW n, Pushed(m, n, b, k)
  PROVE  /\ SlabOK(n) /\ Covers(n, Inc(u, b)) /\ Inc(u, b) \in [Blocks -> Nat]
         /\ SameBut(m, n, b) /\ InUse(n, b) /\ n.class = m.class
         /\ n.refcount[b] = m.refcount[b] + 1 /\ n.nbytes[b] = m.nbytes[b] + k
<1> DEFINE m1 == lev_slab_incRef(m, b)
<1>1. /\ SlabOK(m1) /\ Covers(m1, Inc(u, b)) /\ SameBut(m, m1, b) /\ InUse(m1, b)
      /\ m1.nbytes = m.nbytes /\ m1.class = m.class /\ m1.refcount[b] = m.refcount[b] + 1
      /\ Inc(u, b) \in [Blocks -> Nat] /\ m.nbytes[b] \in Nat
  BY IncRefLemma, PlusMinus, Numbers
<1> HIDE DEF m1
<1>2. CASE k = 0 /\ n = m1
  BY <1>1, <1>2
<1>3. CASE n = Consume(m1, b, k)
  <2>1. /\ SlabOK(n) /\ Covers(n, Inc(u, b)) /\ SameBut(m1, n, b)
        /\ n.refcount = m1.refcount /\ n.class = m1.class
        /\ n.nbytes[b] = m1.nbytes[b] + k /\ InUse(n, b)
    <3> DEFINE v == Inc(u, b)
    <3>1. v \in [Blocks -> Nat] /\ Covers(m1, v) /\ SlabOK(m1)
      BY <1>1
    <3> HIDE DEF v
    <3> DEFINE q == Consume(m1, b, k)
    <3>2. SlabOK(q) /\ Covers(q, v) /\ SameBut(m1, q, b) /\ q.refcount = m1.refcount
          /\ q.class = m1.class /\ q.nbytes[b] = m1.nbytes[b] + k
      BY <3>1, ConsumeLemma
    <3>3. InUse(q, b)
      BY <1>1, <3>1, ConsumeLemma
    <3>4. n = q
      BY <1>3
    <3> HIDE DEF q
    <3> QED BY <1>1, <3>2, <3>3, <3>4 DEF v
  <2>2. SameBut(m, n, b)
    BY <1>1, <2>1 DEF SameBut
  <2> QED BY <1>1, <2>1, <2>2
<1> QED BY <1>2, <1>3 DEF m1, Pushed

(* The userdata once s holds the range r. *)
Put(f, s, r) == [f EXCEPT ![s] = r]

(* A reference, a userdata and the bytes appended for it, in one. *)
LEMMA ShareResult ==
  ASSUME NEW m, SlabOK(m), NEW f \in MsTypes, NEW st, st \in Blocks \cup {NULL}, NEW P,
         Covers(m, UsersOf(f, st)), Clean(m, f, st, P),
         NEW s \in Slices, f[s].mb = NULL, NEW r \in SliceRec, NEW b \in Blocks, r.mb = b,
         InUse(m, b), NEW k \in Nat, RangeSuits(m, f, st, r, k),
         NEW n, Pushed(m, n, b, k),
         NEW g, g = Put(f, s, r)
  PROVE  /\ Clean(n, g, st, P \ {b}) /\ Appends(m, n, f, g)
         /\ SlabOK(n) /\ SameBut(m, n, b) /\ InUse(n, b) /\ n.class = m.class
         /\ n.refcount[b] = m.refcount[b] + 1 /\ n.nbytes[b] = m.nbytes[b] + k
<1> DEFINE u == UsersOf(f, st)
<1>1. /\ SlabOK(n) /\ SameBut(m, n, b) /\ InUse(n, b) /\ n.class = m.class
      /\ n.refcount[b] = m.refcount[b] + 1 /\ n.nbytes[b] = m.nbytes[b] + k
  <2>1. u \in [Blocks -> Nat]
    BY UsersType
  <2> HIDE DEF u
  <2> QED BY <2>1, IncConsume DEF u
<1>2. g \in MsTypes /\ SameElse(f, g, s) /\ g[s] = r
  BY DEF MsTypes, SameElse, Put
<1>3. Shared(m, n, f, g, s, r, k)
  BY <1>1, <1>2 DEF Shared
<1>4. /\ m.nbytes[b] \in Nat /\ size(m, b) \in Nat /\ size(n, b) = size(m, b)
      /\ r.off \in Nat /\ r.until \in Nat /\ m.nbytes \in [Blocks -> Nat]
  BY <1>1, Numbers, SlabTypes DEF size, SliceRec, SlabOK
<1>5. RangeFits(n, r, st) /\ m.nbytes[r.mb] + k <= size(m, r.mb)
  BY <1>1, <1>4 DEF RangeSuits, RangeFits
<1>6. k = 0 \/ m.nbytes[r.mb] > 0 \/ UsersOf(f, st)[r.mb] = 0
  BY DEF RangeSuits
<1>7. Clean(n, g, st, P \ {b})
  BY <1>2, <1>3, <1>5, <1>6, ShareClean
<1>8. \/ n.nbytes[b] = m.nbytes[b]
      \/ /\ \A t \in Slices : f[t].mb = b => f[t].off + f[t].until <= m.nbytes[b]
         /\ g[s].off + g[s].until = n.nbytes[b]
  <2>1. CASE k = 0
    BY <2>1, <1>1, <1>4
  <2>2. CASE k > 0
    <3>1. g[s].off + g[s].until = n.nbytes[b]
      BY <2>2, <1>1, <1>2 DEF RangeSuits
    <3>2. ASSUME NEW t \in Slices, f[t].mb = b PROVE f[t].off + f[t].until <= m.nbytes[b]
      <4>1. UsersOf(f, st)[b] # 0 /\ b # NULL
        BY <3>2, Unowned, InputAssumption
      <4>2. m.nbytes[b] > 0 /\ RangeFits(m, f[t], st)
        BY <4>1, <2>2, <3>2 DEF RangeSuits, Clean
      <4> QED BY <4>2, <3>2, <1>4 DEF RangeFits
    <3> QED BY <3>1, <3>2
  <2> QED BY <2>1, <2>2
<1>9. Appends(m, n, f, g)
  <2>1. \A x \in Blocks \ {b} : n.nbytes[x] = m.nbytes[x]
    BY <1>1 DEF SameBut
  <2> QED BY <2>1, <1>2, <1>4, <1>8, AppendFits
<1> QED BY <1>1, <1>7, <1>9

(* A userdata on a block just obtained from lev_slab_getBlock; m0 is the   *)
(* slab before the operation, which may have released a block first.       *)
LEMMA FreshResult ==
  ASSUME NEW m, SlabOK(m), NEW f \in MsTypes, NEW st, st \in Blocks \cup {NULL}, NEW P,
         Covers(m, UsersOf(f, st)), Clean(m, f, st, P),
         NEW c \in Classes, NEW b \in Available(m, c),
         NEW s \in Slices, f[s].mb = NULL, NEW r \in SliceRec, r.mb = b, NEW k \in Nat,
         r.until > 0, r.off + r.until <= ClassSize[c], k <= ClassSize[c],
         k > 0 => r.off + r.until = k,
         NEW h, h = lev_slab_getBlock(m, c, b),
         NEW n, Pushed(h, n, b, k),
         NEW g, g = Put(f, s, r), NEW m0, m0.nbytes = m.nbytes
  PROVE  /\ Clean(n, g, st, P) /\ Appends(m0, n, f, g)
         /\ b \in Blocks /\ SlabOK(h) /\ Covers(h, UsersOf(f, st)) /\ InUse(h, b)
         /\ h.refcount[b] = 0 /\ h.nbytes[b] = 0
         /\ SlabOK(n) /\ SameBut(h, n, b) /\ InUse(n, b) /\ n.class = h.class
         /\ n.refcount[b] = 1 /\ n.nbytes[b] = k
<1> DEFINE u == UsersOf(f, st)
<1>1. /\ SlabOK(h) /\ Covers(h, u) /\ SameBut(m, h, b) /\ b \in Blocks /\ InUse(h, b)
      /\ u[b] = 0 /\ h.refcount[b] = 0 /\ h.nbytes[b] = 0 /\ h.class[b] = c
  <2>1. u \in [Blocks -> Nat]
    BY UsersType
  <2> HIDE DEF u
  <2> QED BY <2>1, GetBlockLemma DEF u
<1>2. st # b /\ \A t \in Slices : f[t].mb # b
  BY <1>1, Unowned
<1>3. Clean(h, f, st, P \cup {b})
  BY GetClean
<1>4. RangeSuits(h, f, st, r, k)
  BY <1>1, <1>2 DEF RangeSuits, size
<1> DEFINE Q == P \cup {b}
<1>5. /\ Clean(n, g, st, Q \ {b})
      /\ SlabOK(n) /\ SameBut(h, n, b) /\ InUse(n, b) /\ n.class = h.class
      /\ n.refcount[b] = h.refcount[b] + 1 /\ n.nbytes[b] = h.nbytes[b] + k
  <2>1. SlabOK(h) /\ Covers(h, UsersOf(f, st)) /\ Clean(h, f, st, Q) /\ b \in Blocks /\ InUse(h, b)
    BY <1>1, <1>3
  <2> HIDE DEF Q
  <2>2. Clean(n, g, st, Q \ {b})
    BY <2>1, <1>4, ShareResult
  <2>3. u \in [Blocks -> Nat] /\ Covers(h, u)
    BY <2>1, UsersType
  <2> HIDE DEF u
  <2> QED BY <2>1, <2>2, <2>3, IncConsume
<1>6. Clean(n, g, st, P)
  <2>1. \A x \in Blocks : x \in Q \ {b} => x \in P
    OBVIOUS
  <2> HIDE DEF Q
  <2> QED BY <1>5, <2>1, WiderClean
<1>7. n.refcount[b] = 1 /\ n.nbytes[b] = k
  BY <1>1, <1>5
<1>8. Appends(m0, n, f, g)
  <2>1. m0.nbytes \in [Blocks -> Nat]
    BY SlabTypes DEF SlabOK
  <2>2. \A x \in Blocks \ {b} : n.nbytes[x] = m0.nbytes[x]
    BY <1>1, <1>5 DEF SameBut
  <2>3. SameElse(f, g, s) /\ g[s] = r
    BY DEF SameElse, MsTypes, Put
  <2>4. n.nbytes[b] = 0 \/ g[s].off + g[s].until = n.nbytes[b]
    BY <1>7, <2>3
  <2> QED BY <1>2, <2>1, <2>2, <2>3, <2>4, AppendFits
<1> QED BY <1>1, <1>5, <1>6, <1>7, <1>8

(* lev_buffer_new on a block just obtained: the static pointer takes a     *)
(* second reference unless the cBuffer covers the whole block.             *)
LEMMA FreshCarve ==
  ASSUME NEW m, SlabOK(m), NEW f \in MsTypes, NEW P, Covers(m, UsersOf(f, NULL)),
         Clean(m, f, NULL, P), NEW k \in Nat, k > 0,
         NEW c \in ClassesFor(k), NEW b \in Available(m, c),
         NEW s \in Slices, f[s].mb = NULL,
         NEW h, h = lev_slab_getBlock(m, c, b), NEW whole \in BOOLEAN,
         NEW held, held = (IF ~whole /\ h.refcount[b] = 0 THEN lev_slab_incRef(h, b) ELSE h),
         NEW n, n = Consume(lev_slab_incRef(held, b), b, k),
         NEW r \in SliceRec, r.mb = b, r.off = h.nbytes[b], r.until = k,
         NEW g, g = Put(f, s, r), NEW m0, m0.nbytes = m.nbytes
  PROVE  Clean(n, g, IF whole THEN NULL ELSE b, P) /\ Appends(m0, n, f, g)
<1> DEFINE n1 == Consume(lev_slab_incRef(h, b), b, k)
           u == UsersOf(f, NULL)
<1>1. c \in Classes /\ k <= ClassSize[c]
  BY DEF ClassesFor
<1>2. b \in Blocks /\ h.nbytes[b] = 0
  <2>1. u \in [Blocks -> Nat]
    BY UsersType
  <2> HIDE DEF u
  <2> QED BY <1>1, <2>1, GetBlockLemma DEF u
<1>3. r.until > 0 /\ r.off + r.until <= ClassSize[c] /\ (k > 0 => r.off + r.until = k)
  BY <1>1, <1>2
<1>4. /\ Clean(n1, g, NULL, P) /\ Appends(m0, n1, f, g)
      /\ SlabOK(h) /\ Covers(h, UsersOf(f, NULL)) /\ InUse(h, b)
      /\ h.refcount[b] = 0 /\ h.nbytes[b] = 0
      /\ SlabOK(n1) /\ SameBut(h, n1, b) /\ InUse(n1, b) /\ n1.class = h.class
      /\ n1.refcount[b] = 1 /\ n1.nbytes[b] = k
  <2>1. Pushed(h, n1, b, k)
    BY DEF Pushed
  <2>2. NULL \in Blocks \cup {NULL} /\ k <= ClassSize[c] /\ c \in Classes
    BY <1>1
  <2> HIDE DEF n1
  <2> QED BY <1>3, <2>1, <2>2, FreshResult
<1>5. CASE whole
  <2>1. n = n1
    BY <1>5
  <2> HIDE DEF n1
  <2> QED BY <1>4, <1>5, <2>1
<1>6. CASE ~whole
  <2>1. n = Consume(lev_slab_incRef(lev_slab_incRef(h, b), b), b, k)
    BY <1>4, <1>6
  <2> DEFINE h1 == lev_slab_incRef(h, b)
  <2> HIDE DEF n1
  <2>2. u \in [Blocks -> Nat] /\ Inc(u, b) \in [Blocks -> Nat]
    BY <1>2, UsersType, PlusMinus
  <2>3. /\ SlabOK(h1) /\ Covers(h1, Inc(u, b)) /\ SameBut(h, h1, b) /\ InUse(h1, b)
        /\ h1.nbytes = h.nbytes /\ h1.class = h.class
    <3> HIDE DEF u
    <3> QED BY <1>2, <1>4, <2>2, IncRefLemma DEF u
  <2>3a. h1.refcount[b] = 1
    <3> HIDE DEF u
    <3> QED BY <1>2, <1>4, <2>2, IncRefLemma DEF u
  <2>4. /\ SameBut(h1, n, b) /\ InUse(n, b) /\ n.class = h1.class
        /\ n.refcount[b] = h1.refcount[b] + 1 /\ n.nbytes[b] = h1.nbytes[b] + k
    <3> DEFINE v == Inc(u, b)
    <3>1. v \in [Blocks -> Nat] /\ Covers(h1, v) /\ SlabOK(h1) /\ InUse(h1, b)
      BY <2>2, <2>3
    <3>2. Pushed(h1, n, b, k)
      BY <2>1 DEF Pushed
    <3> HIDE DEF v, h1
    <3> QED BY <1>2, <3>1, <3>2, IncConsume
  <2> HIDE DEF h1
  <2>5. n.refcount[b] = n1.refcount[b] + 1 /\ n.nbytes[b] = n1.nbytes[b] /\ n.class[b] = n1.class[b]
    BY <1>4, <2>3, <2>3a, <2>4
  <2>6. SameBut(n1, n, b)
    BY <1>4, <2>3, <2>4 DEF SameBut
  <2>7. n1.nbytes[b] > 0
    BY <1>4
  <2>8. Clean(n, g, b, P)
    <3>1. g \in MsTypes
      BY DEF MsTypes, Put
    <3> QED BY <3>1, <1>2, <1>4, <2>4, <2>5, <2>6, <2>7, TakeClean
  <2>9. Appends(m0, n, f, g)
    <3>1. \A x \in Blocks : n.nbytes[x] = n1.nbytes[x]
      BY <2>5, <2>6 DEF SameBut
    <3> QED BY <3>1, <1>4 DEF Appends
  <2> QED BY <1>6, <2>8, <2>9
<1> QED BY <1>5, <1>6

-----------------------------------------------------------------------------
(* What a step of a clean client leads to. *)
CleanStep ==
  /\ Clean(mem', ms', newStatic', {readStatic'})
  /\ Appends(mem, mem', ms, ms')

(* The parts of the invariant, as the lemmas above take them. *)
LEMMA CleanFacts ==
  ASSUME CleanInv
  PROVE  /\ SlabOK(mem) /\ ms \in MsTypes /\ newStatic \in Blocks \cup {NULL}
         /\ readStatic \in Blocks \cup {NULL} /\ NULL \notin Blocks
         /\ Covers(mem, UsersOf(ms, newStatic))
         /\ ReadOK(mem, UsersOf(ms, newStatic), readStatic)
         /\ Clean(mem, ms, newStatic, {readStatic})
  BY TypeFacts, InputAssumption DEF CleanInv, IInv

(* The unsigned difference in Room never wraps on a block in use. *)
LEMMA RoomIsLeft ==
  ASSUME NEW m, SlabOK(m), Fits(m), NEW b \in Blocks, InUse(m, b)
  PROVE  /\ Room(m, b) = size(m, b) - m.nbytes[b]
         /\ m.nbytes[b] \in Nat /\ size(m, b) \in Nat /\ m.nbytes[b] <= size(m, b)
  BY Numbers DEF Fits, Room

(* A step that shares a block in use with a new userdata, and perhaps      *)
(* appends to it; the read block may change hands.                         *)
LEMMA ShareCleanStep ==
  ASSUME CleanInv, NEW s \in Slices, Free(s),
         NEW STATE r, r \in SliceRec, NEW STATE b, b \in Blocks, r.mb = b, InUse(mem, b),
         NEW STATE k, k \in Nat, RangeSuits(mem, ms, newStatic, r, k),
         Pushed(mem, mem', b, k), ms' = Put(ms, s, r), newStatic' = newStatic,
         \/ readStatic' = readStatic
         \/ readStatic = b
  PROVE  CleanStep
<1> DEFINE P == {readStatic}
<1>1. ms[s].mb = NULL
  BY DEF Free
<1>2. Clean(mem', ms', newStatic, P \ {b}) /\ Appends(mem, mem', ms, ms')
  <2>1. /\ SlabOK(mem) /\ ms \in MsTypes /\ newStatic \in Blocks \cup {NULL}
        /\ Covers(mem, UsersOf(ms, newStatic)) /\ Clean(mem, ms, newStatic, P)
    BY CleanFacts
  <2> HIDE DEF P
  <2>2. \A n, g : Pushed(mem, n, b, k) /\ g = Put(ms, s, r) =>
          Clean(n, g, newStatic, P \ {b}) /\ Appends(mem, n, ms, g)
    BY <1>1, <2>1, ShareResult
  <2> QED BY <2>2
<1>3. Clean(mem', ms', newStatic, {readStatic'})
  <2>1. \A x \in Blocks : x \in {readStatic} \ {b} => x \in {readStatic'}
    OBVIOUS
  <2> QED BY <1>2, <2>1, WiderClean
<1> QED BY <1>2, <1>3 DEF CleanStep

(* lev_buffer_new of at least one byte. *)
LEMMA NewClean ==
  ASSUME CleanInv, NEW s \in Slices, NEW k \in Nat, k > 0, lev_buffer_new(s, k)
  PROVE  CleanStep
<1>1. /\ SlabOK(mem) /\ ms \in MsTypes /\ newStatic \in Blocks \cup {NULL} /\ NULL \notin Blocks
      /\ Covers(mem, UsersOf(ms, newStatic)) /\ Clean(mem, ms, newStatic, {readStatic})
  BY CleanFacts
<1>2. Free(s) /\ readStatic' = readStatic /\ ms[s].mb = NULL
  BY DEF lev_buffer_new, Free
<1>3. CASE ~NeedsBlock(k) /\ CarveFrom(s, k, mem, newStatic)
  <2> DEFINE b == newStatic
             r == [mb |-> b, off |-> mem.nbytes[b], until |-> k]
  <2>1. b \in Blocks /\ b # NULL /\ Room(mem, b) >= k
    <3>1. b # NULL /\ b \in Blocks /\ ~(Room(mem, b) < k)
      BY <1>1, <1>3 DEF NeedsBlock
    <3>2. Room(mem, b) \in Int
      <4>1. mem.nbytes[b] \in Nat /\ size(mem, b) \in Nat /\ Word \in Nat
        BY <1>1, <3>1, Numbers, InputAssumption
      <4> QED BY <4>1 DEF Room
    <3> HIDE DEF b
    <3> QED BY <3>1, <3>2
  <2>2. UsersOf(ms, newStatic)[b] > 0
    BY <1>1, <2>1, Owned
  <2>3. InUse(mem, b) /\ mem.nbytes[b] > 0 /\ Fits(mem)
    BY <1>1, <2>1, <2>2 DEF Covers, Clean
  <2>4. Room(mem, b) = size(mem, b) - mem.nbytes[b] /\ mem.nbytes[b] \in Nat /\ size(mem, b) \in Nat
    BY <1>1, <2>1, <2>3, RoomIsLeft
  <2>5. k # size(mem, b)
    <3> HIDE DEF b
    <3> QED BY <2>1, <2>3, <2>4
  <2>6. mem.refcount[b] # 0
    BY <1>1, <2>1, <2>2, <2>3 DEF Clean, Exact
  <2>7. /\ newStatic' = b /\ mem' = Consume(lev_slab_incRef(mem, b), b, k)
        /\ ms' = Put(ms, s, r)
    <3>1. UntilOf(mem, b, k) = k
      BY DEF UntilOf
    <3> QED BY <1>3, <2>5, <2>6, <3>1 DEF CarveFrom, lev_pushbuffer_from_mb, Put
  <2>8. r \in SliceRec /\ r.mb = b /\ r.off = mem.nbytes[b] /\ r.until = k
    BY <2>1, <2>4 DEF SliceRec
  <2>9. Pushed(mem, mem', b, k) /\ newStatic' = newStatic
    BY <2>7 DEF Pushed
  <2> HIDE DEF r
  <2>10. RangeSuits(mem, ms, newStatic, r, k)
    <3> HIDE DEF b
    <3> QED BY <2>1, <2>3, <2>4, <2>8 DEF RangeSuits
  <2> QED BY <1>2, <2>1, <2>3, <2>7, <2>8, <2>9, <2>10, ShareCleanStep
<1>4. ASSUME NeedsBlock(k), NEW c \in ClassesFor(k), NEW b \in Available(Retired(k), c),
             CarveFrom(s, k, lev_slab_getBlock(Retired(k), c, b), b)
      PROVE  CleanStep
  <2> DEFINE m == Retired(k)
             h == lev_slab_getBlock(m, c, b)
             whole == k = size(h, b)
             held == IF ~whole /\ h.refcount[b] = 0 THEN lev_slab_incRef(h, b) ELSE h
             r == [mb |-> b, off |-> h.nbytes[b], until |-> k]
  <2>1. SlabOK(m) /\ Covers(m, UsersOf(ms, NULL)) /\ Clean(m, ms, NULL, {readStatic})
        /\ m.nbytes = mem.nbytes
    <3>1. CASE newStatic = NULL
      BY <3>1, <1>1 DEF Retired
    <3>2. CASE newStatic # NULL
      <4> DEFINE u == UsersOf(ms, newStatic)
                 v == UsersOf(ms, NULL)
      <4>1. m = lev_slab_decRef(mem, newStatic) /\ newStatic \in Blocks
        BY <3>2, <1>1, <1>4 DEF NeedsBlock, Retired
      <4>2. u = Inc(v, newStatic) /\ v \in [Blocks -> Nat]
        BY <4>1, StaticUser, UsersType
      <4>3. u \in [Blocks -> Nat] /\ v = Dec(u, newStatic) /\ u[newStatic] > 0
        <5> HIDE DEF u, v
        <5> QED BY <4>1, <4>2, PlusMinus
      <4>4. SlabOK(m) /\ Covers(m, v) /\ m.nbytes = mem.nbytes
        <5>1. Covers(mem, u)
          BY <1>1
        <5> HIDE DEF u, v, m
        <5> QED BY <5>1, <4>1, <4>3, <1>1, DecRefLemma
      <4>5. Clean(m, ms, NULL, {readStatic})
        BY <4>1, <4>3, <1>1, ReleaseClean
      <4> QED BY <4>4, <4>5
    <3> QED BY <3>1, <3>2
  <2>2. /\ newStatic' = (IF whole THEN NULL ELSE b) /\ mem' = Consume(lev_slab_incRef(held, b), b, k)
        /\ ms' = Put(ms, s, r)
    <3>1. UntilOf(h, b, k) = k
      BY DEF UntilOf
    <3> QED BY <1>4, <3>1 DEF CarveFrom, lev_pushbuffer_from_mb, Put
  <2>3. b \in Blocks /\ h.nbytes[b] = 0
    <3>1. c \in Classes /\ UsersOf(ms, NULL) \in [Blocks -> Nat] /\ b \in Available(m, c)
      BY UsersType DEF ClassesFor
    <3> DEFINE v == UsersOf(ms, NULL)
    <3>2. Covers(m, v) /\ v \in [Blocks -> Nat] /\ SlabOK(m)
      BY <2>1, <3>1
    <3> HIDE DEF v, m
    <3> QED BY <3>1, <3>2, GetBlockLemma
  <2>4. r \in SliceRec /\ r.mb = b /\ r.off = h.nbytes[b] /\ r.until = k
    BY <2>3 DEF SliceRec
  <2>5. whole \in BOOLEAN /\ b \in Available(m, c) /\ h = lev_slab_getBlock(m, c, b)
        /\ held = (IF ~whole /\ h.refcount[b] = 0 THEN lev_slab_incRef(h, b) ELSE h)
    OBVIOUS
  <2> HIDE DEF r, m, h, whole, held
  <2>6. Clean(mem', ms', IF whole THEN NULL ELSE b, {readStatic}) /\ Appends(mem, mem', ms, ms')
    BY <1>1, <1>2, <2>1, <2>2, <2>4, <2>5, FreshCarve
  <2> QED BY <1>2, <2>2, <2>6 DEF CleanStep
<1> QED BY <1>3, <1>4 DEF lev_buffer_new

(* What a live cBuffer of a clean state covers. *)
LEMMA LiveClean ==
  ASSUME CleanInv, NEW p \in Slices, Live(p)
  PROVE  /\ ms[p].mb \in Blocks /\ InUse(mem, ms[p].mb) /\ readStatic # ms[p].mb
         /\ ms[p].off \in Nat /\ ms[p].until \in Nat /\ ms[p].until > 0
         /\ RangeFits(mem, ms[p], newStatic)
         /\ mem.nbytes[ms[p].mb] \in Nat /\ size(mem, ms[p].mb) \in Nat
         /\ mem.nbytes[ms[p].mb] <= size(mem, ms[p].mb)
         /\ Room(mem, ms[p].mb) = size(mem, ms[p].mb) - mem.nbytes[ms[p].mb]
<1>1. /\ ms[p].mb \in Blocks /\ InUse(mem, ms[p].mb) /\ readStatic # ms[p].mb
      /\ ms[p].off \in Nat /\ ms[p].until \in Nat
  BY LiveFacts DEF CleanInv
<1>2. RangeFits(mem, ms[p], newStatic) /\ Fits(mem) /\ SlabOK(mem)
  BY CleanFacts DEF Clean, Live
<1>3. ms[p].until > 0
  BY <1>2 DEF RangeFits
<1> QED BY <1>1, <1>2, <1>3, RoomIsLeft

(* A range inside the range of a live cBuffer p may be handed out. *)
LEMMA InsideSuits ==
  ASSUME CleanInv, NEW p \in Slices, Live(p), NEW STATE r, r \in SliceRec, r.mb = ms[p].mb,
         r.until > 0, r.off + r.until <= End(p)
  PROVE  RangeSuits(mem, ms, newStatic, r, 0)
<1> DEFINE b == ms[p].mb
<1>1. /\ RangeFits(mem, ms[p], newStatic) /\ mem.nbytes[b] \in Nat /\ size(mem, b) \in Nat
      /\ mem.nbytes[b] <= size(mem, b) /\ ms[p].off \in Nat /\ ms[p].until \in Nat
  BY LiveClean
<1>2. r.off \in Nat /\ r.until \in Nat
  BY DEF SliceRec
<1>3. /\ End(p) <= size(mem, b)
      /\ End(p) <= mem.nbytes[b] \/ (mem.nbytes[b] = 0 /\ b # newStatic)
      /\ End(p) \in Nat
  BY <1>1 DEF RangeFits, End
<1> QED BY <1>1, <1>2, <1>3 DEF RangeSuits

(* Buffer:slice. *)
LEMMA SliceClean ==
  ASSUME CleanInv, NEW s \in Slices, NEW p \in Slices, NEW i \in Nat, NEW n \in Nat,
         buffer_slice(s, p, i, n)
  PROVE  CleanStep
<1> DEFINE r == [mb |-> ms[p].mb, off |-> ms[p].off + i - 1, until |-> n]
<1>1. /\ Free(s) /\ Live(p) /\ i \in 1 .. ms[p].until /\ n \in 1 .. ms[p].until - (i - 1)
      /\ mem' = lev_slab_incRef(mem, ms[p].mb) /\ ms' = Put(ms, s, r)
      /\ newStatic' = newStatic /\ readStatic' = readStatic
  BY DEF buffer_slice, Put
<1>2. /\ ms[p].mb \in Blocks /\ InUse(mem, ms[p].mb) /\ ms[p].off \in Nat /\ ms[p].until \in Nat
  BY <1>1, LiveClean
<1>3. r \in SliceRec /\ r.mb = ms[p].mb /\ r.until > 0 /\ r.off + r.until <= End(p)
  BY <1>1, <1>2 DEF SliceRec, End
<1>4. Pushed(mem, mem', ms[p].mb, 0)
  BY <1>1 DEF Pushed
<1> HIDE DEF r
<1>5. RangeSuits(mem, ms, newStatic, r, 0)
  BY <1>1, <1>3, InsideSuits
<1> QED BY <1>1, <1>2, <1>3, <1>4, <1>5, ShareCleanStep

(* A raw of at least one byte in a packed message. *)
LEMMA RawClean ==
  ASSUME CleanInv, CleanInputs, NEW s \in Slices, NEW p \in Slices, NEW o \in Nat,
         NEW n \in RawLens, mprbuf_unpack_raw(s, p, o, n)
  PROVE  CleanStep
<1> DEFINE r == [mb |-> ms[p].mb, off |-> ms[p].off + o, until |-> n]
<1>1. n \in Nat /\ n > 0 /\ UntilOf(mem, ms[p].mb, n) = n
  BY InputAssumption DEF CleanInputs, UntilOf
<1>2. /\ Free(s) /\ Live(p) /\ o \in 1 .. ms[p].until /\ n <= ms[p].until - o
      /\ mem' = lev_slab_incRef(mem, ms[p].mb) /\ ms' = Put(ms, s, r)
      /\ newStatic' = newStatic /\ readStatic' = readStatic
  BY <1>1 DEF mprbuf_unpack_raw, lev_pushbuffer_from_mb, Put
<1>3. /\ ms[p].mb \in Blocks /\ InUse(mem, ms[p].mb) /\ ms[p].off \in Nat /\ ms[p].until \in Nat
  BY <1>2, LiveClean
<1>4. r \in SliceRec /\ r.mb = ms[p].mb /\ r.until > 0 /\ r.off + r.until <= End(p)
  BY <1>1, <1>2, <1>3 DEF SliceRec, End
<1>5. Pushed(mem, mem', ms[p].mb, 0)
  BY <1>2 DEF Pushed
<1> HIDE DEF r
<1>6. RangeSuits(mem, ms, newStatic, r, 0)
  BY <1>2, <1>4, InsideSuits
<1> QED BY <1>2, <1>3, <1>4, <1>5, <1>6, ShareCleanStep

(* The copying half of buffer__concat, in place or to a new buffer. *)
LEMMA CopyClean ==
  ASSUME CleanInv, NEW s \in Slices, NEW p \in Slices, NEW STATE k, k \in Nat,
         Free(s), Live(p), ConcatCopy(s, p, k)
  PROVE  CleanStep
<1> DEFINE b == ms[p].mb
           r == [mb |-> b, off |-> ms[p].off, until |-> ms[p].until + k]
<1>1. /\ b \in Blocks /\ InUse(mem, b) /\ ms[p].off \in Nat /\ ms[p].until \in Nat
      /\ ms[p].until > 0 /\ mem.nbytes[b] \in Nat /\ size(mem, b) \in Nat
      /\ Room(mem, b) = size(mem, b) - mem.nbytes[b]
  BY LiveClean
<1>2. CASE lev_buffer_new(s, ms[p].until + k)
  <2>1. ms[p].until + k \in Nat /\ ms[p].until + k > 0
    BY <1>1
  <2> QED BY <1>2, <2>1, NewClean
<1>3. CASE /\ End(p) = mem.nbytes[b] /\ Room(mem, b) >= k
           /\ mem' = Consume(lev_slab_incRef(mem, b), b, k)
           /\ lev_pushbuffer_from_mb(mem, s, b, ms[p].off, ms[p].until + k)
           /\ UNCHANGED <<newStatic, readStatic>>
  <2>1. UntilOf(mem, b, ms[p].until + k) = ms[p].until + k
    BY <1>1 DEF UntilOf
  <2>2. ms' = Put(ms, s, r)
    BY <1>3, <2>1 DEF lev_pushbuffer_from_mb, Put
  <2>3. r \in SliceRec /\ r.mb = b /\ r.off = ms[p].off /\ r.until = ms[p].until + k
    BY <1>1 DEF SliceRec
  <2>4. Pushed(mem, mem', b, k)
    BY <1>3 DEF Pushed
  <2> HIDE DEF r
  <2>5. RangeSuits(mem, ms, newStatic, r, k)
    <3>1. ms[p].off + ms[p].until = mem.nbytes[b] /\ mem.nbytes[b] > 0
      BY <1>1, <1>3 DEF End
    <3> HIDE DEF b
    <3> QED BY <1>1, <1>3, <2>3, <3>1 DEF RangeSuits
  <2> QED BY <1>1, <1>3, <2>2, <2>3, <2>4, <2>5, ShareCleanStep
<1> QED BY <1>2, <1>3 DEF ConcatCopy

(* Both halves of buffer__concat. *)
LEMMA ConcatClean ==
  ASSUME CleanInv, NEW s \in Slices, NEW p \in Slices, NEW q \in Slices, buffer__concat(s, p, q)
  PROVE  CleanStep
<1>1. Free(s) /\ Live(p) /\ Live(q)
  BY DEF buffer__concat
<1>2. /\ ms[p].mb \in Blocks /\ InUse(mem, ms[p].mb) /\ ms[p].off \in Nat /\ ms[p].until \in Nat
      /\ ms[p].until > 0 /\ ms[q].off \in Nat /\ ms[q].until \in Nat
  BY <1>1, LiveClean
<1>3. CASE ConcatCopy(s, p, ms[q].until)
  BY <1>1, <1>2, <1>3, CopyClean
<1>4. CASE BackToBack(p, q) /\ ConcatUnion(s, p, q)
  <2> DEFINE b == ms[p].mb
             o == IF ms[p].off > ms[q].off THEN ms[q].off ELSE ms[p].off
             l == ms[p].until + ms[q].until
             r == [mb |-> b, off |-> o, until |-> l]
  <2>1. UntilOf(mem, b, l) = l /\ l \in Nat /\ o \in Nat /\ l > 0
    BY <1>2 DEF UntilOf
  <2>2. /\ ms' = Put(ms, s, r) /\ mem' = lev_slab_incRef(mem, b)
        /\ newStatic' = newStatic /\ readStatic' = readStatic
    BY <1>4, <2>1 DEF ConcatUnion, lev_pushbuffer_from_mb, Put
  <2>3. r \in SliceRec /\ r.mb = b /\ r.off = o /\ r.until = l
    BY <1>2, <2>1 DEF SliceRec
  <2>4. Pushed(mem, mem', b, 0)
    BY <2>2 DEF Pushed
  <2>5. ms[q].mb = b /\ (o + l = End(p) \/ o + l = End(q))
    BY <1>2, <1>4 DEF BackToBack, End
  <2> HIDE DEF r
  <2>6. RangeSuits(mem, ms, newStatic, r, 0)
    <3>1. CASE o + l = End(p)
      <4>1. r.off + r.until <= End(p) /\ r.until > 0
        BY <1>2, <2>1, <2>3, <3>1 DEF End
      <4> QED BY <4>1, <1>1, <2>3, InsideSuits
    <3>2. CASE o + l = End(q)
      <4>1. r.off + r.until <= End(q) /\ r.until > 0 /\ r.mb = ms[q].mb
        BY <1>2, <2>1, <2>3, <2>5, <3>2 DEF End
      <4> QED BY <4>1, <1>1, <2>3, InsideSuits
    <3> QED BY <2>5, <3>1, <3>2
  <2> QED BY <1>1, <1>2, <2>2, <2>3, <2>4, <2>6, ShareCleanStep
<1> QED BY <1>3, <1>4 DEF buffer__concat

(* A step that raises no nbytes appends nothing. *)
LEMMA NoAppend ==
  ASSUME NEW m, m.nbytes \in [Blocks -> Nat], NEW n, NEW f, NEW g,
         \A x \in Blocks : n.nbytes[x] = m.nbytes[x] \/ n.nbytes[x] = 0
  PROVE  Appends(m, n, f, g)
<1>1. \A x \in Blocks : m.nbytes[x] \in Nat
  OBVIOUS
<1>2. \A x \in Blocks : ~(n.nbytes[x] > m.nbytes[x])
  BY <1>1
<1> QED BY <1>2 DEF Appends

(* __gc of a cBuffer. *)
LEMMA GcClean ==
  ASSUME CleanInv, NEW s \in Slices, buffer__gc(s)
  PROVE  CleanStep
<1> DEFINE b == ms[s].mb
           u == UsersOf(ms, newStatic)
<1>1. /\ SlabOK(mem) /\ ms \in MsTypes /\ newStatic \in Blocks \cup {NULL}
      /\ Covers(mem, u) /\ Clean(mem, ms, newStatic, {readStatic}) /\ u \in [Blocks -> Nat]
      /\ mem.nbytes \in [Blocks -> Nat]
  BY CleanFacts, UsersType, SlabTypes DEF SlabOK
<1>2. /\ Live(s) /\ mem' = lev_slab_decRef(mem, b) /\ ms' = [ms EXCEPT ![s] = NoSlice]
      /\ newStatic' = newStatic /\ readStatic' = readStatic
  BY DEF buffer__gc
<1>3. b \in Blocks /\ ms[s].mb = b
  BY <1>2, LiveClean
<1>4. /\ ms' \in MsTypes /\ SameElse(ms, ms', s) /\ ms'[s].mb = NULL
      /\ \A t \in Slices : ms'[t].mb # NULL => ms'[t] = ms[t]
  BY <1>1, <1>2 DEF MsTypes, SliceRec, NoSlice, SameElse
<1> HIDE DEF b
<1>5. u[b] > 0 /\ UsersOf(ms', newStatic) = Dec(u, b)
  BY <1>1, <1>3, <1>4, DropUser
<1>6. Clean(mem', ms', newStatic, {readStatic})
  BY <1>1, <1>2, <1>3, <1>4, <1>5, ReleaseClean
<1>7. mem'.nbytes = mem.nbytes
  <2> HIDE DEF u
  <2> QED BY <1>1, <1>2, <1>3, <1>5, DecRefLemma
<1>8. Appends(mem, mem', ms, ms')
  BY <1>1, <1>7, NoAppend
<1> QED BY <1>2, <1>6, <1>8 DEF CleanStep

(* on_alloc: the block to read into is nobody's yet. *)
LEMMA AllocClean ==
  ASSUME CleanInv, on_alloc
  PROVE  CleanStep
<1> DEFINE u == UsersOf(ms, newStatic)
           short == readStatic # NULL /\ Room(mem, readStatic) < ReadSize
<1>1. /\ SlabOK(mem) /\ ms \in MsTypes /\ newStatic \in Blocks \cup {NULL}
      /\ Covers(mem, u) /\ Clean(mem, ms, newStatic, {readStatic}) /\ u \in [Blocks -> Nat]
      /\ mem.nbytes \in [Blocks -> Nat] /\ ReadOK(mem, u, readStatic) /\ NULL \notin Blocks
      /\ ReadSize \in Nat
  BY CleanFacts, UsersType, SlabTypes, SlabAssumption DEF SlabOK
<1>2. ~short
  BY <1>1 DEF ReadOK, Room
<1>3a. PICK c \in ClassesFor(ReadSize) : \E b \in Available(mem, c) :
         mem' = lev_slab_getBlock(mem, c, b) /\ readStatic' = b
  BY <1>2 DEF on_alloc
<1>3. PICK b \in Available(mem, c) : mem' = lev_slab_getBlock(mem, c, b) /\ readStatic' = b
  BY <1>3a
<1>4. c \in Classes /\ readStatic = NULL /\ newStatic' = newStatic /\ ms' = ms
  BY <1>2, ReadClass DEF on_alloc
<1>5. Clean(mem', ms, newStatic, {readStatic} \cup {b})
  BY <1>1, <1>3, <1>4, GetClean
<1>6. Clean(mem', ms', newStatic', {readStatic'})
  <2>1. \A x \in Blocks : x \in {readStatic} \cup {b} => x \in {readStatic'}
    BY <1>1, <1>3, <1>4
  <2> QED BY <1>4, <1>5, <2>1, WiderClean
<1>7. SameBut(mem, mem', b) /\ mem'.nbytes[b] = 0
  <2> HIDE DEF u
  <2> QED BY <1>1, <1>3, <1>4, GetBlockLemma
<1>8. Appends(mem, mem', ms, ms')
  <2>1. \A x \in Blocks : mem'.nbytes[x] = mem.nbytes[x] \/ mem'.nbytes[x] = 0
    BY <1>7 DEF SameBut
  <2> QED BY <1>1, <2>1, NoAppend
<1> QED BY <1>6, <1>8 DEF CleanStep

(* The read callbacks: the block goes to the cBuffer that is handed to     *)
(* Lua, or back to the slab on an error.  A read of 0 bytes still yields a *)
(* cBuffer, over the whole block.                                          *)
LEMMA ReadClean ==
  ASSUME CleanInv, NEW s \in Slices, NEW n \in Int, lev_pushbuffer_from_static_mb(s, n)
  PROVE  CleanStep
<1> DEFINE b == readStatic
           u == UsersOf(ms, newStatic)
<1>1. /\ SlabOK(mem) /\ ms \in MsTypes /\ newStatic \in Blocks \cup {NULL}
      /\ Covers(mem, u) /\ Clean(mem, ms, newStatic, {b}) /\ u \in [Blocks -> Nat]
      /\ mem.nbytes \in [Blocks -> Nat] /\ ReadOK(mem, u, b) /\ NULL \notin Blocks /\ b # NULL
  BY CleanFacts, UsersType, SlabTypes DEF SlabOK, lev_pushbuffer_from_static_mb
<1>2. /\ b \in Blocks /\ InUse(mem, b) /\ u[b] = 0 /\ size(mem, b) = ReadSize /\ mem.nbytes[b] = 0
      /\ size(mem, b) \in Nat /\ size(mem, b) > 0 /\ b # newStatic
  BY <1>1, SizeType, Unowned DEF ReadOK, SlabOK
<1>3. readStatic' = NULL /\ newStatic' = newStatic
  BY <1>2 DEF lev_pushbuffer_from_static_mb
<1>4. CASE /\ mem' = lev_slab_decRef(lev_slab_incRef(mem, b), b)
           /\ UNCHANGED ms
  <2> DEFINE m == lev_slab_incRef(mem, b)
             v == Inc(u, b)
  <2> HIDE DEF u, b
  <2>1. SlabOK(m) /\ Covers(m, v) /\ SameBut(mem, m, b) /\ m.nbytes = mem.nbytes
    BY <1>1, <1>2, IncRefLemma
  <2>1a. m.refcount[b] = mem.refcount[b] + 1
    BY <1>1, <1>2, IncRefLemma
  <2>2. v \in [Blocks -> Nat] /\ v[b] > 0 /\ m.refcount[b] = 1
    <3>1. mem.refcount[b] = 0
      BY <1>1, <1>2 DEF Clean, Exact, u
    <3> QED BY <1>1, <1>2, <2>1a, <3>1, PlusMinus
  <2> HIDE DEF m, v
  <2>3. SameBut(m, mem', b) /\ mem'.nbytes = m.nbytes
    BY <1>2, <1>4, <2>1, <2>2, DecRefLemma DEF m
  <2>4. ~InUse(mem', b)
    BY <1>2, <1>4, <2>1, <2>2, DecRefLemma DEF m
  <2>5. SameBut(mem, mem', b)
    BY <2>1, <2>3 DEF SameBut
  <2>6. Clean(mem', ms, newStatic, {b} \ {b})
    BY <1>1, <1>2, <2>4, <2>5, GoneClean DEF u
  <2>7. Clean(mem', ms', newStatic', {readStatic'})
    <3>1. \A x \in Blocks : x \in {b} \ {b} => x \in {readStatic'}
      OBVIOUS
    <3> QED BY <1>3, <1>4, <2>6, <3>1, WiderClean
  <2>8. Appends(mem, mem', ms, ms')
    BY <1>1, <2>1, <2>3, NoAppend
  <2> QED BY <2>7, <2>8 DEF CleanStep
<1>5. CASE /\ Free(s) /\ n \in 0 .. Room(mem, b)
           /\ mem' = Consume(lev_slab_incRef(mem, b), b, n)
           /\ lev_pushbuffer_from_mb(mem, s, b, mem.nbytes[b], n)
  <2> DEFINE l == UntilOf(mem, b, n)
             r == [mb |-> b, off |-> mem.nbytes[b], until |-> l]
  <2>1. n \in Nat /\ n <= size(mem, b)
    BY <1>2, <1>5 DEF Room
  <2>2. l = IF n = 0 THEN size(mem, b) ELSE n
    BY <1>2 DEF UntilOf
  <2> HIDE DEF l
  <2>3. r \in SliceRec /\ r.mb = b /\ r.off = 0 /\ r.until = l /\ l \in Nat
    BY <1>2, <2>1, <2>2 DEF SliceRec
  <2>4. ms' = Put(ms, s, r)
    BY <1>5 DEF lev_pushbuffer_from_mb, Put, l
  <2> HIDE DEF r
  <2>5. RangeSuits(mem, ms, newStatic, r, n)
    BY <1>2, <2>1, <2>2, <2>3 DEF RangeSuits
  <2>6. Pushed(mem, mem', b, n)
    BY <1>5 DEF Pushed
  <2> QED BY <1>2, <1>3, <1>5, <2>1, <2>3, <2>4, <2>5, <2>6, ShareCleanStep
<1> QED BY <1>2, <1>4, <1>5 DEF lev_pushbuffer_from_static_mb

(* msgpack_pack_api: the message gets a block of its own. *)
LEMMA PackClean ==
  ASSUME CleanInv, NEW s \in Slices, msgpack_pack_api(s)
  PROVE  CleanStep
<1>1. PICK n \in PackSizes : \E c \in ClassesFor(n) : \E b \in Available(mem, c) :
        LET m == lev_slab_getBlock(mem, c, b)
        IN mem' = lev_slab_incRef(m, b) /\ lev_pushbuffer_from_mb(m, s, b, 0, n)
  BY DEF msgpack_pack_api
<1>2a. PICK c \in ClassesFor(n) : \E b \in Available(mem, c) :
        LET m == lev_slab_getBlock(mem, c, b)
        IN mem' = lev_slab_incRef(m, b) /\ lev_pushbuffer_from_mb(m, s, b, 0, n)
  BY <1>1
<1>2. PICK b \in Available(mem, c) :
        LET m == lev_slab_getBlock(mem, c, b)
        IN mem' = lev_slab_incRef(m, b) /\ lev_pushbuffer_from_mb(m, s, b, 0, n)
  BY <1>2a
<1> DEFINE m == lev_slab_getBlock(mem, c, b)
           r == [mb |-> b, off |-> 0, until |-> n]
           P == {readStatic}
           u == UsersOf(ms, newStatic)
<1>3. /\ SlabOK(mem) /\ ms \in MsTypes /\ newStatic \in Blocks \cup {NULL}
      /\ Covers(mem, u) /\ Clean(mem, ms, newStatic, P) /\ u \in [Blocks -> Nat]
  BY CleanFacts, UsersType
<1>4. n \in Nat /\ n > 0 /\ c \in Classes /\ n <= ClassSize[c] /\ ClassSize[c] \in Nat
  BY InputAssumption, SlabAssumption DEF ClassesFor, Classes
<1>5. b \in Blocks
  <2> HIDE DEF u
  <2> QED BY <1>3, <1>4, GetBlockLemma
<1>6. UntilOf(m, b, n) = n
  BY <1>4 DEF UntilOf
<1>7. /\ ms' = Put(ms, s, r) /\ mem' = lev_slab_incRef(m, b) /\ ms[s].mb = NULL
      /\ newStatic' = newStatic /\ readStatic' = readStatic
  BY <1>2, <1>6 DEF msgpack_pack_api, lev_pushbuffer_from_mb, Put, Free
<1>8. /\ r \in SliceRec /\ r.mb = b /\ r.until > 0 /\ r.off + r.until <= ClassSize[c]
      /\ m = lev_slab_getBlock(mem, c, b) /\ 0 <= ClassSize[c]
  BY <1>4, <1>5 DEF SliceRec
<1>9. Pushed(m, mem', b, 0)
  BY <1>7 DEF Pushed
<1> HIDE DEF m, r, P
<1>10. Clean(mem', ms', newStatic, P) /\ Appends(mem, mem', ms, ms')
  BY <1>3, <1>4, <1>7, <1>8, <1>9, FreshResult
<1> QED BY <1>7, <1>10 DEF CleanStep, P

(* setuid and setgid with a known name: the scratch block is given back. *)
LEMMA SetuidClean ==
  ASSUME CleanInv, CleanInputs, NEW o \in Lookups, core_setuid(o)
  PROVE  CleanStep
<1> DEFINE u == UsersOf(ms, newStatic)
<1>1. o = "found"
  BY InputAssumption DEF CleanInputs
<1>2a. PICK c \in ClassesFor(1) : \E b \in Available(mem, c) :
         mem' = lev_slab_decRef(lev_slab_incRef(lev_slab_getBlock(mem, c, b), b), b)
  BY <1>1 DEF core_setuid
<1>2. PICK b \in Available(mem, c) :
         mem' = lev_slab_decRef(lev_slab_incRef(lev_slab_getBlock(mem, c, b), b), b)
  BY <1>2a
<1> DEFINE k == lev_slab_getBlock(mem, c, b)
           m == lev_slab_incRef(k, b)
           v == Inc(u, b)
<1>3. /\ SlabOK(mem) /\ ms \in MsTypes /\ newStatic \in Blocks \cup {NULL}
      /\ Covers(mem, u) /\ Clean(mem, ms, newStatic, {readStatic}) /\ u \in [Blocks -> Nat]
      /\ mem.nbytes \in [Blocks -> Nat] /\ ReadOK(mem, u, readStatic) /\ NULL \notin Blocks
      /\ c \in Classes /\ newStatic' = newStatic /\ ms' = ms /\ readStatic' = readStatic
  BY CleanFacts, UsersType, SlabTypes DEF SlabOK, ClassesFor, core_setuid
<1>4. /\ SlabOK(k) /\ Covers(k, u) /\ SameBut(mem, k, b) /\ b \in Blocks
      /\ InUse(k, b) /\ u[b] = 0 /\ k.refcount[b] = 0 /\ k.nbytes[b] = 0
  <2> HIDE DEF u
  <2> QED BY <1>3, GetBlockLemma
<1>5. Clean(k, ms, newStatic, {readStatic} \cup {b})
  BY <1>3, GetClean
<1>6. SlabOK(m) /\ Covers(m, v) /\ SameBut(k, m, b) /\ m.nbytes = k.nbytes
  <2> HIDE DEF u, k
  <2> QED BY <1>3, <1>4, IncRefLemma
<1>7. m.refcount[b] = 1
  <2>1. m.refcount[b] = k.refcount[b] + 1
    <3> HIDE DEF u, k
    <3> QED BY <1>3, <1>4, IncRefLemma
  <2> HIDE DEF m, k
  <2> QED BY <1>4, <2>1
<1>8. v \in [Blocks -> Nat] /\ v[b] > 0
  <2> HIDE DEF u
  <2> QED BY <1>3, <1>4, PlusMinus
<1>9. mem' = lev_slab_decRef(m, b)
  BY <1>2
<1>10. SameBut(m, mem', b) /\ mem'.nbytes = m.nbytes
  <2> HIDE DEF u, v, m
  <2> QED BY <1>4, <1>6, <1>8, <1>9, DecRefLemma
<1>11. ~InUse(mem', b)
  <2> HIDE DEF u, v, m
  <2> QED BY <1>4, <1>6, <1>7, <1>8, <1>9, DecRefLemma
<1> DEFINE P == {readStatic} \cup {b}
<1> HIDE DEF k, m, v
<1>12. SameBut(k, mem', b)
  BY <1>6, <1>10 DEF SameBut
<1>13. Clean(mem', ms, newStatic, P \ {b})
  <2>1. Clean(k, ms, newStatic, P) /\ UsersOf(ms, newStatic)[b] = 0
    BY <1>4, <1>5
  <2> HIDE DEF P
  <2> QED BY <1>3, <1>4, <1>11, <1>12, <2>1, GoneClean
<1>14. Clean(mem', ms', newStatic', {readStatic'})
  <2>1. \A x \in Blocks : x \in P \ {b} => x \in {readStatic}
    OBVIOUS
  <2> HIDE DEF P
  <2> QED BY <1>3, <1>13, <2>1, WiderClean
<1>15. Appends(mem, mem', ms, ms')
  <2>1. \A x \in Blocks : mem'.nbytes[x] = mem.nbytes[x] \/ mem'.nbytes[x] = 0
    BY <1>4, <1>6, <1>10 DEF SameBut
  <2> QED BY <1>3, <2>1, NoAppend
<1> QED BY <1>14, <1>15 DEF CleanStep

-----------------------------------------------------------------------------
(* lev_slab_fill leaves no block in use and no cBuffer. *)
LEMMA CleanInit == ASSUME Init PROVE CleanInv
<1>1. IInv
  BY InitLemma
<1>2. PICK pool \in Filled :
        mem = [heap |-> {b \in Blocks : \E c \in Classes : \E i \in 1 .. Len(pool[c]) : pool[c][i] = b},
               pool |-> pool, class |-> [b \in Blocks |-> 1],
               refcount |-> [b \in Blocks |-> 0], nbytes |-> [b \in Blocks |-> 0]]
  BY DEF Init
<1>3. mem.heap = {b \in Blocks : IsPooled(mem, b)}
  BY <1>2 DEF IsPooled
<1>4. \A b \in Blocks : ~InUse(mem, b)
  BY <1>3 DEF InUse
<1>5. ms = [s \in Slices |-> NoSlice] /\ newStatic = NULL
  BY DEF Init
<1>6. \A s \in Slices : ms[s].mb = NULL
  BY <1>5 DEF NoSlice
<1>7. Clean(mem, ms, newStatic, {readStatic})
  BY <1>4, <1>5, <1>6 DEF Clean, Exact, Fits
<1> QED BY <1>1, <1>7 DEF CleanInv

(* Every operation of a clean client. *)
LEMMA CleanNext == ASSUME CleanInputs, CleanInv, Next PROVE CleanStep
<1>1. ASSUME NEW s \in Slices, buffer_new(s) PROVE CleanStep
  <2>1. PICK n \in NewSizes : lev_buffer_new(s, n)
    BY <1>1 DEF buffer_new
  <2>2. n \in Nat /\ n > 0
    BY InputAssumption DEF CleanInputs
  <2> QED BY <2>1, <2>2, NewClean
<1>2. ASSUME NEW s \in Slices, NEW p \in Slices, NEW i \in 1 .. MaxBytes, NEW n \in 1 .. MaxBytes,
             buffer_slice(s, p, i, n)
      PROVE  CleanStep
  BY <1>2, SliceClean, InputAssumption
<1>3. ASSUME NEW s \in Slices, buffer__gc(s) PROVE CleanStep
  BY <1>3, GcClean
<1>4. ASSUME NEW s \in Slices, NEW p \in Slices, NEW q \in Slices, buffer__concat(s, p, q)
      PROVE  CleanStep
  BY <1>4, ConcatClean
<1>5. ASSUME NEW s \in Slices, NEW p \in Slices, buffer__concat_string(s, p) PROVE CleanStep
  <2>1. PICK n \in StrLens : ConcatCopy(s, p, n)
    BY <1>5 DEF buffer__concat_string
  <2>2. Free(s) /\ Live(p) /\ n \in Nat
    BY <1>5, InputAssumption DEF buffer__concat_string
  <2> QED BY <2>1, <2>2, CopyClean
<1>6. ASSUME NEW s \in Slices, NEW q \in Slices, string__concat_buffer(s, q) PROVE CleanStep
  <2>1. Live(q) /\ lev_buffer_new(s, ms[q].until)
    BY <1>6 DEF string__concat_buffer
  <2>2. ms[q].until \in Nat /\ ms[q].until > 0
    BY <2>1, LiveClean
  <2> QED BY <2>1, <2>2, NewClean
<1>7. ASSUME NEW n \in StoreLens PROVE FALSE
  BY <1>7 DEF CleanInputs
<1>8. CASE on_alloc
  BY <1>8, AllocClean
<1>9. ASSUME NEW s \in Slices, NEW n \in -1 .. ReadSize, lev_pushbuffer_from_static_mb(s, n)
      PROVE  CleanStep
  BY <1>9, ReadClean
<1>10. ASSUME NEW s \in Slices, msgpack_pack_api(s) PROVE CleanStep
  BY <1>10, PackClean
<1>11. ASSUME NEW s \in Slices, NEW p \in Slices, NEW o \in 1 .. MaxBytes, NEW n \in RawLens,
              mprbuf_unpack_raw(s, p, o, n)
       PROVE  CleanStep
  <2>1. o \in Nat
    BY InputAssumption
  <2> QED BY <1>11, <2>1, RawClean
<1>12. ASSUME NEW o \in Lookups, core_setuid(o) PROVE CleanStep
  BY <1>12, SetuidClean
<1> QED
  BY <1>1, <1>2, <1>3, <1>4, <1>5, <1>6, <1>7, <1>8, <1>9, <1>10, <1>11, <1>12 DEF Next

(* The invariant holds in every state that clean clients can reach. *)
LEMMA CleanHolds == ASSUME CleanInputs PROVE Spec => []CleanInv
<1>1. Init => CleanInv
  BY CleanInit
<1>2. ASSUME CleanInv, [Next]_vars PROVE CleanInv'
  <2>1. IInv'
    BY <1>2, NextLemma DEF CleanInv
  <2>2. CASE Next
    BY <1>2, <2>1, <2>2, CleanNext DEF CleanInv, CleanStep
  <2>3. CASE UNCHANGED vars
    BY <1>2, <2>1, <2>3 DEF vars, CleanInv
  <2> QED BY <1>2, <2>2, <2>3
<1> QED BY <1>1, <1>2, PTL DEF Spec

(* No leak: the refcount of a block in use counts its userdata and the     *)
(* static pointer and nothing else, and only the read block has none, so   *)
(* that the last __gc gives the block back whatever the order of the calls *)
(* before it.                                                              *)
THEOREM NoLeak == ASSUME CleanInputs PROVE Spec => []EveryBlockHasItsOwners
<1>1. ASSUME CleanInv PROVE EveryBlockHasItsOwners
  <2>1. \A b \in Blocks : Users(b) = UsersOf(ms, newStatic)[b]
    BY DEF Users, UsersOf, On
  <2>2. Exact(mem, UsersOf(ms, newStatic), {readStatic})
    BY <1>1 DEF CleanInv, Clean
  <2> QED BY <2>1, <2>2 DEF EveryBlockHasItsOwners, Exact
<1> QED BY <1>1, CleanHolds, PTL

(* A cBuffer covers a non-empty range of its block, and on a block that is *)
(* still handed out piecewise only bytes that nbytes accounts for.         *)
THEOREM SlicesAreInside == ASSUME CleanInputs PROVE Spec => []SlicesStayInside
<1>1. ASSUME CleanInv PROVE SlicesStayInside
  <2>1. \A s \in Slices : Live(s) => RangeFits(mem, ms[s], newStatic)
    BY <1>1 DEF CleanInv, Clean, Live
  <2> QED BY <2>1 DEF SlicesStayInside, RangeFits, End
<1> QED BY <1>1, CleanHolds, PTL

(* nbytes never passes the size of the block: Buffer:new, the in-place     *)
(* concat and the reads check the room that is left before they add.       *)
THEOREM BlocksAreNotOverfilled == ASSUME CleanInputs PROVE Spec => []NbytesWithinBlock
<1>1. CleanInv => NbytesWithinBlock
  BY DEF CleanInv, Clean, Fits, NbytesWithinBlock
<1> QED BY <1>1, CleanHolds, PTL

(* Buffer:new, the in-place concat and the reads write only bytes that no  *)
(* cBuffer alive before the step covers, and hand out exactly these.       *)
THEOREM AppendsAreDisjoint == ASSUME CleanInputs PROVE Spec => AppendTouchesNoOther
<1> DEFINE A == \A b \in Blocks : mem'.nbytes[b] > mem.nbytes[b] =>
             /\ \A s \in Slices : ms[s].mb = b => End(s) <= mem.nbytes[b]
             /\ \A s \in Slices : ms'[s].mb = b /\ ms'[s] # ms[s] => End(s)' = mem'.nbytes[b]
<1>1. ASSUME CleanInv, [Next]_vars PROVE [A]_vars
  <2>1. CASE Next
    <3>1. Appends(mem, mem', ms, ms')
      BY <1>1, <2>1, CleanNext DEF CleanStep
    <3>2. A
      BY <3>1 DEF Appends, End
    <3> QED BY <3>2
  <2>2. CASE UNCHANGED vars
    BY <2>2
  <2> QED BY <1>1, <2>1, <2>2
<1> QED BY <1>1, CleanHolds, PTL DEF Spec, AppendTouchesNoOther
=============================================================================
