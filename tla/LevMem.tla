------------------------------- MODULE LevMem -------------------------------
(***************************************************************************)
(* The memory of lev: the slab allocator (lev_slab.c), the MemSlice        *)
(* userdata that Lua sees as cBuffers (lev_new_buffer.c), the block that   *)
(* libuv reads into (lev_new_base.c) and the other clients of the slab     *)
(* (lev_mpack.c, lev_new_core.c).                                          *)
(*                                                                         *)
(* Bytes are not modelled: a cBuffer is the range of its block it covers.  *)
(* A process has one thread that runs C code to completion, so an          *)
(* operation is one action; Lua's collector may finalise an unreachable    *)
(* cBuffer between any two of them.                                        *)
(***************************************************************************)
EXTENDS Integers, Sequences, FiniteSets

CONSTANTS
  Blocks,     \* addresses malloc may return for a MemBlock
  Slices,     \* userdata that may hold a MemSlice
  NULL,       \* the null pointer
  ClassSize,  \* block size of each slab class (mem_1k, mem_8k, ...)
  PoolMin,    \* pool_min of each slab class
  ReadSize,   \* STATIC_MB_SIZE, the block a read is made into
  Word,       \* 2^w of size_t
  MaxBytes,   \* bound on nbytes and offsets, reached once a block overflows
  NewSizes,   \* lengths asked of Buffer:new
  StrLens,    \* lengths of the Lua strings concatenated to a cBuffer
  StoreLens,  \* lengths of the strings stored by buf[i] = str
  PackSizes,  \* lengths of packed messages
  RawLens,    \* lengths of the raws found in a packed message
  Lookups     \* outcomes of getpwnam_r: a subset of {"found", "unknown"}

Classes == 1 .. Len(ClassSize)

ASSUME SlabAssumption ==
  /\ ClassSize \in Seq(Nat \ {0})
  /\ PoolMin \in Seq(Nat)
  /\ Len(PoolMin) = Len(ClassSize)
  /\ \A c, d \in Classes : c < d => ClassSize[c] < ClassSize[d]
  /\ ReadSize \in Nat
  /\ \E c \in Classes : ClassSize[c] = ReadSize

ASSUME InputAssumption ==
  /\ NULL \notin Blocks
  /\ IsFiniteSet(Slices)
  /\ Word \in Nat
  /\ MaxBytes \in Nat
  /\ \A c \in Classes : ClassSize[c] < Word
  /\ NewSizes \subseteq Nat
  /\ StrLens \subseteq Nat
  /\ StoreLens \subseteq Nat
  /\ PackSizes \subseteq Nat \ {0}
  /\ RawLens \subseteq Nat
  /\ Lookups \subseteq {"found", "unknown"}

VARIABLES
  mem,        \* the MemBlocks and the pools of the slab
  ms,         \* the MemSlice of each userdata; mb = NULL when there is none
  newStatic,  \* _static_mb of lev_new_buffer.c
  readStatic  \* _static_mb of lev_new_base.c

vars == <<mem, ms, newStatic, readStatic>>

-----------------------------------------------------------------------------
(***************************************************************************)
(* lev_slab.c.  A state m of the slab holds the blocks obtained from       *)
(* malloc (heap), the free lists (pool) and the header of each block.      *)
(***************************************************************************)
SlabStates ==
  [heap : SUBSET Blocks, pool : [Classes -> Seq(Blocks)],
   class : [Blocks -> Classes], refcount : [Blocks -> Int],
   nbytes : [Blocks -> Nat]]

IsPooled(m, b) ==
  \E c \in Classes : \E i \in 1 .. Len(m.pool[c]) : m.pool[c][i] = b

InUse(m, b) == b \in m.heap /\ ~IsPooled(m, b)

size(m, b) == ClassSize[m.class[b]]

(* mb->size - mb->nbytes, an unsigned difference. *)
Room(m, b) ==
  IF m.nbytes[b] <= size(m, b)
    THEN size(m, b) - m.nbytes[b]
    ELSE Word + size(m, b) - m.nbytes[b]

(* The class a request is served from: the smallest that is large enough.  *)
(* There is none above the largest class: lev_slab_getBlock returns NULL,  *)
(* which its callers dereference.                                          *)
ClassesFor(n) ==
  {c \in Classes : n <= ClassSize[c] /\ \A d \in Classes : d < c => n > ClassSize[d]}

(* The blocks a request may get: the last one shelved, else any address    *)
(* malloc may return.                                                      *)
Available(m, c) ==
  IF m.pool[c] # <<>> THEN {m.pool[c][Len(m.pool[c])]} ELSE Blocks \ m.heap

lev_slab_getBlock(m, c, b) ==
  [heap     |-> m.heap \cup {b},
   pool     |-> IF m.pool[c] # <<>>
                  THEN [m.pool EXCEPT ![c] = SubSeq(@, 1, Len(@) - 1)]
                  ELSE m.pool,
   class    |-> [m.class EXCEPT ![b] = c],
   refcount |-> [m.refcount EXCEPT ![b] = 0],
   nbytes   |-> [m.nbytes EXCEPT ![b] = 0]]

lev_slab_incRef(m, b) ==
  [m EXCEPT !.refcount = [m.refcount EXCEPT ![b] = @ + 1]]

(* Faulty variant: shelves one block too many. *)
decRef_overfull(m, b) ==
  LET c    == m.class[b]
      last == m.refcount[b] = 1
      room == Len(m.pool[c]) <= PoolMin[c]
  IN [heap     |-> IF last /\ ~room THEN m.heap \ {b} ELSE m.heap,
      pool     |-> IF last /\ room THEN [m.pool EXCEPT ![c] = Append(@, b)] ELSE m.pool,
      class    |-> m.class,
      refcount |-> [m.refcount EXCEPT ![b] = @ - 1],
      nbytes   |-> m.nbytes]

lev_slab_decRef(m, b) ==
  LET c    == m.class[b]
      last == m.refcount[b] = 1
      room == Len(m.pool[c]) < PoolMin[c]
  IN [heap     |-> IF last /\ ~room THEN m.heap \ {b} ELSE m.heap,
      pool     |-> IF last /\ room THEN [m.pool EXCEPT ![c] = Append(@, b)] ELSE m.pool,
      class    |-> m.class,
      refcount |-> [m.refcount EXCEPT ![b] = @ - 1],
      nbytes   |-> m.nbytes]

(* mb->nbytes += n *)
Consume(m, b, n) == [m EXCEPT !.nbytes = [m.nbytes EXCEPT ![b] = @ + n]]

-----------------------------------------------------------------------------
(* Userdata. *)
Free(s) == ms[s].mb = NULL
Live(s) == ms[s].mb # NULL
End(s) == ms[s].off + ms[s].until
NoSlice == [mb |-> NULL, off |-> 0, until |-> 0]

(* lev_pushbuffer_from_mb: a length of 0 stands for everything the block   *)
(* holds, or for its whole size when nothing is accounted for.  Its        *)
(* reference to the block is taken in mem' by the callers.                 *)
UntilOf(m, b, until) ==
  IF until # 0 THEN until
  ELSE IF m.nbytes[b] = 0 THEN size(m, b) ELSE m.nbytes[b]

lev_pushbuffer_from_mb(m, s, b, off, until) ==
  ms' = [ms EXCEPT ![s] = [mb |-> b, off |-> off, until |-> UntilOf(m, b, until)]]

-----------------------------------------------------------------------------
(***************************************************************************)
(* lev_buffer_new carves n bytes out of the static block, replacing it     *)
(* when it lacks room.  The block's first user takes a reference for the   *)
(* static pointer; a request for the whole block takes the block over.     *)
(***************************************************************************)
(* Faulty variant: accepts a block that is one byte short. *)
NeedsBlock_short(n) == IF newStatic = NULL THEN TRUE ELSE Room(mem, newStatic) + 1 < n

NeedsBlock(n) == IF newStatic = NULL THEN TRUE ELSE Room(mem, newStatic) < n

(* Faulty variant: forgets to release the block it replaces. *)
Retired_kept(n) == mem

Retired(n) ==
  IF newStatic # NULL /\ Room(mem, newStatic) < n
    THEN lev_slab_decRef(mem, newStatic) ELSE mem

(* Faulty variant: the cBuffer covers a terminator that is not reserved. *)
CarveFrom_long(s, n, m, b) ==
  LET whole == n = size(m, b)
      held  == IF ~whole /\ m.refcount[b] = 0 THEN lev_slab_incRef(m, b) ELSE m
  IN /\ m.nbytes[b] + n <= MaxBytes
     /\ newStatic' = IF whole THEN NULL ELSE b
     /\ lev_pushbuffer_from_mb(m, s, b, m.nbytes[b], n + 1)
     /\ mem' = Consume(lev_slab_incRef(held, b), b, n)

(* The rest of lev_buffer_new, once the block b of slab state m is chosen. *)
CarveFrom(s, n, m, b) ==
  LET whole == n = size(m, b)
      held  == IF ~whole /\ m.refcount[b] = 0 THEN lev_slab_incRef(m, b) ELSE m
  IN /\ m.nbytes[b] + n <= MaxBytes
     /\ newStatic' = IF whole THEN NULL ELSE b
     /\ lev_pushbuffer_from_mb(m, s, b, m.nbytes[b], n)
     /\ mem' = Consume(lev_slab_incRef(held, b), b, n)

lev_buffer_new(s, n) ==
  /\ Free(s)
  /\ UNCHANGED readStatic
  /\ \/ /\ ~NeedsBlock(n)
        /\ CarveFrom(s, n, mem, newStatic)
     \/ /\ NeedsBlock(n)
        /\ \E c \in ClassesFor(n) : \E b \in Available(Retired(n), c) :
             CarveFrom(s, n, lev_slab_getBlock(Retired(n), c, b), b)

buffer_new(s) == \E n \in NewSizes : lev_buffer_new(s, n)

(* Faulty variants: an offset counted from 0, and a missing reference. *)
buffer_slice_off(s, p, offset, length) ==
  /\ Free(s) /\ Live(p)
  /\ offset \in 1 .. ms[p].until
  /\ length \in 1 .. ms[p].until - (offset - 1)
  /\ mem' = lev_slab_incRef(mem, ms[p].mb)
  /\ ms' = [ms EXCEPT ![s] = [mb |-> ms[p].mb, off |-> ms[p].off + offset - 2,
                              until |-> length]]
  /\ UNCHANGED <<newStatic, readStatic>>

buffer_slice_unref(s, p, offset, length) ==
  /\ Free(s) /\ Live(p)
  /\ offset \in 1 .. ms[p].until
  /\ length \in 1 .. ms[p].until - (offset - 1)
  /\ ms' = [ms EXCEPT ![s] = [mb |-> ms[p].mb, off |-> ms[p].off + offset - 1,
                              until |-> length]]
  /\ UNCHANGED <<mem, newStatic, readStatic>>

(* A slice shares its parent's block. *)
buffer_slice(s, p, offset, length) ==
  /\ Free(s) /\ Live(p)
  /\ offset \in 1 .. ms[p].until
  /\ length \in 1 .. ms[p].until - (offset - 1)
  /\ mem' = lev_slab_incRef(mem, ms[p].mb)
  /\ ms' = [ms EXCEPT ![s] = [mb |-> ms[p].mb, off |-> ms[p].off + offset - 1,
                              until |-> length]]
  /\ UNCHANGED <<newStatic, readStatic>>

buffer__gc(s) ==
  /\ Live(s)
  /\ mem' = lev_slab_decRef(mem, ms[s].mb)
  /\ ms' = [ms EXCEPT ![s] = NoSlice]
  /\ UNCHANGED <<newStatic, readStatic>>

-----------------------------------------------------------------------------
(***************************************************************************)
(* buffer__concat.  Two adjacent ranges of one block are united; a buffer  *)
(* that ends where its block's data ends is extended in place when there   *)
(* is room; otherwise both operands are copied to a new buffer.  A string  *)
(* on the left counts for nothing, its length being read from argument 2.  *)
(***************************************************************************)
BackToBack(p, q) ==
  /\ ms[p].mb = ms[q].mb
  /\ \/ ms[p].off > ms[q].off /\ End(q) = ms[p].off
     \/ ms[q].off > ms[p].off /\ End(p) = ms[q].off

ConcatUnion(s, p, q) ==
  /\ mem' = lev_slab_incRef(mem, ms[p].mb)
  /\ lev_pushbuffer_from_mb(mem, s, ms[p].mb,
                            IF ms[p].off > ms[q].off THEN ms[q].off ELSE ms[p].off,
                            ms[p].until + ms[q].until)
  /\ UNCHANGED <<newStatic, readStatic>>

(* Faulty variant: extends a buffer that is not the last of its block. *)
ConcatCopy_anywhere(s, p, len) ==
  LET b == ms[p].mb
  IN \/ /\ Room(mem, b) >= len
        /\ mem.nbytes[b] + len <= MaxBytes
        /\ mem' = Consume(lev_slab_incRef(mem, b), b, len)
        /\ lev_pushbuffer_from_mb(mem, s, b, ms[p].off, ms[p].until + len)
        /\ UNCHANGED <<newStatic, readStatic>>
     \/ /\ Room(mem, b) < len
        /\ lev_buffer_new(s, ms[p].until + len)

ConcatCopy(s, p, len) ==
  LET b == ms[p].mb
  IN \/ /\ End(p) = mem.nbytes[b] /\ Room(mem, b) >= len
        /\ mem.nbytes[b] + len <= MaxBytes
        /\ mem' = Consume(lev_slab_incRef(mem, b), b, len)
        /\ lev_pushbuffer_from_mb(mem, s, b, ms[p].off, ms[p].until + len)
        /\ UNCHANGED <<newStatic, readStatic>>
     \/ /\ ~(End(p) = mem.nbytes[b] /\ Room(mem, b) >= len)
        /\ lev_buffer_new(s, ms[p].until + len)

buffer__concat(s, p, q) ==
  /\ Free(s) /\ Live(p) /\ Live(q)
  /\ \/ BackToBack(p, q) /\ ConcatUnion(s, p, q)
     \/ ~BackToBack(p, q) /\ ConcatCopy(s, p, ms[q].until)

buffer__concat_string(s, p) ==
  /\ Free(s) /\ Live(p)
  /\ \E n \in StrLens : ConcatCopy(s, p, n)

string__concat_buffer(s, q) ==
  /\ Live(q)
  /\ lev_buffer_new(s, ms[q].until)

-----------------------------------------------------------------------------
(***************************************************************************)
(* buffer__newindex with a string or a buffer: lev_memslice_append_mem     *)
(* makes sure that the stored bytes and a terminator fit, and may resize.  *)
(***************************************************************************)
GrowsInPlace(s, n) ==
  LET b == ms[s].mb
  IN End(s) = mem.nbytes[b] /\ n <= ms[s].until + Room(mem, b)

lev_memslice_resize(s, want) ==
  LET b == ms[s].mb
      n == want + 1
  IN \/ /\ GrowsInPlace(s, n)
        /\ mem.nbytes[b] + n <= MaxBytes
        /\ mem' = Consume(mem, b, n)
        /\ ms' = [ms EXCEPT ![s].until = n]
     \/ /\ ~GrowsInPlace(s, n)
        /\ n <= MaxBytes
        /\ \E c \in ClassesFor(n) : \E nb \in Available(mem, c) :
             LET got == lev_slab_incRef(lev_slab_getBlock(mem, c, nb), nb)
             IN /\ mem' = Consume(lev_slab_decRef(got, b), nb, n)
                /\ ms' = [ms EXCEPT ![s] = [mb |-> nb, off |-> 0, until |-> n]]

(* A store that fits leaves this state alone. *)
buffer__newindex(s, index, len) ==
  /\ Live(s)
  /\ index - 1 <= ms[s].until
  /\ index - 1 + len > ms[s].until - 1
  /\ lev_memslice_resize(s, index - 1 + len)
  /\ UNCHANGED <<newStatic, readStatic>>

-----------------------------------------------------------------------------
(***************************************************************************)
(* The read path.  libuv calls on_alloc for a place to read to and then a  *)
(* read callback, which hands the block over with the bytes read, or       *)
(* disposes of it on error.                                                *)
(***************************************************************************)
on_alloc ==
  LET short == readStatic # NULL /\ Room(mem, readStatic) < ReadSize
      m     == IF short THEN lev_slab_decRef(mem, readStatic) ELSE mem
  IN /\ readStatic = NULL \/ short
     /\ \E c \in ClassesFor(ReadSize) : \E b \in Available(m, c) :
          mem' = lev_slab_getBlock(m, c, b) /\ readStatic' = b
     /\ UNCHANGED <<ms, newStatic>>

lev_pushbuffer_from_static_mb(s, nread) ==
  LET b    == readStatic
      mine == ReadSize = size(mem, b)
      held == IF mine THEN mem ELSE lev_slab_incRef(mem, b)
  IN /\ readStatic # NULL
     /\ readStatic' = IF mine THEN NULL ELSE b
     /\ UNCHANGED newStatic
     /\ \/ /\ nread = -1
           /\ mem' = IF mine THEN lev_slab_decRef(lev_slab_incRef(held, b), b) ELSE held
           /\ UNCHANGED ms
        \/ /\ Free(s)
           /\ nread \in 0 .. Room(mem, b)
           /\ mem' = Consume(lev_slab_incRef(held, b), b, nread)
           /\ lev_pushbuffer_from_mb(held, s, b, mem.nbytes[b], nread)

-----------------------------------------------------------------------------
(* A packed message gets a block of its own (as the JSON string buffer     *)
(* does in memslice_wrap_strbuf_init); its nbytes stays 0.                 *)
msgpack_pack_api(s) ==
  /\ Free(s)
  /\ \E used \in PackSizes : \E c \in ClassesFor(used) : \E b \in Available(mem, c) :
       LET m == lev_slab_getBlock(mem, c, b)
       IN /\ mem' = lev_slab_incRef(m, b)
          /\ lev_pushbuffer_from_mb(m, s, b, 0, used)
  /\ UNCHANGED <<newStatic, readStatic>>

(* A raw of slen bytes at offset ofs of a message is a slice of its block. *)
mprbuf_unpack_raw(s, p, ofs, slen) ==
  /\ Free(s) /\ Live(p)
  /\ ofs \in 1 .. ms[p].until
  /\ slen \in RawLens
  /\ slen <= ms[p].until - ofs
  /\ ms[p].off + ofs <= MaxBytes
  /\ mem' = lev_slab_incRef(mem, ms[p].mb)
  /\ lev_pushbuffer_from_mb(mem, s, ms[p].mb, ms[p].off + ofs, slen)
  /\ UNCHANGED <<newStatic, readStatic>>

(* A scratch block for getpwnam_r or getgrnam_r; an unknown name raises a  *)
(* Lua error that jumps over the release.                                  *)
core_setuid(outcome) ==
  /\ outcome \in Lookups
  /\ \E c \in ClassesFor(1) : \E b \in Available(mem, c) :
       LET m == lev_slab_incRef(lev_slab_getBlock(mem, c, b), b)
       IN mem' = IF outcome = "found" THEN lev_slab_decRef(m, b) ELSE m
  /\ UNCHANGED <<ms, newStatic, readStatic>>

-----------------------------------------------------------------------------
(* lev_slab_fill: every pool is filled up to its pool_min. *)
IsFilled(pool) ==
  /\ \A c \in Classes : Len(pool[c]) = PoolMin[c]
  /\ \A c, d \in Classes : \A i \in 1 .. Len(pool[c]), j \in 1 .. Len(pool[d]) :
       pool[c][i] = pool[d][j] => c = d /\ i = j

Filled ==
  {pool \in [Classes -> UNION {[1 .. PoolMin[c] -> Blocks] : c \in Classes}] : IsFilled(pool)}

Init ==
  /\ \E pool \in Filled :
       mem = [heap |-> {b \in Blocks : \E c \in Classes : \E i \in 1 .. Len(pool[c]) : pool[c][i] = b},
              pool |-> pool, class |-> [b \in Blocks |-> 1],
              refcount |-> [b \in Blocks |-> 0], nbytes |-> [b \in Blocks |-> 0]]
  /\ ms = [s \in Slices |-> NoSlice]
  /\ newStatic = NULL
  /\ readStatic = NULL

Next ==
  \/ \E s \in Slices : buffer_new(s)
  \/ \E s, p \in Slices : \E i, n \in 1 .. MaxBytes : buffer_slice(s, p, i, n)
  \/ \E s \in Slices : buffer__gc(s)
  \/ \E s, p, q \in Slices : buffer__concat(s, p, q)
  \/ \E s, p \in Slices : buffer__concat_string(s, p)
  \/ \E s, q \in Slices : string__concat_buffer(s, q)
  \/ \E s \in Slices : \E i \in 1 .. MaxBytes, n \in StoreLens : buffer__newindex(s, i, n)
  \/ on_alloc
  \/ \E s \in Slices : \E n \in -1 .. ReadSize : lev_pushbuffer_from_static_mb(s, n)
  \/ \E s \in Slices : msgpack_pack_api(s)
  \/ \E s, p \in Slices : \E o \in 1 .. MaxBytes, n \in RawLens : mprbuf_unpack_raw(s, p, o, n)
  \/ \E o \in Lookups : core_setuid(o)

Spec == Init /\ [][Next]_vars

-----------------------------------------------------------------------------
(* The variables have the types of the C declarations. *)
TypeOK ==
  /\ mem \in SlabStates
  /\ ms \in [Slices -> [mb : Blocks \cup {NULL}, off : Nat, until : Nat]]
  /\ newStatic \in Blocks \cup {NULL}
  /\ readStatic \in Blocks \cup {NULL}

(* How many owners point at block b: the userdata on it and, for the       *)
(* block of lev_new_buffer.c, the static pointer.                          *)
Users(b) ==
  Cardinality({s \in Slices : ms[s].mb = b}) + (IF newStatic = b THEN 1 ELSE 0)

(* No use after free and no early free: a block that a cBuffer or a static *)
(* pointer refers to is neither freed nor back on a free list, and its     *)
(* refcount is at least the number of its owners, so that the decRef that  *)
(* brings it to 0 is the last owner's.                                     *)
OwnedBlocksAreHeld ==
  /\ \A b \in Blocks : Users(b) > 0 => InUse(mem, b) /\ mem.refcount[b] >= Users(b)
  /\ readStatic # NULL => InUse(mem, readStatic) /\ Users(readStatic) = 0

(* No double free: lev_slab_decRef shelves a block at most once, in the    *)
(* free list of one class, and never beyond pool_min.                      *)
FreeListsAreSound ==
  /\ \A c \in Classes : Len(mem.pool[c]) <= PoolMin[c]
  /\ \A c, d \in Classes : \A i \in 1 .. Len(mem.pool[c]), j \in 1 .. Len(mem.pool[d]) :
       mem.pool[c][i] = mem.pool[d][j] => c = d /\ i = j
  /\ \A b \in Blocks : IsPooled(mem, b) => b \in mem.heap

(* No leak: every block in use has an owner that will release it, and its  *)
(* refcount counts no one else, so that the last __gc returns it.          *)
EveryBlockHasItsOwners ==
  \A b \in Blocks :
    InUse(mem, b) =>
      /\ mem.refcount[b] = Users(b)
      /\ Users(b) > 0 \/ b = readStatic

(* What a cBuffer gives access to: a non-empty range of its block, and, on *)
(* a block that is still handed out piecewise, only of the part accounted  *)
(* for by nbytes.                                                          *)
SlicesStayInside ==
  \A s \in Slices :
    Live(s) =>
      LET b == ms[s].mb
      IN /\ ms[s].until > 0
         /\ End(s) <= size(mem, b)
         /\ End(s) <= mem.nbytes[b] \/ (mem.nbytes[b] = 0 /\ b # newStatic)

(* The bytes a step appends to a block (Buffer:new, an in-place concat, a  *)
(* read) belong to no cBuffer that was alive before the step, and the      *)
(* cBuffer it makes ends with exactly these bytes.                         *)
AppendTouchesNoOther ==
  [][\A b \in Blocks : mem'.nbytes[b] > mem.nbytes[b] =>
       /\ \A s \in Slices : ms[s].mb = b => End(s) <= mem.nbytes[b]
       /\ \A s \in Slices : ms'[s].mb = b /\ ms'[s] # ms[s] => End(s)' = mem'.nbytes[b]]_vars

(* lev_slab.h: nbytes is the "Number of bytes actually in buffer", so it   *)
(* cannot exceed the "Size of the datablock".                              *)
NbytesWithinBlock ==
  \A b \in Blocks : InUse(mem, b) => mem.nbytes[b] <= size(mem, b)
=============================================================================
