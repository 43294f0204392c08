------------------------------ MODULE LevMpack ------------------------------
(***************************************************************************)
(* MessagePack (lev_mpack.c): pack, unpack and the streaming unpacker.     *)
(* A sender packs values one after the other; a receiver feeds the bytes   *)
(* to an unpacker in pieces of any size and pulls the values out again.    *)
(* The unpacker counts complete values with a stack of its own, without    *)
(* decoding them, and pull trusts that count: the two must agree.          *)
(*                                                                         *)
(* Bytes are numbers.  A Lua value is a record with its type t; a number   *)
(* that TLC has no integer for (64 bits, floating point) is the header and *)
(* the bytes of its encoding.                                              *)
(***************************************************************************)
EXTENDS Integers, Sequences, SequencesExt

CONSTANTS
  Values,     \* the values the sender packs
  Foreign,    \* messages of other senders, as bytes
  MaxSent,    \* bound on the messages
  Capacity,   \* sizeof(mpwbuf_t.data)
  Size,       \* the argument of createUnpacker
  StackSize,  \* elementof(unpacker_t.stack)
  MaxChunk    \* bound on the bytes per feed

VARIABLES
  sent,    \* the messages: their bytes, and the value if pack made them
  wire,    \* what of them the receiver has not been given
  u,       \* the unpacker
  failed,  \* TRUE when feed returned -1 for the content
  pulled   \* the values pulled so far

vars == <<sent, wire, u, failed, pulled>>

Nil == [t |-> "nil"]
Bool(b) == [t |-> "boolean", b |-> b]
Num(n) == [t |-> "number", n |-> n]
Wide(h, b) == [t |-> "wide", h |-> h, b |-> b]
Str(s) == [t |-> "string", s |-> s]
Buf(s) == [t |-> "cBuffer", s |-> s]
Func == [t |-> "function"]

(* A Lua table: its array part and its other fields, as pairs. *)
Tab(arr, hash) == [t |-> "table", arr |-> arr, hash |-> hash]

-----------------------------------------------------------------------------
(* Packing.  w bytes, the highest first; also two's complement. *)
Bytes(n, w) == [i \in 1 .. w |-> (n \div 256 ^ (w - i)) % 256]

mpwbuf_pack_number(n) ==
  CASE n \in 0 .. 127 -> <<n>>
    [] n \in 128 .. 255 -> <<204>> \o Bytes(n, 1)
    [] n \in 256 .. 65535 -> <<205>> \o Bytes(n, 2)
    [] n > 65535 -> <<206>> \o Bytes(n, 4)
    [] n \in -32 .. -1 -> Bytes(n, 1)
    [] n \in -128 .. -33 -> <<208>> \o Bytes(n, 1)
    [] n \in -32768 .. -129 -> <<209>> \o Bytes(n, 2)
    [] n < -32768 -> <<210>> \o Bytes(n, 4)

(* A length below limit is part of the header. *)
Header(n, fix, limit, h16, h32) ==
  CASE n < limit -> <<fix + n>>
    [] n >= limit /\ n < 65536 -> <<h16>> \o Bytes(n, 2)
    [] n >= 65536 -> <<h32>> \o Bytes(n, 4)

mpwbuf_pack_string(s) == Header(Len(s), 160, 32, 218, 219) \o s

(* Faulty variant: the fields of a table are counted with the array. *)
RECURSIVE mpwbuf_pack_anytype(_)
mpwbuf_pack_table_all(v) ==
  LET All(s) == FlattenSeq([i \in DOMAIN s |-> mpwbuf_pack_anytype(s[i])])
  IN IF v.arr # <<>> THEN Header(Len(v.arr) + Len(v.hash), 144, 16, 220, 221) \o All(v.arr)
     ELSE Header(Len(v.hash), 128, 16, 222, 223) \o All(FlattenSeq(v.hash))

(* "array!(ignore map part.)", and a table without an array part is a map. *)
mpwbuf_pack_table(v) ==
  LET All(s) == FlattenSeq([i \in DOMAIN s |-> mpwbuf_pack_anytype(s[i])])
  IN IF v.arr # <<>> THEN Header(Len(v.arr), 144, 16, 220, 221) \o All(v.arr)
     ELSE Header(Len(v.hash), 128, 16, 222, 223) \o All(FlattenSeq(v.hash))

mpwbuf_pack_anytype(v) ==
  CASE v.t = "nil" -> <<192>>
    [] v.t = "boolean" -> IF v.b THEN <<195>> ELSE <<194>>
    [] v.t = "number" -> mpwbuf_pack_number(v.n)
    [] v.t = "wide" -> <<v.h>> \o v.b
    [] v.t \in {"string", "cBuffer"} -> mpwbuf_pack_string(v.s)
    [] v.t = "table" -> mpwbuf_pack_table(v)
    [] v.t = "function" -> <<>>

(* The error bits: a value without an encoding. *)
RECURSIVE Packable(_)
Packable(v) ==
  CASE v.t = "function" -> FALSE
    [] v.t = "table" ->
         IF v.arr # <<>> THEN \A i \in DOMAIN v.arr : Packable(v.arr[i])
         ELSE \A i \in DOMAIN v.hash : Packable(v.hash[i][1]) /\ Packable(v.hash[i][2])
    [] v.t \notin {"function", "table"} -> TRUE

-----------------------------------------------------------------------------
(***************************************************************************)
(* Unpacking.  st is the read position with err and map_keying; n is how   *)
(* many values were left on the Lua stack, v the topmost of them.          *)
(* untouched is FALSE once lua_rawset was given a stack that does not end  *)
(* in the map, a key and a value: the C code then writes to whatever is    *)
(* three slots below the top.                                              *)
(***************************************************************************)
mprbuf_init == [ofs |-> 0, err |-> FALSE, keying |-> FALSE]

Pushed(st, v) == [st |-> st, n |-> 1, v |-> v, untouched |-> TRUE]
Error(st) == [st |-> [st EXCEPT !.err = TRUE], n |-> 0, v |-> Nil, untouched |-> TRUE]

RECURSIVE mprbuf_unpack_anytype(_, _, _)

(* The elements from the i-th on; r holds the table made so far. *)
RECURSIVE mprbuf_unpack_array(_, _, _, _, _)
mprbuf_unpack_array(d, mb, len, i, r) ==
  IF i > len THEN r
  ELSE LET e == mprbuf_unpack_anytype(d, mb, r.st)
       IN IF e.st.err THEN [e EXCEPT !.n = @ + 1]
          ELSE mprbuf_unpack_array(d, mb, len, i + 1,
                 [e EXCEPT !.v = Tab(Append(r.v.arr, e.v), <<>>), !.untouched = @ /\ r.untouched])

(* The pairs from the i-th on.  An error does not end the loop. *)
RECURSIVE mprbuf_unpack_map(_, _, _, _, _)
mprbuf_unpack_map(d, mb, len, i, r) ==
  IF i > len THEN r
  ELSE LET k == mprbuf_unpack_anytype(d, mb, [r.st EXCEPT !.keying = TRUE])
           e == mprbuf_unpack_anytype(d, mb, [k.st EXCEPT !.keying = FALSE])
           whole == k.n = 1 /\ e.n = 1
       IN mprbuf_unpack_map(d, mb, len, i + 1,
            [st |-> e.st, n |-> 1, v |-> Tab(<<>>, Append(r.v.hash, <<k.v, e.v>>)),
             untouched |-> r.untouched /\ k.untouched /\ e.untouched /\ whole])

Left(d, st) == Len(d) - st.ofs

Skip(st, w) == [st EXCEPT !.ofs = @ + w]

(* The w bytes at the read position as an unsigned number. *)
RECURSIVE UInt(_)
UInt(b) == IF b = <<>> THEN 0 ELSE 256 * UInt(Front(b)) + Last(b)

SInt(b) == UInt(Tail(b)) + 256 ^ (Len(b) - 1) * (IF b[1] < 128 THEN b[1] ELSE b[1] - 256)

At(d, st, w) == SubSeq(d, st.ofs + 1, st.ofs + w)

(* lua_pushlstring for a key or without a MemBlock, else a slice of it. *)
Raw(d, mb, st, len) ==
  IF Left(d, st) < len THEN Error(st)
  ELSE Pushed(Skip(st, len), IF st.keying \/ ~mb THEN Str(At(d, st, len)) ELSE Buf(At(d, st, len)))

Array(d, mb, st, len) == mprbuf_unpack_array(d, mb, len, 1, Pushed(st, Tab(<<>>, <<>>)))
Map(d, mb, st, len) == mprbuf_unpack_map(d, mb, len, 1, Pushed(st, Tab(<<>>, <<>>)))

NumberBytes ==
  [h \in 202 .. 211 |->
     CASE h \in {204, 208} -> 1 [] h \in {205, 209} -> 2 [] h \in {202, 206, 210} -> 4
       [] h \in {203, 207, 211} -> 8]

Number(h, b) ==
  CASE h \in {204, 205, 206} -> Num(UInt(b))
    [] h \in {208, 209, 210} -> Num(SInt(b))
    [] h \in {202, 203, 207, 211} -> Wide(h, b)

(* Behind the header: a length of w bytes, and what it is the length of. *)
Sized(d, mb, st, w, Content(_, _, _, _)) ==
  IF Left(d, st) < w THEN Error(st) ELSE Content(d, mb, Skip(st, w), UInt(At(d, st, w)))

mprbuf_unpack_anytype(d, mb, st0) ==
  IF Left(d, st0) < 1 THEN Error(st0)
  ELSE LET t  == d[st0.ofs + 1]
           st == Skip(st0, 1)
       IN CASE t < 128 -> Pushed(st, Num(t))
            [] t \in 128 .. 143 -> Map(d, mb, st, t - 128)
            [] t \in 144 .. 159 -> Array(d, mb, st, t - 144)
            [] t \in 160 .. 191 -> Raw(d, mb, st, t - 160)
            [] t > 223 -> Pushed(st, Num(t - 256))
            [] t = 192 -> Pushed(st, Nil)
            [] t \in {194, 195} -> Pushed(st, Bool(t = 195))
            [] t \in 202 .. 211 ->
                 IF Left(d, st) < NumberBytes[t] THEN Error(st)
                 ELSE Pushed(Skip(st, NumberBytes[t]), Number(t, At(d, st, NumberBytes[t])))
            [] t = 218 -> Sized(d, mb, st, 2, Raw)
            [] t = 219 -> Sized(d, mb, st, 4, Raw)
            [] t = 220 -> Sized(d, mb, st, 2, Array)
            [] t = 221 -> Sized(d, mb, st, 4, Array)
            [] t = 222 -> Sized(d, mb, st, 2, Map)
            [] t = 223 -> Sized(d, mb, st, 4, Map)
            [] t = 193 \/ t \in 196 .. 201 \/ t \in 212 .. 217 -> Error(st)

(* mpack.unpack: the number of bytes read and the value, or nil twice. *)
msgpack_unpack_api(d) ==
  LET r == mprbuf_unpack_anytype(d, TRUE, mprbuf_init)
  IN IF d = <<>> \/ r.st.err THEN [ofs |-> 0, v |-> Nil, untouched |-> r.untouched]
                             ELSE [ofs |-> r.st.ofs, v |-> r.v, untouched |-> r.untouched]

-----------------------------------------------------------------------------
(* The unpacker: stack has one entry for each unfinished value, the        *)
(* innermost last.                                                         *)
unpacker_init == [buf |-> <<>>, stack |-> <<>>, resultnum |-> 0]

sizesize(t) ==
  CASE t \in {"array16", "map16", "raw16"} -> 2
    [] t \in {"array32", "map32", "raw32"} -> 4
    [] t \in {"fixarray", "fixmap", "data"} -> 0

is_map(t) == t \in {"fixmap", "map16", "map32"}
is_container(t) == is_map(t) \/ t \in {"fixarray", "array16", "array32"}

mpstackent_init(t, expect) == [t |-> t, expect |-> expect, sofar |-> 0, sizebytes |-> <<>>]

Top(w) == Last(w.stack)
WithTop(w, e) == [w EXCEPT !.stack = Append(Front(@), e)]

(* Faulty variant: only the innermost value is counted as finished. *)
RECURSIVE unpacker_progress(_, _)
unpacker_progress_inner(w, ch) ==
  IF w.stack = <<>> THEN [w EXCEPT !.resultnum = @ + 1]
  ELSE LET e == Top(w)
           sizebytes == Append(e.sizebytes, ch)
           n == UInt(sizebytes)
       IN IF Len(e.sizebytes) < sizesize(e.t)
          THEN WithTop(w, [e EXCEPT !.sizebytes = sizebytes,
                                    !.expect = IF Len(sizebytes) < sizesize(e.t) THEN @
                                               ELSE IF is_map(e.t) THEN 2 * n ELSE n])
          ELSE IF e.sofar + 1 < e.expect THEN WithTop(w, [e EXCEPT !.sofar = @ + 1])
          ELSE IF Len(w.stack) = 1 THEN [w EXCEPT !.stack = <<>>, !.resultnum = @ + 1]
          ELSE [w EXCEPT !.stack = Front(@)]

(* One value or one size byte further: entries that are filled are popped, *)
(* and with the last of them a value is complete.                          *)
unpacker_progress(w, ch) ==
  IF w.stack = <<>> THEN [w EXCEPT !.resultnum = @ + 1]
  ELSE LET e == Top(w)
           sizebytes == Append(e.sizebytes, ch)
           n == UInt(sizebytes)
       IN IF Len(e.sizebytes) < sizesize(e.t)
          THEN WithTop(w, [e EXCEPT !.sizebytes = sizebytes,
                                    !.expect = IF Len(sizebytes) < sizesize(e.t) THEN @
                                               ELSE IF is_map(e.t) THEN 2 * n ELSE n])
          ELSE IF e.sofar + 1 < e.expect THEN WithTop(w, [e EXCEPT !.sofar = @ + 1])
          ELSE unpacker_progress([w EXCEPT !.stack = Front(@)], ch)

unpacker_progress_datasize(w, progress) ==
  LET e == Top(w)
  IN IF e.sofar + progress = e.expect
     THEN unpacker_progress(WithTop(w, [e EXCEPT !.sofar = @ + progress - 1]), 0)
     ELSE WithTop(w, [e EXCEPT !.sofar = @ + progress])

(* Faulty variant: no value is complete when it is pushed. *)
unpacker_push_full(w, t, expect) == [w EXCEPT !.stack = Append(@, mpstackent_init(t, expect))]

(* "handle empty container": only those whose size is in the header. *)
unpacker_push(w, t, expect) ==
  LET pushed == [w EXCEPT !.stack = Append(@, mpstackent_init(t, expect))]
  IN IF sizesize(t) = 0 /\ expect = 0 THEN unpacker_progress(pushed, 0) ELSE pushed

(* How many bytes of data the innermost value waits for; -1: none, but a   *)
(* header; 0: a byte of its size.                                          *)
unpacker_container_needs_bytes(w) ==
  IF w.stack = <<>> THEN -1
  ELSE LET e == Top(w)
       IN CASE Len(e.sizebytes) < sizesize(e.t) -> 0
            [] Len(e.sizebytes) = sizesize(e.t) /\ e.sofar < e.expect /\ ~is_container(e.t) ->
                 e.expect - e.sofar
            [] Len(e.sizebytes) = sizesize(e.t) /\ (e.sofar >= e.expect \/ is_container(e.t)) -> -1

Pushes(ch) == ~(ch < 128 \/ ch > 223 \/ ch \in {192, 194, 195})
Reserved(ch) == ch = 193 \/ ch \in 196 .. 201 \/ ch \in 212 .. 217

Sizes == [h \in 218 .. 223 |->
            CASE h = 218 -> "raw16" [] h = 219 -> "raw32" [] h = 220 -> "array16"
              [] h = 221 -> "array32" [] h = 222 -> "map16" [] h = 223 -> "map32"]

(* The bytes of p from the i-th on. *)
RECURSIVE FeedFrom(_, _, _)
FeedFrom(w, p, i) ==
  IF i > Len(p) THEN [u |-> w, ok |-> TRUE]
  ELSE LET ch   == p[i]
           need == unpacker_container_needs_bytes(w)
           progress == IF need > Len(p) - i + 1 THEN Len(p) - i + 1 ELSE need
       IN CASE need > 0 -> FeedFrom(unpacker_progress_datasize(w, progress), p, i + progress)
            [] need = 0 -> FeedFrom(unpacker_progress(w, ch), p, i + 1)
            [] need < 0 /\ ~Pushes(ch) -> FeedFrom(unpacker_progress(w, ch), p, i + 1)
            [] need < 0 /\ Pushes(ch) /\ (Reserved(ch) \/ Len(w.stack) >= StackSize) ->
                 [u |-> w, ok |-> FALSE]
            [] need < 0 /\ Pushes(ch) /\ ~Reserved(ch) /\ Len(w.stack) < StackSize ->
                 FeedFrom(CASE ch \in 128 .. 143 -> unpacker_push(w, "fixmap", 2 * (ch - 128))
                            [] ch \in 144 .. 159 -> unpacker_push(w, "fixarray", ch - 144)
                            [] ch \in 160 .. 191 -> unpacker_push(w, "data", ch - 160)
                            [] ch \in 202 .. 211 -> unpacker_push(w, "data", NumberBytes[ch])
                            [] ch \in 218 .. 223 -> unpacker_push(w, Sizes[ch], 0),
                          p, i + 1)

-----------------------------------------------------------------------------
(* mpack.pack: an error, for a value without encoding or one that does not *)
(* fit, leaves nothing to send.                                            *)
msgpack_pack_api(v) ==
  LET data == mpwbuf_pack_anytype(v)
  IN /\ Len(sent) < MaxSent
     /\ Packable(v) /\ Len(data) <= Capacity
     /\ sent' = Append(sent, [data |-> data, packed |-> TRUE, v |-> v])
     /\ wire' = wire \o data
     /\ UNCHANGED <<u, failed, pulled>>

receive(data) ==
  /\ Len(sent) < MaxSent
  /\ sent' = Append(sent, [data |-> data, packed |-> FALSE, v |-> Nil])
  /\ wire' = wire \o data
  /\ UNCHANGED <<u, failed, pulled>>

(* Faulty variant: what does not fit is dropped. *)
msgpack_unpacker_feed_api_cut(len) ==
  LET p    == SubSeq(wire, 1, len)
      fits == IF Len(u.buf) + len > Size THEN SubSeq(p, 1, Size - Len(u.buf)) ELSE p
      r    == FeedFrom([u EXCEPT !.buf = @ \o fits], fits, 1)
  IN /\ ~failed /\ len <= Len(wire)
     /\ u' = r.u /\ failed' = ~r.ok
     /\ wire' = SubSeq(wire, len + 1, Len(wire))
     /\ UNCHANGED <<sent, pulled>>

(* unpacker:feed.  A piece that does not fit is refused as a whole.  After *)
(* another error the receiver feeds no more.                               *)
msgpack_unpacker_feed_api(len) ==
  LET p == SubSeq(wire, 1, len)
      r == FeedFrom([u EXCEPT !.buf = @ \o p], p, 1)
  IN /\ ~failed /\ len <= Len(wire)
     /\ Len(u.buf) + len <= Size
     /\ u' = r.u /\ failed' = ~r.ok
     /\ wire' = SubSeq(wire, len + 1, Len(wire))
     /\ UNCHANGED <<sent, pulled>>

(* unpacker:pull decodes the first value of the buffer and shifts it out. *)
msgpack_unpacker_pull_api ==
  LET r == mprbuf_unpack_anytype(u.buf, FALSE, mprbuf_init)
  IN /\ u.resultnum > 0
     /\ pulled' = Append(pulled, r)
     /\ u' = [u EXCEPT !.buf = SubSeq(@, r.st.ofs + 1, Len(@)), !.resultnum = @ - 1]
     /\ UNCHANGED <<sent, wire, failed>>

Init ==
  /\ sent = <<>> /\ wire = <<>> /\ pulled = <<>>
  /\ u = unpacker_init /\ failed = FALSE

Next ==
  \/ \E v \in Values : msgpack_pack_api(v)
  \/ \E data \in Foreign : receive(data)
  \/ \E len \in 1 .. MaxChunk : msgpack_unpacker_feed_api(len)
  \/ msgpack_unpacker_pull_api

Spec == Init /\ [][Next]_vars

-----------------------------------------------------------------------------
IsBytes(s) == \A i \in DOMAIN s : s[i] \in 0 .. 255

(* The values of a byte sequence, as far as they are complete. *)
RECURSIVE Complete(_)
Complete(d) ==
  LET r == mprbuf_unpack_anytype(d, FALSE, mprbuf_init)
  IN IF r.st.err THEN 0 ELSE 1 + Complete(SubSeq(d, r.st.ofs + 1, Len(d)))

(* However the bytes were cut into pieces, the unpacker stays inside its   *)
(* buffer and its stack, and its count is the number of values that can be *)
(* decoded from the buffer: pull never reads a value that is not there yet *)
(* and never leaves one behind.                                            *)
ResultnumIsExact ==
  /\ Len(u.buf) <= Size /\ Len(u.stack) <= StackSize
  /\ \A i \in DOMAIN u.stack :
       LET e == u.stack[i]
       IN Len(e.sizebytes) <= sizesize(e.t) /\ e.sofar \in 0 .. e.expect
  /\ ~failed => u.resultnum = Complete(u.buf)

(* Values are pulled in the order in which they were sent, each as unpack  *)
(* would have read it, and every byte is in exactly one place.             *)
PulledInOrder ==
  /\ \A i \in DOMAIN pulled :
       /\ ~pulled[i].st.err /\ pulled[i].untouched
       /\ pulled[i] = mprbuf_unpack_anytype(sent[i].data, FALSE, mprbuf_init)
  /\ FlattenSeq([i \in 1 .. Len(sent) - Len(pulled) |-> sent[Len(pulled) + i].data]) = u.buf \o wire

(* What a value is after a trip: its strings are cBuffers, except in keys, *)
(* and a table with an array part has lost its other fields.               *)
RECURSIVE Canonical(_, _)
Canonical(v, key) ==
  CASE v.t \in {"string", "cBuffer"} -> IF key THEN Str(v.s) ELSE Buf(v.s)
    [] v.t = "table" ->
         IF v.arr # <<>> THEN Tab([i \in DOMAIN v.arr |-> Canonical(v.arr[i], key)], <<>>)
         ELSE Tab(<<>>, [i \in DOMAIN v.hash |->
                <<Canonical(v.hash[i][1], TRUE), Canonical(v.hash[i][2], FALSE)>>])
    [] v.t \notin {"string", "cBuffer", "table"} -> v

(* unpack undoes pack, up to the above, at every boundary between two      *)
(* encodings, and reads exactly the bytes that pack wrote.                 *)
RoundTrip ==
  \A i \in DOMAIN sent : sent[i].packed =>
    /\ msgpack_unpack_api(sent[i].data)
         = [ofs |-> Len(sent[i].data), v |-> Canonical(sent[i].v, FALSE), untouched |-> TRUE]
    /\ IsBytes(sent[i].data)

(* The receiver is never stuck: if there is nothing to pull, either all    *)
(* messages have been pulled or the buffer has room for the next byte,     *)
(* as long as the unpacker is as large as the packer's buffer.             *)
ReceiverGoesOn ==
  ~failed /\ u.resultnum = 0 =>
    IF wire = <<>> THEN Len(pulled) = Len(sent) ELSE Len(u.buf) < Size

(* test.ok(not offset) in tests/test-msgpack.lua: unpack says nil of a     *)
(* message that was cut, and that is all that happens.                     *)
CutMessageIsRejected ==
  \A i \in DOMAIN sent : \A k \in 1 .. Len(sent[i].data) - 1 :
    LET r == msgpack_unpack_api(SubSeq(sent[i].data, 1, k))
    IN r.ofs = 0 /\ r.untouched
=============================================================================
