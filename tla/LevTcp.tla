------------------------------- MODULE LevTcp -------------------------------
(***************************************************************************)
(* The life of one lev.tcp handle (lev_new_tcp.c): the userdata and its    *)
(* reference count (lev_new_base.c), the libuv handle inside it, and the   *)
(* chunks it writes, one by one or bottled into one request.               *)
(*                                                                         *)
(* The Lua program calls the methods in any order that CloseWhen and       *)
(* WriteWhen allow; libuv's events come in any order that libuv allows     *)
(* (external: modelled from the calls and the results the code tests).     *)
(***************************************************************************)
EXTENDS Integers, Sequences, FiniteSets

CONSTANTS
  MaxChunks,  \* BUFFER_MAX_CHUNKS
  MaxWrites,  \* bound on the calls of write
  CloseWhen,  \* the phases of the handle in which the program calls close,
  WriteWhen   \* and the ones in which it calls write

Phases == {"unopened", "pending", "open", "failed", "closing", "closed"}

ASSUME TcpAssumption ==
  /\ MaxChunks \in Nat \ {0}
  /\ MaxWrites \in Nat
  /\ CloseWhen \subseteq Phases
  /\ WriteWhen \subseteq Phases

VARIABLES
  life,     \* of the userdata: "none", "live" or "collected"
  held,     \* TRUE while the program can reach it
  self,     \* the tcp_obj: refCount, bottle_mode, wreq
  uv,       \* the libuv handle in it
  strings,  \* the copies of strings that tcp_write malloc'd and nobody freed
  sent,     \* the chunks libuv has written
  nwrites,  \* how many chunks were passed to write
  closes    \* how often tcp_after_close ran

vars == <<life, held, self, uv, strings, sent, nwrites, closes>>

(* A write request: chunks by number, and mask, the positions to be freed. *)
NoReq == [bufs |-> <<>>, mask |-> {}]

Phase ==
  CASE uv.fd /\ uv.conn \in {"none", "connecting"} -> "pending"
    [] uv.fd /\ uv.conn \in {"connected", "listening"} -> "open"
    [] uv.fd /\ uv.conn = "failed" -> "failed"
    [] ~uv.fd /\ uv.closing -> "closing"
    [] ~uv.fd /\ ~uv.closing /\ closes > 0 -> "closed"
    [] ~uv.fd /\ ~uv.closing /\ closes = 0 -> "unopened"

(* An assertion that fails aborts the process. *)
Running == life = "live" /\ self.refCount >= 0

-----------------------------------------------------------------------------
(* lev_new_base.c.  The registry holds the userdata while refCount > 0. *)
lev_handle_ref(s) == [s EXCEPT !.refCount = @ + 1]
lev_handle_unref(s) == [s EXCEPT !.refCount = @ - 1]

create_obj_init_ref == [refCount |-> 0, bottle_mode |-> FALSE, wreq |-> NoReq]

uv_tcp_init ==
  [fd |-> FALSE, conn |-> "none", reading |-> FALSE, shutting |-> FALSE,
   closing |-> FALSE, wq |-> <<>>]

-----------------------------------------------------------------------------
(* tcp_new; with a descriptor received from the master, the handle is open. *)
tcp_new(use_this_fd) ==
  /\ life = "none"
  /\ life' = "live" /\ held' = TRUE
  /\ self' = create_obj_init_ref
  /\ uv' = [uv_tcp_init EXCEPT !.fd = use_this_fd]
  /\ UNCHANGED <<strings, sent, nwrites, closes>>

(* tcp_accept on a listening handle creates this one. *)
tcp_accept ==
  /\ life = "none"
  /\ life' = "live" /\ held' = TRUE
  /\ \/ /\ self' = lev_handle_ref(create_obj_init_ref)
        /\ uv' = [uv_tcp_init EXCEPT !.fd = TRUE, !.conn = "connected"]
     \/ /\ self' = create_obj_init_ref
        /\ uv' = uv_tcp_init
  /\ UNCHANGED <<strings, sent, nwrites, closes>>

tcp_bind ==
  /\ Running /\ held
  /\ Phase = "unopened"
  /\ uv' = [uv EXCEPT !.fd = TRUE]
  /\ UNCHANGED <<life, held, self, strings, sent, nwrites, closes>>

(* Faulty variant: starts an async function without a reference. *)
tcp_connect_unref ==
  /\ Running /\ held
  /\ Phase \in {"unopened", "pending"} /\ uv.conn = "none"
  /\ uv' = [uv EXCEPT !.fd = TRUE, !.conn = "connecting"]
  /\ UNCHANGED <<life, held, self, strings, sent, nwrites, closes>>

(* On an immediate error the socket may be open already. *)
tcp_connect ==
  /\ Running /\ held
  /\ Phase \in {"unopened", "pending"} /\ uv.conn = "none"
  /\ \/ /\ self' = lev_handle_ref(self)
        /\ uv' = [uv EXCEPT !.fd = TRUE, !.conn = "connecting"]
     \/ /\ uv' = [uv EXCEPT !.fd = TRUE]
        /\ UNCHANGED self
  /\ UNCHANGED <<life, held, strings, sent, nwrites, closes>>

tcp_listen ==
  /\ Running /\ held
  /\ Phase \in {"unopened", "pending"} /\ uv.conn = "none"
  /\ self' = lev_handle_ref(self)
  /\ uv' = [uv EXCEPT !.fd = TRUE, !.conn = "listening"]
  /\ UNCHANGED <<life, held, strings, sent, nwrites, closes>>

tcp_read_start ==
  /\ Running /\ held
  /\ uv.conn = "connected" /\ uv.fd /\ ~uv.shutting
  /\ uv' = [uv EXCEPT !.reading = TRUE]
  /\ UNCHANGED <<life, held, self, strings, sent, nwrites, closes>>

tcp_read_stop ==
  /\ Running /\ held
  /\ uv.reading
  /\ uv' = [uv EXCEPT !.reading = FALSE]
  /\ UNCHANGED <<life, held, self, strings, sent, nwrites, closes>>

-----------------------------------------------------------------------------
(***************************************************************************)
(* UV_CLOSE_CLIENT: an open handle is shut down, the rest follows from the *)
(* callbacks; one without a descriptor is taken to be closed.  uv_shutdown *)
(* fails on a handle that is not connected and then calls nobody back.     *)
(***************************************************************************)
tcp_after_close(s) == lev_handle_unref(s)

UV_CLOSE_CLIENT ==
  \/ /\ uv.fd
     /\ uv' = [uv EXCEPT !.reading = FALSE, !.shutting = @ \/ uv.conn = "connected"]
     /\ UNCHANGED <<self, closes>>
  \/ /\ ~uv.fd
     /\ uv' = [uv EXCEPT !.reading = FALSE]
     /\ self' = tcp_after_close(self)
     /\ closes' = closes + 1

tcp_close ==
  /\ Running /\ held
  /\ Phase \in CloseWhen
  /\ UV_CLOSE_CLIENT
  /\ UNCHANGED <<life, held, strings, sent, nwrites>>

(* Faulty variant: does not go on to uv_close. *)
tcp_after_shutdown_only ==
  /\ Running
  /\ uv.shutting /\ uv.wq = <<>>
  /\ uv' = [uv EXCEPT !.shutting = FALSE]
  /\ UNCHANGED <<life, held, self, strings, sent, nwrites, closes>>

(* libuv's shutdown completes once everything queued is written. *)
tcp_after_shutdown ==
  /\ Running
  /\ uv.shutting /\ uv.wq = <<>>
  /\ uv' = [uv EXCEPT !.shutting = FALSE, !.closing = TRUE, !.fd = FALSE]
  /\ UNCHANGED <<life, held, self, strings, sent, nwrites, closes>>

uv_close_cb ==
  /\ Running
  /\ uv.closing
  /\ uv' = [uv EXCEPT !.closing = FALSE]
  /\ self' = tcp_after_close(self)
  /\ closes' = closes + 1
  /\ held' \in {held, TRUE}  \* on_close, if it was given
  /\ UNCHANGED <<life, strings, sent, nwrites>>

(* Faulty variant: a failed connect keeps its reference. *)
on_connect_kept ==
  /\ Running
  /\ uv.conn = "connecting"
  /\ \E c \in {"connected", "failed"} : uv' = [uv EXCEPT !.conn = c]
  /\ UNCHANGED <<life, held, self, strings, sent, nwrites, closes>>

on_connect ==
  /\ Running
  /\ uv.conn = "connecting"
  /\ \/ uv' = [uv EXCEPT !.conn = "connected"] /\ UNCHANGED self
     \/ uv' = [uv EXCEPT !.conn = "failed"] /\ self' = lev_handle_unref(self)
  /\ held' = TRUE
  /\ UNCHANGED <<life, strings, sent, nwrites, closes>>

(* A callback into Lua gets the handle as its first argument, so that a    *)
(* program that had dropped it can reach it again.                         *)
on_connection ==
  /\ Running
  /\ uv.conn = "listening"
  /\ held' = TRUE
  /\ UNCHANGED <<life, self, uv, strings, sent, nwrites, closes>>

on_read ==
  /\ Running
  /\ uv.reading
  /\ \/ UV_CLOSE_CLIENT /\ UNCHANGED held  \* nread = -1
     \/ held' = TRUE /\ UNCHANGED <<self, uv, closes>>
  /\ UNCHANGED <<life, strings, sent, nwrites>>

-----------------------------------------------------------------------------
(***************************************************************************)
(* tcp_write adds a chunk to the request at hand, a copy if it is a        *)
(* string, and passes the request to uv_write unless it is bottled and has *)
(* room.  A chunk's position counts from 0.                                *)
(***************************************************************************)
Added_unmarked(req, isstring) == [bufs |-> Append(req.bufs, nwrites + 1), mask |-> req.mask]

Added(req, isstring) ==
  [bufs |-> Append(req.bufs, nwrites + 1),
   mask |-> IF isstring THEN req.mask \cup {Len(req.bufs)} ELSE req.mask \ {Len(req.bufs)}]

(* Faulty variants: a full bottle is not flushed; a flushed request stays. *)
tcp_write_overfull(isstring, unbottle) ==
  LET req    == Added(self.wreq, isstring)
      bottle == self.bottle_mode /\ ~unbottle
  IN /\ Running /\ held
     /\ Phase \in WriteWhen
     /\ nwrites < MaxWrites
     /\ nwrites' = nwrites + 1
     /\ strings' = IF isstring THEN strings \cup {nwrites + 1} ELSE strings
     /\ self' = [self EXCEPT !.bottle_mode = bottle, !.wreq = IF bottle THEN req ELSE NoReq]
     /\ uv' = IF ~bottle /\ uv.fd THEN [uv EXCEPT !.wq = Append(@, req)] ELSE uv
     /\ UNCHANGED <<life, held, sent, closes>>

tcp_write_kept(isstring, unbottle) ==
  LET req    == Added(self.wreq, isstring)
      bottle == self.bottle_mode /\ ~unbottle
      flush  == ~bottle \/ Len(req.bufs) = MaxChunks
  IN /\ Running /\ held
     /\ Phase \in WriteWhen
     /\ nwrites < MaxWrites
     /\ nwrites' = nwrites + 1
     /\ strings' = IF isstring THEN strings \cup {nwrites + 1} ELSE strings
     /\ self' = [self EXCEPT !.bottle_mode = bottle, !.wreq = req]
     /\ uv' = IF flush /\ uv.fd THEN [uv EXCEPT !.wq = Append(@, req)] ELSE uv
     /\ UNCHANGED <<life, held, sent, closes>>

tcp_write(isstring, unbottle) ==
  LET req    == Added(self.wreq, isstring)
      bottle == self.bottle_mode /\ ~unbottle
      flush  == ~bottle \/ Len(req.bufs) = MaxChunks
  IN /\ Running /\ held
     /\ Phase \in WriteWhen
     /\ nwrites < MaxWrites
     /\ nwrites' = nwrites + 1
     /\ strings' = IF isstring THEN strings \cup {nwrites + 1} ELSE strings
     /\ self' = [self EXCEPT !.bottle_mode = bottle, !.wreq = IF flush THEN NoReq ELSE req]
     /\ uv' = IF flush /\ uv.fd THEN [uv EXCEPT !.wq = Append(@, req)] ELSE uv
     /\ UNCHANGED <<life, held, sent, closes>>

tcp_bottle ==
  /\ Running /\ held /\ ~self.bottle_mode
  /\ self' = [self EXCEPT !.bottle_mode = TRUE]
  /\ UNCHANGED <<life, held, uv, strings, sent, nwrites, closes>>

(* libuv is done with its oldest request: the copies, found by the mask    *)
(* at positions bufcnt down to 0, are freed.                               *)
tcp_after_write ==
  LET wr == Head(uv.wq)
  IN /\ Running
     /\ uv.wq # <<>> /\ uv.conn # "connecting"
     /\ uv' = [uv EXCEPT !.wq = Tail(@)]
     /\ sent' = IF uv.conn = "connected" THEN sent \o wr.bufs ELSE sent
     /\ strings' = strings \ {wr.bufs[i] : i \in {j \in 1 .. Len(wr.bufs) : j - 1 \in wr.mask}}
     /\ UNCHANGED <<life, held, self, nwrites, closes>>

-----------------------------------------------------------------------------
(* The program drops its last reference; the collector takes what neither  *)
(* the program nor the registry holds.                                     *)
drop ==
  /\ Running /\ held
  /\ held' = FALSE
  /\ UNCHANGED <<life, self, uv, strings, sent, nwrites, closes>>

collect ==
  /\ Running /\ ~held /\ self.refCount = 0
  /\ life' = "collected"
  /\ UNCHANGED <<held, self, uv, strings, sent, nwrites, closes>>

Init ==
  /\ life = "none" /\ held = FALSE
  /\ self = create_obj_init_ref
  /\ uv = uv_tcp_init
  /\ strings = {} /\ sent = <<>> /\ nwrites = 0 /\ closes = 0

Next ==
  \/ \E b \in BOOLEAN : tcp_new(b)
  \/ tcp_accept \/ tcp_bind \/ tcp_connect \/ tcp_listen
  \/ tcp_read_start \/ tcp_read_stop
  \/ tcp_close \/ tcp_after_shutdown \/ uv_close_cb
  \/ on_connect \/ on_connection \/ on_read
  \/ \E b, u \in BOOLEAN : tcp_write(b, u)
  \/ tcp_bottle \/ tcp_after_write
  \/ drop \/ collect

Spec == Init /\ [][Next]_vars

(* libuv completes the requests it has accepted. *)
FairSpec ==
  /\ Spec
  /\ WF_vars(on_connect)
  /\ WF_vars(tcp_after_write)
  /\ WF_vars(tcp_after_shutdown)
  /\ WF_vars(uv_close_cb)

-----------------------------------------------------------------------------
(* A request never has more chunks than the array in write_req_t. *)
TypeOK ==
  /\ life \in {"none", "live", "collected"} /\ held \in BOOLEAN
  /\ self.refCount \in Int /\ self.bottle_mode \in BOOLEAN
  /\ Len(self.wreq.bufs) < MaxChunks /\ self.wreq.mask \subseteq 0 .. MaxChunks - 1
  /\ uv.fd \in BOOLEAN /\ uv.reading \in BOOLEAN
  /\ uv.conn \in {"none", "connecting", "connected", "failed", "listening"}
  /\ uv.shutting \in BOOLEAN /\ uv.closing \in BOOLEAN
  /\ \A i \in 1 .. Len(uv.wq) : Len(uv.wq[i].bufs) \in 1 .. MaxChunks
  /\ strings \subseteq 1 .. nwrites
  /\ nwrites \in 0 .. MaxWrites /\ closes \in Nat

(* The handle has one reference from the time a connection is under way,   *)
(* accepted or listened for, until it failed or was closed, however the    *)
(* program's close, the peer's and the callbacks interleave.               *)
RefCountIsExact ==
  life # "none" =>
    /\ closes <= 1
    /\ self.refCount =
         IF uv.conn \in {"connecting", "connected", "listening"} /\ closes = 0 THEN 1 ELSE 0

(* libuv will still call back about the handle. *)
Busy ==
  \/ uv.conn \in {"connecting", "listening"}
  \/ uv.reading \/ uv.shutting \/ uv.closing \/ uv.wq # <<>>

Object == INSTANCE LevObject WITH busy <- Busy, closed <- closes > 0

(* A TCP handle, which takes one reference for a whole connection and none *)
(* for its reads and writes, still keeps the promise of lev_new_base.c:    *)
(* never collected from under libuv, closed once, and quiet afterwards.    *)
IsObject == Object!Spec

Copied(req) == {req.bufs[i] : i \in {j \in 1 .. Len(req.bufs) : j - 1 \in req.mask}}

(* Each copied string is freed once, by the callback of the request it is  *)
(* part of, and the bytes of a cBuffer never are: the masks of the         *)
(* requests mark exactly the copies that are still allocated.              *)
StringsAreOwned ==
  strings = Copied(self.wreq) \cup UNION {Copied(uv.wq[i]) : i \in 1 .. Len(uv.wq)}

(* Chunks are written in the order of the calls, none lost or repeated,    *)
(* however they were bottled.                                              *)
WireInOrder ==
  uv.conn = "connected" =>
    LET reqs == uv.wq \o <<self.wreq>>
        LastBefore(k) == IF k = 1 THEN Len(sent) ELSE reqs[k - 1].bufs[Len(reqs[k - 1].bufs)]
    IN /\ \A i \in 1 .. Len(sent) : sent[i] = i
       /\ \A k \in 1 .. Len(reqs) : \A i \in 1 .. Len(reqs[k].bufs) :
            reqs[k].bufs[i] = LastBefore(k) + i
       /\ nwrites = LastBefore(Len(reqs)) + Len(self.wreq.bufs)

(* Once a connection is being shut down, on_close is called. *)
CloseCompletes == uv.shutting ~> closes > 0
=============================================================================
