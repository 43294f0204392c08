---------------------------- MODULE LevTcpProofs ----------------------------
(***************************************************************************)
(* What holds of a lev.tcp handle for any number of writes, any size of    *)
(* the write request's array, and any order of calls and events.           *)
(*                                                                         *)
(* TypeInv bounds the arrays.  CountInv orders the life of a connection,   *)
(* from which its references follow, and ObjectInv adds that only a        *)
(* referenced connection has requests queued.  StringsInv and WireInv say  *)
(* which chunks are in which request, and how requests follow each other   *)
(* on the wire, in the queue of libuv and in the bottle.                   *)
(***************************************************************************)
EXTENDS LevTcp, TLAPS

Request == [bufs : Seq(Nat), mask : SUBSET Nat]

Objects == [refCount : Int, bottle_mode : BOOLEAN, wreq : Request]

Handles ==
  [fd : BOOLEAN, conn : {"none", "connecting", "connected", "failed", "listening"},
   reading : BOOLEAN, shutting : BOOLEAN, closing : BOOLEAN, wq : Seq(Request)]

(* The records behind TypeOK, whose fields alone do not determine them. *)
Shapes ==
  /\ life \in {"none", "live", "collected"} /\ held \in BOOLEAN
  /\ self \in Objects
  /\ uv \in Handles
  /\ strings \in SUBSET Nat /\ sent \in Seq(Nat)
  /\ nwrites \in Nat /\ closes \in Nat

(* The array of a request is not overrun, and never passed to libuv empty. *)
Bounds ==
  /\ Len(self.wreq.bufs) < MaxChunks
  /\ \A n \in self.wreq.mask : n < MaxChunks
  /\ \A i \in 1 .. Len(uv.wq) : Len(uv.wq[i].bufs) >= 1 /\ Len(uv.wq[i].bufs) <= MaxChunks
  /\ \A n \in strings : 1 <= n /\ n <= nwrites
  /\ nwrites <= MaxWrites

TypeInv == Shapes /\ Bounds

(* Nothing is under way before the handle exists. *)
NotBorn == life = "none" => self = create_obj_init_ref /\ uv = uv_tcp_init /\ closes = 0

(* The order of a connection's life: whatever is under way has a           *)
(* descriptor, only a connection is read, shut down and closed, and its    *)
(* descriptor goes when the queue is empty.                                *)
Order ==
  /\ uv.conn \in {"connecting", "listening", "failed"} => uv.fd
  /\ uv.reading \/ uv.shutting => uv.conn = "connected" /\ uv.fd
  /\ uv.shutting => ~uv.reading
  /\ uv.closing => uv.conn = "connected" /\ ~uv.fd /\ closes = 0
  /\ uv.conn = "connected" /\ ~uv.fd => uv.closing \/ closes > 0
  /\ closes > 0 => uv.conn = "connected" /\ ~uv.fd
  /\ ~uv.fd => uv.wq = <<>>

CountInv == TypeInv /\ NotBorn /\ Order /\ RefCountIsExact

(* Requests are queued on connections that are referenced only. *)
Queued == uv.wq # <<>> => uv.conn \in {"connected", "listening"}

(* Chunks are numbered in the order of the calls, and each is in one       *)
(* request, at one place.                                                  *)
Numbered ==
  /\ \A k \in 1 .. Len(uv.wq) : \A i \in 1 .. Len(uv.wq[k].bufs) : uv.wq[k].bufs[i] <= nwrites
  /\ \A i \in 1 .. Len(self.wreq.bufs) : self.wreq.bufs[i] <= nwrites
  /\ \A k, l \in 1 .. Len(uv.wq) :
       k < l => \A i \in 1 .. Len(uv.wq[k].bufs), j \in 1 .. Len(uv.wq[l].bufs) :
                  uv.wq[k].bufs[i] < uv.wq[l].bufs[j]
  /\ \A k \in 1 .. Len(uv.wq) :
       \A i \in 1 .. Len(uv.wq[k].bufs), j \in 1 .. Len(self.wreq.bufs) :
         uv.wq[k].bufs[i] < self.wreq.bufs[j]

(* A handle that does not exist yet has nothing to write. *)
Unwritten ==
  life = "none" =>
    self.wreq = NoReq /\ uv.wq = <<>> /\ uv.conn = "none" /\ strings = {} /\ sent = <<>> /\ nwrites = 0

StringsInv == TypeInv /\ Unwritten /\ Numbered /\ StringsAreOwned

(* The chunk before the first of the k-th request of q, after n were sent. *)
Before(n, q, k) == IF k = 1 THEN n ELSE q[k - 1].bufs[Len(q[k - 1].bufs)]

(* The chunks from the first one sent to the last one bottled are 1, 2, ... *)
Chained ==
  /\ \A i \in 1 .. Len(sent) : sent[i] = i
  /\ \A k \in 1 .. Len(uv.wq) : \A i \in 1 .. Len(uv.wq[k].bufs) :
       uv.wq[k].bufs[i] = Before(Len(sent), uv.wq, k) + i
  /\ \A i \in 1 .. Len(self.wreq.bufs) : self.wreq.bufs[i] = Before(Len(sent), uv.wq, Len(uv.wq) + 1) + i
  /\ nwrites = Before(Len(sent), uv.wq, Len(uv.wq) + 1) + Len(self.wreq.bufs)

(* Before it is connected, a handle has been given nothing to write. *)
WireInv ==
  /\ TypeInv /\ Unwritten
  /\ uv.conn \in {"none", "connecting"} =>
       sent = <<>> /\ uv.wq = <<>> /\ self.wreq.bufs = <<>> /\ nwrites = 0
  /\ uv.conn = "connected" => Chained
-----------------------------------------------------------------------------
(* tcp_write puts the chunk at the end of the request at hand. *)
LEMMA AddedType ==
  ASSUME NEW req \in Request, NEW b \in BOOLEAN, nwrites \in Nat
  PROVE  /\ Added(req, b) \in Request
         /\ Added(req, b).bufs = Append(req.bufs, nwrites + 1)
         /\ Len(Added(req, b).bufs) = Len(req.bufs) + 1
         /\ \A n \in Added(req, b).mask : n \in req.mask \/ n = Len(req.bufs)
  BY DEF Added, Request

(* Everything tcp_write may do to the request and to libuv's queue. *)
Written(b) ==
  /\ nwrites < MaxWrites /\ nwrites' = nwrites + 1
  /\ strings' = (IF b THEN strings \cup {nwrites + 1} ELSE strings)
  /\ UNCHANGED <<life, held, sent, closes>> /\ life = "live"
  /\ self' \in Objects /\ self'.refCount = self.refCount
  /\ \/ /\ self'.wreq = Added(self.wreq, b) /\ Len(Added(self.wreq, b).bufs) # MaxChunks
        /\ UNCHANGED uv
     \/ /\ self'.wreq = NoReq /\ uv.fd
        /\ uv' = [uv EXCEPT !.wq = Append(@, Added(self.wreq, b))]
     \/ /\ self'.wreq = NoReq /\ ~uv.fd /\ UNCHANGED uv

(* tcp_write adds the chunk to the request, and keeps the request, hands   *)
(* it to libuv, or loses it when there is no descriptor.                   *)
LEMMA WriteCases ==
  ASSUME Shapes, NEW b \in BOOLEAN, NEW u \in BOOLEAN, tcp_write(b, u)
  PROVE  Written(b)
<1> DEFINE req == Added(self.wreq, b)
           bottle == self.bottle_mode /\ ~u
           flush == ~bottle \/ Len(req.bufs) = MaxChunks
<1>1. /\ nwrites < MaxWrites /\ nwrites' = nwrites + 1
      /\ strings' = (IF b THEN strings \cup {nwrites + 1} ELSE strings)
      /\ UNCHANGED <<life, held, sent, closes>> /\ life = "live"
      /\ self' = [self EXCEPT !.bottle_mode = bottle, !.wreq = IF flush THEN NoReq ELSE req]
      /\ uv' = IF flush /\ uv.fd THEN [uv EXCEPT !.wq = Append(@, req)] ELSE uv
  BY DEF tcp_write, Running
<1>2. self.wreq \in Request /\ nwrites \in Nat
  BY DEF Shapes, Objects
<1>3. req \in Request /\ NoReq \in Request
  BY <1>2, AddedType DEF NoReq, Request
<1>4. bottle \in BOOLEAN
  BY DEF Shapes, Objects
<1> HIDE DEF req, bottle
<1>5. self' \in Objects /\ self'.refCount = self.refCount
  BY <1>1, <1>3, <1>4 DEF Shapes, Objects
<1>6. CASE flush
  <2>1. self'.wreq = NoReq
    BY <1>1, <1>6 DEF Shapes, Objects
  <2>2. uv.fd \/ ~uv.fd
    OBVIOUS
  <2> QED
    BY <1>1, <1>5, <1>6, <2>1, <2>2 DEF req, Written
<1>7. CASE ~flush
  <2>1. self'.wreq = req
    BY <1>1, <1>7 DEF Shapes, Objects
  <2>2. UNCHANGED uv
    BY <1>1, <1>7
  <2> QED
    BY <1>1, <1>5, <1>7, <2>1, <2>2 DEF req, Written
<1> QED
  BY <1>6, <1>7

(* lev_handle_ref and lev_handle_unref change the count only. *)
LEMMA RefTypes ==
  ASSUME NEW o \in Objects
  PROVE  /\ lev_handle_ref(o) \in Objects /\ lev_handle_ref(o).wreq = o.wreq
         /\ lev_handle_ref(o).refCount = o.refCount + 1
         /\ lev_handle_unref(o) \in Objects /\ lev_handle_unref(o).wreq = o.wreq
         /\ lev_handle_unref(o).refCount = o.refCount - 1
  BY DEF lev_handle_ref, lev_handle_unref, Objects

(* A new handle has nothing to write and no descriptor. *)
LEMMA NewTypes ==
  /\ create_obj_init_ref \in Objects /\ create_obj_init_ref.wreq = NoReq
  /\ create_obj_init_ref.refCount = 0
  /\ NoReq \in Request /\ NoReq.bufs = <<>> /\ NoReq.mask = {}
  /\ uv_tcp_init \in Handles /\ uv_tcp_init.wq = <<>>
  BY DEF create_obj_init_ref, NoReq, Request, Objects, Handles, uv_tcp_init

(* A request is put at the end of libuv's queue or taken from its head. *)
LEMMA QueueTypes ==
  ASSUME NEW h \in Handles, NEW q \in Seq(Request)
  PROVE  /\ [h EXCEPT !.wq = q] \in Handles /\ [h EXCEPT !.wq = q].wq = q
         /\ [h EXCEPT !.wq = q].fd = h.fd /\ [h EXCEPT !.wq = q].conn = h.conn
         /\ [h EXCEPT !.wq = q].reading = h.reading
         /\ [h EXCEPT !.wq = q].shutting = h.shutting /\ [h EXCEPT !.wq = q].closing = h.closing
  BY DEF Handles

(* A step that leaves the chunks alone keeps the bounds. *)
LEMMA KeepsTypeInv ==
  ASSUME TypeInv, life' \in {"none", "live", "collected"}, held' \in BOOLEAN,
         self' \in Objects, self'.wreq \in {self.wreq, NoReq},
         uv' \in Handles, uv'.wq \in {uv.wq, <<>>},
         UNCHANGED <<strings, sent, nwrites>>, closes' \in Nat
  PROVE  TypeInv'
<1> USE TcpAssumption DEF TypeInv, Shapes, Bounds
<1>1. Len(self'.wreq.bufs) < MaxChunks /\ \A n \in self'.wreq.mask : n < MaxChunks
  BY NewTypes
<1>2. \A i \in 1 .. Len(uv'.wq) : Len(uv'.wq[i].bufs) >= 1 /\ Len(uv'.wq[i].bufs) <= MaxChunks
  OBVIOUS
<1> QED
  BY <1>1, <1>2

(* A handle has its type, and its request its bounds, after every step. *)
LEMMA StepTypeInv == TypeInv /\ [Next]_vars => TypeInv'
<1> SUFFICES ASSUME TypeInv, [Next]_vars PROVE TypeInv'
  OBVIOUS
<1> USE TcpAssumption
<1>0. /\ Shapes /\ self \in Objects /\ uv \in Handles /\ closes \in Nat /\ held \in BOOLEAN
      /\ life \in {"none", "live", "collected"}
  BY DEF TypeInv, Shapes
<1>3. ASSUME NEW b \in BOOLEAN, tcp_new(b) PROVE TypeInv'
  <2>1. uv' \in Handles /\ uv'.wq = <<>>
    BY <1>3, NewTypes DEF tcp_new, Handles
  <2> QED
    BY <1>0, <1>3, <2>1, NewTypes, KeepsTypeInv DEF tcp_new
<1>4. CASE tcp_accept
  <2>1. uv' \in Handles /\ uv'.wq = <<>>
    BY <1>4, NewTypes DEF tcp_accept, Handles
  <2>2. self' \in Objects /\ self'.wreq = NoReq
    BY <1>4, NewTypes, RefTypes DEF tcp_accept
  <2> QED
    BY <1>0, <1>4, <2>1, <2>2, KeepsTypeInv DEF tcp_accept
<1>5. CASE tcp_bind
  BY <1>0, <1>5, KeepsTypeInv DEF tcp_bind, Handles
<1>6. CASE tcp_connect
  <2>1. uv' \in Handles /\ uv'.wq = uv.wq
    BY <1>0, <1>6 DEF tcp_connect, Handles
  <2>2. self' \in Objects /\ self'.wreq = self.wreq
    BY <1>0, <1>6, RefTypes DEF tcp_connect
  <2> QED
    BY <1>0, <1>6, <2>1, <2>2, KeepsTypeInv DEF tcp_connect
<1>7. CASE tcp_listen
  <2>1. uv' \in Handles /\ uv'.wq = uv.wq
    BY <1>0, <1>7 DEF tcp_listen, Handles
  <2> QED
    BY <1>0, <1>7, <2>1, RefTypes, KeepsTypeInv DEF tcp_listen
<1>8. CASE tcp_read_start
  BY <1>0, <1>8, KeepsTypeInv DEF tcp_read_start, Handles
<1>9. CASE tcp_read_stop
  BY <1>0, <1>9, KeepsTypeInv DEF tcp_read_stop, Handles
<1>10. ASSUME UV_CLOSE_CLIENT, UNCHANGED <<strings, sent, nwrites, life>>, held' \in BOOLEAN
       PROVE  TypeInv'
  <2>1. uv' \in Handles /\ uv'.wq = uv.wq
    BY <1>0, <1>10 DEF UV_CLOSE_CLIENT, Handles
  <2>2. self' \in Objects /\ self'.wreq = self.wreq /\ closes' \in Nat
    BY <1>0, <1>10, RefTypes DEF UV_CLOSE_CLIENT, tcp_after_close
  <2> QED
    BY <1>0, <1>10, <2>1, <2>2, KeepsTypeInv
<1>11. CASE tcp_close
  BY <1>0, <1>10, <1>11 DEF tcp_close
<1>12. CASE tcp_after_shutdown
  BY <1>0, <1>12, KeepsTypeInv DEF tcp_after_shutdown, Handles
<1>13. CASE uv_close_cb
  <2>1. uv' \in Handles /\ uv'.wq = uv.wq
    BY <1>0, <1>13 DEF uv_close_cb, Handles
  <2>2. held' \in BOOLEAN
    BY <1>0, <1>13, Zenon DEF uv_close_cb
  <2>3. closes' \in Nat
    BY <1>0, <1>13 DEF uv_close_cb
  <2> QED
    BY <1>0, <1>13, <2>1, <2>2, <2>3, RefTypes, KeepsTypeInv DEF uv_close_cb, tcp_after_close
<1>14. CASE on_connect
  <2>1. uv' \in Handles /\ uv'.wq = uv.wq
    BY <1>0, <1>14 DEF on_connect, Handles
  <2>2. self' \in Objects /\ self'.wreq = self.wreq
    BY <1>0, <1>14, RefTypes DEF on_connect
  <2> QED
    BY <1>0, <1>14, <2>1, <2>2, KeepsTypeInv DEF on_connect
<1>15. CASE on_connection
  BY <1>0, <1>15, KeepsTypeInv DEF on_connection
<1>16. CASE on_read
  <2>1. CASE UV_CLOSE_CLIENT /\ UNCHANGED held
    BY <1>0, <1>10, <1>16, <2>1 DEF on_read
  <2>2. CASE held' = TRUE /\ UNCHANGED <<self, uv, closes>>
    BY <1>0, <1>16, <2>2, KeepsTypeInv DEF on_read
  <2> QED
    BY <1>16, <2>1, <2>2 DEF on_read
<1>17. ASSUME NEW b \in BOOLEAN, NEW u \in BOOLEAN, tcp_write(b, u) PROVE TypeInv'
  <2>0. Written(b)
    BY <1>0, <1>17, WriteCases
  <2> USE DEF TypeInv, Shapes, Bounds
  <2> DEFINE req == Added(self.wreq, b)
  <2>1. /\ req \in Request
        /\ Len(req.bufs) = Len(self.wreq.bufs) + 1
        /\ \A n \in req.mask : n \in self.wreq.mask \/ n = Len(self.wreq.bufs)
    BY AddedType DEF Objects
  <2>2. Len(self.wreq.bufs) \in Nat
    BY DEF Request, Objects
  <2> HIDE DEF req
  <2>3. /\ \A n \in strings' : 1 <= n /\ n <= nwrites'
        /\ strings' \in SUBSET Nat /\ nwrites' \in Nat /\ nwrites' <= MaxWrites
    BY <2>0 DEF Written
  <2>4. uv' \in Handles
    <3>1. uv.wq \in Seq(Request)
      BY <1>0 DEF Handles
    <3>2. Append(uv.wq, req) \in Seq(Request)
      BY <2>1, <3>1
    <3> QED
      BY <1>0, <2>0, <3>2, QueueTypes DEF req, Written
  <2>5. \A i \in 1 .. Len(uv'.wq) : Len(uv'.wq[i].bufs) >= 1 /\ Len(uv'.wq[i].bufs) <= MaxChunks
    <3>1. CASE UNCHANGED uv
      BY <3>1
    <3>2. CASE uv' = [uv EXCEPT !.wq = Append(@, req)]
      <4>1. uv'.wq = Append(uv.wq, req) /\ uv.wq \in Seq(Request)
        BY <3>2 DEF Handles
      <4> QED
        <5> SUFFICES ASSUME NEW i \in 1 .. Len(uv'.wq)
                     PROVE  Len(uv'.wq[i].bufs) >= 1 /\ Len(uv'.wq[i].bufs) <= MaxChunks
          OBVIOUS
        <5>1. CASE i \in 1 .. Len(uv.wq)
          <6>1. uv'.wq[i] = uv.wq[i]
            BY <2>1, <4>1, <5>1
          <6> QED
            BY <5>1, <6>1
        <5>2. CASE i = Len(uv.wq) + 1
          <6>1. uv'.wq[i] = req
            BY <2>1, <4>1, <5>2
          <6> QED
            BY <2>1, <2>2, <6>1
        <5> QED
          BY <2>1, <4>1, <5>1, <5>2
    <3> QED
      BY <2>0, <3>1, <3>2 DEF req, Written
  <2>6. Len(self'.wreq.bufs) < MaxChunks /\ \A n \in self'.wreq.mask : n < MaxChunks
    <3>1. CASE self'.wreq = NoReq
      BY <3>1, NewTypes
    <3>2. CASE self'.wreq = req /\ Len(req.bufs) # MaxChunks
      BY <2>1, <2>2, <3>2
    <3> QED
      BY <2>0, <3>1, <3>2 DEF req, Written
  <2> QED
    BY <2>0, <2>3, <2>4, <2>5, <2>6 DEF Written
<1>18. CASE tcp_bottle
  BY <1>0, <1>18, KeepsTypeInv DEF tcp_bottle, Objects
<1>19. CASE tcp_after_write
  <2> USE DEF TypeInv, Shapes, Bounds
  <2>1. uv' = [uv EXCEPT !.wq = Tail(@)] /\ uv.wq # <<>>
    BY <1>19 DEF tcp_after_write
  <2>2. uv' \in Handles /\ Len(uv'.wq) = Len(uv.wq) - 1
        /\ \A i \in 1 .. Len(uv'.wq) : uv'.wq[i] = uv.wq[i + 1]
    <3>1. uv.wq \in Seq(Request)
      BY <1>0 DEF Handles
    <3>2. Tail(uv.wq) \in Seq(Request)
      BY <2>1, <3>1
    <3>3. uv' \in Handles /\ uv'.wq = Tail(uv.wq)
      BY <1>0, <2>1, <3>2, QueueTypes
    <3> QED
      BY <2>1, <3>1, <3>3
  <2>3. sent' \in Seq(Nat)
    <3>1. Head(uv.wq) \in Request
      BY <2>1 DEF Handles
    <3> QED
      BY <1>19, <3>1 DEF tcp_after_write, Request
  <2>4. strings' \subseteq strings
    BY <1>19 DEF tcp_after_write
  <2>5. \A i \in 1 .. Len(uv'.wq) : Len(uv'.wq[i].bufs) >= 1 /\ Len(uv'.wq[i].bufs) <= MaxChunks
    BY <2>2
  <2>6. UNCHANGED <<life, held, self, nwrites, closes>>
    BY <1>19 DEF tcp_after_write
  <2> QED
    BY <2>2, <2>3, <2>4, <2>5, <2>6
<1>20. CASE drop
  BY <1>0, <1>20, KeepsTypeInv DEF drop
<1>21. CASE collect
  BY <1>0, <1>21, KeepsTypeInv DEF collect
<1>22. CASE UNCHANGED vars
  BY <1>0, <1>22, KeepsTypeInv DEF vars
<1> QED
  BY <1>3, <1>4, <1>5, <1>6, <1>7, <1>8, <1>9, <1>11, <1>12, <1>13, <1>14, <1>15, <1>16, <1>17,
     <1>18, <1>19, <1>20, <1>21, <1>22 DEF Next

(* Nothing has happened in the initial state. *)
LEMMA InitTypeInv == Init => TypeInv
<1> SUFFICES ASSUME Init PROVE TypeInv
  OBVIOUS
<1>1. held \in BOOLEAN /\ life = "none"
  BY DEF Init
<1>2. self \in Objects /\ self.wreq = NoReq /\ uv \in Handles /\ uv.wq = <<>>
  BY NewTypes DEF Init
<1> QED
  BY <1>1, <1>2, TcpAssumption DEF Init, TypeInv, Shapes, Bounds, NoReq

(* What TypeInv says in the terms of the specification. *)
LEMMA TypeInvImplies == TypeInv => TypeOK
  BY TcpAssumption DEF TypeInv, Shapes, Bounds, Handles, Objects, Request, TypeOK

(* The type invariant of a TCP handle, for any bounds and any use: a       *)
(* request never overruns the array in write_req_t.                        *)
THEOREM TcpTypeCorrect == Spec => []TypeOK
  BY InitTypeInv, StepTypeInv, TypeInvImplies, PTL DEF Spec
-----------------------------------------------------------------------------
(* The phase of a handle tells if it has a descriptor, and a connection. *)
LEMMA PhaseCases ==
  ASSUME Shapes
  PROVE  /\ uv.fd /\ uv.conn \in {"none", "connecting"} => Phase = "pending"
         /\ uv.fd /\ uv.conn \in {"connected", "listening"} => Phase = "open"
         /\ uv.fd /\ uv.conn = "failed" => Phase = "failed"
         /\ ~uv.fd => Phase \in {"unopened", "closing", "closed"}
         /\ Phase = "unopened" => ~uv.fd /\ ~uv.closing /\ closes = 0
         /\ Phase = "pending" => uv.fd /\ uv.conn \in {"none", "connecting"}
<1>1. /\ uv.fd \in BOOLEAN /\ uv.closing \in BOOLEAN /\ closes \in Nat
      /\ uv.conn \in {"none", "connecting", "connected", "failed", "listening"}
  BY DEF Shapes, Handles
<1>2. CASE uv.fd
  BY <1>1, <1>2 DEF Phase
<1>3. CASE ~uv.fd /\ uv.closing
  BY <1>1, <1>3 DEF Phase
<1>4. CASE ~uv.fd /\ ~uv.closing
  <2>1. CASE closes > 0
    BY <1>1, <1>4, <2>1 DEF Phase
  <2>2. CASE closes = 0
    BY <1>1, <1>4, <2>2 DEF Phase
  <2> QED
    BY <1>1, <2>1, <2>2
<1> QED
  BY <1>1, <1>2, <1>3, <1>4

(* The count is exact, and the order kept, after every step of a program   *)
(* that closes handles with a descriptor only.                             *)
LEMMA StepCountInv ==
  ASSUME CloseWhen \subseteq {"pending", "open", "failed"}, CountInv, [Next]_vars
  PROVE  CountInv'
<1> USE TcpAssumption
<1>0. TypeInv /\ Shapes /\ self \in Objects /\ uv \in Handles /\ closes \in Nat
  BY DEF CountInv, TypeInv, Shapes
<1>1. TypeInv' /\ Shapes' /\ self' \in Objects /\ uv' \in Handles /\ closes' \in Nat
  BY <1>0, StepTypeInv DEF TypeInv, Shapes
<1> SUFFICES NotBorn' /\ Order' /\ RefCountIsExact'
  BY <1>1 DEF CountInv
<1> USE DEF CountInv, NotBorn, Order, RefCountIsExact
<1>3. ASSUME NEW b \in BOOLEAN, tcp_new(b) PROVE NotBorn' /\ Order' /\ RefCountIsExact'
  BY <1>0, <1>3, NewTypes DEF tcp_new, uv_tcp_init
<1>4. CASE tcp_accept
  <2>1. CASE uv' = uv_tcp_init /\ self' = create_obj_init_ref
    BY <1>0, <1>4, <2>1, NewTypes DEF tcp_accept, uv_tcp_init
  <2>2. CASE /\ uv' = [uv_tcp_init EXCEPT !.fd = TRUE, !.conn = "connected"]
             /\ self' = lev_handle_ref(create_obj_init_ref)
    <3>1. self'.refCount = 1
      BY <2>2, NewTypes, RefTypes
    <3> QED
      BY <1>0, <1>4, <2>2, <3>1 DEF tcp_accept, uv_tcp_init
  <2> QED
    BY <1>4, <2>1, <2>2 DEF tcp_accept
<1>5. CASE tcp_bind
  BY <1>0, <1>5, PhaseCases DEF tcp_bind, Running, Handles
<1>6. CASE tcp_connect
  <2>1. life = "live" /\ uv.conn = "none" /\ closes = 0 /\ UNCHANGED <<life, closes>>
    BY <1>0, <1>6, PhaseCases DEF tcp_connect, Running
  <2>2. CASE uv' = [uv EXCEPT !.fd = TRUE, !.conn = "connecting"] /\ self' = lev_handle_ref(self)
    BY <1>0, <2>1, <2>2, RefTypes DEF Handles
  <2>3. CASE uv' = [uv EXCEPT !.fd = TRUE] /\ UNCHANGED self
    BY <1>0, <2>1, <2>3 DEF Handles
  <2> QED
    BY <1>6, <2>2, <2>3 DEF tcp_connect
<1>7. CASE tcp_listen
  BY <1>0, <1>7, PhaseCases, RefTypes DEF tcp_listen, Running, Handles
<1>8. CASE tcp_read_start
  BY <1>0, <1>8 DEF tcp_read_start, Running, Handles
<1>9. CASE tcp_read_stop
  BY <1>0, <1>9 DEF tcp_read_stop, Running, Handles
<1>10. ASSUME UV_CLOSE_CLIENT, uv.fd, life = "live", UNCHANGED life
       PROVE  NotBorn' /\ Order' /\ RefCountIsExact'
  BY <1>0, <1>10 DEF UV_CLOSE_CLIENT, Handles
<1>11. CASE tcp_close
  BY <1>0, <1>10, <1>11, PhaseCases DEF tcp_close, Running
<1>12. CASE tcp_after_shutdown
  BY <1>0, <1>12 DEF tcp_after_shutdown, Running, Handles
<1>13. CASE uv_close_cb
  BY <1>0, <1>13, RefTypes DEF uv_close_cb, Running, Handles, tcp_after_close
<1>14. CASE on_connect
  BY <1>0, <1>14, RefTypes DEF on_connect, Running, Handles
<1>15. CASE on_connection
  BY <1>15 DEF on_connection, Running
<1>16. CASE on_read
  <2>1. CASE UV_CLOSE_CLIENT
    BY <1>10, <1>16, <2>1 DEF on_read, Running
  <2>2. CASE UNCHANGED <<self, uv, closes>>
    BY <1>16, <2>2 DEF on_read, Running
  <2> QED
    BY <1>16, <2>1, <2>2 DEF on_read
<1>17. ASSUME NEW b \in BOOLEAN, NEW u \in BOOLEAN, tcp_write(b, u)
       PROVE  NotBorn' /\ Order' /\ RefCountIsExact'
  <2>1. Written(b)
    BY <1>0, <1>17, WriteCases
  <2>2. CASE UNCHANGED uv
    BY <2>1, <2>2 DEF Written
  <2>3. CASE uv.fd /\ uv' = [uv EXCEPT !.wq = Append(@, Added(self.wreq, b))]
    BY <1>0, <2>1, <2>3 DEF Written, Handles
  <2> QED
    BY <2>1, <2>2, <2>3 DEF Written
<1>18. CASE tcp_bottle
  BY <1>0, <1>18 DEF tcp_bottle, Running, Objects
<1>19. CASE tcp_after_write
  <2>1. uv' = [uv EXCEPT !.wq = Tail(@)] /\ uv.wq # <<>> /\ UNCHANGED <<life, self, closes>>
        /\ life = "live"
    BY <1>19 DEF tcp_after_write, Running
  <2> QED
    BY <1>0, <2>1 DEF Handles
<1>20. CASE drop
  BY <1>20 DEF drop, Running
<1>21. CASE collect
  BY <1>21 DEF collect, Running
<1>22. CASE UNCHANGED vars
  BY <1>22 DEF vars
<1> QED
  BY <1>3, <1>4, <1>5, <1>6, <1>7, <1>8, <1>9, <1>11, <1>12, <1>13, <1>14, <1>15, <1>16, <1>17,
     <1>18, <1>19, <1>20, <1>21, <1>22 DEF Next

(* Nothing is under way in the initial state. *)
LEMMA InitCountInv == Init => CountInv
<1> SUFFICES ASSUME Init PROVE CountInv
  OBVIOUS
<1>1. TypeInv
  BY InitTypeInv
<1>2. NotBorn /\ Order /\ RefCountIsExact
  BY DEF Init, NotBorn, Order, RefCountIsExact, uv_tcp_init
<1> QED
  BY <1>1, <1>2 DEF CountInv

(* A TCP handle has one reference for its connection, from the call that   *)
(* starts it to the callback that ends it, in every program that closes    *)
(* handles with a descriptor only, whatever the bounds.                    *)
THEOREM TcpCountIsExact ==
  ASSUME CloseWhen \subseteq {"pending", "open", "failed"}
  PROVE  Spec => []RefCountIsExact
<1>1. CountInv /\ [Next]_vars => CountInv'
  BY StepCountInv
<1>2. CountInv => RefCountIsExact
  BY DEF CountInv
<1> QED
  BY <1>1, <1>2, InitCountInv, PTL DEF Spec

-----------------------------------------------------------------------------
ObjectInv == CountInv /\ Queued

(* What is queued stays on referenced connections. *)
LEMMA StepQueued ==
  ASSUME WriteWhen \cap {"pending", "failed"} = {}, CountInv, Queued, [Next]_vars
  PROVE  Queued'
<1>0. Shapes /\ uv \in Handles
  BY DEF CountInv, TypeInv, Shapes
<1> USE DEF Queued
<1>1. ASSUME uv'.wq = uv.wq, uv.wq # <<>> => uv'.conn = uv.conn PROVE Queued'
  BY <1>1
<1>2. ASSUME uv'.wq = <<>> PROVE Queued'
  BY <1>2
<1>3. ASSUME NEW b \in BOOLEAN, tcp_new(b) PROVE Queued'
  BY <1>3, <1>2 DEF tcp_new, uv_tcp_init
<1>4. CASE tcp_accept
  <2>1. uv' = uv_tcp_init \/ uv' = [uv_tcp_init EXCEPT !.fd = TRUE, !.conn = "connected"]
    BY <1>4 DEF tcp_accept
  <2>2. uv'.wq = <<>>
    BY <2>1, NewTypes DEF Handles
  <2> QED
    BY <1>2, <2>2
<1>5. CASE tcp_bind \/ tcp_read_start \/ tcp_read_stop \/ tcp_after_shutdown \/ uv_close_cb
  BY <1>0, <1>1, <1>5
     DEF tcp_bind, tcp_read_start, tcp_read_stop, tcp_after_shutdown, uv_close_cb, Handles
<1>6. CASE tcp_connect \/ tcp_listen \/ on_connect
  <2>1. uv.wq = <<>>
    BY <1>6 DEF tcp_connect, tcp_listen, on_connect
  <2>2. uv'.wq = uv.wq
    BY <1>0, <1>6 DEF tcp_connect, tcp_listen, on_connect, Handles
  <2> QED
    BY <1>2, <2>1, <2>2
<1>7. ASSUME UV_CLOSE_CLIENT PROVE Queued'
  BY <1>0, <1>1, <1>7 DEF UV_CLOSE_CLIENT, Handles
<1>8. CASE tcp_close \/ on_read
  BY <1>7, <1>8 DEF tcp_close, on_read
<1>9. ASSUME NEW b \in BOOLEAN, NEW u \in BOOLEAN, tcp_write(b, u) PROVE Queued'
  <2>1. Written(b) /\ Phase \in WriteWhen
    BY <1>0, <1>9, WriteCases DEF tcp_write
  <2>2. CASE UNCHANGED uv
    BY <1>1, <2>2
  <2>3. CASE uv.fd /\ uv' = [uv EXCEPT !.wq = Append(@, Added(self.wreq, b))]
    <3>1. uv'.conn = uv.conn
      BY <1>0, <2>3 DEF Handles
    <3>2. uv.conn \in {"connected", "listening"}
      BY <1>0, <2>1, <2>3, PhaseCases DEF Handles
    <3> QED
      BY <3>1, <3>2
  <2> QED
    BY <2>1, <2>2, <2>3 DEF Written
<1>10. CASE tcp_after_write
  BY <1>0, <1>10 DEF tcp_after_write, Handles
<1>11. CASE on_connection \/ tcp_bottle \/ drop \/ collect \/ UNCHANGED vars
  BY <1>1, <1>11 DEF on_connection, tcp_bottle, drop, collect, vars
<1> QED
  BY <1>3, <1>4, <1>5, <1>6, <1>8, <1>9, <1>10, <1>11 DEF Next

(* The handle is born. *)
Born == life = "none" /\ life' = "live" /\ UNCHANGED closes

(* Something happens to a living handle that is not closed or at work. *)
Works == life = "live" /\ UNCHANGED <<life, closes>> /\ (closes = 0 \/ Busy)

(* Nothing that LevObject sees. *)
Silent == UNCHANGED <<life, closes, uv>>

(* What a step may do to the life of a handle. *)
LEMMA StepKinds ==
  ASSUME CloseWhen \subseteq {"pending", "open", "failed"}, CountInv, [Next]_vars
  PROVE  Born \/ Works \/ Silent \/ uv_close_cb \/ collect
<1>0. Shapes /\ uv \in Handles /\ closes \in Nat /\ Order
  BY DEF CountInv, TypeInv, Shapes
<1>1. uv.fd => closes = 0
  BY <1>0 DEF Order
<1>2. CASE tcp_accept \/ \E b \in BOOLEAN : tcp_new(b)
  BY <1>2 DEF tcp_new, tcp_accept, Born
<1>3. CASE tcp_bind \/ tcp_connect \/ tcp_listen
  BY <1>0, <1>1, <1>3, PhaseCases DEF tcp_bind, tcp_connect, tcp_listen, Running, Works
<1>4. CASE tcp_read_start \/ tcp_read_stop \/ tcp_after_shutdown
  BY <1>1, <1>4 DEF tcp_read_start, tcp_read_stop, tcp_after_shutdown, Running, Works, Busy
<1>5. CASE tcp_close
  BY <1>0, <1>1, <1>5, PhaseCases DEF tcp_close, UV_CLOSE_CLIENT, Running, Works
<1>6. CASE on_connect \/ on_connection \/ tcp_after_write
  BY <1>6 DEF on_connect, on_connection, tcp_after_write, Running, Works, Busy
<1>7. CASE on_read
  BY <1>0, <1>1, <1>7 DEF on_read, UV_CLOSE_CLIENT, Running, Works, Order
<1>8. ASSUME NEW b \in BOOLEAN, NEW u \in BOOLEAN, tcp_write(b, u) PROVE Works \/ Silent
  <2>1. Written(b)
    BY <1>0, <1>8, WriteCases
  <2> QED
    BY <1>1, <2>1 DEF Written, Works, Silent
<1>9. CASE tcp_bottle \/ drop \/ UNCHANGED vars
  BY <1>9 DEF tcp_bottle, drop, vars, Silent
<1> QED
  BY <1>2, <1>3, <1>4, <1>5, <1>6, <1>7, <1>8, <1>9 DEF Next

(* Every step of a TCP handle is a step of LevObject, or leaves it unchanged. *)
LEMMA StepObject ==
  ASSUME CloseWhen \subseteq {"pending", "open", "failed"}, ObjectInv, ObjectInv', [Next]_vars
  PROVE  [Object!Next]_(Object!ovars)
<1> USE DEF Object!Next, Object!ovars
<1>0. Shapes /\ uv \in Handles /\ closes \in Nat /\ closes' \in Nat /\ Order /\ Queued
      /\ RefCountIsExact
  BY DEF ObjectInv, CountInv, TypeInv, Shapes
<1>1. Busy \in BOOLEAN /\ Busy' \in BOOLEAN
  BY DEF Busy
<1>3. CASE Born
  BY <1>1, <1>3 DEF Born, Object!Create
<1>4. CASE Works
  <2>1. (closes > 0)' = (closes > 0) /\ life' = life /\ life = "live"
    BY <1>4 DEF Works
  <2>2. CASE Busy' = Busy
    BY <2>1, <2>2
  <2>3. CASE Busy /\ ~Busy'
    BY <1>1, <2>1, <2>3 DEF Object!Finish
  <2>4. CASE ~Busy /\ Busy'
    <3>1. ~(closes > 0)
      BY <1>4, <2>4 DEF Works
    <3>2. Busy' = TRUE
      BY <1>1, <2>4, Zenon
    <3>3. Object!Start
      BY <2>1, <3>1, <3>2, Zenon DEF Object!Start
    <3> QED
      BY <3>3, Zenon
  <2> QED
    BY <1>1, <2>2, <2>3, <2>4
<1>5. CASE Silent
  BY <1>5 DEF Silent, Busy
<1>6. CASE uv_close_cb
  <2>1. closes = 0 /\ closes' = 1 /\ Busy /\ life = "live" /\ life' = life
    BY <1>0, <1>6 DEF uv_close_cb, Busy, Running, Order
  <2>2. ~Busy'
    BY <1>0, <1>6 DEF uv_close_cb, Busy, Order, Handles
  <2>3. ~(closes > 0)
    BY <2>1
  <2>4. Busy' = FALSE
    BY <1>1, <2>2, Zenon
  <2>5. (closes > 0)' = TRUE
    BY <2>1
  <2>6. Object!Close
    BY <2>1, <2>3, <2>4, <2>5, Zenon DEF Object!Close
  <2> QED
    BY <2>6, Zenon
<1>7. CASE collect
  <2>1. UNCHANGED <<uv, closes>> /\ life = "live" /\ life' = "collected" /\ self.refCount = 0
    BY <1>7 DEF collect, Running
  <2>2. ~Busy
    BY <1>0, <2>1 DEF Busy, Order, Queued, RefCountIsExact
  <2>3. Busy' = Busy
    BY <2>1 DEF Busy
  <2> QED
    BY <1>1, <2>1, <2>2, <2>3 DEF Object!Collect
<1> QED
  BY StepKinds, <1>3, <1>4, <1>5, <1>6, <1>7 DEF ObjectInv

(* A TCP handle implements LevObject, the promise of lev_new_base.c,       *)
(* although its reads and writes take no reference: in every program that  *)
(* closes handles with a descriptor only, and writes to no handle whose    *)
(* connection is still to come or has failed.                              *)
THEOREM TcpImplements ==
  ASSUME CloseWhen \subseteq {"pending", "open", "failed"},
         WriteWhen \cap {"pending", "failed"} = {}
  PROVE  Spec => IsObject
<1>1. Init => ObjectInv
  BY InitCountInv DEF Init, ObjectInv, Queued, uv_tcp_init
<1>2. ObjectInv /\ [Next]_vars => ObjectInv'
  BY StepCountInv, StepQueued DEF ObjectInv
<1>3. Init => Object!Init
  BY DEF Init, Object!Init, Busy, uv_tcp_init
<1>4. ObjectInv /\ ObjectInv' /\ [Next]_vars => [Object!Next]_(Object!ovars)
  BY StepObject
<1> QED
  BY <1>1, <1>2, <1>3, <1>4, PTL DEF Spec, IsObject, Object!Spec

-----------------------------------------------------------------------------
(* What a chunk adds to the copies of a request, and where they are. *)
LEMMA AddedCopies ==
  ASSUME NEW req \in Request, NEW b \in BOOLEAN, nwrites \in Nat
  PROVE  Copied(Added(req, b)) = Copied(req) \cup (IF b THEN {nwrites + 1} ELSE {})
<1> DEFINE new == Added(req, b)
           n == Len(req.bufs)
<1>1. /\ new.bufs = Append(req.bufs, nwrites + 1) /\ n \in Nat /\ Len(new.bufs) = n + 1
      /\ new.bufs[n + 1] = nwrites + 1 /\ \A i \in 1 .. n : new.bufs[i] = req.bufs[i]
  BY DEF Added, Request
<1>2. new.mask = IF b THEN req.mask \cup {n} ELSE req.mask \ {n}
  BY DEF Added
<1>3. \A x : x \in Copied(new) <=> \E i \in 1 .. n + 1 : i - 1 \in new.mask /\ x = new.bufs[i]
  BY <1>1 DEF Copied
<1>4. \A x : x \in Copied(req) <=> \E i \in 1 .. n : i - 1 \in req.mask /\ x = req.bufs[i]
  BY DEF Copied
<1> HIDE DEF new, n
<1>5. \A i \in 1 .. n : i - 1 \in new.mask <=> i - 1 \in req.mask
  BY <1>1, <1>2
<1>6. n \in new.mask <=> b
  BY <1>2
<1>7. ASSUME NEW x PROVE x \in Copied(new) <=> x \in Copied(req) \/ (b /\ x = nwrites + 1)
  <2>1. ASSUME x \in Copied(new) PROVE x \in Copied(req) \/ (b /\ x = nwrites + 1)
    <3>1. PICK i \in 1 .. n + 1 : i - 1 \in new.mask /\ x = new.bufs[i]
      BY <1>3, <2>1
    <3>2. CASE i = n + 1
      BY <1>1, <1>6, <3>1, <3>2
    <3>3. CASE i \in 1 .. n
      BY <1>1, <1>4, <1>5, <3>1, <3>3
    <3> QED
      BY <1>1, <3>2, <3>3
  <2>2. ASSUME x \in Copied(req) PROVE x \in Copied(new)
    <3>1. PICK i \in 1 .. n : i - 1 \in req.mask /\ x = req.bufs[i]
      BY <1>4, <2>2
    <3>2. i \in 1 .. n + 1 /\ i - 1 \in new.mask /\ x = new.bufs[i]
      BY <1>1, <1>5, <3>1
    <3> QED
      BY <1>3, <3>2
  <2>3. ASSUME b, x = nwrites + 1 PROVE x \in Copied(new)
    <3>1. n + 1 \in 1 .. n + 1 /\ (n + 1) - 1 \in new.mask /\ x = new.bufs[n + 1]
      BY <1>1, <1>6, <2>3
    <3> QED
      BY <1>3, <3>1
  <2> QED
    BY <2>1, <2>2, <2>3
<1> QED
  BY <1>7 DEF new

(* The chunks of a request are numbers of calls. *)
LEMMA ChunksAreNumbers ==
  ASSUME NEW req \in Request
  PROVE  \A i \in 1 .. Len(req.bufs) : req.bufs[i] \in Nat
  BY DEF Request

(* The copies a request marks are among its chunks. *)
LEMMA CopiedAreChunks ==
  ASSUME NEW req \in Request
  PROVE  \A x \in Copied(req) : \E i \in 1 .. Len(req.bufs) : x = req.bufs[i]
  BY DEF Copied

(* Chunks stay numbered in the order of the calls. *)
LEMMA WriteNumbered ==
  ASSUME TypeInv, Numbered, NEW b \in BOOLEAN, Written(b)
  PROVE  Numbered'
<1> DEFINE req == Added(self.wreq, b)
<1>0. self \in Objects /\ uv \in Handles /\ nwrites \in Nat /\ nwrites' = nwrites + 1
  BY DEF TypeInv, Shapes, Written
<1>1. self.wreq \in Request /\ uv.wq \in Seq(Request)
  BY <1>0 DEF Objects, Handles
<1>2. /\ req \in Request /\ Len(req.bufs) = Len(self.wreq.bufs) + 1
      /\ Len(self.wreq.bufs) \in Nat
      /\ req.bufs[Len(req.bufs)] = nwrites + 1
      /\ \A i \in 1 .. Len(self.wreq.bufs) : req.bufs[i] = self.wreq.bufs[i]
  <2>1. req \in Request /\ req.bufs = Append(self.wreq.bufs, nwrites + 1)
    BY <1>0, <1>1, AddedType
  <2>2. self.wreq.bufs \in Seq(Nat) /\ nwrites + 1 \in Nat
    BY <1>0, <1>1 DEF Request
  <2> QED
    BY <2>1, <2>2
<1>3. /\ \A k \in 1 .. Len(uv.wq) : \A i \in 1 .. Len(uv.wq[k].bufs) : uv.wq[k].bufs[i] \in Nat
      /\ \A i \in 1 .. Len(self.wreq.bufs) : self.wreq.bufs[i] \in Nat
  <2>1. \A k \in 1 .. Len(uv.wq) : uv.wq[k] \in Request
    BY <1>1
  <2>2. self.wreq.bufs \in Seq(Nat)
    BY <1>1 DEF Request
  <2> QED
    BY <2>1, <2>2 DEF Request
<1> HIDE DEF req
<1>4. \A i \in 1 .. Len(req.bufs) : i \in 1 .. Len(self.wreq.bufs) \/ req.bufs[i] = nwrites + 1
  BY <1>2
<1>5. /\ \A i \in 1 .. Len(req.bufs) : req.bufs[i] <= nwrites + 1
      /\ \A k \in 1 .. Len(uv.wq) :
           \A i \in 1 .. Len(uv.wq[k].bufs), j \in 1 .. Len(req.bufs) :
             uv.wq[k].bufs[i] < req.bufs[j]
  <2>1. ASSUME NEW i \in 1 .. Len(req.bufs) PROVE req.bufs[i] <= nwrites + 1
    <3>1. CASE i \in 1 .. Len(self.wreq.bufs)
      BY <1>0, <1>2, <1>3, <3>1 DEF Numbered
    <3>2. CASE req.bufs[i] = nwrites + 1
      BY <1>0, <3>2
    <3> QED
      BY <1>4, <3>1, <3>2
  <2>2. ASSUME NEW k \in 1 .. Len(uv.wq), NEW i \in 1 .. Len(uv.wq[k].bufs),
               NEW j \in 1 .. Len(req.bufs)
        PROVE  uv.wq[k].bufs[i] < req.bufs[j]
    <3>1. CASE j \in 1 .. Len(self.wreq.bufs)
      BY <1>2, <3>1 DEF Numbered
    <3>2. CASE req.bufs[j] = nwrites + 1
      BY <1>0, <1>3, <3>2 DEF Numbered
    <3> QED
      BY <1>4, <3>1, <3>2
  <2> QED
    BY <2>1, <2>2
<1>6. /\ \A k \in 1 .. Len(uv.wq) : \A i \in 1 .. Len(uv.wq[k].bufs) : uv.wq[k].bufs[i] <= nwrites + 1
  <2> SUFFICES ASSUME NEW k \in 1 .. Len(uv.wq), NEW i \in 1 .. Len(uv.wq[k].bufs)
               PROVE  uv.wq[k].bufs[i] <= nwrites + 1
    OBVIOUS
  <2>1. uv.wq[k].bufs[i] <= nwrites /\ uv.wq[k].bufs[i] \in Nat
    BY <1>3 DEF Numbered
  <2> QED
    BY <1>0, <2>1
<1>7. CASE self'.wreq = req /\ UNCHANGED uv
  BY <1>0, <1>5, <1>6, <1>7 DEF Numbered
<1>8. CASE self'.wreq = NoReq /\ UNCHANGED uv
  <2>1. \A j : j \notin 1 .. Len(self'.wreq.bufs)
    BY <1>8, NewTypes
  <2> QED
    <3>1. uv'.wq = uv.wq /\ nwrites' = nwrites + 1
      BY <1>0, <1>8
    <3>2. \A k, l \in 1 .. Len(uv.wq) :
            k < l => \A i \in 1 .. Len(uv.wq[k].bufs), j \in 1 .. Len(uv.wq[l].bufs) :
                       uv.wq[k].bufs[i] < uv.wq[l].bufs[j]
      BY DEF Numbered
    <3> QED
      BY <1>6, <2>1, <3>1, <3>2 DEF Numbered
<1>9. CASE self'.wreq = NoReq /\ uv' = [uv EXCEPT !.wq = Append(@, req)]
  <2>1. \A j : j \notin 1 .. Len(self'.wreq.bufs)
    BY <1>9, NewTypes
  <2>2. uv'.wq = Append(uv.wq, req)
    BY <1>0, <1>9 DEF Handles
  <2>3. /\ Len(uv'.wq) = Len(uv.wq) + 1 /\ uv'.wq[Len(uv.wq) + 1] = req /\ Len(uv.wq) \in Nat
        /\ \A k \in 1 .. Len(uv.wq) : uv'.wq[k] = uv.wq[k]
    BY <1>1, <1>2, <2>2
  <2>4. \A k \in 1 .. Len(uv'.wq) : k \in 1 .. Len(uv.wq) \/ k = Len(uv.wq) + 1
    BY <2>3
  <2>5. \A k \in 1 .. Len(uv'.wq) : \A i \in 1 .. Len(uv'.wq[k].bufs) : uv'.wq[k].bufs[i] <= nwrites'
    BY <1>0, <1>5, <1>6, <2>3, <2>4
  <2>6. ASSUME NEW k \in 1 .. Len(uv'.wq), NEW l \in 1 .. Len(uv'.wq), k < l,
               NEW i \in 1 .. Len(uv'.wq[k].bufs), NEW j \in 1 .. Len(uv'.wq[l].bufs)
        PROVE  uv'.wq[k].bufs[i] < uv'.wq[l].bufs[j]
    <3>1. k \in 1 .. Len(uv.wq) /\ uv'.wq[k] = uv.wq[k]
      <4> DEFINE m == Len(uv.wq)
      <4>1. m \in Nat /\ k \in 1 .. m + 1 /\ l \in 1 .. m + 1 /\ k < l
        BY <2>3, <2>6
      <4> HIDE DEF m
      <4>2. k \in 1 .. m
        BY <4>1
      <4> QED
        BY <2>3, <4>2 DEF m
    <3>2. CASE l \in 1 .. Len(uv.wq)
      <4>1. uv'.wq[l] = uv.wq[l]
        BY <2>3, <3>2
      <4>2. i \in 1 .. Len(uv.wq[k].bufs) /\ j \in 1 .. Len(uv.wq[l].bufs)
        BY <3>1, <4>1
      <4>3. uv.wq[k].bufs[i] < uv.wq[l].bufs[j]
        BY <2>6, <3>1, <3>2, <4>2 DEF Numbered
      <4> QED
        BY <3>1, <4>1, <4>3
    <3>3. CASE l = Len(uv.wq) + 1
      BY <1>5, <2>3, <2>6, <3>1, <3>3
    <3> QED
      BY <2>4, <3>2, <3>3
  <2> QED
    BY <2>1, <2>5, <2>6 DEF Numbered
<1> QED
  BY <1>7, <1>8, <1>9 DEF Written, req

(* A step that neither takes a chunk nor writes one. *)
Quiet ==
  /\ self'.wreq = self.wreq /\ uv'.wq = uv.wq /\ UNCHANGED <<strings, sent, nwrites>>
  /\ uv'.conn = uv.conn \/ uv.conn \in {"none", "connecting"}
  /\ life' # "none" \/ UNCHANGED <<life, self, uv>>

(* What a step may do to the chunks of a handle. *)
LEMMA ChunkSteps ==
  ASSUME TypeInv, Unwritten, [Next]_vars
  PROVE  \/ Quiet
         \/ Phase \in WriteWhen /\ \E b \in BOOLEAN : Written(b)
         \/ tcp_after_write
<1>0. Shapes /\ self \in Objects /\ uv \in Handles
  BY DEF TypeInv, Shapes
<1>1. ASSUME NEW b \in BOOLEAN, tcp_new(b) PROVE Quiet
  <2>1. uv'.wq = <<>> /\ uv'.conn = "none"
    BY <1>1 DEF tcp_new, uv_tcp_init
  <2> QED
    BY <1>1, <2>1, NewTypes DEF tcp_new, Unwritten, Quiet
<1>2. CASE tcp_accept
  <2>1. uv' = uv_tcp_init \/ uv' = [uv_tcp_init EXCEPT !.fd = TRUE, !.conn = "connected"]
    BY <1>2 DEF tcp_accept
  <2>2. uv'.wq = <<>>
    BY <2>1, NewTypes DEF Handles
  <2>3. self' = create_obj_init_ref \/ self' = lev_handle_ref(create_obj_init_ref)
    BY <1>2 DEF tcp_accept
  <2>4. self'.wreq = NoReq
    BY <2>3, NewTypes, RefTypes
  <2> QED
    BY <1>2, <2>2, <2>4 DEF tcp_accept, Unwritten, Quiet
<1>3. CASE tcp_bind \/ tcp_read_start \/ tcp_read_stop \/ tcp_after_shutdown
  BY <1>0, <1>3
     DEF tcp_bind, tcp_read_start, tcp_read_stop, tcp_after_shutdown, Running, Quiet, Handles
<1>4. CASE uv_close_cb
  BY <1>0, <1>4, RefTypes DEF uv_close_cb, tcp_after_close, Running, Quiet, Handles
<1>5. CASE tcp_connect \/ tcp_listen \/ on_connect
  <2>1. self'.wreq = self.wreq
    BY <1>0, <1>5, RefTypes DEF tcp_connect, tcp_listen, on_connect
  <2>2. uv'.wq = uv.wq /\ uv.conn \in {"none", "connecting"}
    BY <1>0, <1>5 DEF tcp_connect, tcp_listen, on_connect, Handles
  <2> QED
    BY <1>5, <2>1, <2>2 DEF tcp_connect, tcp_listen, on_connect, Running, Quiet
<1>6. ASSUME UV_CLOSE_CLIENT, UNCHANGED <<life, strings, sent, nwrites>>, life = "live"
      PROVE  Quiet
  <2>1. self'.wreq = self.wreq
    BY <1>0, <1>6, RefTypes DEF UV_CLOSE_CLIENT, tcp_after_close
  <2>2. uv'.wq = uv.wq /\ uv'.conn = uv.conn
    BY <1>0, <1>6 DEF UV_CLOSE_CLIENT, Handles
  <2> QED
    BY <1>6, <2>1, <2>2 DEF Quiet
<1>7. CASE tcp_close
  BY <1>6, <1>7 DEF tcp_close, Running
<1>8. CASE on_read
  <2>1. CASE UV_CLOSE_CLIENT
    BY <1>6, <1>8, <2>1 DEF on_read, Running
  <2>2. CASE UNCHANGED <<self, uv, closes>>
    BY <1>8, <2>2 DEF on_read, Running, Quiet
  <2> QED
    BY <1>8, <2>1, <2>2 DEF on_read
<1>9. ASSUME NEW b \in BOOLEAN, NEW u \in BOOLEAN, tcp_write(b, u)
      PROVE  Phase \in WriteWhen /\ Written(b)
  BY <1>0, <1>9, WriteCases DEF tcp_write
<1>10. CASE tcp_bottle
  BY <1>0, <1>10 DEF tcp_bottle, Running, Quiet, Objects
<1>11. CASE on_connection \/ drop \/ collect \/ UNCHANGED vars
  BY <1>11 DEF on_connection, drop, collect, vars, Running, Quiet
<1> QED
  BY <1>1, <1>2, <1>3, <1>4, <1>5, <1>7, <1>8, <1>9, <1>10, <1>11 DEF Next

(* A handle is written to only once it exists. *)
LEMMA StepUnwritten == TypeInv /\ Unwritten /\ [Next]_vars => Unwritten'
<1> SUFFICES ASSUME TypeInv, Unwritten, [Next]_vars PROVE Unwritten'
  OBVIOUS
<1>1. CASE Quiet
  BY <1>1 DEF Quiet, Unwritten
<1>2. ASSUME NEW b \in BOOLEAN, Written(b) PROVE Unwritten'
  BY <1>2 DEF Written, Unwritten
<1>3. CASE tcp_after_write
  BY <1>3 DEF tcp_after_write, Running, Unwritten
<1> QED
  BY <1>1, <1>2, <1>3, ChunkSteps

(* The oldest request is gone, all else stays in its place. *)
LEMMA AfterWrite ==
  ASSUME TypeInv, tcp_after_write
  PROVE  /\ uv.wq \in Seq(Request) /\ uv'.wq \in Seq(Request)
         /\ Len(uv.wq) \in Nat /\ Len(uv.wq) >= 1 /\ Len(uv'.wq) = Len(uv.wq) - 1
         /\ \A i \in 1 .. Len(uv'.wq) : i + 1 \in 1 .. Len(uv.wq) /\ uv'.wq[i] = uv.wq[i + 1]
         /\ Head(uv.wq) = uv.wq[1] /\ uv.wq[1] \in Request
         /\ uv'.conn = uv.conn /\ uv.conn # "connecting"
         /\ UNCHANGED <<life, held, self, nwrites, closes>> /\ life = "live"
<1>1. uv' = [uv EXCEPT !.wq = Tail(@)] /\ uv.wq # <<>> /\ uv \in Handles
  BY DEF tcp_after_write, TypeInv, Shapes
<1>2. uv.wq \in Seq(Request)
  BY <1>1 DEF Handles
<1>3. Tail(uv.wq) \in Seq(Request)
  BY <1>1, <1>2
<1>4. uv'.wq = Tail(uv.wq) /\ uv'.conn = uv.conn
  BY <1>1, <1>3, QueueTypes
<1> QED
  BY <1>1, <1>2, <1>3, <1>4 DEF tcp_after_write, Running

(* Every copy is freed with its request, if the program writes to handles  *)
(* with a descriptor only.                                                 *)
LEMMA StepStringsInv ==
  ASSUME WriteWhen \subseteq {"pending", "open", "failed"}, StringsInv, [Next]_vars
  PROVE  StringsInv'
<1>0. /\ TypeInv /\ Shapes /\ Unwritten /\ Numbered /\ StringsAreOwned
      /\ self.wreq \in Request /\ uv \in Handles /\ uv.wq \in Seq(Request) /\ nwrites \in Nat
  BY DEF StringsInv, TypeInv, Shapes, Objects, Handles
<1>1. TypeInv' /\ Unwritten'
  BY <1>0, StepTypeInv, StepUnwritten
<1> SUFFICES Numbered' /\ StringsAreOwned'
  BY <1>1 DEF StringsInv
<1>2. \A x : x \in strings <=>
             x \in Copied(self.wreq) \/ \E i \in 1 .. Len(uv.wq) : x \in Copied(uv.wq[i])
  BY <1>0 DEF StringsAreOwned
<1>3. ASSUME \A x : x \in strings' <=>
               x \in Copied(self'.wreq) \/ \E i \in 1 .. Len(uv'.wq) : x \in Copied(uv'.wq[i])
      PROVE  StringsAreOwned'
  BY <1>3 DEF StringsAreOwned, Copied
<1>4. CASE Quiet
  <2>1. UNCHANGED <<strings, nwrites>> /\ self'.wreq = self.wreq /\ uv'.wq = uv.wq
    BY <1>4 DEF Quiet
  <2>2. Numbered'
    BY <1>0, <2>1 DEF Numbered
  <2>3. StringsAreOwned'
    BY <1>0, <2>1 DEF StringsAreOwned, Copied
  <2> QED
    BY <2>2, <2>3
<1>5. ASSUME Phase \in WriteWhen, NEW b \in BOOLEAN, Written(b)
      PROVE  Numbered' /\ StringsAreOwned'
  <2> DEFINE req == Added(self.wreq, b)
  <2>1. uv.fd
    BY <1>0, <1>5, PhaseCases
  <2>2. Numbered'
    BY <1>0, <1>5, WriteNumbered
  <2>3. req \in Request /\ \A x : x \in Copied(req) <=> x \in Copied(self.wreq) \/ (b /\ x = nwrites + 1)
    BY <1>0, AddedType, AddedCopies
  <2>4. \A x : x \in strings' <=> x \in strings \/ (b /\ x = nwrites + 1)
    BY <1>5 DEF Written
  <2> HIDE DEF req
  <2>5. CASE self'.wreq = req /\ UNCHANGED uv
    BY <1>2, <1>3, <2>2, <2>3, <2>4, <2>5
  <2>6. CASE self'.wreq = NoReq /\ uv' = [uv EXCEPT !.wq = Append(@, req)]
    <3>1. uv'.wq = Append(uv.wq, req)
      BY <1>0, <2>6 DEF Handles
    <3>2. /\ Len(uv'.wq) = Len(uv.wq) + 1 /\ uv'.wq[Len(uv.wq) + 1] = req /\ Len(uv.wq) \in Nat
          /\ \A k \in 1 .. Len(uv.wq) : uv'.wq[k] = uv.wq[k]
      BY <1>0, <2>3, <3>1
    <3>3. \A x : x \notin Copied(self'.wreq)
      BY <2>6, NewTypes DEF Copied
    <3>4. \A x : (\E i \in 1 .. Len(uv'.wq) : x \in Copied(uv'.wq[i])) <=>
                  (x \in Copied(req) \/ \E i \in 1 .. Len(uv.wq) : x \in Copied(uv.wq[i]))
      <4> HIDE DEF Copied
      <4> QED
        BY <3>2
    <3> QED
      BY <1>2, <1>3, <2>2, <2>3, <2>4, <3>3, <3>4
  <2> QED
    BY <1>5, <2>1, <2>5, <2>6 DEF Written, req
<1>6. CASE tcp_after_write
  <2>1. Numbered'
    <3>1. /\ UNCHANGED <<self, nwrites>> /\ Len(uv.wq) \in Nat /\ Len(uv'.wq) = Len(uv.wq) - 1
          /\ \A k \in 1 .. Len(uv'.wq) : k + 1 \in 1 .. Len(uv.wq) /\ uv'.wq[k] = uv.wq[k + 1]
      BY <1>0, <1>6, AfterWrite
    <3>2. ASSUME NEW k \in 1 .. Len(uv'.wq), NEW l \in 1 .. Len(uv'.wq), k < l,
                 NEW i \in 1 .. Len(uv'.wq[k].bufs), NEW j \in 1 .. Len(uv'.wq[l].bufs)
          PROVE  uv'.wq[k].bufs[i] < uv'.wq[l].bufs[j]
      <4>1. k + 1 \in 1 .. Len(uv.wq) /\ l + 1 \in 1 .. Len(uv.wq) /\ k + 1 < l + 1
        BY <3>1, <3>2
      <4> QED
        BY <1>0, <3>1, <3>2, <4>1 DEF Numbered
    <3>3. ASSUME NEW k \in 1 .. Len(uv'.wq), NEW i \in 1 .. Len(uv'.wq[k].bufs)
          PROVE  /\ uv'.wq[k].bufs[i] <= nwrites
                 /\ \A j \in 1 .. Len(self.wreq.bufs) : uv'.wq[k].bufs[i] < self.wreq.bufs[j]
      BY <1>0, <3>1, <3>3 DEF Numbered
    <3> QED
      BY <1>0, <3>1, <3>2, <3>3 DEF Numbered
  <2>2. \A x : x \in strings' <=> x \in strings /\ x \notin Copied(uv.wq[1])
    <3>1. Head(uv.wq) = uv.wq[1]
      BY <1>0, <1>6, AfterWrite
    <3>2. strings' = strings \ Copied(Head(uv.wq))
      BY <1>6 DEF tcp_after_write, Copied
    <3> QED
      BY <3>1, <3>2
  <2>3. ASSUME NEW x \in Copied(uv.wq[1]) PROVE x \notin Copied(self.wreq)
    <3>1. uv.wq[1] \in Request /\ 1 \in 1 .. Len(uv.wq)
      BY <1>0, <1>6, AfterWrite
    <3>2. PICK i \in 1 .. Len(uv.wq[1].bufs) : x = uv.wq[1].bufs[i]
      BY <3>1, CopiedAreChunks
    <3>3. \A j \in 1 .. Len(self.wreq.bufs) : x < self.wreq.bufs[j]
      BY <1>0, <3>1, <3>2 DEF Numbered
    <3>4. \A j \in 1 .. Len(self.wreq.bufs) : self.wreq.bufs[j] \in Nat /\ x # self.wreq.bufs[j]
      <4>1. x \in Nat
        BY <3>1, <3>2, ChunksAreNumbers
      <4>2. \A j \in 1 .. Len(self.wreq.bufs) : self.wreq.bufs[j] \in Nat
        BY <1>0, ChunksAreNumbers
      <4> QED
        BY <3>3, <4>1, <4>2
    <3> QED
      BY <1>0, <3>4, CopiedAreChunks
  <2>4. ASSUME NEW x \in Copied(uv.wq[1]), NEW k \in 2 .. Len(uv.wq) PROVE x \notin Copied(uv.wq[k])
    <3>1. uv.wq[1] \in Request /\ 1 \in 1 .. Len(uv.wq) /\ k \in 1 .. Len(uv.wq) /\ 1 < k
          /\ uv.wq[k] \in Request
      BY <1>0, <1>6, AfterWrite
    <3>2. PICK i \in 1 .. Len(uv.wq[1].bufs) : x = uv.wq[1].bufs[i]
      BY <3>1, CopiedAreChunks
    <3>3. \A j \in 1 .. Len(uv.wq[k].bufs) : x < uv.wq[k].bufs[j]
      BY <1>0, <3>1, <3>2 DEF Numbered
    <3>4. \A j \in 1 .. Len(uv.wq[k].bufs) : uv.wq[k].bufs[j] \in Nat /\ x # uv.wq[k].bufs[j]
      <4>1. x \in Nat
        BY <3>1, <3>2, ChunksAreNumbers
      <4>2. \A j \in 1 .. Len(uv.wq[k].bufs) : uv.wq[k].bufs[j] \in Nat
        BY <3>1, ChunksAreNumbers
      <4> QED
        BY <3>3, <4>1, <4>2
    <3> QED
      BY <3>1, <3>4, CopiedAreChunks
  <2>5. \A x : (\E i \in 1 .. Len(uv'.wq) : x \in Copied(uv'.wq[i])) <=>
               (\E i \in 2 .. Len(uv.wq) : x \in Copied(uv.wq[i]))
    <3>1. ASSUME NEW i \in 2 .. Len(uv.wq)
          PROVE  i - 1 \in 1 .. Len(uv'.wq) /\ uv'.wq[i - 1] = uv.wq[i]
      <4>1. /\ Len(uv.wq) \in Nat /\ Len(uv'.wq) = Len(uv.wq) - 1
            /\ \A j \in 1 .. Len(uv'.wq) : uv'.wq[j] = uv.wq[j + 1]
        BY <1>0, <1>6, AfterWrite
      <4>2. i - 1 \in 1 .. Len(uv'.wq) /\ (i - 1) + 1 = i
        BY <4>1
      <4> QED
        BY <4>1, <4>2
    <3>2. ASSUME NEW i \in 1 .. Len(uv'.wq)
          PROVE  i + 1 \in 2 .. Len(uv.wq) /\ uv'.wq[i] = uv.wq[i + 1]
      BY <1>0, <1>6, AfterWrite
    <3> QED
      BY <3>1, <3>2
  <2>6. \A x : (\E i \in 1 .. Len(uv.wq) : x \in Copied(uv.wq[i])) <=>
               (x \in Copied(uv.wq[1]) \/ \E i \in 2 .. Len(uv.wq) : x \in Copied(uv.wq[i]))
    <3>1. \A i : i \in 1 .. Len(uv.wq) <=> i = 1 \/ i \in 2 .. Len(uv.wq)
      BY <1>0, <1>6, AfterWrite
    <3> QED
      BY <3>1
  <2>7. self'.wreq = self.wreq
    BY <1>0, <1>6, AfterWrite
  <2> QED
    BY <1>2, <1>3, <2>1, <2>2, <2>3, <2>4, <2>5, <2>6, <2>7
<1> QED
  BY <1>0, <1>4, <1>5, <1>6, ChunkSteps

(* Every string that tcp_write copies is freed by the callback of its      *)
(* request, once, and nothing else is: in every program that writes to     *)
(* handles with a descriptor only, for any number of chunks and requests.  *)
THEOREM TcpStringsAreOwned ==
  ASSUME WriteWhen \subseteq {"pending", "open", "failed"}
  PROVE  Spec => []StringsAreOwned
<1>1. Init => StringsInv
  <2> SUFFICES ASSUME Init PROVE StringsInv
    OBVIOUS
  <2>1. /\ TypeInv /\ self.wreq = NoReq /\ uv.wq = <<>> /\ uv.conn = "none"
        /\ strings = {} /\ sent = <<>> /\ nwrites = 0
    BY InitTypeInv, NewTypes DEF Init, uv_tcp_init
  <2>2. Copied(self.wreq) = {}
    BY <2>1, NewTypes DEF Copied
  <2> QED
    BY <2>1, <2>2, NewTypes DEF StringsInv, Unwritten, Numbered, StringsAreOwned
<1>2. StringsInv /\ [Next]_vars => StringsInv'
  BY StepStringsInv
<1>3. StringsInv => StringsAreOwned
  BY DEF StringsInv
<1> QED
  BY <1>1, <1>2, <1>3, PTL DEF Spec

-----------------------------------------------------------------------------
(* The chain of chunks is kept by every step of a program that writes to   *)
(* open and failed handles only.                                           *)
LEMMA StepWireInv ==
  ASSUME WriteWhen \subseteq {"open", "failed"}, WireInv, [Next]_vars
  PROVE  WireInv'
<1>0. /\ TypeInv /\ Shapes /\ Unwritten
      /\ self.wreq \in Request /\ uv \in Handles /\ uv.wq \in Seq(Request) /\ nwrites \in Nat
      /\ sent \in Seq(Nat) /\ Len(uv.wq) \in Nat /\ Len(self.wreq.bufs) \in Nat
  BY DEF WireInv, TypeInv, Shapes, Objects, Handles, Request
<1>1. TypeInv' /\ Unwritten'
  BY <1>0, StepTypeInv, StepUnwritten
<1> DEFINE Fresh == sent = <<>> /\ uv.wq = <<>> /\ self.wreq.bufs = <<>> /\ nwrites = 0
<1>2. /\ uv.conn \in {"none", "connecting"} => Fresh
      /\ uv.conn = "connected" => Chained
  BY DEF WireInv
<1>3. SUFFICES /\ uv'.conn \in {"none", "connecting"} => Fresh'
               /\ uv'.conn = "connected" => Chained'
  BY <1>1 DEF WireInv
<1>4. CASE Quiet
  <2>1. CASE uv.conn \in {"none", "connecting"}
    <3>1. Fresh'
      BY <1>2, <1>4, <2>1 DEF Quiet
    <3>2. Chained'
      BY <3>1 DEF Chained, Before
    <3> QED
      BY <3>1, <3>2
  <2>2. CASE uv'.conn = uv.conn
    BY <1>2, <1>4, <2>2 DEF Quiet, Chained, Before
  <2> QED
    BY <1>4, <2>1, <2>2 DEF Quiet
<1>5. ASSUME Phase \in WriteWhen, NEW b \in BOOLEAN, Written(b)
      PROVE  /\ uv'.conn \in {"none", "connecting"} => Fresh'
             /\ uv'.conn = "connected" => Chained'
  <2> DEFINE req == Added(self.wreq, b)
             last == Before(Len(sent), uv.wq, Len(uv.wq) + 1)
  <2>1. uv.fd /\ uv.conn \notin {"none", "connecting"} /\ uv'.conn = uv.conn
    BY <1>0, <1>5, PhaseCases DEF Written, Handles
  <2>2. /\ req \in Request /\ Len(req.bufs) = Len(self.wreq.bufs) + 1
        /\ req.bufs[Len(req.bufs)] = nwrites + 1
        /\ \A i \in 1 .. Len(self.wreq.bufs) : req.bufs[i] = self.wreq.bufs[i]
    <3>1. req \in Request /\ req.bufs = Append(self.wreq.bufs, nwrites + 1)
      BY <1>0, AddedType
    <3>2. self.wreq.bufs \in Seq(Nat) /\ nwrites + 1 \in Nat
      BY <1>0 DEF Request
    <3> QED
      BY <3>1, <3>2
  <2>3. UNCHANGED sent /\ nwrites' = nwrites + 1
    BY <1>5 DEF Written
  <2> SUFFICES ASSUME uv.conn = "connected" PROVE Chained'
    BY <2>1
  <2>4. Chained
    BY <1>2
  <2>5. last \in Nat
    <3>1. nwrites = last + Len(self.wreq.bufs)
      BY <2>4 DEF Chained
    <3>2. CASE Len(uv.wq) = 0
      BY <1>0, <3>2 DEF Before
    <3>3. CASE Len(uv.wq) > 0
      <4>1. uv.wq[Len(uv.wq)] \in Request /\ Len(uv.wq[Len(uv.wq)].bufs) >= 1
        BY <1>0, <3>3 DEF TypeInv, Bounds
      <4>2. uv.wq[Len(uv.wq)].bufs[Len(uv.wq[Len(uv.wq)].bufs)] \in Nat
        BY <4>1 DEF Request
      <4> QED
        BY <1>0, <3>3, <4>2 DEF Before
    <3> QED
      BY <1>0, <3>2, <3>3
  <2>6. \A i \in 1 .. Len(req.bufs) : req.bufs[i] = last + i
    <3> SUFFICES ASSUME NEW i \in 1 .. Len(req.bufs) PROVE req.bufs[i] = last + i
      OBVIOUS
    <3>1. CASE i \in 1 .. Len(self.wreq.bufs)
      BY <2>2, <2>4, <3>1 DEF Chained
    <3>2. CASE i = Len(req.bufs)
      BY <1>0, <2>2, <2>4, <2>5, <3>2 DEF Chained
    <3> QED
      <4> HIDE DEF req, last
      <4>1. i \in 1 .. Len(self.wreq.bufs) \/ i = Len(req.bufs)
        BY <1>0, <2>2
      <4> QED
        BY <3>1, <3>2, <4>1
  <2> HIDE DEF req, last
  <2>7. nwrites + 1 = last + Len(req.bufs)
    BY <1>0, <2>2, <2>4, <2>5 DEF Chained, last
  <2>8. CASE self'.wreq = req /\ UNCHANGED uv
    BY <2>3, <2>4, <2>6, <2>7, <2>8 DEF Chained, Before, last
  <2>9. CASE self'.wreq = NoReq /\ uv' = [uv EXCEPT !.wq = Append(@, req)]
    <3>1. uv'.wq = Append(uv.wq, req)
      BY <1>0, <2>9 DEF Handles
    <3>2. /\ Len(uv'.wq) = Len(uv.wq) + 1 /\ uv'.wq[Len(uv.wq) + 1] = req
          /\ \A k \in 1 .. Len(uv.wq) : uv'.wq[k] = uv.wq[k]
      BY <1>0, <2>2, <3>1
    <3>3. \A k \in 1 .. Len(uv.wq) + 1 : Before(Len(sent'), uv'.wq, k) = Before(Len(sent), uv.wq, k)
      <4> SUFFICES ASSUME NEW k \in 1 .. Len(uv.wq) + 1
                   PROVE  Before(Len(sent'), uv'.wq, k) = Before(Len(sent), uv.wq, k)
        OBVIOUS
      <4>1. k = 1 \/ k - 1 \in 1 .. Len(uv.wq)
        BY <1>0
      <4> QED
        BY <1>0, <2>3, <3>2, <4>1 DEF Before
    <3>4. Before(Len(sent'), uv'.wq, Len(uv'.wq) + 1) = req.bufs[Len(req.bufs)]
      BY <1>0, <3>2 DEF Before
    <3>5. Before(Len(sent'), uv'.wq, Len(uv'.wq) + 1) = nwrites + 1 /\ Len(self'.wreq.bufs) = 0
      BY <2>2, <2>9, <3>4, NewTypes
    <3>6. \A k \in 1 .. Len(uv'.wq) : \A i \in 1 .. Len(uv'.wq[k].bufs) :
            uv'.wq[k].bufs[i] = Before(Len(sent'), uv'.wq, k) + i
      <4> SUFFICES ASSUME NEW k \in 1 .. Len(uv'.wq), NEW i \in 1 .. Len(uv'.wq[k].bufs)
                   PROVE  uv'.wq[k].bufs[i] = Before(Len(sent'), uv'.wq, k) + i
        OBVIOUS
      <4>1. CASE k \in 1 .. Len(uv.wq)
        <5>1. uv'.wq[k] = uv.wq[k] /\ Before(Len(sent'), uv'.wq, k) = Before(Len(sent), uv.wq, k)
          BY <1>0, <3>2, <3>3, <4>1
        <5>2. uv.wq[k].bufs[i] = Before(Len(sent), uv.wq, k) + i
          BY <2>4, <4>1, <5>1 DEF Chained
        <5> QED
          BY <5>1, <5>2
      <4>2. CASE k = Len(uv.wq) + 1
        BY <1>0, <2>6, <3>2, <3>3, <4>2 DEF last
      <4> QED
        BY <1>0, <3>2, <4>1, <4>2
    <3> QED
      BY <1>0, <2>3, <2>4, <3>5, <3>6 DEF Chained
  <2> QED
    BY <1>5, <2>1, <2>8, <2>9 DEF Written, req
<1>6. CASE tcp_after_write
  <2>1. /\ Len(uv.wq) >= 1 /\ Len(uv'.wq) = Len(uv.wq) - 1
        /\ \A k \in 1 .. Len(uv'.wq) : k + 1 \in 1 .. Len(uv.wq) /\ uv'.wq[k] = uv.wq[k + 1]
        /\ uv.wq[1] \in Request /\ Head(uv.wq) = uv.wq[1]
        /\ uv'.conn = uv.conn /\ uv.conn # "connecting" /\ UNCHANGED <<self, nwrites>>
    BY <1>0, <1>6, AfterWrite
  <2>2. uv.conn # "none"
    BY <1>0, <1>2, <2>1
  <2> SUFFICES ASSUME uv.conn = "connected" PROVE Chained'
    BY <2>1, <2>2
  <2>3. Chained /\ sent' = sent \o uv.wq[1].bufs
    BY <1>2, <1>6, <2>1 DEF tcp_after_write
  <2> DEFINE n == Len(uv.wq[1].bufs)
  <2>4. /\ n \in Nat /\ n >= 1 /\ uv.wq[1].bufs \in Seq(Nat)
        /\ \A i \in 1 .. n : uv.wq[1].bufs[i] = Len(sent) + i
    <3>1. 1 \in 1 .. Len(uv.wq)
      BY <1>0, <2>1
    <3>2. n \in Nat /\ uv.wq[1].bufs \in Seq(Nat)
      BY <2>1 DEF Request
    <3>3. n >= 1
      BY <1>0, <3>1 DEF TypeInv, Bounds
    <3> QED
      BY <2>3, <3>1, <3>2, <3>3 DEF Chained, Before
  <2>5. Len(sent') = Len(sent) + n /\ \A i \in 1 .. Len(sent') : sent'[i] = i
    <3>1. Len(sent) \in Nat /\ Len(sent') = Len(sent) + n
      BY <1>0, <2>3, <2>4
    <3>2. ASSUME NEW i \in 1 .. Len(sent') PROVE sent'[i] = i
      <4>1. CASE i \in 1 .. Len(sent)
        BY <1>0, <2>3, <2>4, <4>1 DEF Chained
      <4>2. CASE i - Len(sent) \in 1 .. n
        <5>1. sent'[i] = uv.wq[1].bufs[i - Len(sent)]
          BY <1>0, <2>3, <2>4, <3>1, <4>2
        <5> QED
          BY <2>4, <3>1, <4>2, <5>1
      <4> QED
        BY <2>4, <3>1, <4>1, <4>2
    <3> QED
      BY <3>1, <3>2
  <2>6. \A k \in 1 .. Len(uv'.wq) + 1 : Before(Len(sent'), uv'.wq, k) = Before(Len(sent), uv.wq, k + 1)
    <3> SUFFICES ASSUME NEW k \in 1 .. Len(uv'.wq) + 1 PROVE Before(Len(sent'), uv'.wq, k) = Before(Len(sent), uv.wq, k + 1)
      OBVIOUS
    <3>1. CASE k = 1
      <4>1. Before(Len(sent'), uv'.wq, 1) = Len(sent) + n
        BY <2>5 DEF Before
      <4>2. Before(Len(sent), uv.wq, 2) = uv.wq[1].bufs[n]
        BY DEF Before
      <4>3. uv.wq[1].bufs[n] = Len(sent) + n
        <5> HIDE DEF n
        <5>1. n \in 1 .. n
          BY <2>4
        <5> QED
          BY <2>4, <5>1
      <4> QED
        BY <3>1, <4>1, <4>2, <4>3
    <3>2. CASE k > 1
      <4>1. k - 1 \in 1 .. Len(uv'.wq)
        BY <1>0, <2>1, <3>2
      <4>2. uv'.wq[k - 1] = uv.wq[k]
        BY <1>0, <2>1, <4>1
      <4> QED
        BY <1>0, <2>1, <3>2, <4>2 DEF Before
    <3> QED
      BY <1>0, <2>1, <3>1, <3>2
  <2>7. ASSUME NEW k \in 1 .. Len(uv'.wq), NEW i \in 1 .. Len(uv'.wq[k].bufs)
        PROVE  uv'.wq[k].bufs[i] = Before(Len(sent'), uv'.wq, k) + i
    <3>1. k + 1 \in 1 .. Len(uv.wq) /\ uv'.wq[k] = uv.wq[k + 1] /\ Before(Len(sent'), uv'.wq, k) = Before(Len(sent), uv.wq, k + 1)
      BY <1>0, <2>1, <2>6
    <3> QED
      BY <2>3, <2>7, <3>1 DEF Chained
  <2>8. Before(Len(sent'), uv'.wq, Len(uv'.wq) + 1) = Before(Len(sent), uv.wq, Len(uv.wq) + 1)
    BY <1>0, <2>1, <2>6
  <2> QED
    BY <2>1, <2>3, <2>5, <2>7, <2>8 DEF Chained
<1> QED
  BY <1>0, <1>4, <1>5, <1>6, ChunkSteps

(* What WireInv says in the terms of the specification. *)
LEMMA WireInvImplies == WireInv => WireInOrder
<1> SUFFICES ASSUME WireInv, uv.conn = "connected" PROVE WireInOrder
  BY DEF WireInOrder
<1> DEFINE reqs == uv.wq \o <<self.wreq>>
           LastBefore(k) == IF k = 1 THEN Len(sent) ELSE reqs[k - 1].bufs[Len(reqs[k - 1].bufs)]
<1>0. Chained /\ self.wreq \in Request /\ uv.wq \in Seq(Request) /\ Len(uv.wq) \in Nat
  BY DEF WireInv, TypeInv, Shapes, Objects, Handles
<1>1. /\ Len(reqs) = Len(uv.wq) + 1 /\ reqs[Len(uv.wq) + 1] = self.wreq
      /\ \A k \in 1 .. Len(uv.wq) : reqs[k] = uv.wq[k]
  BY <1>0
<1>2. \A k \in 1 .. Len(uv.wq) + 1 : LastBefore(k) = Before(Len(sent), uv.wq, k)
  <2> SUFFICES ASSUME NEW k \in 1 .. Len(uv.wq) + 1
               PROVE  LastBefore(k) = Before(Len(sent), uv.wq, k)
    OBVIOUS
  <2>1. k = 1 \/ k - 1 \in 1 .. Len(uv.wq)
    BY <1>0
  <2> HIDE DEF reqs
  <2> QED
    BY <1>1, <2>1 DEF Before
<1>3. \A i \in 1 .. Len(sent) : sent[i] = i
  BY <1>0 DEF Chained
<1>4. ASSUME NEW k \in 1 .. Len(reqs), NEW i \in 1 .. Len(reqs[k].bufs)
      PROVE  reqs[k].bufs[i] = LastBefore(k) + i
  <2> HIDE DEF LastBefore, reqs
  <2>1. CASE k \in 1 .. Len(uv.wq)
    BY <1>0, <1>1, <1>2, <1>4, <2>1 DEF Chained
  <2>2. CASE k = Len(uv.wq) + 1
    BY <1>0, <1>1, <1>2, <1>4, <2>2 DEF Chained
  <2> QED
    BY <1>0, <1>1, <2>1, <2>2
<1>5. nwrites = LastBefore(Len(reqs)) + Len(self.wreq.bufs)
  <2> HIDE DEF LastBefore, reqs
  <2> QED
    BY <1>0, <1>1, <1>2 DEF Chained
<1> QED
  BY <1>3, <1>4, <1>5 DEF WireInOrder

(* What a connection has sent, queued and bottled are the chunks of the    *)
(* calls of write, in their order, without a gap, for any number of them   *)
(* and any size of a request: in every program that writes to open or      *)
(* failed handles only.                                                    *)
THEOREM TcpWireInOrder ==
  ASSUME WriteWhen \subseteq {"open", "failed"}
  PROVE  Spec => []WireInOrder
<1>1. Init => WireInv
  <2> SUFFICES ASSUME Init PROVE WireInv
    OBVIOUS
  <2>1. /\ TypeInv /\ self.wreq = NoReq /\ uv.wq = <<>> /\ uv.conn = "none"
        /\ strings = {} /\ sent = <<>> /\ nwrites = 0
    BY InitTypeInv, NewTypes DEF Init, uv_tcp_init
  <2> QED
    BY <2>1, NewTypes DEF WireInv, Unwritten
<1>2. WireInv /\ [Next]_vars => WireInv'
  BY StepWireInv
<1> QED
  BY <1>1, <1>2, WireInvImplies, PTL DEF Spec
=============================================================================
