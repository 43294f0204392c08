---------------------------- MODULE LevIpcProofs ----------------------------
(***************************************************************************)
(* What holds of the master and its workers for any number of workers,     *)
(* addresses, keys and messages.                                           *)
(*                                                                         *)
(* A worker and the master talk over two streams: outbox, what the worker  *)
(* has sent and the master has not served yet, wherever it is (the queue   *)
(* of the worker, the pipe, the buffer of the master's loop), and inbox,   *)
(* the other way.  Every step does to them one of a few things (Sends,     *)
(* Connects, Takes, Dies, Serves, or nothing: Quiet), so that an argument  *)
(* about a stream has these cases and not one per action.  The invariants  *)
(* build on each other: Base (types, links and counts), Greeted (the hello *)
(* leads the stream), AwaitInv (requests, answers and callbacks match),    *)
(* and on it SocketInv (answers carry the socket of their address) and     *)
(* HearInv (broadcasts keep their order).                                  *)
(***************************************************************************)
EXTENDS LevIpc, TLAPS, FiniteSetTheorems, SequenceTheorems

WorkerStates ==
  [alive : BOOLEAN, state : {"idle", "connecting", "failed", "connected"},
   queue : Seq(Packets), req_id : 1 .. MaxReq + 1,
   callbacks : [1 .. MaxReq -> Addrs \cup {NULL}], subs : SUBSET Keys,
   accepted_fd : Int, heard : Seq(Packets), servers : SUBSET (Addrs \X Int)]

(* The two streams of a worker: what the master has still to serve, and    *)
(* what it has still to take.                                              *)
outbox == [w \in Workers |-> Unserved(w)]
inbox == [w \in Workers |-> Incoming(w)]

(* A packet that w sends. *)
Asked(w, p) ==
  /\ p.from = w /\ p.fd = 0
  /\ \/ p.cmd = "hello" /\ p.id = 0
     \/ p.cmd = "bind" /\ p.id \in 1 .. MaxReq /\ p.arg \in Addrs
     \/ p.cmd = "broadcast" /\ p.id \in 1 .. MaxReq /\ p.arg \in Keys

(* A packet that the master sends to w. *)
Told(w, p) ==
  /\ p.id \in 1 .. MaxReq
  /\ \/ p.cmd = "broadcast" /\ p.from # w /\ p.fd = 0
     \/ p.cmd = "reply" /\ p.fd > 0

TypeInv ==
  /\ TypeOK
  /\ mbuf.rest # <<>> => mbuf.c \in open
  /\ \A w \in Workers :
       /\ \A i \in 1 .. Len(outbox[w]) : Asked(w, outbox[w][i])
       /\ \A i \in 1 .. Len(inbox[w]) : Told(w, inbox[w][i])

(* uv_workers_count counts the workers that are not reaped, and the exit   *)
(* code tells of the failures among the reaped ones.                       *)
Counted ==
  /\ sup.count = Cardinality(Workers \ sup.reaped)
  /\ \A w \in Workers : sup.how[w] = "running" <=> wk[w].alive
  /\ \A w \in sup.reaped : ~wk[w].alive
  /\ sup.code # 0 <=> \E w \in sup.reaped : sup.how[w] \in Failures
  /\ sup.exited => sup.reaped = Workers

(* A worker that is not connected is unknown to the master; one that is    *)
(* has nothing queued.                                                     *)
Linked ==
  \A w \in Workers :
    IF wk[w].state = "connected"
      THEN wk[w].queue = <<>>
      ELSE /\ up[w] = <<>> /\ pool[w] = "absent" /\ w \notin open
           /\ mbuf.c = w => mbuf.rest = <<>>

Base == TypeInv /\ Linked /\ Counted

-----------------------------------------------------------------------------
(* What a step may do, in the terms of the streams. *)

Others(w) == \A v \in Workers : v # w => wk'[v] = wk[v]

(* w sends p, and its callbacks become cbs. *)
Sends(w, p, cbs) ==
  /\ wk[w].alive /\ p.id = wk[w].req_id /\ wk[w].req_id <= MaxReq /\ p \in Packets /\ Asked(w, p)
  /\ p.cmd \in {"bind", "broadcast"}
  /\ wk' \in [Workers -> WorkerStates] /\ Others(w)
  /\ wk'[w].req_id = wk[w].req_id + 1 /\ wk'[w].callbacks = cbs
  /\ wk'[w].alive = wk[w].alive /\ wk'[w].accepted_fd = wk[w].accepted_fd
  /\ wk'[w].heard = wk[w].heard /\ wk'[w].servers = wk[w].servers
  /\ wk'[w].state = "connected" <=> wk[w].state = "connected"
  /\ outbox' = [outbox EXCEPT ![w] = Append(@, p)]
  /\ UNCHANGED <<inbox, wbuf, down, master>>

(* w's connect callback puts the hello before everything else. *)
Connects(w) ==
  /\ wk[w].alive /\ wk[w].state = "connecting"
  /\ wk' = [wk EXCEPT ![w].queue = <<>>, ![w].state = "connected"]
  /\ outbox' = [outbox EXCEPT ![w] = <<Packet("hello", w, 0, NULL, 0)>> \o @]
  /\ UNCHANGED <<inbox, wbuf, down, master>>

(* w takes the next packet from its stream. *)
Takes(w, p) ==
  /\ wk[w].alive /\ wbuf[w] # <<>> /\ inbox[w] # <<>> /\ p = Head(inbox[w]) /\ p = Head(wbuf[w])
  /\ on_broadcast(w, p) \/ on_reply(w, p) \/ no_callback(w, p)
  /\ inbox' = [inbox EXCEPT ![w] = Tail(@)] /\ wbuf' = [wbuf EXCEPT ![w] = Tail(@)]
  /\ UNCHANGED <<outbox, up, down, master>>

Dies(w) ==
  /\ wk[w].alive /\ wk' = [wk EXCEPT ![w].alive = FALSE]
  /\ \E how \in Exits : sup' = [sup EXCEPT !.how[w] = how]
  /\ inbox' = [inbox EXCEPT ![w] = <<>>] /\ wbuf' = [wbuf EXCEPT ![w] = <<>>]
  /\ UNCHANGED <<outbox, up, pool, open, by_id, bind_pool, mbuf>>

(* The master answers the next packet of c. *)
Replies(c, p) ==
  LET fd == IF bind_pool[p.arg] = 0 THEN NextFd ELSE bind_pool[p.arg]
  IN /\ p.cmd = "bind" /\ p.arg \in TcpAddrs
     /\ bind_pool' = [bind_pool EXCEPT ![p.arg] = fd]
     /\ inbox' = IF wk[c].alive
                   THEN [inbox EXCEPT ![c] = Append(@, Packet("reply", c, p.id, NULL, fd))]
                   ELSE inbox
     /\ UNCHANGED pool

Relays(c, p) ==
  /\ p.cmd = "broadcast"
  /\ inbox' = [v \in Workers |-> IF pool[v] = "known" /\ v # c /\ wk[v].alive
                                   THEN Append(inbox[v], p) ELSE inbox[v]]
  /\ UNCHANGED <<pool, bind_pool>>

Serves(c, p) ==
  /\ mbuf.rest # <<>> /\ mbuf.c = c /\ outbox[c] # <<>> /\ p = Head(outbox[c])
  /\ \/ p.cmd = "hello" /\ pool' = [pool EXCEPT ![c] = "known"] /\ UNCHANGED <<inbox, bind_pool>>
     \/ Replies(c, p)
     \/ p.cmd = "bind" /\ p.arg \notin TcpAddrs /\ UNCHANGED <<inbox, pool, bind_pool>>
     \/ Relays(c, p)
  /\ outbox' = [outbox EXCEPT ![c] = Tail(@)]
  /\ mbuf' = [mbuf EXCEPT !.rest = Tail(@)]
  /\ UNCHANGED <<wk, wbuf, up, open, sup>>

(* A packet with a descriptor is the last of its read, and fd is its       *)
(* descriptor.                                                             *)
Carries(b, fd) == \A i \in 1 .. Len(b) : b[i].fd # 0 => i = Len(b) /\ b[i].fd = fd

(* What a step without traffic leaves of a worker. *)
Same(w) ==
  /\ wk'[w].alive = wk[w].alive /\ wk'[w].req_id = wk[w].req_id
  /\ wk'[w].callbacks = wk[w].callbacks /\ wk'[w].heard = wk[w].heard
  /\ wk'[w].servers = wk[w].servers
  /\ wk'[w].state = "connected" <=> wk[w].state = "connected"

Shown(w) ==
  \/ wbuf'[w] = wbuf[w] /\ wk'[w].accepted_fd = wk[w].accepted_fd
  \/ Carries(wbuf'[w], wk'[w].accepted_fd)

Pooled(w) ==
  \/ pool'[w] = pool[w] /\ (w \in open => w \in open' \/ (~wk[w].alive /\ outbox[w] = <<>>))
  \/ pool[w] = "absent" /\ pool'[w] = "anon" /\ w \in open'
  \/ pool[w] # "absent" /\ pool'[w] = "absent" /\ w \notin open

(* Nothing is sent, served or taken: packets are read, or clients are      *)
(* accepted, shut down and closed, or a worker subscribes, fails to        *)
(* connect or is reaped.                                                   *)
Quiet ==
  /\ \A w \in Workers : Same(w) /\ Shown(w) /\ Pooled(w)
  /\ UNCHANGED <<outbox, inbox, bind_pool>>
  /\ UNCHANGED sup \/ \E w \in Workers : worker__on_exit(w)

-----------------------------------------------------------------------------
(* Taking the first of two sequences' packets takes the first of both. *)
LEMMA CatTail ==
  ASSUME NEW S, NEW a \in Seq(S), NEW b \in Seq(S), a # <<>>
  PROVE  Tail(a) \o b = Tail(a \o b) /\ Head(a \o b) = Head(a) /\ a \o b # <<>>
<1>1. Tail(a) \in Seq(S) /\ Len(Tail(a)) = Len(a) - 1 /\ \A i \in 1 .. Len(a) - 1 : Tail(a)[i] = a[i + 1]
  BY HeadTailProperties
<1>2. a \o b \in Seq(S) /\ Len(a \o b) = Len(a) + Len(b) /\ Len(a) \in Nat \ {0} /\ Len(b) \in Nat
      /\ \A i \in 1 .. Len(a) + Len(b) : (a \o b)[i] = IF i <= Len(a) THEN a[i] ELSE b[i - Len(a)]
  BY ConcatProperties, EmptySeq
<1>3. a \o b # <<>>
  BY <1>2, ConcatEqualIffEmpty
<1>4. /\ Tail(a \o b) \in Seq(S) /\ Len(Tail(a \o b)) = Len(a) + Len(b) - 1
      /\ \A i \in 1 .. Len(a) + Len(b) - 1 : Tail(a \o b)[i] = (a \o b)[i + 1]
  BY <1>2, <1>3, HeadTailProperties
<1>5. /\ Tail(a) \o b \in Seq(S) /\ Len(Tail(a) \o b) = Len(a) - 1 + Len(b)
      /\ \A i \in 1 .. Len(a) - 1 + Len(b) :
           (Tail(a) \o b)[i] = IF i <= Len(a) - 1 THEN Tail(a)[i] ELSE b[i - (Len(a) - 1)]
  BY <1>1, ConcatProperties
<1>6. \A i \in 1 .. Len(a) + Len(b) - 1 : Tail(a \o b)[i] = (Tail(a) \o b)[i]
  BY <1>1, <1>2, <1>4, <1>5
<1>7. Tail(a) \o b = Tail(a \o b)
  BY <1>2, <1>4, <1>5, <1>6, SeqEqual
<1>8. Head(a \o b) = Head(a)
  BY <1>2, <1>3
<1> QED
  BY <1>3, <1>7, <1>8

(* Appending to the second of two sequences appends to both. *)
LEMMA CatAppend ==
  ASSUME NEW S, NEW a \in Seq(S), NEW b \in Seq(S), NEW x \in S
  PROVE  a \o Append(b, x) = Append(a \o b, x)
<1>1. <<x>> \in Seq(S) /\ Append(b, x) = b \o <<x>>
  BY AppendIsConcat
<1>2. a \o b \in Seq(S)
  BY ConcatProperties
<1>3. Append(a \o b, x) = (a \o b) \o <<x>>
  BY <1>2, AppendIsConcat
<1> QED
  BY <1>1, <1>3, ConcatAssociative

(* The same of packets. *)
LEMMA StreamAppend ==
  \A a, b \in Seq(Packets) : \A p \in Packets : a \o Append(b, p) = Append(a \o b, p)
BY CatAppend

(* A read takes a prefix and leaves the rest. *)
LEMMA CatSplit ==
  ASSUME NEW S, NEW a \in Seq(S), NEW k \in 1 .. Len(a)
  PROVE  /\ SubSeq(a, 1, k) \o SubSeq(a, k + 1, Len(a)) = a
         /\ SubSeq(a, 1, k) \in Seq(S) /\ SubSeq(a, k + 1, Len(a)) \in Seq(S)
         /\ Len(SubSeq(a, 1, k)) = k /\ \A i \in 1 .. k : SubSeq(a, 1, k)[i] = a[i]
<1>0. Len(a) \in Nat
  BY LenProperties
<1>1. SubSeq(a, 1, k) \o SubSeq(a, k + 1, Len(a)) = SubSeq(a, 1, Len(a))
  <2>1. 1 \in 1 .. Len(a) + 1 /\ k \in 1 - 1 .. Len(a) /\ Len(a) \in k .. Len(a)
    BY <1>0
  <2> QED
    BY <2>1, ConcatAdjacentSubSeq
<1>2. SubSeq(a, 1, Len(a)) = a
  BY SubSeqFull
<1>3. \A i \in 1 .. Len(a) : a[i] \in S
  BY ElementOfSeq
<1>4. SubSeq(a, 1, k) \in Seq(S) /\ Len(SubSeq(a, 1, k)) = k /\ \A i \in 1 .. k : SubSeq(a, 1, k)[i] = a[i]
  BY <1>0, <1>3
<1>5. SubSeq(a, k + 1, Len(a)) \in Seq(S)
  BY <1>0, <1>3
<1> QED
  BY <1>1, <1>2, <1>4, <1>5

-----------------------------------------------------------------------------
(* The streams are sequences of packets. *)
LEMMA StreamTypes ==
  ASSUME TypeOK
  PROVE  /\ wk \in [Workers -> WorkerStates]
         /\ outbox \in [Workers -> Seq(Packets)] /\ inbox \in [Workers -> Seq(Packets)]
<1>1. wk \in [Workers -> WorkerStates] /\ mbuf.rest \in Seq(Packets)
      /\ \A w \in Workers : up[w] \in Seq(Packets) /\ wk[w].queue \in Seq(Packets)
                          /\ wbuf[w] \in Seq(Packets) /\ down[w] \in Seq(Packets)
  BY DEF TypeOK, WorkerStates
<1>2. \A w \in Workers : Unserved(w) \in Seq(Packets) /\ Incoming(w) \in Seq(Packets)
  BY <1>1, ConcatProperties DEF Unserved, Incoming
<1> QED
  BY <1>1, <1>2 DEF outbox, inbox

(* Messages are appended to the worker's stream, by way of the pipe or of  *)
(* the queue.                                                              *)
LEMMA SendStep ==
  ASSUME TypeOK, Linked, NEW w \in Workers, MaySend(w), NEW p \in Packets, Asked(w, p),
         p.id = wk[w].req_id, p.cmd \in {"bind", "broadcast"},
         NEW cbs \in [1 .. MaxReq -> Addrs \cup {NULL}], send_msg(w, p, cbs),
         UNCHANGED <<wbuf, down, master>>
  PROVE  /\ Sends(w, p, cbs) /\ up' \in [Workers -> Seq(Packets)]
         /\ Linked'
<1>1. wk \in [Workers -> WorkerStates] /\ up \in [Workers -> Seq(Packets)] /\ mbuf.rest \in Seq(Packets)
  BY StreamTypes DEF TypeOK
<1>2. wk[w] \in WorkerStates /\ wk[w].req_id \in 1 .. MaxReq /\ wk[w].queue \in Seq(Packets)
      /\ up[w] \in Seq(Packets)
  BY <1>1, IpcAssumption DEF WorkerStates, MaySend
<1>3. Append(up[w], p) \in Seq(Packets) /\ Append(wk[w].queue, p) \in Seq(Packets)
  BY <1>2, AppendProperties
<1> DEFINE mine == IF mbuf.c = w THEN mbuf.rest ELSE <<>>
<1>4. /\ mine \in Seq(Packets) /\ mine \o up[w] \in Seq(Packets)
      /\ outbox[w] = (mine \o up[w]) \o wk[w].queue
  BY <1>1, <1>2, ConcatProperties, EmptySeq DEF outbox, Unserved
<1> HIDE DEF mine
<1>5. CASE wk[w].state = "connected"
  <2>1. /\ up' = [up EXCEPT ![w] = Append(@, p)]
        /\ wk' = [wk EXCEPT ![w].req_id = @ + 1, ![w].callbacks = cbs]
    BY <1>5 DEF send_msg
  <2>2. /\ wk' \in [Workers -> WorkerStates] /\ Others(w)
        /\ wk'[w] = [wk[w] EXCEPT !.req_id = @ + 1, !.callbacks = cbs]
        /\ up' \in [Workers -> Seq(Packets)] /\ up'[w] = Append(up[w], p)
        /\ \A v \in Workers : v # w => up'[v] = up[v]
    <3>1. [wk[w] EXCEPT !.req_id = @ + 1, !.callbacks = cbs] \in WorkerStates
      <4>1. wk[w].req_id + 1 \in 1 .. MaxReq + 1
        BY <1>2, IpcAssumption
      <4> QED
        BY <1>2, <4>1 DEF WorkerStates
    <3>2. wk' = [wk EXCEPT ![w] = [wk[w] EXCEPT !.req_id = @ + 1, !.callbacks = cbs]]
      BY <1>1, <2>1 DEF WorkerStates
    <3>3. /\ wk' \in [Workers -> WorkerStates] /\ Others(w)
          /\ wk'[w] = [wk[w] EXCEPT !.req_id = @ + 1, !.callbacks = cbs]
      BY <1>1, <3>1, <3>2 DEF Others
    <3> QED
      BY <1>1, <1>3, <2>1, <3>3
  <2>3. /\ wk'[w].req_id = wk[w].req_id + 1 /\ wk'[w].callbacks = cbs
        /\ wk'[w].alive = wk[w].alive /\ wk'[w].accepted_fd = wk[w].accepted_fd
        /\ wk'[w].heard = wk[w].heard /\ wk'[w].servers = wk[w].servers
        /\ wk'[w].state = wk[w].state /\ wk'[w].queue = wk[w].queue
    BY <1>2, <2>2 DEF WorkerStates
  <2>4. wk[w].queue = <<>>
    BY <1>5 DEF Linked
  <2>5. outbox[w] = mine \o up[w] /\ Unserved(w)' = mine \o Append(up[w], p)
    <3>1. Append(up[w], p) \in Seq(Packets) /\ mine \o Append(up[w], p) \in Seq(Packets)
      BY <1>3, <1>4, ConcatProperties
    <3>2. Unserved(w)' = (mine \o Append(up[w], p)) \o <<>>
      BY <2>2, <2>3, <2>4 DEF Unserved, master, mine
    <3> QED
      BY <1>4, <2>4, <3>1, <3>2, ConcatEmptySeq
  <2>6. Unserved(w)' = Append(outbox[w], p)
    BY <1>2, <1>4, <2>5, CatAppend
  <2>7. \A v \in Workers : v # w => Unserved(v)' = Unserved(v)
    BY <2>2 DEF Unserved, Others, master
  <2>8. outbox' = [outbox EXCEPT ![w] = Append(@, p)]
    BY <2>6, <2>7 DEF outbox
  <2>9. inbox' = inbox
    BY DEF inbox, Incoming
  <2>10. Linked'
    <3>1. ASSUME NEW v \in Workers, v # w
          PROVE  wk'[v] = wk[v] /\ up'[v] = up[v]
      BY <2>2, <3>1 DEF Others
    <3>2. wk'[w].state = "connected" /\ wk'[w].queue = <<>>
      BY <1>5, <2>3, <2>4
    <3> QED
      BY <3>1, <3>2 DEF Linked, master
  <2> QED
    BY <2>2, <2>3, <2>8, <2>9, <2>10 DEF Sends, MaySend
<1>6. CASE wk[w].state # "connected"
  <2>1. /\ UNCHANGED up
        /\ wk' = [wk EXCEPT ![w].req_id = @ + 1, ![w].callbacks = cbs,
                             ![w].queue = Append(@, p),
                             ![w].state = IF @ = "idle" THEN "connecting" ELSE @]
    BY <1>6 DEF send_msg
  <2>2. /\ wk' \in [Workers -> WorkerStates] /\ Others(w)
        /\ wk'[w] = [wk[w] EXCEPT !.req_id = @ + 1, !.callbacks = cbs, !.queue = Append(@, p),
                                   !.state = IF @ = "idle" THEN "connecting" ELSE @]
    BY <1>1, <1>2, <1>3, <2>1 DEF WorkerStates, Others
  <2>3. /\ wk'[w].req_id = wk[w].req_id + 1 /\ wk'[w].callbacks = cbs
        /\ wk'[w].alive = wk[w].alive /\ wk'[w].accepted_fd = wk[w].accepted_fd
        /\ wk'[w].heard = wk[w].heard /\ wk'[w].servers = wk[w].servers
        /\ wk'[w].state # "connected" /\ wk'[w].queue = Append(wk[w].queue, p)
    BY <1>2, <1>6, <2>2 DEF WorkerStates
  <2>4. Unserved(w)' = (mine \o up[w]) \o Append(wk[w].queue, p)
    BY <2>1, <2>3 DEF Unserved, master, mine
  <2>5. Unserved(w)' = Append(outbox[w], p)
    <3>1. (mine \o up[w]) \o Append(wk[w].queue, p) = Append((mine \o up[w]) \o wk[w].queue, p)
      BY <1>2, <1>4, StreamAppend
    <3> QED
      BY <1>4, <2>4, <3>1
  <2>6. \A v \in Workers : v # w => Unserved(v)' = Unserved(v)
    BY <2>1, <2>2 DEF Unserved, Others, master
  <2>7. outbox' = [outbox EXCEPT ![w] = Append(@, p)]
    BY <2>5, <2>6 DEF outbox
  <2>8. inbox' = inbox
    BY DEF inbox, Incoming
  <2>9. Linked'
    <3>1. /\ pool' = pool /\ open' = open /\ mbuf' = mbuf /\ up' = up
          /\ \A v \in Workers : v # w => wk'[v] = wk[v]
      BY <2>1, <2>2 DEF Others, master
    <3> QED
      BY <1>6, <2>3, <3>1 DEF Linked
  <2> QED
    BY <1>1, <1>6, <2>1, <2>2, <2>3, <2>7, <2>8, <2>9 DEF Sends, MaySend
<1> QED
  BY <1>5, <1>6

(* sendBroadcast and createServer send a packet with a new id. *)
LEMMA SendSteps ==
  ASSUME TypeOK, Linked, NEW w \in Workers,
         \/ \E key \in Keys : sendBroadcast(w, key)
         \/ \E addr \in Addrs : createServer(w, addr)
  PROVE  /\ TypeOK' /\ Linked'
         /\ \E p \in Packets :
              \/ p.cmd = "broadcast" /\ Sends(w, p, wk[w].callbacks)
              \/ p.cmd = "bind" /\ Sends(w, p, [wk[w].callbacks EXCEPT ![p.id] = p.arg])
<1>0. /\ wk \in [Workers -> WorkerStates] /\ wk[w] \in WorkerStates
      /\ wk[w].callbacks \in [1 .. MaxReq -> Addrs \cup {NULL}]
  BY StreamTypes DEF WorkerStates
<1>1. MaySend(w) /\ wk[w].req_id \in 1 .. MaxReq /\ UNCHANGED <<wbuf, down, master>>
  <2>1. MaySend(w) /\ UNCHANGED <<wbuf, down, master>>
    BY DEF sendBroadcast, createServer
  <2>2. wk[w].req_id \in 1 .. MaxReq + 1
    BY <1>0 DEF WorkerStates
  <2> QED
    BY <2>1, <2>2, IpcAssumption DEF MaySend
<1>2. ASSUME NEW p \in Packets, NEW cbs, Sends(w, p, cbs), up' \in [Workers -> Seq(Packets)]
      PROVE  TypeOK'
  BY <1>2 DEF Sends, TypeOK, WorkerStates, master
<1>3. ASSUME NEW key \in Keys, sendBroadcast(w, key)
      PROVE  /\ TypeOK' /\ Linked'
             /\ \E p \in Packets : p.cmd = "broadcast" /\ Sends(w, p, wk[w].callbacks)
  <2> DEFINE p == Packet("broadcast", w, wk[w].req_id, key, 0)
  <2>1. /\ p \in Packets /\ Asked(w, p) /\ p.id = wk[w].req_id /\ p.cmd = "broadcast"
    BY <1>1, IpcAssumption DEF Packet, Packets, Asked
  <2>2. send_msg(w, p, wk[w].callbacks)
    BY <1>3 DEF sendBroadcast
  <2> HIDE DEF p
  <2>3. Sends(w, p, wk[w].callbacks) /\ up' \in [Workers -> Seq(Packets)] /\ Linked'
    BY <1>0, <1>1, <2>1, <2>2, SendStep
  <2> QED
    BY <1>2, <2>1, <2>3
<1>4. ASSUME NEW addr \in Addrs, createServer(w, addr)
      PROVE  /\ TypeOK' /\ Linked'
             /\ \E p \in Packets : /\ p.cmd = "bind"
                                   /\ Sends(w, p, [wk[w].callbacks EXCEPT ![p.id] = p.arg])
  <2> DEFINE p == Packet("bind", w, wk[w].req_id, addr, 0)
             cbs == [wk[w].callbacks EXCEPT ![wk[w].req_id] = addr]
  <2>1. /\ p \in Packets /\ Asked(w, p) /\ p.id = wk[w].req_id /\ p.cmd = "bind" /\ p.arg = addr
    BY <1>1, IpcAssumption DEF Packet, Packets, Asked
  <2>2. send_msg(w, p, cbs)
    BY <1>4 DEF createServer
  <2>3. cbs \in [1 .. MaxReq -> Addrs \cup {NULL}]
    BY <1>0
  <2> HIDE DEF p
  <2>4. cbs = [wk[w].callbacks EXCEPT ![p.id] = p.arg]
    BY <2>1
  <2> HIDE DEF cbs
  <2>5. Sends(w, p, cbs) /\ up' \in [Workers -> Seq(Packets)] /\ Linked'
    BY <1>1, <2>1, <2>2, <2>3, SendStep
  <2> QED
    BY <1>2, <2>1, <2>4, <2>5
<1> QED
  BY <1>3, <1>4

(* The connect callback. *)
LEMMA ConnectStep ==
  ASSUME TypeOK, Linked, NEW w \in Workers, on_connect(w)
  PROVE  TypeOK' /\ Linked' /\ Connects(w)
<1> DEFINE hi == <<Packet("hello", w, 0, NULL, 0)>>
<1>1. /\ wk \in [Workers -> WorkerStates] /\ wk[w] \in WorkerStates /\ wk[w].queue \in Seq(Packets)
      /\ up \in [Workers -> Seq(Packets)] /\ mbuf.rest \in Seq(Packets)
  BY StreamTypes DEF WorkerStates, TypeOK
<1>2. hi \in Seq(Packets) /\ hi \o wk[w].queue \in Seq(Packets)
  <2>1. Packet("hello", w, 0, NULL, 0) \in Packets
    BY DEF Packet, Packets
  <2> QED
    BY <1>1, <2>1, ConcatProperties
<1> HIDE DEF hi
<1>3. /\ wk[w].alive /\ wk[w].state = "connecting"
      /\ up' = [up EXCEPT ![w] = hi \o wk[w].queue]
      /\ wk' = [wk EXCEPT ![w].queue = <<>>, ![w].state = "connected"]
      /\ UNCHANGED <<wbuf, down, master>>
  BY DEF on_connect, hi
<1>4. [wk[w] EXCEPT !.queue = <<>>, !.state = "connected"] \in WorkerStates
  BY <1>1, EmptySeq DEF WorkerStates
<1>5. wk' = [wk EXCEPT ![w] = [wk[w] EXCEPT !.queue = <<>>, !.state = "connected"]]
  BY <1>1, <1>3 DEF WorkerStates
<1>6. /\ wk' \in [Workers -> WorkerStates] /\ Others(w)
      /\ wk'[w] = [wk[w] EXCEPT !.queue = <<>>, !.state = "connected"]
      /\ up' \in [Workers -> Seq(Packets)] /\ up'[w] = hi \o wk[w].queue
      /\ \A v \in Workers : v # w => up'[v] = up[v]
  BY <1>1, <1>2, <1>3, <1>4, <1>5 DEF Others
<1>7. wk'[w].queue = <<>> /\ wk'[w].state = "connected"
  BY <1>1, <1>6 DEF WorkerStates
<1>8. TypeOK'
  BY <1>3, <1>6 DEF TypeOK, WorkerStates, master
<1>9. Linked'
  <2>1. ASSUME NEW v \in Workers, v # w PROVE wk'[v] = wk[v] /\ up'[v] = up[v]
    BY <1>6, <2>1 DEF Others
  <2> QED
    <3>1. pool' = pool /\ open' = open /\ mbuf' = mbuf
      BY <1>3 DEF master
    <3>2. ASSUME NEW v \in Workers, v # w
          PROVE  IF wk'[v].state = "connected"
                   THEN wk'[v].queue = <<>>
                   ELSE /\ up'[v] = <<>> /\ pool'[v] = "absent" /\ v \notin open'
                        /\ mbuf'.c = v => mbuf'.rest = <<>>
      BY <2>1, <3>1, <3>2 DEF Linked
    <3> QED
      BY <1>7, <3>2 DEF Linked
<1>10. Unserved(w) = wk[w].queue /\ Unserved(w)' = hi \o wk[w].queue
  <2>1. up[w] = <<>> /\ (mbuf.c = w => mbuf.rest = <<>>)
    BY <1>3 DEF Linked
  <2>2. Unserved(w) = (<<>> \o <<>>) \o wk[w].queue
    BY <2>1 DEF Unserved
  <2>3. Unserved(w)' = (<<>> \o (hi \o wk[w].queue)) \o <<>>
    BY <1>3, <1>6, <1>7, <2>1 DEF Unserved, master
  <2>4. <<>> \in Seq(Packets) /\ <<>> \o <<>> = <<>>
    BY EmptySeq, ConcatEmptySeq
  <2> QED
    BY <1>1, <1>2, <2>2, <2>3, <2>4, ConcatEmptySeq
<1>11. \A v \in Workers : v # w => Unserved(v)' = Unserved(v)
  BY <1>3, <1>6 DEF Unserved, Others, master
<1>12. outbox' = [outbox EXCEPT ![w] = hi \o @]
  BY <1>10, <1>11 DEF outbox
<1>13. inbox' = inbox
  BY <1>3 DEF inbox, Incoming
<1> QED
  BY <1>3, <1>8, <1>9, <1>12, <1>13 DEF Connects, hi

(* ipc__process_packet takes the first packet of the worker's stream. *)
LEMMA TakeStep ==
  ASSUME TypeInv, Linked, NEW w \in Workers, ipc__process_packet(w)
  PROVE  TypeOK' /\ Linked' /\ Takes(w, Head(inbox[w]))
<1>1. TypeOK /\ wk \in [Workers -> WorkerStates] /\ wbuf \in [Workers -> Seq(Packets)]
      /\ down \in [Workers -> Seq(Packets)]
  BY StreamTypes DEF TypeInv, TypeOK
<1>2. /\ wk[w] \in WorkerStates /\ wbuf[w] \in Seq(Packets) /\ down[w] \in Seq(Packets)
      /\ wk[w].alive /\ wbuf[w] # <<>> /\ wbuf' = [wbuf EXCEPT ![w] = Tail(@)]
      /\ UNCHANGED <<up, down, master>>
  BY <1>1 DEF ipc__process_packet
<1>3. /\ Tail(wbuf[w]) \o down[w] = Tail(inbox[w]) /\ Head(inbox[w]) = Head(wbuf[w])
      /\ inbox[w] # <<>>
  BY <1>2, CatTail DEF inbox, Incoming
<1>4. Head(wbuf[w]) \in Packets /\ Tail(wbuf[w]) \in Seq(Packets)
  BY <1>2, HeadTailProperties
<1>5. Told(w, Head(wbuf[w]))
  <2>1. inbox[w] \in Seq(Packets) /\ Len(inbox[w]) \in Nat
    BY <1>1, StreamTypes, LenProperties
  <2>2. 1 \in 1 .. Len(inbox[w]) /\ Head(inbox[w]) = inbox[w][1]
    BY <1>3, <2>1, EmptySeq
  <2> QED
    BY <1>3, <2>2 DEF TypeInv
<1> DEFINE p == Head(wbuf[w])
<1>6. p \in Packets /\ p.id \in 1 .. MaxReq
  BY <1>4, <1>5 DEF Told
<1>7. on_broadcast(w, p) \/ on_reply(w, p) \/ no_callback(w, p)
  BY DEF ipc__process_packet
<1> HIDE DEF p
<1>8. /\ wk' \in [Workers -> WorkerStates] /\ Others(w)
      /\ wk'[w].queue = wk[w].queue /\ wk'[w].state = wk[w].state
  <2>1. CASE on_broadcast(w, p)
    <3>1. Append(wk[w].heard, p) \in Seq(Packets)
      BY <1>2, <1>6, AppendProperties DEF WorkerStates
    <3>2. [wk[w] EXCEPT !.heard = Append(@, p)] \in WorkerStates
      BY <1>2, <3>1 DEF WorkerStates
    <3>3. wk' = [wk EXCEPT ![w] = [wk[w] EXCEPT !.heard = Append(@, p)]]
      BY <1>1, <2>1 DEF on_broadcast, WorkerStates
    <3>4. /\ wk' \in [Workers -> WorkerStates] /\ Others(w)
          /\ wk'[w] = [wk[w] EXCEPT !.heard = Append(@, p)]
      BY <1>1, <3>2, <3>3 DEF Others
    <3> QED
      BY <1>2, <3>4 DEF WorkerStates
  <2>2. CASE on_reply(w, p)
    <3> DEFINE srv == wk[w].servers \cup {<<wk[w].callbacks[p.id], wk[w].accepted_fd>>}
               cbs == [wk[w].callbacks EXCEPT ![p.id] = NULL]
    <3>1. srv \in SUBSET (Addrs \X Int) /\ cbs \in [1 .. MaxReq -> Addrs \cup {NULL}]
      <4>1. /\ wk[w].callbacks \in [1 .. MaxReq -> Addrs \cup {NULL}] /\ wk[w].accepted_fd \in Int
            /\ wk[w].servers \in SUBSET (Addrs \X Int) /\ wk[w].callbacks[p.id] # NULL
        BY <1>2, <2>2 DEF WorkerStates, on_reply
      <4>2. wk[w].callbacks[p.id] \in Addrs
        BY <1>6, <4>1
      <4>3. <<wk[w].callbacks[p.id], wk[w].accepted_fd>> \in Addrs \X Int
        BY <4>1, <4>2
      <4> QED
        BY <1>6, <4>1, <4>3
    <3>2. wk' = [wk EXCEPT ![w] = [wk[w] EXCEPT !.servers = srv, !.callbacks = cbs]]
      BY <1>1, <2>2 DEF on_reply, WorkerStates
    <3> HIDE DEF srv, cbs
    <3>3. [wk[w] EXCEPT !.servers = srv, !.callbacks = cbs] \in WorkerStates
      BY <1>2, <3>1 DEF WorkerStates
    <3>4. /\ wk' \in [Workers -> WorkerStates] /\ Others(w)
          /\ wk'[w] = [wk[w] EXCEPT !.servers = srv, !.callbacks = cbs]
      BY <1>1, <3>2, <3>3 DEF Others
    <3> QED
      BY <1>2, <3>4 DEF WorkerStates
  <2>3. CASE no_callback(w, p)
    BY <1>1, <2>3 DEF no_callback, Others
  <2> QED
    BY <1>7, <2>1, <2>2, <2>3
<1>9. TypeOK'
  BY <1>1, <1>2, <1>4, <1>8 DEF TypeOK, WorkerStates, master
<1>10. Linked'
  <2>1. \A v \in Workers : wk'[v].queue = wk[v].queue /\ wk'[v].state = wk[v].state
    BY <1>8 DEF Others
  <2> QED
    BY <1>2, <2>1 DEF Linked, master
<1>11. outbox' = outbox
  <2>1. \A v \in Workers : wk'[v].queue = wk[v].queue
    BY <1>8 DEF Others
  <2> QED
    BY <1>2, <2>1 DEF outbox, Unserved, master
<1>12. inbox' = [inbox EXCEPT ![w] = Tail(@)]
  <2>1. wbuf'[w] = Tail(wbuf[w]) /\ \A v \in Workers : v # w => wbuf'[v] = wbuf[v]
    BY <1>1, <1>2
  <2>2. Incoming(w)' = Tail(inbox[w]) /\ \A v \in Workers : v # w => Incoming(v)' = Incoming(v)
    BY <1>2, <1>3, <2>1 DEF Incoming
  <2> QED
    BY <2>2 DEF inbox
<1>13. p = Head(inbox[w])
  BY <1>3 DEF p
<1>14. p = Head(wbuf[w])
  BY DEF p
<1> QED
  BY <1>2, <1>3, <1>7, <1>9, <1>10, <1>11, <1>12, <1>13, <1>14 DEF Takes

(* A worker that dies leaves what it has written, and loses what was on    *)
(* its way to it.                                                          *)
LEMMA DieStep ==
  ASSUME TypeOK, Linked, NEW w \in Workers, NEW how \in Exits, worker_exit(w, how)
  PROVE  TypeOK' /\ Linked' /\ Dies(w)
<1>1. wk \in [Workers -> WorkerStates] /\ wk[w] \in WorkerStates
  BY StreamTypes
<1>2. [wk[w] EXCEPT !.alive = FALSE] \in WorkerStates
  BY <1>1 DEF WorkerStates
<1>3. wk' = [wk EXCEPT ![w] = [wk[w] EXCEPT !.alive = FALSE]]
  BY <1>1 DEF worker_exit, WorkerStates
<1>4. /\ wk' \in [Workers -> WorkerStates] /\ Others(w) /\ wk'[w] = [wk[w] EXCEPT !.alive = FALSE]
  BY <1>1, <1>2, <1>3 DEF Others
<1>5. wk'[w].queue = wk[w].queue /\ wk'[w].state = wk[w].state
  BY <1>1, <1>4 DEF WorkerStates
<1>6. \A v \in Workers : wk'[v].queue = wk[v].queue /\ wk'[v].state = wk[v].state
  BY <1>4, <1>5 DEF Others
<1>7. TypeOK'
  <2>1. sup' \in [how : [Workers -> Exits \cup {"running"}], reaped : SUBSET Workers,
                  count : Nat, code : Nat, exited : BOOLEAN]
    BY DEF TypeOK, worker_exit
  <2>2. wbuf' \in [Workers -> Seq(Packets)] /\ down' \in [Workers -> Seq(Packets)]
    BY EmptySeq DEF TypeOK, worker_exit
  <2> QED
    BY <1>4, <2>1, <2>2 DEF TypeOK, worker_exit, WorkerStates
<1>8. Linked'
  BY <1>6 DEF Linked, worker_exit
<1>9. outbox' = outbox
  <2>1. UNCHANGED <<up, mbuf>>
    BY DEF worker_exit
  <2>2. \A v \in Workers : Unserved(v)' = Unserved(v)
    BY <1>6, <2>1 DEF Unserved
  <2> QED
    BY <2>2 DEF outbox
<1>10. inbox' = [inbox EXCEPT ![w] = <<>>]
  <2>1. wbuf'[w] = <<>> /\ down'[w] = <<>>
        /\ \A v \in Workers : v # w => wbuf'[v] = wbuf[v] /\ down'[v] = down[v]
    BY DEF worker_exit, TypeOK
  <2>2. <<>> \o <<>> = <<>>
    BY EmptySeq, ConcatEmptySeq
  <2>3. Incoming(w)' = <<>> /\ \A v \in Workers : v # w => Incoming(v)' = Incoming(v)
    BY <2>1, <2>2 DEF Incoming
  <2> QED
    BY <2>3 DEF inbox
<1> QED
  BY <1>7, <1>8, <1>9, <1>10 DEF Dies, worker_exit

(* The descriptor of the next socket to be bound is a number above 0. *)
LEMMA NextFdType ==
  NextFd \in Nat /\ NextFd > 0
<1>1. IsFiniteSet({a \in Addrs : bind_pool[a] # 0})
  BY IpcAssumption, FS_Subset
<1>2. Cardinality({a \in Addrs : bind_pool[a] # 0}) \in Nat
  BY <1>1, FS_CardinalityType
<1> QED
  BY <1>2 DEF NextFd

(* client__process_packet takes the first packet of the client's stream,   *)
(* and what it writes comes last in the streams of its readers.            *)
LEMMA ServeStep ==
  ASSUME TypeInv, Linked, client__process_packet
  PROVE  /\ TypeOK' /\ Linked' /\ mbuf.c \in Workers
         /\ Serves(mbuf.c, Head(outbox[mbuf.c]))
<1>0. mbuf.c \in Workers /\ mbuf.rest \in Seq(Packets) /\ mbuf.rest # <<>>
  BY DEF TypeInv, TypeOK, client__process_packet
<1> PICK c \in Workers : c = mbuf.c
  BY <1>0
<1> PICK p \in Packets : p = Head(mbuf.rest)
  BY <1>0, HeadTailProperties
<1>1. /\ TypeOK /\ wk \in [Workers -> WorkerStates] /\ wbuf \in [Workers -> Seq(Packets)]
      /\ down \in [Workers -> Seq(Packets)] /\ up \in [Workers -> Seq(Packets)]
      /\ mbuf.rest \in Seq(Packets) /\ mbuf.rest # <<>> /\ c \in Workers
      /\ mbuf' = [mbuf EXCEPT !.rest = Tail(@)] /\ UNCHANGED <<wk, wbuf, up, open, sup>>
  BY StreamTypes DEF TypeInv, TypeOK, client__process_packet
<1>2. p \in Packets /\ Tail(mbuf.rest) \in Seq(Packets)
  BY <1>1, HeadTailProperties
<1>3. /\ mbuf'.c = c /\ mbuf'.rest = Tail(mbuf.rest)
      /\ mbuf' \in [c : Workers \cup {NULL}, rest : Seq(Packets)]
  BY <1>1, <1>2 DEF TypeOK
<1>4. \/ p.cmd = "hello" /\ hello(c)
      \/ p.cmd = "bind" /\ bind(c, p)
      \/ p.cmd = "bind" /\ bind_invalid(c, p)
      \/ p.cmd = "broadcast" /\ broadcast(c, p)
  BY DEF client__process_packet
<1>5. /\ Unserved(c) = (mbuf.rest \o up[c]) \o wk[c].queue
      /\ Unserved(c)' = (Tail(mbuf.rest) \o up[c]) \o wk[c].queue
  BY <1>1, <1>3 DEF Unserved
<1>6. \A v \in Workers : v # c => Unserved(v)' = Unserved(v)
  BY <1>1, <1>3 DEF Unserved
<1>7. wk[c].queue \in Seq(Packets) /\ up[c] \in Seq(Packets)
      /\ wbuf[c] \in Seq(Packets) /\ down[c] \in Seq(Packets)
  BY <1>1 DEF WorkerStates
<1>8. Unserved(c)' = Tail(Unserved(c)) /\ p = Head(Unserved(c)) /\ Unserved(c) # <<>>
  <2>1. /\ Tail(mbuf.rest) \o up[c] = Tail(mbuf.rest \o up[c]) /\ mbuf.rest \o up[c] # <<>>
        /\ Head(mbuf.rest \o up[c]) = p /\ mbuf.rest \o up[c] \in Seq(Packets)
    <3> DEFINE a == mbuf.rest
               b == up[c]
    <3>1. a \in Seq(Packets) /\ b \in Seq(Packets) /\ a # <<>> /\ p = Head(a)
      BY <1>1, <1>7
    <3> HIDE DEF a, b
    <3>2. Tail(a) \o b = Tail(a \o b) /\ Head(a \o b) = p /\ a \o b # <<>>
      BY <3>1, CatTail
    <3>3. a \o b \in Seq(Packets)
      BY <3>1, ConcatProperties
    <3> QED
      BY <3>2, <3>3 DEF a, b
  <2>2. \A a \in Seq(Packets) : a # <<>> =>
          /\ Tail(a) \o wk[c].queue = Tail(a \o wk[c].queue)
          /\ Head(a \o wk[c].queue) = Head(a) /\ a \o wk[c].queue # <<>>
    BY <1>7, CatTail
  <2> QED
    BY <1>5, <2>1, <2>2
<1>9. outbox' = [outbox EXCEPT ![c] = Tail(@)] /\ outbox[c] # <<>> /\ p = Head(outbox[c])
  BY <1>1, <1>6, <1>8 DEF outbox
<1>10. Asked(c, p)
  <2>1. outbox[c] \in Seq(Packets) /\ Len(outbox[c]) \in Nat
    BY <1>1, StreamTypes, LenProperties
  <2>2. 1 \in 1 .. Len(outbox[c]) /\ Head(outbox[c]) = outbox[c][1]
    BY <1>9, <2>1, EmptySeq
  <2> QED
    BY <1>1, <1>9, <2>2 DEF TypeInv
<1>11. ASSUME NEW r \in Packets, NEW v \in Workers, down'[v] = Append(down[v], r)
       PROVE  Incoming(v)' = Append(Incoming(v), r)
  <2>1. wbuf[v] \in Seq(Packets) /\ down[v] \in Seq(Packets)
    BY <1>1
  <2>2. \A a, b \in Seq(Packets) : a \o Append(b, r) = Append(a \o b, r)
    BY CatAppend
  <2> QED
    BY <1>1, <1>11, <2>1, <2>2 DEF Incoming
<1>12. ASSUME NEW v \in Workers, down'[v] = down[v]
       PROVE  Incoming(v)' = Incoming(v)
  BY <1>1, <1>12 DEF Incoming
<1> DEFINE Done ==
             /\ \/ p.cmd = "hello" /\ pool' = [pool EXCEPT ![c] = "known"] /\ UNCHANGED <<inbox, bind_pool>>
                \/ Replies(c, p)
                \/ p.cmd = "bind" /\ p.arg \notin TcpAddrs /\ UNCHANGED <<inbox, pool, bind_pool>>
                \/ Relays(c, p)
             /\ down' \in [Workers -> Seq(Packets)] /\ by_id' \subseteq Workers
             /\ pool' \in [Workers -> {"absent", "anon", "known"}] /\ bind_pool' \in [Addrs -> Nat]
             /\ \A v \in Workers : v # c => pool'[v] = pool[v]
<1>13. ASSUME p.cmd = "hello" /\ hello(c)
       PROVE  Done
  <2>1. /\ pool' = [pool EXCEPT ![c] = "known"] /\ by_id' = by_id \cup {c} /\ UNCHANGED <<bind_pool, down>>
    BY <1>13 DEF hello
  <2>2. inbox' = inbox
    BY <1>1, <2>1 DEF inbox, Incoming
  <2>3. by_id' \subseteq Workers /\ pool' \in [Workers -> {"absent", "anon", "known"}]
        /\ \A v \in Workers : v # c => pool'[v] = pool[v]
    BY <1>1, <2>1 DEF TypeOK
  <2> QED
    BY <1>1, <1>13, <2>1, <2>2, <2>3 DEF TypeOK
<1>14. ASSUME p.cmd = "bind" /\ bind(c, p)
       PROVE  Done
  <2> DEFINE fd == IF bind_pool[p.arg] = 0 THEN NextFd ELSE bind_pool[p.arg]
             r == Packet("reply", c, p.id, NULL, fd)
  <2>1. /\ p.arg \in TcpAddrs /\ bind_pool' = [bind_pool EXCEPT ![p.arg] = fd]
        /\ Reply(c, p.id, fd) /\ UNCHANGED <<pool, by_id>>
    BY <1>14 DEF bind
  <2>2. p.arg \in Addrs /\ bind_pool \in [Addrs -> Nat] /\ bind_pool[p.arg] \in Nat
    BY <1>1, <2>1, IpcAssumption DEF TypeOK
  <2>3. fd \in Nat
    BY <2>2, NextFdType
  <2> HIDE DEF fd
  <2>4. r \in Packets
    BY <1>1, <1>2, <2>3 DEF Packet, Packets
  <2>5. down' = IF wk[c].alive THEN [down EXCEPT ![c] = Append(@, r)] ELSE down
    BY <2>1 DEF Reply
  <2> HIDE DEF r
  <2>6. down' \in [Workers -> Seq(Packets)]
    <3>1. Append(down[c], r) \in Seq(Packets)
      BY <1>7, <2>4, AppendProperties
    <3> QED
      BY <1>1, <2>5, <3>1
  <2>7. inbox' = IF wk[c].alive THEN [inbox EXCEPT ![c] = Append(@, r)] ELSE inbox
    <3>1. CASE wk[c].alive
      <4>1. down'[c] = Append(down[c], r) /\ \A v \in Workers : v # c => down'[v] = down[v]
        BY <1>1, <2>5, <3>1
      <4>2. Incoming(c)' = Append(Incoming(c), r) /\ \A v \in Workers : v # c => Incoming(v)' = Incoming(v)
        BY <1>1, <1>11, <1>12, <2>4, <4>1
      <4> QED
        BY <1>1, <3>1, <4>2 DEF inbox
    <3>2. CASE ~wk[c].alive
      <4>1. \A v \in Workers : Incoming(v)' = Incoming(v)
        BY <1>12, <2>5, <3>2
      <4> QED
        BY <3>2, <4>1 DEF inbox
    <3> QED
      BY <3>1, <3>2
  <2>8. bind_pool' \in [Addrs -> Nat]
    BY <2>1, <2>2, <2>3
  <2>9. Replies(c, p)
    BY <1>14, <2>1, <2>7 DEF Replies, fd, r
  <2> QED
    BY <1>1, <2>1, <2>6, <2>8, <2>9 DEF TypeOK
<1>15. ASSUME p.cmd = "bind" /\ bind_invalid(c, p)
       PROVE  Done
  <2>1. inbox' = inbox
    BY <1>1, <1>15 DEF inbox, Incoming, bind_invalid
  <2> QED
    BY <1>1, <1>15, <2>1 DEF TypeOK, bind_invalid
<1>16. ASSUME p.cmd = "broadcast" /\ broadcast(c, p)
       PROVE  Done
  <2> DEFINE To(v) == pool[v] = "known" /\ v # c /\ wk[v].alive
  <2>1. /\ down' = [v \in Workers |-> IF To(v) THEN Append(down[v], p) ELSE down[v]]
        /\ UNCHANGED <<pool, by_id, bind_pool>>
    BY <1>16 DEF broadcast
  <2> HIDE DEF To
  <2>2. \A v \in Workers : Append(down[v], p) \in Seq(Packets)
    BY <1>1, <1>2, AppendProperties
  <2>3. \A v \in Workers : Incoming(v)' = IF To(v) THEN Append(Incoming(v), p) ELSE Incoming(v)
    BY <1>2, <1>11, <1>12, <2>1
  <2>4. inbox' = [v \in Workers |-> IF To(v) THEN Append(inbox[v], p) ELSE inbox[v]]
    BY <2>3 DEF inbox
  <2>5. Relays(c, p)
    BY <1>16, <2>1, <2>4 DEF Relays, To
  <2>6. down' \in [Workers -> Seq(Packets)]
    BY <1>1, <2>1, <2>2
  <2> QED
    BY <1>1, <2>1, <2>5, <2>6 DEF TypeOK
<1>17. Done
  BY <1>4, <1>13, <1>14, <1>15, <1>16
<1>18. TypeOK'
  BY <1>1, <1>3, <1>17 DEF TypeOK
<1>19. Linked'
  <2>1. wk[c].state = "connected"
    BY <1>1 DEF Linked
  <2>2. \A v \in Workers : v # c => pool'[v] = pool[v]
    BY <1>17
  <2> QED
    BY <1>1, <1>3, <2>1, <2>2 DEF Linked
<1>20. Serves(c, p)
  BY <1>1, <1>9, <1>17 DEF Serves
<1> QED
  BY <1>1, <1>9, <1>18, <1>19, <1>20

(* A worker that subscribes or fails to connect sends nothing. *)
LEMMA QuietWorker ==
  ASSUME TypeOK, Linked, NEW w \in Workers, NEW r \in WorkerStates,
         r.alive = wk[w].alive, r.req_id = wk[w].req_id, r.callbacks = wk[w].callbacks,
         r.heard = wk[w].heard, r.servers = wk[w].servers, r.queue = wk[w].queue,
         r.accepted_fd = wk[w].accepted_fd,
         r.state = "connected" <=> wk[w].state = "connected",
         wk' = [wk EXCEPT ![w] = r], UNCHANGED <<wbuf, up, down, master>>
  PROVE  TypeOK' /\ Linked' /\ Quiet
<1>1. wk \in [Workers -> WorkerStates]
  BY StreamTypes
<1>2. wk' \in [Workers -> WorkerStates] /\ wk'[w] = r /\ \A v \in Workers : v # w => wk'[v] = wk[v]
  BY <1>1
<1>3. TypeOK'
  BY <1>2 DEF TypeOK, WorkerStates, master
<1>4. \A v \in Workers :
        /\ wk'[v].alive = wk[v].alive /\ wk'[v].req_id = wk[v].req_id
        /\ wk'[v].callbacks = wk[v].callbacks /\ wk'[v].heard = wk[v].heard
        /\ wk'[v].servers = wk[v].servers /\ wk'[v].queue = wk[v].queue
        /\ wk'[v].accepted_fd = wk[v].accepted_fd
        /\ wk'[v].state = "connected" <=> wk[v].state = "connected"
  BY <1>2
<1>5. Linked'
  BY <1>4 DEF Linked, master
<1>6. outbox' = outbox /\ inbox' = inbox
  <2>1. UNCHANGED <<wbuf, up, down, mbuf>>
    BY DEF master
  <2>2. \A v \in Workers : Unserved(v)' = Unserved(v) /\ Incoming(v)' = Incoming(v)
    BY <1>4, <2>1 DEF Unserved, Incoming
  <2> QED
    BY <2>2 DEF outbox, inbox
<1>7. \A v \in Workers : Same(v)
  BY <1>4 DEF Same
<1>8. \A v \in Workers : Shown(v) /\ Pooled(v)
  BY <1>4 DEF Shown, Pooled, master
<1> QED
  BY <1>3, <1>5, <1>6, <1>7, <1>8 DEF Quiet, master

(* recvBroadcast, and the connect callback on an error. *)
LEMMA QuietWorkerSteps ==
  ASSUME TypeOK, Linked, NEW w \in Workers,
         (\E key \in Keys : recvBroadcast(w, key)) \/ on_connect_error(w)
  PROVE  TypeOK' /\ Linked' /\ Quiet
<1>1. wk \in [Workers -> WorkerStates] /\ wk[w] \in WorkerStates
  BY StreamTypes
<1>2. ASSUME NEW key \in Keys, recvBroadcast(w, key)
      PROVE  TypeOK' /\ Linked' /\ Quiet
  <2> DEFINE r == [wk[w] EXCEPT !.subs = @ \cup {key}]
  <2>1. /\ r \in WorkerStates /\ r.alive = wk[w].alive /\ r.req_id = wk[w].req_id
        /\ r.callbacks = wk[w].callbacks /\ r.heard = wk[w].heard /\ r.servers = wk[w].servers
        /\ r.queue = wk[w].queue /\ r.accepted_fd = wk[w].accepted_fd /\ r.state = wk[w].state
    BY <1>1 DEF WorkerStates
  <2>2. wk' = [wk EXCEPT ![w] = r] /\ UNCHANGED <<wbuf, up, down, master>>
    BY <1>1, <1>2 DEF recvBroadcast, WorkerStates
  <2> HIDE DEF r
  <2> QED
    BY <2>1, <2>2, QuietWorker
<1>3. ASSUME on_connect_error(w)
      PROVE  TypeOK' /\ Linked' /\ Quiet
  <2> DEFINE r == [wk[w] EXCEPT !.state = "failed"]
  <2>1. /\ r \in WorkerStates /\ r.alive = wk[w].alive /\ r.req_id = wk[w].req_id
        /\ r.callbacks = wk[w].callbacks /\ r.heard = wk[w].heard /\ r.servers = wk[w].servers
        /\ r.queue = wk[w].queue /\ r.accepted_fd = wk[w].accepted_fd /\ r.state = "failed"
    BY <1>1 DEF WorkerStates
  <2>2. /\ wk' = [wk EXCEPT ![w] = r] /\ wk[w].state = "connecting"
        /\ UNCHANGED <<wbuf, up, down, master>>
    BY <1>1, <1>3 DEF on_connect_error, WorkerStates
  <2> HIDE DEF r
  <2> QED
    BY <2>1, <2>2, QuietWorker
<1> QED
  BY <1>2, <1>3

(* A read of a worker moves packets within its stream; the descriptor it   *)
(* shows is that of the last packet.                                       *)
LEMMA WorkerReadStep ==
  ASSUME TypeInv, Linked, NEW w \in Workers, ipc__on_read(w)
  PROVE  TypeOK' /\ Linked' /\ Quiet
<1>1. /\ TypeOK /\ wk \in [Workers -> WorkerStates] /\ wk[w] \in WorkerStates
      /\ wbuf \in [Workers -> Seq(Packets)] /\ down \in [Workers -> Seq(Packets)] /\ down[w] \in Seq(Packets)
      /\ Len(down[w]) \in Nat
  BY StreamTypes, LenProperties DEF TypeInv, TypeOK
<1>2. PICK k \in 1 .. Len(down[w]) :
        /\ \A i \in 1 .. k - 1 : down[w][i].fd = 0
        /\ wbuf' = [wbuf EXCEPT ![w] = SubSeq(down[w], 1, k)]
        /\ down' = [down EXCEPT ![w] = SubSeq(@, k + 1, Len(@))]
        /\ wk' = IF down[w][k].fd = 0 THEN wk ELSE [wk EXCEPT ![w].accepted_fd = down[w][k].fd]
  BY DEF ipc__on_read
<1>3. wbuf[w] = <<>> /\ UNCHANGED <<up, master>>
  BY DEF ipc__on_read
<1> DEFINE a == SubSeq(down[w], 1, k)
           b == SubSeq(down[w], k + 1, Len(down[w]))
<1>4. /\ a \o b = down[w] /\ a \in Seq(Packets) /\ b \in Seq(Packets)
      /\ Len(a) = k /\ \A i \in 1 .. k : a[i] = down[w][i]
  BY <1>1, CatSplit
<1>5. /\ wbuf' \in [Workers -> Seq(Packets)] /\ down' \in [Workers -> Seq(Packets)]
      /\ wbuf'[w] = a /\ down'[w] = b
      /\ \A v \in Workers : v # w => wbuf'[v] = wbuf[v] /\ down'[v] = down[v]
  <2> HIDE DEF a
  <2>1. wbuf' = [wbuf EXCEPT ![w] = a]
    BY <1>2 DEF a
  <2>2. down' = [down EXCEPT ![w] = b]
    BY <1>2
  <2> HIDE DEF b
  <2> QED
    BY <1>1, <1>4, <2>1, <2>2
<1>6. /\ wk' \in [Workers -> WorkerStates] /\ Others(w)
      /\ wk'[w].alive = wk[w].alive /\ wk'[w].req_id = wk[w].req_id
      /\ wk'[w].callbacks = wk[w].callbacks /\ wk'[w].heard = wk[w].heard
      /\ wk'[w].servers = wk[w].servers /\ wk'[w].queue = wk[w].queue
      /\ wk'[w].state = wk[w].state
      /\ down[w][k].fd # 0 => wk'[w].accepted_fd = down[w][k].fd
  <2>1. CASE down[w][k].fd = 0
    BY <1>1, <1>2, <2>1 DEF Others
  <2>2. CASE down[w][k].fd # 0
    <3> DEFINE r == [wk[w] EXCEPT !.accepted_fd = down[w][k].fd]
    <3>1. down[w][k] \in Packets
      BY <1>1, ElementOfSeq
    <3>2. down[w][k].fd \in Nat
      BY <3>1 DEF Packets
    <3>3. /\ r \in WorkerStates /\ r.alive = wk[w].alive /\ r.req_id = wk[w].req_id
          /\ r.callbacks = wk[w].callbacks /\ r.heard = wk[w].heard /\ r.servers = wk[w].servers
          /\ r.queue = wk[w].queue /\ r.accepted_fd = down[w][k].fd /\ r.state = wk[w].state
      <4>1. ASSUME NEW q \in WorkerStates, NEW f \in Int
            PROVE  [q EXCEPT !.accepted_fd = f] \in WorkerStates
        BY DEF WorkerStates
      <4>2. r \in WorkerStates
        <5> HIDE DEF WorkerStates
        <5>1. down[w][k].fd \in Int /\ wk[w] \in WorkerStates
          BY <1>1, <3>2
        <5> QED
          BY <4>1, <5>1
      <4> QED
        BY <1>1, <4>2 DEF WorkerStates
    <3>4. wk' = [wk EXCEPT ![w] = r]
      BY <1>1, <1>2, <2>2 DEF WorkerStates
    <3> HIDE DEF r
    <3> QED
      BY <1>1, <3>3, <3>4 DEF Others
  <2> QED
    BY <2>1, <2>2
<1>7. TypeOK'
  BY <1>1, <1>3, <1>5, <1>6 DEF TypeOK, WorkerStates, master
<1>8. Linked'
  <2>1. \A v \in Workers : wk'[v].queue = wk[v].queue /\ wk'[v].state = wk[v].state
    BY <1>6 DEF Others
  <2> QED
    BY <1>3, <2>1 DEF Linked, master
<1>9. outbox' = outbox
  <2>1. \A v \in Workers : wk'[v].queue = wk[v].queue
    BY <1>6 DEF Others
  <2>2. \A v \in Workers : Unserved(v)' = Unserved(v)
    BY <1>3, <2>1 DEF Unserved, master
  <2> QED
    BY <2>2 DEF outbox
<1>10. inbox' = inbox
  <2>1. Incoming(w)' = a \o b
    BY <1>5 DEF Incoming
  <2>2. Incoming(w) = <<>> \o down[w]
    BY <1>3 DEF Incoming
  <2>3. Incoming(w)' = Incoming(w)
    BY <1>1, <1>4, <2>1, <2>2, ConcatEmptySeq
  <2>4. \A v \in Workers : v # w => Incoming(v)' = Incoming(v)
    BY <1>5 DEF Incoming
  <2> QED
    BY <2>3, <2>4 DEF inbox
<1>11. Carries(wbuf'[w], wk'[w].accepted_fd)
  <2> HIDE DEF a, b
  <2>1. \A i \in 1 .. Len(a) : i = k \/ i \in 1 .. k - 1
    BY <1>4
  <2>2. \A i \in 1 .. Len(a) : a[i].fd # 0 => i = k /\ a[i].fd = wk'[w].accepted_fd
    BY <1>2, <1>4, <1>6, <2>1
  <2> QED
    BY <1>4, <1>5, <2>2 DEF Carries
<1>12. \A v \in Workers :
        /\ wk'[v].alive = wk[v].alive /\ wk'[v].req_id = wk[v].req_id
        /\ wk'[v].callbacks = wk[v].callbacks /\ wk'[v].heard = wk[v].heard
        /\ wk'[v].servers = wk[v].servers /\ wk'[v].state = wk[v].state
  BY <1>6 DEF Others
<1>13. \A v \in Workers : v # w => wbuf'[v] = wbuf[v] /\ wk'[v].accepted_fd = wk[v].accepted_fd
  BY <1>5, <1>6 DEF Others
<1>14. \A v \in Workers : Same(v)
  BY <1>12 DEF Same
<1>15. \A v \in Workers : Shown(v) /\ Pooled(v)
  BY <1>3, <1>11, <1>13 DEF Shown, Pooled, master
<1> QED
  BY <1>3, <1>7, <1>8, <1>9, <1>10, <1>14, <1>15 DEF Quiet, master

(* A read of the master moves packets within the stream of the client. *)
LEMMA MasterReadStep ==
  ASSUME TypeOK, Linked, NEW w \in Workers, client__on_read(w)
  PROVE  TypeOK' /\ Linked' /\ Quiet
<1>1. /\ wk \in [Workers -> WorkerStates] /\ wk[w] \in WorkerStates
      /\ up \in [Workers -> Seq(Packets)] /\ up[w] \in Seq(Packets)
  BY StreamTypes DEF TypeOK
<1>2. PICK k \in 1 .. Len(up[w]) :
        /\ mbuf' = [c |-> w, rest |-> SubSeq(up[w], 1, k)]
        /\ up' = [up EXCEPT ![w] = SubSeq(@, k + 1, Len(@))]
  BY DEF client__on_read
<1>3. /\ mbuf.rest = <<>> /\ w \in open
      /\ UNCHANGED <<wk, wbuf, down, pool, open, by_id, bind_pool, sup>>
  BY DEF client__on_read, Idle
<1> DEFINE a == SubSeq(up[w], 1, k)
           b == SubSeq(up[w], k + 1, Len(up[w]))
<1>4. a \o b = up[w] /\ a \in Seq(Packets) /\ b \in Seq(Packets)
  BY <1>1, CatSplit
<1>5. mbuf' = [c |-> w, rest |-> a] /\ up' = [up EXCEPT ![w] = b]
  BY <1>2
<1> HIDE DEF a, b
<1>6. /\ up' \in [Workers -> Seq(Packets)] /\ up'[w] = b
      /\ \A v \in Workers : v # w => up'[v] = up[v]
      /\ mbuf'.c = w /\ mbuf'.rest = a
      /\ mbuf' \in [c : Workers \cup {NULL}, rest : Seq(Packets)]
  BY <1>1, <1>4, <1>5
<1>7. TypeOK'
  BY <1>3, <1>6 DEF TypeOK
<1>8. Linked'
  <2>1. wk[w].state = "connected"
    BY <1>3 DEF Linked
  <2> QED
    BY <1>3, <1>6, <2>1 DEF Linked
<1>9. outbox' = outbox
  <2>1. wk[w].queue \in Seq(Packets)
    BY <1>1 DEF WorkerStates
  <2>2. Unserved(w)' = (a \o b) \o wk[w].queue
    BY <1>3, <1>6 DEF Unserved
  <2>3. Unserved(w) = (<<>> \o up[w]) \o wk[w].queue
    BY <1>3 DEF Unserved
  <2>4. Unserved(w)' = Unserved(w)
    BY <1>1, <1>4, <2>2, <2>3, ConcatEmptySeq
  <2>5. \A v \in Workers : v # w => Unserved(v)' = Unserved(v)
    BY <1>3, <1>6 DEF Unserved
  <2> QED
    BY <2>4, <2>5 DEF outbox
<1>10. inbox' = inbox
  BY <1>3 DEF inbox, Incoming
<1>11. \A v \in Workers : Same(v) /\ Shown(v) /\ Pooled(v)
  BY <1>3 DEF Same, Shown, Pooled
<1> QED
  BY <1>3, <1>7, <1>8, <1>9, <1>10, <1>11 DEF Quiet

(* The streams do not change when the master accepts, shuts down or closes *)
(* a client.                                                               *)
LEMMA ClientSteps ==
  ASSUME TypeOK, Linked, NEW w \in Workers,
         on_connection(w) \/ client__on_eof(w) \/ client__on_close(w)
  PROVE  TypeOK' /\ Linked' /\ Quiet
<1>1. UNCHANGED <<wk, wbuf, up, down, bind_pool, mbuf, sup>> /\ mbuf.rest = <<>>
  BY DEF on_connection, client__on_eof, client__on_close, Idle
<1>2. outbox' = outbox /\ inbox' = inbox
  BY <1>1 DEF outbox, inbox, Unserved, Incoming
<1>A. \A v \in Workers : Same(v) /\ Shown(v)
  BY <1>1 DEF Same, Shown
<1>3. CASE on_connection(w)
  <2>1. /\ wk[w].state = "connected" /\ pool[w] = "absent" /\ pool' = [pool EXCEPT ![w] = "anon"]
        /\ open' = open \cup {w} /\ by_id' = by_id
    BY <1>3 DEF on_connection
  <2>2. TypeOK'
    BY <1>1, <2>1 DEF TypeOK
  <2>3. pool'[w] = "anon" /\ \A v \in Workers : v # w => pool'[v] = pool[v]
    BY <2>1 DEF TypeOK
  <2>4. Linked'
    BY <1>1, <2>1, <2>3 DEF Linked
  <2> QED
    BY <1>1, <1>2, <1>A, <2>1, <2>2, <2>3, <2>4 DEF Quiet, Pooled
<1>4. CASE client__on_eof(w)
  <2>1. /\ w \in open /\ ~wk[w].alive /\ up[w] = <<>> /\ open' = open \ {w}
        /\ UNCHANGED <<pool, by_id>>
    BY <1>4 DEF client__on_eof
  <2>2. TypeOK'
    BY <1>1, <2>1 DEF TypeOK
  <2>3. Linked'
    BY <1>1, <2>1 DEF Linked
  <2>4. wk[w].queue = <<>>
    BY <2>1 DEF Linked
  <2>5. outbox[w] = (<<>> \o <<>>) \o <<>>
    BY <1>1, <2>1, <2>4 DEF outbox, Unserved
  <2>6. outbox[w] = <<>>
    BY <2>5, EmptySeq, ConcatEmptySeq
  <2> QED
    BY <1>1, <1>2, <1>A, <2>1, <2>2, <2>3, <2>6 DEF Quiet, Pooled
<1>5. CASE client__on_close(w)
  <2>1. /\ pool[w] # "absent" /\ w \notin open /\ open' = open /\ pool' = [pool EXCEPT ![w] = "absent"]
        /\ by_id' \in {by_id, by_id \ {w}}
    BY <1>5 DEF client__on_close
  <2>2. TypeOK'
    BY <1>1, <2>1 DEF TypeOK
  <2>3. pool'[w] = "absent" /\ \A v \in Workers : v # w => pool'[v] = pool[v]
    BY <2>1 DEF TypeOK
  <2>4. Linked'
    BY <1>1, <2>1, <2>3 DEF Linked
  <2> QED
    BY <1>1, <1>2, <1>A, <2>1, <2>2, <2>3, <2>4 DEF Quiet, Pooled
<1> QED
  BY <1>3, <1>4, <1>5

(* worker__on_exit counts the workers that are left. *)
LEMMA ReapStep ==
  ASSUME TypeOK, Linked, Counted, NEW w \in Workers, worker__on_exit(w)
  PROVE  TypeOK' /\ Linked' /\ Quiet /\ Counted'
<1>1. /\ UNCHANGED <<wk, wbuf, up, down, pool, open, by_id, bind_pool, mbuf>>
      /\ ~wk[w].alive /\ w \notin sup.reaped
      /\ sup' = [sup EXCEPT !.reaped = @ \cup {w}, !.count = sup.count - 1,
                            !.code = exit_code(sup.how[w]), !.exited = (sup.count - 1 = 0)]
  BY DEF worker__on_exit
<1>2. /\ sup \in [how : [Workers -> Exits \cup {"running"}], reaped : SUBSET Workers,
                  count : Nat, code : Nat, exited : BOOLEAN]
  BY DEF TypeOK
<1>3. /\ sup'.how = sup.how /\ sup'.reaped = sup.reaped \cup {w} /\ sup'.count = sup.count - 1
      /\ sup'.code = exit_code(sup.how[w]) /\ sup'.exited = (sup.count - 1 = 0)
  BY <1>1, <1>2
<1>4. /\ IsFiniteSet(Workers \ sup.reaped) /\ Cardinality(Workers \ sup.reaped) \in Nat
      /\ Workers \ (sup.reaped \cup {w}) = (Workers \ sup.reaped) \ {w}
      /\ w \in Workers \ sup.reaped
  <2>1. IsFiniteSet(Workers \ sup.reaped)
    BY IpcAssumption, FS_Subset
  <2> QED
    BY <1>1, <2>1, FS_CardinalityType
<1>5. /\ IsFiniteSet(Workers \ (sup.reaped \cup {w})) /\ Cardinality(Workers \ (sup.reaped \cup {w})) \in Nat
      /\ Cardinality(Workers \ (sup.reaped \cup {w})) = Cardinality(Workers \ sup.reaped) - 1
  BY <1>4, FS_RemoveElement, FS_CardinalityType
<1>6. sup.count - 1 = Cardinality(Workers \ (sup.reaped \cup {w})) /\ sup.count - 1 \in Nat
  BY <1>5 DEF Counted
<1>7. /\ exit_code(sup.how[w]) \in Nat
      /\ exit_code(sup.how[w]) # 0 <=> sup.how[w] \in Failures \/ sup.code # 0
  <2>1. sup.how[w] \in Exits \/ sup.how[w] = "running"
    BY <1>2
  <2>2. sup.how[w] \in {"failed", "segfault", "done", "killed", "running"}
    BY <2>1, IpcAssumption DEF Failures
  <2>3. CASE sup.how[w] = "segfault"
    BY <2>3 DEF exit_code, SIGSEGV, Failures
  <2>4. CASE sup.how[w] = "failed"
    BY <2>4 DEF exit_code, exit_status, Failures
  <2>5. CASE sup.how[w] \in {"done", "killed", "running"}
    <3>1. exit_code(sup.how[w]) = sup.code /\ sup.how[w] \notin Failures
      BY <2>5 DEF exit_code, exit_status, Failures
    <3> QED
      BY <1>2, <3>1
  <2> QED
    BY <2>2, <2>3, <2>4, <2>5
<1>8. sup' \in [how : [Workers -> Exits \cup {"running"}], reaped : SUBSET Workers,
                count : Nat, code : Nat, exited : BOOLEAN]
  <2>1. (sup.count - 1 = 0) \in BOOLEAN
    OBVIOUS
  <2>2. sup.reaped \cup {w} \in SUBSET Workers
    BY <1>2
  <2> QED
    BY <1>1, <1>2, <1>6, <1>7, <2>1, <2>2
<1>9. TypeOK' /\ Linked'
  BY <1>1, <1>8 DEF TypeOK, Linked
<1>10. outbox' = outbox /\ inbox' = inbox
  BY <1>1 DEF outbox, inbox, Unserved, Incoming
<1>11. \A v \in Workers : Same(v) /\ Shown(v) /\ Pooled(v)
  BY <1>1 DEF Same, Shown, Pooled
<1>12. Quiet
  BY <1>1, <1>10, <1>11 DEF Quiet
<1>13. Counted'
  <2>1. sup'.count = Cardinality(Workers \ sup'.reaped)
    BY <1>3, <1>6
  <2>2. /\ \A v \in Workers : sup'.how[v] = "running" <=> wk'[v].alive
        /\ \A v \in sup'.reaped : ~wk'[v].alive
    BY <1>1, <1>3 DEF Counted
  <2>3. sup'.code # 0 <=> \E v \in sup'.reaped : sup'.how[v] \in Failures
    BY <1>3, <1>7 DEF Counted
  <2>4. sup'.exited => sup'.reaped = Workers
    <3>1. SUFFICES ASSUME sup'.exited PROVE sup'.reaped = Workers
      OBVIOUS
    <3>2. Cardinality(Workers \ (sup.reaped \cup {w})) = 0
      BY <1>3, <1>6, <3>1
    <3>3. Workers \ (sup.reaped \cup {w}) = {}
      BY <1>5, <3>2, FS_EmptySet
    <3> QED
      BY <1>2, <1>3, <3>3
  <2> QED
    BY <2>1, <2>2, <2>3, <2>4 DEF Counted
<1> QED
  BY <1>9, <1>12, <1>13

(* A packet is sent, served or taken, a worker connects or dies, or there  *)
(* is no traffic at all.                                                   *)
Traffic(w) ==
  \/ \E p \in Packets :
       \/ p.cmd = "broadcast" /\ Sends(w, p, wk[w].callbacks)
       \/ p.cmd = "bind" /\ Sends(w, p, [wk[w].callbacks EXCEPT ![p.id] = p.arg])
  \/ Connects(w)
  \/ Dies(w)
  \/ \E p \in Packets : Takes(w, p)
  \/ \E p \in Packets : Serves(w, p)

(* Every step of the specification is one of these. *)
LEMMA StepKinds ==
  ASSUME TypeInv, Linked, Counted, [Next]_vars
  PROVE  TypeOK' /\ Linked' /\ (Quiet \/ \E w \in Workers : Traffic(w))
<1>0. TypeOK /\ \A w \in Workers : outbox[w] \in Seq(Packets) /\ inbox[w] \in Seq(Packets)
  BY StreamTypes DEF TypeInv
<1>1. ASSUME NEW w \in Workers, WorkerNext(w)
      PROVE  TypeOK' /\ Linked' /\ (Quiet \/ Traffic(w))
  <2>1. CASE (\E key \in Keys : sendBroadcast(w, key)) \/ (\E addr \in Addrs : createServer(w, addr))
    BY <1>0, <2>1, SendSteps DEF Traffic
  <2>2. CASE (\E key \in Keys : recvBroadcast(w, key)) \/ on_connect_error(w)
    BY <1>0, <2>2, QuietWorkerSteps
  <2>3. CASE on_connect(w)
    BY <1>0, <2>3, ConnectStep DEF Traffic
  <2>4. CASE ipc__on_read(w)
    BY <2>4, WorkerReadStep
  <2>5. CASE ipc__process_packet(w)
    <3>1. TypeOK' /\ Linked' /\ Takes(w, Head(inbox[w]))
      BY <2>5, TakeStep
    <3>2. Head(inbox[w]) \in Packets
      BY <1>0, <3>1, HeadTailProperties DEF Takes
    <3> QED
      BY <3>1, <3>2 DEF Traffic
  <2>6. CASE \E how \in Exits : worker_exit(w, how)
    BY <1>0, <2>6, DieStep DEF Traffic
  <2> QED
    BY <1>1, <2>1, <2>2, <2>3, <2>4, <2>5, <2>6 DEF WorkerNext
<1>2. ASSUME client__process_packet
      PROVE  TypeOK' /\ Linked' /\ \E w \in Workers : Traffic(w)
  <2>1. /\ TypeOK' /\ Linked' /\ mbuf.c \in Workers
        /\ Serves(mbuf.c, Head(outbox[mbuf.c]))
    BY <1>2, ServeStep
  <2>2. PICK c \in Workers : c = mbuf.c
    BY <2>1
  <2>3. Head(outbox[c]) \in Packets /\ Serves(c, Head(outbox[c]))
    BY <1>0, <2>1, <2>2, HeadTailProperties DEF Serves
  <2>4. Traffic(c)
    BY <2>3 DEF Traffic
  <2> QED
    BY <2>1, <2>4
<1>3. ASSUME NEW w \in Workers, ClientEvent(w) \/ worker__on_exit(w)
      PROVE  TypeOK' /\ Linked' /\ Quiet
  <2>1. CASE on_connection(w) \/ client__on_eof(w) \/ client__on_close(w)
    BY <1>0, <2>1, ClientSteps
  <2>2. CASE client__on_read(w)
    BY <1>0, <2>2, MasterReadStep
  <2>3. CASE worker__on_exit(w)
    BY <1>0, <2>3, ReapStep
  <2> QED
    BY <1>3, <2>1, <2>2, <2>3 DEF ClientEvent
<1>4. CASE UNCHANGED vars
  <2>1. TypeOK' /\ Linked'
    BY <1>0, <1>4 DEF vars, TypeOK, Linked
  <2>2. outbox' = outbox /\ inbox' = inbox
    BY <1>4 DEF vars, outbox, inbox, Unserved, Incoming
  <2>3. \A v \in Workers : Same(v) /\ Shown(v) /\ Pooled(v)
    BY <1>4 DEF vars, Same, Shown, Pooled
  <2> QED
    BY <1>4, <2>1, <2>2, <2>3 DEF Quiet, vars
<1> QED
  BY <1>1, <1>2, <1>3, <1>4 DEF Next, MasterNext

-----------------------------------------------------------------------------
(* Types, and the supervision. *)

(* The first packet of a stream, and the ones behind it. *)
LEMMA TailAt ==
  ASSUME NEW s \in Seq(Packets), s # <<>>
  PROVE  /\ Len(s) \in Nat /\ Len(s) >= 1 /\ Tail(s) \in Seq(Packets) /\ Len(Tail(s)) = Len(s) - 1
         /\ Head(s) = s[1] /\ 1 \in 1 .. Len(s)
         /\ \A i \in 1 .. Len(Tail(s)) : i + 1 \in 1 .. Len(s) /\ Tail(s)[i] = s[i + 1]
<1>1. Len(s) \in Nat /\ Len(s) >= 1
  BY EmptySeq, LenProperties
<1>2. Tail(s) \in Seq(Packets) /\ Len(Tail(s)) = Len(s) - 1 /\ \A i \in 1 .. Len(s) - 1 : Tail(s)[i] = s[i + 1]
  BY HeadTailProperties
<1> QED
  BY <1>1, <1>2

(* The packets of a stream that one is added to. *)
LEMMA AppendAt ==
  ASSUME NEW s \in Seq(Packets), NEW p \in Packets
  PROVE  /\ Len(s) \in Nat /\ Append(s, p) \in Seq(Packets) /\ Len(Append(s, p)) = Len(s) + 1
         /\ Append(s, p)[Len(s) + 1] = p
         /\ \A i \in 1 .. Len(s) : i \in 1 .. Len(Append(s, p)) /\ Append(s, p)[i] = s[i]
         /\ \A i \in 1 .. Len(Append(s, p)) : i = Len(s) + 1 \/ i \in 1 .. Len(s)
<1>1. Len(s) \in Nat
  BY LenProperties
<1>2. Append(s, p) \in Seq(Packets) /\ Len(Append(s, p)) = Len(s) + 1 /\ Append(s, p)[Len(s) + 1] = p
      /\ \A i \in 1 .. Len(s) : Append(s, p)[i] = s[i]
  BY AppendProperties
<1> QED
  BY <1>1, <1>2

(* The packets of a stream that a hello is put before. *)
LEMMA PrependAt ==
  ASSUME NEW s \in Seq(Packets), NEW p \in Packets
  PROVE  /\ Len(s) \in Nat /\ <<p>> \o s \in Seq(Packets) /\ Len(<<p>> \o s) = Len(s) + 1
         /\ (<<p>> \o s)[1] = p
         /\ \A i \in 2 .. Len(s) + 1 : i - 1 \in 1 .. Len(s) /\ (<<p>> \o s)[i] = s[i - 1]
<1>1. Len(s) \in Nat /\ <<p>> \in Seq(Packets) /\ Len(<<p>>) = 1 /\ <<p>>[1] = p
  BY LenProperties
<1>2. /\ <<p>> \o s \in Seq(Packets) /\ Len(<<p>> \o s) = 1 + Len(s)
      /\ \A i \in 1 .. 1 + Len(s) : (<<p>> \o s)[i] = IF i <= 1 THEN <<p>>[i] ELSE s[i - 1]
  BY <1>1, ConcatProperties
<1> QED
  BY <1>1, <1>2

(* The packets of the streams are what workers and the master send. *)
LEMMA TypeInvStep ==
  ASSUME TypeInv, Linked, Counted, [Next]_vars
  PROVE  TypeInv'
<1>0. /\ TypeOK /\ TypeOK'
      /\ outbox \in [Workers -> Seq(Packets)] /\ inbox \in [Workers -> Seq(Packets)]
      /\ Quiet \/ \E w \in Workers : Traffic(w)
  BY StepKinds, StreamTypes DEF TypeInv
<1>1. /\ \A v \in Workers : \A i \in 1 .. Len(outbox[v]) : Asked(v, outbox[v][i])
      /\ \A v \in Workers : \A i \in 1 .. Len(inbox[v]) : Told(v, inbox[v][i])
  BY DEF TypeInv
<1>2. mbuf'.rest # <<>> => mbuf'.c \in open'
  <2>1. CASE client__process_packet
    <3>1. mbuf'.c = mbuf.c /\ mbuf.rest # <<>> /\ open' = open
      BY <1>0, <2>1 DEF client__process_packet, TypeOK
    <3> QED
      BY <3>1 DEF TypeInv
  <2>2. ASSUME NEW w \in Workers, client__on_read(w)
        PROVE  mbuf'.c \in open'
    BY <2>2 DEF client__on_read
  <2>3. ASSUME NEW w \in Workers, WorkerNext(w) \/ worker__on_exit(w)
        PROVE  UNCHANGED <<mbuf, open>>
    BY <2>3 DEF WorkerNext, worker__on_exit,
                sendBroadcast, recvBroadcast, createServer, on_connect, on_connect_error,
                ipc__on_read, ipc__process_packet, worker_exit, master
  <2>4. ASSUME NEW w \in Workers, on_connection(w) \/ client__on_eof(w) \/ client__on_close(w)
        PROVE  mbuf'.rest = <<>>
    BY <2>4 DEF on_connection, client__on_eof, client__on_close, Idle
  <2>5. CASE UNCHANGED vars
    BY <2>5 DEF vars, TypeInv
  <2>6. CASE UNCHANGED <<mbuf, open>>
    BY <2>6 DEF TypeInv
  <2> QED
    BY <2>1, <2>2, <2>3, <2>4, <2>5, <2>6 DEF Next, MasterNext, ClientEvent
<1>3. /\ \A v \in Workers : \A i \in 1 .. Len(outbox'[v]) : Asked(v, outbox'[v][i])
      /\ \A v \in Workers : \A i \in 1 .. Len(inbox'[v]) : Told(v, inbox'[v][i])
  <2>1. CASE Quiet
    BY <1>1, <2>1 DEF Quiet
  <2>2. ASSUME NEW w \in Workers, NEW p \in Packets, Asked(w, p), UNCHANGED inbox,
               outbox' = [outbox EXCEPT ![w] = Append(@, p)]
        PROVE  <1>3!1 /\ <1>3!2
    <3>1. outbox'[w] = Append(outbox[w], p) /\ \A v \in Workers : v # w => outbox'[v] = outbox[v]
      BY <1>0, <2>2
    <3>2. \A i \in 1 .. Len(outbox'[w]) : Asked(w, outbox'[w][i])
      BY <1>0, <1>1, <2>2, <3>1, AppendAt
    <3> QED
      BY <1>1, <2>2, <3>1, <3>2
  <2>3. ASSUME NEW w \in Workers, Connects(w)
        PROVE  <1>3!1 /\ <1>3!2
    <3> DEFINE p == Packet("hello", w, 0, NULL, 0)
    <3>1. p \in Packets /\ Asked(w, p)
      BY DEF Packet, Packets, Asked
    <3>2. outbox' = [outbox EXCEPT ![w] = <<p>> \o @] /\ inbox' = inbox
      BY <2>3 DEF Connects
    <3> HIDE DEF p
    <3>3. outbox'[w] = <<p>> \o outbox[w] /\ \A v \in Workers : v # w => outbox'[v] = outbox[v]
      BY <1>0, <3>2
    <3>4. outbox[w] \in Seq(Packets)
      BY <1>0
    <3>5. \A i \in 1 .. Len(outbox'[w]) : i = 1 \/ i \in 2 .. Len(outbox[w]) + 1
      BY <3>1, <3>3, <3>4, PrependAt
    <3>6. \A i \in 1 .. Len(outbox'[w]) : Asked(w, outbox'[w][i])
      <4>1. /\ outbox'[w][1] = p
            /\ \A i \in 2 .. Len(outbox[w]) + 1 : i - 1 \in 1 .. Len(outbox[w]) /\ outbox'[w][i] = outbox[w][i - 1]
        BY <3>1, <3>3, <3>4, PrependAt
      <4>2. \A i \in 2 .. Len(outbox[w]) + 1 : Asked(w, outbox'[w][i])
        BY <1>1, <4>1
      <4> QED
        BY <3>1, <3>5, <4>1, <4>2
    <3> QED
      BY <1>1, <3>2, <3>3, <3>6
  <2>4. ASSUME NEW w \in Workers, Dies(w)
        PROVE  <1>3!1 /\ <1>3!2
    <3>1. outbox' = outbox /\ inbox'[w] = <<>> /\ \A v \in Workers : v # w => inbox'[v] = inbox[v]
      BY <1>0, <2>4 DEF Dies
    <3>2. \A i : i \notin 1 .. Len(inbox'[w])
      BY <3>1, EmptySeq
    <3> QED
      BY <1>1, <3>1, <3>2
  <2>5. ASSUME NEW w \in Workers, NEW p \in Packets, Takes(w, p)
        PROVE  <1>3!1 /\ <1>3!2
    <3>1. /\ outbox' = outbox /\ inbox[w] # <<>> /\ inbox'[w] = Tail(inbox[w])
          /\ \A v \in Workers : v # w => inbox'[v] = inbox[v]
      BY <1>0, <2>5 DEF Takes
    <3>2. \A i \in 1 .. Len(inbox'[w]) : Told(w, inbox'[w][i])
      BY <1>0, <1>1, <3>1, TailAt
    <3> QED
      BY <1>1, <3>1, <3>2
  <2>6. ASSUME NEW c \in Workers, NEW p \in Packets, Serves(c, p)
        PROVE  <1>3!1 /\ <1>3!2
    <3>1. /\ outbox[c] # <<>> /\ outbox'[c] = Tail(outbox[c]) /\ p = Head(outbox[c])
          /\ \A v \in Workers : v # c => outbox'[v] = outbox[v]
      BY <1>0, <2>6 DEF Serves
    <3>2. /\ \A i \in 1 .. Len(outbox'[c]) : Asked(c, outbox'[c][i])
          /\ Asked(c, p)
      BY <1>0, <1>1, <3>1, TailAt
    <3>3. ASSUME NEW v \in Workers, NEW r \in Packets, Told(v, r), inbox'[v] = Append(inbox[v], r)
          PROVE  \A i \in 1 .. Len(inbox'[v]) : Told(v, inbox'[v][i])
      BY <1>0, <1>1, <3>3, AppendAt
    <3>4. \A v \in Workers : \A i \in 1 .. Len(inbox'[v]) : Told(v, inbox'[v][i])
      <4>1. CASE inbox' = inbox
        BY <1>1, <4>1
      <4>2. CASE Replies(c, p) /\ wk[c].alive
        <5> DEFINE fd == IF bind_pool[p.arg] = 0 THEN NextFd ELSE bind_pool[p.arg]
                   r == Packet("reply", c, p.id, NULL, fd)
        <5>1. p.cmd = "bind" /\ p.arg \in TcpAddrs /\ inbox' = [inbox EXCEPT ![c] = Append(@, r)]
          BY <4>2 DEF Replies
        <5>2. bind_pool[p.arg] \in Nat
          BY <1>0, <5>1, IpcAssumption DEF TypeOK
        <5>3. fd \in Nat /\ fd > 0
          BY <5>2, NextFdType
        <5> HIDE DEF fd
        <5>4. p.id \in 1 .. MaxReq
          BY <3>2, <5>1 DEF Asked
        <5>5. r \in Packets /\ Told(c, r)
          BY <5>3, <5>4, IpcAssumption DEF Packet, Packets, Told
        <5> HIDE DEF r
        <5>6. inbox'[c] = Append(inbox[c], r) /\ \A v \in Workers : v # c => inbox'[v] = inbox[v]
          BY <1>0, <5>1
        <5> QED
          BY <1>1, <3>3, <5>5, <5>6
      <4>3. CASE Relays(c, p)
        <5>1. \A v \in Workers : inbox'[v] = inbox[v] \/ (v # c /\ inbox'[v] = Append(inbox[v], p))
          BY <4>3 DEF Relays
        <5>2. \A v \in Workers : v # c => Told(v, p)
          BY <3>2, <4>3 DEF Relays, Asked, Told
        <5> QED
          BY <1>1, <3>3, <5>1, <5>2
      <4>4. CASE Replies(c, p) /\ ~wk[c].alive
        BY <4>1, <4>4 DEF Replies
      <4> QED
        BY <2>6, <4>1, <4>2, <4>3, <4>4 DEF Serves
    <3> QED
      BY <1>1, <3>1, <3>2, <3>4
  <2> QED
    <3>1. ASSUME NEW w \in Workers, NEW p \in Packets, NEW cbs, Sends(w, p, cbs)
          PROVE  <1>3!1 /\ <1>3!2
      <4>1. Asked(w, p) /\ UNCHANGED inbox /\ outbox' = [outbox EXCEPT ![w] = Append(@, p)]
        BY <3>1 DEF Sends
      <4> QED
        BY <2>2, <4>1
    <3>2. ASSUME NEW w \in Workers, Traffic(w)
          PROVE  <1>3!1 /\ <1>3!2
      <4>1. \/ \E p \in Packets : \E cbs : Sends(w, p, cbs)
            \/ Connects(w)
            \/ Dies(w)
            \/ \E p \in Packets : Takes(w, p)
            \/ \E p \in Packets : Serves(w, p)
        BY <3>2 DEF Traffic
      <4> QED
        BY <2>3, <2>4, <2>5, <2>6, <3>1, <4>1
    <3>3. Quiet \/ \E w \in Workers : Traffic(w)
      BY <1>0
    <3> QED
      BY <2>1, <3>2, <3>3
<1> QED
  BY <1>0, <1>2, <1>3 DEF TypeInv

(* What taking a packet changes of a worker. *)
Kept(w) ==
  /\ wk'[w].req_id = wk[w].req_id /\ wk'[w].state = wk[w].state
  /\ wk'[w].alive = wk[w].alive /\ wk'[w].accepted_fd = wk[w].accepted_fd

Handled(w, p) ==
  \/ /\ p.cmd = "broadcast" /\ wk'[w].heard = Append(wk[w].heard, p)
     /\ wk'[w].callbacks = wk[w].callbacks /\ wk'[w].servers = wk[w].servers
  \/ /\ p.cmd = "reply" /\ wk[w].callbacks[p.id] # NULL /\ wk'[w].heard = wk[w].heard
     /\ wk'[w].callbacks = [wk[w].callbacks EXCEPT ![p.id] = NULL]
     /\ wk'[w].servers = wk[w].servers \cup {<<wk[w].callbacks[p.id], wk[w].accepted_fd>>}
  \/ /\ p.cmd = "broadcast" \/ (p.cmd = "reply" /\ wk[w].callbacks[p.id] = NULL)
     /\ wk'[w].heard = wk[w].heard
     /\ wk'[w].callbacks = wk[w].callbacks /\ wk'[w].servers = wk[w].servers

(* on_broadcast and on_reply change what the worker has heard, its         *)
(* callbacks and its servers, and nothing else.                            *)
LEMMA TakeFields ==
  ASSUME wk \in [Workers -> WorkerStates], NEW w \in Workers, NEW p \in Packets, Takes(w, p)
  PROVE  Others(w) /\ Kept(w) /\ Handled(w, p)
<1>1. wk[w] \in WorkerStates
  OBVIOUS
<1>2. CASE on_broadcast(w, p)
  <2> DEFINE r == [wk[w] EXCEPT !.heard = Append(@, p)]
  <2>1. wk' = [wk EXCEPT ![w] = r]
    BY <1>2 DEF on_broadcast, WorkerStates
  <2>2. wk'[w] = r /\ Others(w)
    BY <2>1 DEF Others
  <2>3. /\ Kept(w) /\ wk'[w].heard = Append(wk[w].heard, p)
        /\ wk'[w].callbacks = wk[w].callbacks /\ wk'[w].servers = wk[w].servers
    BY <1>1, <2>2 DEF Kept, WorkerStates
  <2> QED
    BY <1>2, <2>2, <2>3 DEF Handled, on_broadcast
<1>3. CASE on_reply(w, p)
  <2> DEFINE k == wk[w].servers \cup {<<wk[w].callbacks[p.id], wk[w].accepted_fd>>}
             q == [wk[w].callbacks EXCEPT ![p.id] = NULL]
             r == [wk[w] EXCEPT !.servers = k, !.callbacks = q]
  <2>1. wk' = [wk EXCEPT ![w] = r]
    BY <1>3 DEF on_reply, WorkerStates
  <2>2. wk'[w] = r /\ Others(w)
    BY <2>1 DEF Others
  <2>3. /\ Kept(w) /\ wk'[w].heard = wk[w].heard /\ wk'[w].callbacks = q /\ wk'[w].servers = k
    BY <1>1, <2>2 DEF Kept, WorkerStates
  <2> QED
    BY <1>3, <2>2, <2>3 DEF Handled, on_reply
<1>4. CASE no_callback(w, p)
  BY <1>4 DEF no_callback, Others, Kept, Handled
<1> QED
  BY <1>2, <1>3, <1>4 DEF Takes

(* The connect callback, and death, leave what a worker has sent, heard    *)
(* and been given.                                                         *)
LEMMA LinkFields ==
  ASSUME wk \in [Workers -> WorkerStates], NEW w \in Workers, Connects(w) \/ Dies(w)
  PROVE  /\ Others(w)
         /\ wk'[w].req_id = wk[w].req_id /\ wk'[w].callbacks = wk[w].callbacks
         /\ wk'[w].heard = wk[w].heard /\ wk'[w].servers = wk[w].servers
         /\ wk'[w].accepted_fd = wk[w].accepted_fd
         /\ Connects(w) => wk'[w].state = "connected" /\ wk'[w].alive = wk[w].alive
         /\ Dies(w) => wk'[w].state = wk[w].state /\ ~wk'[w].alive
<1>1. wk[w] \in WorkerStates
  OBVIOUS
<1>2. ASSUME Connects(w)
      PROVE  Others(w) /\ wk'[w] = [wk[w] EXCEPT !.queue = <<>>, !.state = "connected"]
  <2>1. wk' = [wk EXCEPT ![w] = [wk[w] EXCEPT !.queue = <<>>, !.state = "connected"]]
    BY <1>2 DEF Connects, WorkerStates
  <2> QED
    BY <2>1 DEF Others
<1>3. ASSUME Dies(w)
      PROVE  Others(w) /\ wk'[w] = [wk[w] EXCEPT !.alive = FALSE]
  <2>1. wk' = [wk EXCEPT ![w] = [wk[w] EXCEPT !.alive = FALSE]]
    BY <1>3 DEF Dies, WorkerStates
  <2> QED
    BY <2>1 DEF Others
<1> QED
  BY <1>1, <1>2, <1>3 DEF WorkerStates

(* A worker's end is noted when it dies and counted when it is reaped. *)
LEMMA CountedStep ==
  ASSUME TypeInv, Linked, Counted, [Next]_vars
  PROVE  Counted'
<1>0. TypeOK /\ wk \in [Workers -> WorkerStates] /\ (Quiet \/ \E w \in Workers : Traffic(w))
  BY StepKinds, StreamTypes DEF TypeInv
<1>1. ASSUME UNCHANGED sup, \A v \in Workers : wk'[v].alive = wk[v].alive
      PROVE  Counted'
  <2>1. \A v \in sup.reaped : v \in Workers
    BY <1>0 DEF TypeOK
  <2>2. /\ \A v \in Workers : sup'.how[v] = "running" <=> wk'[v].alive
        /\ \A v \in sup'.reaped : ~wk'[v].alive
    BY <1>1, <2>1 DEF Counted
  <2> QED
    BY <1>1, <2>2 DEF Counted
<1>2. CASE \E w \in Workers : worker__on_exit(w)
  BY <1>0, <1>2, ReapStep
<1>3. CASE Quiet
  <2>1. \A v \in Workers : wk'[v].alive = wk[v].alive
    BY <1>3 DEF Quiet, Same
  <2> QED
    BY <1>1, <1>2, <1>3, <2>1 DEF Quiet
<1>4. ASSUME NEW w \in Workers, Traffic(w), ~Dies(w)
      PROVE  UNCHANGED sup /\ \A v \in Workers : wk'[v].alive = wk[v].alive
  <2>1. ASSUME NEW p \in Packets, NEW cbs, Sends(w, p, cbs)
        PROVE  UNCHANGED sup /\ \A v \in Workers : wk'[v].alive = wk[v].alive
    BY <2>1 DEF Sends, Others, master
  <2>2. CASE Connects(w)
    BY <1>0, <2>2, LinkFields DEF Connects, Others, master
  <2>3. ASSUME NEW p \in Packets, Takes(w, p)
        PROVE  UNCHANGED sup /\ \A v \in Workers : wk'[v].alive = wk[v].alive
    BY <1>0, <2>3, TakeFields DEF Takes, Others, Kept, master
  <2>4. ASSUME NEW p \in Packets, Serves(w, p)
        PROVE  UNCHANGED sup /\ \A v \in Workers : wk'[v].alive = wk[v].alive
    BY <2>4 DEF Serves
  <2> QED
    BY <1>4, <2>1, <2>2, <2>3, <2>4 DEF Traffic
<1>5. ASSUME NEW w \in Workers, Dies(w)
      PROVE  Counted'
  <2>1. PICK how \in Exits : sup' = [sup EXCEPT !.how[w] = how]
    BY <1>5 DEF Dies
  <2>2. wk[w].alive
    BY <1>5 DEF Dies
  <2>3. ~wk'[w].alive /\ \A v \in Workers : v # w => wk'[v].alive = wk[v].alive
    BY <1>0, <1>5, LinkFields DEF Others
  <2>4. /\ sup'.how[w] = how /\ \A v \in Workers : v # w => sup'.how[v] = sup.how[v]
        /\ sup'.reaped = sup.reaped /\ sup'.count = sup.count /\ sup'.code = sup.code
        /\ sup'.exited = sup.exited
    BY <1>0, <2>1 DEF TypeOK
  <2>5. how # "running"
    BY IpcAssumption DEF Failures
  <2>6. w \notin sup.reaped /\ \A v \in sup.reaped : v \in Workers
    BY <1>0, <2>2 DEF Counted, TypeOK
  <2>7. /\ \A v \in Workers : sup'.how[v] = "running" <=> wk'[v].alive
        /\ \A v \in sup'.reaped : ~wk'[v].alive
    BY <2>3, <2>4, <2>5, <2>6 DEF Counted
  <2>8. sup'.code # 0 <=> \E v \in sup'.reaped : sup'.how[v] \in Failures
    BY <2>4, <2>6 DEF Counted
  <2> QED
    BY <2>4, <2>7, <2>8 DEF Counted
<1> QED
  BY <1>0, <1>1, <1>3, <1>4, <1>5

(* Nothing is on its way at the start. *)
LEMMA StartsEmpty ==
  ASSUME Init
  PROVE  /\ TypeOK /\ \A w \in Workers : outbox[w] = <<>> /\ inbox[w] = <<>>
<1>1. <<>> \in Seq(Packets) /\ <<>> \o <<>> = <<>>
  BY EmptySeq, ConcatEmptySeq
<1>2. IsFiniteSet(Workers) /\ Cardinality(Workers) \in Nat
  BY IpcAssumption, FS_CardinalityType
<1>3. sup \in [how : [Workers -> Exits \cup {"running"}], reaped : SUBSET Workers,
               count : Nat, code : Nat, exited : BOOLEAN]
  BY <1>2 DEF Init, Spawned
<1>4. wk \in [Workers ->
       [alive : BOOLEAN, state : {"idle", "connecting", "failed", "connected"},
        queue : Seq(Packets), req_id : 1 .. MaxReq + 1,
        callbacks : [1 .. MaxReq -> Addrs \cup {NULL}], subs : SUBSET Keys,
        accepted_fd : Int, heard : Seq(Packets), servers : SUBSET (Addrs \X Int)]]
  <2>1. 1 \in 1 .. MaxReq + 1
    BY IpcAssumption
  <2> QED
    BY <1>1, <2>1 DEF Init
<1>5. TypeOK
  BY <1>1, <1>3, <1>4 DEF Init, TypeOK
<1>6. \A w \in Workers : Unserved(w) = <<>> /\ Incoming(w) = <<>>
  BY <1>1 DEF Init, Unserved, Incoming
<1> QED
  BY <1>5, <1>6 DEF outbox, inbox

(* The processes are spawned before anything is sent. *)
LEMMA BaseInit ==
  Init => Base
<1>1. SUFFICES ASSUME Init PROVE Base
  OBVIOUS
<1>2. TypeOK /\ \A w \in Workers : outbox[w] = <<>> /\ inbox[w] = <<>>
  BY <1>1, StartsEmpty
<1>3. \A i : i \notin 1 .. Len(<<>>)
  BY EmptySeq
<1>4. TypeInv
  BY <1>1, <1>2, <1>3 DEF TypeInv, Init
<1>5. Linked
  BY <1>1 DEF Linked, Init
<1>6. Counted
  <2>1. Workers \ {} = Workers
    OBVIOUS
  <2> QED
    BY <1>1, <2>1 DEF Counted, Init, Spawned
<1> QED
  BY <1>4, <1>5, <1>6 DEF Base

(* The invariant that every other argument starts from. *)
LEMMA BaseInvariant ==
  Spec => []Base
<1>1. Init => Base
  BY BaseInit
<1>2. Base /\ [Next]_vars => Base'
  BY StepKinds, TypeInvStep, CountedStep DEF Base
<1> QED
  BY <1>1, <1>2, PTL DEF Spec

(* The state of the master and of its workers keeps its type, in any       *)
(* number of workers, addresses, keys and messages: in particular a reply  *)
(* names a request, so that ipc__process_packet finds its slot, and        *)
(* uv_workers_count never falls below 0.                                   *)
THEOREM IpcTypeCorrect == Spec => []TypeOK
<1>1. Base => TypeOK
  BY DEF Base, TypeInv
<1> QED
  BY <1>1, BaseInvariant, PTL

(* The master exits only when all its workers have, and its exit code      *)
(* tells of a failed one, in whichever order they were reaped.             *)
THEOREM IpcFailuresAreReported == Spec => []FailuresAreReported
<1>1. Base => FailuresAreReported
  BY DEF Base, Counted, FailuresAreReported
<1> QED
  BY <1>1, BaseInvariant, PTL

-----------------------------------------------------------------------------
(* The hello. *)

(* A hello is the first packet or none.  In the stream of a connected      *)
(* worker it is there until the master knows the worker, and a client that *)
(* was shut down has left nothing behind.                                  *)
Greeting(w) ==
  /\ \A i \in 2 .. Len(outbox[w]) : outbox[w][i].cmd # "hello"
  /\ wk[w].state = "connected" =>
       (outbox[w] # <<>> => (outbox[w][1].cmd = "hello" <=> pool[w] # "known"))
  /\ wk[w].state # "connected" => (outbox[w] # <<>> => outbox[w][1].cmd # "hello")
  /\ wk[w].state = "connected" /\ wk[w].alive /\ pool[w] # "known" => outbox[w] # <<>>
  /\ pool[w] # "absent" /\ w \notin open => ~wk[w].alive /\ outbox[w] = <<>>

Greeted == Base /\ \A w \in Workers : Greeting(w)

(* No step sends a second hello, or lets the master serve a client it does *)
(* not know.                                                               *)
LEMMA GreetingStep ==
  ASSUME Base, Base', \A w \in Workers : Greeting(w), [Next]_vars
  PROVE  \A w \in Workers : Greeting(w)'
<1>0. /\ wk \in [Workers -> WorkerStates]
      /\ outbox \in [Workers -> Seq(Packets)] /\ inbox \in [Workers -> Seq(Packets)]
      /\ pool \in [Workers -> {"absent", "anon", "known"}]
      /\ Quiet \/ \E w \in Workers : Traffic(w)
  BY StepKinds, StreamTypes DEF Base, TypeInv, TypeOK
<1>1. ASSUME NEW v \in Workers, wk'[v].state = "connected" <=> wk[v].state = "connected",
             wk'[v].alive => wk[v].alive, outbox'[v] = outbox[v], pool'[v] = pool[v],
             v \in open => v \in open'
      PROVE  Greeting(v)'
  <2>1. Greeting(v)
    OBVIOUS
  <2> QED
    BY <1>1, <2>1 DEF Greeting
<1>2. ASSUME Quiet, NEW v \in Workers
      PROVE  Greeting(v)'
  <2>1. /\ wk'[v].state = "connected" <=> wk[v].state = "connected"
        /\ wk'[v].alive = wk[v].alive /\ outbox'[v] = outbox[v] /\ Pooled(v) /\ Greeting(v)
    BY <1>2 DEF Quiet, Same
  <2>2. CASE pool'[v] = pool[v] /\ (v \in open => v \in open' \/ (~wk[v].alive /\ outbox[v] = <<>>))
    BY <2>1, <2>2 DEF Greeting
  <2>3. CASE pool[v] = "absent" /\ pool'[v] = "anon" /\ v \in open'
    BY <2>1, <2>3 DEF Greeting
  <2>4. CASE pool[v] # "absent" /\ pool'[v] = "absent" /\ v \notin open
    BY <2>1, <2>4 DEF Greeting
  <2> QED
    BY <2>1, <2>2, <2>3, <2>4 DEF Pooled
<1>3. ASSUME NEW w \in Workers, NEW p \in Packets, NEW cbs, Sends(w, p, cbs)
      PROVE  \A v \in Workers : Greeting(v)'
  <2>1. /\ p.cmd # "hello" /\ wk[w].alive /\ wk'[w].alive = wk[w].alive
        /\ wk'[w].state = "connected" <=> wk[w].state = "connected"
        /\ outbox'[w] = Append(outbox[w], p) /\ UNCHANGED <<pool, open>>
        /\ \A v \in Workers : v # w => outbox'[v] = outbox[v] /\ wk'[v] = wk[v]
    BY <1>0, <1>3 DEF Sends, Others, master
  <2>2. Greeting(w) /\ outbox[w] \in Seq(Packets)
    BY <1>0
  <2>3. /\ Len(outbox[w]) \in Nat /\ Len(outbox'[w]) = Len(outbox[w]) + 1 /\ outbox'[w] # <<>>
        /\ outbox'[w][Len(outbox[w]) + 1] = p
        /\ \A i \in 1 .. Len(outbox[w]) : outbox'[w][i] = outbox[w][i]
        /\ \A i \in 1 .. Len(outbox'[w]) : i = Len(outbox[w]) + 1 \/ i \in 1 .. Len(outbox[w])
        /\ outbox[w] = <<>> <=> Len(outbox[w]) = 0
    BY <2>1, <2>2, AppendAt, EmptySeq
  <2>4. /\ outbox[w] # <<>> => outbox'[w][1] = outbox[w][1]
        /\ outbox[w] = <<>> => outbox'[w][1] = p
    BY <2>3
  <2>5. \A i \in 2 .. Len(outbox'[w]) : outbox'[w][i].cmd # "hello"
    BY <2>1, <2>2, <2>3 DEF Greeting
  <2>6. Greeting(w)'
    <3>1. CASE outbox[w] = <<>>
      BY <2>1, <2>2, <2>3, <2>4, <2>5, <3>1 DEF Greeting
    <3>2. CASE outbox[w] # <<>>
      BY <2>1, <2>2, <2>3, <2>4, <2>5, <3>2 DEF Greeting
    <3> QED
      BY <3>1, <3>2
  <2> QED
    BY <1>1, <2>1, <2>6
<1>4. ASSUME NEW w \in Workers, Connects(w)
      PROVE  \A v \in Workers : Greeting(v)'
  <2> DEFINE p == Packet("hello", w, 0, NULL, 0)
  <2>1. p \in Packets /\ p.cmd = "hello"
    BY DEF Packet, Packets
  <2>2. /\ wk[w].state = "connecting" /\ wk'[w].state = "connected"
        /\ outbox' = [outbox EXCEPT ![w] = <<p>> \o @] /\ UNCHANGED <<pool, open>>
        /\ \A v \in Workers : v # w => wk'[v] = wk[v]
    BY <1>0, <1>4, LinkFields DEF Connects, Others, master
  <2> HIDE DEF p
  <2>3. outbox'[w] = <<p>> \o outbox[w] /\ \A v \in Workers : v # w => outbox'[v] = outbox[v]
    BY <1>0, <2>2
  <2>4. pool[w] = "absent"
    BY <2>2 DEF Base, Linked
  <2>5. Greeting(w) /\ outbox[w] \in Seq(Packets)
    BY <1>0
  <2>6. /\ Len(outbox[w]) \in Nat /\ Len(outbox'[w]) = Len(outbox[w]) + 1 /\ outbox'[w][1] = p
        /\ outbox'[w] # <<>> /\ outbox[w] = <<>> <=> Len(outbox[w]) = 0
        /\ \A i \in 2 .. Len(outbox[w]) + 1 : i - 1 \in 1 .. Len(outbox[w]) /\ outbox'[w][i] = outbox[w][i - 1]
    BY <2>1, <2>3, <2>5, PrependAt, EmptySeq
  <2>7. \A i \in 1 .. Len(outbox[w]) : outbox[w][i].cmd # "hello"
    <3>1. \A i \in 1 .. Len(outbox[w]) : i = 1 \/ i \in 2 .. Len(outbox[w])
      BY <2>6
    <3> QED
      BY <2>2, <2>5, <2>6, <3>1 DEF Greeting
  <2>8. \A i \in 2 .. Len(outbox'[w]) : outbox'[w][i].cmd # "hello"
    BY <2>6, <2>7
  <2>9. Greeting(w)'
    BY <2>1, <2>2, <2>4, <2>6, <2>8 DEF Greeting
  <2> QED
    BY <1>1, <2>2, <2>3, <2>9
<1>5. ASSUME NEW w \in Workers, Dies(w)
      PROVE  \A v \in Workers : Greeting(v)'
  <2>1. /\ wk'[w].state = wk[w].state /\ ~wk'[w].alive
        /\ \A v \in Workers : v # w => wk'[v] = wk[v]
    BY <1>0, <1>5, LinkFields DEF Others
  <2>2. UNCHANGED <<outbox, pool, open>>
    BY <1>5 DEF Dies
  <2> QED
    BY <1>1, <2>1, <2>2
<1>6. ASSUME NEW w \in Workers, NEW p \in Packets, Takes(w, p)
      PROVE  \A v \in Workers : Greeting(v)'
  <2>1. /\ wk'[w].state = wk[w].state /\ wk'[w].alive = wk[w].alive
        /\ \A v \in Workers : v # w => wk'[v] = wk[v]
    BY <1>0, <1>6, TakeFields DEF Others, Kept
  <2>2. UNCHANGED <<outbox, pool, open>>
    BY <1>6 DEF Takes, master
  <2> QED
    BY <1>1, <2>1, <2>2
<1>7. ASSUME NEW c \in Workers, NEW p \in Packets, Serves(c, p)
      PROVE  \A v \in Workers : Greeting(v)'
  <2>1. /\ outbox[c] # <<>> /\ outbox'[c] = Tail(outbox[c]) /\ p = Head(outbox[c])
        /\ \A v \in Workers : v # c => outbox'[v] = outbox[v]
        /\ UNCHANGED <<wk, open>> /\ mbuf.c = c /\ mbuf.rest # <<>>
    BY <1>0, <1>7 DEF Serves
  <2>2. wk[c].state = "connected"
    BY <2>1 DEF Base, Linked
  <2>3. /\ Len(outbox[c]) \in Nat /\ Len(outbox'[c]) = Len(outbox[c]) - 1 /\ p = outbox[c][1]
        /\ \A i \in 1 .. Len(outbox'[c]) : i + 1 \in 1 .. Len(outbox[c]) /\ outbox'[c][i] = outbox[c][i + 1]
        /\ outbox'[c] # <<>> => 1 \in 1 .. Len(outbox'[c])
    BY <1>0, <2>1, TailAt
  <2>4. Greeting(c)
    OBVIOUS
  <2>5. \A i \in 1 .. Len(outbox'[c]) : outbox'[c][i].cmd # "hello"
    BY <2>3, <2>4 DEF Greeting
  <2>6. pool'[c] = "known" /\ \A v \in Workers : v # c => pool'[v] = pool[v]
    <3>1. CASE p.cmd = "hello"
      BY <1>0, <1>7, <3>1 DEF Serves, Replies, Relays
    <3>2. CASE p.cmd # "hello"
      BY <1>7, <2>1, <2>2, <2>3, <2>4, <3>2 DEF Serves, Replies, Relays, Greeting
    <3> QED
      BY <3>1, <3>2
  <2>7. c \in open
    BY <2>1 DEF Base, TypeInv
  <2>8. Greeting(c)'
    BY <2>1, <2>2, <2>3, <2>5, <2>6, <2>7 DEF Greeting
  <2> QED
    BY <1>1, <2>1, <2>6, <2>8
<1> QED
  BY <1>0, <1>2, <1>3, <1>4, <1>5, <1>6, <1>7 DEF Traffic

(* The invariant of the hello. *)
LEMMA GreetedInvariant ==
  Spec => []Greeted
<1>1. Init => Greeted
  <2>1. SUFFICES ASSUME Init PROVE \A w \in Workers : Greeting(w)
    BY BaseInit DEF Greeted
  <2>2. \A w \in Workers : outbox[w] = <<>>
    BY <2>1, StartsEmpty
  <2>3. \A i : i \notin 2 .. Len(<<>>)
    BY EmptySeq
  <2> QED
    BY <2>1, <2>2, <2>3 DEF Greeting, Init
<1>2. Greeted /\ Base' /\ [Next]_vars => Greeted'
  BY GreetingStep DEF Greeted
<1> QED
  BY <1>1, <1>2, BaseInvariant, PTL DEF Spec, Greeted

(* The master knows who a client is before it serves it, and says hello to *)
(* it once: whatever a worker sends before, during or after the connect    *)
(* callback runs.                                                          *)
THEOREM IpcHelloComesFirst == Spec => []HelloComesFirst
<1>1. Greeted => HelloComesFirst
  <2>1. SUFFICES ASSUME Greeted, NEW w \in Workers
                 PROVE  /\ \A i \in 2 .. Len(Unserved(w)) : Unserved(w)[i].cmd # "hello"
                        /\ Unserved(w) # <<>> /\ wk[w].state = "connected" =>
                             (Unserved(w)[1].cmd = "hello" <=> pool[w] # "known")
    BY DEF HelloComesFirst
  <2>2. Greeting(w) /\ outbox[w] = Unserved(w)
    BY <2>1 DEF Greeted, outbox
  <2> QED
    BY <2>2 DEF Greeting
<1> QED
  BY <1>1, GreetedInvariant, PTL

-----------------------------------------------------------------------------
(* Requests and their replies.  n is req_id, cbs the callbacks, s what the *)
(* worker has sent and t what is on its way to it.                         *)
Callbacks == [1 .. MaxReq -> Addrs \cup {NULL}]

(* Ids rise along a stream and stay below req_id. *)
Rising(n, s) ==
  /\ \A i \in 1 .. Len(s) : s[i].id < n
  /\ \A i, j \in 1 .. Len(s) : i < j => s[i].id < s[j].id

(* A request has its callback. *)
Matches(cbs, s) ==
  \A i \in 1 .. Len(s) :
    s[i].cmd = "bind" => s[i].id \in 1 .. MaxReq /\ s[i].arg \in Addrs /\ cbs[s[i].id] = s[i].arg

(* So has a reply, and replies come back in the order of the requests,     *)
(* before the ones that are not served yet.                                *)
Answers(n, cbs, s, t) ==
  \A i \in 1 .. Len(t) : t[i].cmd = "reply" =>
    /\ t[i].id \in 1 .. MaxReq /\ cbs[t[i].id] \in TcpAddrs /\ t[i].id < n
    /\ \A j \in 1 .. Len(t) : i < j /\ t[j].cmd = "reply" => t[i].id < t[j].id
    /\ \A j \in 1 .. Len(s) : s[j].cmd # "hello" => t[i].id < s[j].id

(* A callback for a socket has its request or its reply. *)
IsAsk(p, id) == p.cmd = "bind" /\ p.id = id
IsAnswer(p, id) == p.cmd = "reply" /\ p.id = id
Pending(cbs, s, t) ==
  \A id \in 1 .. MaxReq : cbs[id] \in TcpAddrs =>
    \/ \E i \in 1 .. Len(s) : IsAsk(s[i], id)
    \/ \E i \in 1 .. Len(t) : IsAnswer(t[i], id)

(* A new request has the highest id. *)
LEMMA AwaitSend ==
  ASSUME NEW n \in Nat, NEW cbs \in Callbacks, NEW s \in Seq(Packets), NEW t \in Seq(Packets),
         NEW p \in Packets, p.id = n, n \in 1 .. MaxReq, NEW new \in Callbacks,
         \/ p.cmd = "broadcast" /\ new = cbs
         \/ p.cmd = "bind" /\ p.arg \in Addrs /\ new = [cbs EXCEPT ![n] = p.arg],
         Rising(n, s), Matches(cbs, s), Answers(n, cbs, s, t)
  PROVE  /\ Rising(n + 1, Append(s, p)) /\ Matches(new, Append(s, p))
         /\ Answers(n + 1, new, Append(s, p), t)
         /\ Pending(cbs, s, t) => Pending(new, Append(s, p), t)
<1> DEFINE q == Append(s, p)
<1>1. /\ Len(s) \in Nat /\ q \in Seq(Packets) /\ Len(q) = Len(s) + 1 /\ q[Len(s) + 1] = p
      /\ \A i \in 1 .. Len(s) : i \in 1 .. Len(q) /\ q[i] = s[i]
      /\ \A i \in 1 .. Len(q) : i = Len(s) + 1 \/ i \in 1 .. Len(s)
  BY AppendAt
<1>2. \A i \in 1 .. Len(s) : s[i].id \in Nat /\ s[i].id < n
  <2>1. \A i \in 1 .. Len(s) : s[i] \in Packets
    BY ElementOfSeq
  <2> QED
    BY <2>1 DEF Rising, Packets
<1>3. \A id \in 1 .. MaxReq : id # n => new[id] = cbs[id]
  BY DEF Callbacks
<1>4. p.cmd = "bind" => new[n] = p.arg
  BY DEF Callbacks
<1> HIDE DEF q
<1>5. Rising(n + 1, q)
  <2>1. \A i \in 1 .. Len(q) : q[i].id < n + 1
    BY <1>1, <1>2
  <2>2. ASSUME NEW i \in 1 .. Len(q), NEW j \in 1 .. Len(q), i < j
        PROVE  q[i].id < q[j].id
    <3>1. i \in 1 .. Len(s)
      BY <1>1, <2>2
    <3>2. CASE j = Len(s) + 1
      BY <1>1, <1>2, <3>1, <3>2
    <3>3. CASE j \in 1 .. Len(s)
      BY <1>1, <2>2, <3>1, <3>3 DEF Rising
    <3> QED
      BY <1>1, <3>2, <3>3
  <2> QED
    BY <2>1, <2>2 DEF Rising
<1>6. Matches(new, q)
  <2>1. SUFFICES ASSUME NEW i \in 1 .. Len(q), q[i].cmd = "bind"
                 PROVE  q[i].id \in 1 .. MaxReq /\ q[i].arg \in Addrs /\ new[q[i].id] = q[i].arg
    BY DEF Matches
  <2>2. CASE i = Len(s) + 1
    BY <1>1, <1>4, <2>1, <2>2
  <2>3. CASE i \in 1 .. Len(s)
    BY <1>1, <1>2, <1>3, <2>1, <2>3 DEF Matches
  <2> QED
    BY <1>1, <2>2, <2>3
<1>7. Answers(n + 1, new, q, t)
  <2>1. SUFFICES ASSUME NEW i \in 1 .. Len(t), t[i].cmd = "reply"
                 PROVE  /\ t[i].id \in 1 .. MaxReq /\ new[t[i].id] \in TcpAddrs /\ t[i].id < n + 1
                        /\ \A j \in 1 .. Len(t) : i < j /\ t[j].cmd = "reply" => t[i].id < t[j].id
                        /\ \A j \in 1 .. Len(q) : q[j].cmd # "hello" => t[i].id < q[j].id
    BY DEF Answers
  <2>2. /\ t[i].id \in 1 .. MaxReq /\ cbs[t[i].id] \in TcpAddrs /\ t[i].id < n
        /\ \A j \in 1 .. Len(t) : i < j /\ t[j].cmd = "reply" => t[i].id < t[j].id
        /\ \A j \in 1 .. Len(s) : s[j].cmd # "hello" => t[i].id < s[j].id
    BY <2>1 DEF Answers
  <2>3. new[t[i].id] \in TcpAddrs /\ t[i].id < n + 1
    BY <1>3, <2>2
  <2>4. \A j \in 1 .. Len(q) : q[j].cmd # "hello" => t[i].id < q[j].id
    BY <1>1, <2>2
  <2> QED
    BY <2>2, <2>3, <2>4
<1>8. ASSUME Pending(cbs, s, t)
      PROVE  Pending(new, q, t)
  <2>1. SUFFICES ASSUME NEW id \in 1 .. MaxReq, new[id] \in TcpAddrs
                 PROVE  \/ \E i \in 1 .. Len(q) : IsAsk(q[i], id)
                        \/ \E i \in 1 .. Len(t) : IsAnswer(t[i], id)
    BY DEF Pending
  <2>2. CASE id = n /\ p.cmd = "bind"
    <3>1. Len(s) + 1 \in 1 .. Len(q) /\ IsAsk(q[Len(s) + 1], id)
      BY <1>1, <2>2 DEF IsAsk
    <3> QED
      BY <3>1
  <2>3. CASE ~(id = n /\ p.cmd = "bind")
    <3>1. cbs[id] \in TcpAddrs
      BY <1>3, <2>1, <2>3
    <3> QED
      BY <1>1, <1>8, <3>1 DEF Pending
  <2> QED
    BY <2>2, <2>3
<1> QED
  BY <1>5, <1>6, <1>7, <1>8 DEF q

(* The hello has an id below all others. *)
LEMMA AwaitHello ==
  ASSUME NEW n \in Nat, n > 0, NEW cbs \in Callbacks, NEW s \in Seq(Packets), NEW t \in Seq(Packets),
         NEW p \in Packets, p.id = 0, p.cmd = "hello", \A i \in 1 .. Len(s) : s[i].id > 0,
         Rising(n, s), Matches(cbs, s), Answers(n, cbs, s, t)
  PROVE  /\ Rising(n, <<p>> \o s) /\ Matches(cbs, <<p>> \o s)
         /\ Answers(n, cbs, <<p>> \o s, t)
         /\ Pending(cbs, s, t) => Pending(cbs, <<p>> \o s, t)
<1> DEFINE q == <<p>> \o s
<1>1. /\ Len(s) \in Nat /\ q \in Seq(Packets) /\ Len(q) = Len(s) + 1 /\ q[1] = p
      /\ \A i \in 2 .. Len(s) + 1 : i - 1 \in 1 .. Len(s) /\ q[i] = s[i - 1]
  BY PrependAt
<1> HIDE DEF q
<1>2. /\ \A i \in 1 .. Len(q) : i = 1 \/ i \in 2 .. Len(s) + 1
      /\ \A i \in 1 .. Len(s) : i + 1 \in 1 .. Len(q) /\ i + 1 \in 2 .. Len(s) + 1 /\ q[i + 1] = s[i]
  <2>1. \A i \in 1 .. Len(s) : i + 1 \in 2 .. Len(s) + 1 /\ (i + 1) - 1 = i
    BY <1>1
  <2> QED
    BY <1>1, <2>1
<1>3. Rising(n, q)
  <2>1. ASSUME NEW i \in 1 .. Len(q) PROVE q[i].id < n
    BY <1>1, <1>2 DEF Rising
  <2>2. ASSUME NEW i \in 1 .. Len(q), NEW j \in 1 .. Len(q), i < j PROVE q[i].id < q[j].id
    <3>1. j \in 2 .. Len(s) + 1
      BY <1>1, <2>2
    <3>2. CASE i = 1
      BY <1>1, <3>1, <3>2
    <3>3. CASE i \in 2 .. Len(s) + 1
      <4>1. i - 1 < j - 1
        BY <2>2, <3>1, <3>3
      <4> QED
        BY <1>1, <3>1, <3>3, <4>1 DEF Rising
    <3> QED
      BY <1>2, <3>2, <3>3
  <2> QED
    BY <2>1, <2>2 DEF Rising
<1>4. Matches(cbs, q)
  BY <1>1, <1>2 DEF Matches
<1>5. Answers(n, cbs, q, t)
  <2>1. \A j \in 1 .. Len(q) : q[j].cmd # "hello" => j - 1 \in 1 .. Len(s) /\ q[j] = s[j - 1]
    BY <1>1, <1>2
  <2> QED
    <3>1. ASSUME NEW i \in 1 .. Len(t), t[i].cmd = "reply",
                 NEW j \in 1 .. Len(q), q[j].cmd # "hello"
          PROVE  t[i].id < q[j].id
      <4>1. j - 1 \in 1 .. Len(s) /\ q[j] = s[j - 1] /\ s[j - 1].cmd # "hello"
        BY <2>1, <3>1
      <4>2. \A l \in 1 .. Len(s) : s[l].cmd # "hello" => t[i].id < s[l].id
        BY <3>1 DEF Answers
      <4> QED
        BY <4>1, <4>2
    <3> QED
      BY <3>1 DEF Answers
<1>6. ASSUME Pending(cbs, s, t)
      PROVE  Pending(cbs, q, t)
  <2>1. \A id : (\E i \in 1 .. Len(s) : IsAsk(s[i], id)) => \E i \in 1 .. Len(q) : IsAsk(q[i], id)
    BY <1>2
  <2> QED
    BY <1>6, <2>1 DEF Pending
<1> QED
  BY <1>3, <1>4, <1>5, <1>6 DEF q

(* Serving a packet leaves the ones behind it. *)
LEMMA AwaitServe ==
  ASSUME NEW n \in Nat, NEW cbs \in Callbacks, NEW s \in Seq(Packets), NEW t \in Seq(Packets),
         s # <<>>, Rising(n, s), Matches(cbs, s), Answers(n, cbs, s, t)
  PROVE  /\ Rising(n, Tail(s)) /\ Matches(cbs, Tail(s)) /\ Answers(n, cbs, Tail(s), t)
         /\ Head(s).cmd # "bind" \/ Head(s).arg \notin TcpAddrs =>
              (Pending(cbs, s, t) => Pending(cbs, Tail(s), t))
<1> DEFINE q == Tail(s)
<1>1. /\ Len(s) \in Nat /\ Len(s) >= 1 /\ q \in Seq(Packets) /\ Len(q) = Len(s) - 1
      /\ Head(s) = s[1] /\ 1 \in 1 .. Len(s)
      /\ \A i \in 1 .. Len(q) : i + 1 \in 1 .. Len(s) /\ q[i] = s[i + 1]
  BY TailAt
<1> HIDE DEF q
<1>2. Rising(n, q)
  <2>1. \A i, j \in 1 .. Len(q) : i < j => i + 1 < j + 1
    BY <1>1
  <2> QED
    BY <1>1, <2>1 DEF Rising
<1>3. Matches(cbs, q)
  BY <1>1 DEF Matches
<1>4. Answers(n, cbs, q, t)
  BY <1>1 DEF Answers
<1>5. ASSUME Head(s).cmd # "bind" \/ Head(s).arg \notin TcpAddrs, Pending(cbs, s, t)
      PROVE  Pending(cbs, q, t)
  <2>1. SUFFICES ASSUME NEW id \in 1 .. MaxReq, cbs[id] \in TcpAddrs,
                        NEW i \in 1 .. Len(s), IsAsk(s[i], id)
                 PROVE  \E k \in 1 .. Len(q) : IsAsk(q[k], id)
    BY <1>5 DEF Pending
  <2>2. i # 1
    BY <1>1, <1>5, <2>1 DEF IsAsk, Matches
  <2>3. i - 1 \in 1 .. Len(q) /\ (i - 1) + 1 = i
    BY <1>1, <2>2
  <2> QED
    BY <1>1, <2>1, <2>3
<1> QED
  BY <1>2, <1>3, <1>4, <1>5 DEF q

(* The reply to the first request comes after all earlier replies. *)
LEMMA AwaitReply ==
  ASSUME NEW n \in Nat, NEW cbs \in Callbacks, NEW s \in Seq(Packets), NEW t \in Seq(Packets),
         s # <<>>, Rising(n, s), Matches(cbs, s), Answers(n, cbs, s, t),
         Head(s).cmd = "bind", Head(s).arg \in TcpAddrs,
         NEW r \in Packets, r.cmd = "reply", r.id = Head(s).id
  PROVE  /\ Answers(n, cbs, Tail(s), Append(t, r))
         /\ Pending(cbs, s, t) => Pending(cbs, Tail(s), Append(t, r))
<1> DEFINE q == Tail(s)
           u == Append(t, r)
<1>1. /\ Len(s) \in Nat /\ Len(s) >= 1 /\ q \in Seq(Packets) /\ Len(q) = Len(s) - 1
      /\ Head(s) = s[1] /\ 1 \in 1 .. Len(s)
      /\ \A i \in 1 .. Len(q) : i + 1 \in 1 .. Len(s) /\ q[i] = s[i + 1]
  BY TailAt
<1>2. /\ Len(t) \in Nat /\ Len(u) = Len(t) + 1 /\ u[Len(t) + 1] = r
      /\ \A i \in 1 .. Len(t) : i \in 1 .. Len(u) /\ u[i] = t[i]
      /\ \A i \in 1 .. Len(u) : i = Len(t) + 1 \/ i \in 1 .. Len(t)
  BY AppendAt
<1> HIDE DEF q, u
<1>3. r.id \in 1 .. MaxReq /\ cbs[r.id] = Head(s).arg /\ r.id < n
  BY <1>1 DEF Matches, Rising
<1>4. \A j \in 1 .. Len(q) : r.id < q[j].id
  <2>1. \A j \in 1 .. Len(q) : 1 < j + 1
    BY <1>1
  <2> QED
    BY <1>1, <2>1 DEF Rising
<1>5. \A i \in 1 .. Len(t) : t[i].cmd = "reply" => t[i].id < r.id
  BY <1>1 DEF Answers
<1>6. Answers(n, cbs, q, u)
  <2>1. SUFFICES ASSUME NEW i \in 1 .. Len(u), u[i].cmd = "reply"
                 PROVE  /\ u[i].id \in 1 .. MaxReq /\ cbs[u[i].id] \in TcpAddrs /\ u[i].id < n
                        /\ \A j \in 1 .. Len(u) : i < j /\ u[j].cmd = "reply" => u[i].id < u[j].id
                        /\ \A j \in 1 .. Len(q) : q[j].cmd # "hello" => u[i].id < q[j].id
    BY DEF Answers
  <2>2. CASE i = Len(t) + 1
    <3>1. \A j \in 1 .. Len(u) : ~(i < j)
      BY <1>2, <2>2
    <3> QED
      BY <1>2, <1>3, <1>4, <2>2, <3>1
  <2>3. CASE i \in 1 .. Len(t)
    <3>1. /\ t[i].id \in 1 .. MaxReq /\ cbs[t[i].id] \in TcpAddrs /\ t[i].id < n /\ u[i] = t[i]
          /\ \A j \in 1 .. Len(t) : i < j /\ t[j].cmd = "reply" => t[i].id < t[j].id
          /\ \A j \in 1 .. Len(s) : s[j].cmd # "hello" => t[i].id < s[j].id
      BY <1>2, <2>1, <2>3 DEF Answers
    <3>2. \A j \in 1 .. Len(u) : i < j /\ u[j].cmd = "reply" => u[i].id < u[j].id
      BY <1>2, <1>5, <2>1, <2>3, <3>1
    <3>3. \A j \in 1 .. Len(q) : q[j].cmd # "hello" => u[i].id < q[j].id
      BY <1>1, <3>1
    <3> QED
      BY <3>1, <3>2, <3>3
  <2> QED
    BY <1>2, <2>2, <2>3
<1>7. ASSUME Pending(cbs, s, t)
      PROVE  Pending(cbs, q, u)
  <2>1. SUFFICES ASSUME NEW id \in 1 .. MaxReq, cbs[id] \in TcpAddrs
                 PROVE  \/ \E k \in 1 .. Len(q) : IsAsk(q[k], id)
                        \/ \E k \in 1 .. Len(u) : IsAnswer(u[k], id)
    BY DEF Pending
  <2>2. CASE id = r.id
    <3>1. Len(t) + 1 \in 1 .. Len(u) /\ IsAnswer(u[Len(t) + 1], id)
      BY <1>2, <2>2 DEF IsAnswer
    <3> QED
      BY <3>1
  <2>3. ASSUME id # r.id, NEW i \in 1 .. Len(s), IsAsk(s[i], id)
        PROVE  \E k \in 1 .. Len(q) : IsAsk(q[k], id)
    <3>1. i # 1
      BY <1>1, <2>3 DEF IsAsk
    <3>2. i - 1 \in 1 .. Len(q) /\ (i - 1) + 1 = i
      BY <1>1, <3>1
    <3> QED
      BY <1>1, <2>3, <3>2
  <2>4. (\E i \in 1 .. Len(t) : IsAnswer(t[i], id)) => \E k \in 1 .. Len(u) : IsAnswer(u[k], id)
    BY <1>2
  <2> QED
    BY <1>7, <2>1, <2>2, <2>3, <2>4 DEF Pending
<1> QED
  BY <1>6, <1>7 DEF q, u

(* A broadcast is no reply. *)
LEMMA AwaitRelay ==
  ASSUME NEW n \in Nat, NEW cbs \in Callbacks, NEW s \in Seq(Packets), NEW t \in Seq(Packets),
         Answers(n, cbs, s, t), NEW p \in Packets, p.cmd = "broadcast"
  PROVE  /\ Answers(n, cbs, s, Append(t, p))
         /\ Pending(cbs, s, t) => Pending(cbs, s, Append(t, p))
<1> DEFINE u == Append(t, p)
<1>1. /\ Len(t) \in Nat /\ Len(u) = Len(t) + 1 /\ u[Len(t) + 1] = p
      /\ \A i \in 1 .. Len(t) : i \in 1 .. Len(u) /\ u[i] = t[i]
      /\ \A i \in 1 .. Len(u) : i = Len(t) + 1 \/ i \in 1 .. Len(t)
  BY AppendAt
<1> HIDE DEF u
<1>2. \A i \in 1 .. Len(u) : u[i].cmd = "reply" => i \in 1 .. Len(t) /\ u[i] = t[i]
  BY <1>1
<1>3. Answers(n, cbs, s, u)
  BY <1>2 DEF Answers
<1>4. Pending(cbs, s, t) => Pending(cbs, s, u)
  BY <1>1 DEF Pending
<1> QED
  BY <1>3, <1>4 DEF u

(* A worker that takes a reply clears the callback, and no other reply or  *)
(* request needs it.                                                       *)
LEMMA AwaitTake ==
  ASSUME NEW n \in Nat, NEW cbs \in Callbacks, NEW s \in Seq(Packets), NEW t \in Seq(Packets),
         t # <<>>, Matches(cbs, s), Answers(n, cbs, s, t), NEW new \in Callbacks,
         \/ Head(t).cmd = "broadcast" /\ new = cbs
         \/ Head(t).cmd = "reply" /\ new = [cbs EXCEPT ![Head(t).id] = NULL]
  PROVE  /\ Matches(new, s) /\ Answers(n, new, s, Tail(t))
         /\ Pending(cbs, s, t) => Pending(new, s, Tail(t))
<1> DEFINE u == Tail(t)
           h == Head(t)
<1>1. /\ Len(t) \in Nat /\ Len(t) >= 1 /\ u \in Seq(Packets) /\ Len(u) = Len(t) - 1
      /\ h = t[1] /\ 1 \in 1 .. Len(t)
      /\ \A i \in 1 .. Len(u) : i + 1 \in 1 .. Len(t) /\ u[i] = t[i + 1] /\ 1 < i + 1
  BY TailAt
<1>2. \A i \in 1 .. Len(t) : i = 1 \/ (i - 1 \in 1 .. Len(u) /\ u[i - 1] = t[i])
  <2>1. \A i \in 1 .. Len(t) : i = 1 \/ (i - 1 \in 1 .. Len(u) /\ (i - 1) + 1 = i)
    BY <1>1
  <2> QED
    BY <1>1, <2>1
<1>3. \A i \in 1 .. Len(s) : s[i].id \in Nat
  <2>1. \A i \in 1 .. Len(s) : s[i] \in Packets
    BY ElementOfSeq
  <2> QED
    BY <2>1 DEF Packets
<1> HIDE DEF u, h
<1>A. ASSUME NEW i \in 1 .. Len(u), u[i].cmd = "reply"
      PROVE  /\ u[i].id \in 1 .. MaxReq /\ cbs[u[i].id] \in TcpAddrs /\ u[i].id < n
             /\ \A j \in 1 .. Len(u) : i < j /\ u[j].cmd = "reply" => u[i].id < u[j].id
             /\ \A j \in 1 .. Len(s) : s[j].cmd # "hello" => u[i].id < s[j].id
  <2>1. i + 1 \in 1 .. Len(t) /\ u[i] = t[i + 1]
    BY <1>1
  <2>2. /\ u[i].id \in 1 .. MaxReq /\ cbs[u[i].id] \in TcpAddrs /\ u[i].id < n
        /\ \A j \in 1 .. Len(t) : i + 1 < j /\ t[j].cmd = "reply" => u[i].id < t[j].id
        /\ \A j \in 1 .. Len(s) : s[j].cmd # "hello" => u[i].id < s[j].id
    BY <1>A, <2>1 DEF Answers
  <2>3. \A j \in 1 .. Len(u) : i < j => i + 1 < j + 1 /\ j + 1 \in 1 .. Len(t) /\ u[j] = t[j + 1]
    BY <1>1
  <2> QED
    <3>1. ASSUME NEW j \in 1 .. Len(u), i < j, u[j].cmd = "reply" PROVE u[i].id < u[j].id
      <4>1. i + 1 < j + 1 /\ j + 1 \in 1 .. Len(t) /\ u[j] = t[j + 1]
        BY <2>3, <3>1
      <4> QED
        BY <2>2, <3>1, <4>1
    <3> QED
      BY <2>2, <3>1
<1>4. CASE h.cmd = "broadcast" /\ new = cbs
  <2>2. Answers(n, new, s, u)
    BY <1>A, <1>4 DEF Answers
  <2>3. Pending(cbs, s, t) => Pending(new, s, u)
    <3>1. \A id : (\E i \in 1 .. Len(t) : IsAnswer(t[i], id)) => \E k \in 1 .. Len(u) : IsAnswer(u[k], id)
      BY <1>1, <1>2, <1>4 DEF IsAnswer
    <3> QED
      BY <1>4, <3>1 DEF Pending
  <2> QED
    BY <1>4, <2>2, <2>3 DEF u
<1>5. CASE h.cmd = "reply" /\ new = [cbs EXCEPT ![h.id] = NULL]
  <2>1. /\ h.id \in 1 .. MaxReq /\ new[h.id] = NULL /\ \A id \in 1 .. MaxReq : id # h.id => new[id] = cbs[id]
    BY <1>1, <1>5 DEF Answers, Callbacks
  <2>2. \A i \in 1 .. Len(u) : u[i].cmd = "reply" => h.id < u[i].id
    BY <1>1, <1>5 DEF Answers
  <2>3. \A i \in 1 .. Len(s) : s[i].cmd = "bind" => h.id < s[i].id
    BY <1>1, <1>5 DEF Answers
  <2>4. Matches(new, s)
    BY <1>3, <2>1, <2>3 DEF Matches
  <2>5. Answers(n, new, s, u)
    <3>1. SUFFICES ASSUME NEW i \in 1 .. Len(u), u[i].cmd = "reply"
                   PROVE  /\ u[i].id \in 1 .. MaxReq /\ new[u[i].id] \in TcpAddrs /\ u[i].id < n
                          /\ \A j \in 1 .. Len(u) : i < j /\ u[j].cmd = "reply" => u[i].id < u[j].id
                          /\ \A j \in 1 .. Len(s) : s[j].cmd # "hello" => u[i].id < s[j].id
      BY DEF Answers
    <3>3. /\ u[i].id \in 1 .. MaxReq /\ cbs[u[i].id] \in TcpAddrs /\ u[i].id < n
          /\ \A j \in 1 .. Len(u) : i < j /\ u[j].cmd = "reply" => u[i].id < u[j].id
          /\ \A j \in 1 .. Len(s) : s[j].cmd # "hello" => u[i].id < s[j].id
      BY <1>A, <3>1
    <3>4. new[u[i].id] \in TcpAddrs
      BY <2>1, <2>2, <3>1, <3>3
    <3> QED
      BY <3>3, <3>4
  <2>6. ASSUME Pending(cbs, s, t)
        PROVE  Pending(new, s, u)
    <3>1. SUFFICES ASSUME NEW id \in 1 .. MaxReq, new[id] \in TcpAddrs
                   PROVE  \/ \E k \in 1 .. Len(s) : IsAsk(s[k], id)
                          \/ \E k \in 1 .. Len(u) : IsAnswer(u[k], id)
      BY DEF Pending
    <3>2. id # h.id /\ cbs[id] \in TcpAddrs
      BY <2>1, <3>1, IpcAssumption
    <3>3. (\E i \in 1 .. Len(t) : IsAnswer(t[i], id)) => \E k \in 1 .. Len(u) : IsAnswer(u[k], id)
      BY <1>1, <1>2, <3>2 DEF IsAnswer
    <3> QED
      BY <2>6, <3>2, <3>3 DEF Pending
  <2> QED
    BY <2>4, <2>5, <2>6 DEF u
<1> QED
  BY <1>4, <1>5 DEF h

Awaiting(w) ==
  /\ Rising(wk[w].req_id, outbox[w])
  /\ Matches(wk[w].callbacks, outbox[w])
  /\ Answers(wk[w].req_id, wk[w].callbacks, outbox[w], inbox[w])
  /\ wk[w].alive => Pending(wk[w].callbacks, outbox[w], inbox[w])
  /\ ~wk[w].alive => inbox[w] = <<>>

AwaitInv == Greeted /\ \A w \in Workers : Awaiting(w)

(* Every step keeps the callbacks, the requests and the replies together. *)
LEMMA AwaitingStep ==
  ASSUME Greeted, Greeted', \A w \in Workers : Awaiting(w), [Next]_vars
  PROVE  \A w \in Workers : Awaiting(w)'
<1>0. /\ TypeInv /\ wk \in [Workers -> WorkerStates] /\ wk' \in [Workers -> WorkerStates]
      /\ outbox \in [Workers -> Seq(Packets)] /\ inbox \in [Workers -> Seq(Packets)]
      /\ Quiet \/ \E w \in Workers : Traffic(w)
  <2>1. TypeOK /\ TypeOK'
    BY DEF Greeted, Base, TypeInv
  <2>2. wk' \in [Workers -> WorkerStates]
    BY <2>1 DEF TypeOK, WorkerStates
  <2> QED
    BY <2>1, <2>2, StepKinds, StreamTypes DEF Greeted, Base
<1>1. \A v \in Workers : /\ wk[v].req_id \in Nat /\ wk[v].req_id > 0 /\ wk[v].callbacks \in Callbacks
                         /\ wk[v].alive \in BOOLEAN
                         /\ outbox[v] \in Seq(Packets) /\ inbox[v] \in Seq(Packets)
  BY <1>0, IpcAssumption DEF WorkerStates, Callbacks
<1>2. ASSUME NEW v \in Workers, wk'[v].req_id = wk[v].req_id, wk'[v].callbacks = wk[v].callbacks,
             wk'[v].alive = wk[v].alive, outbox'[v] = outbox[v], inbox'[v] = inbox[v]
      PROVE  Awaiting(v)'
  <2>1. Awaiting(v)
    OBVIOUS
  <2> QED
    BY <1>2, <2>1 DEF Awaiting
<1>3. CASE Quiet
  <2>1. \A v \in Workers : /\ wk'[v].req_id = wk[v].req_id /\ wk'[v].callbacks = wk[v].callbacks
                           /\ wk'[v].alive = wk[v].alive /\ outbox'[v] = outbox[v] /\ inbox'[v] = inbox[v]
    BY <1>3 DEF Quiet, Same
  <2> QED
    BY <1>2, <2>1
<1>4. ASSUME NEW w \in Workers, NEW p \in Packets, NEW cbs, Sends(w, p, cbs),
             \/ p.cmd = "broadcast" /\ cbs = wk[w].callbacks
             \/ p.cmd = "bind" /\ cbs = [wk[w].callbacks EXCEPT ![p.id] = p.arg]
      PROVE  \A v \in Workers : Awaiting(v)'
  <2>1. /\ p.id = wk[w].req_id /\ wk[w].req_id <= MaxReq /\ Asked(w, p) /\ wk[w].alive
        /\ wk'[w].req_id = wk[w].req_id + 1 /\ wk'[w].callbacks = cbs /\ wk'[w].alive = wk[w].alive
        /\ outbox'[w] = Append(outbox[w], p) /\ inbox'[w] = inbox[w]
        /\ \A v \in Workers : v # w => wk'[v] = wk[v] /\ outbox'[v] = outbox[v] /\ inbox'[v] = inbox[v]
    BY <1>0, <1>4 DEF Sends, Others
  <2>2. cbs \in Callbacks
    BY <1>0, <2>1 DEF WorkerStates, Callbacks
  <2>3. p.cmd = "bind" => p.arg \in Addrs
    BY <2>1 DEF Asked
  <2>4. wk[w].req_id \in 1 .. MaxReq
    BY <1>1, <2>1, IpcAssumption
  <2>5. Awaiting(w)
    OBVIOUS
  <2>6. /\ Rising(wk[w].req_id, outbox[w]) /\ Matches(wk[w].callbacks, outbox[w])
        /\ Answers(wk[w].req_id, wk[w].callbacks, outbox[w], inbox[w])
        /\ Pending(wk[w].callbacks, outbox[w], inbox[w])
    BY <2>1, <2>5 DEF Awaiting
  <2>7. \/ p.cmd = "broadcast" /\ cbs = wk[w].callbacks
        \/ p.cmd = "bind" /\ p.arg \in Addrs /\ cbs = [wk[w].callbacks EXCEPT ![wk[w].req_id] = p.arg]
    BY <1>4, <2>1, <2>3
  <2>8. /\ Rising(wk[w].req_id + 1, Append(outbox[w], p)) /\ Matches(cbs, Append(outbox[w], p))
        /\ Answers(wk[w].req_id + 1, cbs, Append(outbox[w], p), inbox[w])
        /\ Pending(cbs, Append(outbox[w], p), inbox[w])
    <3> DEFINE n == wk[w].req_id
               old == wk[w].callbacks
               a == outbox[w]
               b == inbox[w]
    <3>1. /\ n \in Nat /\ old \in Callbacks /\ a \in Seq(Packets) /\ b \in Seq(Packets)
          /\ p \in Packets /\ p.id = n /\ n \in 1 .. MaxReq /\ cbs \in Callbacks
      BY <1>0, <1>1, <1>4, <2>1, <2>2, <2>4
    <3>2. Rising(n, a) /\ Matches(old, a) /\ Answers(n, old, a, b) /\ Pending(old, a, b)
      BY <2>6
    <3>3. \/ p.cmd = "broadcast" /\ cbs = old
          \/ p.cmd = "bind" /\ p.arg \in Addrs /\ cbs = [old EXCEPT ![n] = p.arg]
      BY <2>7
    <3> HIDE DEF n, old, a, b
    <3>4. /\ Rising(n + 1, Append(a, p)) /\ Matches(cbs, Append(a, p))
          /\ Answers(n + 1, cbs, Append(a, p), b) /\ Pending(cbs, Append(a, p), b)
      BY <3>1, <3>2, <3>3, AwaitSend
    <3> QED
      BY <3>4 DEF n, a, b
  <2>9. Awaiting(w)'
    BY <2>1, <2>8 DEF Awaiting
  <2> QED
    BY <1>2, <2>1, <2>9
<1>5. ASSUME NEW w \in Workers, Connects(w)
      PROVE  \A v \in Workers : Awaiting(v)'
  <2> DEFINE p == Packet("hello", w, 0, NULL, 0)
  <2>1. p \in Packets /\ p.cmd = "hello" /\ p.id = 0
    BY DEF Packet, Packets
  <2>2. outbox' = [outbox EXCEPT ![w] = <<p>> \o @] /\ inbox' = inbox /\ wk[w].state = "connecting"
    BY <1>5 DEF Connects
  <2> HIDE DEF p
  <2>3. /\ wk'[w].req_id = wk[w].req_id /\ wk'[w].callbacks = wk[w].callbacks
        /\ wk'[w].alive = wk[w].alive /\ \A v \in Workers : v # w => wk'[v] = wk[v]
    BY <1>0, <1>5, LinkFields DEF Others
  <2>4. outbox'[w] = <<p>> \o outbox[w] /\ \A v \in Workers : v # w => outbox'[v] = outbox[v]
    BY <1>0, <2>2
  <2>5. \A i \in 1 .. Len(outbox[w]) : outbox[w][i].id > 0
    <3>1. Greeting(w) /\ \A i \in 1 .. Len(outbox[w]) : Asked(w, outbox[w][i])
      BY DEF Greeted, Base, TypeInv
    <3>2. \A i \in 1 .. Len(outbox[w]) : i = 1 \/ i \in 2 .. Len(outbox[w])
      BY <1>1, LenProperties
    <3>3. \A i \in 1 .. Len(outbox[w]) : outbox[w] # <<>>
      BY EmptySeq
    <3>4. \A i \in 1 .. Len(outbox[w]) : outbox[w][i].cmd # "hello"
      BY <2>2, <3>1, <3>2, <3>3 DEF Greeting
    <3> QED
      BY <3>1, <3>4, IpcAssumption DEF Asked
  <2>6. /\ Rising(wk[w].req_id, outbox[w]) /\ Matches(wk[w].callbacks, outbox[w])
        /\ Answers(wk[w].req_id, wk[w].callbacks, outbox[w], inbox[w])
        /\ wk[w].alive => Pending(wk[w].callbacks, outbox[w], inbox[w])
        /\ ~wk[w].alive => inbox[w] = <<>>
    BY DEF Awaiting
  <2>7. /\ Rising(wk[w].req_id, <<p>> \o outbox[w]) /\ Matches(wk[w].callbacks, <<p>> \o outbox[w])
        /\ Answers(wk[w].req_id, wk[w].callbacks, <<p>> \o outbox[w], inbox[w])
        /\ wk[w].alive => Pending(wk[w].callbacks, <<p>> \o outbox[w], inbox[w])
    BY <1>1, <2>1, <2>5, <2>6, AwaitHello
  <2>8. Awaiting(w)'
    BY <2>2, <2>3, <2>4, <2>6, <2>7 DEF Awaiting
  <2> QED
    BY <1>2, <2>2, <2>3, <2>4, <2>8
<1>6. ASSUME NEW w \in Workers, Dies(w)
      PROVE  \A v \in Workers : Awaiting(v)'
  <2>1. /\ wk'[w].req_id = wk[w].req_id /\ wk'[w].callbacks = wk[w].callbacks
        /\ ~wk'[w].alive /\ \A v \in Workers : v # w => wk'[v] = wk[v]
    BY <1>0, <1>6, LinkFields DEF Others
  <2>2. outbox' = outbox /\ inbox'[w] = <<>> /\ \A v \in Workers : v # w => inbox'[v] = inbox[v]
    BY <1>0, <1>6 DEF Dies
  <2>3. \A i : i \notin 1 .. Len(inbox'[w])
    BY <2>2, EmptySeq
  <2>4. Rising(wk[w].req_id, outbox[w]) /\ Matches(wk[w].callbacks, outbox[w])
    BY DEF Awaiting
  <2>5. Answers(wk[w].req_id, wk[w].callbacks, outbox[w], inbox'[w])
    BY <2>3 DEF Answers
  <2>6. Awaiting(w)'
    BY <2>1, <2>2, <2>4, <2>5 DEF Awaiting
  <2> QED
    BY <1>2, <2>1, <2>2, <2>6
<1>7. ASSUME NEW w \in Workers, NEW p \in Packets, Takes(w, p)
      PROVE  \A v \in Workers : Awaiting(v)'
  <2>1. /\ Handled(w, p) /\ wk'[w].req_id = wk[w].req_id /\ wk'[w].alive = wk[w].alive
        /\ \A v \in Workers : v # w => wk'[v] = wk[v]
    BY <1>0, <1>7, TakeFields DEF Others, Kept
  <2>2. /\ wk[w].alive /\ outbox' = outbox /\ inbox[w] # <<>> /\ p = Head(inbox[w]) /\ inbox'[w] = Tail(inbox[w])
        /\ \A v \in Workers : v # w => inbox'[v] = inbox[v]
    BY <1>0, <1>7 DEF Takes
  <2>3. /\ Rising(wk[w].req_id, outbox[w]) /\ Matches(wk[w].callbacks, outbox[w])
        /\ Answers(wk[w].req_id, wk[w].callbacks, outbox[w], inbox[w])
        /\ Pending(wk[w].callbacks, outbox[w], inbox[w])
    BY <2>2 DEF Awaiting
  <2>4. p.cmd = "reply" => wk[w].callbacks[p.id] # NULL
    <3>1. p = inbox[w][1] /\ 1 \in 1 .. Len(inbox[w])
      BY <1>1, <2>2, TailAt
    <3> QED
      BY <2>3, <3>1, IpcAssumption DEF Answers
  <2>5. wk'[w].callbacks \in Callbacks
    BY <1>0 DEF WorkerStates, Callbacks
  <2>6. \/ p.cmd = "broadcast" /\ wk'[w].callbacks = wk[w].callbacks
        \/ p.cmd = "reply" /\ wk'[w].callbacks = [wk[w].callbacks EXCEPT ![p.id] = NULL]
    BY <2>1, <2>4 DEF Handled
  <2>7. /\ Matches(wk'[w].callbacks, outbox[w])
        /\ Answers(wk[w].req_id, wk'[w].callbacks, outbox[w], Tail(inbox[w]))
        /\ Pending(wk'[w].callbacks, outbox[w], Tail(inbox[w]))
    BY <1>1, <2>2, <2>3, <2>5, <2>6, AwaitTake
  <2>8. Awaiting(w)'
    BY <2>1, <2>2, <2>3, <2>7 DEF Awaiting
  <2> QED
    BY <1>2, <2>1, <2>2, <2>8
<1>8. ASSUME NEW c \in Workers, NEW p \in Packets, Serves(c, p)
      PROVE  \A v \in Workers : Awaiting(v)'
  <2>1. /\ outbox[c] # <<>> /\ outbox'[c] = Tail(outbox[c]) /\ p = Head(outbox[c])
        /\ \A v \in Workers : v # c => outbox'[v] = outbox[v]
        /\ UNCHANGED wk
    BY <1>0, <1>8 DEF Serves
  <2>2. /\ Rising(wk[c].req_id, outbox[c]) /\ Matches(wk[c].callbacks, outbox[c])
        /\ Answers(wk[c].req_id, wk[c].callbacks, outbox[c], inbox[c])
        /\ wk[c].alive => Pending(wk[c].callbacks, outbox[c], inbox[c])
        /\ ~wk[c].alive => inbox[c] = <<>>
    BY DEF Awaiting
  <2>3. /\ Rising(wk[c].req_id, Tail(outbox[c])) /\ Matches(wk[c].callbacks, Tail(outbox[c]))
        /\ Answers(wk[c].req_id, wk[c].callbacks, Tail(outbox[c]), inbox[c])
        /\ p.cmd # "bind" \/ p.arg \notin TcpAddrs =>
             (Pending(wk[c].callbacks, outbox[c], inbox[c]) => Pending(wk[c].callbacks, Tail(outbox[c]), inbox[c]))
    BY <1>1, <2>1, <2>2, AwaitServe
  <2>4. ASSUME inbox'[c] = inbox[c], p.cmd # "bind" \/ p.arg \notin TcpAddrs \/ ~wk[c].alive
        PROVE  Awaiting(c)'
    BY <2>1, <2>2, <2>3, <2>4 DEF Awaiting
  <2>5. CASE inbox' = inbox /\ (p.cmd # "bind" \/ p.arg \notin TcpAddrs \/ ~wk[c].alive)
    BY <1>2, <2>1, <2>4, <2>5
  <2>6. CASE Replies(c, p) /\ wk[c].alive
    <3>1. PICK fd \in Nat : inbox' = [inbox EXCEPT ![c] = Append(@, Packet("reply", c, p.id, NULL, fd))]
      <4>1. \E fd : /\ fd = IF bind_pool[p.arg] = 0 THEN NextFd ELSE bind_pool[p.arg]
                    /\ inbox' = [inbox EXCEPT ![c] = Append(@, Packet("reply", c, p.id, NULL, fd))]
        BY <2>6 DEF Replies
      <4>2. bind_pool[p.arg] \in Nat
        BY <1>0, <2>6, IpcAssumption DEF TypeInv, TypeOK, Replies
      <4> QED
        BY <4>1, <4>2, NextFdType
    <3> DEFINE r == Packet("reply", c, p.id, NULL, fd)
    <3>2. r \in Packets /\ r.cmd = "reply" /\ r.id = p.id
      BY DEF Packet, Packets
    <3>3. inbox'[c] = Append(inbox[c], r) /\ \A v \in Workers : v # c => inbox'[v] = inbox[v]
      BY <1>0, <3>1
    <3> HIDE DEF r
    <3>4. /\ Answers(wk[c].req_id, wk[c].callbacks, Tail(outbox[c]), Append(inbox[c], r))
          /\ Pending(wk[c].callbacks, Tail(outbox[c]), Append(inbox[c], r))
      BY <1>1, <2>1, <2>2, <2>6, <3>2, AwaitReply DEF Replies
    <3>5. Awaiting(c)'
      BY <2>1, <2>3, <2>6, <3>3, <3>4 DEF Awaiting
    <3> QED
      BY <1>2, <2>1, <3>3, <3>5
  <2>7. CASE Relays(c, p)
    <3>1. inbox'[c] = inbox[c] /\ p.cmd = "broadcast"
      BY <2>7 DEF Relays
    <3>2. ASSUME NEW v \in Workers, v # c
          PROVE  Awaiting(v)'
      <4>1. outbox'[v] = outbox[v] /\ wk'[v] = wk[v]
        BY <2>1, <3>2
      <4>2. CASE inbox'[v] = inbox[v]
        BY <1>2, <4>1, <4>2
      <4>3. CASE inbox'[v] = Append(inbox[v], p) /\ wk[v].alive
        <5>1. /\ Rising(wk[v].req_id, outbox[v]) /\ Matches(wk[v].callbacks, outbox[v])
              /\ Answers(wk[v].req_id, wk[v].callbacks, outbox[v], inbox[v])
              /\ Pending(wk[v].callbacks, outbox[v], inbox[v])
          BY <4>3 DEF Awaiting
        <5>2. /\ Answers(wk[v].req_id, wk[v].callbacks, outbox[v], Append(inbox[v], p))
              /\ Pending(wk[v].callbacks, outbox[v], Append(inbox[v], p))
          BY <1>1, <3>1, <5>1, AwaitRelay
        <5> QED
          BY <4>1, <4>3, <5>1, <5>2 DEF Awaiting
      <4>4. inbox'[v] = inbox[v] \/ (inbox'[v] = Append(inbox[v], p) /\ wk[v].alive)
        BY <2>7 DEF Relays
      <4> QED
        BY <4>2, <4>3, <4>4
    <3>3. Awaiting(c)'
      BY <2>4, <3>1
    <3> QED
      BY <3>2, <3>3
  <2>8. CASE Replies(c, p) /\ ~wk[c].alive
    BY <2>5, <2>8 DEF Replies
  <2> QED
    BY <1>8, <2>5, <2>6, <2>7, <2>8 DEF Serves
<1> QED
  BY <1>0, <1>3, <1>4, <1>5, <1>6, <1>7, <1>8 DEF Traffic

(* The invariant of the requests. *)
LEMMA AwaitInvariant ==
  Spec => []AwaitInv
<1>1. Init /\ Greeted => AwaitInv
  <2>1. SUFFICES ASSUME Init PROVE \A w \in Workers : Awaiting(w)
    BY DEF AwaitInv
  <2>2. ASSUME NEW w \in Workers
        PROVE  outbox[w] = <<>> /\ inbox[w] = <<>> /\ wk[w].alive /\ \A id \in 1 .. MaxReq : wk[w].callbacks[id] = NULL
    BY <2>1, StartsEmpty DEF Init
  <2>3. \A i : i \notin 1 .. Len(<<>>)
    BY EmptySeq
  <2>4. NULL \notin TcpAddrs
    BY IpcAssumption
  <2> QED
    BY <2>2, <2>3, <2>4 DEF Awaiting, Rising, Matches, Answers, Pending
<1>2. AwaitInv /\ Greeted' /\ [Next]_vars => AwaitInv'
  BY AwaitingStep DEF AwaitInv
<1> QED
  BY <1>1, <1>2, GreetedInvariant, PTL DEF Spec, AwaitInv

(* Every callback of a live worker waits for exactly one answer, which is  *)
(* asked for or on its way, and a packet never finds its callback gone:    *)
(* whatever is sent, served, read or lost in between.                      *)
THEOREM IpcCallbacksAreAwaited == Spec => []CallbacksAreAwaited
<1>1. AwaitInv => CallbacksAreAwaited
  <2>1. SUFFICES ASSUME AwaitInv, NEW w \in Workers, NEW id \in 1 .. MaxReq
                 PROVE  LET addr    == wk[w].callbacks[id]
                            asked   == {i \in 1 .. Len(Unserved(w)) :
                                          Unserved(w)[i].id = id /\ Unserved(w)[i].cmd = "bind"}
                            replies == {i \in 1 .. Len(Incoming(w)) :
                                          Incoming(w)[i].id = id /\ Incoming(w)[i].cmd = "reply"}
                        IN /\ wk[w].alive /\ addr \in TcpAddrs => Cardinality(asked) + Cardinality(replies) = 1
                           /\ addr = NULL => asked = {} /\ replies = {}
    BY DEF CallbacksAreAwaited
  <2> DEFINE addr    == wk[w].callbacks[id]
             s       == outbox[w]
             t       == inbox[w]
             asked   == {i \in 1 .. Len(s) : s[i].id = id /\ s[i].cmd = "bind"}
             replies == {i \in 1 .. Len(t) : t[i].id = id /\ t[i].cmd = "reply"}
  <2>2. Unserved(w) = s /\ Incoming(w) = t /\ Awaiting(w)
    BY <2>1 DEF AwaitInv, outbox, inbox
  <2>3. /\ Rising(wk[w].req_id, s) /\ Matches(wk[w].callbacks, s)
        /\ Answers(wk[w].req_id, wk[w].callbacks, s, t)
        /\ wk[w].alive => Pending(wk[w].callbacks, s, t)
    BY <2>2 DEF Awaiting
  <2>4. /\ \A i \in 1 .. Len(s) : i \in Nat /\ s[i].id \in Nat
        /\ \A i \in 1 .. Len(t) : i \in Nat /\ t[i].id \in Nat
    <3>1. s \in Seq(Packets) /\ t \in Seq(Packets)
      BY <2>1, StreamTypes DEF AwaitInv, Greeted, Base, TypeInv
    <3> HIDE DEF s, t
    <3>2. /\ \A i \in 1 .. Len(s) : s[i] \in Packets
          /\ \A i \in 1 .. Len(t) : t[i] \in Packets
      BY <3>1, ElementOfSeq
    <3> QED
      BY <3>2 DEF Packets
  <2> HIDE DEF addr, s, t
  <2>5. addr = NULL => asked = {} /\ replies = {}
    <3>1. NULL \notin Addrs /\ NULL \notin TcpAddrs
      BY IpcAssumption
    <3> QED
      BY <2>3, <3>1 DEF Matches, Answers, addr
  <2>6. Cardinality({}) = 0 /\ \A i : Cardinality({i}) = 1
    BY FS_EmptySet, FS_Singleton
  <2>7. ASSUME NEW i \in 1 .. Len(s), IsAsk(s[i], id)
        PROVE  asked = {i} /\ replies = {}
    <3>1. s[i].id = id /\ s[i].cmd = "bind"
      BY <2>7 DEF IsAsk
    <3>2. \A j \in 1 .. Len(s) : s[j].id = id => j = i
      BY <2>3, <2>4, <3>1 DEF Rising
    <3>3. \A j \in 1 .. Len(t) : t[j].cmd = "reply" => t[j].id # id
      BY <2>3, <2>4, <3>1 DEF Answers
    <3> QED
      BY <3>1, <3>2, <3>3
  <2>8. ASSUME NEW i \in 1 .. Len(t), IsAnswer(t[i], id)
        PROVE  asked = {} /\ replies = {i}
    <3>1. t[i].id = id /\ t[i].cmd = "reply"
      BY <2>8 DEF IsAnswer
    <3>2. \A j \in 1 .. Len(t) : t[j].id = id /\ t[j].cmd = "reply" => j = i
      BY <2>3, <2>4, <3>1 DEF Answers
    <3>3. \A j \in 1 .. Len(s) : s[j].cmd = "bind" => s[j].id # id
      <4> SUFFICES ASSUME NEW j \in 1 .. Len(s), s[j].cmd = "bind" PROVE s[j].id # id
        OBVIOUS
      <4>1. \A l \in 1 .. Len(s) : s[l].cmd # "hello" => t[i].id < s[l].id
        BY <2>3, <3>1 DEF Answers
      <4>2. id < s[j].id /\ s[j].id \in Nat
        BY <2>4, <3>1, <4>1
      <4> QED
        BY <4>2
    <3> QED
      BY <3>1, <3>2, <3>3
  <2> HIDE DEF asked, replies
  <2>9. wk[w].alive /\ addr \in TcpAddrs => Cardinality(asked) + Cardinality(replies) = 1
    <3>1. SUFFICES ASSUME wk[w].alive, addr \in TcpAddrs PROVE Cardinality(asked) + Cardinality(replies) = 1
      OBVIOUS
    <3>2. (\E i \in 1 .. Len(s) : IsAsk(s[i], id)) \/ (\E i \in 1 .. Len(t) : IsAnswer(t[i], id))
      BY <2>3, <3>1 DEF Pending, addr
    <3>3. CASE \E i \in 1 .. Len(s) : IsAsk(s[i], id)
      <4>1. Cardinality(asked) = 1 /\ Cardinality(replies) = 0
        BY <2>6, <2>7, <3>3
      <4> QED
        BY <4>1
    <3>4. CASE \E i \in 1 .. Len(t) : IsAnswer(t[i], id)
      <4>1. Cardinality(asked) = 0 /\ Cardinality(replies) = 1
        BY <2>6, <2>8, <3>4
      <4> QED
        BY <4>1
    <3> QED
      BY <3>2, <3>3, <3>4
  <2> QED
    BY <2>2, <2>5, <2>9 DEF addr, asked, replies
<1> QED
  BY <1>1, AwaitInvariant, PTL

-----------------------------------------------------------------------------
(* Sockets.  bp is bind_pool. *)
Bound(bp) == {a \in Addrs : bp[a] # 0}

Numbered(bp) ==
  /\ \A a \in Addrs : bp[a] <= Cardinality(Bound(bp))
  /\ \A a, b \in Addrs : bp[a] = bp[b] /\ bp[a] # 0 => a = b

(* A reply carries the socket of the address that its callback is for. *)
Described(bp, cbs, t) ==
  \A i \in 1 .. Len(t) : t[i].cmd = "reply" => t[i].fd = bp[cbs[t[i].id]]

Listening(bp, srv) == \A x \in srv : x[2] > 0 /\ x[2] = bp[x[1]]

Sharing(w) ==
  /\ Described(bind_pool, wk[w].callbacks, inbox[w])
  /\ Carries(wbuf[w], wk[w].accepted_fd)
  /\ Listening(bind_pool, wk[w].servers)

SocketInv == AwaitInv /\ Numbered(bind_pool) /\ \A w \in Workers : Sharing(w)

(* The first request for an address gets a number of its own. *)
LEMMA NumberedStep ==
  ASSUME NEW bp \in [Addrs -> Nat], Numbered(bp), NEW a \in Addrs, bp[a] = 0
  PROVE  Numbered([bp EXCEPT ![a] = Cardinality(Bound(bp)) + 1])
<1> DEFINE n == Cardinality(Bound(bp))
           new == [bp EXCEPT ![a] = n + 1]
<1>1. IsFiniteSet(Bound(bp)) /\ n \in Nat
  <2>1. IsFiniteSet(Bound(bp))
    BY IpcAssumption, FS_Subset DEF Bound
  <2> QED
    BY <2>1, FS_CardinalityType
<1>2. a \notin Bound(bp)
  BY DEF Bound
<1>3. Cardinality(Bound(bp) \cup {a}) = n + 1
  BY <1>1, <1>2, FS_AddElement
<1>4. \A b \in Addrs : bp[b] <= n /\ bp[b] \in Nat
  BY DEF Numbered
<1> HIDE DEF n
<1>5. new[a] = n + 1 /\ \A b \in Addrs : b # a => new[b] = bp[b]
  OBVIOUS
<1>6. Bound(new) = Bound(bp) \cup {a}
  BY <1>1, <1>5 DEF Bound
<1> HIDE DEF new
<1>7. Cardinality(Bound(new)) = n + 1
  BY <1>3, <1>6
<1>8. \A b \in Addrs : new[b] <= Cardinality(Bound(new))
  BY <1>1, <1>4, <1>5, <1>7
<1>9. \A b, c \in Addrs : new[b] = new[c] /\ new[b] # 0 => b = c
  BY <1>1, <1>4, <1>5 DEF Numbered
<1> QED
  BY <1>8, <1>9 DEF Numbered, new, n

(* Every step keeps the sockets apart and the descriptors with their       *)
(* replies.                                                                *)
LEMMA SharingStep ==
  ASSUME AwaitInv, Numbered(bind_pool), \A w \in Workers : Sharing(w), [Next]_vars
  PROVE  Numbered(bind_pool)' /\ \A w \in Workers : Sharing(w)'
<1>0. /\ TypeInv /\ TypeOK /\ wk \in [Workers -> WorkerStates] /\ bind_pool \in [Addrs -> Nat]
      /\ outbox \in [Workers -> Seq(Packets)] /\ inbox \in [Workers -> Seq(Packets)]
      /\ wbuf \in [Workers -> Seq(Packets)]
      /\ Quiet \/ \E w \in Workers : Traffic(w)
  <2>1. TypeOK
    BY DEF AwaitInv, Greeted, Base, TypeInv
  <2> QED
    BY <2>1, StepKinds, StreamTypes DEF AwaitInv, Greeted, Base, TypeOK
<1>1. /\ \A v \in Workers : \A i \in 1 .. Len(inbox[v]) : Told(v, inbox[v][i])
      /\ \A v \in Workers : Answers(wk[v].req_id, wk[v].callbacks, outbox[v], inbox[v])
      /\ \A v \in Workers : Matches(wk[v].callbacks, outbox[v])
      /\ \A v \in Workers : /\ wk[v].req_id \in Nat /\ wk[v].callbacks \in Callbacks
                            /\ outbox[v] \in Seq(Packets) /\ inbox[v] \in Seq(Packets)
                            /\ wbuf[v] \in Seq(Packets)
      /\ TcpAddrs \subseteq Addrs
  <2>1. \A v \in Workers : wk[v].req_id \in Nat /\ wk[v].callbacks \in Callbacks
    BY <1>0, IpcAssumption DEF WorkerStates, Callbacks
  <2>2. \A v \in Workers : Awaiting(v)
    BY DEF AwaitInv
  <2> QED
    BY <1>0, <2>1, <2>2, IpcAssumption DEF TypeInv, Awaiting
<1>2. \A v \in Workers : /\ Described(bind_pool, wk[v].callbacks, inbox[v])
                         /\ Carries(wbuf[v], wk[v].accepted_fd)
                         /\ Listening(bind_pool, wk[v].servers)
  BY DEF Sharing
<1>3. ASSUME NEW v \in Workers, bind_pool' = bind_pool, wk'[v].callbacks = wk[v].callbacks,
             inbox'[v] = inbox[v], wk'[v].servers = wk[v].servers,
             \/ wbuf'[v] = wbuf[v] /\ wk'[v].accepted_fd = wk[v].accepted_fd
             \/ Carries(wbuf'[v], wk'[v].accepted_fd)
      PROVE  Sharing(v)'
  <2>1. Carries(wbuf'[v], wk'[v].accepted_fd)
    BY <1>2, <1>3
  <2> QED
    BY <1>2, <1>3, <2>1 DEF Sharing
<1>4. CASE Quiet
  <2>1. \A v \in Workers :
          /\ wk'[v].callbacks = wk[v].callbacks /\ inbox'[v] = inbox[v] /\ wk'[v].servers = wk[v].servers
          /\ \/ wbuf'[v] = wbuf[v] /\ wk'[v].accepted_fd = wk[v].accepted_fd
             \/ Carries(wbuf'[v], wk'[v].accepted_fd)
    BY <1>4 DEF Quiet, Same, Shown
  <2>2. bind_pool' = bind_pool
    BY <1>4 DEF Quiet
  <2> QED
    BY <1>3, <2>1, <2>2
<1>5. ASSUME NEW w \in Workers, NEW p \in Packets, NEW cbs, Sends(w, p, cbs),
             \/ p.cmd = "broadcast" /\ cbs = wk[w].callbacks
             \/ p.cmd = "bind" /\ cbs = [wk[w].callbacks EXCEPT ![p.id] = p.arg]
      PROVE  Numbered(bind_pool)' /\ \A v \in Workers : Sharing(v)'
  <2>1. /\ p.id = wk[w].req_id /\ wk'[w].callbacks = cbs /\ wk'[w].servers = wk[w].servers
        /\ wk'[w].accepted_fd = wk[w].accepted_fd /\ UNCHANGED <<inbox, wbuf, bind_pool>>
        /\ \A v \in Workers : v # w => wk'[v] = wk[v]
    BY <1>5 DEF Sends, Others, master
  <2>2. \A id \in 1 .. MaxReq : id < p.id => cbs[id] = wk[w].callbacks[id]
    <3>1. p.id \in Nat /\ wk[w].callbacks \in [1 .. MaxReq -> Addrs \cup {NULL}]
      BY <1>1, <2>1 DEF Callbacks
    <3>2. ASSUME NEW id \in 1 .. MaxReq, id < p.id
          PROVE  cbs[id] = wk[w].callbacks[id]
      <4>1. id # p.id
        BY <3>1, <3>2
      <4> QED
        BY <1>5, <3>1, <4>1
    <3> QED
      BY <3>2
  <2>3. Described(bind_pool, cbs, inbox[w])
    <3>1. \A i \in 1 .. Len(inbox[w]) : inbox[w][i].cmd = "reply" =>
            inbox[w][i].id \in 1 .. MaxReq /\ inbox[w][i].id < p.id
      BY <1>1, <2>1 DEF Answers
    <3> QED
      BY <1>2, <2>2, <3>1 DEF Described
  <2>4. Sharing(w)'
    BY <1>2, <2>1, <2>3 DEF Sharing
  <2> QED
    BY <1>3, <2>1, <2>4
<1>6. ASSUME NEW w \in Workers, Connects(w)
      PROVE  Numbered(bind_pool)' /\ \A v \in Workers : Sharing(v)'
  <2>1. /\ wk'[w].callbacks = wk[w].callbacks /\ wk'[w].servers = wk[w].servers
        /\ wk'[w].accepted_fd = wk[w].accepted_fd /\ UNCHANGED <<inbox, wbuf, bind_pool>>
        /\ \A v \in Workers : v # w => wk'[v] = wk[v]
    BY <1>0, <1>6, LinkFields DEF Connects, Others, master
  <2> QED
    BY <1>3, <2>1
<1>7. ASSUME NEW w \in Workers, Dies(w)
      PROVE  Numbered(bind_pool)' /\ \A v \in Workers : Sharing(v)'
  <2>1. /\ wk'[w].callbacks = wk[w].callbacks /\ wk'[w].servers = wk[w].servers
        /\ inbox'[w] = <<>> /\ wbuf'[w] = <<>> /\ bind_pool' = bind_pool
        /\ \A v \in Workers : v # w => wk'[v] = wk[v] /\ inbox'[v] = inbox[v] /\ wbuf'[v] = wbuf[v]
    BY <1>0, <1>7, LinkFields DEF Dies, Others
  <2>2. \A i : i \notin 1 .. Len(<<>>)
    BY EmptySeq
  <2>3. Described(bind_pool, wk[w].callbacks, <<>>) /\ \A fd : Carries(<<>>, fd)
    BY <2>2 DEF Described, Carries
  <2>4. Sharing(w)'
    BY <1>2, <2>1, <2>3 DEF Sharing
  <2> QED
    BY <1>3, <2>1, <2>4
<1>8. ASSUME NEW w \in Workers, NEW p \in Packets, Takes(w, p)
      PROVE  Numbered(bind_pool)' /\ \A v \in Workers : Sharing(v)'
  <2>1. /\ Handled(w, p) /\ wk'[w].accepted_fd = wk[w].accepted_fd
        /\ \A v \in Workers : v # w => wk'[v] = wk[v]
    BY <1>0, <1>8, TakeFields DEF Others, Kept
  <2>2. /\ inbox[w] # <<>> /\ p = Head(inbox[w]) /\ inbox'[w] = Tail(inbox[w])
        /\ wbuf[w] # <<>> /\ p = Head(wbuf[w]) /\ wbuf'[w] = Tail(wbuf[w]) /\ bind_pool' = bind_pool
        /\ \A v \in Workers : v # w => inbox'[v] = inbox[v] /\ wbuf'[v] = wbuf[v]
    BY <1>0, <1>8 DEF Takes, master
  <2>3. /\ Len(inbox[w]) \in Nat /\ p = inbox[w][1] /\ 1 \in 1 .. Len(inbox[w])
        /\ \A i \in 1 .. Len(inbox'[w]) : i + 1 \in 1 .. Len(inbox[w]) /\ inbox'[w][i] = inbox[w][i + 1] /\ 1 < i + 1
    BY <1>1, <2>2, TailAt
  <2>4. /\ Len(wbuf[w]) \in Nat /\ p = wbuf[w][1] /\ 1 \in 1 .. Len(wbuf[w]) /\ Len(wbuf'[w]) = Len(wbuf[w]) - 1
        /\ \A i \in 1 .. Len(wbuf'[w]) : i + 1 \in 1 .. Len(wbuf[w]) /\ wbuf'[w][i] = wbuf[w][i + 1]
    BY <1>1, <2>2, TailAt
  <2>5. Carries(wbuf'[w], wk[w].accepted_fd)
    BY <1>2, <2>4 DEF Carries
  <2>6. Described(bind_pool, wk[w].callbacks, inbox'[w])
    <3>1. Described(bind_pool, wk[w].callbacks, inbox[w])
      BY <1>2
    <3> SUFFICES ASSUME NEW i \in 1 .. Len(inbox'[w]), inbox'[w][i].cmd = "reply"
                 PROVE  inbox'[w][i].fd = bind_pool[wk[w].callbacks[inbox'[w][i].id]]
      BY DEF Described
    <3>2. i + 1 \in 1 .. Len(inbox[w]) /\ inbox'[w][i] = inbox[w][i + 1]
      BY <2>3
    <3> QED
      BY <3>1, <3>2 DEF Described
  <2>7. CASE wk'[w].callbacks = wk[w].callbacks /\ wk'[w].servers = wk[w].servers
    <3>1. Sharing(w)'
      BY <1>2, <2>1, <2>2, <2>5, <2>6, <2>7 DEF Sharing
    <3> QED
      BY <1>3, <2>1, <2>2, <3>1
  <2>8. CASE /\ p.cmd = "reply" /\ wk'[w].callbacks = [wk[w].callbacks EXCEPT ![p.id] = NULL]
             /\ wk'[w].servers = wk[w].servers \cup {<<wk[w].callbacks[p.id], wk[w].accepted_fd>>}
    <3>1. p.fd > 0 /\ p.id \in 1 .. MaxReq
      BY <1>1, <2>3, <2>8 DEF Told
    <3>2. p.fd = wk[w].accepted_fd
      BY <1>2, <2>4, <3>1 DEF Carries
    <3>3. p.fd = bind_pool[wk[w].callbacks[p.id]]
      BY <1>2, <2>3, <2>8 DEF Described
    <3>4. Listening(bind_pool, wk'[w].servers)
      BY <1>2, <2>8, <3>1, <3>2, <3>3 DEF Listening
    <3>5. Described(bind_pool, wk'[w].callbacks, inbox'[w])
      <4>1. \A id \in 1 .. MaxReq : id # p.id => wk'[w].callbacks[id] = wk[w].callbacks[id]
        BY <1>1, <2>8 DEF Callbacks
      <4>2. \A i \in 1 .. Len(inbox'[w]) : inbox'[w][i].cmd = "reply" =>
              inbox'[w][i].id \in 1 .. MaxReq /\ p.id < inbox'[w][i].id
        <5>1. \A j \in 1 .. Len(inbox[w]) : inbox[w][j].cmd = "reply" =>
                inbox[w][j].id \in 1 .. MaxReq /\ (1 < j => p.id < inbox[w][j].id)
          BY <1>1, <2>3, <2>8 DEF Answers
        <5> QED
          BY <2>3, <5>1
      <4>3. \A i \in 1 .. Len(inbox'[w]) : inbox'[w][i].cmd = "reply" =>
              inbox'[w][i].id \in 1 .. MaxReq /\ inbox'[w][i].id # p.id
        BY <3>1, <4>2
      <4> QED
        BY <2>6, <4>1, <4>3 DEF Described
    <3>6. Sharing(w)'
      BY <2>1, <2>2, <2>5, <3>4, <3>5 DEF Sharing
    <3> QED
      BY <1>3, <2>1, <2>2, <3>6
  <2> QED
    BY <2>1, <2>7, <2>8 DEF Handled
<1>9. ASSUME NEW c \in Workers, NEW p \in Packets, Serves(c, p)
      PROVE  Numbered(bind_pool)' /\ \A v \in Workers : Sharing(v)'
  <2>1. UNCHANGED <<wk, wbuf>> /\ outbox[c] # <<>> /\ p = Head(outbox[c])
    BY <1>9 DEF Serves
  <2>2. p = outbox[c][1] /\ 1 \in 1 .. Len(outbox[c])
    BY <1>1, <2>1, TailAt
  <2>3. CASE inbox' = inbox /\ bind_pool' = bind_pool
    BY <1>3, <2>1, <2>3
  <2>4. CASE Relays(c, p)
    <3>1. bind_pool' = bind_pool /\ p.cmd = "broadcast"
          /\ \A v \in Workers : inbox'[v] = inbox[v] \/ inbox'[v] = Append(inbox[v], p)
      BY <2>4 DEF Relays
    <3>2. ASSUME NEW v \in Workers, inbox'[v] = Append(inbox[v], p)
          PROVE  Sharing(v)'
      <4>1. Described(bind_pool, wk[v].callbacks, inbox'[v])
        <5>1. inbox[v] \in Seq(Packets) /\ Described(bind_pool, wk[v].callbacks, inbox[v])
          BY <1>1, <1>2
        <5>2. \A i \in 1 .. Len(inbox'[v]) :
                inbox'[v][i] = p \/ (i \in 1 .. Len(inbox[v]) /\ inbox'[v][i] = inbox[v][i])
          BY <3>2, <5>1, AppendAt
        <5> QED
          BY <3>1, <5>1, <5>2 DEF Described
      <4> QED
        BY <1>2, <2>1, <3>1, <4>1 DEF Sharing
    <3> QED
      BY <1>3, <2>1, <3>1, <3>2
  <2>5. CASE Replies(c, p)
    <3> DEFINE fd == IF bind_pool[p.arg] = 0 THEN NextFd ELSE bind_pool[p.arg]
               r == Packet("reply", c, p.id, NULL, fd)
    <3>1. /\ p.cmd = "bind" /\ p.arg \in TcpAddrs /\ p.arg \in Addrs /\ bind_pool[p.arg] \in Nat
          /\ bind_pool' = [bind_pool EXCEPT ![p.arg] = fd]
          /\ inbox' = IF wk[c].alive THEN [inbox EXCEPT ![c] = Append(@, r)] ELSE inbox
      BY <1>0, <1>1, <2>5 DEF Replies
    <3>2. fd \in Nat /\ fd > 0 /\ NextFd = Cardinality(Bound(bind_pool)) + 1
      BY <3>1, NextFdType DEF NextFd, Bound
    <3>3. Numbered(bind_pool)'
      <4>1. CASE bind_pool[p.arg] = 0
        BY <1>0, <3>1, <3>2, <4>1, NumberedStep
      <4>2. CASE bind_pool[p.arg] # 0
        <5>1. bind_pool' = bind_pool
          BY <1>0, <3>1, <4>2
        <5> QED
          BY <5>1
      <4> QED
        BY <4>1, <4>2
    <3> HIDE DEF fd
    <3>4. r \in Packets /\ r.cmd = "reply" /\ r.id = p.id /\ r.fd = fd
      BY <3>2 DEF Packet, Packets
    <3> HIDE DEF r
    <3>5. /\ bind_pool'[p.arg] = fd
          /\ \A a \in Addrs : bind_pool[a] # 0 => bind_pool'[a] = bind_pool[a]
      BY <1>0, <3>1 DEF fd
    <3>6. \A v \in Workers : Described(bind_pool', wk[v].callbacks, inbox[v])
      <4>1. ASSUME NEW v \in Workers, NEW i \in 1 .. Len(inbox[v]), inbox[v][i].cmd = "reply"
            PROVE  inbox[v][i].fd = bind_pool'[wk[v].callbacks[inbox[v][i].id]]
        <5>1. wk[v].callbacks[inbox[v][i].id] \in Addrs
          BY <1>1, <4>1 DEF Answers
        <5>2. inbox[v][i].fd = bind_pool[wk[v].callbacks[inbox[v][i].id]] /\ inbox[v][i].fd > 0
          BY <1>1, <1>2, <4>1 DEF Described, Told
        <5> QED
          <6>1. bind_pool[wk[v].callbacks[inbox[v][i].id]] # 0
            BY <5>2
          <6> QED
            BY <3>5, <5>1, <5>2, <6>1
      <4> QED
        BY <4>1 DEF Described
    <3>7. \A v \in Workers : Listening(bind_pool', wk[v].servers)
      <4>1. ASSUME NEW v \in Workers, NEW x \in wk[v].servers
            PROVE  x[2] > 0 /\ x[2] = bind_pool'[x[1]]
        <5>1. x[1] \in Addrs
          BY <1>0 DEF WorkerStates
        <5>2. x[2] > 0 /\ x[2] = bind_pool[x[1]]
          BY <1>2 DEF Listening
        <5> QED
          BY <3>5, <5>1, <5>2
      <4> QED
        BY <4>1 DEF Listening
    <3>8. wk[c].callbacks[p.id] = p.arg
      BY <1>1, <2>2, <3>1 DEF Matches
    <3>9. Described(bind_pool', wk[c].callbacks, Append(inbox[c], r))
      <4>1. \A i \in 1 .. Len(Append(inbox[c], r)) :
              \/ Append(inbox[c], r)[i] = r
              \/ i \in 1 .. Len(inbox[c]) /\ Append(inbox[c], r)[i] = inbox[c][i]
        BY <1>1, <3>4, AppendAt
      <4> QED
        <5> DEFINE q == Append(inbox[c], r)
        <5>1. Described(bind_pool', wk[c].callbacks, inbox[c])
          BY <3>6
        <5> HIDE DEF q
        <5>2. ASSUME NEW i \in 1 .. Len(q), q[i].cmd = "reply"
              PROVE  q[i].fd = bind_pool'[wk[c].callbacks[q[i].id]]
          <6>1. CASE q[i] = r
            BY <3>4, <3>5, <3>8, <6>1
          <6>2. CASE i \in 1 .. Len(inbox[c]) /\ q[i] = inbox[c][i]
            BY <5>1, <5>2, <6>2 DEF Described
          <6> QED
            BY <4>1, <6>1, <6>2 DEF q
        <5> QED
          BY <5>2 DEF Described, q
    <3>10. ASSUME NEW v \in Workers
           PROVE  Described(bind_pool', wk[v].callbacks, inbox'[v])
      <4>1. inbox'[v] = inbox[v] \/ (v = c /\ inbox'[v] = Append(inbox[c], r))
        BY <1>0, <3>1
      <4> QED
        BY <3>6, <3>9, <4>1
    <3>11. \A v \in Workers : Sharing(v)'
      BY <1>2, <2>1, <3>7, <3>10 DEF Sharing
    <3> QED
      BY <3>3, <3>11
  <2> QED
    BY <1>9, <2>3, <2>4, <2>5 DEF Serves
<1> QED
  BY <1>0, <1>4, <1>5, <1>6, <1>7, <1>8, <1>9 DEF Traffic

(* The invariant of the sockets. *)
LEMMA SocketInvariant ==
  Spec => []SocketInv
<1>1. Init /\ AwaitInv => SocketInv
  <2>1. SUFFICES ASSUME Init PROVE Numbered(bind_pool) /\ \A w \in Workers : Sharing(w)
    BY DEF SocketInv
  <2>2. /\ \A w \in Workers : inbox[w] = <<>> /\ wbuf[w] = <<>> /\ wk[w].servers = {}
        /\ \A a \in Addrs : bind_pool[a] = 0
    BY <2>1, StartsEmpty DEF Init
  <2>3. Bound(bind_pool) = {} /\ Cardinality({}) = 0
    BY <2>2, FS_EmptySet DEF Bound
  <2>4. Numbered(bind_pool)
    BY <2>2, <2>3 DEF Numbered
  <2>5. \A i : i \notin 1 .. Len(<<>>)
    BY EmptySeq
  <2> QED
    BY <2>2, <2>4, <2>5 DEF Sharing, Described, Carries, Listening
<1>2. SocketInv /\ AwaitInv' /\ [Next]_vars => SocketInv'
  BY SharingStep DEF SocketInv
<1> QED
  BY <1>1, <1>2, AwaitInvariant, PTL DEF Spec, SocketInv

(* Workers that listen on an address share the one socket the master bound *)
(* for it, and two addresses have two sockets: although the descriptor a   *)
(* callback is given is the last one the process has received.             *)
THEOREM IpcOneSocketPerAddress == Spec => []OneSocketPerAddress
<1>1. SocketInv => OneSocketPerAddress
  BY DEF SocketInv, Sharing, Numbered, Listening, OneSocketPerAddress
<1> QED
  BY <1>1, SocketInvariant, PTL

-----------------------------------------------------------------------------
(* Broadcasts of w on their way to another worker: h is what that one has  *)
(* heard, t what is on its way to it, s what w has sent and the master not *)
(* served, n the req_id of w.                                              *)
From(w, p) == p.cmd = "broadcast" /\ p.from = w

InOrder(w, s) ==
  \A i, j \in 1 .. Len(s) : i < j /\ From(w, s[i]) /\ From(w, s[j]) => s[i].id < s[j].id

Precedes(w, s, t) ==
  \A i \in 1 .. Len(s), j \in 1 .. Len(t) : From(w, s[i]) /\ From(w, t[j]) => s[i].id < t[j].id

Below(w, s, n) == \A i \in 1 .. Len(s) : From(w, s[i]) => s[i].id < n

Chain(w, h, t, s, n) ==
  /\ InOrder(w, h) /\ InOrder(w, t)
  /\ Precedes(w, h, t) /\ Precedes(w, h, s) /\ Precedes(w, t, s)
  /\ Below(w, h, n) /\ Below(w, t, n)

(* A sequence that a packet is added to. *)
LEMMA OrderAppend ==
  ASSUME NEW w, NEW s \in Seq(Packets), NEW p \in Packets
  PROVE  /\ InOrder(w, s) /\ (From(w, p) => Below(w, s, p.id)) => InOrder(w, Append(s, p))
         /\ \A n : Below(w, s, n) /\ (From(w, p) => p.id < n) => Below(w, Append(s, p), n)
         /\ \A t \in Seq(Packets) :
              Precedes(w, t, s) /\ (From(w, p) => Below(w, t, p.id)) => Precedes(w, t, Append(s, p))
         /\ \A t \in Seq(Packets) :
              Precedes(w, s, t) /\ (From(w, p) => \A j \in 1 .. Len(t) : From(w, t[j]) => p.id < t[j].id)
                => Precedes(w, Append(s, p), t)
<1> DEFINE q == Append(s, p)
<1>1. /\ Len(s) \in Nat /\ Len(q) = Len(s) + 1 /\ q[Len(s) + 1] = p
      /\ \A i \in 1 .. Len(s) : i \in 1 .. Len(q) /\ q[i] = s[i]
      /\ \A i \in 1 .. Len(q) : i = Len(s) + 1 \/ i \in 1 .. Len(s)
  BY AppendAt
<1> HIDE DEF q
<1>2. ASSUME InOrder(w, s), From(w, p) => Below(w, s, p.id)
      PROVE  InOrder(w, q)
  <2>1. SUFFICES ASSUME NEW i \in 1 .. Len(q), NEW j \in 1 .. Len(q), i < j, From(w, q[i]), From(w, q[j])
                 PROVE  q[i].id < q[j].id
    BY DEF InOrder
  <2>2. i \in 1 .. Len(s) /\ q[i] = s[i]
    BY <1>1, <2>1
  <2>3. CASE j = Len(s) + 1
    BY <1>1, <1>2, <2>1, <2>2, <2>3 DEF Below
  <2>4. CASE j \in 1 .. Len(s)
    BY <1>1, <1>2, <2>1, <2>2, <2>4 DEF InOrder
  <2> QED
    BY <1>1, <2>3, <2>4
<1>3. ASSUME NEW n, Below(w, s, n), From(w, p) => p.id < n
      PROVE  Below(w, q, n)
  BY <1>1, <1>3 DEF Below
<1>4. ASSUME NEW t \in Seq(Packets), Precedes(w, t, s), From(w, p) => Below(w, t, p.id)
      PROVE  Precedes(w, t, q)
  BY <1>1, <1>4 DEF Precedes, Below
<1>5. ASSUME NEW t \in Seq(Packets), Precedes(w, s, t),
             From(w, p) => \A j \in 1 .. Len(t) : From(w, t[j]) => p.id < t[j].id
      PROVE  Precedes(w, q, t)
  BY <1>1, <1>5 DEF Precedes
<1> QED
  BY <1>2, <1>3, <1>4, <1>5 DEF q

(* A sequence that its first packet is taken from. *)
LEMMA OrderTail ==
  ASSUME NEW w, NEW s \in Seq(Packets), s # <<>>
  PROVE  /\ InOrder(w, s) => InOrder(w, Tail(s))
         /\ \A n : Below(w, s, n) => Below(w, Tail(s), n) /\ (From(w, Head(s)) => Head(s).id < n)
         /\ \A t \in Seq(Packets) :
              Precedes(w, t, s) => Precedes(w, t, Tail(s)) /\ (From(w, Head(s)) => Below(w, t, Head(s).id))
         /\ \A t \in Seq(Packets) :
              Precedes(w, s, t) =>
                /\ Precedes(w, Tail(s), t)
                /\ From(w, Head(s)) => \A j \in 1 .. Len(t) : From(w, t[j]) => Head(s).id < t[j].id
         /\ InOrder(w, s) /\ From(w, Head(s)) =>
              \A j \in 1 .. Len(Tail(s)) : From(w, Tail(s)[j]) => Head(s).id < Tail(s)[j].id
<1> DEFINE q == Tail(s)
           h == Head(s)
<1>1. /\ Len(s) \in Nat /\ h = s[1] /\ 1 \in 1 .. Len(s)
      /\ \A i \in 1 .. Len(q) : i + 1 \in 1 .. Len(s) /\ q[i] = s[i + 1] /\ 1 < i + 1
      /\ \A i, j \in 1 .. Len(q) : i < j => i + 1 < j + 1
  BY TailAt
<1> HIDE DEF q, h
<1>2. ASSUME InOrder(w, s)
      PROVE  /\ InOrder(w, q)
             /\ From(w, h) => \A j \in 1 .. Len(q) : From(w, q[j]) => h.id < q[j].id
  BY <1>1, <1>2 DEF InOrder
<1>3. ASSUME NEW n, Below(w, s, n)
      PROVE  Below(w, q, n) /\ (From(w, h) => h.id < n)
  BY <1>1, <1>3 DEF Below
<1>4. ASSUME NEW t \in Seq(Packets), Precedes(w, t, s)
      PROVE  Precedes(w, t, q) /\ (From(w, h) => Below(w, t, h.id))
  BY <1>1, <1>4 DEF Precedes, Below
<1>5. ASSUME NEW t \in Seq(Packets), Precedes(w, s, t)
      PROVE  Precedes(w, q, t) /\ (From(w, h) => \A j \in 1 .. Len(t) : From(w, t[j]) => h.id < t[j].id)
  BY <1>1, <1>5 DEF Precedes
<1> QED
  BY <1>2, <1>3, <1>4, <1>5 DEF q, h

(* w sends. *)
LEMMA ChainSend ==
  ASSUME NEW w, NEW h \in Seq(Packets), NEW t \in Seq(Packets), NEW s \in Seq(Packets), NEW n \in Nat,
         NEW p \in Packets, p.id = n, Chain(w, h, t, s, n)
  PROVE  Chain(w, h, t, Append(s, p), n + 1)
<1>1. Precedes(w, h, Append(s, p)) /\ Precedes(w, t, Append(s, p))
  BY OrderAppend DEF Chain
<1>2. ASSUME NEW q \in Seq(Packets), Below(w, q, n)
      PROVE  Below(w, q, n + 1)
  <2>1. \A i \in 1 .. Len(q) : q[i] \in Packets
    BY ElementOfSeq
  <2>2. \A i \in 1 .. Len(q) : q[i].id \in Nat
    BY <2>1 DEF Packets
  <2> QED
    BY <1>2, <2>2 DEF Below
<1> QED
  BY <1>1, <1>2 DEF Chain

(* w says hello. *)
LEMMA ChainHello ==
  ASSUME NEW w, NEW h \in Seq(Packets), NEW t \in Seq(Packets), NEW s \in Seq(Packets), NEW n \in Nat,
         NEW p \in Packets, p.cmd = "hello", Chain(w, h, t, s, n)
  PROVE  Chain(w, h, t, <<p>> \o s, n)
<1> DEFINE q == <<p>> \o s
<1>1. /\ Len(s) \in Nat /\ Len(q) = Len(s) + 1 /\ q[1] = p
      /\ \A i \in 2 .. Len(s) + 1 : i - 1 \in 1 .. Len(s) /\ q[i] = s[i - 1]
  BY PrependAt
<1> HIDE DEF q
<1>2. \A i \in 1 .. Len(q) : From(w, q[i]) => i - 1 \in 1 .. Len(s) /\ q[i] = s[i - 1]
  <2>1. \A i \in 1 .. Len(q) : i = 1 \/ i \in 2 .. Len(s) + 1
    BY <1>1
  <2> QED
    BY <1>1, <2>1 DEF From
<1>3. ASSUME NEW x, Precedes(w, x, s)
      PROVE  Precedes(w, x, q)
  BY <1>2, <1>3 DEF Precedes
<1> QED
  BY <1>3 DEF Chain, q

(* The other worker takes a packet, and may hear it. *)
LEMMA ChainTake ==
  ASSUME NEW w, NEW h \in Seq(Packets), NEW t \in Seq(Packets), NEW s \in Seq(Packets), NEW n \in Nat,
         t # <<>>, Chain(w, h, t, s, n)
  PROVE  Chain(w, h, Tail(t), s, n) /\ Chain(w, Append(h, Head(t)), Tail(t), s, n)
<1>1. Tail(t) \in Seq(Packets) /\ Head(t) \in Packets
  BY HeadTailProperties
<1>2. /\ InOrder(w, Tail(t)) /\ Below(w, Tail(t), n) /\ Precedes(w, h, Tail(t)) /\ Precedes(w, Tail(t), s)
  BY OrderTail DEF Chain
<1>3. /\ From(w, Head(t)) => Head(t).id < n
      /\ From(w, Head(t)) => Below(w, h, Head(t).id)
      /\ From(w, Head(t)) => \A j \in 1 .. Len(s) : From(w, s[j]) => Head(t).id < s[j].id
      /\ From(w, Head(t)) => \A j \in 1 .. Len(Tail(t)) : From(w, Tail(t)[j]) => Head(t).id < Tail(t)[j].id
  BY OrderTail DEF Chain
<1>4. InOrder(w, Append(h, Head(t))) /\ Below(w, Append(h, Head(t)), n)
  BY <1>1, <1>3, OrderAppend DEF Chain
<1>5. Precedes(w, Append(h, Head(t)), Tail(t)) /\ Precedes(w, Append(h, Head(t)), s)
  <2>1. Precedes(w, h, Tail(t)) /\ Precedes(w, h, s)
    BY <1>2 DEF Chain
  <2> QED
    BY <1>1, <1>3, <2>1, OrderAppend
<1> QED
  BY <1>2, <1>4, <1>5 DEF Chain

(* The master serves a packet of w, and may relay it. *)
LEMMA ChainServe ==
  ASSUME NEW w, NEW h \in Seq(Packets), NEW t \in Seq(Packets), NEW s \in Seq(Packets), NEW n \in Nat,
         s # <<>>, Rising(n, s), Chain(w, h, t, s, n)
  PROVE  Chain(w, h, t, Tail(s), n) /\ Chain(w, h, Append(t, Head(s)), Tail(s), n)
<1>1. Tail(s) \in Seq(Packets) /\ Head(s) \in Packets
  BY HeadTailProperties
<1>2. InOrder(w, s) /\ Below(w, s, n)
  BY DEF Rising, InOrder, Below
<1>3. /\ Precedes(w, h, Tail(s)) /\ Precedes(w, t, Tail(s))
      /\ From(w, Head(s)) => Below(w, h, Head(s).id)
      /\ From(w, Head(s)) => Below(w, t, Head(s).id)
      /\ From(w, Head(s)) => Head(s).id < n
      /\ From(w, Head(s)) => \A j \in 1 .. Len(Tail(s)) : From(w, Tail(s)[j]) => Head(s).id < Tail(s)[j].id
  BY <1>2, OrderTail DEF Chain
<1>4. InOrder(w, Append(t, Head(s))) /\ Below(w, Append(t, Head(s)), n)
  BY <1>1, <1>3, OrderAppend DEF Chain
<1>5. Precedes(w, h, Append(t, Head(s))) /\ Precedes(w, Append(t, Head(s)), Tail(s))
  <2>1. Precedes(w, h, t) /\ Precedes(w, t, Tail(s))
    BY <1>3 DEF Chain
  <2> QED
    BY <1>1, <1>3, <2>1, OrderAppend
<1> QED
  BY <1>3, <1>4, <1>5 DEF Chain

(* Packets of others do not count. *)
LEMMA ChainOther ==
  ASSUME NEW w, NEW h \in Seq(Packets), NEW t \in Seq(Packets), NEW s \in Seq(Packets), NEW n \in Nat,
         NEW p \in Packets, ~From(w, p), Chain(w, h, t, s, n)
  PROVE  Chain(w, h, Append(t, p), s, n)
<1>1. /\ InOrder(w, Append(t, p)) /\ Below(w, Append(t, p), n)
      /\ Precedes(w, h, Append(t, p)) /\ Precedes(w, Append(t, p), s)
  BY OrderAppend DEF Chain
<1> QED
  BY <1>1 DEF Chain

(* Two sequences in order, the one before the other, are in order. *)
LEMMA OrderCat ==
  ASSUME NEW w, NEW a \in Seq(Packets), NEW b \in Seq(Packets)
  PROVE  /\ InOrder(w, a) /\ InOrder(w, b) /\ Precedes(w, a, b) => InOrder(w, a \o b)
         /\ \A c \in Seq(Packets) : Precedes(w, a, c) /\ Precedes(w, b, c) => Precedes(w, a \o b, c)
<1> DEFINE q == a \o b
<1>1. /\ Len(a) \in Nat /\ Len(b) \in Nat /\ Len(q) = Len(a) + Len(b)
      /\ \A i \in 1 .. Len(a) + Len(b) : q[i] = IF i <= Len(a) THEN a[i] ELSE b[i - Len(a)]
  BY ConcatProperties, LenProperties
<1> HIDE DEF q
<1>2. \A i \in 1 .. Len(q) : \/ i \in 1 .. Len(a) /\ q[i] = a[i]
                             \/ i > Len(a) /\ i - Len(a) \in 1 .. Len(b) /\ q[i] = b[i - Len(a)]
  BY <1>1
<1>3. ASSUME InOrder(w, a), InOrder(w, b), Precedes(w, a, b)
      PROVE  InOrder(w, q)
  <2>1. SUFFICES ASSUME NEW i \in 1 .. Len(q), NEW j \in 1 .. Len(q), i < j, From(w, q[i]), From(w, q[j])
                 PROVE  q[i].id < q[j].id
    BY DEF InOrder
  <2>2. CASE i \in 1 .. Len(a) /\ q[i] = a[i] /\ j \in 1 .. Len(a) /\ q[j] = a[j]
    BY <1>3, <2>1, <2>2 DEF InOrder
  <2>3. CASE i \in 1 .. Len(a) /\ q[i] = a[i] /\ j - Len(a) \in 1 .. Len(b) /\ q[j] = b[j - Len(a)]
    BY <1>3, <2>1, <2>3 DEF Precedes
  <2>4. CASE /\ i - Len(a) \in 1 .. Len(b) /\ q[i] = b[i - Len(a)]
             /\ j - Len(a) \in 1 .. Len(b) /\ q[j] = b[j - Len(a)]
    <3>1. i - Len(a) < j - Len(a)
      BY <1>1, <2>1
    <3> QED
      BY <1>3, <2>1, <2>4, <3>1 DEF InOrder
  <2>5. ~(i > Len(a) /\ j \in 1 .. Len(a))
    BY <1>1, <2>1
  <2> QED
    BY <1>2, <2>2, <2>3, <2>4, <2>5
<1>4. ASSUME NEW c \in Seq(Packets), Precedes(w, a, c), Precedes(w, b, c)
      PROVE  Precedes(w, q, c)
  BY <1>2, <1>4 DEF Precedes
<1> QED
  BY <1>3, <1>4 DEF q

(* v hears nothing of its own, and what it hears of w is in order. *)
Foreign(v, h) == \A i \in 1 .. Len(h) : ~From(v, h[i])

Hearing(v) ==
  /\ Foreign(v, wk[v].heard)
  /\ \A w \in Workers \ {v} : Chain(w, wk[v].heard, inbox[v], outbox[w], wk[w].req_id)

HearInv == AwaitInv /\ \A v \in Workers : Hearing(v)

(* Every step keeps the order of broadcasts. *)
LEMMA HearingStep ==
  ASSUME AwaitInv, \A v \in Workers : Hearing(v), [Next]_vars
  PROVE  \A v \in Workers : Hearing(v)'
<1>0. /\ TypeInv /\ wk \in [Workers -> WorkerStates]
      /\ outbox \in [Workers -> Seq(Packets)] /\ inbox \in [Workers -> Seq(Packets)]
      /\ Quiet \/ \E w \in Workers : Traffic(w)
  <2>1. TypeOK
    BY DEF AwaitInv, Greeted, Base, TypeInv
  <2> QED
    BY <2>1, StepKinds, StreamTypes DEF AwaitInv, Greeted, Base
<1>1. \A v \in Workers : /\ wk[v].req_id \in Nat /\ wk[v].heard \in Seq(Packets)
                         /\ outbox[v] \in Seq(Packets) /\ inbox[v] \in Seq(Packets)
                         /\ Rising(wk[v].req_id, outbox[v])
  <2>1. \A v \in Workers : wk[v].req_id \in Nat /\ wk[v].heard \in Seq(Packets)
    BY <1>0, IpcAssumption DEF WorkerStates
  <2>2. \A v \in Workers : Rising(wk[v].req_id, outbox[v])
    BY DEF AwaitInv, Awaiting
  <2> QED
    BY <1>0, <2>1, <2>2
<1>2. /\ \A v \in Workers : Foreign(v, wk[v].heard)
      /\ \A v \in Workers : \A w \in Workers \ {v} :
           Chain(w, wk[v].heard, inbox[v], outbox[w], wk[w].req_id)
  BY DEF Hearing
<1>3. SUFFICES /\ \A v \in Workers : Foreign(v, wk'[v].heard)
               /\ \A v \in Workers : \A w \in Workers \ {v} :
                    Chain(w, wk'[v].heard, inbox'[v], outbox'[w], wk'[w].req_id)
  BY DEF Hearing
<1> DEFINE Goal == /\ \A v \in Workers : Foreign(v, wk'[v].heard)
                   /\ \A v \in Workers : \A w \in Workers \ {v} :
                        Chain(w, wk'[v].heard, inbox'[v], outbox'[w], wk'[w].req_id)
<1>4. CASE Quiet
  <2>1. \A v \in Workers : wk'[v].req_id = wk[v].req_id /\ wk'[v].heard = wk[v].heard
    BY <1>4 DEF Quiet, Same
  <2>2. outbox' = outbox /\ inbox' = inbox
    BY <1>4 DEF Quiet
  <2> QED
    BY <1>2, <2>1, <2>2
<1>5. ASSUME NEW x \in Workers, NEW p \in Packets, NEW cbs, Sends(x, p, cbs)
      PROVE  Goal
  <2>1. /\ p.id = wk[x].req_id /\ wk'[x].req_id = wk[x].req_id + 1 /\ inbox' = inbox
        /\ outbox'[x] = Append(outbox[x], p)
        /\ \A v \in Workers : wk'[v].heard = wk[v].heard
        /\ \A v \in Workers : v # x => wk'[v] = wk[v] /\ outbox'[v] = outbox[v]
    BY <1>0, <1>5 DEF Sends, Others
  <2>2. ASSUME NEW v \in Workers, NEW w \in Workers \ {v}
        PROVE  Chain(w, wk[v].heard, inbox[v], outbox'[w], wk'[w].req_id)
    <3>1. CASE w = x
      <4>1. Chain(x, wk[v].heard, inbox[v], Append(outbox[x], p), wk[x].req_id + 1)
        BY <1>1, <1>2, <2>1, <3>1, ChainSend
      <4> QED
        BY <2>1, <3>1, <4>1
    <3>2. CASE w # x
      BY <1>2, <2>1, <3>2
    <3> QED
      BY <3>1, <3>2
  <2> QED
    BY <1>2, <2>1, <2>2
<1>6. ASSUME NEW x \in Workers, Connects(x)
      PROVE  Goal
  <2> DEFINE p == Packet("hello", x, 0, NULL, 0)
  <2>1. p \in Packets /\ p.cmd = "hello"
    BY DEF Packet, Packets
  <2>2. outbox' = [outbox EXCEPT ![x] = <<p>> \o @] /\ inbox' = inbox
    BY <1>6 DEF Connects
  <2> HIDE DEF p
  <2>3. /\ outbox'[x] = <<p>> \o outbox[x] /\ \A v \in Workers : v # x => outbox'[v] = outbox[v]
        /\ \A v \in Workers : wk'[v].heard = wk[v].heard /\ wk'[v].req_id = wk[v].req_id
    BY <1>0, <1>6, <2>2, LinkFields DEF Others
  <2>4. ASSUME NEW v \in Workers, NEW w \in Workers \ {v}
        PROVE  Chain(w, wk[v].heard, inbox[v], outbox'[w], wk[w].req_id)
    <3>1. CASE w = x
      <4>1. Chain(x, wk[v].heard, inbox[v], outbox[x], wk[x].req_id)
        BY <1>2, <3>1
      <4>2. Chain(x, wk[v].heard, inbox[v], <<p>> \o outbox[x], wk[x].req_id)
        BY <1>1, <2>1, <4>1, ChainHello
      <4> QED
        BY <2>3, <3>1, <4>2
    <3>2. CASE w # x
      BY <1>2, <2>3, <3>2
    <3> QED
      BY <3>1, <3>2
  <2> QED
    BY <1>2, <2>2, <2>3, <2>4
<1>7. ASSUME NEW x \in Workers, Dies(x)
      PROVE  Goal
  <2>1. /\ \A v \in Workers : wk'[v].heard = wk[v].heard /\ wk'[v].req_id = wk[v].req_id
        /\ outbox' = outbox /\ inbox'[x] = <<>> /\ \A v \in Workers : v # x => inbox'[v] = inbox[v]
    BY <1>0, <1>7, LinkFields DEF Others, Dies
  <2>2. \A i : i \notin 1 .. Len(<<>>)
    BY EmptySeq
  <2>3. ASSUME NEW v \in Workers, NEW w \in Workers \ {v}
        PROVE  Chain(w, wk[v].heard, inbox'[v], outbox[w], wk[w].req_id)
    <3>1. Chain(w, wk[v].heard, <<>>, outbox[w], wk[w].req_id)
      BY <1>2, <2>2 DEF Chain, InOrder, Precedes, Below
    <3> QED
      BY <1>2, <2>1, <3>1
  <2> QED
    BY <1>2, <2>1, <2>3
<1>8. ASSUME NEW x \in Workers, NEW p \in Packets, Takes(x, p)
      PROVE  Goal
  <2>1. /\ Handled(x, p) /\ \A v \in Workers : v # x => wk'[v] = wk[v]
        /\ \A v \in Workers : wk'[v].req_id = wk[v].req_id
    BY <1>0, <1>8, TakeFields DEF Others, Kept
  <2>2. /\ outbox' = outbox /\ inbox[x] # <<>> /\ p = Head(inbox[x]) /\ inbox'[x] = Tail(inbox[x])
        /\ \A v \in Workers : v # x => inbox'[v] = inbox[v]
    BY <1>0, <1>8 DEF Takes
  <2>3. wk'[x].heard = wk[x].heard \/ wk'[x].heard = Append(wk[x].heard, p)
    BY <2>1 DEF Handled
  <2>4. ~From(x, p)
    <3>1. Told(x, p)
      BY <1>0, <1>1, <2>2, TailAt DEF TypeInv
    <3> QED
      BY <3>1 DEF Told, From
  <2>5. Foreign(x, wk'[x].heard)
    <3>1. CASE wk'[x].heard = Append(wk[x].heard, p)
      <4>1. \A i \in 1 .. Len(wk'[x].heard) :
              \/ wk'[x].heard[i] = p
              \/ i \in 1 .. Len(wk[x].heard) /\ wk'[x].heard[i] = wk[x].heard[i]
        BY <1>1, <3>1, AppendAt
      <4> QED
        BY <1>2, <2>4, <4>1 DEF Foreign
    <3> QED
      BY <1>2, <2>3, <3>1
  <2>6. ASSUME NEW w \in Workers \ {x}
        PROVE  Chain(w, wk'[x].heard, inbox'[x], outbox[w], wk[w].req_id)
    <3>1. Chain(w, wk[x].heard, inbox[x], outbox[w], wk[w].req_id)
      BY <1>2
    <3>2. /\ Chain(w, wk[x].heard, Tail(inbox[x]), outbox[w], wk[w].req_id)
          /\ Chain(w, Append(wk[x].heard, p), Tail(inbox[x]), outbox[w], wk[w].req_id)
      BY <1>1, <2>2, <3>1, ChainTake
    <3> QED
      BY <2>2, <2>3, <3>2
  <2> QED
    BY <1>2, <2>1, <2>2, <2>5, <2>6
<1>9. ASSUME NEW c \in Workers, NEW p \in Packets, Serves(c, p)
      PROVE  Goal
  <2>1. /\ outbox[c] # <<>> /\ outbox'[c] = Tail(outbox[c]) /\ p = Head(outbox[c])
        /\ \A v \in Workers : v # c => outbox'[v] = outbox[v]
        /\ UNCHANGED wk
    BY <1>0, <1>9 DEF Serves
  <2>2. Asked(c, p)
    BY <1>0, <1>1, <2>1, TailAt DEF TypeInv
  <2>3. \A v \in Workers :
          \/ inbox'[v] = inbox[v] \/ (v # c /\ inbox'[v] = Append(inbox[v], p))
          \/ v = c /\ \E r \in Packets : r.cmd = "reply" /\ inbox'[v] = Append(inbox[v], r)
    <3>1. CASE Replies(c, p) /\ wk[c].alive
      <4> DEFINE fd == IF bind_pool[p.arg] = 0 THEN NextFd ELSE bind_pool[p.arg]
                 r == Packet("reply", c, p.id, NULL, fd)
      <4>1. p.arg \in TcpAddrs /\ inbox' = [inbox EXCEPT ![c] = Append(@, r)]
        BY <3>1 DEF Replies
      <4>2. bind_pool[p.arg] \in Nat
        BY <1>0, <4>1, IpcAssumption DEF TypeInv, TypeOK
      <4>3. fd \in Nat
        BY <4>2, NextFdType
      <4> HIDE DEF fd
      <4>4. r \in Packets /\ r.cmd = "reply"
        BY <4>3 DEF Packet, Packets
      <4> HIDE DEF r
      <4> QED
        BY <1>0, <4>1, <4>4
    <3>2. CASE Relays(c, p)
      BY <3>2 DEF Relays
    <3>3. CASE Replies(c, p) /\ ~wk[c].alive
      BY <3>3 DEF Replies
    <3> QED
      BY <1>9, <3>1, <3>2, <3>3 DEF Serves
  <2>4. ASSUME NEW v \in Workers, NEW w \in Workers \ {v}
        PROVE  Chain(w, wk[v].heard, inbox'[v], outbox'[w], wk[w].req_id)
    <3>1. Chain(w, wk[v].heard, inbox[v], outbox[w], wk[w].req_id) /\ v \in Workers /\ w \in Workers
      BY <1>2
    <3>2. CASE inbox'[v] = inbox[v]
      <4>1. CASE w = c
        BY <1>1, <2>1, <3>1, <3>2, <4>1, ChainServe
      <4>2. CASE w # c
        BY <2>1, <3>1, <3>2, <4>2
      <4> QED
        BY <4>1, <4>2
    <3>3. CASE v # c /\ inbox'[v] = Append(inbox[v], p)
      <4>1. CASE w = c
        <5>1. Chain(c, wk[v].heard, Append(inbox[v], Head(outbox[c])), Tail(outbox[c]), wk[c].req_id)
          BY <1>1, <2>1, <3>1, <4>1, ChainServe
        <5> QED
          BY <2>1, <3>3, <4>1, <5>1
      <4>2. CASE w # c
        <5>1. ~From(w, p)
          BY <2>2, <4>2 DEF Asked, From
        <5> QED
          BY <1>1, <2>1, <3>1, <3>3, <4>2, <5>1, ChainOther
      <4> QED
        BY <4>1, <4>2
    <3>4. ASSUME v = c, NEW r \in Packets, r.cmd = "reply", inbox'[v] = Append(inbox[v], r)
          PROVE  Chain(w, wk[v].heard, inbox'[v], outbox'[w], wk[w].req_id)
      <4>1. ~From(w, r) /\ outbox'[w] = outbox[w]
        BY <2>1, <3>4 DEF From
      <4> QED
        BY <1>1, <3>1, <3>4, <4>1, ChainOther
    <3> QED
      BY <2>3, <3>2, <3>3, <3>4
  <2> QED
    BY <1>2, <2>1, <2>4
<1> QED
  BY <1>0, <1>4, <1>5, <1>6, <1>7, <1>8, <1>9 DEF Traffic

(* The invariant of the broadcasts. *)
LEMMA HearInvariant ==
  Spec => []HearInv
<1>1. Init /\ AwaitInv => HearInv
  <2>1. SUFFICES ASSUME Init PROVE \A v \in Workers : Hearing(v)
    BY DEF HearInv
  <2>2. \A w \in Workers : outbox[w] = <<>> /\ inbox[w] = <<>> /\ wk[w].heard = <<>>
    BY <2>1, StartsEmpty DEF Init
  <2>3. \A i : i \notin 1 .. Len(<<>>)
    BY EmptySeq
  <2>4. \A w, n : Chain(w, <<>>, <<>>, <<>>, n)
    BY <2>3 DEF Chain, InOrder, Precedes, Below
  <2> QED
    BY <2>2, <2>3, <2>4 DEF Hearing, Foreign
<1>2. HearInv /\ AwaitInv' /\ [Next]_vars => HearInv'
  BY HearingStep DEF HearInv
<1> QED
  BY <1>1, <1>2, AwaitInvariant, PTL DEF Spec, HearInv

(* A broadcast is heard at most once, in the order it was sent in, and     *)
(* never by its sender, in any number of workers: across the sender's      *)
(* queue, the master's loop over its clients and the reader's loop.        *)
THEOREM IpcBroadcastsInOrder == Spec => []BroadcastsInOrder
<1>1. HearInv => BroadcastsInOrder
  <2>1. SUFFICES ASSUME HearInv, NEW v \in Workers
                 PROVE  /\ \A w \in Workers \ {v} :
                             LET s == wk[v].heard \o Incoming(v) \o Unserved(w)
                             IN \A i, j \in 1 .. Len(s) :
                                  i < j /\ s[i].cmd = "broadcast" /\ s[i].from = w
                                        /\ s[j].cmd = "broadcast" /\ s[j].from = w => s[i].id < s[j].id
                        /\ LET s == wk[v].heard \o Incoming(v)
                           IN \A i \in 1 .. Len(s) : s[i].cmd = "broadcast" => s[i].from # v
    BY DEF BroadcastsInOrder
  <2>2. /\ \A w \in Workers : outbox[w] \in Seq(Packets) /\ inbox[w] \in Seq(Packets) /\ wk[w].heard \in Seq(Packets)
        /\ \A w \in Workers : Rising(wk[w].req_id, outbox[w]) /\ Unserved(w) = outbox[w] /\ Incoming(w) = inbox[w]
    <3>1. TypeOK
      BY <2>1 DEF HearInv, AwaitInv, Greeted, Base, TypeInv
    <3>2. \A w \in Workers : outbox[w] \in Seq(Packets) /\ inbox[w] \in Seq(Packets) /\ wk[w].heard \in Seq(Packets)
      BY <3>1, StreamTypes DEF WorkerStates
    <3> QED
      BY <2>1, <3>2 DEF HearInv, AwaitInv, Awaiting, outbox, inbox
  <2>3. ASSUME NEW w \in Workers \ {v}
        PROVE  InOrder(w, wk[v].heard \o inbox[v] \o outbox[w])
    <3>1. Chain(w, wk[v].heard, inbox[v], outbox[w], wk[w].req_id)
      BY <2>1 DEF HearInv, Hearing
    <3>2. InOrder(w, outbox[w])
      BY <2>2 DEF Rising, InOrder
    <3>3. wk[v].heard \o inbox[v] \in Seq(Packets)
      BY <2>2, ConcatProperties
    <3>4. InOrder(w, wk[v].heard \o inbox[v]) /\ Precedes(w, wk[v].heard \o inbox[v], outbox[w])
      BY <2>2, <3>1, OrderCat DEF Chain
    <3> QED
      BY <2>2, <3>2, <3>3, <3>4, OrderCat
  <2>4. \A i \in 1 .. Len(wk[v].heard \o inbox[v]) : ~From(v, (wk[v].heard \o inbox[v])[i])
    <3> DEFINE h == wk[v].heard
               t == inbox[v]
    <3>1. /\ h \in Seq(Packets) /\ t \in Seq(Packets) /\ Foreign(v, h)
          /\ \A i \in 1 .. Len(t) : Told(v, t[i])
      BY <2>1, <2>2 DEF HearInv, Hearing, AwaitInv, Greeted, Base, TypeInv
    <3> HIDE DEF h, t
    <3>2. /\ Len(h) \in Nat /\ Len(t) \in Nat /\ Len(h \o t) = Len(h) + Len(t)
          /\ \A i \in 1 .. Len(h) + Len(t) : (h \o t)[i] = IF i <= Len(h) THEN h[i] ELSE t[i - Len(h)]
      BY <3>1, ConcatProperties, LenProperties
    <3>3. \A i \in 1 .. Len(h \o t) : \/ i \in 1 .. Len(h) /\ (h \o t)[i] = h[i]
                                      \/ i - Len(h) \in 1 .. Len(t) /\ (h \o t)[i] = t[i - Len(h)]
      BY <3>2
    <3>4. \A i \in 1 .. Len(h \o t) : ~From(v, (h \o t)[i])
      BY <3>1, <3>3 DEF Foreign, Told, From
    <3> QED
      BY <3>4 DEF h, t
  <2>5. ASSUME NEW w \in Workers \ {v}
        PROVE  LET s == wk[v].heard \o Incoming(v) \o Unserved(w)
               IN \A i, j \in 1 .. Len(s) :
                    i < j /\ s[i].cmd = "broadcast" /\ s[i].from = w
                          /\ s[j].cmd = "broadcast" /\ s[j].from = w => s[i].id < s[j].id
    <3> DEFINE s == wk[v].heard \o inbox[v] \o outbox[w]
    <3>1. wk[v].heard \o Incoming(v) \o Unserved(w) = s
      BY <2>2
    <3>2. InOrder(w, s)
      BY <2>3
    <3> HIDE DEF s
    <3>3. \A i, j \in 1 .. Len(s) :
            i < j /\ s[i].cmd = "broadcast" /\ s[i].from = w
                  /\ s[j].cmd = "broadcast" /\ s[j].from = w => s[i].id < s[j].id
      BY <3>2 DEF InOrder, From
    <3> QED
      BY <3>1, <3>3
  <2>6. \A i \in 1 .. Len(wk[v].heard \o Incoming(v)) :
          (wk[v].heard \o Incoming(v))[i].cmd = "broadcast" =>
            (wk[v].heard \o Incoming(v))[i].from # v
    <3>1. wk[v].heard \o Incoming(v) = wk[v].heard \o inbox[v]
      BY <2>2
    <3> QED
      BY <2>4, <3>1 DEF From
  <2> QED
    BY <2>5, <2>6
<1> QED
  BY <1>1, HearInvariant, PTL
=============================================================================
