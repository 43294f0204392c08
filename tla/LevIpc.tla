------------------------------- MODULE LevIpc -------------------------------
(***************************************************************************)
(* The master and its workers: lib/lev/_master.lua, lib/lev/_worker.lua    *)
(* and net.createServer of lib/lev/net.lua, over the pipes of              *)
(* lev_new_pipe.c, and the supervision of the processes in lev_main.c.     *)
(*                                                                         *)
(* Each worker has one stream to the master (up) and one from it (down).   *)
(* A packet is one element of a stream: packets are far smaller than the   *)
(* block a read is made into.  A read hands over any number of packets,    *)
(* which the handler takes one by one; user callbacks run in between, so   *)
(* a worker may send while it is in that loop.  A worker may die at any    *)
(* time; the master exits when it has seen the last of them exit.          *)
(***************************************************************************)
EXTENDS Integers, Sequences, FiniteSets

CONSTANTS
  Workers,   \* worker processes
  Addrs,     \* the type|address|port of sockets asked for with "bind"
  TcpAddrs,  \* the ones among Addrs whose type is 'tcp'
  Keys,      \* keys of broadcasts
  Exits,     \* how workers may exit: see Failures
  NULL,
  MaxReq     \* bound on req_id: the number of messages a worker sends

(* A worker exits with status 0 or another one, or is killed by a          *)
(* segmentation fault or another signal (whose exit status is 0).          *)
Failures == {"failed", "segfault"}

ASSUME IpcAssumption ==
  /\ Exits \subseteq Failures \cup {"done", "killed"}
  /\ IsFiniteSet(Workers)
  /\ TcpAddrs \subseteq Addrs
  /\ NULL \notin Addrs /\ NULL \notin Workers /\ NULL \notin Keys
  /\ IsFiniteSet(Addrs)
  /\ MaxReq \in Nat

VARIABLES
  wk,        \* the state of each worker process: the locals of _worker.lua
  wbuf,      \* per worker, what ipc__on_read has still to process of a read
  up, down,  \* per worker, the packets in the pipe to and from the master
  pool,      \* worker_pool: per client, "absent", "anon" ({}), "known" (id set)
  open,      \* the clients the master reads from
  by_id,     \* worker_pool_by_id: the clients it holds
  bind_pool, \* per address, the socket the master has bound; 0 for none
  mbuf,      \* what client__on_read has still to process, and the client
  sup        \* the supervisor: how each worker exited, the ones it has seen
             \* exit, uv_workers_count, lev_exit_code, and if it has exited

vars == <<wk, wbuf, up, down, pool, open, by_id, bind_pool, mbuf, sup>>
master == <<pool, open, by_id, bind_pool, mbuf, sup>>

Packets ==
  [cmd : {"hello", "bind", "broadcast", "reply"}, from : Workers, id : Nat,
   arg : Addrs \cup Keys \cup {NULL}, fd : Nat]

Packet(cmd, w, id, arg, fd) == [cmd |-> cmd, from |-> w, id |-> id, arg |-> arg, fd |-> fd]

-----------------------------------------------------------------------------
(* _worker.lua *)

(* Faulty variant: nobody connects. *)
send_msg_offline(w, pkt, callbacks) ==
  /\ wk' = [wk EXCEPT ![w].req_id = @ + 1, ![w].callbacks = callbacks,
                      ![w].queue = Append(@, pkt)]
  /\ UNCHANGED up

(* ipc_connected: packets go to the pipe.  Otherwise they are queued, and  *)
(* ipc_connect starts to connect unless it did so before.                  *)
send_msg(w, pkt, callbacks) ==
  IF wk[w].state = "connected"
    THEN /\ up' = [up EXCEPT ![w] = Append(@, pkt)]
         /\ wk' = [wk EXCEPT ![w].req_id = @ + 1, ![w].callbacks = callbacks]
    ELSE /\ wk' = [wk EXCEPT ![w].req_id = @ + 1, ![w].callbacks = callbacks,
                             ![w].queue = Append(@, pkt),
                             ![w].state = IF @ = "idle" THEN "connecting" ELSE @]
         /\ UNCHANGED up

MaySend(w) == wk[w].alive /\ wk[w].req_id <= MaxReq

sendBroadcast(w, key) ==
  /\ MaySend(w)
  /\ send_msg(w, Packet("broadcast", w, wk[w].req_id, key, 0), wk[w].callbacks)
  /\ UNCHANGED <<wbuf, down, master>>

recvBroadcast(w, key) ==
  /\ wk[w].alive /\ key \notin wk[w].subs
  /\ wk' = [wk EXCEPT ![w].subs = @ \cup {key}]
  /\ UNCHANGED <<wbuf, up, down, master>>

(* toMaster "bind" with the callback of net.createServer. *)
createServer(w, addr) ==
  /\ MaySend(w)
  /\ send_msg(w, Packet("bind", w, wk[w].req_id, addr, 0),
              [wk[w].callbacks EXCEPT ![wk[w].req_id] = addr])
  /\ UNCHANGED <<wbuf, down, master>>

(* Faulty variants of the connect callback: the hello comes last; the      *)
(* queue is drained from its end.                                          *)
on_connect_late_hello(w) ==
  /\ wk[w].alive /\ wk[w].state = "connecting"
  /\ up' = [up EXCEPT ![w] = Append(wk[w].queue, Packet("hello", w, 0, NULL, 0))]
  /\ wk' = [wk EXCEPT ![w].queue = <<>>, ![w].state = "connected"]
  /\ UNCHANGED <<wbuf, down, master>>

on_connect_lifo(w) ==
  /\ wk[w].alive /\ wk[w].state = "connecting"
  /\ LET q == wk[w].queue
         r == [i \in 1 .. Len(q) |-> q[Len(q) + 1 - i]]
     IN up' = [up EXCEPT ![w] = <<Packet("hello", w, 0, NULL, 0)>> \o r]
  /\ wk' = [wk EXCEPT ![w].queue = <<>>, ![w].state = "connected"]
  /\ UNCHANGED <<wbuf, down, master>>

(* The callback of ipc_channel:connect.  The master's listener accepts     *)
(* what connects; on an error nothing is undone.                           *)
on_connect(w) ==
  /\ wk[w].alive /\ wk[w].state = "connecting"
  /\ up' = [up EXCEPT ![w] = <<Packet("hello", w, 0, NULL, 0)>> \o wk[w].queue]
  /\ wk' = [wk EXCEPT ![w].queue = <<>>, ![w].state = "connected"]
  /\ UNCHANGED <<wbuf, down, master>>

on_connect_error(w) ==
  /\ wk[w].alive /\ wk[w].state = "connecting"
  /\ wk' = [wk EXCEPT ![w].state = "failed"]
  /\ UNCHANGED <<wbuf, up, down, master>>

(* A read ends with the packet that carries a descriptor.  The descriptor  *)
(* shown to the handler is the last one received, -1 before the first.     *)
ipc__on_read(w) ==
  /\ wk[w].alive /\ wbuf[w] = <<>>
  /\ \E k \in 1 .. Len(down[w]) :
       /\ \A i \in 1 .. k - 1 : down[w][i].fd = 0
       /\ wbuf' = [wbuf EXCEPT ![w] = SubSeq(down[w], 1, k)]
       /\ down' = [down EXCEPT ![w] = SubSeq(@, k + 1, Len(@))]
       /\ wk' = IF down[w][k].fd = 0 THEN wk ELSE [wk EXCEPT ![w].accepted_fd = down[w][k].fd]
  /\ UNCHANGED <<up, master>>

(* A broadcast is handed to the callbacks registered for its key. *)
on_broadcast(w, packet) ==
  /\ packet.cmd = "broadcast" /\ packet.arg \in wk[w].subs
  /\ wk' = [wk EXCEPT ![w].heard = Append(@, packet)]

(* Faulty variant: the callback is never cleared. *)
on_reply_kept(w, packet) ==
  LET addr == wk[w].callbacks[packet.id]
  IN /\ packet.cmd = "reply" /\ addr # NULL
     /\ wk' = [wk EXCEPT ![w].servers = @ \cup {<<addr, wk[w].accepted_fd>>}]

(* The callback of net.createServer listens on the descriptor it is given. *)
on_reply(w, packet) ==
  LET addr == wk[w].callbacks[packet.id]
  IN /\ packet.cmd = "reply" /\ addr # NULL
     /\ wk' = [wk EXCEPT ![w].servers = @ \cup {<<addr, wk[w].accepted_fd>>},
                         ![w].callbacks = [@ EXCEPT ![packet.id] = NULL]]

(* Nobody waits for the packet. *)
no_callback(w, packet) ==
  /\ \/ packet.cmd = "broadcast" /\ packet.arg \notin wk[w].subs
     \/ packet.cmd = "reply" /\ wk[w].callbacks[packet.id] = NULL
  /\ UNCHANGED wk

ipc__process_packet(w) ==
  /\ wk[w].alive /\ wbuf[w] # <<>>
  /\ \/ on_broadcast(w, Head(wbuf[w]))
     \/ on_reply(w, Head(wbuf[w]))
     \/ no_callback(w, Head(wbuf[w]))
  /\ wbuf' = [wbuf EXCEPT ![w] = Tail(@)]
  /\ UNCHANGED <<up, down, master>>

(* The process exits or is killed: its end of the pipe is closed. *)
worker_exit(w, how) ==
  /\ wk[w].alive
  /\ wk' = [wk EXCEPT ![w].alive = FALSE]
  /\ wbuf' = [wbuf EXCEPT ![w] = <<>>]
  /\ down' = [down EXCEPT ![w] = <<>>]
  /\ sup' = [sup EXCEPT !.how[w] = how]
  /\ UNCHANGED <<up, pool, open, by_id, bind_pool, mbuf>>

-----------------------------------------------------------------------------
(* _master.lua *)
Idle == mbuf.rest = <<>> /\ ~sup.exited

(* The listener: accept, read_start and an empty entry for the client. *)
on_connection(w) ==
  /\ Idle
  /\ wk[w].state = "connected" /\ pool[w] = "absent" /\ up[w] # <<>>
  /\ pool' = [pool EXCEPT ![w] = "anon"]
  /\ open' = open \cup {w}
  /\ UNCHANGED <<wk, wbuf, up, down, by_id, bind_pool, mbuf, sup>>

(* Faulty variant: only the first packet of a read is processed. *)
client__on_read_once(w) ==
  /\ Idle /\ w \in open
  /\ \E k \in 1 .. Len(up[w]) :
       /\ mbuf' = [c |-> w, rest |-> SubSeq(up[w], 1, 1)]
       /\ up' = [up EXCEPT ![w] = SubSeq(@, k + 1, Len(@))]
  /\ UNCHANGED <<wk, wbuf, down, pool, open, by_id, bind_pool, sup>>

client__on_read(w) ==
  /\ Idle /\ w \in open
  /\ \E k \in 1 .. Len(up[w]) :
       /\ mbuf' = [c |-> w, rest |-> SubSeq(up[w], 1, k)]
       /\ up' = [up EXCEPT ![w] = SubSeq(@, k + 1, Len(@))]
  /\ UNCHANGED <<wk, wbuf, down, pool, open, by_id, bind_pool, sup>>

NextFd == Cardinality({a \in Addrs : bind_pool[a] # 0}) + 1

hello(c) ==
  /\ pool' = [pool EXCEPT ![c] = "known"]
  /\ by_id' = by_id \cup {c}
  /\ UNCHANGED <<bind_pool, down>>

(* What is written to a client that is gone is lost. *)
Reply(c, id, fd) ==
  down' = IF wk[c].alive
            THEN [down EXCEPT ![c] = Append(@, Packet("reply", c, id, NULL, fd))] ELSE down

(* Faulty variants: the descriptor is read before the socket is bound;     *)
(* every request binds a socket of its own.                                *)
bind_unbound(c, packet) ==
  LET fd == IF bind_pool[packet.arg] = 0 THEN NextFd ELSE bind_pool[packet.arg]
  IN /\ packet.arg \in TcpAddrs
     /\ bind_pool' = [bind_pool EXCEPT ![packet.arg] = fd]
     /\ Reply(c, packet.id, IF bind_pool[packet.arg] = 0 THEN -1 ELSE fd)
     /\ UNCHANGED <<pool, by_id>>

bind_anew(c, packet) ==
  /\ packet.arg \in TcpAddrs
  /\ bind_pool' = [bind_pool EXCEPT ![packet.arg] = @ + NextFd]
  /\ Reply(c, packet.id, bind_pool[packet.arg] + NextFd)
  /\ UNCHANGED <<pool, by_id>>

(* The first request for an address binds it, later ones get that socket.  *)
bind(c, packet) ==
  LET fd == IF bind_pool[packet.arg] = 0 THEN NextFd ELSE bind_pool[packet.arg]
  IN /\ packet.arg \in TcpAddrs
     /\ bind_pool' = [bind_pool EXCEPT ![packet.arg] = fd]
     /\ Reply(c, packet.id, fd)
     /\ UNCHANGED <<pool, by_id>>

(* "INVALID TYPE FOR BIND": no answer. *)
bind_invalid(c, packet) ==
  packet.arg \notin TcpAddrs /\ UNCHANGED <<pool, by_id, bind_pool, down>>

broadcast(c, packet) ==
  /\ down' = [v \in Workers |->
                IF pool[v] = "known" /\ v # c /\ wk[v].alive
                  THEN Append(down[v], packet) ELSE down[v]]
  /\ UNCHANGED <<pool, by_id, bind_pool>>

client__process_packet ==
  /\ mbuf.rest # <<>>
  /\ LET packet == Head(mbuf.rest)
     IN \/ packet.cmd = "hello" /\ hello(mbuf.c)
        \/ packet.cmd = "bind" /\ bind(mbuf.c, packet)
        \/ packet.cmd = "bind" /\ bind_invalid(mbuf.c, packet)
        \/ packet.cmd = "broadcast" /\ broadcast(mbuf.c, packet)
  /\ mbuf' = [mbuf EXCEPT !.rest = Tail(@)]
  /\ UNCHANGED <<wk, wbuf, up, open, sup>>

(* nread = -1, once everything the worker wrote is read: the client is     *)
(* shut down, and later closed.                                            *)
client__on_eof(w) ==
  /\ Idle /\ w \in open
  /\ ~wk[w].alive /\ up[w] = <<>>
  /\ open' = open \ {w}
  /\ UNCHANGED <<wk, wbuf, up, down, pool, by_id, bind_pool, mbuf, sup>>

(* Faulty variant: the table by id keeps the client. *)
client__on_close_by_id(w) ==
  /\ Idle /\ pool[w] # "absent" /\ w \notin open
  /\ pool' = [pool EXCEPT ![w] = "absent"]
  /\ UNCHANGED <<wk, wbuf, up, down, open, by_id, bind_pool, mbuf, sup>>

client__on_close(w) ==
  /\ Idle /\ pool[w] # "absent" /\ w \notin open
  /\ by_id' = IF pool[w] = "known" THEN by_id \ {w} ELSE by_id
  /\ pool' = [pool EXCEPT ![w] = "absent"]
  /\ UNCHANGED <<wk, wbuf, up, down, open, bind_pool, mbuf, sup>>

-----------------------------------------------------------------------------
(* lev_main.c *)

(* The exit_status of libuv: 0 for a process that a signal has killed. *)
exit_status(how) == IF how = "failed" THEN 1 ELSE 0
SIGSEGV == 11

(* Faulty variant: every exit sets the code. *)
exit_code_last(how) == IF how = "segfault" THEN SIGSEGV ELSE exit_status(how)

(* lev_exit_code is updated by a status other than 0 and by SIGSEGV. *)
exit_code(how) ==
  CASE how = "segfault" -> SIGSEGV
    [] how # "segfault" -> IF exit_status(how) # 0 THEN exit_status(how) ELSE sup.code

worker__on_exit(w) ==
  LET count == sup.count - 1
  IN /\ Idle
     /\ ~wk[w].alive /\ w \notin sup.reaped
     /\ sup' = [sup EXCEPT !.reaped = @ \cup {w}, !.count = count,
                           !.code = exit_code(sup.how[w]), !.exited = (count = 0)]
     /\ UNCHANGED <<wk, wbuf, up, down, pool, open, by_id, bind_pool, mbuf>>

(* The loop of pmain spawns the workers before the master's loop runs. *)
Spawned ==
  [how |-> [w \in Workers |-> "running"], reaped |-> {}, count |-> Cardinality(Workers),
   code |-> 0, exited |-> FALSE]

-----------------------------------------------------------------------------
Init ==
  /\ wk = [w \in Workers |->
             [alive |-> TRUE, state |-> "idle", queue |-> <<>>, req_id |-> 1,
              callbacks |-> [i \in 1 .. MaxReq |-> NULL], subs |-> {},
              accepted_fd |-> -1, heard |-> <<>>, servers |-> {}]]
  /\ wbuf = [w \in Workers |-> <<>>]
  /\ up = [w \in Workers |-> <<>>]
  /\ down = [w \in Workers |-> <<>>]
  /\ pool = [w \in Workers |-> "absent"]
  /\ open = {}
  /\ by_id = {}
  /\ bind_pool = [a \in Addrs |-> 0]
  /\ mbuf = [c |-> NULL, rest |-> <<>>]
  /\ sup = Spawned

WorkerNext(w) ==
  \/ \E key \in Keys : sendBroadcast(w, key) \/ recvBroadcast(w, key)
  \/ \E addr \in Addrs : createServer(w, addr)
  \/ on_connect(w)
  \/ on_connect_error(w)
  \/ ipc__on_read(w)
  \/ ipc__process_packet(w)
  \/ \E how \in Exits : worker_exit(w, how)

(* What libuv reports of the master's end of a pipe, one thing at a time. *)
ClientEvent(w) ==
  on_connection(w) \/ client__on_read(w) \/ client__on_eof(w) \/ client__on_close(w)

MasterNext ==
  \/ client__process_packet
  \/ \E w \in Workers : ClientEvent(w) \/ worker__on_exit(w)

Next == MasterNext \/ \E w \in Workers : WorkerNext(w)

Spec == Init /\ [][Next]_vars

(* libuv reports every event of every handle, and a callback that was      *)
(* called returns.  Nothing makes a user send or a process die.            *)
Fairness ==
  /\ WF_vars(client__process_packet)
  /\ \A w \in Workers :
       /\ WF_vars(on_connect(w) \/ on_connect_error(w))
       /\ WF_vars(ipc__process_packet(w))
       /\ WF_vars(ipc__on_read(w))
       /\ SF_vars(ClientEvent(w))

FairSpec == Spec /\ Fairness

-----------------------------------------------------------------------------
TypeOK ==
  /\ wk \in [Workers ->
       [alive : BOOLEAN, state : {"idle", "connecting", "failed", "connected"},
        queue : Seq(Packets), req_id : 1 .. MaxReq + 1,
        callbacks : [1 .. MaxReq -> Addrs \cup {NULL}], subs : SUBSET Keys,
        accepted_fd : Int, heard : Seq(Packets), servers : SUBSET (Addrs \X Int)]]
  /\ wbuf \in [Workers -> Seq(Packets)]
  /\ up \in [Workers -> Seq(Packets)]
  /\ down \in [Workers -> Seq(Packets)]
  /\ pool \in [Workers -> {"absent", "anon", "known"}]
  /\ open \subseteq Workers
  /\ by_id \subseteq Workers
  /\ bind_pool \in [Addrs -> Nat]
  /\ mbuf \in [c : Workers \cup {NULL}, rest : Seq(Packets)]
  /\ sup \in [how : [Workers -> Exits \cup {"running"}], reaped : SUBSET Workers,
              count : Nat, code : Nat, exited : BOOLEAN]

(* What w has sent and the master has not yet served, in order. *)
Unserved(w) ==
  (IF mbuf.c = w THEN mbuf.rest ELSE <<>>) \o up[w] \o wk[w].queue

(* What is on its way to w, in order. *)
Incoming(w) == wbuf[w] \o down[w]

(* The master learns who a client is before it serves it: the hello        *)
(* written by the connect callback overtakes all that was queued before.   *)
HelloComesFirst ==
  \A w \in Workers :
    LET s == Unserved(w)
    IN /\ \A i \in 2 .. Len(s) : s[i].cmd # "hello"
       /\ s # <<>> /\ wk[w].state = "connected" =>
            (s[1].cmd = "hello" <=> pool[w] # "known")

(* A broadcast reaches each other worker at most once, in the order it was *)
(* sent in, across the queue of the sender, the master and the reader's    *)
(* loop, and never comes back to its sender.                               *)
BroadcastsInOrder ==
  \A v \in Workers :
    /\ \A w \in Workers \ {v} :
         LET s == wk[v].heard \o Incoming(v) \o Unserved(w)
         IN \A i, j \in 1 .. Len(s) :
              i < j /\ s[i].cmd = "broadcast" /\ s[i].from = w
                    /\ s[j].cmd = "broadcast" /\ s[j].from = w => s[i].id < s[j].id
    /\ LET s == wk[v].heard \o Incoming(v)
       IN \A i \in 1 .. Len(s) : s[i].cmd = "broadcast" => s[i].from # v

(* Every callback waits for an answer that can still come: its request is  *)
(* on its way to the master, or else the reply is on its way back, and not *)
(* both.                                                                   *)
CallbacksAreAwaited ==
  \A w \in Workers : \A id \in 1 .. MaxReq :
    LET addr    == wk[w].callbacks[id]
        asked   == {i \in 1 .. Len(Unserved(w)) :
                      Unserved(w)[i].id = id /\ Unserved(w)[i].cmd = "bind"}
        replies == {i \in 1 .. Len(Incoming(w)) :
                      Incoming(w)[i].id = id /\ Incoming(w)[i].cmd = "reply"}
    IN /\ wk[w].alive /\ addr \in TcpAddrs => Cardinality(asked) + Cardinality(replies) = 1
       /\ addr = NULL => asked = {} /\ replies = {}

(* Workers that listen on one address share one socket, the master's, and  *)
(* different addresses never share one: each callback gets the descriptor  *)
(* sent with its own reply, although a read shows it to every packet.      *)
OneSocketPerAddress ==
  /\ \A w \in Workers : \A s \in wk[w].servers : s[2] > 0 /\ s[2] = bind_pool[s[1]]
  /\ \A a, b \in Addrs : bind_pool[a] = bind_pool[b] /\ bind_pool[a] # 0 => a = b

(* The master exits with the last of its workers and not before, and its   *)
(* exit code tells of a failed or crashed one, in whichever order they     *)
(* exited.  A worker killed by another signal counts as a success.         *)
FailuresAreReported ==
  sup.exited =>
    /\ \A w \in Workers : ~wk[w].alive
    /\ sup.code # 0 <=> \E w \in Workers : sup.how[w] \in Failures

(* A worker that asks for a socket listens on it in the end, unless its    *)
(* connection to the master failed or it died.                             *)
RequestsAreAnswered ==
  \A w \in Workers : \A id \in 1 .. MaxReq : \A a \in TcpAddrs :
    wk[w].callbacks[id] = a ~>
      \/ \E s \in wk[w].servers : s[1] = a
      \/ ~wk[w].alive \/ wk[w].state = "failed"

(* A broadcast that was written to the pipe is heard by every worker that  *)
(* was known and listening by then, even if its sender dies.               *)
BroadcastsAreHeard ==
  \A w \in Workers : \A v \in Workers \ {w} : \A k \in Keys : \A n \in 1 .. MaxReq :
    (/\ k \in wk[v].subs /\ pool[v] = "known"
     /\ \E i \in 1 .. Len(up[w]) : up[w][i] = Packet("broadcast", w, n, k, 0))
    ~> \/ \E i \in 1 .. Len(wk[v].heard) : wk[v].heard[i] = Packet("broadcast", w, n, k, 0)
       \/ ~wk[v].alive

(* The master forgets a dead worker, in worker_pool and in                 *)
(* worker_pool_by_id, or has exited.                                       *)
DeadWorkersAreForgotten ==
  \A w \in Workers :
    ~wk[w].alive /\ pool[w] # "absent" ~> (pool[w] = "absent" /\ w \notin by_id) \/ sup.exited
=============================================================================
