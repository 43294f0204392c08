-------------------------- MODULE LevHandlesProofs --------------------------
(***************************************************************************)
(* The reference counts of pipe, UDP and timer handles, for any number of  *)
(* operations and requests.                                                *)
(*                                                                         *)
(* RefCountIsExact is inductive once it is known that a handle is closed   *)
(* at most once.  ActiveIsReferenced also needs to know where kept         *)
(* references are: whatever is active, shut down or closed has one, if the *)
(* program closes only handles it has started.  The refinement of          *)
(* LevObject follows from that invariant and from what a step may do to a  *)
(* handle's life (StepKinds).                                              *)
(***************************************************************************)
EXTENDS LevHandles, TLAPS

(* A handle is closed once: nothing is under way in a closed one, and only *)
(* pipes are shut down.                                                    *)
ClosedOnce ==
  /\ closes = 1 => ~On("closing") /\ ~On("shutting") /\ ~On("active")
  /\ On("closing") => ~On("shutting") /\ ~On("active")
  /\ On("shutting") => kind = "pipe"

(* Nothing is under way before the handle exists. *)
NotBorn ==
  life = "none" =>
    refCount = 0 /\ kept = 0 /\ closes = 0 /\ flags = {} /\ conn = "none" /\ reqs = 0

CountInv == TypeOK /\ RefCountIsExact /\ ClosedOnce /\ NotBorn

(* Only a connected pipe is read from, shut down or closed. *)
PipeOrder ==
  kind = "pipe" /\ (On("shutting") \/ On("closing") \/ closes > 0 \/ On("active"))
    => conn = "connected"

OtherKinds == kind # "pipe" => conn = "none"

(* A kept reference is there for what is active, repeats, is shut down or closed. *)
KeptIsThere ==
  \/ On("active") \/ On("repeat") \/ On("shutting") \/ On("closing")
  \/ closes > 0 \/ conn = "listening"
  => kept > 0

(* The collector took only a handle without references. *)
Collected == life = "collected" => refCount = 0

Order == PipeOrder /\ OtherKinds /\ KeptIsThere /\ Collected

IInv == CountInv /\ Order

-----------------------------------------------------------------------------
(* In the initial state nothing has happened yet. *)
LEMMA InitIInv == Init => IInv
<1> SUFFICES ASSUME Init PROVE IInv
  OBVIOUS
<1>1. held \in BOOLEAN
  BY DEF Init
<1> QED
  BY <1>1, HandleAssumption DEF Init, IInv, CountInv, Order, TypeOK, RefCountIsExact, ClosedOnce, PipeOrder,
     KeptIsThere, NotBorn, OtherKinds, Collected, Kinds, On

(* The count stays exact under every step, whatever the program does. *)
LEMMA StepCountInv == CountInv /\ [Next]_vars => CountInv'
<1> SUFFICES ASSUME CountInv, [Next]_vars PROVE CountInv'
  OBVIOUS
<1> USE HandleAssumption
<1> USE DEF CountInv, TypeOK, RefCountIsExact, ClosedOnce, NotBorn, On,
        Kinds, Flags, Same, HandedOver, Called, Running, Phase, uv
<1>1. CASE create
  BY <1>1 DEF create
<1>2. CASE PipeNext
  <2>1. CASE pipe_accept
    BY <2>1 DEF pipe_accept
  <2>2. CASE pipe_bind
    <3>1. CASE flags' = flags \cup {"fd"} /\ UNCHANGED <<conn, reqs>>
      BY <2>2, <3>1 DEF pipe_bind, Keep
    <3>2. CASE UNCHANGED uv
      BY <2>2, <3>2 DEF pipe_bind, Keep
    <3> QED
      BY <2>2, <3>1, <3>2 DEF pipe_bind
  <2>3. CASE pipe_listen
    <3>1. CASE conn = "none" /\ conn' = "listening" /\ UNCHANGED <<flags, reqs>>
      BY <2>3, <3>1 DEF pipe_listen, Keep
    <3>2. CASE UNCHANGED uv
      BY <2>3, <3>2 DEF pipe_listen, Keep
    <3> QED
      BY <2>3, <3>1, <3>2 DEF pipe_listen
  <2>4. CASE pipe_connect
    BY <2>4 DEF pipe_connect, lev_handle_ref
  <2>5. CASE on_connect
    <3>1. CASE conn' = "connected" /\ flags' = flags \cup {"fd"} /\ UNCHANGED reqs
      BY <2>5, <3>1 DEF on_connect, lev_handle_unref
    <3>2. CASE conn' = "failed" /\ UNCHANGED <<flags, reqs>>
      BY <2>5, <3>2 DEF on_connect, lev_handle_unref
    <3> QED
      BY <2>5, <3>1, <3>2 DEF on_connect
  <2>6. CASE pipe_read_start
    BY <2>6 DEF pipe_read_start, Keep
  <2>7. CASE pipe_read_stop
    BY <2>7 DEF pipe_read_stop
  <2>8. CASE pipe_write
    BY <2>8 DEF pipe_write, lev_handle_ref
  <2>9. CASE pipe_after_write
    BY <2>9 DEF pipe_after_write, lev_handle_unref
  <2>10. CASE pipe_close
    <3>1. CASE conn = "connected" /\ ~On("shutting")
      <4>1. /\ flags' = (flags \ {"active"}) \cup {"shutting"} /\ UNCHANGED <<conn, reqs>>
            /\ refCount' = refCount + 1 /\ UNCHANGED kept
        BY <2>10, <3>1 DEF pipe_close, UV_CLOSE_CLIENT, lev_handle_ref
      <4> QED
        BY <2>10, <3>1, <4>1 DEF pipe_close
    <3>2. CASE conn # "connected" \/ On("shutting")
      <4>1. flags' = flags \ {"active"} /\ UNCHANGED <<conn, reqs>> /\ Keep
        BY <2>10, <3>2 DEF pipe_close, UV_CLOSE_CLIENT
      <4> QED
        BY <2>10, <3>2, <4>1 DEF pipe_close, Keep
    <3> QED
      BY <3>1, <3>2
  <2>11. CASE pipe_on_eof
    <3>1. CASE conn = "connected" /\ ~On("shutting")
      <4>1. /\ flags' = (flags \ {"active"}) \cup {"shutting"} /\ UNCHANGED <<conn, reqs>>
            /\ refCount' = refCount + 1 /\ UNCHANGED kept
        BY <2>11, <3>1 DEF pipe_on_eof, UV_CLOSE_CLIENT, lev_handle_ref
      <4> QED
        BY <2>11, <3>1, <4>1 DEF pipe_on_eof
    <3>2. CASE conn # "connected" \/ On("shutting")
      <4>1. flags' = flags \ {"active"} /\ UNCHANGED <<conn, reqs>> /\ Keep
        BY <2>11, <3>2 DEF pipe_on_eof, UV_CLOSE_CLIENT
      <4> QED
        BY <2>11, <3>2, <4>1 DEF pipe_on_eof, Keep
    <3> QED
      BY <3>1, <3>2
  <2>12. CASE pipe_after_shutdown
    BY <2>12 DEF pipe_after_shutdown, lev_handle_unref
  <2>13. CASE on_read
    BY <2>13 DEF on_read
  <2>14. CASE on_connection
    BY <2>14 DEF on_connection
  <2> QED
    BY <1>2, <2>1, <2>2, <2>3, <2>4, <2>5, <2>6, <2>7, <2>8, <2>9, <2>10, <2>11, <2>12,
       <2>13, <2>14 DEF PipeNext
<1>3. CASE UdpNext
  <2>1. CASE udp_bind
    BY <2>1 DEF udp_bind, Keep
  <2>2. CASE udp_send
    BY <2>2 DEF udp_send, lev_handle_ref
  <2>3. CASE udp_after_send
    BY <2>3 DEF udp_after_send, lev_handle_unref
  <2>4. CASE udp_recv_start
    BY <2>4 DEF udp_recv_start, Keep
  <2>5. CASE on_recv
    <3>1. CASE flags' = flags \ {"active"} /\ UNCHANGED <<conn, reqs>>
      BY <2>5, <3>1 DEF on_recv, UV_UDP_CLOSE
    <3>2. CASE UV_UDP_CLOSE
      BY <2>5, <3>2 DEF on_recv, UV_UDP_CLOSE
    <3> QED
      BY <2>5, <3>1, <3>2 DEF on_recv
  <2>6. CASE udp_close
    BY <2>6 DEF udp_close, UV_UDP_CLOSE
  <2> QED
    BY <1>3, <2>1, <2>2, <2>3, <2>4, <2>5, <2>6 DEF UdpNext
<1>4. CASE TimerNext
  <2>1. ASSUME NEW r \in BOOLEAN, timer_start(r) PROVE CountInv'
    BY <2>1 DEF timer_start, Keep
  <2>2. CASE timer_stop
    BY <2>2 DEF timer_stop
  <2>3. CASE timer_again
    BY <2>3 DEF timer_again
  <2>4. CASE on_timer
    BY <2>4 DEF on_timer
  <2>5. CASE timer_close
    BY <2>5 DEF timer_close
  <2> QED
    BY <1>4, <2>1, <2>2, <2>3, <2>4, <2>5 DEF TimerNext
<1>5. CASE after_close
  <2>1. held' \in BOOLEAN
    BY <1>5 DEF after_close
  <2> QED
    BY <1>5, <2>1 DEF after_close, lev_handle_unref
<1>6. CASE drop
  BY <1>6 DEF drop
<1>7. CASE collect
  BY <1>7 DEF collect
<1>8. CASE UNCHANGED vars
  BY <1>8 DEF vars
<1> QED
  BY <1>1, <1>2, <1>3, <1>4, <1>5, <1>6, <1>7, <1>8 DEF Next

-----------------------------------------------------------------------------
(* Every reference of a pipe, UDP or timer handle is accounted for, in any *)
(* use of it, for any number of operations and requests.                   *)
THEOREM CountsAreExact == Spec => []RefCountIsExact
<1>1. Init => CountInv
  BY InitIInv DEF IInv
<1>2. CountInv => RefCountIsExact
  BY DEF CountInv
<1> QED
  BY <1>1, <1>2, StepCountInv, PTL DEF Spec

(* The type invariant, in particular: a handle is closed at most once. *)
THEOREM TypeCorrect == Spec => []TypeOK
<1>1. Init => CountInv
  BY InitIInv DEF IInv
<1>2. CountInv => TypeOK
  BY DEF CountInv
<1> QED
  BY <1>1, <1>2, StepCountInv, PTL DEF Spec

(* Where the kept references are is preserved, if the program closes no    *)
(* handle that is idle.                                                    *)
LEMMA StepOrder ==
  ASSUME "idle" \notin CloseWhen, IInv, [Next]_vars
  PROVE  Order'
<1> USE HandleAssumption
<1> USE DEF IInv, Order, CountInv, TypeOK, ClosedOnce, NotBorn, PipeOrder, OtherKinds,
        KeptIsThere, Collected, On, Kinds, Flags, Same, HandedOver, Called, Running, Phase, uv
<1>1. CASE create
  BY <1>1 DEF create
<1>2. CASE PipeNext
  <2>1. CASE pipe_accept
    BY <2>1 DEF pipe_accept
  <2>2. CASE pipe_bind
    <3>1. CASE flags' = flags \cup {"fd"} /\ UNCHANGED <<conn, reqs>>
      BY <2>2, <3>1 DEF pipe_bind, Keep
    <3>2. CASE UNCHANGED uv
      BY <2>2, <3>2 DEF pipe_bind, Keep
    <3> QED
      BY <2>2, <3>1, <3>2 DEF pipe_bind
  <2>3. CASE pipe_listen
    <3>1. CASE conn = "none" /\ conn' = "listening" /\ UNCHANGED <<flags, reqs>>
      BY <2>3, <3>1 DEF pipe_listen, Keep
    <3>2. CASE UNCHANGED uv
      BY <2>3, <3>2 DEF pipe_listen, Keep
    <3> QED
      BY <2>3, <3>1, <3>2 DEF pipe_listen
  <2>4. CASE pipe_connect
    BY <2>4 DEF pipe_connect, lev_handle_ref
  <2>5. CASE on_connect
    <3>1. CASE conn' = "connected" /\ flags' = flags \cup {"fd"} /\ UNCHANGED reqs
      BY <2>5, <3>1 DEF on_connect, lev_handle_unref
    <3>2. CASE conn' = "failed" /\ UNCHANGED <<flags, reqs>>
      BY <2>5, <3>2 DEF on_connect, lev_handle_unref
    <3> QED
      BY <2>5, <3>1, <3>2 DEF on_connect
  <2>6. CASE pipe_read_start
    BY <2>6 DEF pipe_read_start, Keep
  <2>7. CASE pipe_read_stop
    BY <2>7 DEF pipe_read_stop
  <2>8. CASE pipe_write
    BY <2>8 DEF pipe_write, lev_handle_ref
  <2>9. CASE pipe_after_write
    BY <2>9 DEF pipe_after_write, lev_handle_unref
  <2>10. CASE pipe_close
    <3>1. CASE conn = "connected" /\ ~On("shutting")
      <4>1. /\ flags' = (flags \ {"active"}) \cup {"shutting"} /\ UNCHANGED <<conn, reqs>>
            /\ refCount' = refCount + 1 /\ UNCHANGED kept
        BY <2>10, <3>1 DEF pipe_close, UV_CLOSE_CLIENT, lev_handle_ref
      <4> QED
        BY <2>10, <3>1, <4>1 DEF pipe_close
    <3>2. CASE conn # "connected" \/ On("shutting")
      <4>1. flags' = flags \ {"active"} /\ UNCHANGED <<conn, reqs>> /\ Keep
        BY <2>10, <3>2 DEF pipe_close, UV_CLOSE_CLIENT
      <4> QED
        BY <2>10, <3>2, <4>1 DEF pipe_close, Keep
    <3> QED
      BY <3>1, <3>2
  <2>11. CASE pipe_on_eof
    <3>1. CASE conn = "connected" /\ ~On("shutting")
      <4>1. /\ flags' = (flags \ {"active"}) \cup {"shutting"} /\ UNCHANGED <<conn, reqs>>
            /\ refCount' = refCount + 1 /\ UNCHANGED kept
        BY <2>11, <3>1 DEF pipe_on_eof, UV_CLOSE_CLIENT, lev_handle_ref
      <4> QED
        BY <2>11, <3>1, <4>1 DEF pipe_on_eof
    <3>2. CASE conn # "connected" \/ On("shutting")
      <4>1. flags' = flags \ {"active"} /\ UNCHANGED <<conn, reqs>> /\ Keep
        BY <2>11, <3>2 DEF pipe_on_eof, UV_CLOSE_CLIENT
      <4> QED
        BY <2>11, <3>2, <4>1 DEF pipe_on_eof, Keep
    <3> QED
      BY <3>1, <3>2
  <2>12. CASE pipe_after_shutdown
    BY <2>12 DEF pipe_after_shutdown, lev_handle_unref
  <2>13. CASE on_read
    BY <2>13 DEF on_read
  <2>14. CASE on_connection
    BY <2>14 DEF on_connection
  <2> QED
    BY <1>2, <2>1, <2>2, <2>3, <2>4, <2>5, <2>6, <2>7, <2>8, <2>9, <2>10, <2>11, <2>12,
       <2>13, <2>14 DEF PipeNext
<1>3. CASE UdpNext
  <2>1. CASE udp_bind
    BY <2>1 DEF udp_bind, Keep
  <2>2. CASE udp_send
    BY <2>2 DEF udp_send, lev_handle_ref
  <2>3. CASE udp_after_send
    BY <2>3 DEF udp_after_send, lev_handle_unref
  <2>4. CASE udp_recv_start
    BY <2>4 DEF udp_recv_start, Keep
  <2>5. CASE on_recv
    <3>1. CASE flags' = flags \ {"active"} /\ UNCHANGED <<conn, reqs>>
      BY <2>5, <3>1 DEF on_recv, UV_UDP_CLOSE
    <3>2. CASE UV_UDP_CLOSE
      BY <2>5, <3>2 DEF on_recv, UV_UDP_CLOSE
    <3> QED
      BY <2>5, <3>1, <3>2 DEF on_recv
  <2>6. CASE udp_close
    BY <2>6 DEF udp_close, UV_UDP_CLOSE
  <2> QED
    BY <1>3, <2>1, <2>2, <2>3, <2>4, <2>5, <2>6 DEF UdpNext
<1>4. CASE TimerNext
  <2>1. ASSUME NEW r \in BOOLEAN, timer_start(r) PROVE Order'
    BY <2>1 DEF timer_start, Keep
  <2>2. CASE timer_stop
    BY <2>2 DEF timer_stop
  <2>3. CASE timer_again
    BY <2>3 DEF timer_again
  <2>4. CASE on_timer
    BY <2>4 DEF on_timer
  <2>5. CASE timer_close
    BY <2>5 DEF timer_close
  <2> QED
    BY <1>4, <2>1, <2>2, <2>3, <2>4, <2>5 DEF TimerNext
<1>5. CASE after_close
  <2>1. held' \in BOOLEAN
    BY <1>5 DEF after_close
  <2> QED
    BY <1>5, <2>1 DEF after_close, lev_handle_unref
<1>6. CASE drop
  BY <1>6 DEF drop
<1>7. CASE collect
  BY <1>7 DEF collect
<1>8. CASE UNCHANGED vars
  BY <1>8 DEF vars
<1> QED
  BY <1>1, <1>2, <1>3, <1>4, <1>5, <1>6, <1>7, <1>8 DEF Next


(* What the invariant says of a handle libuv works on. *)
LEMMA IInvImplies == IInv => ActiveIsReferenced /\ RefCountNonNegative
<1> SUFFICES ASSUME IInv PROVE ActiveIsReferenced /\ RefCountNonNegative
  OBVIOUS
<1> USE HandleAssumption
        DEF IInv, CountInv, Order, TypeOK, RefCountIsExact, ClosedOnce, NotBorn, PipeOrder,
            OtherKinds, KeptIsThere, Collected, On, Kinds
<1>1. kept >= closes
  OBVIOUS
<1>2. refCount >= 0
  BY <1>1
<1>3. ASSUME On("active") \/ On("closing") PROVE refCount > 0
  BY <1>3
<1>4. ASSUME reqs > 0 \/ conn = "connecting" \/ On("shutting") PROVE refCount > 0
  BY <1>1, <1>4
<1>5. ASSUME conn = "listening" PROVE refCount > 0
  BY <1>5
<1> QED
  BY <1>2, <1>3, <1>4, <1>5 DEF ActiveIsReferenced, RefCountNonNegative, Busy

(* Whatever libuv will still call back about keeps its handle from the     *)
(* collector, and the assertion in lev_handle_unref holds, in every        *)
(* program that closes a handle only after it has started something on it. *)
THEOREM NeverCollectedEarly ==
  ASSUME "idle" \notin CloseWhen
  PROVE  Spec => [](ActiveIsReferenced /\ RefCountNonNegative)
<1>1. Init => IInv
  BY InitIInv
<1>2. IInv /\ [Next]_vars => IInv'
  BY StepCountInv, StepOrder DEF IInv
<1> QED
  BY <1>1, <1>2, IInvImplies, PTL DEF Spec

-----------------------------------------------------------------------------
(* The handle is born. *)
Born == life = "none" /\ life' = "live" /\ UNCHANGED closes

(* Something happens to a living handle that is not closed or at work. *)
Works == life = "live" /\ UNCHANGED <<life, closes>> /\ (closes = 0 \/ Busy)

(* Nothing that LevObject sees. *)
Silent == UNCHANGED <<life, closes, flags, conn, reqs>>

(* A method works on a handle that is not closed. *)
LEMMA CalledWorks ==
  ASSUME TypeOK, NEW k, Called(k), Same
  PROVE  Works
  BY DEF TypeOK, Called, Running, Phase, Same, Works

(* What a step may do to the life of a handle. *)
LEMMA StepKinds ==
  ASSUME TypeOK, [Next]_vars
  PROVE  Born \/ Works \/ Silent \/ after_close \/ collect
<1>1. CASE create
  BY <1>1 DEF create, Born
<1>2. CASE PipeNext
  <2>1. CASE pipe_accept
    BY <2>1 DEF pipe_accept, Born
  <2>2. CASE pipe_bind \/ pipe_listen \/ pipe_connect
    BY <2>2, CalledWorks DEF pipe_bind, pipe_listen, pipe_connect
  <2>3. CASE pipe_read_start \/ pipe_read_stop \/ pipe_write \/ pipe_close
    BY <2>3, CalledWorks DEF pipe_read_start, pipe_read_stop, pipe_write, pipe_close
  <2>4. CASE on_connect \/ on_read \/ on_connection
    BY <2>4 DEF on_connect, on_read, on_connection, HandedOver, Running, Works, Busy
  <2>5. CASE pipe_after_write \/ pipe_on_eof \/ pipe_after_shutdown
    BY <2>5 DEF pipe_after_write, pipe_on_eof, pipe_after_shutdown, Same, Running, Works, Busy
  <2> QED
    BY <1>2, <2>1, <2>2, <2>3, <2>4, <2>5 DEF PipeNext
<1>3. CASE UdpNext
  <2>1. CASE udp_bind \/ udp_send \/ udp_recv_start \/ udp_close
    BY <2>1, CalledWorks DEF udp_bind, udp_send, udp_recv_start, udp_close
  <2>2. CASE udp_after_send \/ on_recv
    BY <2>2 DEF udp_after_send, on_recv, HandedOver, Same, Running, Works, Busy
  <2> QED
    BY <1>3, <2>1, <2>2 DEF UdpNext
<1>4. CASE TimerNext
  <2>1. ASSUME NEW r \in BOOLEAN, timer_start(r) PROVE Works
    BY <2>1, CalledWorks DEF timer_start
  <2>2. CASE timer_stop \/ timer_again \/ timer_close
    BY <2>2, CalledWorks DEF timer_stop, timer_again, timer_close
  <2>3. CASE on_timer
    BY <2>3 DEF on_timer, HandedOver, Running, Works, Busy
  <2> QED
    BY <1>4, <2>1, <2>2, <2>3 DEF TimerNext
<1>5. CASE drop
  BY <1>5 DEF drop, Silent, uv
<1>6. CASE UNCHANGED vars
  BY <1>6 DEF vars, Silent
<1> QED
  BY <1>1, <1>2, <1>3, <1>4, <1>5, <1>6 DEF Next

(* Every step of a handle is a step of LevObject, or leaves it unchanged. *)
LEMMA StepObject ==
  ASSUME IInv, IInv', [Next]_vars
  PROVE  [Object!Next]_(Object!ovars)
<1> USE DEF Object!Next, Object!ovars
<1>1. Busy \in BOOLEAN /\ Busy' \in BOOLEAN
  BY DEF Busy
<1>2. closes \in 0 .. 1 /\ closes' \in 0 .. 1
  BY DEF IInv, CountInv, TypeOK
<1>3. CASE Born
  BY <1>1, <1>3 DEF Born, Object!Create
<1>4. CASE Works
  <2>1. (closes > 0)' = (closes > 0) /\ life' = life /\ life = "live"
    BY <1>4 DEF Works
  <2>2. CASE Busy' = Busy
    BY <2>1, <2>2
  <2>3. CASE Busy /\ ~Busy'
    BY <1>1, <2>1, <2>3 DEF Object!Finish
  <2>4. CASE ~Busy /\ Busy'
    <3>1. ~(closes > 0)
      BY <1>4, <2>4 DEF Works
    <3>2. Busy' = TRUE
      BY <1>1, <2>4, Zenon
    <3>3. Object!Start
      BY <2>1, <3>1, <3>2, Zenon DEF Object!Start
    <3> QED
      BY <3>3, Zenon
  <2> QED
    BY <1>1, <2>2, <2>3, <2>4
<1>5. CASE Silent
  BY <1>5 DEF Silent, Busy, On
<1>6. CASE after_close
  <2>1. closes = 0 /\ closes' = 1 /\ Busy /\ life = "live" /\ life' = life
    BY <1>2, <1>6 DEF after_close, Busy
  <2>2. ~Busy'
    BY <1>6, <2>1 DEF after_close, Busy, IInv, CountInv, Order, ClosedOnce, PipeOrder, OtherKinds,
       TypeOK, Kinds, On
  <2>3. ~(closes > 0) /\ (closes > 0)'
    BY <2>1
  <2>4. Busy' = FALSE
    BY <1>1, <2>2, Zenon
  <2>5. (closes > 0)' = TRUE
    BY <2>1
  <2>6. Object!Close
    BY <2>1, <2>3, <2>4, <2>5, Zenon DEF Object!Close
  <2> QED
    BY <2>6, Zenon
<1>7. CASE collect
  <2>1. UNCHANGED <<flags, conn, reqs, closes>> /\ life = "live" /\ life' = "collected"
    BY <1>7 DEF collect, uv
  <2>2. ~Busy
    BY <1>7, IInvImplies DEF collect, ActiveIsReferenced
  <2>3. Busy' = Busy
    BY <2>1 DEF Busy, On
  <2> QED
    BY <1>1, <2>1, <2>2, <2>3 DEF Object!Collect
<1> QED
  BY StepKinds, <1>3, <1>4, <1>5, <1>6, <1>7 DEF IInv, CountInv

(* Pipe, UDP and timer handles implement LevObject, the promise of         *)
(* lev_new_base.c, in every program that closes a handle only after it has *)
(* started something on it.                                                *)
THEOREM Implements ==
  ASSUME "idle" \notin CloseWhen
  PROVE  Spec => IsObject
<1>1. Init => IInv
  BY InitIInv
<1>2. IInv /\ [Next]_vars => IInv'
  BY StepCountInv, StepOrder DEF IInv
<1>3. Init => Object!Init
  BY DEF Init, Object!Init, Busy, On
<1>4. IInv /\ IInv' /\ [Next]_vars => [Object!Next]_(Object!ovars)
  BY StepObject
<1> QED
  BY <1>1, <1>2, <1>3, <1>4, PTL DEF Spec, IsObject, Object!Spec
=============================================================================
