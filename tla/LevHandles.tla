----------------------------- MODULE LevHandles -----------------------------
(***************************************************************************)
(* The life of one lev.pipe, lev.udp or lev.timer handle (lev_new_pipe.c,  *)
(* lev_new_udp.c, lev_new_timer.c) and the reference count that keeps its  *)
(* userdata from the collector while libuv works on it (lev_new_base.c).   *)
(*                                                                         *)
(* Unlike a lev.tcp handle, these take a reference for every operation     *)
(* they start.  Writes, sends, connects and shutdowns give theirs back in  *)
(* their callbacks; the others are kept, and the close gives back one.     *)
(* The Lua program calls the methods in any order in which libuv accepts   *)
(* them (external), and closes the handle in the phases of CloseWhen.      *)
(***************************************************************************)
EXTENDS Integers

CONSTANTS
  CloseWhen,  \* the phases of the handle in which the program closes it
  MaxKept,    \* bound on the operations whose reference is kept
  MaxReqs     \* bound on the writes or sends under way

Kinds == {"pipe", "udp", "timer"}
Phases == {"idle", "started", "shutting", "closing", "closed"}

ASSUME HandleAssumption ==
  /\ CloseWhen \subseteq Phases
  /\ MaxKept \in Nat
  /\ MaxReqs \in Nat

VARIABLES
  kind,      \* which of the three it is
  life,      \* of the userdata: "none", "live" or "collected"
  held,      \* TRUE while the program can reach it
  refCount,  \* the registry holds the userdata while it is positive
  flags,     \* of the libuv handle inside: a subset of Flags
  conn,      \* the state of its connection, if it is a pipe
  reqs,      \* how many writes or sends are under way
  kept,      \* how many references were taken that no callback gives back
  closes     \* how often the close callback ran

vars == <<kind, life, held, refCount, flags, conn, reqs, kept, closes>>
uv == <<flags, conn, reqs>>

(* fd: a socket is open; active: armed, reading or receiving; repeat: the  *)
(* timer was last started with a repeat.                                   *)
Flags == {"fd", "active", "repeat", "shutting", "closing"}

On(f) == f \in flags

Phase ==
  IF closes > 0 THEN "closed"
  ELSE IF On("closing") THEN "closing"
  ELSE IF On("shutting") THEN "shutting"
  ELSE IF kept > 0 THEN "started" ELSE "idle"

(* An assertion that fails aborts the process. *)
Running(k) == kind = k /\ life = "live" /\ refCount >= 0

(* The program calls a method of a handle that is not being closed. *)
Called(k) == Running(k) /\ held /\ Phase \in {"idle", "started", "shutting"}

(* lev_handle_ref for an operation without a callback that gives it back.  *)
Keep ==
  /\ kept < MaxKept
  /\ refCount' = refCount + 1
  /\ kept' = kept + 1

(* lev_handle_ref and lev_handle_unref of an operation and its callback. *)
lev_handle_ref == refCount' = refCount + 1 /\ UNCHANGED kept
lev_handle_unref == refCount' = refCount - 1 /\ UNCHANGED kept

Same == UNCHANGED <<kind, life, held, closes>>

(* A callback into Lua gets the handle as its first argument, so that a    *)
(* program that had dropped it can reach it again.                         *)
HandedOver == held' = TRUE /\ UNCHANGED <<kind, life, closes>>

-----------------------------------------------------------------------------
(* pipe_new, udp_new and timer_new; pipe_accept on a listening pipe. *)
create ==
  /\ life = "none"
  /\ life' = "live" /\ held' = TRUE
  /\ UNCHANGED <<kind, uv, refCount, kept, closes>>

pipe_accept ==
  /\ kind = "pipe" /\ life = "none"
  /\ life' = "live" /\ held' = TRUE
  /\ flags' = flags \cup {"fd"} /\ conn' = "connected" /\ UNCHANGED reqs
  /\ UNCHANGED <<kind, refCount, kept, closes>>

-----------------------------------------------------------------------------
(* lev_new_pipe.c.  bind and listen keep a reference even when they fail. *)
pipe_bind ==
  /\ Called("pipe")
  /\ \/ ~On("fd") /\ flags' = flags \cup {"fd"} /\ UNCHANGED <<conn, reqs>>
     \/ UNCHANGED uv
  /\ Keep /\ Same

pipe_listen ==
  /\ Called("pipe")
  /\ \/ On("fd") /\ conn = "none" /\ conn' = "listening" /\ UNCHANGED <<flags, reqs>>
     \/ UNCHANGED uv
  /\ Keep /\ Same

pipe_connect ==
  /\ Called("pipe")
  /\ conn = "none"
  /\ conn' = "connecting" /\ UNCHANGED <<flags, reqs>>
  /\ lev_handle_ref /\ Same

on_connect ==
  /\ Running("pipe")
  /\ conn = "connecting"
  /\ \/ flags' = flags \cup {"fd"} /\ conn' = "connected" /\ UNCHANGED reqs
     \/ conn' = "failed" /\ UNCHANGED <<flags, reqs>>
  /\ lev_handle_unref /\ HandedOver

pipe_read_start ==
  /\ Called("pipe")
  /\ conn = "connected"
  /\ flags' = flags \cup {"active"} /\ UNCHANGED <<conn, reqs>>
  /\ Keep /\ Same

pipe_read_stop ==
  /\ Called("pipe")
  /\ On("active")
  /\ flags' = flags \ {"active"} /\ UNCHANGED <<conn, reqs>>
  /\ UNCHANGED <<refCount, kept>> /\ Same

(* Faulty variant: no reference for the write. *)
pipe_write_unref ==
  /\ Called("pipe")
  /\ conn = "connected" /\ reqs < MaxReqs
  /\ reqs' = reqs + 1 /\ UNCHANGED <<flags, conn>>
  /\ UNCHANGED <<refCount, kept>> /\ Same

pipe_write ==
  /\ Called("pipe")
  /\ conn = "connected" /\ reqs < MaxReqs
  /\ reqs' = reqs + 1 /\ UNCHANGED <<flags, conn>>
  /\ lev_handle_ref /\ Same

pipe_after_write ==
  /\ Running("pipe")
  /\ reqs > 0
  /\ reqs' = reqs - 1 /\ UNCHANGED <<flags, conn>>
  /\ lev_handle_unref /\ Same

(* The reference for the shutdown is taken first.  uv_shutdown fails on a  *)
(* pipe that is not connected; one that is shutting down keeps only the    *)
(* later request.  Either way a reference stays behind.                    *)
UV_CLOSE_CLIENT ==
  \/ /\ conn = "connected" /\ ~On("shutting")
     /\ flags' = (flags \ {"active"}) \cup {"shutting"} /\ UNCHANGED <<conn, reqs>>
     /\ lev_handle_ref
  \/ /\ conn # "connected" \/ On("shutting")
     /\ flags' = flags \ {"active"} /\ UNCHANGED <<conn, reqs>>
     /\ Keep

pipe_close ==
  /\ Called("pipe") /\ Phase \in CloseWhen
  /\ On("fd")
  /\ UV_CLOSE_CLIENT /\ Same

(* on_read and on_read2 with nread = -1, and otherwise. *)
pipe_on_eof ==
  /\ Running("pipe")
  /\ On("active")
  /\ UV_CLOSE_CLIENT /\ Same

on_read ==
  /\ Running("pipe")
  /\ On("active")
  /\ UNCHANGED <<uv, refCount, kept>> /\ HandedOver

on_connection ==
  /\ Running("pipe")
  /\ conn = "listening"
  /\ UNCHANGED <<uv, refCount, kept>> /\ HandedOver

(* Faulty variant: the pipe is not closed. *)
pipe_after_shutdown_only ==
  /\ Running("pipe")
  /\ On("shutting") /\ reqs = 0
  /\ flags' = flags \ {"shutting"} /\ UNCHANGED <<conn, reqs>>
  /\ lev_handle_unref /\ Same

pipe_after_shutdown ==
  /\ Running("pipe")
  /\ On("shutting") /\ reqs = 0
  /\ flags' = (flags \ {"shutting", "active", "fd"}) \cup {"closing"} /\ UNCHANGED <<conn, reqs>>
  /\ lev_handle_unref /\ Same

-----------------------------------------------------------------------------
(* lev_new_udp.c.  A socket is bound once; a send or a receive binds it.   *)
udp_bind ==
  /\ Called("udp")
  /\ ~On("fd")
  /\ flags' = flags \cup {"fd"} /\ UNCHANGED <<conn, reqs>>
  /\ Keep /\ Same

udp_send ==
  /\ Called("udp")
  /\ reqs < MaxReqs
  /\ flags' = flags \cup {"fd"} /\ reqs' = reqs + 1 /\ UNCHANGED conn
  /\ lev_handle_ref /\ Same

(* Faulty variant: the reference of the send is not given back. *)
udp_after_send_kept ==
  /\ Running("udp")
  /\ reqs > 0
  /\ reqs' = reqs - 1 /\ UNCHANGED <<flags, conn>>
  /\ UNCHANGED <<refCount, kept>> /\ Same

udp_after_send ==
  /\ Running("udp")
  /\ reqs > 0
  /\ reqs' = reqs - 1 /\ UNCHANGED <<flags, conn>>
  /\ lev_handle_unref /\ Same

udp_recv_start ==
  /\ Called("udp")
  /\ ~On("active")
  /\ flags' = flags \cup {"fd", "active"} /\ UNCHANGED <<conn, reqs>>
  /\ Keep /\ Same

UV_UDP_CLOSE == flags' = (flags \ {"fd", "active"}) \cup {"closing"} /\ UNCHANGED <<conn, reqs>>

(* A datagram stops the receiving, until the program starts it again; an   *)
(* error closes the handle and tells the program, an empty read closes it  *)
(* without a word.                                                         *)
on_recv ==
  /\ Running("udp")
  /\ On("active")
  /\ \/ flags' = flags \ {"active"} /\ UNCHANGED <<conn, reqs>> /\ HandedOver
     \/ UV_UDP_CLOSE /\ HandedOver
     \/ UV_UDP_CLOSE /\ Same
  /\ UNCHANGED <<refCount, kept>>

udp_close ==
  /\ Called("udp") /\ Phase \in CloseWhen
  /\ UV_UDP_CLOSE
  /\ UNCHANGED <<refCount, kept>> /\ Same

-----------------------------------------------------------------------------
(* lev_new_timer.c. *)
timer_start(repeat) ==
  /\ Called("timer")
  /\ flags' = (flags \ {"repeat"}) \cup (IF repeat THEN {"active", "repeat"} ELSE {"active"})
  /\ UNCHANGED <<conn, reqs>>
  /\ Keep /\ Same

timer_stop ==
  /\ Called("timer")
  /\ On("active")
  /\ flags' = flags \ {"active"} /\ UNCHANGED <<conn, reqs>>
  /\ UNCHANGED <<refCount, kept>> /\ Same

(* EINVAL before the first start; no effect unless the timer repeats. *)
timer_again ==
  /\ Called("timer")
  /\ On("repeat")
  /\ flags' = flags \cup {"active"} /\ UNCHANGED <<conn, reqs>>
  /\ UNCHANGED <<refCount, kept>> /\ Same

on_timer ==
  /\ Running("timer")
  /\ On("active")
  /\ flags' = IF On("repeat") THEN flags ELSE flags \ {"active"}
  /\ UNCHANGED <<conn, reqs>>
  /\ UNCHANGED <<refCount, kept>> /\ HandedOver

timer_close ==
  /\ Called("timer") /\ Phase \in CloseWhen
  /\ flags' = (flags \ {"active"}) \cup {"closing"} /\ UNCHANGED <<conn, reqs>>
  /\ UNCHANGED <<refCount, kept>> /\ Same

-----------------------------------------------------------------------------
(* Faulty variant: the handle is still there to be closed. *)
after_close_twice ==
  /\ life = "live" /\ refCount >= 0
  /\ On("closing") /\ reqs = 0
  /\ closes' = closes + 1
  /\ lev_handle_unref
  /\ UNCHANGED <<kind, life, held, uv>>

(* pipe_after_close, udp_after_close and timer_on_close: libuv first ends  *)
(* what is under way.                                                      *)
after_close ==
  /\ life = "live" /\ refCount >= 0
  /\ On("closing") /\ reqs = 0
  /\ flags' = flags \ {"closing"} /\ UNCHANGED <<conn, reqs>>
  /\ closes' = closes + 1
  /\ held' \in {held, TRUE}
  /\ lev_handle_unref
  /\ UNCHANGED <<kind, life>>

drop ==
  /\ life = "live" /\ refCount >= 0 /\ held
  /\ held' = FALSE
  /\ UNCHANGED <<kind, life, refCount, uv, kept, closes>>

collect ==
  /\ life = "live" /\ ~held /\ refCount = 0
  /\ life' = "collected"
  /\ UNCHANGED <<kind, held, refCount, uv, kept, closes>>

Init ==
  /\ kind \in Kinds
  /\ life = "none" /\ held = FALSE
  /\ refCount = 0 /\ kept = 0 /\ closes = 0
  /\ flags = {} /\ conn = "none" /\ reqs = 0

PipeNext ==
  \/ pipe_accept \/ pipe_bind \/ pipe_listen \/ pipe_connect \/ on_connect
  \/ pipe_read_start \/ pipe_read_stop \/ pipe_write \/ pipe_after_write
  \/ pipe_close \/ pipe_on_eof \/ on_read \/ on_connection \/ pipe_after_shutdown

UdpNext ==
  udp_bind \/ udp_send \/ udp_after_send \/ udp_recv_start \/ on_recv \/ udp_close

TimerNext ==
  \/ \E r \in BOOLEAN : timer_start(r)
  \/ timer_stop \/ timer_again \/ on_timer \/ timer_close

Next ==
  \/ create
  \/ PipeNext \/ UdpNext \/ TimerNext
  \/ after_close \/ drop \/ collect

Spec == Init /\ [][Next]_vars

(* libuv completes the requests it has accepted, and looks for a shutdown  *)
(* whenever its write queue is empty.                                      *)
FairSpec ==
  /\ Spec
  /\ WF_vars(pipe_after_write)
  /\ WF_vars(udp_after_send)
  /\ SF_vars(pipe_after_shutdown)
  /\ WF_vars(after_close)

-----------------------------------------------------------------------------
TypeOK ==
  /\ kind \in Kinds /\ life \in {"none", "live", "collected"} /\ held \in BOOLEAN
  /\ refCount \in Int /\ kept \in 0 .. MaxKept /\ closes \in 0 .. 1
  /\ flags \subseteq Flags /\ reqs \in 0 .. MaxReqs
  /\ conn \in {"none", "listening", "connecting", "connected", "failed"}

(* Every reference is accounted for, however calls, callbacks and end of   *)
(* file interleave: one for each request under way, and the kept ones less *)
(* the one that the close gives back.                                      *)
RefCountIsExact ==
  refCount = kept + reqs + (IF conn = "connecting" THEN 1 ELSE 0)
                         + (IF On("shutting") THEN 1 ELSE 0) - closes

(* assert(lhandle->refCount >= 0) in lev_handle_unref. *)
RefCountNonNegative == refCount >= 0

(* libuv will still call back about the handle. *)
Busy ==
  \/ On("active") \/ reqs > 0 \/ conn \in {"connecting", "listening"}
  \/ On("shutting") \/ On("closing")

(* Whatever libuv will still call back about is anchored in the registry,  *)
(* so the collector cannot take the handle from under it; and since a      *)
(* callback never has to anchor it anew, the stack index that              *)
(* UV_CLOSE_CLIENT passes to lev_handle_ref from on_read is never used.    *)
ActiveIsReferenced == Busy => life = "live" /\ refCount > 0

Object == INSTANCE LevObject WITH busy <- Busy, closed <- closes > 0

(* The three kinds of handles keep the promise of lev_new_base.c: never    *)
(* collected from under libuv, closed once, and quiet afterwards.          *)
IsObject == Object!Spec

(* A close under way is completed and on_close is called, unless the       *)
(* program always keeps a write under way.                                 *)
CloseCompletes == []<>(reqs = 0) => (On("shutting") \/ On("closing") ~> closes > 0)
=============================================================================
