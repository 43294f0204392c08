------------------------------ MODULE LevObject ------------------------------
(***************************************************************************)
(* What lev_new_base.c promises of every handle: lev_handle_ref "needs to  *)
(* be called when an async function is started", lev_handle_unref "when an *)
(* async callback fires", so that the userdata, which holds the libuv      *)
(* handle, is collected only while libuv has no business with it; and a    *)
(* handle is closed once, after which nothing is started on it any more.   *)
(* LevTcp and LevHandles implement it.                                     *)
(***************************************************************************)

VARIABLES
  life,   \* of the userdata: "none", "live" or "collected"
  busy,   \* TRUE while libuv will call back about it
  closed  \* TRUE once its close callback has run

ovars == <<life, busy, closed>>

Init == life = "none" /\ busy = FALSE /\ closed = FALSE

(* An accepted connection may be at work from the start. *)
Create == life = "none" /\ life' = "live" /\ busy' \in BOOLEAN /\ UNCHANGED closed

Start == life = "live" /\ ~closed /\ busy' = TRUE /\ UNCHANGED <<life, closed>>

Finish == life = "live" /\ busy /\ busy' = FALSE /\ UNCHANGED <<life, closed>>

(* The close callback: a close is work like any other. *)
Close == life = "live" /\ busy /\ ~closed /\ closed' = TRUE /\ busy' = FALSE /\ UNCHANGED life

Collect == life = "live" /\ ~busy /\ life' = "collected" /\ UNCHANGED <<busy, closed>>

Next == Create \/ Start \/ Finish \/ Close \/ Collect

Spec == Init /\ [][Next]_ovars
=============================================================================
