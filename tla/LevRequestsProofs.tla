-------------------------- MODULE LevRequestsProofs --------------------------
(***************************************************************************)
(* What holds of the requests of lev.fs and lev.dns for any program: any   *)
(* number of calls, of any of the functions, and any failures of the       *)
(* system.                                                                 *)
(*                                                                         *)
(* Every step starts a task or is of one of a few kinds (Submits, Works,   *)
(* Goes, Returns, Collects) at one holder of one task, and leaves the      *)
(* other tasks alone.  TaskInv says where a task is and which holders the  *)
(* registry anchors; AskInv adds what the caller has been told so far, and *)
(* FdInv which open descriptors a readFile still has to close.             *)
(***************************************************************************)
EXTENDS LevRequests, TLAPS, SequenceTheorems

Stages == {"none", "queued", "worked", "callback", "over", "lost", "collected"}
Hows == {"returned", "called", "resumed", "raised"}
Holders == [stage : Stages, refCount : Nat, fd : 0 .. MaxFd, err : BOOLEAN, val : 0 .. MaxFd]
Tellings == [how : Hows, err : BOOLEAN]

Types ==
  /\ job \in [Tasks -> Jobs]
  /\ pc \in [Tasks -> 0 .. 5]
  /\ holder \in [Tasks -> [1 .. 4 -> Holders]]
  /\ told \in [Tasks -> Seq(Tellings)]
  /\ fds \in [Fds -> Tasks \cup {None}]
  /\ localfd \in [Tasks -> 0 .. MaxFd]
  /\ fd \in 0 .. MaxFd
  /\ running \in Tasks \cup {None}

(* The registry anchors a holder while it is used, and one that was lost. *)
Anchored(h) == h.refCount = (IF h.stage \in {"queued", "worked", "callback", "lost"} THEN 1 ELSE 0)

(* Where a task is: the holders of the requests before the one it has      *)
(* reached are done with, the ones after it are not there yet, and while   *)
(* it does not run it waits for the one it has reached.                    *)
Waits(t) ==
  /\ pc[t] = 0 => running # t /\ \A k \in 1 .. 4 : holder[t][k].stage = "none"
  /\ pc[t] \in 1 .. 4 =>
       /\ pc[t] <= Len(Script(t))
       /\ running = t => holder[t][pc[t]].stage = "none"
       /\ running # t => holder[t][pc[t]].stage \in {"queued", "worked"}
       /\ \A k \in 1 .. 4 : k < pc[t] => holder[t][k].stage \in {"callback", "over", "collected"}
       /\ \A k \in 1 .. 4 : k > pc[t] => holder[t][k].stage = "none"
  /\ pc[t] = Done =>
       /\ running # t
       /\ \A k \in 1 .. 4 : holder[t][k].stage \in {"none", "callback", "over", "lost", "collected"}

(* What fs.exists with a callback has returned while its request is out. *)
Returned(t) == IF Hasty(t) /\ pc[t] = 1 /\ running # t THEN <<Presumed>> ELSE <<>>

(* Both answers of that call. *)
Twice(tellings) ==
  Len(tellings) = 2 /\ tellings[1].how = "returned" /\ tellings[2].how = "called"

(* Only readFile with callbacks, and fs.exists with one, answer before     *)
(* their last request is done.                                             *)
Unanswered(t) ==
  /\ pc[t] < 4 => told[t] = Returned(t)
  /\ pc[t] = 4 /\ ~job[t].cb => told[t] = <<>>
  /\ ~Hasty(t) => Len(told[t]) <= 1
  /\ Hasty(t) /\ pc[t] = Done => Twice(told[t])

Lost(t) ==
  \A k \in 1 .. 4 : holder[t][k].stage = "lost" =>
    pc[t] = Done /\ IsDns(t) /\ told[t] = <<[how |-> "returned", err |-> TRUE]>>

Going(t) ==
  /\ \A k \in 1 .. 4 : Anchored(holder[t][k])
  /\ Waits(t) /\ Unanswered(t) /\ Lost(t)

TaskInv == Types /\ \A t \in Tasks : Going(t)

-----------------------------------------------------------------------------
(* The script of readFile has four requests, that of any other call one. *)
LEMMA ScriptShape ==
  ASSUME NEW t \in Tasks
  PROVE  /\ job[t].fn = "readFile" =>
              /\ Len(Script(t)) = 4
              /\ Script(t)[1] = "stat" /\ Script(t)[2] = "open"
              /\ Script(t)[3] = "read" /\ Script(t)[4] = "close"
              /\ ~IsDns(t)
         /\ job[t].fn # "readFile" => Len(Script(t)) = 1 /\ Script(t)[1] = job[t].fn
BY DEF Script, IsDns, DnsFunctions, HostQueries, AddressLookups, RecordQueries

(* fs.exists has one request, which goes to the pool. *)
LEMMA HastyCall ==
  ASSUME NEW t \in Tasks, Hasty(t)
  PROVE  /\ ~IsDns(t) /\ job[t].fn # "readFile" /\ Len(Script(t)) = 1
         /\ Script(t)[1] = "exists" /\ Async(t, "exists") /\ HasCallback(t, "exists")
<1>1. job[t].fn = "exists" /\ job[t].cb
  BY DEF Hasty
<1>2. ~IsDns(t)
  BY <1>1 DEF IsDns, DnsFunctions, HostQueries, AddressLookups, RecordQueries
<1>3. Fn("exists", 1, 2) \in FsFunctions
  BY DEF FsFunctions
<1>4. Fn("exists", 1, 2).name = "exists" /\ Fn("exists", 1, 2).index = Fn("exists", 1, 2).nargs + 1
  BY DEF Fn
<1>5. HasCallback(t, "exists")
  BY <1>1, <1>3, <1>4 DEF HasCallback
<1> QED
  BY <1>1, <1>2, <1>5, ScriptShape DEF Async

(* What becomes of the table of holders when one of them is replaced. *)
LEMMA OneHolder ==
  ASSUME NEW H \in [Tasks -> [1 .. 4 -> Holders]], NEW H2,
         NEW t \in Tasks, NEW k \in 1 .. 4, NEW h \in Holders,
         H2 = [H EXCEPT ![t][k] = h]
  PROVE  /\ H2 \in [Tasks -> [1 .. 4 -> Holders]]
         /\ H2[t][k] = h
         /\ \A l \in 1 .. 4 : l # k => H2[t][l] = H[t][l]
         /\ \A u \in Tasks : u # t => H2[u] = H[u]
OBVIOUS

(***************************************************************************)
(* The kinds of steps: a request is given to the pool, the pool is done    *)
(* with it, the task goes on with its outcome, a callback has returned, a  *)
(* holder is collected.                                                    *)
(***************************************************************************)
Submits(t, k, h) ==
  /\ running = t /\ k = pc[t]
  /\ h.stage = "queued" /\ h.refCount = 1 /\ h.fd = Descriptor(t)
  /\ ~IsDns(t) => Async(t, Script(t)[k])
  /\ told' = IF Hasty(t) THEN [told EXCEPT ![t] = Append(@, Presumed)] ELSE told
  /\ running' = None
  /\ UNCHANGED <<job, pc, fds, localfd, fd>>

Works(t, k, h) ==
  /\ holder[t][k].stage = "queued"
  /\ h.stage = "worked" /\ h.refCount = holder[t][k].refCount
  /\ push_results(t, k, holder[t][k].fd, h.err, h.val)
  /\ UNCHANGED <<job, pc, told, localfd, fd, running>>

(* How the outcome came about: the request was worked on before, or the    *)
(* call itself did it.                                                     *)
Outcome(t, k, err, val) ==
  \/ /\ running = None /\ holder[t][k].stage = "worked" /\ UNCHANGED fds
     /\ ~IsDns(t) => err = holder[t][k].err /\ val = holder[t][k].val
  \/ running = t /\ IsDns(t) /\ UNCHANGED fds
  \/ running = t /\ ~IsDns(t) /\ push_results(t, k, Descriptor(t), err, val)

(* How a task may hear of the outcome. *)
Manner(t, k, err, how) ==
  /\ job[t].fn = "resolve" => how = "raised"
  /\ job[t].fn # "resolve" /\ IsDns(t) => how = "called" \/ (how = "returned" /\ err)
  /\ ~IsDns(t) /\ running = t => how = "returned" /\ ~Async(t, Script(t)[k])
  /\ ~IsDns(t) /\ running = None =>
       how = IF ~job[t].co \/ (HasCallback(t, Script(t)[k]) /\ job[t].fn # "exists")
               THEN "called" ELSE "resumed"

Goes(t, k, h, err, val, how) ==
  /\ k = pc[t] /\ running \in {t, None}
  /\ running = t => holder[t][k].stage = "none"
  /\ h.stage \in {"over", "callback", "lost"} /\ Anchored(h)
  /\ h.stage = "lost" => IsDns(t) /\ err /\ how = "returned"
  /\ Outcome(t, k, err, val) /\ Manner(t, k, err, how)
  /\ Continue(t, k, err, val, how)
  /\ UNCHANGED job

Returns(t, k, h) ==
  /\ holder[t][k].stage = "callback" /\ h.stage = "over" /\ h.refCount = 0
  /\ running = None
  /\ UNCHANGED <<job, pc, told, fds, localfd, fd, running>>

Collects(t, k, h) ==
  /\ holder[t][k].stage = "over" /\ h.stage = "collected" /\ h.refCount = 0
  /\ UNCHANGED <<job, pc, told, fds, localfd, fd, running>>

(* A step of one of the kinds, at the k-th holder of t. *)
Kind(t, k, h) ==
  \/ Submits(t, k, h) \/ Works(t, k, h) \/ Returns(t, k, h) \/ Collects(t, k, h)
  \/ \E err \in BOOLEAN, val \in 0 .. MaxFd, how \in Hows : Goes(t, k, h, err, val, how)

(* A task that runs is at one of its requests, whose holder is not there. *)
LEMMA RunningTask ==
  ASSUME TaskInv, NEW t \in Tasks, running = t
  PROVE  /\ pc[t] \in 1 .. 4 /\ pc[t] <= Len(Script(t))
         /\ holder[t][pc[t]].stage = "none"
         /\ IsDns(t) => pc[t] = 1
<1>1. pc[t] \in 0 .. 5 /\ Waits(t)
  BY DEF TaskInv, Types, Going
<1>2. pc[t] # 0 /\ pc[t] # 5
  BY <1>1 DEF Waits, Done
<1>3. pc[t] \in 1 .. 4
  BY <1>1, <1>2
<1>4. pc[t] <= Len(Script(t)) /\ holder[t][pc[t]].stage = "none"
  BY <1>1, <1>3 DEF Waits
<1>5. IsDns(t) => pc[t] = 1
  BY <1>3, <1>4, ScriptShape
<1> QED
  BY <1>3, <1>4, <1>5

(* A holder that the pool has, or has worked on, is the one its task waits *)
(* for.                                                                    *)
LEMMA WaitingTask ==
  ASSUME TaskInv, NEW t \in Tasks, NEW k \in 1 .. 4, holder[t][k].stage \in {"queued", "worked"}
  PROVE  /\ k = pc[t] /\ pc[t] <= Len(Script(t)) /\ running # t
         /\ holder[t][k].refCount = 1
<1>1. pc[t] \in 0 .. 5 /\ Waits(t) /\ Anchored(holder[t][k])
  BY DEF TaskInv, Types, Going
<1>2. pc[t] # 0 /\ pc[t] # 5
  BY <1>1 DEF Waits, Done
<1>3. pc[t] \in 1 .. 4
  BY <1>1, <1>2
<1>4. ~(k < pc[t]) /\ ~(k > pc[t])
  BY <1>1, <1>3 DEF Waits
<1>5. k = pc[t]
  BY <1>3, <1>4
<1>6. pc[t] <= Len(Script(t)) /\ running # t
  BY <1>1, <1>3, <1>5 DEF Waits
<1> QED
  BY <1>1, <1>5, <1>6 DEF Anchored

(* Holders as the functions of lev.fs and lev.dns make and change them. *)
LEMMA NewHolder ==
  /\ NoHolder \in Holders
  /\ NoHolder.stage = "none" /\ NoHolder.refCount = 0 /\ NoHolder.fd = 0
BY RequestAssumption DEF RequestAssumption, NoHolder, Holders, Stages

(* FSR__SET_OPT_CB anchors the holder of a request that goes to the thread *)
(* pool.                                                                   *)
LEMMA QueuedHolder ==
  ASSUME NEW r \in Holders, NEW f \in 0 .. MaxFd
  PROVE  LET h == [r EXCEPT !.stage = "queued", !.refCount = 1, !.fd = f]
         IN h \in Holders /\ h.stage = "queued" /\ h.refCount = 1 /\ h.fd = f
BY DEF Holders, Stages

(* DNSR__SET_CB anchors the holder of a query. *)
LEMMA DnsHolder ==
  ASSUME NEW r \in Holders
  PROVE  LET h == [r EXCEPT !.stage = "queued", !.refCount = 1]
         IN h \in Holders /\ h.stage = "queued" /\ h.refCount = 1 /\ h.fd = r.fd
BY DEF Holders, Stages

(* A step that only moves a holder on leaves its other fields alone. *)
LEMMA OtherStage ==
  ASSUME NEW r \in Holders, NEW st \in Stages
  PROVE  LET h == [r EXCEPT !.stage = st]
         IN /\ h \in Holders /\ h.stage = st /\ h.refCount = r.refCount
            /\ h.fd = r.fd /\ h.err = r.err /\ h.val = r.val
BY DEF Holders

(* A holder that its callback has let go of. *)
LEMMA OverHolder ==
  ASSUME NEW r \in Holders, NEW n \in Nat
  PROVE  LET h == [r EXCEPT !.stage = "over", !.refCount = n]
         IN h \in Holders /\ h.stage = "over" /\ h.refCount = n
BY DEF Holders, Stages

(* The descriptor that a task passes on is one, or none. *)
LEMMA DescriptorType ==
  ASSUME Types, NEW t \in Tasks
  PROVE  Descriptor(t) \in 0 .. MaxFd /\ (IsDns(t) => Descriptor(t) = 0)
<1>1. localfd[t] \in 0 .. MaxFd /\ fd \in 0 .. MaxFd /\ 0 \in 0 .. MaxFd
  BY RequestAssumption DEF Types, RequestAssumption
<1>2. IsDns(t) => job[t].fn # "readFile"
  BY ScriptShape
<1> QED
  BY <1>1, <1>2 DEF Descriptor

(* A call of lev.fs with a callback or in a coroutine submits a request. *)
LEMMA AsyncKind ==
  ASSUME TaskInv, NEW t \in Tasks, fs_async(t) \/ fs_exists(t)
  PROVE  \E k \in 1 .. 4, h \in Holders : Kind(t, k, h) /\ holder' = [holder EXCEPT ![t][k] = h]
<1> DEFINE h == FSR__SET_OPT_CB(t)
<1>1. pc[t] \in 1 .. 4 /\ pc[t] <= Len(Script(t))
  BY RunningTask DEF fs_async, fs_exists
<1>2. Descriptor(t) \in 0 .. MaxFd
  BY DescriptorType DEF TaskInv
<1>4. h \in Holders /\ h.stage = "queued" /\ h.refCount = 1 /\ h.fd = Descriptor(t)
  BY <1>2, NewHolder, QueuedHolder DEF FSR__SET_OPT_CB
<1>5. /\ running = t /\ running' = None
      /\ holder' = [holder EXCEPT ![t][pc[t]] = h]
      /\ UNCHANGED <<job, pc, fds, localfd, fd>>
  BY DEF fs_async, fs_exists
<1>6. /\ told' = IF Hasty(t) THEN [told EXCEPT ![t] = Append(told[t], Presumed)] ELSE told
      /\ Async(t, Script(t)[pc[t]])
  <2>1. CASE fs_async(t)
    BY <2>1 DEF fs_async, Op
  <2>2. CASE fs_exists(t)
    <3>1. Hasty(t) /\ told' = [told EXCEPT ![t] = Append(told[t], Presumed)]
      BY <2>2 DEF fs_exists
    <3>2. Len(Script(t)) = 1 /\ Script(t)[1] = "exists" /\ Async(t, "exists")
      BY <3>1, HastyCall
    <3>3. pc[t] = 1
      BY <1>1, <3>2
    <3> QED
      BY <3>1, <3>2, <3>3
  <2> QED
    BY <2>1, <2>2
<1>7. Submits(t, pc[t], h) /\ holder' = [holder EXCEPT ![t][pc[t]] = h]
  BY <1>4, <1>5, <1>6 DEF Submits
<1> HIDE DEF h
<1> QED
  BY <1>1, <1>4, <1>7 DEF Kind

(* A call of lev.dns submits a query. *)
LEMMA QueryKind ==
  ASSUME TaskInv, NEW t \in Tasks, dns_query(t)
  PROVE  \E k \in 1 .. 4, h \in Holders : Kind(t, k, h) /\ holder' = [holder EXCEPT ![t][k] = h]
<1> DEFINE h == DNSR__SET_CB
<1>1. IsDns(t) /\ pc[t] = 1
  BY RunningTask DEF dns_query, IsDns
<1>2. Descriptor(t) = 0
  BY <1>1, DescriptorType DEF TaskInv
<1>4. h \in Holders /\ h.stage = "queued" /\ h.refCount = 1 /\ h.fd = 0
  BY NewHolder, DnsHolder DEF DNSR__SET_CB
<1>3. ~Hasty(t)
  BY <1>1, HastyCall
<1>5. Submits(t, 1, h) /\ holder' = [holder EXCEPT ![t][1] = h]
  BY <1>1, <1>2, <1>3, <1>4 DEF Submits, dns_query
<1>6. 1 \in 1 .. 4
  OBVIOUS
<1> HIDE DEF h
<1> QED
  BY <1>4, <1>5, <1>6 DEF Kind

(* A call of lev.fs without a callback, outside of coroutines, works at    *)
(* once.                                                                   *)
LEMMA SyncKind ==
  ASSUME TaskInv, NEW t \in Tasks, fs_sync(t)
  PROVE  \E k \in 1 .. 4, h \in Holders : Kind(t, k, h) /\ holder' = [holder EXCEPT ![t][k] = h]
<1> DEFINE h == [NoHolder EXCEPT !.stage = "over"]
<1>1. pc[t] \in 1 .. 4 /\ holder[t][pc[t]].stage = "none"
  BY RunningTask DEF fs_sync
<1>4. h \in Holders /\ h.stage = "over" /\ h.refCount = 0
  BY NewHolder, OtherStage DEF Stages
<1>5. PICK err \in BOOLEAN, val \in 0 .. MaxFd :
        push_results(t, pc[t], Descriptor(t), err, val) /\ Continue(t, pc[t], err, val, "returned")
  BY DEF fs_sync
<1>6. running = t /\ ~IsDns(t) /\ ~Async(t, Script(t)[pc[t]]) /\ job' = job
      /\ holder' = [holder EXCEPT ![t][pc[t]] = h]
  BY DEF fs_sync, Op
<1>7. running # None
  BY <1>6, RequestAssumption DEF RequestAssumption
<1>8. Outcome(t, pc[t], err, val)
  BY <1>5, <1>6 DEF Outcome
<1>9. Manner(t, pc[t], err, "returned")
  BY <1>6, <1>7 DEF Manner, IsDns, DnsFunctions
<1>10. Anchored(h)
  BY <1>4 DEF Anchored
<1>11. Goes(t, pc[t], h, err, val, "returned")
  BY <1>1, <1>4, <1>5, <1>6, <1>8, <1>9, <1>10 DEF Goes
<1>12. "returned" \in Hows
  BY DEF Hows
<1> HIDE DEF h
<1> QED
  BY <1>1, <1>4, <1>6, <1>11, <1>12 DEF Kind

(* A holder changed in place is a holder replaced. *)
LEMMA ChangedInPlace ==
  ASSUME NEW H \in [Tasks -> [1 .. 4 -> Holders]], NEW t \in Tasks, NEW k \in 1 .. 4
  PROVE  /\ \A st : [H EXCEPT ![t][k].stage = st] = [H EXCEPT ![t][k] = [H[t][k] EXCEPT !.stage = st]]
         /\ [H EXCEPT ![t][k].stage = "over", ![t][k].refCount = @ - 1]
              = [H EXCEPT ![t][k] = [H[t][k] EXCEPT !.stage = "over", !.refCount = H[t][k].refCount - 1]]
OBVIOUS

(* The thread pool's step. *)
LEMMA WorkKind ==
  ASSUME TaskInv, NEW t \in Tasks, NEW k \in 1 .. 4, uv_work(t, k)
  PROVE  \E h \in Holders : Kind(t, k, h) /\ holder' = [holder EXCEPT ![t][k] = h]
<1>1. PICK err \in BOOLEAN, val \in 0 .. MaxFd :
        /\ push_results(t, k, holder[t][k].fd, err, val)
        /\ holder' = [holder EXCEPT ![t][k].stage = "worked", ![t][k].err = err, ![t][k].val = val]
  BY DEF uv_work
<1> DEFINE h == [holder[t][k] EXCEPT !.stage = "worked", !.err = err, !.val = val]
<1>2. holder \in [Tasks -> [1 .. 4 -> Holders]] /\ holder[t][k] \in Holders
  BY DEF TaskInv, Types
<1>3. holder' = [holder EXCEPT ![t][k] = h]
  BY <1>1, <1>2
<1>4. h \in Holders /\ h.stage = "worked" /\ h.refCount = holder[t][k].refCount
      /\ h.err = err /\ h.val = val
  BY <1>2 DEF Holders, Stages
<1> HIDE DEF h
<1>5. Works(t, k, h)
  BY <1>1, <1>4 DEF Works, uv_work
<1> QED
  BY <1>3, <1>4, <1>5 DEF Kind

(* The callback of a file system request. *)
LEMMA CallbackKind ==
  ASSUME TaskInv, NEW t \in Tasks, NEW k \in 1 .. 4, on_fs_callback(t, k)
  PROVE  \E h \in Holders : Kind(t, k, h) /\ holder' = [holder EXCEPT ![t][k] = h]
<1> DEFINE h == [holder[t][k] EXCEPT !.stage = "callback"]
           err == holder[t][k].err
           val == holder[t][k].val
           how == IF ~job[t].co \/ (HasCallback(t, Script(t)[k]) /\ job[t].fn # "exists")
                    THEN "called" ELSE "resumed"
<1>1. running = None /\ holder[t][k].stage = "worked" /\ ~IsDns(t) /\ job' = job /\ fds' = fds
  BY DEF on_fs_callback, InLoop
<1>2. holder \in [Tasks -> [1 .. 4 -> Holders]] /\ holder[t][k] \in Holders
  BY DEF TaskInv, Types
<1>3. holder' = [holder EXCEPT ![t][k] = h]
  BY <1>2, ChangedInPlace DEF on_fs_callback
<1>4. h \in Holders /\ h.stage = "callback" /\ h.refCount = holder[t][k].refCount
  BY <1>2, OtherStage DEF Stages
<1>5. k = pc[t] /\ holder[t][k].refCount = 1
  BY <1>1, WaitingTask
<1>6. err \in BOOLEAN /\ val \in 0 .. MaxFd
  BY <1>2 DEF Holders
<1>7. how \in Hows
  BY DEF Hows
<1>8. Continue(t, k, err, val, how)
  BY DEF on_fs_callback
<1>9. Outcome(t, k, err, val)
  BY <1>1 DEF Outcome
<1>10. job[t].fn # "resolve"
  BY <1>1 DEF IsDns, DnsFunctions
<1>11. Anchored(h)
  BY <1>4, <1>5 DEF Anchored
<1>12. running # t
  BY <1>1, RequestAssumption DEF RequestAssumption
<1>13. Manner(t, k, err, how)
  BY <1>1, <1>10, <1>12 DEF Manner
<1> HIDE DEF h, err, val, how
<1>14. Goes(t, k, h, err, val, how)
  BY <1>1, <1>4, <1>5, <1>8, <1>9, <1>11, <1>12, <1>13 DEF Goes
<1> QED
  BY <1>3, <1>4, <1>6, <1>7, <1>14 DEF Kind

(* The callback has returned. *)
LEMMA ReturnKind ==
  ASSUME TaskInv, NEW t \in Tasks, NEW k \in 1 .. 4, after_fs_callback(t, k)
  PROVE  \E h \in Holders : Kind(t, k, h) /\ holder' = [holder EXCEPT ![t][k] = h]
<1> DEFINE h == [holder[t][k] EXCEPT !.stage = "over", !.refCount = holder[t][k].refCount - 1]
<1>1. holder \in [Tasks -> [1 .. 4 -> Holders]] /\ holder[t][k] \in Holders
  BY DEF TaskInv, Types
<1>2. holder[t][k].stage = "callback"
  BY DEF after_fs_callback
<1>3. holder[t][k].refCount - 1 = 0
  BY <1>2 DEF TaskInv, Going, Anchored
<1>4. holder' = [holder EXCEPT ![t][k] = h]
  BY <1>1, ChangedInPlace DEF after_fs_callback
<1>5. h \in Holders /\ h.stage = "over" /\ h.refCount = 0
  BY <1>1, <1>3, OverHolder
<1> HIDE DEF h
<1>6. Returns(t, k, h)
  BY <1>2, <1>5 DEF Returns, after_fs_callback
<1> QED
  BY <1>4, <1>5, <1>6 DEF Kind

(* The collector. *)
LEMMA CollectKind ==
  ASSUME TaskInv, NEW t \in Tasks, NEW k \in 1 .. 4, collect(t, k)
  PROVE  \E h \in Holders : Kind(t, k, h) /\ holder' = [holder EXCEPT ![t][k] = h]
<1> DEFINE h == [holder[t][k] EXCEPT !.stage = "collected"]
<1>1. holder \in [Tasks -> [1 .. 4 -> Holders]] /\ holder[t][k] \in Holders
  BY DEF TaskInv, Types
<1>2. holder[t][k].refCount = 0 /\ holder[t][k].stage \in {"queued", "worked", "over"}
  BY DEF collect
<1>3. holder[t][k].stage = "over"
  BY <1>2, WaitingTask
<1>4. holder' = [holder EXCEPT ![t][k] = h]
  BY <1>1, ChangedInPlace DEF collect
<1>5. h \in Holders /\ h.stage = "collected" /\ h.refCount = 0
  BY <1>1, <1>2, OtherStage DEF Stages
<1> HIDE DEF h
<1>6. Collects(t, k, h)
  BY <1>3, <1>5 DEF Collects, collect
<1> QED
  BY <1>4, <1>5, <1>6 DEF Kind

(* The steps in which a dns call has its outcome at once. *)
LEMMA AtOnceKind ==
  ASSUME TaskInv, NEW t \in Tasks, IsDns(t), running = t, NEW h \in Holders,
         NEW err \in BOOLEAN, NEW how \in Hows,
         h.stage \in {"over", "lost"}, Anchored(h), h.stage = "lost" => err /\ how = "returned",
         job[t].fn = "resolve" => how = "raised",
         job[t].fn # "resolve" => how = "called" \/ (how = "returned" /\ err),
         Continue(t, 1, err, 0, how), UNCHANGED <<job, fds>>
  PROVE  Kind(t, 1, h)
<1>1. pc[t] = 1 /\ holder[t][1].stage = "none"
  BY RunningTask
<1>2. running # None
  BY RequestAssumption DEF RequestAssumption
<1>3. Outcome(t, 1, err, 0)
  BY DEF Outcome
<1>4. Manner(t, 1, err, how)
  BY <1>2 DEF Manner
<1>5. Goes(t, 1, h, err, 0, how)
  BY <1>1, <1>3, <1>4 DEF Goes
<1>6. 0 \in 0 .. MaxFd
  BY RequestAssumption DEF RequestAssumption
<1> QED
  BY <1>5, <1>6 DEF Kind

(* A query that libuv or c-ares refuses returns, with its holder lost. *)
LEMMA DnsFailsKind ==
  ASSUME TaskInv, NEW t \in Tasks, dns_call_fails(t)
  PROVE  \E h \in Holders : Kind(t, 1, h) /\ holder' = [holder EXCEPT ![t][1] = h]
<1> DEFINE h == [DNSR__SET_CB EXCEPT !.stage = "lost"]
<1>1. DNSR__SET_CB \in Holders /\ DNSR__SET_CB.refCount = 1
  BY NewHolder, DnsHolder DEF DNSR__SET_CB
<1>2. h \in Holders /\ h.stage = "lost" /\ h.refCount = 1
  BY <1>1, OtherStage DEF Stages
<1>3. holder' = [holder EXCEPT ![t][1] = h]
  BY DEF dns_call_fails
<1>4. IsDns(t) /\ job[t].fn # "resolve"
  BY DEF dns_call_fails, IsDns, DnsFunctions, AddressLookups
<1>5. Anchored(h)
  BY <1>2 DEF Anchored
<1>6. running = t /\ Continue(t, 1, TRUE, 0, "returned") /\ UNCHANGED <<job, fds>>
  BY DEF dns_call_fails
<1>7. "returned" \in Hows
  BY DEF Hows
<1> HIDE DEF h
<1>8. Kind(t, 1, h)
  BY <1>2, <1>4, <1>5, <1>6, <1>7, AtOnceKind
<1> QED
  BY <1>2, <1>3, <1>8

(* A query that c-ares answers before the call returns is over. *)
LEMMA DnsAnsweredKind ==
  ASSUME TaskInv, NEW t \in Tasks, dns_call_answered(t)
  PROVE  \E h \in Holders : Kind(t, 1, h) /\ holder' = [holder EXCEPT ![t][1] = h]
<1> DEFINE h == [DNSR__SET_CB EXCEPT !.stage = "over", !.refCount = 0]
<1>1. DNSR__SET_CB \in Holders
  BY NewHolder, DnsHolder DEF DNSR__SET_CB
<1>2. h \in Holders /\ h.stage = "over" /\ h.refCount = 0
  BY <1>1, OverHolder
<1>3. holder' = [holder EXCEPT ![t][1] = h]
  BY DEF dns_call_answered
<1>4. IsDns(t) /\ job[t].fn # "resolve"
  BY DEF dns_call_answered, IsDns, DnsFunctions, HostQueries, RecordQueries
<1>5. Anchored(h)
  BY <1>2 DEF Anchored
<1>6. PICK err \in BOOLEAN : Continue(t, 1, err, 0, "called")
  BY DEF dns_call_answered
<1>7. "called" \in Hows /\ running = t /\ UNCHANGED <<job, fds>>
  BY DEF Hows, dns_call_answered
<1> HIDE DEF h
<1>8. Kind(t, 1, h)
  BY <1>2, <1>4, <1>5, <1>6, <1>7, AtOnceKind
<1> QED
  BY <1>2, <1>3, <1>8

(* dns.resolve returns or raises at once, without a request. *)
LEMMA ResolveKind ==
  ASSUME TaskInv, NEW t \in Tasks, dns_resolve(t)
  PROVE  \E h \in Holders : Kind(t, 1, h) /\ holder' = [holder EXCEPT ![t][1] = h]
<1> DEFINE h == [NoHolder EXCEPT !.stage = "over"]
<1>2. h \in Holders /\ h.stage = "over" /\ h.refCount = 0
  BY NewHolder, OtherStage DEF Stages
<1>3. holder' = [holder EXCEPT ![t][1] = h]
  BY DEF dns_resolve
<1>4. IsDns(t) /\ job[t].fn = "resolve"
  BY DEF dns_resolve, IsDns, DnsFunctions
<1>5. Anchored(h)
  BY <1>2 DEF Anchored
<1>6. running = t /\ Continue(t, 1, TRUE, 0, "raised") /\ UNCHANGED <<job, fds>>
  BY DEF dns_resolve
<1>7. "raised" \in Hows
  BY DEF Hows
<1> HIDE DEF h
<1>8. Kind(t, 1, h)
  BY <1>2, <1>4, <1>5, <1>6, <1>7, AtOnceKind
<1> QED
  BY <1>2, <1>3, <1>8

(* The callback of a query answers its caller and lets go of its holder. *)
LEMMA DisposeKind ==
  ASSUME TaskInv, NEW t \in Tasks, NEW fns \in SUBSET (DnsFunctions \ {"resolve"}),
         NEW err \in BOOLEAN, Dispose(t, fns, err)
  PROVE  \E h \in Holders : Kind(t, 1, h) /\ holder' = [holder EXCEPT ![t][1] = h]
<1> DEFINE h == [holder[t][1] EXCEPT !.stage = "over", !.refCount = holder[t][1].refCount - 1]
<1>1. running = None /\ holder[t][1].stage = "worked" /\ IsDns(t) /\ job[t].fn # "resolve"
      /\ UNCHANGED <<job, fds>> /\ Continue(t, 1, err, 0, "called")
  BY DEF Dispose, InLoop, IsDns
<1>2. holder \in [Tasks -> [1 .. 4 -> Holders]] /\ holder[t][1] \in Holders
  BY DEF TaskInv, Types
<1>3. 1 = pc[t] /\ holder[t][1].refCount = 1
  BY <1>1, WaitingTask
<1>4. holder[t][1].refCount - 1 = 0
  BY <1>3
<1>5. holder' = [holder EXCEPT ![t][1] = h]
  <2>1. holder' = [holder EXCEPT ![t][1].stage = "over", ![t][1].refCount = @ - 1]
    BY DEF Dispose
  <2> QED
    BY <1>2, <2>1
<1>6. h \in Holders /\ h.stage = "over" /\ h.refCount = 0
  <2>1. PICK r \in Holders : r = holder[t][1]
    BY <1>2
  <2>2. h = [r EXCEPT !.stage = "over", !.refCount = 0]
    BY <1>4, <2>1
  <2> HIDE DEF h
  <2> DEFINE g == [r EXCEPT !.stage = "over", !.refCount = 0]
  <2>3. g \in Holders /\ g.stage = "over" /\ g.refCount = 0
    BY OverHolder
  <2> QED
    BY <2>2, <2>3
<1>7. Anchored(h)
  BY <1>6 DEF Anchored
<1>8. running # t
  BY <1>1, RequestAssumption DEF RequestAssumption
<1> HIDE DEF h
<1>9. Outcome(t, 1, err, 0)
  BY <1>1 DEF Outcome
<1>10. Manner(t, 1, err, "called")
  BY <1>1 DEF Manner
<1>11. Goes(t, 1, h, err, 0, "called")
  BY <1>1, <1>3, <1>6, <1>7, <1>8, <1>9, <1>10 DEF Goes
<1>12. 0 \in 0 .. MaxFd /\ "called" \in Hows
  BY RequestAssumption DEF RequestAssumption, Hows
<1>13. Kind(t, 1, h)
  BY <1>11, <1>12 DEF Kind
<1> QED
  BY <1>5, <1>6, <1>13

(* Every step is a start or one of the kinds. *)
LEMMA StepKinds ==
  ASSUME TaskInv, Next
  PROVE  \/ \E t \in Tasks : start(t)
         \/ \E t \in Tasks, k \in 1 .. 4, h \in Holders :
              Kind(t, k, h) /\ holder' = [holder EXCEPT ![t][k] = h]
<1> DEFINE Goal == \E t \in Tasks, k \in 1 .. 4, h \in Holders :
                     Kind(t, k, h) /\ holder' = [holder EXCEPT ![t][k] = h]
<1>0. 1 \in 1 .. 4
  OBVIOUS
<1>1. ASSUME NEW t \in Tasks, FsNext(t) PROVE Goal
  BY <1>1, AsyncKind, SyncKind, CallbackKind, ReturnKind DEF FsNext
<1>2. ASSUME NEW t \in Tasks, DnsNext(t) PROVE Goal
  <2>1. holder[t][1] \in Holders
    BY DEF TaskInv, Types
  <2>2. holder[t][1].err \in BOOLEAN
    BY <2>1 DEF Holders
  <2>3. /\ HostQueries \in SUBSET (DnsFunctions \ {"resolve"})
        /\ AddressLookups \in SUBSET (DnsFunctions \ {"resolve"})
        /\ RecordQueries \in SUBSET (DnsFunctions \ {"resolve"})
        /\ {"reverse"} \in SUBSET (DnsFunctions \ {"resolve"})
    BY DEF DnsFunctions, HostQueries, AddressLookups, RecordQueries
  <2>4. ASSUME NEW fns \in SUBSET (DnsFunctions \ {"resolve"}), NEW err \in BOOLEAN, Dispose(t, fns, err)
        PROVE Goal
    BY <1>0, <2>4, DisposeKind
  <2>5. ASSUME dns_query(t) PROVE Goal
    BY <2>5, QueryKind
  <2>6. ASSUME dns_call_fails(t) PROVE Goal
    BY <1>0, <2>6, DnsFailsKind
  <2>7. ASSUME dns_call_answered(t) PROVE Goal
    BY <1>0, <2>7, DnsAnsweredKind
  <2>8. ASSUME dns_resolve(t) PROVE Goal
    BY <1>0, <2>8, ResolveKind
  <2>9. ASSUME on_resolve_host(t) PROVE Goal
    BY <2>2, <2>3, <2>4, <2>9 DEF on_resolve_host
  <2>10. ASSUME on_lookup_family(t) PROVE Goal
    BY <2>2, <2>3, <2>4, <2>10 DEF on_lookup_family
  <2>11. ASSUME on_reverse(t) PROVE Goal
    BY <2>2, <2>3, <2>4, <2>11 DEF on_reverse
  <2>12. ASSUME on_resolve_record(t) PROVE Goal
    <3>1. PICK unparsed \in BOOLEAN : Dispose(t, RecordQueries, holder[t][1].err \/ unparsed)
      BY <2>12 DEF on_resolve_record
    <3>2. (holder[t][1].err \/ unparsed) \in BOOLEAN
      OBVIOUS
    <3> QED
      BY <2>3, <2>4, <3>1, <3>2
  <2> HIDE DEF Goal
  <2> QED
    BY <1>2, <2>5, <2>6, <2>7, <2>8, <2>9, <2>10, <2>11, <2>12 DEF DnsNext
<1>3. ASSUME NEW t \in Tasks, NEW k \in 1 .. 4, uv_work(t, k) \/ collect(t, k) PROVE Goal
  BY <1>3, WorkKind, CollectKind
<1> HIDE DEF Goal
<1>4. Work => Goal
  BY <1>1, <1>2, <1>3 DEF Work
<1>5. Goal \/ \E t \in Tasks : start(t)
  BY <1>3, <1>4 DEF Next
<1> QED
  BY <1>5 DEF Goal

-----------------------------------------------------------------------------
(* What Continue does to the task and to the interpreter. *)
LEMMA ContinueFields ==
  ASSUME Types, NEW t \in Tasks, NEW k \in 1 .. 4, NEW err \in BOOLEAN, NEW val \in 0 .. MaxFd,
         NEW how \in Hows, Continue(t, k, err, val, how)
  PROVE  /\ err \/ k = Len(Script(t)) => pc'[t] = Done /\ running' = None
         /\ ~(err \/ k = Len(Script(t))) => pc'[t] = k + 1 /\ running' = t
         /\ pc' \in [Tasks -> 0 .. 5]
         /\ \A u \in Tasks : u # t => pc'[u] = pc[u] /\ told'[u] = told[u] /\ localfd'[u] = localfd[u]
         /\ Answers(t, k, err) => told'[t] = Append(told[t], [how |-> how, err |-> err])
         /\ ~Answers(t, k, err) => told'[t] = told[t]
         /\ told' \in [Tasks -> Seq(Tellings)]
         /\ localfd' \in [Tasks -> 0 .. MaxFd] /\ fd' \in 0 .. MaxFd
         /\ running' \in {t, None}
<1> DEFINE ends == err \/ k = Len(Script(t))
           ans == [how |-> how, err |-> err]
<1>0. pc \in [Tasks -> 0 .. 5] /\ told \in [Tasks -> Seq(Tellings)]
      /\ localfd \in [Tasks -> 0 .. MaxFd] /\ fd \in 0 .. MaxFd
  BY DEF Types
<1>1. /\ pc' = [pc EXCEPT ![t] = IF ends THEN Done ELSE k + 1]
      /\ running' = IF ends THEN None ELSE t
  BY DEF Continue
<1>2. told' = IF Answers(t, k, err) THEN [told EXCEPT ![t] = Append(told[t], ans)] ELSE told
  BY DEF Continue
<1>3. ans \in Tellings
  BY DEF Tellings
<1>4. told[t] \in Seq(Tellings)
  BY <1>0
<1> HIDE DEF ans
<1>5. Append(told[t], ans) \in Seq(Tellings)
  BY <1>3, <1>4
<1>6. /\ told' \in [Tasks -> Seq(Tellings)]
      /\ \A u \in Tasks : u # t => told'[u] = told[u]
      /\ Answers(t, k, err) => told'[t] = Append(told[t], ans)
      /\ ~Answers(t, k, err) => told'[t] = told[t]
  BY <1>0, <1>2, <1>5
<1>7. /\ localfd' \in [Tasks -> 0 .. MaxFd] /\ fd' \in 0 .. MaxFd
      /\ \A u \in Tasks : u # t => localfd'[u] = localfd[u]
  <2>1. \/ localfd' = [localfd EXCEPT ![t] = val] /\ fd' = fd
        \/ localfd' = localfd /\ fd' = val
        \/ localfd' = localfd /\ fd' = fd
    BY DEF Continue
  <2> QED
    BY <1>0, <2>1
<1>8. /\ ends => pc'[t] = Done /\ running' = None
      /\ ~ends => pc'[t] = k + 1 /\ running' = t
      /\ \A u \in Tasks : u # t => pc'[u] = pc[u]
      /\ running' \in {t, None}
  BY <1>0, <1>1
<1>9. pc' \in [Tasks -> 0 .. 5]
  <2>1. k + 1 \in 0 .. 5 /\ Done \in 0 .. 5
    BY DEF Done
  <2> QED
    BY <1>0, <1>1, <2>1
<1> QED
  BY <1>6, <1>7, <1>8, <1>9 DEF ans

(* The table of descriptors after a system call. *)
LEMMA TableType ==
  ASSUME Types, NEW t \in Tasks, NEW k, NEW f, NEW err, NEW val, push_results(t, k, f, err, val)
  PROVE  fds' \in [Fds -> Tasks \cup {None}]
<1>1. \/ fds' = fds
      \/ fds' = [fds EXCEPT ![val] = t]
      \/ fds' = [fds EXCEPT ![f] = None]
  BY DEF push_results, Succeeds, Fails
<1>2. fds \in [Fds -> Tasks \cup {None}]
  BY DEF Types
<1> QED
  BY <1>1, <1>2

(* Type correctness of a step. *)
LEMMA TypesStep ==
  ASSUME Types, NEW t \in Tasks, NEW k \in 1 .. 4, NEW h \in Holders,
         Kind(t, k, h), holder' = [holder EXCEPT ![t][k] = h]
  PROVE  Types'
<1>1. holder' \in [Tasks -> [1 .. 4 -> Holders]]
  BY OneHolder DEF Types
<1>2. job' = job
  BY DEF Kind, Submits, Works, Returns, Collects, Goes
<1>3. ASSUME NEW err \in BOOLEAN, NEW val \in 0 .. MaxFd, NEW how \in Hows, Goes(t, k, h, err, val, how)
      PROVE  Types'
  <2>1. Continue(t, k, err, val, how) /\ Outcome(t, k, err, val)
    BY <1>3 DEF Goes
  <2>2. fds' \in [Fds -> Tasks \cup {None}]
    <3>1. fds' = fds \/ push_results(t, k, Descriptor(t), err, val)
      BY <2>1 DEF Outcome
    <3> QED
      BY <3>1, TableType DEF Types
  <2>3. /\ pc' \in [Tasks -> 0 .. 5] /\ told' \in [Tasks -> Seq(Tellings)]
        /\ localfd' \in [Tasks -> 0 .. MaxFd] /\ fd' \in 0 .. MaxFd
        /\ running' \in Tasks \cup {None}
    BY <2>1, ContinueFields
  <2> QED
    BY <1>1, <1>2, <2>2, <2>3 DEF Types
<1>4. CASE Submits(t, k, h)
  <2>1. told' \in [Tasks -> Seq(Tellings)]
    <3>1. Presumed \in Tellings
      BY DEF Presumed, Tellings, Hows
    <3>2. told \in [Tasks -> Seq(Tellings)] /\ told[t] \in Seq(Tellings)
      BY DEF Types
    <3>3. Append(told[t], Presumed) \in Seq(Tellings)
      BY <3>1, <3>2
    <3> QED
      BY <1>4, <3>2, <3>3 DEF Submits
  <2> QED
    BY <1>1, <1>2, <1>4, <2>1 DEF Types, Submits
<1>5. CASE Works(t, k, h)
  <2>1. fds' \in [Fds -> Tasks \cup {None}]
    BY <1>5, TableType DEF Works
  <2> QED
    BY <1>1, <1>2, <1>5, <2>1 DEF Types, Works
<1>6. CASE Returns(t, k, h) \/ Collects(t, k, h)
  BY <1>1, <1>2, <1>6 DEF Types, Returns, Collects
<1> QED
  BY <1>3, <1>4, <1>5, <1>6 DEF Kind

(* A step of t leaves every other task where it is. *)
LEMMA OtherTasks ==
  ASSUME TaskInv, NEW t \in Tasks, NEW k \in 1 .. 4, NEW h \in Holders,
         Kind(t, k, h), holder' = [holder EXCEPT ![t][k] = h],
         NEW u \in Tasks, u # t
  PROVE  /\ job' = job /\ holder'[u] = holder[u] /\ pc'[u] = pc[u] /\ told'[u] = told[u]
         /\ running' = u <=> running = u
         /\ localfd'[u] = localfd[u]
<1>1. Types /\ u # None
  BY RequestAssumption DEF TaskInv, RequestAssumption
<1>2. holder'[u] = holder[u]
  BY <1>1, OneHolder DEF Types
<1>3. ASSUME NEW err \in BOOLEAN, NEW val \in 0 .. MaxFd, NEW how \in Hows, Goes(t, k, h, err, val, how)
      PROVE  /\ job' = job /\ pc'[u] = pc[u] /\ told'[u] = told[u]
             /\ running' = u <=> running = u
             /\ localfd'[u] = localfd[u]
  <2>1. Continue(t, k, err, val, how) /\ running \in {t, None} /\ job' = job
    BY <1>3 DEF Goes
  <2> QED
    BY <1>1, <2>1, ContinueFields
<1>4. CASE Submits(t, k, h)
  <2>1. told'[u] = told[u]
    BY <1>1, <1>4 DEF Types, Submits
  <2> QED
    BY <1>1, <1>2, <1>4, <2>1 DEF Submits
<1>5. CASE Works(t, k, h) \/ Returns(t, k, h) \/ Collects(t, k, h)
  BY <1>1, <1>2, <1>5 DEF Works, Returns, Collects
<1> QED
  BY <1>2, <1>3, <1>4, <1>5 DEF Kind

(* Where a task is depends on what is its own. *)
LEMMA SameGoing ==
  ASSUME NEW u \in Tasks, Going(u), job' = job, holder'[u] = holder[u], pc'[u] = pc[u],
         told'[u] = told[u], running' = u <=> running = u
  PROVE  Going(u)'
<1>1. Script(u)' = Script(u) /\ IsDns(u)' = IsDns(u) /\ Hasty(u)' = Hasty(u)
  BY DEF Script, IsDns, Hasty
<1>2. Waits(u)'
  BY <1>1 DEF Going, Waits
<1>3. Unanswered(u)' /\ Lost(u)'
  <2>1. Returned(u)' = Returned(u)
    BY <1>1 DEF Returned
  <2> QED
    BY <1>1, <2>1 DEF Going, Unanswered, Lost
<1>4. (\A k \in 1 .. 4 : Anchored(holder[u][k]))'
  BY DEF Going, Anchored
<1> QED
  BY <1>2, <1>3, <1>4 DEF Going

(* All the holders of t stay anchored when the new one is. *)
LEMMA StayAnchored ==
  ASSUME TaskInv, NEW t \in Tasks, NEW k \in 1 .. 4, NEW h \in Holders, Anchored(h),
         holder' = [holder EXCEPT ![t][k] = h]
  PROVE  (\A l \in 1 .. 4 : Anchored(holder[t][l]))'
<1>1. holder'[t][k] = h /\ \A l \in 1 .. 4 : l # k => holder'[t][l] = holder[t][l]
  BY OneHolder DEF TaskInv, Types
<1>2. \A l \in 1 .. 4 : Anchored(holder[t][l])
  BY DEF TaskInv, Going
<1> QED
  BY <1>1, <1>2 DEF Anchored

(* A request is given to the pool, and the pool works on it. *)
LEMMA SubmitGoing ==
  ASSUME TaskInv, NEW t \in Tasks, NEW k \in 1 .. 4, NEW h \in Holders,
         Submits(t, k, h) \/ Works(t, k, h), holder' = [holder EXCEPT ![t][k] = h]
  PROVE  Going(t)'
<1>0. t # None /\ Waits(t) /\ Unanswered(t) /\ Lost(t) /\ pc[t] \in 0 .. 5
  BY RequestAssumption DEF RequestAssumption, TaskInv, Going, Types
<1>1. holder'[t][k] = h /\ \A l \in 1 .. 4 : l # k => holder'[t][l] = holder[t][l]
  BY OneHolder DEF TaskInv, Types
<1>2. job' = job /\ pc'[t] = pc[t]
  BY DEF Submits, Works
<1>3. Script(t)' = Script(t) /\ IsDns(t)' = IsDns(t) /\ Hasty(t)' = Hasty(t)
  BY <1>2 DEF Script, IsDns, Hasty
<1>4. h.stage \in {"queued", "worked"} /\ h.refCount = 1
  BY WaitingTask DEF Submits, Works
<1>5. k = pc[t] /\ pc[t] <= Len(Script(t)) /\ running' # t
  BY <1>0, RunningTask, WaitingTask DEF Submits, Works
<1>6. Waits(t)'
  <2>1. pc[t] \in 1 .. 4 /\ pc[t] # 0 /\ pc[t] # 5
    BY <1>5
  <2>2. /\ \A l \in 1 .. 4 : l < pc[t] => holder'[t][l].stage \in {"callback", "over", "collected"}
        /\ \A l \in 1 .. 4 : l > pc[t] => holder'[t][l].stage = "none"
    BY <1>0, <1>1, <1>5, <2>1 DEF Waits
  <2> QED
    BY <1>1, <1>2, <1>3, <1>4, <1>5, <2>1, <2>2 DEF Waits, Done
<1>7. Unanswered(t)' /\ Lost(t)'
  <2>1. Lost(t)'
    <3>1. \A l \in 1 .. 4 : holder[t][l].stage # "lost"
      BY <1>0, <1>5 DEF Lost, Done
    <3>2. \A l \in 1 .. 4 : holder'[t][l].stage # "lost"
      BY <1>1, <1>4, <3>1
    <3> QED
      BY <3>2 DEF Lost
  <2>2. Unanswered(t)'
    <3>1. CASE Hasty(t)
      <4>0. Len(Script(t)) = 1
        BY <3>1, HastyCall
      <4>1. pc[t] = 1
        BY <1>5, <4>0
      <4>2. told'[t] = <<Presumed>>
        <5>1. CASE Submits(t, k, h)
          <6>1. told[t] = <<>>
            BY <1>0, <4>1, <5>1 DEF Unanswered, Returned, Submits
          <6>2. told \in [Tasks -> Seq(Tellings)]
            BY DEF TaskInv, Types
          <6> QED
            BY <3>1, <5>1, <6>1, <6>2 DEF Submits
        <5>2. CASE Works(t, k, h)
          <6>1. running # t
            BY <5>2, WaitingTask DEF Works
          <6> QED
            BY <1>0, <3>1, <4>1, <5>2, <6>1 DEF Unanswered, Returned, Works
        <5> QED
          BY <5>1, <5>2
      <4>3. Returned(t)' = <<Presumed>>
        BY <1>2, <1>3, <1>5, <3>1, <4>1 DEF Returned, Presumed
      <4> QED
        BY <1>2, <1>3, <3>1, <4>1, <4>2, <4>3 DEF Unanswered, Done
    <3>2. CASE ~Hasty(t)
      <4>1. told'[t] = told[t]
        BY <3>2 DEF Submits, Works
      <4>2. Returned(t) = <<>> /\ Returned(t)' = <<>>
        BY <1>3, <3>2 DEF Returned
      <4> QED
        BY <1>0, <1>2, <1>3, <3>2, <4>1, <4>2 DEF Unanswered
    <3> QED
      BY <3>1, <3>2
  <2> QED
    BY <2>1, <2>2
<1>8. Anchored(h)
  BY <1>4 DEF Anchored
<1> QED
  BY <1>6, <1>7, <1>8, StayAnchored DEF Going

(* A callback returns, a holder is collected. *)
LEMMA ReturnGoing ==
  ASSUME TaskInv, NEW t \in Tasks, NEW k \in 1 .. 4, NEW h \in Holders,
         Returns(t, k, h) \/ Collects(t, k, h), holder' = [holder EXCEPT ![t][k] = h]
  PROVE  Going(t)'
<1>0. Waits(t) /\ Unanswered(t) /\ Lost(t) /\ pc[t] \in 0 .. 5
  BY DEF TaskInv, Going, Types
<1>1. holder'[t][k] = h /\ \A l \in 1 .. 4 : l # k => holder'[t][l] = holder[t][l]
  BY OneHolder DEF TaskInv, Types
<1>2. job' = job /\ pc'[t] = pc[t] /\ told'[t] = told[t] /\ running' = running
  BY DEF Returns, Collects
<1>3. Script(t)' = Script(t) /\ IsDns(t)' = IsDns(t) /\ Hasty(t)' = Hasty(t)
  BY <1>2 DEF Script, IsDns, Hasty
<1>4. h.stage \in {"over", "collected"} /\ h.refCount = 0
      /\ holder[t][k].stage \in {"callback", "over"}
  BY DEF Returns, Collects
<1>5. pc[t] # 0
  BY <1>0, <1>4 DEF Waits
<1>6. pc[t] \in 1 .. 4 => k < pc[t]
  <2>1. ASSUME pc[t] \in 1 .. 4 PROVE k # pc[t] /\ ~(k > pc[t])
    BY <1>0, <1>4, <2>1 DEF Waits
  <2> QED
    BY <2>1
<1>7. Waits(t)'
  <2>1. pc[t] \in 1 .. 4 =>
        /\ \A l \in 1 .. 4 : l < pc[t] => holder'[t][l].stage \in {"callback", "over", "collected"}
        /\ \A l \in 1 .. 4 : l > pc[t] => holder'[t][l].stage = "none"
        /\ holder'[t][pc[t]] = holder[t][pc[t]]
    BY <1>0, <1>1, <1>4, <1>6 DEF Waits
  <2>2. pc[t] = Done => \A l \in 1 .. 4 :
          holder'[t][l].stage \in {"none", "callback", "over", "lost", "collected"}
    BY <1>0, <1>1, <1>4 DEF Waits
  <2> QED
    BY <1>0, <1>2, <1>3, <1>5, <2>1, <2>2 DEF Waits
<1>8. Unanswered(t)' /\ Lost(t)'
  <2>1. Lost(t)'
    BY <1>0, <1>1, <1>2, <1>3, <1>4 DEF Lost
  <2>2. Unanswered(t)'
    <3>1. Returned(t)' = Returned(t)
      BY <1>2, <1>3 DEF Returned
    <3> QED
      BY <1>0, <1>2, <1>3, <3>1 DEF Unanswered
  <2> QED
    BY <2>1, <2>2
<1>9. Anchored(h)
  BY <1>4 DEF Anchored
<1> QED
  BY <1>7, <1>8, <1>9, StayAnchored DEF Going

(* Nothing was answered before the answer, or fs.exists has returned. *)
LEMMA AnswersOnce ==
  ASSUME TaskInv, NEW t \in Tasks, NEW k \in 1 .. 4, NEW h \in Holders,
         NEW err \in BOOLEAN, NEW val \in 0 .. MaxFd, NEW how \in Hows,
         Goes(t, k, h, err, val, how)
  PROVE  /\ Answers(t, k, err) /\ ~Hasty(t) => told'[t] = <<[how |-> how, err |-> err]>>
         /\ Hasty(t) => Answers(t, k, err) /\ told'[t] = <<Presumed, [how |-> "called", err |-> err]>>
         /\ ~Answers(t, k, err) => told'[t] = told[t]
<1>0. Waits(t) /\ Unanswered(t) /\ k = pc[t] /\ told[t] \in Seq(Tellings)
      /\ Manner(t, k, err, how) /\ running \in {t, None} /\ t # None
  BY RequestAssumption DEF RequestAssumption, TaskInv, Going, Types, Goes
<1>4. /\ Answers(t, k, err) => told'[t] = Append(told[t], [how |-> how, err |-> err])
      /\ ~Answers(t, k, err) => told'[t] = told[t]
  BY ContinueFields DEF TaskInv, Goes
<1>5. k <= Len(Script(t))
  BY <1>0 DEF Waits
<1>8. Answers(t, k, err) => told[t] = Returned(t)
  <2>1. k < 4 \/ ~job[t].cb => told[t] = Returned(t)
    BY <1>0 DEF Unanswered, Returned
  <2>2. Answers(t, k, err) /\ job[t].fn = "readFile" => k < 4 \/ ~job[t].cb
    BY DEF Answers
  <2>3. ASSUME job[t].fn # "readFile" PROVE k < 4
    <3>1. Len(Script(t)) = 1
      BY <2>3, ScriptShape
    <3> QED
      BY <1>5, <3>1
  <2> QED
    BY <2>1, <2>2, <2>3
<1>9. ASSUME ~Hasty(t), Answers(t, k, err) PROVE told'[t] = <<[how |-> how, err |-> err]>>
  <2>1. told[t] = <<>>
    BY <1>8, <1>9 DEF Returned
  <2> QED
    BY <1>4, <1>9, <2>1
<1>10. ASSUME Hasty(t)
       PROVE  Answers(t, k, err) /\ told'[t] = <<Presumed, [how |-> "called", err |-> err]>>
  <2>1. /\ Len(Script(t)) = 1 /\ ~IsDns(t) /\ job[t].fn # "readFile" /\ ~job[t].co
        /\ Script(t)[1] = "exists" /\ Async(t, "exists")
    BY <1>10, HastyCall DEF Hasty
  <2>2. k = 1
    BY <1>5, <2>1
  <2>3. Answers(t, k, err)
    BY <2>1, <2>2 DEF Answers
  <2>4. running # t
    BY <1>0, <2>1, <2>2 DEF Manner
  <2>5. how = "called"
    BY <1>0, <2>1, <2>4 DEF Manner
  <2>6. told[t] = <<Presumed>>
    BY <1>0, <1>8, <1>10, <2>2, <2>3, <2>4 DEF Returned
  <2> QED
    BY <1>4, <2>3, <2>5, <2>6
<1> QED
  BY <1>4, <1>9, <1>10

(* The task goes on with the outcome of a request. *)
LEMMA GoesGoing ==
  ASSUME TaskInv, NEW t \in Tasks, NEW k \in 1 .. 4, NEW h \in Holders,
         NEW err \in BOOLEAN, NEW val \in 0 .. MaxFd, NEW how \in Hows,
         Goes(t, k, h, err, val, how), holder' = [holder EXCEPT ![t][k] = h]
  PROVE  Going(t)'
<1> DEFINE ends == err \/ k = Len(Script(t))
<1>0. t # None /\ Waits(t) /\ Unanswered(t) /\ Lost(t) /\ pc[t] \in 0 .. 5
      /\ told[t] \in Seq(Tellings)
  BY RequestAssumption DEF RequestAssumption, TaskInv, Going, Types
<1>1. holder'[t][k] = h /\ \A l \in 1 .. 4 : l # k => holder'[t][l] = holder[t][l]
  BY OneHolder DEF TaskInv, Types
<1>2. /\ job' = job /\ k = pc[t] /\ Anchored(h)
      /\ h.stage \in {"over", "callback", "lost"}
      /\ h.stage = "lost" => IsDns(t) /\ err /\ how = "returned"
      /\ Continue(t, k, err, val, how)
  BY DEF Goes
<1>3. Script(t)' = Script(t) /\ IsDns(t)' = IsDns(t) /\ Hasty(t)' = Hasty(t)
  BY <1>2 DEF Script, IsDns, Hasty
<1>4. /\ ends => pc'[t] = Done /\ running' = None
      /\ ~ends => pc'[t] = k + 1 /\ running' = t
      /\ Answers(t, k, err) => told'[t] = Append(told[t], [how |-> how, err |-> err])
      /\ ~Answers(t, k, err) => told'[t] = told[t]
  <2>1. Types
    BY DEF TaskInv
  <2>2. Continue(t, k, err, val, how)
    BY <1>2
  <2> QED
    BY <2>1, <2>2, ContinueFields
<1>5. pc[t] \in 1 .. 4 /\ pc[t] # 0 /\ pc[t] # Done /\ pc[t] <= Len(Script(t))
  BY <1>0, <1>2 DEF Waits, Done
<1>6. /\ \A l \in 1 .. 4 : l < k => holder'[t][l].stage \in {"callback", "over", "collected"}
      /\ \A l \in 1 .. 4 : l > k => holder'[t][l].stage = "none"
  BY <1>0, <1>1, <1>2, <1>5 DEF Waits
<1>7. Len(Script(t)) \in {1, 4} /\ (job[t].fn = "readFile" <=> Len(Script(t)) = 4)
      /\ (job[t].fn = "readFile" => ~IsDns(t))
  BY ScriptShape
<1>9. /\ Answers(t, k, err) /\ ~Hasty(t) => told'[t] = <<[how |-> how, err |-> err]>>
      /\ Hasty(t) => told'[t] = <<Presumed, [how |-> "called", err |-> err]>>
  BY AnswersOnce
<1>10. /\ ~Hasty(t) => Len(told'[t]) <= 1
       /\ Hasty(t) => Twice(told'[t])
  <2>1. ~Hasty(t) => Len(told'[t]) <= 1
    BY <1>0, <1>4, <1>9 DEF Unanswered
  <2>2. Hasty(t) => Twice(told'[t])
    BY <1>9 DEF Twice, Presumed
  <2> QED
    BY <2>1, <2>2
<1>11. Lost(t)'
  <2>1. ASSUME h.stage = "lost"
        PROVE  pc'[t] = Done /\ IsDns(t)' /\ told'[t] = <<[how |-> "returned", err |-> TRUE]>>
    <3>1. IsDns(t) /\ err /\ how = "returned" /\ job[t].fn # "readFile"
      BY <1>2, <1>7, <2>1
    <3>2. Answers(t, k, err) /\ ~Hasty(t)
      BY <3>1, HastyCall DEF Answers
    <3>3. err = TRUE
      BY <3>1
    <3> QED
      BY <1>3, <1>4, <1>9, <3>1, <3>2, <3>3
  <2>2. \A l \in 1 .. 4 : l # k => holder'[t][l].stage # "lost"
    BY <1>0, <1>1, <1>5, <1>2 DEF Lost
  <2> QED
    BY <1>1, <2>1, <2>2 DEF Lost
<1>12. CASE ends
  <2>1. pc'[t] = 5 /\ running' = None
    BY <1>4, <1>12 DEF Done
  <2>2. \A l \in 1 .. 4 : holder'[t][l].stage \in {"none", "callback", "over", "lost", "collected"}
    <3>1. \A l \in 1 .. 4 : l < k \/ l = k \/ l > k
      OBVIOUS
    <3> QED
      BY <1>1, <1>2, <1>6, <3>1
  <2>3. Waits(t)'
    BY <1>0, <2>1, <2>2 DEF Waits, Done
  <2>4. Unanswered(t)'
    BY <1>3, <1>10, <2>1 DEF Unanswered
  <2> QED
    BY <1>2, <1>11, <2>3, <2>4, StayAnchored DEF Going
<1>13. CASE ~ends
  <2>1. pc'[t] = k + 1 /\ running' = t /\ k + 1 \in 1 .. 4 /\ k # 4 /\ k + 1 <= Len(Script(t))
        /\ k + 1 # 0 /\ k + 1 # 5 /\ job[t].fn = "readFile"
    <3>1. k # Len(Script(t)) /\ k <= Len(Script(t))
      BY <1>2, <1>5, <1>13
    <3>2. Len(Script(t)) = 4 /\ k < 4
      <4>1. Len(Script(t)) = 1 \/ Len(Script(t)) = 4
        BY <1>7
      <4>2. ASSUME Len(Script(t)) = 1 PROVE FALSE
        BY <3>1, <4>2
      <4>3. Len(Script(t)) = 4
        BY <4>1, <4>2
      <4> QED
        BY <3>1, <4>3
    <3>3. pc'[t] = k + 1 /\ running' = t
      BY <1>4, <1>13
    <3>4. job[t].fn = "readFile"
      BY <1>7, <3>2
    <3> HIDE DEF ends
    <3> QED
      BY <3>2, <3>3, <3>4
  <2>2. h.stage \in {"over", "callback"}
    BY <1>2, <1>13
  <2>3. /\ \A l \in 1 .. 4 : l < k + 1 => holder'[t][l].stage \in {"callback", "over", "collected"}
        /\ \A l \in 1 .. 4 : l > k + 1 => holder'[t][l].stage = "none"
        /\ holder'[t][k + 1].stage = "none"
    <3>1. \A l \in 1 .. 4 : l < k + 1 => l < k \/ l = k
      OBVIOUS
    <3>2. \A l \in 1 .. 4 : l > k + 1 => l > k
      OBVIOUS
    <3>3. k + 1 > k
      OBVIOUS
    <3> QED
      BY <1>1, <1>6, <2>1, <2>2, <3>1, <3>2, <3>3
  <2>4. Waits(t)'
    BY <1>0, <1>3, <2>1, <2>3 DEF Waits, Done
  <2>5. Unanswered(t)'
    <3>1. ~Answers(t, k, err) \/ (k = 3 /\ job[t].cb)
      BY <1>13, <2>1 DEF Answers
    <3>2. ~Hasty(t) /\ ~Hasty(t)'
      BY <1>3, <2>1, HastyCall
    <3>3. ~Answers(t, k, err) => told'[t] = <<>>
      BY <1>0, <1>2, <1>4, <2>1, <3>2 DEF Unanswered, Returned
    <3>4. Returned(t)' = <<>>
      BY <3>2 DEF Returned
    <3> QED
      BY <1>2, <1>10, <2>1, <3>1, <3>2, <3>3, <3>4 DEF Unanswered, Done
  <2> QED
    BY <1>2, <1>11, <2>4, <2>5, StayAnchored DEF Going
<1> QED
  BY <1>12, <1>13

(* A call is made. *)
LEMMA StartGoing ==
  ASSUME TaskInv, NEW t \in Tasks, start(t)
  PROVE  TaskInv'
<1>0. Types /\ t # None /\ Going(t) /\ running = None /\ pc[t] = 0 /\ running' = t
  BY RequestAssumption DEF RequestAssumption, TaskInv, start, InLoop
<1>1. UNCHANGED <<job, holder, told, fds, localfd, fd>> /\ pc' = [pc EXCEPT ![t] = 1]
  BY DEF start
<1>2. pc'[t] = 1 /\ \A u \in Tasks : u # t => pc'[u] = pc[u]
  BY <1>0, <1>1 DEF Types
<1>3. Types'
  BY <1>0, <1>1 DEF Types
<1>4. ASSUME NEW u \in Tasks, u # t PROVE Going(u)'
  <2>1. running' = u <=> running = u
    BY <1>0, <1>4, RequestAssumption DEF RequestAssumption
  <2>2. Going(u) /\ pc'[u] = pc[u]
    BY <1>2, <1>4 DEF TaskInv
  <2> QED
    BY <1>1, <2>1, <2>2, SameGoing
<1>5. Going(t)'
  <2>1. Script(t)' = Script(t) /\ IsDns(t)' = IsDns(t)
    BY <1>1 DEF Script, IsDns
  <2>2. Len(Script(t)) \in {1, 4}
    BY ScriptShape
  <2>3. \A l \in 1 .. 4 : holder[t][l].stage = "none"
    BY <1>0 DEF Going, Waits
  <2>4. Waits(t)'
    <3>1. /\ pc'[t] = 1 /\ pc'[t] # 0 /\ pc'[t] # Done /\ 1 \in 1 .. 4
          /\ holder' = holder /\ Len(Script(t)') >= 1 /\ running' = t
      BY <1>0, <1>1, <1>2, <2>1, <2>2 DEF Done
    <3>2. \A k \in 1 .. 4 : ~(k < 1)
      OBVIOUS
    <3> QED
      BY <2>3, <3>1, <3>2 DEF Waits
  <2>5. Unanswered(t)'
    <3>1. told[t] = <<>>
      BY <1>0 DEF Going, Unanswered, Returned
    <3>2. Returned(t)' = <<>>
      BY <1>0 DEF Returned
    <3> QED
      BY <1>1, <1>2, <3>1, <3>2 DEF Unanswered, Done
  <2>6. Lost(t)'
    BY <1>1, <2>3 DEF Lost
  <2>7. (\A l \in 1 .. 4 : Anchored(holder[t][l]))'
    BY <1>0, <1>1 DEF Going, Anchored
  <2> QED
    BY <2>4, <2>5, <2>6, <2>7 DEF Going
<1> QED
  BY <1>3, <1>4, <1>5 DEF TaskInv

(* Every step keeps the tasks in order. *)
LEMMA TaskStep ==
  ASSUME TaskInv, [Next]_vars
  PROVE  TaskInv'
<1>1. CASE UNCHANGED vars
  <2>1. Types'
    BY <1>1 DEF TaskInv, Types, vars
  <2>2. ASSUME NEW u \in Tasks PROVE Going(u)'
    BY <1>1, SameGoing DEF vars, TaskInv
  <2> QED
    BY <2>1, <2>2 DEF TaskInv
<1>2. ASSUME NEW t \in Tasks, NEW k \in 1 .. 4, NEW h \in Holders,
             Kind(t, k, h), holder' = [holder EXCEPT ![t][k] = h]
      PROVE  TaskInv'
  <2>1. Types'
    BY <1>2, TypesStep DEF TaskInv
  <2>2. ASSUME NEW u \in Tasks, u # t PROVE Going(u)'
    <3>1. Going(u)
      BY DEF TaskInv
    <3>2. /\ job' = job /\ holder'[u] = holder[u] /\ pc'[u] = pc[u] /\ told'[u] = told[u]
          /\ running' = u <=> running = u
      BY <1>2, <2>2, OtherTasks
    <3> QED
      BY <3>1, <3>2, SameGoing
  <2>3. Going(t)'
    BY <1>2, SubmitGoing, ReturnGoing, GoesGoing DEF Kind
  <2> QED
    BY <2>1, <2>2, <2>3 DEF TaskInv
<1>3. CASE Next
  BY <1>2, <1>3, StepKinds, StartGoing
<1> QED
  BY <1>1, <1>3

(* No call has been made at first. *)
LEMMA TaskInit ==
  ASSUME Init
  PROVE  TaskInv
<1>1. /\ \A t \in Tasks : pc[t] = 0 /\ told[t] = <<>>
      /\ \A t \in Tasks, k \in 1 .. 4 : holder[t][k] = NoHolder
      /\ running = None
  BY DEF Init
<1>2. Types
  <2>1. job \in [Tasks -> Jobs]
    BY RequestAssumption DEF Init, RequestAssumption
  <2>2. holder \in [Tasks -> [1 .. 4 -> Holders]]
    BY NewHolder DEF Init
  <2>3. 0 \in 0 .. MaxFd
    BY RequestAssumption DEF RequestAssumption
  <2>4. told \in [Tasks -> Seq(Tellings)]
    BY DEF Init
  <2> QED
    BY <2>1, <2>2, <2>3, <2>4 DEF Types, Init
<1>3. ASSUME NEW t \in Tasks PROVE Going(t)
  <2>1. t # None
    BY RequestAssumption DEF RequestAssumption
  <2>2. Waits(t)
    BY <1>1, <2>1, NewHolder DEF Waits, Done
  <2>3. Unanswered(t)
    BY <1>1 DEF Unanswered, Returned, Done
  <2>4. Lost(t) /\ \A k \in 1 .. 4 : Anchored(holder[t][k])
    BY <1>1, NewHolder DEF Lost, Anchored
  <2> QED
    BY <2>2, <2>3, <2>4 DEF Going
<1> QED
  BY <1>2, <1>3 DEF TaskInv

(* The invariant of the tasks holds in every reachable state. *)
LEMMA TasksGoOn == Spec => []TaskInv
<1>1. Init => TaskInv
  BY TaskInit
<1>2. TaskInv /\ [Next]_vars => TaskInv'
  BY TaskStep
<1> QED
  BY <1>1, <1>2, PTL DEF Spec

(***************************************************************************)
(* A holder is anchored in the registry exactly while the thread pool, the *)
(* resolver or a callback uses it (lev_handle_ref and lev_handle_unref     *)
(* around every request of lev_new_fs.c and lev_new_dns.c); only a dns     *)
(* call that failed at once keeps one for good, and a task has let go of   *)
(* the holders of the requests it is past.                                 *)
(***************************************************************************)
THEOREM RequestsHoldersAreHeld == Spec => []HoldersAreHeld
<1>1. TaskInv => HoldersAreHeld
  <2> SUFFICES ASSUME TaskInv, NEW t \in Tasks, NEW k \in 1 .. 4
               PROVE  LET h == holder[t][k]
                      IN /\ h.refCount = (IF h.stage \in {"queued", "worked", "callback", "lost"} THEN 1 ELSE 0)
                         /\ h.stage = "lost" => IsDns(t) /\ told[t] = <<[how |-> "returned", err |-> TRUE]>>
                         /\ k < pc[t] /\ pc[t] < Done => h.stage \in {"callback", "over", "collected"}
    BY DEF HoldersAreHeld
  <2>1. Going(t) /\ pc[t] \in 0 .. 5
    BY DEF TaskInv, Types
  <2>2. Anchored(holder[t][k])
    BY <2>1 DEF Going
  <2>3. holder[t][k].stage = "lost" => IsDns(t) /\ told[t] = <<[how |-> "returned", err |-> TRUE]>>
    BY <2>1 DEF Going, Lost
  <2>4. k < pc[t] /\ pc[t] < Done => holder[t][k].stage \in {"callback", "over", "collected"}
    <3>1. ASSUME k < pc[t], pc[t] < Done PROVE pc[t] \in 1 .. 4
      BY <2>1, <3>1 DEF Done
    <3> QED
      BY <2>1, <3>1 DEF Going, Waits
  <2> QED
    BY <2>2, <2>3, <2>4 DEF Anchored
<1> QED
  BY <1>1, TasksGoOn, PTL

-----------------------------------------------------------------------------
(* Every function of lev.fs but write looks for its callback right after   *)
(* its arguments.                                                          *)
LEMMA CallbackIndex ==
  \A f \in FsFunctions : f.name # "write" => f.index = f.nargs + 1
<1>1. \A f \in AttributeFunctions : f.index = f.nargs + 1
  BY DEF AttributeFunctions, Fn
<1>2. \A f \in ContentFunctions : f.name # "write" => f.index = f.nargs + 1
  BY DEF ContentFunctions, Fn
<1>3. \A f \in NameFunctions : f.index = f.nargs + 1
  BY DEF NameFunctions, Fn
<1>4. \A f \in {Fn("exists", 1, 2)} : f.index = f.nargs + 1
  BY DEF Fn
<1> QED
  BY <1>1, <1>2, <1>3, <1>4 DEF FsFunctions

(* The requests that readFile makes are functions of lev.fs. *)
LEMMA ReadFileFunctions ==
  \A op \in {"stat", "open", "read", "close"} : \E f \in FsFunctions : f.name = op
<1>1. Fn("stat", 1, 2) \in FsFunctions /\ Fn("open", 3, 4) \in FsFunctions
  BY DEF FsFunctions, NameFunctions
<1>2. Fn("read", 4, 5) \in FsFunctions /\ Fn("close", 1, 2) \in FsFunctions
  BY DEF FsFunctions, ContentFunctions, AttributeFunctions
<1>3. /\ Fn("stat", 1, 2).name = "stat" /\ Fn("open", 3, 4).name = "open"
      /\ Fn("read", 4, 5).name = "read" /\ Fn("close", 1, 2).name = "close"
  BY DEF Fn
<1> QED
  BY <1>1, <1>2, <1>3

(* A request of a call with a callback finds the callback. *)
LEMMA CallbackFound ==
  ASSUME Types, NEW t \in Tasks, ~IsDns(t), job[t].fn # "write", NEW k \in 1 .. 4, k <= Len(Script(t))
  PROVE  HasCallback(t, Script(t)[k]) <=> job[t].cb
<1>1. \E f \in FsFunctions : f.name = Script(t)[k]
  <2>1. CASE job[t].fn = "readFile"
    <3>1. Script(t)[k] \in {"stat", "open", "read", "close"}
      BY <2>1, ScriptShape
    <3> QED
      BY <3>1, ReadFileFunctions
  <2>2. CASE job[t].fn # "readFile"
    <3>1. job[t] \in Jobs
      BY DEF Types
    <3>2. job[t].fn \in {f.name : f \in FsFunctions} \cup DnsFunctions \cup {"readFile"}
      BY <3>1 DEF Jobs
    <3>3. \E f \in FsFunctions : f.name = job[t].fn
      BY <2>2, <3>2 DEF IsDns
    <3>4. Len(Script(t)) = 1 /\ Script(t)[1] = job[t].fn
      BY <2>2, ScriptShape
    <3>5. k = 1
      BY <3>4
    <3> QED
      BY <3>3, <3>4, <3>5
  <2> QED
    BY <2>1, <2>2
<1>2. Script(t)[k] # "write"
  <2>1. CASE job[t].fn = "readFile"
    BY <2>1, ScriptShape
  <2>2. CASE job[t].fn # "readFile"
    BY <2>2, ScriptShape
  <2> QED
    BY <2>1, <2>2
<1>3. \E f \in FsFunctions : f.name = Script(t)[k] /\ f.index = f.nargs + 1
  BY <1>1, <1>2, CallbackIndex
<1> QED
  BY <1>3 DEF HasCallback

(* How a task is to be answered. *)
Asked(t) ==
  CASE job[t].fn = "resolve" -> {"raised"}
    [] IsDns(t) /\ job[t].fn # "resolve" -> {"called", "returned"}
    [] ~IsDns(t) /\ job[t].cb -> {"called"}
    [] ~IsDns(t) /\ ~job[t].cb -> IF job[t].co THEN {"resumed"} ELSE {"returned"}

(* The program gives fs.exists no callback inside a coroutine, where       *)
(* on_exists_callback would not call it.                                   *)
NoSilentExists(J) == \A t \in Tasks : ~(J[t].fn = "exists" /\ J[t].cb /\ J[t].co)

(* A request that is out was meant to be, and answers are as asked for. *)
Asking(t) ==
  /\ \A k \in 1 .. 4 : holder[t][k].stage \in {"queued", "worked"} /\ ~IsDns(t) =>
       Async(t, Script(t)[k])
  /\ told[t] # <<>> /\ job[t].fn # "write" /\ ~Hasty(t) =>
       /\ told[t][1].how \in Asked(t)
       /\ IsDns(t) /\ told[t][1].how = "returned" => told[t][1].err

AskInv == TaskInv /\ NoSilentExists(job) /\ \A t \in Tasks : Asking(t)

(* The manner of an answer is the one asked for. *)
LEMMA MannerAsked ==
  ASSUME AskInv, NEW t \in Tasks, NEW k \in 1 .. 4, NEW h \in Holders,
         NEW err \in BOOLEAN, NEW val \in 0 .. MaxFd, NEW how \in Hows,
         Goes(t, k, h, err, val, how), job[t].fn # "write"
  PROVE  how \in Asked(t) /\ (IsDns(t) /\ how = "returned" => err)
<1>0. Types /\ Asking(t) /\ Waits(t) /\ k = pc[t] /\ Manner(t, k, err, how) /\ Outcome(t, k, err, val)
  BY DEF AskInv, TaskInv, Going, Goes
<1>1. k <= Len(Script(t))
  BY <1>0 DEF Waits
<1>2. "resolve" \in DnsFunctions
  BY DEF DnsFunctions
<1>3. CASE IsDns(t)
  <2>1. CASE job[t].fn = "resolve"
    <3>1. Asked(t) = {"raised"}
      BY <1>2, <2>1 DEF Asked, IsDns
    <3> QED
      BY <1>0, <2>1, <3>1 DEF Manner
  <2>2. CASE job[t].fn # "resolve"
    <3>1. Asked(t) = {"called", "returned"}
      BY <1>3, <2>2 DEF Asked
    <3> QED
      BY <1>0, <1>3, <2>2, <3>1 DEF Manner
  <2> QED
    BY <2>1, <2>2
<1>4. CASE ~IsDns(t)
  <2>1. HasCallback(t, Script(t)[k]) <=> job[t].cb
    BY <1>0, <1>1, <1>4, CallbackFound
  <2>2. job[t].fn # "resolve"
    BY <1>2, <1>4 DEF IsDns
  <2>3. CASE running = t
    BY <1>0, <1>4, <2>1, <2>2, <2>3 DEF Manner, Async, Asked
  <2>4. CASE running = None /\ holder[t][k].stage = "worked"
    <3>1. Async(t, Script(t)[k])
      BY <1>0, <1>4, <2>4 DEF Asking
    <3>2. ~(job[t].fn = "exists" /\ job[t].cb /\ job[t].co)
      BY DEF AskInv, NoSilentExists
    <3>3. how = IF ~job[t].co \/ (job[t].cb /\ job[t].fn # "exists") THEN "called" ELSE "resumed"
      BY <1>0, <1>4, <2>1, <2>4 DEF Manner
    <3>4. job[t].cb \/ job[t].co
      BY <2>1, <3>1 DEF Async
    <3> QED
      BY <1>4, <2>2, <3>2, <3>3, <3>4 DEF Asked
  <2> QED
    BY <1>0, <1>4, <2>3, <2>4 DEF Outcome
<1> QED
  BY <1>3, <1>4

(* Every step keeps this. *)
LEMMA AskStep ==
  ASSUME AskInv, [Next]_vars
  PROVE  AskInv'
<1>1. TaskInv /\ TaskInv'
  BY TaskStep DEF AskInv
<1>2. ASSUME NEW u \in Tasks, job' = job, holder'[u] = holder[u], told'[u] = told[u] PROVE Asking(u)'
  <2>1. Asking(u)
    BY DEF AskInv
  <2> QED
    BY <1>2, <2>1 DEF Asking, Asked, Script, IsDns, Async, HasCallback, Hasty
<1>3. CASE UNCHANGED vars
  BY <1>1, <1>2, <1>3 DEF AskInv, vars, NoSilentExists
<1>4. CASE \E t \in Tasks : start(t)
  BY <1>1, <1>2, <1>4 DEF AskInv, start, NoSilentExists
<1>5. ASSUME NEW t \in Tasks, NEW k \in 1 .. 4, NEW h \in Holders,
             Kind(t, k, h), holder' = [holder EXCEPT ![t][k] = h]
      PROVE  AskInv'
  <2>1. \A u \in Tasks : u # t => job' = job /\ holder'[u] = holder[u] /\ told'[u] = told[u]
    BY <1>1, <1>5, OtherTasks
  <2>2. job' = job
    BY <1>5 DEF Kind, Submits, Works, Returns, Collects, Goes
  <2>3. \A u \in Tasks : u # t => Asking(u)'
    BY <1>2, <2>1
  <2>4. holder'[t][k] = h /\ \A l \in 1 .. 4 : l # k => holder'[t][l] = holder[t][l]
    <3>1. holder \in [Tasks -> [1 .. 4 -> Holders]]
      BY DEF AskInv, TaskInv, Types
    <3> QED
      BY <1>5, <3>1, OneHolder
  <2>5. Asking(t)
    BY DEF AskInv
  <2>6. /\ Script(t)' = Script(t) /\ IsDns(t)' = IsDns(t) /\ Asked(t)' = Asked(t) /\ Hasty(t)' = Hasty(t)
        /\ \A l \in 1 .. 4 : Async(t, Script(t)[l])' = Async(t, Script(t)[l])
    BY <2>2 DEF Script, IsDns, Asked, Async, HasCallback, Hasty
  <2>7. h.stage \in {"queued", "worked"} /\ ~IsDns(t) => Async(t, Script(t)[k])
    <3>1. CASE Submits(t, k, h)
      BY <3>1 DEF Submits
    <3>2. CASE Works(t, k, h)
      BY <2>5, <3>2 DEF Works, Asking
    <3>3. CASE Returns(t, k, h) \/ Collects(t, k, h)
      BY <3>3 DEF Returns, Collects
    <3>4. ASSUME NEW err \in BOOLEAN, NEW val \in 0 .. MaxFd, NEW how \in Hows, Goes(t, k, h, err, val, how)
          PROVE  h.stage \notin {"queued", "worked"}
      BY <3>4 DEF Goes
    <3> QED
      BY <1>5, <3>1, <3>2, <3>3, <3>4 DEF Kind
  <2>8. \A l \in 1 .. 4 : holder'[t][l].stage \in {"queued", "worked"} /\ ~IsDns(t) =>
          Async(t, Script(t)[l])
    BY <2>4, <2>5, <2>7 DEF Asking
  <2>9. told'[t] # <<>> /\ job[t].fn # "write" /\ ~Hasty(t) =>
          /\ told'[t][1].how \in Asked(t)
          /\ IsDns(t) /\ told'[t][1].how = "returned" => told'[t][1].err
    <3>1. CASE Submits(t, k, h) \/ Works(t, k, h) \/ Returns(t, k, h) \/ Collects(t, k, h)
      <4>1. ~Hasty(t) => told' = told
        BY <3>1 DEF Submits, Works, Returns, Collects
      <4> QED
        BY <2>5, <4>1 DEF Asking
    <3>2. ASSUME NEW err \in BOOLEAN, NEW val \in 0 .. MaxFd, NEW how \in Hows,
                 Goes(t, k, h, err, val, how), job[t].fn # "write", told'[t] # <<>>, ~Hasty(t)
          PROVE  /\ told'[t][1].how \in Asked(t)
                 /\ IsDns(t) /\ told'[t][1].how = "returned" => told'[t][1].err
      <4>1. how \in Asked(t) /\ (IsDns(t) /\ how = "returned" => err)
        BY <3>2, MannerAsked
      <4>2. told'[t] = told[t] \/ told'[t] = <<[how |-> how, err |-> err]>>
        BY <1>1, <3>2, AnswersOnce
      <4>3. CASE told'[t] = told[t]
        BY <2>5, <3>2, <4>3 DEF Asking
      <4>4. CASE told'[t] = <<[how |-> how, err |-> err]>>
        <5>1. told'[t][1].how = how /\ told'[t][1].err = err
          BY <4>4
        <5> QED
          BY <4>1, <5>1
      <4> QED
        BY <4>2, <4>3, <4>4
    <3> QED
      BY <1>5, <3>1, <3>2 DEF Kind
  <2>10. Asking(t)'
    BY <2>2, <2>6, <2>8, <2>9 DEF Asking
  <2>11. NoSilentExists(job)'
    BY <2>2 DEF AskInv, NoSilentExists
  <2> QED
    BY <1>1, <2>3, <2>10, <2>11 DEF AskInv
<1>6. CASE Next
  BY <1>1, <1>4, <1>5, <1>6, StepKinds
<1> QED
  BY <1>3, <1>6

(***************************************************************************)
(* Each call is answered at most once, and in the way it asked for: with   *)
(* its callback, by resuming its coroutine or by returning (FSR__TEARDOWN, *)
(* on_fs_callback and the callbacks of lev_new_dns.c), in any program that *)
(* gives fs.exists no callback inside a coroutine.  With a callback and    *)
(* outside a coroutine, fs_exists returns first and calls back afterwards, *)
(* and never in another order or a third time.                             *)
(***************************************************************************)
THEOREM RequestsAnsweredAsAsked ==
  ASSUME \A J \in Workloads : NoSilentExists(J)
  PROVE  Spec => []AnsweredAsAsked
<1>1. Init => AskInv
  <2> SUFFICES ASSUME Init PROVE AskInv
    OBVIOUS
  <2>1. TaskInv /\ NoSilentExists(job)
    BY TaskInit DEF Init
  <2>2. ASSUME NEW t \in Tasks PROVE Asking(t)
    <3>1. told[t] = <<>> /\ \A k \in 1 .. 4 : holder[t][k].stage = "none"
      BY NewHolder DEF Init
    <3> QED
      BY <3>1 DEF Asking
  <2> QED
    BY <2>1, <2>2 DEF AskInv
<1>2. AskInv /\ [Next]_vars => AskInv'
  BY AskStep
<1>3. AskInv => AnsweredAsAsked
  <2> SUFFICES ASSUME AskInv, NEW t \in Tasks
               PROVE  /\ Len(told[t]) <= (IF Hasty(t) THEN 2 ELSE 1)
                      /\ Hasty(t) => \A i \in 1 .. Len(told[t]) : told[t][i].how = <<"returned", "called">>[i]
                      /\ told[t] # <<>> /\ job[t].fn # "write" /\ ~Hasty(t) =>
                           told[t][1].how \in
                             CASE job[t].fn = "resolve" -> {"raised"}
                               [] IsDns(t) /\ job[t].fn # "resolve" -> IF told[t][1].err THEN {"called", "returned"} ELSE {"called"}
                               [] ~IsDns(t) /\ job[t].cb -> {"called"}
                               [] ~IsDns(t) /\ ~job[t].cb -> IF job[t].co THEN {"resumed"} ELSE {"returned"}
    BY DEF AnsweredAsAsked
  <2>1. Unanswered(t) /\ Waits(t) /\ pc[t] \in 0 .. 5 /\ Asking(t)
    BY DEF AskInv, TaskInv, Types, Going
  <2>2. job[t].fn = "resolve" => IsDns(t)
    BY DEF IsDns, DnsFunctions
  <2>3. ASSUME Hasty(t) PROVE told[t] \in {<<>>, <<Presumed>>} \/ Twice(told[t])
    <3>1. pc[t] \in 1 .. 4 => pc[t] <= 1
      BY <2>1, <2>3, HastyCall DEF Waits
    <3>2. pc[t] < 4 \/ pc[t] = 5
      BY <2>1, <3>1
    <3> QED
      BY <2>1, <2>3, <3>2 DEF Unanswered, Returned, Done
  <2>4. ASSUME Hasty(t)
        PROVE  Len(told[t]) <= 2 /\ \A i \in 1 .. Len(told[t]) : told[t][i].how = <<"returned", "called">>[i]
    <3>1. Presumed.how = "returned"
      BY DEF Presumed
    <3>2. CASE told[t] = <<>>
      BY <3>2
    <3>3. CASE told[t] = <<Presumed>>
      BY <3>1, <3>3
    <3>4. CASE Twice(told[t])
      <4>1. \A i \in 1 .. 2 : i = 1 \/ i = 2
        OBVIOUS
      <4> QED
        BY <3>4, <4>1 DEF Twice
    <3> QED
      BY <2>3, <2>4, <3>2, <3>3, <3>4
  <2>5. ~Hasty(t) => Len(told[t]) <= 1
    BY <2>1 DEF Unanswered
  <2> QED
    BY <2>1, <2>2, <2>4, <2>5 DEF Asking, Asked
<1> QED
  BY <1>1, <1>2, <1>3, PTL DEF Spec

-----------------------------------------------------------------------------
(***************************************************************************)
(* The descriptors that a task has to close: the one a worked open has     *)
(* brought, then the one it reads from, until its close has worked.        *)
(***************************************************************************)
Brought(h2) == h2.stage = "worked" /\ ~h2.err

HoldsOf(j, p, h2, h4, d) ==
  IF j.fn # "readFile" THEN {}
  ELSE IF p = 2 /\ Brought(h2) THEN {h2.val}
  ELSE IF p \in {3, 4} /\ ~Brought(h4) THEN {d}
  ELSE {}

Holds(t) == HoldsOf(job[t], pc[t], holder[t][2], holder[t][4], Descriptor(t))

(* readFile has ended without a close that worked. *)
Leaked(t) ==
  /\ pc[t] = Done
  /\ \/ "read" \in CanFail /\ told[t] # <<>> /\ told[t][1].err
     \/ "close" \in CanFail

(* The table of descriptors agrees with the tasks. *)
Tallied ==
  \A t \in Tasks :
    /\ Holds(t) \subseteq Fds
    /\ \A f \in Fds : (f \in Holds(t) => fds[f] = t) /\ (fds[f] = t => f \in Holds(t) \/ Leaked(t))

(* A read or close that is out has the task's descriptor, and fails only   *)
(* if the system says so.                                                  *)
Passed(t) ==
  job[t].fn = "readFile" =>
    \A k \in {3, 4} :
      /\ holder[t][k].stage = "queued" => holder[t][k].fd = Descriptor(t)
      /\ holder[t][k].stage = "worked" /\ holder[t][k].err => Script(t)[k] \in CanFail

(* At most one task reads a file without a callback. *)
OneGlobal(J) ==
  \A t, u \in Tasks :
    J[t].fn = "readFile" /\ ~J[t].cb /\ J[u].fn = "readFile" /\ ~J[u].cb => t = u

FdInv == TaskInv /\ OneGlobal(job) /\ Tallied /\ \A t \in Tasks : Passed(t)

(* The four things that a step does to the table and to what t holds. *)
Keeps(t) == fds' = fds /\ Holds(t)' = Holds(t) /\ (Leaked(t) => Leaked(t)')
Opens(t) ==
  \E v \in Fds : /\ pc[t] # Done /\ Holds(t) = {} /\ fds[v] = None
                 /\ fds' = [fds EXCEPT ![v] = t] /\ Holds(t)' = {v}
Closes(t) ==
  \E v \in Fds : /\ pc[t] # Done /\ Holds(t) = {v}
                 /\ fds' = [fds EXCEPT ![v] = None] /\ Holds(t)' = {}
Leaks(t) == fds' = fds /\ Holds(t)' = {} /\ Leaked(t)'

(* Each of them keeps the table in agreement with the tasks. *)
LEMMA TalliedStep ==
  ASSUME Types, Tallied, NEW t \in Tasks, Keeps(t) \/ Opens(t) \/ Closes(t) \/ Leaks(t),
         \A u \in Tasks : u # t => Holds(u)' = Holds(u) /\ (Leaked(u) => Leaked(u)')
  PROVE  Tallied'
<1> DEFINE Fine(u) ==
      /\ Holds(u)' \subseteq Fds
      /\ \A f \in Fds : (f \in Holds(u)' => fds'[f] = u) /\ (fds'[f] = u => f \in Holds(u)' \/ Leaked(u)')
<1>0. /\ \A u \in Tasks : u # None
      /\ fds \in [Fds -> Tasks \cup {None}]
  BY RequestAssumption DEF RequestAssumption, Types
<1>1. \A u \in Tasks :
        /\ Holds(u) \subseteq Fds
        /\ \A f \in Fds : (f \in Holds(u) => fds[f] = u) /\ (fds[f] = u => f \in Holds(u) \/ Leaked(u))
  BY DEF Tallied
<1>2. ASSUME Keeps(t) PROVE \A u \in Tasks : Fine(u)
  BY <1>1, <1>2 DEF Keeps
<1>3. ASSUME Leaks(t) PROVE \A u \in Tasks : Fine(u)
  BY <1>1, <1>3 DEF Leaks
<1>4. ASSUME Opens(t) PROVE \A u \in Tasks : Fine(u)
  <2>1. PICK v \in Fds : /\ pc[t] # Done /\ Holds(t) = {} /\ fds[v] = None
                         /\ fds' = [fds EXCEPT ![v] = t] /\ Holds(t)' = {v}
    BY <1>4 DEF Opens
  <2>2. fds'[v] = t /\ \A f \in Fds : f # v => fds'[f] = fds[f]
    BY <1>0, <2>1
  <2>3. ~Leaked(t)
    BY <2>1 DEF Leaked
  <2>4. Fine(t)
    BY <1>1, <2>1, <2>2, <2>3
  <2>5. ASSUME NEW u \in Tasks, u # t PROVE Fine(u)
    <3>1. v \notin Holds(u)
      BY <1>0, <1>1, <2>1
    <3> QED
      BY <1>1, <2>2, <2>5, <3>1
  <2> QED
    BY <2>4, <2>5
<1>5. ASSUME Closes(t) PROVE \A u \in Tasks : Fine(u)
  <2>1. PICK v \in Fds : /\ pc[t] # Done /\ Holds(t) = {v}
                         /\ fds' = [fds EXCEPT ![v] = None] /\ Holds(t)' = {}
    BY <1>5 DEF Closes
  <2>2. fds'[v] = None /\ \A f \in Fds : f # v => fds'[f] = fds[f]
    BY <1>0, <2>1
  <2>3. ~Leaked(t) /\ fds[v] = t
    BY <1>1, <2>1 DEF Leaked
  <2>4. Fine(t)
    BY <1>0, <1>1, <2>1, <2>2, <2>3
  <2>5. ASSUME NEW u \in Tasks, u # t PROVE Fine(u)
    <3>1. v \notin Holds(u)
      BY <1>1, <2>3, <2>5
    <3> QED
      BY <1>0, <1>1, <2>2, <2>5, <3>1
  <2> QED
    BY <2>4, <2>5
<1> QED
  BY <1>2, <1>3, <1>4, <1>5 DEF Tallied

(* What a task holds, request by request. *)
LEMMA HoldsCases ==
  ASSUME NEW j, NEW p, NEW h2, NEW h4, NEW d
  PROVE  /\ j.fn # "readFile" => HoldsOf(j, p, h2, h4, d) = {}
         /\ p \notin {2, 3, 4} => HoldsOf(j, p, h2, h4, d) = {}
         /\ j.fn = "readFile" /\ p = 2 /\ Brought(h2) => HoldsOf(j, p, h2, h4, d) = {h2.val}
         /\ p = 2 /\ ~Brought(h2) => HoldsOf(j, p, h2, h4, d) = {}
         /\ j.fn = "readFile" /\ p \in {3, 4} /\ ~Brought(h4) => HoldsOf(j, p, h2, h4, d) = {d}
         /\ p \in {3, 4} /\ Brought(h4) => HoldsOf(j, p, h2, h4, d) = {}
BY DEF HoldsOf

(* The variable of another task's descriptor stays as it is: there is one  *)
(* task at most that assigns the global one.                               *)
LEMMA OtherFds ==
  ASSUME FdInv, NEW t \in Tasks, NEW k \in 1 .. 4, NEW h \in Holders,
         Kind(t, k, h), holder' = [holder EXCEPT ![t][k] = h],
         NEW u \in Tasks, u # t
  PROVE  /\ Holds(u)' = Holds(u) /\ (Leaked(u) => Leaked(u)')
         /\ Passed(u)'
<1>1. /\ job' = job /\ holder'[u] = holder[u] /\ pc'[u] = pc[u] /\ told'[u] = told[u]
      /\ localfd'[u] = localfd[u]
  BY OtherTasks DEF FdInv
<1>2. fd' = fd \/ (job[t].fn = "readFile" /\ ~job[t].cb)
  <2>1. ASSUME NEW err \in BOOLEAN, NEW val \in 0 .. MaxFd, NEW how \in Hows, Goes(t, k, h, err, val, how)
        PROVE  fd' = fd \/ (job[t].fn = "readFile" /\ ~job[t].cb)
    BY <2>1 DEF Goes, Continue
  <2> QED
    BY <2>1 DEF Kind, Submits, Works, Returns, Collects
<1>3. Descriptor(u)' = Descriptor(u)
  <2>1. fd' = fd \/ ~(job[u].fn = "readFile" /\ ~job[u].cb)
    BY <1>2 DEF FdInv, OneGlobal
  <2> QED
    BY <1>1, <2>1 DEF Descriptor
<1>4. Holds(u)' = Holds(u)
  BY <1>1, <1>3 DEF Holds
<1>5. Leaked(u) => Leaked(u)'
  BY <1>1 DEF Leaked
<1>6. Script(u)' = Script(u)
  BY <1>1 DEF Script
<1>7. Passed(u)'
  BY <1>1, <1>3, <1>6 DEF FdInv, Passed
<1> QED
  BY <1>4, <1>5, <1>7

(* The system calls of a readFile, whose descriptor is its own. *)
LEMMA SystemCalls ==
  ASSUME FdInv, NEW t \in Tasks, job[t].fn = "readFile", NEW k \in 1 .. 4, k = pc[t],
         NEW f, k \in {3, 4} => f = Descriptor(t) /\ ~Brought(holder[t][4]),
         NEW err \in BOOLEAN, NEW val \in 0 .. MaxFd, push_results(t, k, f, err, val)
  PROVE  /\ k = 1 => fds' = fds
         /\ k = 2 /\ ~err => val \in Fds /\ fds[val] = None /\ fds' = [fds EXCEPT ![val] = t]
         /\ k = 2 /\ err => fds' = fds
         /\ k = 3 => fds' = fds /\ (err => "read" \in CanFail)
         /\ k = 4 /\ ~err => f \in Fds /\ fds' = [fds EXCEPT ![f] = None]
         /\ k = 4 /\ err => fds' = fds /\ "close" \in CanFail
         /\ k \in {3, 4} => Holds(t) = {f}
<1>0. /\ Script(t)[1] = "stat" /\ Script(t)[2] = "open" /\ Script(t)[3] = "read" /\ Script(t)[4] = "close"
      /\ ~IsDns(t)
  BY ScriptShape
<1>1. k \in {3, 4} => Holds(t) = {f}
  BY HoldsCases DEF Holds
<1>2. k \in {3, 4} => f \in Fds /\ fds[f] = t /\ f # 0 /\ fds[f] # None
  <2>1. k \in {3, 4} => f \in Fds /\ fds[f] = t
    BY <1>1 DEF FdInv, Tallied
  <2>2. t # None /\ 0 \notin Fds
    BY RequestAssumption DEF RequestAssumption, Fds
  <2> QED
    BY <2>1, <2>2
<1>3. CASE ~err
  <2>1. Succeeds(t, k, f, val)
    BY <1>3 DEF push_results
  <2>2. k = 1 => fds' = fds
    BY <1>0, <2>1 DEF Succeeds
  <2>3. k = 2 => val \in Fds /\ fds[val] = None /\ fds' = [fds EXCEPT ![val] = t]
    BY <1>0, <2>1 DEF Succeeds
  <2>4. k = 3 => fds' = fds
    BY <1>0, <2>1 DEF Succeeds
  <2>5. k = 4 => fds' = [fds EXCEPT ![f] = None]
    BY <1>0, <2>1 DEF Succeeds
  <2> QED
    BY <1>1, <1>2, <1>3, <2>2, <2>3, <2>4, <2>5
<1>4. CASE err
  <2>1. Fails(t, k, f)
    BY <1>4 DEF push_results
  <2>2. fds' = fds
    BY <2>1 DEF Fails
  <2>3. k = 3 => "read" \in CanFail
    BY <1>0, <1>2, <2>1 DEF Fails
  <2>4. k = 4 => "close" \in CanFail
    BY <1>0, <1>2, <2>1 DEF Fails
  <2> QED
    BY <1>1, <1>4, <2>2, <2>3, <2>4
<1> QED
  BY <1>3, <1>4

(* Giving a request to the pool, the return of a callback and the          *)
(* collector leave the descriptors alone.                                  *)
LEMMA QuietEffect ==
  ASSUME FdInv, NEW t \in Tasks, NEW k \in 1 .. 4, NEW h \in Holders,
         Submits(t, k, h) \/ Returns(t, k, h) \/ Collects(t, k, h),
         holder' = [holder EXCEPT ![t][k] = h]
  PROVE  Keeps(t) /\ Passed(t)'
<1>1. holder'[t][k] = h /\ \A l \in 1 .. 4 : l # k => holder'[t][l] = holder[t][l]
  BY OneHolder DEF FdInv, TaskInv, Types
<1>2. UNCHANGED <<job, pc, fds, localfd, fd>>
  BY DEF Submits, Returns, Collects
<1>3. Descriptor(t)' = Descriptor(t) /\ Script(t)' = Script(t)
  BY <1>2 DEF Descriptor, Script
<1>4. h.stage # "worked" /\ (h.stage = "queued" => h.fd = Descriptor(t))
  BY DEF Submits, Returns, Collects
<1>5. holder[t][k].stage # "worked"
  <2>1. CASE Submits(t, k, h)
    BY <2>1, RunningTask DEF Submits, FdInv
  <2>2. CASE Returns(t, k, h) \/ Collects(t, k, h)
    BY <2>2 DEF Returns, Collects
  <2> QED
    BY <2>1, <2>2
<1>6. ~Brought(h) /\ ~Brought(holder[t][k])
  BY <1>4, <1>5 DEF Brought
<1>7. \A l \in 1 .. 4 : holder'[t][l] = holder[t][l] \/ (~Brought(holder'[t][l]) /\ ~Brought(holder[t][l]))
  BY <1>1, <1>6
<1>8. 2 \in 1 .. 4 /\ 4 \in 1 .. 4 /\ 3 \in 1 .. 4
  OBVIOUS
<1>9. Holds(t)' = Holds(t)
  <2>1. holder'[t][2] = holder[t][2] \/ (~Brought(holder'[t][2]) /\ ~Brought(holder[t][2]))
    BY <1>7, <1>8
  <2>2. holder'[t][4] = holder[t][4] \/ (~Brought(holder'[t][4]) /\ ~Brought(holder[t][4]))
    BY <1>7, <1>8
  <2> QED
    BY <1>2, <1>3, <2>1, <2>2 DEF Holds, HoldsOf
<1>10. Keeps(t)
  <2>1. CASE Submits(t, k, h)
    <3>1. pc[t] # Done
      BY <2>1, RunningTask DEF Submits, FdInv, Done
    <3> QED
      BY <1>2, <1>9, <3>1 DEF Keeps, Leaked
  <2>2. CASE Returns(t, k, h) \/ Collects(t, k, h)
    BY <1>2, <1>9, <2>2 DEF Keeps, Leaked, Returns, Collects
  <2> QED
    BY <2>1, <2>2
<1>11. Passed(t)'
  <2>1. Passed(t)
    BY DEF FdInv
  <2> QED
    BY <1>1, <1>2, <1>3, <1>4, <1>8, <2>1 DEF Passed
<1> QED
  BY <1>10, <1>11

(* A call that is no readFile leaves them alone, too. *)
LEMMA OtherCallEffect ==
  ASSUME FdInv, NEW t \in Tasks, NEW k \in 1 .. 4, NEW h \in Holders,
         Kind(t, k, h), holder' = [holder EXCEPT ![t][k] = h], job[t].fn # "readFile"
  PROVE  Keeps(t) /\ Passed(t)'
<1>1. job' = job
  BY DEF Kind, Submits, Works, Returns, Collects, Goes
<1>2. Passed(t)' /\ Holds(t)' = {} /\ Holds(t) = {}
  BY <1>1, HoldsCases DEF Passed, Holds
<1>3. \A f, err, val : push_results(t, k, f, err, val) => fds' = fds
  BY DEF push_results, Succeeds, Fails
<1>4. CASE Submits(t, k, h) \/ Returns(t, k, h) \/ Collects(t, k, h)
  BY <1>4, QuietEffect
<1>5. CASE Works(t, k, h)
  <2>1. fds' = fds /\ UNCHANGED <<pc, told>>
    BY <1>3, <1>5 DEF Works
  <2> QED
    BY <1>2, <2>1 DEF Keeps, Leaked
<1>6. ASSUME NEW err \in BOOLEAN, NEW val \in 0 .. MaxFd, NEW how \in Hows, Goes(t, k, h, err, val, how)
      PROVE  Keeps(t)
  <2>1. fds' = fds
    BY <1>3, <1>6 DEF Goes, Outcome
  <2>2. ~Leaked(t)
    BY <1>6 DEF Goes, Leaked, Done
  <2> QED
    BY <1>2, <2>1, <2>2 DEF Keeps
<1> QED
  BY <1>2, <1>4, <1>5, <1>6 DEF Kind

(* The thread pool works on a request of a readFile. *)
LEMMA WorksEffect ==
  ASSUME FdInv, NEW t \in Tasks, NEW k \in 1 .. 4, NEW h \in Holders,
         Works(t, k, h), holder' = [holder EXCEPT ![t][k] = h], job[t].fn = "readFile"
  PROVE  (Keeps(t) \/ Opens(t) \/ Closes(t)) /\ Passed(t)'
<1>1. holder'[t][k] = h /\ \A l \in 1 .. 4 : l # k => holder'[t][l] = holder[t][l]
  BY OneHolder DEF FdInv, TaskInv, Types
<1>2. UNCHANGED <<job, pc, told, localfd, fd>>
  BY DEF Works
<1>3. Descriptor(t)' = Descriptor(t) /\ Script(t)' = Script(t)
  BY <1>2 DEF Descriptor, Script
<1>4. /\ holder[t][k].stage = "queued" /\ h.stage = "worked"
      /\ push_results(t, k, holder[t][k].fd, h.err, h.val)
  BY DEF Works
<1>5. h.err \in BOOLEAN /\ h.val \in 0 .. MaxFd
  BY DEF Holders
<1>6. k = pc[t] /\ pc[t] # Done /\ Passed(t) /\ Waits(t)
  BY <1>4, WaitingTask DEF FdInv, TaskInv, Going, Done
<1>7. k \in {3, 4} => holder[t][k].fd = Descriptor(t) /\ ~Brought(holder[t][4])
  <2>1. k = 3 => holder[t][4].stage = "none"
    BY <1>6 DEF Waits
  <2> QED
    BY <1>4, <1>6, <2>1 DEF Passed, Brought
<1>8. /\ k = 1 => fds' = fds
      /\ k = 2 /\ ~h.err => h.val \in Fds /\ fds[h.val] = None /\ fds' = [fds EXCEPT ![h.val] = t]
      /\ k = 2 /\ h.err => fds' = fds
      /\ k = 3 => fds' = fds /\ (h.err => "read" \in CanFail)
      /\ k = 4 /\ ~h.err => holder[t][k].fd \in Fds /\ fds' = [fds EXCEPT ![holder[t][k].fd] = None]
      /\ k = 4 /\ h.err => fds' = fds /\ "close" \in CanFail
      /\ k \in {3, 4} => Holds(t) = {holder[t][k].fd}
  BY <1>4, <1>5, <1>6, <1>7, SystemCalls
<1>9. ~Leaked(t)
  BY <1>6 DEF Leaked
<1>10. Brought(h) <=> ~h.err
  BY <1>4 DEF Brought
<1>11. Holds(t)' = HoldsOf(job[t], k, holder'[t][2], holder'[t][4], Descriptor(t))
  BY <1>2, <1>3, <1>6 DEF Holds
<1>12. Holds(t) = HoldsOf(job[t], k, holder[t][2], holder[t][4], Descriptor(t))
  BY <1>6 DEF Holds
<1>13. Passed(t)'
  <2>1. Script(t)[3] = "read" /\ Script(t)[4] = "close"
    BY ScriptShape
  <2>2. k \in {3, 4} /\ h.err => Script(t)[k] \in CanFail
    BY <1>8, <2>1
  <2> QED
    BY <1>1, <1>2, <1>3, <1>4, <1>6, <2>2 DEF Passed
<1>14. CASE k = 1
  <2>1. Holds(t)' = {} /\ Holds(t) = {}
    BY <1>11, <1>12, <1>14, HoldsCases
  <2> QED
    BY <1>8, <1>9, <1>13, <1>14, <2>1 DEF Keeps
<1>15. CASE k = 2
  <2>1. Holds(t) = {}
    BY <1>4, <1>12, <1>15, HoldsCases DEF Brought
  <2>2. ~h.err => Holds(t)' = {h.val}
    BY <1>1, <1>10, <1>11, <1>15, HoldsCases
  <2>3. h.err => Holds(t)' = {}
    BY <1>1, <1>10, <1>11, <1>15, HoldsCases
  <2>4. ~h.err => Opens(t)
    BY <1>6, <1>8, <1>15, <2>1, <2>2 DEF Opens
  <2>5. h.err => Keeps(t)
    BY <1>8, <1>9, <1>15, <2>1, <2>3 DEF Keeps
  <2> QED
    BY <1>13, <2>4, <2>5
<1>16. CASE k = 3
  <2>1. ~Brought(holder'[t][4]) /\ ~Brought(holder[t][4])
    BY <1>1, <1>7, <1>16
  <2>2. Holds(t)' = {Descriptor(t)} /\ Holds(t) = {Descriptor(t)}
    BY <1>11, <1>12, <1>16, <2>1, HoldsCases
  <2> QED
    BY <1>8, <1>9, <1>13, <1>16, <2>2 DEF Keeps
<1>17. CASE k = 4
  <2>1. Holds(t) = {Descriptor(t)} /\ holder[t][k].fd = Descriptor(t)
    BY <1>7, <1>8, <1>17
  <2>2. ~h.err => Holds(t)' = {}
    BY <1>1, <1>10, <1>11, <1>17, HoldsCases
  <2>3. h.err => Holds(t)' = {Descriptor(t)}
    BY <1>1, <1>10, <1>11, <1>17, HoldsCases
  <2>4. ~h.err => Closes(t)
    BY <1>6, <1>8, <1>17, <2>1, <2>2 DEF Closes
  <2>5. h.err => Keeps(t)
    BY <1>8, <1>9, <1>17, <2>1, <2>3 DEF Keeps
  <2> QED
    BY <1>13, <2>4, <2>5
<1> QED
  BY <1>14, <1>15, <1>16, <1>17

(* The outcome of a request of readFile, whoever did it: what the step has *)
(* made of the table, and what the task held before.                       *)
LEMMA ReadFileOutcome ==
  ASSUME FdInv, NEW t \in Tasks, NEW k \in 1 .. 4, NEW h \in Holders,
         NEW err \in BOOLEAN, NEW val \in 0 .. MaxFd, NEW how \in Hows,
         Goes(t, k, h, err, val, how), job[t].fn = "readFile"
  PROVE  /\ k = 1 => fds' = fds /\ Holds(t) = {}
         /\ k = 2 /\ ~err => \/ fds' = fds /\ Holds(t) = {val}
                             \/ /\ val \in Fds /\ fds[val] = None /\ Holds(t) = {}
                                /\ fds' = [fds EXCEPT ![val] = t]
         /\ k = 2 /\ err => fds' = fds /\ Holds(t) = {}
         /\ k = 3 => fds' = fds /\ Holds(t) = {Descriptor(t)} /\ (err => "read" \in CanFail)
         /\ k = 4 /\ ~err => \/ fds' = fds /\ Holds(t) = {}
                             \/ /\ Descriptor(t) \in Fds /\ Holds(t) = {Descriptor(t)}
                                /\ fds' = [fds EXCEPT ![Descriptor(t)] = None]
         /\ k = 4 /\ err => fds' = fds /\ "close" \in CanFail
<1>1. k = pc[t] /\ Outcome(t, k, err, val) /\ Passed(t) /\ Waits(t) /\ ~IsDns(t)
      /\ (running = t => holder[t][k].stage = "none")
  BY ScriptShape DEF Goes, FdInv, TaskInv, Going
<1>2. Holds(t) = HoldsOf(job[t], k, holder[t][2], holder[t][4], Descriptor(t))
  BY <1>1 DEF Holds
<1>3. k = 3 => ~Brought(holder[t][4])
  <2>1. k = 3 => holder[t][4].stage = "none"
    BY <1>1 DEF Waits
  <2> QED
    BY <2>1 DEF Brought
<1>4. /\ k = 1 => Holds(t) = {}
      /\ k = 3 => Holds(t) = {Descriptor(t)}
  BY <1>2, <1>3, HoldsCases
<1>5. CASE fds' = fds /\ holder[t][k].stage = "worked" /\ err = holder[t][k].err /\ val = holder[t][k].val
  <2>1. Brought(holder[t][k]) <=> ~err
    BY <1>5 DEF Brought
  <2>2. k = 2 => Holds(t) = IF err THEN {} ELSE {val}
    BY <1>2, <1>5, <2>1, HoldsCases
  <2>3. k = 4 /\ ~err => Holds(t) = {}
    BY <1>2, <2>1, HoldsCases
  <2>4. Script(t)[3] = "read" /\ Script(t)[4] = "close"
    BY ScriptShape
  <2>5. (k = 3 /\ err => "read" \in CanFail) /\ (k = 4 /\ err => "close" \in CanFail)
    BY <1>1, <1>5, <2>4 DEF Passed
  <2> QED
    BY <1>4, <1>5, <2>2, <2>3, <2>5
<1>6. CASE holder[t][k].stage = "none" /\ push_results(t, k, Descriptor(t), err, val)
  <2>1. ~Brought(holder[t][k])
    BY <1>6 DEF Brought
  <2>2. k \in {3, 4} => ~Brought(holder[t][4])
    BY <1>3, <2>1
  <2>3. k = 2 => Holds(t) = {}
    BY <1>2, <2>1, HoldsCases
  <2> QED
    BY <1>1, <1>4, <1>6, <2>2, <2>3, SystemCalls
<1> QED
  BY <1>1, <1>5, <1>6 DEF Outcome

(* A readFile goes on with the outcome of a request. *)
LEMMA GoesEffect ==
  ASSUME FdInv, NEW t \in Tasks, NEW k \in 1 .. 4, NEW h \in Holders,
         NEW err \in BOOLEAN, NEW val \in 0 .. MaxFd, NEW how \in Hows,
         Goes(t, k, h, err, val, how), job[t].fn = "readFile",
         holder' = [holder EXCEPT ![t][k] = h]
  PROVE  (Keeps(t) \/ Opens(t) \/ Closes(t) \/ Leaks(t)) /\ Passed(t)'
<1>0. Types /\ localfd \in [Tasks -> 0 .. MaxFd] /\ Len(Script(t)) = 4
  BY ScriptShape DEF FdInv, TaskInv, Types
<1>1. holder'[t][k] = h /\ \A l \in 1 .. 4 : l # k => holder'[t][l] = holder[t][l]
  BY OneHolder DEF FdInv, TaskInv, Types
<1>2. /\ job' = job /\ k = pc[t] /\ Waits(t) /\ Continue(t, k, err, val, how)
      /\ h.stage \in {"over", "callback", "lost"}
  BY DEF Goes, FdInv, TaskInv, Going
<1>3. /\ \A l \in 1 .. 4 : l > k => holder'[t][l].stage = "none"
      /\ \A l \in 1 .. 4 : l < k => holder'[t][l].stage \in {"callback", "over", "collected"}
  BY <1>1, <1>2 DEF Waits
<1>4. \A l \in 1 .. 4 : holder'[t][l].stage \notin {"queued", "worked"}
  <2>1. \A l \in 1 .. 4 : l < k \/ l = k \/ l > k
    OBVIOUS
  <2> QED
    BY <1>1, <1>2, <1>3, <2>1
<1>5. Passed(t)'
  BY <1>4 DEF Passed
<1>6. ~Brought(holder'[t][2]) /\ ~Brought(holder'[t][4])
  <2>1. holder'[t][2].stage # "worked" /\ holder'[t][4].stage # "worked"
    BY <1>4
  <2> QED
    BY <2>1 DEF Brought
<1>7. pc[t] # Done /\ ~Leaked(t)
  BY <1>2 DEF Leaked, Done
<1>8. Holds(t)' = HoldsOf(job[t], pc'[t], holder'[t][2], holder'[t][4], Descriptor(t)')
  BY <1>2 DEF Holds
<1>9. /\ err \/ k = 4 => pc'[t] = Done
      /\ ~(err \/ k = 4) => pc'[t] = k + 1
  <2>1. Types /\ Continue(t, k, err, val, how)
    BY <1>0, <1>2
  <2>2. /\ err \/ k = Len(Script(t)) => pc'[t] = Done
        /\ ~(err \/ k = Len(Script(t))) => pc'[t] = k + 1
    BY <2>1, ContinueFields
  <2> QED
    BY <1>0, <2>2
<1>10. /\ k = 1 => fds' = fds /\ Holds(t) = {}
       /\ k = 2 /\ ~err => \/ fds' = fds /\ Holds(t) = {val}
                           \/ /\ val \in Fds /\ fds[val] = None /\ Holds(t) = {}
                              /\ fds' = [fds EXCEPT ![val] = t]
       /\ k = 2 /\ err => fds' = fds /\ Holds(t) = {}
       /\ k = 3 => fds' = fds /\ Holds(t) = {Descriptor(t)} /\ (err => "read" \in CanFail)
       /\ k = 4 /\ ~err => \/ fds' = fds /\ Holds(t) = {}
                           \/ /\ Descriptor(t) \in Fds /\ Holds(t) = {Descriptor(t)}
                              /\ fds' = [fds EXCEPT ![Descriptor(t)] = None]
       /\ k = 4 /\ err => fds' = fds /\ "close" \in CanFail
  BY ReadFileOutcome
<1>11. err \/ k = 4 => Holds(t)' = {}
  <2>1. ASSUME pc'[t] = Done PROVE pc'[t] \notin {2, 3, 4}
    BY <2>1 DEF Done
  <2> QED
    BY <1>8, <1>9, <2>1, HoldsCases
<1>12. CASE k = 1
  <2>1. pc'[t] = Done \/ pc'[t] = 2
    BY <1>9, <1>12
  <2>2. ASSUME pc'[t] = 2 PROVE Holds(t)' = {}
    BY <1>6, <1>8, <2>2, HoldsCases
  <2>3. ASSUME pc'[t] = Done PROVE Holds(t)' = {}
    <3>1. pc'[t] \notin {2, 3, 4}
      BY <2>3 DEF Done
    <3> QED
      BY <1>8, <3>1, HoldsCases
  <2>4. Keeps(t)
    BY <1>7, <1>10, <1>12, <2>1, <2>2, <2>3 DEF Keeps
  <2> QED
    BY <1>5, <2>4
<1>13. CASE k = 2
  <2>1. ASSUME err PROVE Keeps(t)
    BY <1>7, <1>10, <1>11, <1>13, <2>1 DEF Keeps
  <2>2. ASSUME ~err PROVE Keeps(t) \/ Opens(t)
    <3>1. pc'[t] = 3
      <4>1. ~(err \/ k = 4)
        BY <1>13, <2>2
      <4>2. pc'[t] = k + 1
        BY <1>9, <4>1
      <4> QED
        BY <1>13, <4>2
    <3>2. Descriptor(t)' = val
      <4>1. job[t].cb => localfd' = [localfd EXCEPT ![t] = val]
        BY <1>2, <1>13 DEF Continue
      <4>2. ~job[t].cb => fd' = val
        BY <1>2, <1>13 DEF Continue
      <4>3. job[t].cb => localfd'[t] = val
        BY <1>0, <4>1
      <4> QED
        BY <1>2, <3>1, <4>2, <4>3 DEF Descriptor
    <3>3. Holds(t)' = {val}
      BY <1>6, <1>8, <3>1, <3>2, HoldsCases
    <3> QED
      BY <1>7, <1>10, <1>13, <2>2, <3>3 DEF Keeps, Opens
  <2> QED
    BY <1>5, <2>1, <2>2
<1>14. CASE k = 3
  <2>1. ASSUME err PROVE Leaks(t)
    <3>1. Answers(t, k, err)
      BY <1>0, <1>14, <2>1 DEF Answers
    <3>2. told'[t] = <<[how |-> how, err |-> err]>>
      <4>1. ~Hasty(t)
        BY HastyCall
      <4> QED
        BY <3>1, <4>1, AnswersOnce DEF FdInv
    <3>3. told'[t] # <<>> /\ told'[t][1].err
      BY <2>1, <3>2
    <3>4. pc'[t] = Done /\ "read" \in CanFail
      BY <1>9, <1>10, <1>14, <2>1
    <3>5. Leaked(t)'
      BY <3>3, <3>4 DEF Leaked, Done
    <3> QED
      BY <1>10, <1>11, <1>14, <2>1, <3>5 DEF Leaks
  <2>2. ASSUME ~err PROVE Keeps(t)
    <3>1. pc'[t] = 4
      <4>1. ~(err \/ k = 4)
        BY <1>14, <2>2
      <4>2. pc'[t] = k + 1
        BY <1>9, <4>1
      <4> QED
        BY <1>14, <4>2
    <3>2. localfd' = localfd /\ fd' = fd
      BY <1>2, <1>14 DEF Continue
    <3>3. Descriptor(t)' = Descriptor(t)
      BY <1>2, <1>14, <3>1, <3>2 DEF Descriptor
    <3>4. Holds(t)' = {Descriptor(t)}
      BY <1>6, <1>8, <3>1, <3>3, HoldsCases
    <3> QED
      BY <1>7, <1>10, <1>14, <3>4 DEF Keeps
  <2> QED
    BY <1>5, <2>1, <2>2
<1>15. CASE k = 4
  <2>1. ASSUME err PROVE Leaks(t)
    <3>1. Leaked(t)'
      BY <1>9, <1>10, <1>15, <2>1 DEF Leaked, Done
    <3> QED
      BY <1>10, <1>11, <1>15, <2>1, <3>1 DEF Leaks
  <2>2. ASSUME ~err PROVE Keeps(t) \/ Closes(t)
    BY <1>7, <1>10, <1>11, <1>15, <2>2 DEF Keeps, Closes
  <2> QED
    BY <1>5, <2>1, <2>2
<1> QED
  BY <1>12, <1>13, <1>14, <1>15

(* Every step keeps the descriptors accounted for. *)
LEMMA FdStep ==
  ASSUME FdInv, [Next]_vars
  PROVE  FdInv'
<1>1. TaskInv /\ TaskInv' /\ Types
  BY TaskStep DEF FdInv, TaskInv
<1>2. CASE UNCHANGED vars
  <2>1. Tallied'
    BY <1>2 DEF FdInv, Tallied, Holds, Leaked, Descriptor, vars
  <2>2. ASSUME NEW u \in Tasks PROVE Passed(u)'
    BY <1>2 DEF FdInv, Passed, Descriptor, Script, vars
  <2> QED
    BY <1>1, <1>2, <2>1, <2>2 DEF FdInv, OneGlobal, vars
<1>3. ASSUME NEW t \in Tasks, start(t) PROVE FdInv'
  <2>1. UNCHANGED <<job, holder, told, fds, localfd, fd>> /\ pc' = [pc EXCEPT ![t] = 1] /\ pc[t] = 0
    BY <1>3 DEF start
  <2>2. pc'[t] = 1 /\ \A u \in Tasks : u # t => pc'[u] = pc[u]
    BY <1>1, <2>1 DEF Types
  <2>3. ASSUME NEW u \in Tasks, u # t
        PROVE  Holds(u)' = Holds(u) /\ (Leaked(u) => Leaked(u)') /\ Passed(u)'
    BY <2>1, <2>2, <2>3 DEF FdInv, Holds, Leaked, Passed, Descriptor, Script
  <2>4. Descriptor(t) = 0 /\ Descriptor(t)' = 0
    BY <2>1, <2>2 DEF Descriptor
  <2>5. Holds(t) = {} /\ Holds(t)' = {} /\ ~Leaked(t)
    BY <2>1, <2>2, HoldsCases DEF Holds, Leaked, Done
  <2>6. Passed(t)'
    BY <2>1, <2>4 DEF FdInv, Passed, Script
  <2>7. Keeps(t)
    BY <2>1, <2>5 DEF Keeps
  <2>8. Tallied'
    BY <1>1, <2>3, <2>7, TalliedStep DEF FdInv
  <2> QED
    BY <1>1, <2>1, <2>3, <2>6, <2>8 DEF FdInv, OneGlobal
<1>4. ASSUME NEW t \in Tasks, NEW k \in 1 .. 4, NEW h \in Holders,
             Kind(t, k, h), holder' = [holder EXCEPT ![t][k] = h]
      PROVE  FdInv'
  <2>1. job' = job
    BY <1>4 DEF Kind, Submits, Works, Returns, Collects, Goes
  <2>2. ASSUME NEW u \in Tasks, u # t
        PROVE  Holds(u)' = Holds(u) /\ (Leaked(u) => Leaked(u)') /\ Passed(u)'
    BY <1>4, <2>2, OtherFds
  <2>3. (Keeps(t) \/ Opens(t) \/ Closes(t) \/ Leaks(t)) /\ Passed(t)'
    <3>1. CASE job[t].fn # "readFile"
      BY <1>4, <3>1, OtherCallEffect
    <3>2. CASE job[t].fn = "readFile"
      BY <1>4, <3>2, QuietEffect, WorksEffect, GoesEffect DEF Kind
    <3> QED
      BY <3>1, <3>2
  <2>4. Tallied'
    BY <1>1, <2>2, <2>3, TalliedStep DEF FdInv
  <2> QED
    BY <1>1, <2>1, <2>2, <2>3, <2>4 DEF FdInv, OneGlobal
<1>5. CASE Next
  BY <1>1, <1>3, <1>4, <1>5, StepKinds
<1> QED
  BY <1>2, <1>5

(***************************************************************************)
(* readFile reads and closes the descriptor that it has opened, and a      *)
(* descriptor that stays open is one whose readFile met an error (the Lua  *)
(* code in lev_new_fs.c returns without a close), in any program in which  *)
(* one readFile at most uses the global variable fd.                       *)
(***************************************************************************)
THEOREM RequestsDescriptorsAreClosed ==
  ASSUME \A J \in Workloads : OneGlobal(J)
  PROVE  Spec => []DescriptorsAreClosed
<1>1. Init => FdInv
  <2> SUFFICES ASSUME Init PROVE FdInv
    OBVIOUS
  <2>1. TaskInv /\ OneGlobal(job)
    BY TaskInit DEF Init
  <2>2. ASSUME NEW t \in Tasks PROVE Passed(t) /\ Holds(t) = {}
    <3>1. pc[t] = 0 /\ holder[t][3].stage = "none" /\ holder[t][4].stage = "none"
      BY NewHolder DEF Init
    <3> QED
      BY <3>1, HoldsCases DEF Passed, Holds
  <2>3. Tallied
    BY <2>2, RequestAssumption DEF Init, Tallied, RequestAssumption
  <2> QED
    BY <2>1, <2>2, <2>3 DEF FdInv
<1>2. FdInv /\ [Next]_vars => FdInv'
  BY FdStep
<1>3. FdInv => DescriptorsAreClosed
  <2> SUFFICES ASSUME FdInv PROVE DescriptorsAreClosed
    OBVIOUS
  <2>1. ASSUME NEW t \in Tasks, job[t].fn = "readFile", pc[t] \in {3, 4},
               holder[t][4].stage \in {"none", "queued"}
        PROVE  Descriptor(t) # 0 /\ fds[Descriptor(t)] = t
    <3>1. Holds(t) = {Descriptor(t)}
      BY <2>1, HoldsCases DEF Holds, Brought
    <3> QED
      BY <3>1 DEF FdInv, Tallied, Fds
  <2>2. ASSUME NEW f \in Fds, fds[f] # None
        PROVE  \/ pc[fds[f]] \in 2 .. 4
               \/ "read" \in CanFail /\ pc[fds[f]] = Done /\ told[fds[f]][1].err
               \/ "close" \in CanFail /\ pc[fds[f]] = Done
    <3>1. PICK u \in Tasks : fds[f] = u
      BY <2>2 DEF FdInv, TaskInv, Types
    <3>2. f \in Holds(u) \/ Leaked(u)
      BY <3>1 DEF FdInv, Tallied
    <3>3. f \in Holds(u) => pc[u] \in {2, 3, 4}
      BY HoldsCases DEF Holds
    <3>4. pc[u] \in {2, 3, 4} => pc[u] \in 2 .. 4
      OBVIOUS
    <3>5. Leaked(u) => \/ "read" \in CanFail /\ pc[u] = Done /\ told[u][1].err
                       \/ "close" \in CanFail /\ pc[u] = Done
      BY DEF Leaked
    <3> QED
      BY <3>1, <3>2, <3>3, <3>4, <3>5
  <2> QED
    BY <2>1, <2>2 DEF DescriptorsAreClosed
<1> QED
  BY <1>1, <1>2, <1>3, PTL DEF Spec
=============================================================================
