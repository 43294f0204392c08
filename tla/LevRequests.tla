----------------------------- MODULE LevRequests -----------------------------
(***************************************************************************)
(* Requests of lev.fs and lev.dns (lev_new_fs.c, lev_new_dns.c): the       *)
(* userdata that holds a libuv or c-ares request until its callback has    *)
(* run, the three ways a caller gets its answer, and fs.readFile, which    *)
(* makes four requests in a row and keeps a file descriptor in between.    *)
(*                                                                         *)
(* A task is one call the program makes; its script is the requests that   *)
(* the call issues one after the other.  Lua runs one task at a time; the  *)
(* thread pool and the resolver (external) work at any time.               *)
(***************************************************************************)
EXTENDS Naturals, Sequences

CONSTANTS
  None,       \* no task
  Tasks,      \* the calls the program makes
  Workloads,  \* what they may be: functions from Tasks to jobs
  MaxFd,      \* bound on the descriptors the process may have open
  CanFail     \* the requests that the system may refuse

(***************************************************************************)
(* The functions of lev.fs: how many arguments each reads, and the index   *)
(* at which it looks for a callback.  A caller puts it after the arguments.*)
(***************************************************************************)
Fn(name, nargs, index) == [name |-> name, nargs |-> nargs, index |-> index]

AttributeFunctions ==
  {Fn("close", 1, 2), Fn("chmod", 2, 3), Fn("chown", 3, 4), Fn("fchmod", 2, 3),
   Fn("fchown", 3, 4), Fn("fdatasync", 1, 2), Fn("fsync", 1, 2), Fn("futime", 3, 4)}

ContentFunctions ==
  {Fn("mkdir", 2, 3), Fn("read", 4, 5), Fn("write", 4, 4), Fn("ftruncate", 2, 3)}

NameFunctions ==
  {Fn("link", 2, 3), Fn("readdir", 1, 2), Fn("readlink", 1, 2), Fn("symlink", 2, 3),
   Fn("rename", 2, 3), Fn("rmdir", 1, 2), Fn("fstat", 1, 2), Fn("lstat", 1, 2),
   Fn("stat", 1, 2), Fn("unlink", 1, 2), Fn("utime", 3, 4), Fn("open", 3, 4)}

FsFunctions == {Fn("exists", 1, 2)} \cup AttributeFunctions \cup ContentFunctions \cup NameFunctions

HostQueries == {"resolve4", "resolve6"}
AddressLookups == {"lookup", "lookupFamily"}
RecordQueries == {"resolveMx", "resolveTxt", "resolveNs", "resolveSrv", "resolveCname"}
DnsFunctions == HostQueries \cup AddressLookups \cup RecordQueries \cup {"reverse", "resolve"}

(* A call: of which function, with a callback or not, inside a coroutine   *)
(* or not.  lev.dns.resolve stands for a call that names no record type.   *)
Jobs == [fn : {f.name : f \in FsFunctions} \cup DnsFunctions \cup {"readFile"},
         cb : BOOLEAN, co : BOOLEAN]

ASSUME RequestAssumption ==
  /\ None \notin Tasks
  /\ Workloads \subseteq [Tasks -> Jobs]
  /\ MaxFd \in Nat

VARIABLES
  job,      \* what each task does
  pc,       \* the request it has reached: 0 before the first, Done at the end
  holder,   \* the request holders of each task
  told,     \* the answers each task has been given
  fds,      \* the descriptor table: who opened each descriptor
  localfd,  \* the descriptor that readFile's callbacks know,
  fd,       \* and the global variable of readFile without a callback
  running   \* the task that has the Lua interpreter

vars == <<job, pc, holder, told, fds, localfd, fd, running>>

Done == 5
Fds == 1 .. MaxFd

(* stage: "none", "queued", "worked" (the system is done with it),         *)
(* "callback" (its callback runs), "over", "lost" (the call failed after   *)
(* the reference was taken) or "collected".                                *)
NoHolder == [stage |-> "none", refCount |-> 0, fd |-> 0, err |-> FALSE, val |-> 0]

Script(t) == IF job[t].fn = "readFile" THEN <<"stat", "open", "read", "close">> ELSE <<job[t].fn>>

Op(t) == Script(t)[pc[t]]

IsDns(t) == job[t].fn \in DnsFunctions

(* lua_isfunction(L, index + 1) *)
HasCallback(t, op) ==
  job[t].cb /\ \E f \in FsFunctions : f.name = op /\ f.index = f.nargs + 1

Async(t, op) == HasCallback(t, op) \/ job[t].co

(* fs.exists has a return of its own: with a callback and outside a        *)
(* coroutine it does not keep its answer for the callback.                 *)
Hasty(t) == job[t].fn = "exists" /\ job[t].cb /\ ~job[t].co

(* The interpreter is back in the event loop. *)
InLoop == running = None /\ \A t \in Tasks, k \in 1 .. 4 : holder[t][k].stage # "callback"

-----------------------------------------------------------------------------
(***************************************************************************)
(* What the task does with the outcome of its k-th request.  readFile      *)
(* stops at the first error and leaves the descriptor as it is; with       *)
(* callbacks it answers before it closes, and nobody hears how that went.  *)
(***************************************************************************)
Answers(t, k, err) ==
  IF job[t].fn = "readFile" /\ job[t].cb THEN k < 4 /\ (err \/ k = 3)
                                         ELSE err \/ k = Len(Script(t))

Continue(t, k, err, val, how) ==
  LET ends == err \/ k = Len(Script(t))
  IN /\ pc' = [pc EXCEPT ![t] = IF ends THEN Done ELSE k + 1]
     /\ running' = IF ends THEN None ELSE t
     /\ told' = IF Answers(t, k, err) THEN [told EXCEPT ![t] = Append(@, [how |-> how, err |-> err])]
                                      ELSE told
     /\ \/ /\ job[t].fn = "readFile" /\ k = 2 /\ job[t].cb
           /\ localfd' = [localfd EXCEPT ![t] = val] /\ UNCHANGED fd
        \/ /\ job[t].fn = "readFile" /\ k = 2 /\ ~job[t].cb
           /\ fd' = val /\ UNCHANGED localfd
        \/ /\ job[t].fn # "readFile" \/ k # 2
           /\ UNCHANGED <<fd, localfd>>

(* Faulty variant: the callbacks use the global variable, too. *)
Descriptor_global(t) == IF job[t].fn = "readFile" /\ pc[t] \in {3, 4} THEN fd ELSE 0

(* The descriptor passed to read and close. *)
Descriptor(t) ==
  IF job[t].fn = "readFile" /\ pc[t] \in {3, 4} THEN IF job[t].cb THEN localfd[t] ELSE fd ELSE 0

(* The system calls.  open returns the lowest free descriptor, read and    *)
(* close want one that is open.  fds is the table after the call.          *)
Succeeds(t, k, f, val) ==
  LET op == Script(t)[k]
  IN IF job[t].fn # "readFile" \/ op = "stat" THEN val = 0 /\ UNCHANGED fds
     ELSE \/ /\ op = "open"
             /\ val \in Fds /\ fds[val] = None /\ \A g \in 1 .. val - 1 : fds[g] # None
             /\ fds' = [fds EXCEPT ![val] = t]
          \/ /\ op = "read" /\ f # 0 /\ fds[f] # None
             /\ val = 0 /\ UNCHANGED fds
          \/ /\ op = "close" /\ f # 0 /\ fds[f] # None
             /\ val = 0 /\ fds' = [fds EXCEPT ![f] = None]

Fails(t, k, f) ==
  LET op == Script(t)[k]
  IN /\ op # "exists"
     /\ \/ op \in CanFail
        \/ IsDns(t) /\ "dns" \in CanFail
        \/ job[t].fn = "readFile" /\ op = "open" /\ \A g \in Fds : fds[g] # None
        \/ job[t].fn = "readFile" /\ op \in {"read", "close"} /\ (f = 0 \/ fds[f] = None)
     /\ UNCHANGED fds

(* A request ends with push_results: an error, or nil and a value. *)
push_results(t, k, f, err, val) ==
  \/ ~err /\ Succeeds(t, k, f, val)
  \/ err /\ val = 0 /\ Fails(t, k, f)

-----------------------------------------------------------------------------
(* The program makes the call; the interpreter is the task's until it      *)
(* waits or ends.                                                          *)
start(t) ==
  /\ InLoop /\ pc[t] = 0
  /\ pc' = [pc EXCEPT ![t] = 1]
  /\ running' = t
  /\ UNCHANGED <<job, holder, told, fds, localfd, fd>>

(* Faulty variant: a coroutine's request is not anchored. *)
FSR__SET_OPT_CB_cb(t) ==
  [NoHolder EXCEPT !.stage = "queued", !.refCount = IF job[t].cb THEN 1 ELSE 0, !.fd = Descriptor(t)]

(* FSR__SET_OPT_CB: with a callback, or in a coroutine, the holder is      *)
(* anchored in the registry and the request goes to the thread pool.       *)
FSR__SET_OPT_CB(t) ==
  [NoHolder EXCEPT !.stage = "queued", !.refCount = 1, !.fd = Descriptor(t)]

(* A function of lev.fs, to the return or the yield of FSR__TEARDOWN. *)
fs_async(t) ==
  /\ running = t /\ ~IsDns(t) /\ ~Hasty(t) /\ Async(t, Op(t))
  /\ holder' = [holder EXCEPT ![t][pc[t]] = FSR__SET_OPT_CB(t)]
  /\ running' = None
  /\ UNCHANGED <<job, pc, told, fds, localfd, fd>>

(* The boolean of fs.exists is pushed before the system has looked: the    *)
(* result of a request under way is not -1 (external), so it is true.      *)
Presumed == [how |-> "returned", err |-> FALSE]

fs_exists(t) ==
  /\ running = t /\ Hasty(t)
  /\ holder' = [holder EXCEPT ![t][pc[t]] = FSR__SET_OPT_CB(t)]
  /\ told' = [told EXCEPT ![t] = Append(@, Presumed)]
  /\ running' = None
  /\ UNCHANGED <<job, pc, fds, localfd, fd>>

fs_sync(t) ==
  /\ running = t /\ ~IsDns(t) /\ ~Async(t, Op(t))
  /\ \E err \in BOOLEAN, val \in 0 .. MaxFd :
       /\ push_results(t, pc[t], Descriptor(t), err, val)
       /\ Continue(t, pc[t], err, val, "returned")
  /\ holder' = [holder EXCEPT ![t][pc[t]] = [NoHolder EXCEPT !.stage = "over"]]
  /\ UNCHANGED job

(* The thread pool or the resolver does the k-th request of t. *)
uv_work(t, k) ==
  /\ holder[t][k].stage = "queued"
  /\ \E err \in BOOLEAN, val \in 0 .. MaxFd :
       /\ push_results(t, k, holder[t][k].fd, err, val)
       /\ holder' = [holder EXCEPT ![t][k].stage = "worked", ![t][k].err = err, ![t][k].val = val]
  /\ UNCHANGED <<job, pc, told, localfd, fd, running>>

(* Faulty variant: a callback given inside a coroutine is forgotten. *)
on_fs_callback_co(t, k) ==
  /\ InLoop /\ holder[t][k].stage = "worked" /\ ~IsDns(t)
  /\ holder' = [holder EXCEPT ![t][k].stage = "callback"]
  /\ Continue(t, k, holder[t][k].err, holder[t][k].val, IF job[t].co THEN "resumed" ELSE "called")
  /\ UNCHANGED <<job, fds>>

(* The callback is called, or the coroutine resumed, and goes on with the  *)
(* task; on_exists_callback looks at the coroutine only.                   *)
on_fs_callback(t, k) ==
  /\ InLoop /\ holder[t][k].stage = "worked" /\ ~IsDns(t)
  /\ holder' = [holder EXCEPT ![t][k].stage = "callback"]
  /\ Continue(t, k, holder[t][k].err, holder[t][k].val,
              IF ~job[t].co \/ (HasCallback(t, Script(t)[k]) /\ job[t].fn # "exists")
                THEN "called" ELSE "resumed")
  /\ UNCHANGED <<job, fds>>

(* It has returned or yielded: uv_fs_req_cleanup and lev_handle_unref. *)
after_fs_callback(t, k) ==
  /\ running = None /\ holder[t][k].stage = "callback"
  /\ holder' = [holder EXCEPT ![t][k].stage = "over", ![t][k].refCount = @ - 1]
  /\ UNCHANGED <<job, pc, told, fds, localfd, fd, running>>

-----------------------------------------------------------------------------
(* lev_new_dns.c.  Every function anchors the holder first.                *)
DNSR__SET_CB == [NoHolder EXCEPT !.stage = "queued", !.refCount = 1]

dns_query(t) ==
  /\ running = t /\ job[t].fn \in DnsFunctions \ {"resolve"}
  /\ holder' = [holder EXCEPT ![t][1] = DNSR__SET_CB]
  /\ running' = None
  /\ UNCHANGED <<job, pc, told, fds, localfd, fd>>

(* uv_getaddrinfo fails, or the address to reverse is none: the call       *)
(* returns the error and the reference stays.                              *)
dns_call_fails(t) ==
  /\ running = t /\ job[t].fn \in AddressLookups \cup {"reverse"}
  /\ "dns" \in CanFail
  /\ holder' = [holder EXCEPT ![t][1] = [DNSR__SET_CB EXCEPT !.stage = "lost"]]
  /\ Continue(t, 1, TRUE, 0, "returned")
  /\ UNCHANGED <<job, fds>>

(* c-ares may call back from within the query: the callback runs and the   *)
(* reference is given back before the function returns.                    *)
dns_call_answered(t) ==
  /\ running = t /\ job[t].fn \in HostQueries \cup RecordQueries \cup {"reverse"}
  /\ \E err \in BOOLEAN :
       /\ err => "dns" \in CanFail
       /\ Continue(t, 1, err, 0, "called")
  /\ holder' = [holder EXCEPT ![t][1] = [DNSR__SET_CB EXCEPT !.stage = "over", !.refCount = 0]]
  /\ UNCHANGED <<job, fds>>

(* dns_resolve drops its second argument even if that is the callback, and *)
(* set_callback raises an error.                                           *)
dns_resolve(t) ==
  /\ running = t /\ job[t].fn = "resolve"
  /\ holder' = [holder EXCEPT ![t][1] = [NoHolder EXCEPT !.stage = "over"]]
  /\ Continue(t, 1, TRUE, 0, "raised")
  /\ UNCHANGED <<job, fds>>

(* The callbacks: one call of the Lua callback, whatever failed on the     *)
(* way, and then DNSR__DISPOSE.                                            *)
Dispose(t, fns, err) ==
  /\ InLoop /\ holder[t][1].stage = "worked" /\ job[t].fn \in fns
  /\ holder' = [holder EXCEPT ![t][1].stage = "over", ![t][1].refCount = @ - 1]
  /\ Continue(t, 1, err, 0, "called")
  /\ UNCHANGED <<job, fds>>

on_resolve_host(t) == Dispose(t, HostQueries, holder[t][1].err)

on_lookup_family(t) == Dispose(t, AddressLookups, holder[t][1].err)

on_reverse(t) == Dispose(t, {"reverse"}, holder[t][1].err)

(* Faulty variant: a reply that does not parse is not reported. *)
on_resolve_record_silent(t) ==
  /\ InLoop /\ holder[t][1].stage = "worked" /\ job[t].fn \in RecordQueries
  /\ holder' = [holder EXCEPT ![t][1].stage = "over", ![t][1].refCount = @ - 1]
  /\ \/ Continue(t, 1, holder[t][1].err, 0, "called")
     \/ "dns" \in CanFail /\ pc' = [pc EXCEPT ![t] = Done] /\ UNCHANGED <<told, fd, localfd, running>>
  /\ UNCHANGED <<job, fds>>

(* A reply that arrived may still not parse. *)
on_resolve_record(t) ==
  \E unparsed \in BOOLEAN :
    /\ unparsed => "dns" \in CanFail
    /\ Dispose(t, RecordQueries, holder[t][1].err \/ unparsed)

(* The collector takes a holder that the registry does not anchor. *)
collect(t, k) ==
  /\ holder[t][k].stage \in {"queued", "worked", "over"} /\ holder[t][k].refCount = 0
  /\ holder' = [holder EXCEPT ![t][k].stage = "collected"]
  /\ UNCHANGED <<job, pc, told, fds, localfd, fd, running>>

-----------------------------------------------------------------------------
Init ==
  /\ job \in Workloads
  /\ pc = [t \in Tasks |-> 0]
  /\ holder = [t \in Tasks |-> [k \in 1 .. 4 |-> NoHolder]]
  /\ told = [t \in Tasks |-> <<>>]
  /\ fds = [f \in Fds |-> None]
  /\ localfd = [t \in Tasks |-> 0]
  /\ fd = 0
  /\ running = None

FsNext(t) ==
  \/ fs_async(t) \/ fs_exists(t) \/ fs_sync(t)
  \/ \E k \in 1 .. 4 : on_fs_callback(t, k) \/ after_fs_callback(t, k)

DnsNext(t) ==
  \/ dns_query(t) \/ dns_call_fails(t) \/ dns_call_answered(t) \/ dns_resolve(t)
  \/ on_resolve_host(t) \/ on_lookup_family(t) \/ on_reverse(t) \/ on_resolve_record(t)

(* What the event loop, the thread pool and the resolver do by themselves. *)
Work ==
  \E t \in Tasks :
    \/ FsNext(t) \/ DnsNext(t)
    \/ \E k \in 1 .. 4 : uv_work(t, k)

Next ==
  \/ Work
  \/ \E t \in Tasks : start(t) \/ \E k \in 1 .. 4 : collect(t, k)

Spec == Init /\ [][Next]_vars

(* The process goes on as long as it has something to do.  Nothing is said *)
(* about the order in which requests are served.                           *)
FairSpec == Spec /\ WF_vars(Work)

-----------------------------------------------------------------------------
(* lev_handle_ref "needs to be called when an async function is started":  *)
(* while the pool, the resolver or a callback uses a holder, and the       *)
(* buffer that only its continuation knows, the collector cannot take it;  *)
(* afterwards nothing keeps it but a dns call that failed at once.         *)
HoldersAreHeld ==
  \A t \in Tasks, k \in 1 .. 4 :
    LET h == holder[t][k]
    IN /\ h.refCount = (IF h.stage \in {"queued", "worked", "callback", "lost"} THEN 1 ELSE 0)
       /\ h.stage = "lost" => IsDns(t) /\ told[t] = <<[how |-> "returned", err |-> TRUE]>>
       /\ k < pc[t] /\ pc[t] < Done => h.stage \in {"callback", "over", "collected"}

(* Each call is answered at most once and in the way it asked for, except  *)
(* that fs.write looks for its callback one index too early, that a dns    *)
(* call may fail at once, that dns.resolve wants a record type, and that   *)
(* fs.exists with a callback answers twice: it returns a boolean that says *)
(* nothing about the file, and calls the callback, too.                    *)
AnsweredAsAsked ==
  \A t \in Tasks :
    /\ Len(told[t]) <= (IF Hasty(t) THEN 2 ELSE 1)
    /\ Hasty(t) => \A i \in 1 .. Len(told[t]) : told[t][i].how = <<"returned", "called">>[i]
    /\ told[t] # <<>> /\ job[t].fn # "write" /\ ~Hasty(t) =>
         told[t][1].how \in
           CASE job[t].fn = "resolve" -> {"raised"}
             [] IsDns(t) /\ job[t].fn # "resolve" -> IF told[t][1].err THEN {"called", "returned"} ELSE {"called"}
             [] ~IsDns(t) /\ job[t].cb -> {"called"}
             [] ~IsDns(t) /\ ~job[t].cb -> IF job[t].co THEN {"resumed"} ELSE {"returned"}

(* readFile reads and closes the descriptor it has opened, and an open     *)
(* descriptor still has a readFile that will close it, unless its read     *)
(* failed: readFile then returns without a close.                          *)
DescriptorsAreClosed ==
  /\ \A t \in Tasks :
       job[t].fn = "readFile" /\ pc[t] \in {3, 4} /\ holder[t][4].stage \in {"none", "queued"} =>
         Descriptor(t) # 0 /\ fds[Descriptor(t)] = t
  /\ \A f \in Fds : fds[f] # None =>
       \/ pc[fds[f]] \in 2 .. 4
       \/ "read" \in CanFail /\ pc[fds[f]] = Done /\ told[fds[f]][1].err
       \/ "close" \in CanFail /\ pc[fds[f]] = Done

(* Every call that is made is answered, fs.exists with a callback in both  *)
(* ways, and lets go of its holders.                                       *)
CallsAreAnswered ==
  \A t \in Tasks :
    pc[t] # 0 ~> /\ Len(told[t]) = (IF Hasty(t) THEN 2 ELSE 1) /\ pc[t] = Done
                 /\ \A k \in 1 .. 4 : holder[t][k].stage \in {"none", "over", "lost", "collected"}

(* test.is_nil(err) in tests/test-fs-write-read.lua: a file that can be    *)
(* opened and read is read.                                                *)
ReadFileSucceeds ==
  \A t \in Tasks : job[t].fn = "readFile" /\ told[t] # <<>> => ~told[t][1].err
=============================================================================
