# A verification project for lev

lev is an event-driven Lua runtime: a C core on libuv (`src/src/`) and a Lua
library (`src/lib/lev/`). A master process spawns one worker per core; each
process runs one LuaJIT state on one libuv loop. This directory holds TLA+
models of its core, the TLC runs that check them on small instances, and proofs
that TLAPS checks for every value of the constants. `PROJECT.json` maps every
definition to the lines it models and lists runs, mutants, hazards, findings and
theorems.

## The system

| Part | State | Operations | Talks to |
|---|---|---|---|
| slab allocator (`lev_slab.c`) | a free list per size class; refcount and nbytes of each MemBlock | getBlock, incRef, decRef, fill | everything that holds bytes |
| cBuffer (`lev_new_buffer.c`) | MemSlice userdata: block, offset, length; a static block that small buffers are carved from | new, slice, concat, `buf[i] = str`, `__gc` | slab, Lua's collector |
| read path, references (`lev_new_base.c`) | the static block that libuv reads into; refCount of each handle | on_alloc, pushbuffer_from_static_mb, handle_ref/unref, push_callback | slab, every handle |
| handles: TCP, pipe, UDP, timer (`lev_new_*.c`) | the libuv handle, its references, write requests | open, read, write, close and their callbacks | libuv, the program, the collector |
| MessagePack (`lev_mpack.c`) | the streaming unpacker: buffer, stack of unfinished values, count | pack, unpack, feed, pull | slab, IPC |
| IPC (`_master.lua`, `_worker.lua`, `net.lua`) | worker pools, bound sockets; queue, request ids, callbacks | hello, bind, broadcast, reply | pipes, MessagePack |
| supervision (`lev_main.c`) | number of workers, exit code | spawn, on_exit | processes |
| requests (`lev_new_fs.c`, `lev_new_dns.c`) | request holders; the descriptor of readFile | start, callback, resume | libuv's threads, c-ares |
| web (`lhttp_parser.c`, `web.lua`) | parser, request and response of a connection | parser callbacks; writeHead, write, fin | TCP handle, the program |
| emitter (`callbox.lua`), JSON (`lev_new_json.c`) | listeners; none | on, call, removeListener; encode, decode | programs |

Each process has one thread that runs Lua and the C functions it calls to
completion, so an operation or a callback is one action. What interleaves is the
program's calls, libuv's callbacks, the finaliser of unreachable userdata (which
may run at any allocation) and, between processes, packets in pipes and deaths.

What is hard to get right, and what the properties are about:

- blocks are shared by slices, unions, appends, reads and unpacked messages, and
  released by the collector in any order;
- a handle's userdata must outlive libuv's work on it, which the code ensures by
  counting references, by a different rule for TCP than for the other handles;
- close can come from the program, from the peer and from a failed read, and
  takes two or three callbacks to complete;
- workers queue messages before they are connected, several packets share one
  read, one descriptor is shown to all packets of a read, and workers die;
- a file or DNS call is answered by its return, its callback or its coroutine,
  and its holder must live exactly until then, whatever fails on the way;
- the streaming unpacker counts values that it does not decode, from reads that
  are cut anywhere;
- all requests of an HTTP connection share one parser, one pair of upvalues and
  one bottle of unflushed output, and the program answers whenever it likes.

## Modules

**LevMem** models the slab, the cBuffers and the other users of the slab.
`mem` is the MemBlocks and free lists, `ms` the MemSlice of each userdata,
`newStatic` and `readStatic` the two static pointers named `_static_mb`. There is
one action per operation that makes, moves, shares, resizes or releases a
MemSlice. Bytes are not modelled: a cBuffer is a range of its block. nbytes and
sizes are compared as the code does, with unsigned subtraction modulo `Word`.
The lengths a program and its peers supply are constants (`NewSizes`, `StrLens`,
`StoreLens`, `PackSizes`, `RawLens`, `Lookups`), so that a run can include or
exclude awkward ones. `MCLevMem` instantiates it with two size classes.

**LevTcp** is one `lev.tcp` handle: `self` is the tcp_obj (refCount, bottle mode
and the unflushed request), `uv` the libuv handle, `strings` the copies
tcp_write has malloc'd, `sent` what is on the wire. A TCP handle has one
reference per connection; reads and writes take none.

**LevHandles** is one pipe, UDP or timer handle. These take a reference per
operation. `kept` counts the references that no callback gives back (bind,
listen, read_start, recv_start, start); the close callback gives back one of
them, so a handle that was started twice is never collected. The count is what
the code does, and `RefCountIsExact` states it.

**LevIpc** is the master and its workers. `wk` holds the locals of each
`_worker.lua`, `up` and `down` the two directions of each pipe, `wbuf` and `mbuf`
what a read handler has still to process, the rest the tables of `_master.lua`.
A read hands over any number of packets, which the handler takes one at a time;
callbacks run in between. The packets are whole, although a read takes what is
left of a block that was asked for with 8192 bytes (`lev_new_base.c:28`), so that
many small ones or a large broadcast can be cut (see "Not modelled"). A
reply to "bind" carries a descriptor. The broadcast subscriptions of a key are a
set: the code keeps a list, and calls each of its members. `sup` is the
supervisor in `lev_main.c`: how each worker ended, which ends worker__on_exit has
seen, the number of workers left and the exit code. The exit of a worker and the
end of file on its pipe are reported in either order, and the master ends with
its last worker. `MCLevIpc` adds the symmetry.

**LevObject** is what `lev_new_base.c` promises of a handle: it is created, it
starts and finishes work, it is closed once and nothing starts afterwards, and it
is collected only when libuv has no business with it. It knows nothing of
reference counts. LevTcp and LevHandles implement it with `busy` as "libuv will
call back" and `closed` as "the close callback has run" (`IsObject`); that the
two count references by different rules disappears in the mapping.

**LevRequests** is any number of tasks, each one call of a function of `lev.fs` or
`lev.dns` (all of them are in the tables at its head, with the index at which
they look for a callback) or of readFile, whose script is four requests. `holder`
is the userdata of each request from the call to its collection, `fds` the
descriptor table, `fd` the global variable that readFile without a callback
assigns. A synchronous call is one action; an asynchronous one is queued, worked
on by the thread pool or the resolver, called back, and released after the
callback. `fs.exists` has a return of its own (`fs_exists`, `Hasty`): with a
callback, outside a coroutine, it returns true before the system has looked, and
calls back as well. `MCLevRequests` chooses the workloads.

**LevMpack** is the codec on sequences of bytes, and a sender and a receiver that
uses the streaming unpacker. `mpwbuf_pack_anytype` and `mprbuf_unpack_anytype`
are the encoder and the decoder case by case; `FeedFrom` and `unpacker_*` are the
unpacker with its stack. The decoder also says how many values a failing branch
leaves on the Lua stack. 64-bit and floating-point numbers stay the bytes of
their encoding. The module is recursive and only TLC uses it.

**LevWeb** is one connection of `web.createServer`. `input` is what the client has
sent, cut by reads anywhere; `parser` the http_parser behind `lhttp_parser.c`; `s`
the connection with the upvalues of the closure (the headers' `connection`,
`upgrade`, `response`) and the lev.tcp handle reduced to its bottle; `at` is where
Lua is, so that the program can answer from within onRequest or onData or later;
`todo` is what the program has still to answer. An error that Lua raises in a
callback ends the worker, because the callbacks are called without protection. A
URL is two elements, so that a read can cut it, and is plain or one that parseUrl
refuses (of a CONNECT request, or with a port above 65535); of a cut URL parseUrl
may take or refuse either half. Servers have an `onData` or none. Of the handle's
close the module keeps what the program can meet: the shutdown, the time between
uv_close and its callback (`closing`), and the reference of the connection
(`refs`), which a second close in that time gives back too early. A token stands
for any number of calls of `client:write`, so the automatic flush of 16 chunks
(`lev_new_tcp.c:369`) is not in this module but in LevTcp.

**LevMemProofs**, **LevMemCleanProofs** (which builds on it), **LevHandlesProofs**,
**LevTcpProofs**, **LevIpcProofs**, **LevRequestsProofs** and **LevWebProofs** hold
the theorems and their proofs. Each extends the module it is about.

Definitions whose names end in a suffix such as `_twice`, `_unref` or `_kept` and
whose comment says "Faulty variant" are the mutants that `PROJECT.json` refers
to; no specification uses them.

### What is assumed of libuv

libuv is a submodule and its source is not in the repository, so its behaviour
is taken from how the code uses it (uv_buf_t returned by on_alloc and nread = -1
on errors put it before version 0.11):

- a request that was accepted is called back once; uv_close ends all requests of
  a handle before its own callback; a shutdown waits for the write queue;
- uv_shutdown fails on a stream that is not connected; of two shutdowns on one
  pipe only the later request is called back;
- a failed connect leaves the descriptor in place; uv_timer_start on an active
  timer restarts it; a second uv_udp_recv_start fails;
- the thread pool serves requests in any order; c-ares may call back from within
  the query;
- http_parser calls back in the order of the message, reports an end inside a
  message as an error, and after an upgrade request parses no further;
- accepted_fd shows the descriptor that came with the bytes of a read, and
  descriptors arrive in the order they were sent in.

The program is arbitrary within constants that name its discipline: `CloseWhen`
and `WriteWhen` are the phases in which it calls close and write. It does not
call a method of a handle that is closing, other than close on a TCP handle.

## Runs

| Run | Shows | Bounds |
|---|---|---|
| mem_safety | the block that a cBuffer or a static pointer refers to between two operations is neither freed nor shelved, and no block is shelved twice, with empty buffers, empty raws, overflowing stores and unknown users too (what one operation reads between its own steps is outside) | 3 blocks, 2 userdata, classes of 2 and 4 bytes, pool of 1 each |
| mem_clean | without these inputs: no leak, cBuffers stay inside their blocks, an append touches no other cBuffer | 3 blocks, 3 userdata |
| mem_grow | a finding, see below | 3 blocks, 2 userdata |
| tcp_life | references, copies of strings, order on the wire, completion of close, the refinement of LevObject, for a program that closes and writes only while the handle is open | 2 chunks per request, 4 writes |
| handles_life | references of pipe, UDP and timer handles, completion of close and the refinement of LevObject, for a program that closes what it started | 4 kept references, 3 requests |
| ipc_safety | hello first, broadcasts in order and at most once, every callback awaits exactly one answer, one socket per address | 2 workers, 2 tcp addresses, 1 of another type, 2 messages each |
| ipc_live | requests are answered, broadcasts are heard, dead workers are forgotten, failures are reported | 2 workers that end well, fail or crash, 1 address, 1 message each |
| requests | holders live as long as they are used, each call is answered once and as it asked (fs.exists with a callback outside a coroutine: twice), readFile closes what it opened, every call is answered | 2 calls: readFile in each form beside every other function in each form, 2 descriptors |
| readfile | a finding | 2 coroutines |
| mpack | count and decoder agree however the stream is cut; values arrive in order; unpack undoes pack; the receiver never gets stuck | 2 messages of up to 36 bytes, both sides of every boundary below 2^16 elements, pieces of 1 to 7 bytes, a stack of 3 |
| mpack_cut | a finding | 1 message |
| web | responses are framed, in order, complete and flushed; nothing of the input is lost; the worker goes down in three named cases only; requests are answered | 2 requests with plain and refused URLs cut anywhere, bodies of up to 2 pieces, 2 writes each, sequential and pipelined clients, clients that leave, servers with and without onData |

Why the bounds are enough for the cases of interest. In LevMem, two classes
suffice for a request to skip one, a pool of one block for decRef to meet a full
and an empty pool, blocks of 2 and 4 bytes for a buffer to fill, half-fill and
overflow its block; three userdata allow a slice, its parent and a third party on
one block. In LevTcp, two chunks per request make both the unflushed and the
just-full request happen. In LevHandles, every operation that keeps a reference
can come twice, and the proofs remove the bounds. In LevIpc, two workers race
for one address, two addresses make a reply that could be taken for another, and
two messages each fill the queue, arrive in one read, or both. In LevRequests two
calls are all it takes to share the global variable, the descriptor table and
the interpreter; the second is each function in turn. In LevMpack the second
message shows that the first left the unpacker in order; a stack of 3 instead of
256 makes it overflow. In LevWeb the second request meets what the first left in
parser, upvalues and bottle.

Deadlock is not checked: programs end, handles are collected, and a worker whose
messages are all served is done.

### Fairness

`FairSpec` gives weak fairness to the callbacks of requests that libuv has
accepted and to handlers that are under way: the loop does not return from
uv_run before they are served. In LevIpc the master's events get strong fairness:
an event of one client is disabled while the master is busy with another's
packets, and the loop polls all descriptors again afterwards. In LevHandles the
shutdown of a pipe gets strong fairness, since libuv looks for it whenever its
write queue drains; `CloseCompletes` is conditional on the queue draining again
and again, because a program may keep writing to a pipe that is shutting down.
In LevRequests the pool, the resolver and the loop get weak fairness as one: the
process goes on while it has something to do. In LevWeb the program, too, is
fair: it answers every request in the end, since nothing else would.
Otherwise no fairness is assumed of the program, of its sends, or of deaths. A worker's
connection to the master may fail; then the code never tries again, and
`RequestsAreAnswered` excepts it.

## Theorems

Proved by TLAPS, for every value of the constants that satisfies their `ASSUME`s:
any number of blocks and userdata, any size classes in ascending order, any
lengths; any bounds on requests, chunks and writes; any number of workers,
addresses, keys and messages; any number of file and DNS calls; any number of
requests on a connection, pieces of their bodies and writes. A theorem that
needs more assumes a discipline of the program, named in the table. The last
column says what the hypothesis excludes; the table of disciplines below shows
what happens without it.

| Module | Theorem | Property | Assumes |
|---|---|---|---|
| LevMemProofs | `TypeCorrect` | `TypeOK` | |
| | `NoUseAfterFree` | `OwnedBlocksAreHeld` | |
| | `NoDoubleFree` | `FreeListsAreSound` | |
| LevMemCleanProofs | `NoLeak` | `EveryBlockHasItsOwners` | `CleanInputs`: no empty buffer or raw, no store past the end, no unknown user |
| | `SlicesAreInside` | `SlicesStayInside` | the same |
| | `BlocksAreNotOverfilled` | `NbytesWithinBlock` | the same |
| | `AppendsAreDisjoint` | `AppendTouchesNoOther` | the same |
| LevHandlesProofs | `TypeCorrect` | `TypeOK` | |
| | `CountsAreExact` | `RefCountIsExact` | |
| | `NeverCollectedEarly` | `ActiveIsReferenced`, the assertion `refCount >= 0` | never closes an idle handle |
| | `Implements` | `IsObject` | the same |
| LevTcpProofs | `TcpTypeCorrect` | `TypeOK` | |
| | `TcpCountIsExact` | `RefCountIsExact` | closes only handles with a descriptor |
| | `TcpStringsAreOwned` | `StringsAreOwned` | writes only to handles with a descriptor |
| | `TcpWireInOrder` | `WireInOrder` | writes only to open or failed handles |
| | `TcpImplements` | `IsObject` | closes only handles with a descriptor, writes to none that is pending or failed |
| LevIpcProofs | `IpcTypeCorrect` | `TypeOK` | |
| | `IpcHelloComesFirst` | `HelloComesFirst` | |
| | `IpcCallbacksAreAwaited` | `CallbacksAreAwaited` | |
| | `IpcOneSocketPerAddress` | `OneSocketPerAddress` | |
| | `IpcBroadcastsInOrder` | `BroadcastsInOrder` | |
| | `IpcFailuresAreReported` | `FailuresAreReported` | |
| LevRequestsProofs | `RequestsHoldersAreHeld` | `HoldersAreHeld` | |
| | `RequestsAnsweredAsAsked` | `AnsweredAsAsked` | no `exists` with a callback inside a coroutine |
| | `RequestsDescriptorsAreClosed` | `DescriptorsAreClosed` | at most one readFile without a callback |
| LevWebProofs | `WebWellFramed` | `WellFramed` | `Awkward` contains "abort" at most, as in the run |
| | `WebNothingLeftBottled` | `NothingLeftBottled` | the same |
| | `WebNothingIsSkipped` | `NothingIsSkipped` | the same |
| | `WebWorkerSurvives` | `WorkerSurvives` | the same |

*LevMem.* `OwnedBlocksAreHeld` alone is not inductive: releasing a block says
nothing of the free lists it enters. The invariant `IInv` conjoins the types, a
sound slab (`SlabOK`: free lists bounded, without repetitions, disjoint from the
blocks in use), `Covers` (the refcount of each block is at least its number of
owners) and `ReadOK` (the block of a read under way has no owner yet). The proof
has a lemma per slab operation (getBlock returns a block nobody owns; incRef and
decRef move one owner), lemmas that count owners as userdata are made, moved and
finalised, and a lemma per operation of the system.

*LevMem with clean inputs.* Refcounts may exceed the owners because setuid leaks
its block for an unknown user; without that input they are equal (`Exact`). The
other properties need each other: an append is disjoint from the cBuffers that
exist because these end before nbytes, and they do because nbytes never passes
the block. `Clean(m, f, st, P)` says all of it of a slab `m`, the userdata `f`, the
static block `st` and the blocks `P` that are in use and not yet owned; as it has
the state as parameters it can be followed through the several slab operations of
one call. The invariant is `IInv` with `Clean`, and every step is shown to keep
it and to append properly. TLC has checked that leaving out any one of the four
conditions of `CleanInputs` breaks one of the properties.

*LevHandles.* `RefCountIsExact` becomes inductive with `ClosedOnce` (a closed
handle has nothing under way) and `NotBorn`. `ActiveIsReferenced` follows from
it and `Order`: whatever is active, repeating, shut down or closed has a kept
reference, and only connected pipes are read, shut down or closed. For
`Implements`, `StepKinds` sorts the actions into those that create, work on,
close or collect the handle and those that LevObject cannot see, and `StepObject`
maps each kind to a step of LevObject; that a collected handle is idle is
`ActiveIsReferenced`, that nothing starts after the close is `ClosedOnce`.

*LevTcp.* A TCP handle counts connections, so `RefCountIsExact` needs only the
order of a connection's life (`CountInv`: nothing before the handle exists, and
which of descriptor, connection, shutdown and close imply which). The refinement
needs more, because a queued write takes no reference: `ObjectInv` adds that only
a referenced connection has requests queued, which is what a write to a pending
or failed handle would break. `StringsInv` says which chunk is in which request,
each in one at most, and that the mask of a request marks its copied strings;
`WireInv` says that the wire, libuv's queue and the bottle are consecutive
intervals of the writes.

*LevIpc.* The proofs speak of two streams per worker, `outbox` (sent and not yet
served: the worker's queue, the pipe, the master's buffer) and `inbox` (the other
way), and every action does one of six things to them: a worker sends, connects,
takes or dies, the master serves, or nothing moves. The invariants build on each
other. `Base`: types, which ends of a pipe are open, and the number of workers
left, from which the exit code follows. `Greeted`: the hello leads the stream of
a worker the master does not know, and no other follows. `AwaitInv`: a slot of
`callbacks` is set if and only if one bind with its id is in the outbox or one
reply in the inbox, and ids are not reused. `SocketInv`: the descriptor of a reply
is the socket of the address that its callback asked for, and is the last one
received when the callback runs. `HearInv`: the broadcasts of a sender that a
worker has heard, will take or may still be served have ascending ids.

*LevRequests.* A step starts a task, or submits, works on, calls back, answers or
collects one holder of one task, so that all other tasks are untouched by it.
`TaskInv` says where a task is: the holders before the request it has reached are
done with, those behind it are not there, and it runs or waits for that one.
`AskInv` adds what its caller has been told, `FdInv` which open descriptors belong
to a readFile that has still to close them, and where it keeps them (a local of
the closure, the global variable, the request under way).

*LevWeb.* None of the four properties is inductive, and they need each other: an
answer keeps its place among the others because the program is given the next
request only after it, which holds because the parser is where the stream goes
on, and it stays there because `fin` reinitializes it only between two requests
or where it is starting anew anyway. `WebInv` is about three things: `Rest`, what
the parser has not seen; `Out`, what has been written; and `Current`, the request
at which both have met. `Script` says that `Rest` is the end of a well-formed
stream of requests; `Position` that the parser, as it will be when the callbacks
under way have returned, is where `Rest` begins, and that what was sent was seen
or is in `Rest`; `Turn` who may be ahead of whom (a sequential client is ahead of
the program by one request, a pipelining one by any number); `Recognised` that
keep-alive is known when a pipelined request is answered; `Shut` that the server
closes between two requests, and that an open connection has its one reference
and is not closing; `Framing` that `Out` is whole responses followed by
as much of the current one as the upvalue `response` and the bottle say. They hold
of an open connection. `Gone` is about a closed one: nothing is read any more, and
the program goes on with an answer only if the client has left, so that only then
can `fin` close the handle a second time; `Kept` shows what the calls leave alone
there. Of a worker that went down, only its cause and the framing of what it had
written are kept. The proof has lemmas on sequences of elements and tokens (what is
appended, cut off or joined), a lemma per method of the response that says what it
hands over (`Sends`), and a lemma per action. TLC has checked `WebInv` on an
instance with 2 requests. The assumption is as weak as it can be: each of the other
seven members of `Awkward` breaks one of the properties (see the table of
disciplines).

Only model-checked: the invariants of LevMpack (its decoder and encoder are
recursive, and what a recursive definition computes is beyond the prover) and
every liveness property (fairness and ENABLED are beyond the prover).

## Findings

- **nbytes passes the size of its block** (`mem_grow`, `lev_new_buffer.c:269`).
  Growth in place adds the whole length, not the difference.
- **readFile keeps its descriptor in a global variable** (`readfile`,
  `lev_new_fs.c:624`). `fd` is not declared local. Two coroutines that read files
  at once close each other's descriptor, and one of them fails.
- **unpack of a cut map stores into a foreign slot** (`mpack_cut`,
  `lev_mpack.c:449`). The loop over the pairs does not stop at an error and calls
  lua_rawset without a key and a value on the stack.

### Disciplines that the passing runs assume

Some inputs break a property, and the runs leave them out by a constant. Each can
be seen by setting the constant and running TLC again.

| Set | Breaks | Because |
|---|---|---|
| LevTcp, `CloseWhen = {"open", "closing"}` | `RefCountIsExact` | between uv_close and its callback the descriptor is -1, and another close gives the reference back at once (`lev_new_tcp.c:45`); the callback gives it back again and `assert(lhandle->refCount >= 0)` fails |
| LevHandles, `CloseWhen = {"idle"}` | `IsObject` | the close callback gives back a reference that only a started operation takes (`lev_new_udp.c:160`); the same assertion fails. `NeverCollectedEarly` and `Implements` assume the contrary |
| LevMem, `NewSizes` with 0 | `SlicesStayInside` | a length of 0 means the whole block (`lev_new_buffer.c:161`), also of one that others are carved from |
| LevMem, `RawLens` with 0 | `SlicesStayInside` | for the same reason an empty raw becomes a cBuffer that reaches past its block |
| LevMem, `StoreLens` not empty | `NbytesWithinBlock` | the finding of `mem_grow` |
| LevMem, `Lookups` with "unknown" | `EveryBlockHasItsOwners` | setuid leaks its scratch block for an unknown user (`lev_new_core.c:421`) |
| LevRequests, `Workloads` with `exists`, a callback and a coroutine | `AnsweredAsAsked` | on_exists_callback looks for a coroutine only (`lev_new_fs.c:245`) and resumes it instead of calling back |
| LevRequests, `Workloads` with two readFiles without a callback | `DescriptorsAreClosed` | the finding of `readfile` |
| LevMpack, a `Foreign` array, map or raw of 16-bit size 0 | `ResultnumIsExact` | "handle empty container" looks only at sizes in the header byte, so the unpacker waits for an element that never comes |
| LevWeb, `Awkward` with "late" | `WorkerSurvives` | an answer after the next request uses the next request's response and raises "headers already sent" |
| ... "early" | `WorkerSurvives`, `NothingIsSkipped` | fin before the body is complete reinitializes the parser in the middle of a message. So does fin in the onData that is given the last piece of the body, and onMessageComplete, which would come next, is empty (`web.lua:199`): a program learns of the end of a body by counting |
| ... "deaf" | `NothingIsSkipped` | a server without onData has its upgraded connections' data parsed as HTTP (`web.lua:206`) |
| ... "split" | `WorkerSurvives` | a header value in two reads is stored as its second half, so keep-alive is not recognised, the connection is closed, and the request behind it meets a closed handle or an unfinished parser |
| ... "eager" | `NothingIsSkipped` | data behind an upgrade request in the same read are dropped |
| ... "unflushed" | `NothingLeftBottled` | fin() after a bottled response of a given length flushes nothing, and neither does a bottled head that is all the answer to an upgrade request |
| ... "bare" | `WellFramed` | fin() without a head sends only the last chunk |

The properties themselves state a few more things that the code does: a client
that leaves inside a request ends the worker, because parser:finish raises in the
close callback (`WorkerSurvives`); so does a URL that is cut by a read or that
parseUrl refuses, because onUrl calls it on every piece and it raises
(`lhttp_parser.c:331`; `WorkerSurvives`, `RequestsAreAnswered`); so does an answer
to a client that has left, when fin closes a handle between uv_close and its
callback, or after it, and `assert(lhandle->refCount >= 0)` fails
(`WorkerSurvives`); fs.exists with a callback outside a coroutine answers twice, at
once by returning true and later by its callback (`lev_new_fs.c:275`;
`AnsweredAsAsked`, `CallsAreAnswered`); a worker killed by a signal other than SIGSEGV
counts as a success (`FailuresAreReported`); fs.write with all its arguments does
not find its callback, dns.resolve without a record type loses it
(`AnsweredAsAsked`); a DNS call that fails at once keeps its reference for ever
(`HoldersAreHeld`); readFile leaves its file open when its read fails
(`DescriptorsAreClosed`).

## Not modelled

Byte contents of cBuffers and the operations that only read or overwrite bytes in
place. JSON: a text codec without state between calls; its grammar is too large
for an enumeration of inputs to say more than its tests, and its string buffer
uses the slab as msgpack_pack_api does. HTTP parsing (the parser is a dependency
that is not in the repository) beyond the order of its callbacks, parseUrl beyond
its refusals (which halves of a cut URL it takes is left open), status texts. The event emitter: one
short sequential loop, in which a listener that removes itself leaves a hole that
hides those behind it. Child processes: one handle with one callback, the pattern
of a timer. The command line and the start of the Lua state; socket options, host
names and other queries; debug printing. Packets of the IPC that are cut by the
end of a read, which happens when the block that was asked for with 8192 bytes has
less left than the packets need; the handlers then fail on a nil (LevMpack has
what unpack does with a cut packet). Errors of bind and listen, which
`_master.lua:42` ignores. What `buf[i] = buf` copies when the buffer grows: it
releases its old block (`lev_new_buffer.c:264`) before it copies from it (297);
LevMem counts the owners, which are right, and has no bytes to miss. A cBuffer that is
collected while libuv still writes from it: tcp_write takes no reference at all,
so no property of the code could say otherwise.

`PROJECT.json` gives the reason for each component and, under "hazards", what each
omission leaves open.

## Plan

1. *Done*: LevMem, LevTcp, LevHandles, LevIpc with supervision, LevRequests,
   LevMpack, LevWeb and their runs; LevObject and its refinement by LevTcp and
   LevHandles; the proofs of every safety property of LevMem, LevHandles, LevTcp,
   LevIpc, LevRequests and LevWeb, both refinements included.
2. The composition of tcp_write with LevMem, and a module for the event emitter.
