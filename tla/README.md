# osrv in TLA+

A specification of the object server `osrv`, an R package that serves objects of
an R session over TCP from threads of its own. The modules model the package's
C code (`src/src/*.c`). TLC checks them on small instances. TLAPS proves every
invariant that the passing runs check for all instances: of the object store (and that
it is a stack per key), the event queue, the threaded server, the dependency tracking,
the osrv protocol, the HTTP engine, and the serialisation of R objects (and that
loading one gives what was stored). Liveness is model-checked only.

## The system

| component | source | state | operations |
|---|---|---|---|
| object store | `obj.c`, `robj.c` | the list `obj_root`, the list `obj_gc_pool` of removed entries, what R has preserved, `obj_mutex` | `obj_add`, `obj_get` (with removal), `obj_gc`; from R `o.put`, `o.get`, `o.clean` |
| event queue | `evqueue.c`, `revq.c` | doubly linked list, mutex, condition; R references to popped entries | push at either end, pop, timed pop, re-insertion, finalizer |
| dependency tracking | `deps.c`, `rdeps.c` | list of requests with a status per key, `dep_mutex`, a queue for completed requests | `deps_add` (`dep.req`), `deps_complete` |
| threaded server | `therver.c` | circular list of accepted connections, `active`, threads | accept, worker loop, shutdown, fork handlers |
| osrv protocol | `osrv.c` | per worker: buffer, socket | GET, HAS, DEL, PUT |
| client | `ocli.c`, `sock_restore.c` | buffer, payload | `os.ask` |
| HTTP engine | `http.c` | per connection: line buffer, part, request, recorded headers, body | the connection loop |
| HTTP handler | `ohsrv.c` | the `/work/` queue | GET, HEAD, PUT, DELETE of `/data/`, POST of `/work/` |
| chunked output | `hcstore.c` | a chunk buffer | streaming of R objects |
| SFS | `sfs.c`, `*_store.c`, `*_restore.c` | buffers, stream positions, the recursion of the loader | `createSFS`, `saveSFS`, `statSFS`, `restoreSFS`, `readSFS`, streaming of objects over sockets |
| TLS, socket wrapper | `tls.c`, `sconn.c` | - | without `HAVE_TLS`, which no build file defines, plain `send` and `recv` |

How they interact. The R session (the only thread that may call R) and any number
of worker threads share the store. A worker gets a *pointer* to an entry from
`obj_get` and sends from it without a lock; removal moves an entry to the pool,
and only `o.clean` on the R thread frees it. `obj_add` calls `deps_complete` with
`obj_mutex` held, which takes `dep_mutex` and posts to an event queue; `deps_add`
on the R thread looks objects up. `therver` hands each connection to a callback
of `osrv.c` or `ohsrv.c`; the latter runs `http_connected`, whose loop calls
`http_process`. Request bodies move from the HTTP request to the store or to the
queue. Objects that R has stored are serialised (`sfs.c`) while they are sent, by
`fd_store` on an osrv connection and by `hcstore.c` on an HTTP one; `os.ask` restores
them while they arrive.

What is hard here: pointers used outside the lock that produced them; ownership
that changes hands (entries, bodies, sockets, R references); intrusive lists with
several pointers to keep in step; two locks; condition variables with stolen and
spurious wakeups and a deadline; descriptors that are reused at once; streams
that `recv` cuts anywhere and that end anywhere; `longjmp` out of the middle of
an operation; buffers with thresholds, and copies that trust them; a format in
which one wrong length turns everything after it into noise. `PROJECT.json` lists these hazards at their lines.

What makes each component correct:

- **store**: entries are on one list, once; R objects are preserved exactly while
  an entry refers to them; published data do not change; it behaves as a stack
  per key.
- **event queue**: one owner per entry; pointers represent the order; no lost
  wakeup; timed pops return.
- **dependencies**: requests are tracked until posted, posted once and only when
  complete; the locks cannot deadlock.
- **threaded server**: each accepted connection is served and closed once, by its
  own entry; a forked child keeps none open that it can close.
- **serialisation**: every sink gets exactly the bytes of the object, in order; what
  is restored is what was stored; a load stops at the object's last byte.
- **protocols**: answers are true, objects whole, both ends agree where a message
  ends, clients get answers and workers get free.

## Modules

| module | models | state and actions |
|---|---|---|
| `KVStore` | what the store promises | `stack[k]`, the last lookup; Add, Remove, Lookup, Return |
| `ObjStore` | `obj.c`, `robj.c`, the uses in `osrv.c`, `ohsrv.c` | `entry[a]` (the heap), `obj_root`, `obj_gc_pool` as sequences, `precious` (preserve counts), `serving[w]` (the pointer a worker sends from), `main` (where C_get or obj_gc is). `C_get` is cut after `obj_get`, because what follows runs without the mutex; `obj_gc` is one step per entry with the mutex held |
| `EvQueue` | `evqueue.c`, `revq.c` | the four pointers, `allocated`, `ref` (entries R references own), per consumer `pc`, `on`, `late`, `got`; `order` is auxiliary. A critical section is one step; waiting, being signalled and resuming are separate |
| `Therver` | `therver.c` and what its two callbacks (`do_process` of `osrv.c` and of `ohsrv.c`) do to the socket | descriptors `file`, entry pointers and sockets, the accept thread, workers, `inherited` (sockets left open in a forked child); auxiliary `lost`: descriptors that `http_connected` gave up while they were open |
| `Deps` | `deps.c`, `rdeps.c` | `head`, `tail`, `next`, cells `ent`, both mutexes, per thread its place and the locals of the scan, the request being added (`own`); auxiliary `seen`, `posted`, `returned` |
| `Osrv` | `osrv.c`, `ocli.c`, `sock_restore.c` | two byte streams per client, server and client state; auxiliary `cand`: what a lookup of the key could have found since the request |
| `Http` | `http.c`, `ohsrv.c` | the stream, the connection (`pc`, `part`, `line_buf`, `req`, `body`, `headers`: the list of buffers that record the header lines), blocks of memory, store and queue; auxiliary `handled`: what the handler was called with since the client sent its request, with the vector `collect_buffers` made of the headers and what the buffers held |
| `Sfs` | `sfs.c`: `store`, the format | R objects as records; recursive functions over them: `store[v]` (the calls of `api->store` in order), `Restorable[v]` and `Restored[v]` (what the format makes of an object); the bytes of a call |
| `SfsSinks` | `mem_store.c`, `hcstore.c`, `http_send_chunk` | operators: the list of buffers and its collapse, the chunk buffer with flush, direct sending and final chunk |
| `SfsIO` | `*_store.c`, `*_restore.c`, `decode_one` and `sfs_load` | the calls still to come and what each sink holds; the bytes between (`wire`) and whether the `medium` has failed, for good or with a gap; the loader: a `stack` with a frame per `sfs_load`, the fetch in progress (`need`, `got`), the value returned. A step is one call of `api->store`, one write, one read, one object decoded or one return |
| `ObjStoreKV` | the store seen from outside | the refinement mapping from the lists of `ObjStore` to the stacks of `KVStore` |
| `MC*` | instances | constants for TLC |
| `ListLemmas`, `ObjStoreProofs`, `EvQueueProofs`, `TherverProofs`, `DepsProofs`, `OsrvProofs`, `HttpProofs`, `SfsProofs` | proofs | see below |

Definitions carry the names of the C functions; parts of one function share its
name as a prefix (`C_get_materialise`, `deps_add_link`). Definitions whose name
is that of another one with a suffix, under a comment that starts with "Mutant",
are wrong variants: substituted for the original they make the property they
belong to fail, which shows that the property depends on that piece of code.

Abstractions worth knowing:

- Payloads, names and R objects are atoms. In `Osrv` a stream element is a byte,
  except command words and keys; numbers are binary so that short payloads have
  lengths of two digits. In `Http` an element is a line's text, a CR, an LF or a
  body byte, and long header lines are several elements.
- `Osrv`: the header of a request arrives in one piece (the code depends on it,
  FIXME at `osrv.c:218`); the next request follows the response; the store holds objects
  with data. A PUT without body over HTTP leaves one without, for which `do_process` calls
  `fd_store` with NULL (`osrv.c:142`). `Http`: the next request follows the response (FIXME at
  `http.c:257`); `CutCRLF` says whether `recv` may separate CR from LF.
- `http.c:525-571` is not modelled since it is not reached: a request without
  Content-length is processed at `http.c:320` already. That `http_connected` cannot
  allocate its state (`http.c:582`) is an action of `Therver`.
- Undefined behaviour is a place of its own: `pc = "undefined"` in `Http` once
  `collect_buffers` has copied several buffers into the first, `wpc = "overrun"` in
  `SfsIO` once `hcstore.c` has written beyond its buffer; nothing is claimed of what
  follows.
- `Sfs`: lengths are below 2^24 but for those of environments; the bytes of numbers
  are data. `Robject` is a set of objects with their components, and `Depth` bounds
  how deep each is nested; `WellFormed` says what R guarantees of its objects (whole
  elements, names without NUL, no empty pairlist, byte code in closures only). What is
  computed by recursion over an object is a recursive function on `Robject`.
- A `write` of a whole header is one step (a shorter one is an error in the code). One that
  fails is not noticed (`fd_store.c:31`); the next write may fail as well (`medium` is
  "broken") or work, and then the stream has a gap. What a load makes of the bytes behind
  a gap, headers and data out of step, is not followed: `wire` ends at the gap.
- `SfsIO`: on a socket `fd_store` runs as in `osrv.c`, and its `Rf_error` ends the
  store; a raw vector that `collapse_buf` has made of several buffers is wrong
  already and not loaded. A chunked response is loaded once it is complete, since
  its client gets the content from an HTTP library.
- The 501 of `http.c:394`, for a method word of a thousand characters, is left out.
- `Deps` reduces the store to the number of objects per key.
- A raw object without data that R has looked at in between (`robj.c:57`) is not
  told apart in `Http` from one it has not.

## Runs

Deadlock is checked in every run but those of `SfsIO`, which end when an object is
stored and loaded; there `LoadReturns` says that a load does not stop half-way.

| run | instance | what it shows |
|---|---|---|
| `ObjStore` | 2 keys, 2 workers, 3 entry addresses, one R object and `R_NilValue`, 1 malloc'd buffer; symmetric in keys, workers, addresses (safety only) | `EntriesAccounted`, `PreserveBalanced`, `MainEntryValid`, `PublishedImmutable`, and the refinement `ImplementsKVStore` |
| `ObjStoreServed` | same | *violated*: `o.clean` frees entries that are still being sent |
| `EvQueue` | 2 queues, 3 entries, 2 consumers | `OwnedOnce`, `ListRep`, `NoLostWakeup`, `PopWaitReturns` |
| `Therver` | 2 clients, 2 descriptors, 2 entries, 2 workers | `OwnSocket`, `NoSocketLeak`, `ListRep`, `NoIdleWorker`, `AcceptedServed`, `ChildKeepsServed` |
| `Deps` | 2 keys, 3 requests (no key, one, three with a repetition), 3 cells, R thread and one worker, 1 object per key | `ListSound`, `NoneForgotten`, `PostedComplete`, `StoreUnlocks` |
| `DepsTail` | the same with single keys | *violated*: `tail` is stale after the last of several requests is completed |
| `Osrv` | 1 client, 1 key, 11 requests, 2 objects per key, a response buffer of 14 bytes | `AnswerTrue`, `PutStored`, `InStep`, `AskReturns`, `WorkerFreed` |
| `OsrvPut` | same | *violated*: a PUT whose payload comes after its header is not answered |
| `Http` | 18 requests, 2 blocks, 2 objects, 1 queue entry; line buffer of 12 elements, header buffers of 7 and from 2 on | `RequestIntact`, `LinesRecorded`, `OneResponse`, `BodyOwnedOnce`, `Answered`, `WorkerFreed` |
| `HttpCut` | same with `CutCRLF` | *violated*: headers after a cut CRLF are lost |
| `SfsIO` | 27 objects, all five sinks; `mem_store` buffers of 30 bytes, a chunk buffer of 24 with the threshold 12, writes of at most 7 and reads of at most 6 bytes, `dec_buf` of 6 | `Accounted`, `RoundTrip`, `LoadReturns` |
| `SfsSaved` | same, files only | *violated*: `saveSFS` succeeds although a header was not written |

Each passing run but `SfsIO` checks its module's `TypeOK` too; where there are buffers it
includes their bounds (`Osrv`, `Http`).

A server of `Therver` has one callback for all its connections. In the model each call
may be to either, so that the behaviours include those of both servers.

Why the bounds are enough: three entries make a list with a first, a middle and a
last element, which is what the pointer code tells apart; an address that is
freed and allocated again, and a descriptor that is closed and reused, need one
spare; two workers are what a race takes; three requests are what the tail of
`deps.c` takes (two on the list, one to be added). The requests of `Osrv` and
`Http` cover each branch of the handlers: for PUT a size that is exact, too small
(so that more arrives), zero, unknown, not a number and none, and a blank line before it; for HTTP each method and
path, bodies of zero, one and two bytes, a body longer than announced, HTTP/1.0,
`Connection: close` and a missing Host, header lines that need a second buffer and
one that does not fit into the line buffer. The objects of `SfsIO` are one of each
type, empty ones, nested lists, pairlists, calls, closures, attributes with
attributes, a class behind another attribute, vectors larger than the chunk buffer
and than a `mem_store` buffer, types the loader does not know, and strings longer
than `dec_buf`; with writes of 7 and reads of 6 bytes no header and no vector is
transferred in one piece of both sides. `http_store` leaves `len` and `pos`
uninitialised: `len` is nothing, half the buffer or its size. In `SfsIO` `pos` is 0, which
is what fresh memory has; another `pos` puts bytes in front of the object that were never
stored, and `RoundTrip` could not hold. A second client of `Osrv` could
affect the first only through the store, where the R session's puts and removals,
possible at any moment, do the same.

`BufSize` of `Osrv` stands for the 64 bytes of `buf` in `C_ask` (`ocli.c:90`); 14 is the
smallest size at which every response line of the server is accepted.

Named bounds: `MaxObj` (objects under a key), `MaxReq`, `MaxQueue`, and the sizes
of the address sets. Where a bound stops an operation, it stops before the
operation starts, so that no operation is cut short. `Osrv`'s store
bound is the exception (a PUT that finds two objects under the key waits): the R
session may remove one, and the fairness-dependent properties are not about PUT.

Fairness. `EvQueue`: a deadline passes, a thread whose wait timed out runs, a woken
thread gets the mutex. Nothing is assumed of pushers or of spurious wakeups.
`Therver`: the accept thread finishes `add_task` and a worker that can go on does;
callbacks return (a client that stays connected and silent occupies its worker for
ever, so nothing could be said otherwise). `Deps`: a thread inside an operation
goes on, mutexes are handed over. `Osrv`, `Http`: the worker of a connection and
`C_ask` go on while they have something to read; clients need not send anything,
and need not close. `SfsIO`: the thread that stores and the one that loads go on
while they can; interrupts and failing reads are never assumed. All of it is what a preemptive scheduler gives threads that
are not blocked.

## Where code and documentation disagree

The five violation runs (`ObjStoreServed`, `DepsTail`, `OsrvPut`, `HttpCut`, `SfsSaved`)
each refute a sentence of the repository; `PROJECT.json` quotes it, and lists further
findings that the models show without a run of their own:

- `http_connected` returns without closing the socket when its first allocation fails
  (`http.c:582`), although its caller counts on it (`ohsrv.c:137`): the connection stays open
  and nobody closes it any more. `http_connected_no_memory` of `Therver` does this, and
  `NoSocketLeak` says that it is the only way to lose a connection.
- `collect_buffers` never writes the vector of headers that it returns, and copies
  several buffers over the end of the first (`http.c:104`). `collect_buffers` and `Overruns` of
  `Http` do this; `LinesRecorded` is about the buffers, which are right.
- `http_store` leaves `len` and `pos` of the chunk buffer to `malloc` (`hcstore.c:53`), so the
  NOTE at `hcstore.c:37`, that data always fits, does not hold: `http_add` of `SfsIO` reaches
  `wpc = "overrun"`.
- `collapse_buf` puts buffers on top of each other (`mem_store.c:103`), long strings are not
  fetched (`sfs.c:189`), raw vectors cannot be loaded and NA becomes "NA", the promised 413
  is never sent (`http.c:347`), a served connection stays open in a forked child
  (`therver.c:173`), and responses without an end are sent on kept connections
  (`ohsrv.c:74`).

Observations made while reading: bare commands
close the connection instead of `UNSUPP` (`osrv.c:33` and `osrv.c:120`);
`therver.h` says "non-zero for errors" where the
code returns NULL; `os.ask` without `sfs` of an SFS object returns `raw(0)`, since
`atol("?")` is 0 (`AnswerTrue` and `InStep` except this case by name);
`C_ask` polls for ever when a server closes without an answer after a timeout
(`ocli.c:113` tests `errno` although `recv` returned 0); the race that the
FIXME at `deps.c:117` describes can leave a request waiting.

## Proofs

| module | theorems | for all | assumptions |
|---|---|---|---|
| `ObjStoreProofs` | `TypeCorrect`, `EntriesAlwaysAccounted`, `PreserveAlwaysBalanced`, `MainEntryAlwaysValid`, `PublishedNeverChanges`, `StoreImplementsKVStore` | keys, workers, addresses, objects | `ObjStoreAssumption`: addresses are finite, atoms distinct; `NullIsNoEntry` |
| `EvQueueProofs` | `TypeCorrect`, `AlwaysOwnedOnce`, `ListAlwaysRepresented`, `WakeupNeverLost` | queues, entries, consumers | `EvQueueAssumption`: consumers are finite |
| `TherverProofs` | `TypeCorrect`, `ListAlwaysRing`, `SocketsAreOwn`, `NoConnectionLost`, `NoWakeupLost`, `ForkKeepsServed` | clients, descriptors, entries, workers | `TherverAssumption`: atoms distinct |
| `DepsProofs` | `TypeCorrect`, `ListIsSound`, `NothingForgotten`, `OnlyCompletePosted` | keys, requests, cells, threads, objects per key | `DepsAssumption`, `NullIsNoRecord`: atoms distinct |
| `OsrvProofs` | `TypeCorrect`, `PutsAreStored`; `AnswersAreTrue`, `StaysInStep` | clients, keys, requests, objects, bytes, the size of the response buffer, cuts of both streams | `OsrvAssumption`: the shape of a request; no byte is a command or a key. The last two also `AnswerAssumption` (below) |
| `HttpProofs` | `TypeCorrect`, `BodyHasOneOwner`; `RequestsAreIntact`, `LinesAreRecorded`, `RequestsAnsweredOnce` | requests, cuts of the stream, sizes of the line and header buffers, blocks | `HttpAssumption`: the shape of a request, sizes (a line buffer of at least three, really 32768). The last three also `~CutCRLF` (below) |
| `SfsProofs` | `BufAddFits`, `MemBufAddFits`; `BytesAreAccounted`, `LoadsWhatWasStored` | R objects of any depth, sources and sinks, sizes of buffers, thresholds, writes and reads, data | `ObjectAssumption`: R's objects are well-formed and of finite depth; `SinkAssumption`: sizes are positive, the threshold is at most half of the chunk buffer, as the comment at `hcstore.c:8` demands; `IOAssumption`. The last two also `Zeroed` (below) |

Each inductive invariant was checked by TLC on the instances above, where an
unbounded quantifier stands in one with the finitely many candidates that can satisfy
it (the cuts of a stream, the contexts of the loader's frames). A proof has one lemma or step per action of the module.

**Store.** The invariant is `TypeOK /\ EntriesAccounted /\ PreserveBalanced /\
MainEntryValid`. The conjuncts need each other: the number of entries that refer to
an R object changes by one with each `obj_add`, materialisation and `obj_gc` step
only because an entry is on one list and allocated once, and that the entry of
`C_get` survives a worker's removal is that moving it to the pool keeps it allocated.
`ObjAddKeeps` and `ObjGetKeeps` state what the two list operations do; the actions of
both threads follow from them. `PublishedNeverChanges` is an action property:
`HeapStep` lists what a step may do to the heap, and since published entries are
allocated, none of it touches the data of one.

**Refinement.** A key's stack is the published entries with that key, in list order:
its n-th element is the entry at the n-th matching position (`Rank`, `Nth`). A
recursive filter would say the same and could not be proved about. That this
enumerates the positions is a counting argument, once for all sets (`NthOfRank`,
`EnumerationMoves`, `EnumerationFirst`); from it `AddPushes` (an entry put in front becomes the top of its key's
stack and the other stacks stay) and `UnlinkPops` (taking out the first match pops it)
follow, and `StepRefines` maps each step of the store to a step of `KVStore` or to a
stutter. The steps of `C_get` after the lookup and those of `obj_gc` stutter.

**Queue.** The invariant is `TypeOK /\ OwnedOnce /\ ListRep /\ NoLostWakeup`. `Rep`
relates one queue's pointers to a sequence; `RepFirst`, `RepPrepend`, `RepAppend` and
`RepPop` are the four pointer manipulations, and `RepFrame` says that changing
pointers of entries elsewhere does not matter, which is where `OwnedOnce` (queues are
disjoint) comes in. `NoLostWakeup` is inductive by counting: a push adds an entry and,
if anybody sleeps, an awake consumer; an awake consumer that leaves takes an entry
with it or finds none.

**Threaded server.** The invariant is `TypeOK /\ ListRep /\ Threads /\ Sockets /\
NoIdleWorker`. `Threads` says what a thread's place implies of the entry it holds,
`Sockets` that every open descriptor is the socket of exactly one live entry, or else in
`lost` and the socket of none, and that an entry with a socket was made for its client.
This is what makes the reuse of descriptors harmless: a callback that closes its socket
takes it out of the entry as well, so when `accept` hands out the number again no live
entry has it. `OwnSocket` follows. The callback of `ohsrv.c` takes a socket out without
closing it when there is no memory (`SocketLost`); as the descriptor stays open, `accept`
never hands it out again, so `lost` stays apart from the sockets of entries, and
`NoSocketLeak` follows. `ChildKeepsServed` does, because the handler in the child closes the
sockets of all entries that `ListRep` finds in the ring.

**Dependencies.** The invariant is `TypeOK /\ Shape /\ Owned /\ Requests /\ Scans /\
Noticed`. The hard part is the pointers: after the last of several requests is
completed `tail` points to a freed cell (the run `DepsTail`), which may be allocated
again. `Shape` therefore says of `tail` only that there is one. The cells that `head`
leads to are the least set that is closed under `next`; they form a `Line` (none points
at the head, no two at the same cell), and `LineUnlink` and `LineAppend` show that they
stay one, also when an append goes to a cell that is not among them and leaves the new
request off the list. `Scans` places the scan on the line: the
cells behind it have been marked and are incomplete, those ahead have been announced
the key and not been marked. `Noticed` says so: a key has been seen exactly if it is
marked or the scan is still to come to its cell, and a request that is complete is one
the scan is still to come to. `NoneForgotten` and `PostedComplete` follow.

**Protocol.** The invariant `IInv` has a part per connection, `Connection`. A request
is `Fresh` (its header and a part of its payload are on their way, and nothing is on
its way back) or `Taken` (what is still on its way are bytes of the payload, none when
the server waits for the next request, unless more was sent than announced). What
`C_ask` has received of a response line and what is on its way are, put together,
nothing or an answer that is right for the request and for what its key had since
(`Replies`, `Answers`); `CutAndJoin` says that receiving moves the border between the
two and leaves the whole alone, which covers every way `recv` can cut a stream.
`FirstLine` says where the line ends in such a whole, `ShapeRead` what `C_ask` makes of
it, and `Delivers` carries the claim on through the payload loop and `sock_restore`
until the answer is returned. That a length survives `snprintf` and `atol` is
`AtolOfDecimal`: `Decimal` and `Number` are recursive functions, and
what is needed of them is proved from a least counterexample (`LeastElement`), so that no
induction schema is instantiated. `C_ask` gives up on a response line that fills its
buffer but for seven bytes (`ocli.c:99`), so an answer is delivered only if its line is
short enough, which is one of the assumptions.

`AnswerAssumption` is what a client relies on: the bytes of every stored object are
one SFS stream (a client that asks with `sfs` for other raw bytes waits for an end that
does not come, or stops before it), status lines fit `C_ask`'s buffer (with the real 64
bytes every length of 20 digits does), and GET, HAS and DEL name a key (the server ends
the connection of one that does not without an answer). `TypeCorrect` and
`PutsAreStored` need none of it.

**HTTP.** The invariant is `TypeOK /\ Types /\ Allocated /\ Apart`. A body moves from
`malloc` to the request and from there to the store, to the queue or to `free`; `Apart`
says that the four never share a block, and `Allocated` that the request has none
before its head has been parsed and one while its body is received, so that a
connection that ends anywhere gives back what it had and nothing else. `TypeOK` includes
that never more of a body is received than `Content-length` made room for.

`RequestsAreIntact` and `RequestsAnsweredOnce` hold where `recv` does not separate a CR
from its LF; where it does, `HttpCut` shows that the first fails. Their invariant `PInv` says,
for each place the connection can be in, what the line buffer and the stream hold
together: between requests text without a line end (the rest of a body longer than
announced), then such a rest and the whole request, then the request from header line
`n` on while `req` is what the lines before `n` say, then the bytes of the body that
have not been copied. Since it is about the buffer and the stream taken together, a
`recv` of any length leaves it as it is, and a line is read as a whole because the
buffer never ends with a CR (`NotCut`, `CutLine`, `LineRead`). A line that fills the
buffer does not fit (`FullLine`), which is the case `RequestIntact` excludes and
`OneResponse` does not.

`LinesAreRecorded` adds to `PInv` that the buffers of the record hold, put together,
the method and the header lines before `n` (`Noted`), and to the types (`HInv`) that no
buffer holds more than its size and that there is a buffer from the request line on.
`Record` splits a line over two buffers; that the second has room for the rest is
`MoreSizeFits`, about the loop that doubles the size of a further buffer: after `k`
rounds it is more than `k`, unless it was enough before. What a list of buffers
amounts to is `FlattenSeq`, a fold of the community modules.

**Folds and recursion.** No prover instantiates an induction schema, which has an
operator as a parameter. Induction is used as a statement about *sets* of numbers
instead (`NatSetInduction` in `ListLemmas`, from the least element of a complement).
From it follow what the fold `FlattenSeq` is by its partial results
(`Partial`: they exist, they are unique, the last one is the result), hence what it is of a sequence
with one element more and of two sequences one after the other. The recursive functions of `Sfs`
descend by `Depth`: the set of depths for which a function with the right values exists
is closed under successor, since `StoreOf`, `RestorableOf` and `RestoredOf` look at the
objects below only (`StoreOfSame` and its like), and the definition is a `CHOOSE` of such a
function.

**Sinks.** `BufAddFits` is the NOTE at `hcstore.c:37`: either the buffer was flushed
or both it and the data are below the threshold, so that together they are at most the
buffer (`FlushMakesRoom`); `MemBufAddFits` is the same of `mem_store.c`. They are about the operators of
`SfsSinks`. The first has the premise that `len` is the size of the buffer and `pos` a
position in it. `http_store` establishes neither (see above), so that no invariant of `SfsIO`
follows from it. `BytesAreAccounted` has the invariant `SinksInv`: the calls
made and those still to come are the calls of the object, and each sink holds the
bytes of those made (`MemInv`, `FileInv`, `HttpInv`, `StatInv`; in the middle of a write
with the rest of it in `left`). Where an object goes over HTTP it assumes `Zeroed`: `pos`
is 0, as in fresh memory, since otherwise the first chunk begins with what malloc left there.

**Round trip.** `LoadsWhatWasStored` relates the stack of the loader to what is ahead of
it. `Ahead(y)` says that `y` is the wire, followed by what the writer has still to write,
unless the medium has failed, if only for one header, in which case some of `y` never comes. The stack has a
frame for each `sfs_load` that has been called; `Chain` gives each a context, the item it
is to load and the bytes its caller expects after it, so that the outermost is the
object with nothing after it, and `Waits` says how far a frame
has got with the attributes or the parts of its item when it waits for the frame above.
While bytes are fetched, what has been got and what is ahead are, put together, what the
top frame `Expects`: the header of an attribute list, the header of the item or its data,
then the rest of the item, then what its caller expects. So each read moves a
border, each `decode_one` replaces the expectation by what follows a header
(`AttrRead`, `ObjectRead`), and each return restores the value of one item
(`RestoredIs`) and hands the rest to the caller. An error comes only when something that is
expected never comes, or at a type that is not known, which makes the object not
restorable (`Loading`). The invariant is `SinksInv /\ WriterInv /\ IdleInv /\ LoadInv`; `SinksInv` is
needed at the start of a load, where what a collapsed raw vector or a complete response
holds must be the bytes of the object, and there alone.

`ListLemmas` has the facts about sequences that several proofs use (prepending,
appending, removing an element of an injective sequence, least elements and induction
for sets of numbers, flattening).

Only model-checked:

- liveness, which is out of the prover's reach: `PopWaitReturns`, `AcceptedServed`,
  `StoreUnlocks`, `AskReturns`, `Answered`, `WorkerFreed`, `LoadReturns`;
- the five violations: they are counterexamples, found on an instance.

## Not modelled, and the plan

Not modelled: TLS (not built), wrappers in R, `ev_queue_notify_fd` (unused), memory
that is never freed (the data of removed raw objects, `obj.c:38`), failures of small
allocations in `http.c`, websocket attributes (stored and never used), what R does
when `Rf_error` is called on a worker thread (`osrv.c:142`), the child after a fork
beyond the sockets it keeps, threads that sleep through a shutdown (`therver.c:329`).

Done: the store and its promise, the queue, the threaded server, the dependencies,
both protocols; serialisation with all its sinks and sources, chunked output, the
bounded line buffer and the recorded headers of `Http`, what a forked child keeps
open; proofs of every invariant and action property of the runs, and of the refinement
of `KVStore`.

Hazards without a property, and why:

- `therver.c:329`: `therver_shutdown` wakes nobody, so sleeping workers and a blocked
  `accept` remain. Nothing in the package calls it, and `therver.h` promises only that
  the handle may no longer be used; `AcceptedServed` ends at a shutdown.
- `therver.c:136`: the fork handlers take the mutexes of the pools only, so a fork while
  a worker holds `obj_mutex` or `dep_mutex` leaves it locked in the child. The child runs
  none of the modelled code unless R calls into the store there.
- `osrv.c:104`: a request header that `recv` cuts is taken for a whole one. The FIXME at
  `osrv.c:218` says so, and the model assumes what the FIXME assumes.
- `osrv.c:142`: `Rf_error` on a worker thread unwinds R's own stack. What R does then is
  outside this code; `SfsIO` ends the store there.

To do: a composition of store, dependencies and queue, from `obj_add` to `ev_pop`, with
the fork handlers and the three kinds of mutex.
