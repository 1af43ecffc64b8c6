# Verification of libioxd

libioxd is an HTTP/1.1 server library for Linux in C: one worker thread per
core, each with its own io_uring, its own listeners, its own pool of provided
receive buffers and one stackful coroutine per connection; TLS is done by
OpenSSL up to the handshake and by the kernel from there on. This directory
holds TLA+ models of its core, the TLC configurations that check them, and
proofs checked by TLAPS. Paths below are relative to the repository.

## 1. The system

| component | state | operations | where it gets hard | what makes it correct |
|---|---|---|---|---|
| connection, `lib/io/conn.c` | `refs`, `recv` (ARMED, STARVED, PAUSED, DONE), `pausing`, `cancelling`, `closed`, `eof`, the `rx` queue, the parked coroutine | new, arm_recv, on_recv, recv_item, recv_pause / resume, recv_drain, close, one-shot awaits | two owners (the coroutine and the recv) of an object that is recycled while its SQEs and CQEs are in the rings; handlers resumed inline inside `on_recv` | one recv at a time; a cancel never hits another incarnation's recv; no lost wakeup; every closed connection is recycled |
| proactor, `lib/io/proactor.c` | ready list, starved list, live count, listeners with their stall, drain state | spawn, run_ready, rearm_starved, dispatch, accept, begin_drain, the loop | SQ full in mid-batch, accept stalls, shutdown against re-arming | nothing in a list is dead; the accept is armed once or stalled; a stop ends the loop |
| buffer ring, `lib/io/bufring.c` | the published tail, the returned count | return, publish | five places return buffers | each buffer has exactly one holder |
| ring binding, `lib/io/uring.c` | SQ / CQ heads and tails | get_sqe, submit, submit_wait | counters that wrap; memory ordering with the kernel | entries are seen once and whole |
| coroutines, `lib/io/coro.c` | stacks and their pool | create, resume, yield | a resume runs the handler before it returns | - |
| clients, `lib/clients/` | a conn_t of an outgoing connection | connect, disconnect, sleep | RECV_ARMED is set before the recv exists | as the connection |
| pipe, `lib/io/pipe.c` | the reader's current and pinned kernel buffers, its gathering buffer, the run kept in it; the writer's slab | read, examine, drop, keep, run_begin, release, copy, avail, inject; reserve, write, flush | bytes that live in three places, and pointers handed out to them | every byte once and in order; kept pointers stay good; buffers given back once |
| TLS handshake, `lib/tls/handshake.c` | the SSL object, the record count, early plaintext | the prologue: handshake, pause, drain, kTLS, inject, resume | stopping a multishot recv at a record boundary | what the client sent is what the handler reads |
| certificate store, `lib/tls/certs.c` | tables with a count, contexts with OpenSSL's count, two mutexes | load, acquire, release, reload, free, the ClientHello callback | a reload against handshakes of other threads; half a directory that fails to load | a table lives exactly as long as it is used; a host never vanishes because it failed to load |
| HTTP engine, `lib/http/engine.c` | the request, body state, response state, filter | the serve loop, body reads, drain, reply writers, flush, finish | request framing across pipelining, partial reads, drains and limits; a reply's framing fixed at its first flush | the next request starts where the last body ended; the client reads what was written |
| static files, `lib/http/static.c`, `compress.c` | a worker's table of files, recency list, byte count; the files on disk | lookup, current, load, make_room, drop, reply, stream | reads and sends that suspend while other requests drop and insert | a send reads from memory that is there; what is sent was on the disk when the request came, or within `revalidate_ms` of it |
| router, `lib/http/router.c` | groups, endpoints and middleware in the order of registration; the tree and the chains resolved from them | group_new, use, route, default, the script form; build; dispatch, next_run | a walk that turns back with segments captured; a table read by every worker without a lock; a cursor shared by a whole chain | the request gets the route its registrations call for; the chain runs once; the table never changes under a worker |
| HTTP helpers, `lib/http/api.c`, `find.c` | none of their own | lookups in one request, fields of one response | - | - |
| JSON writer, `lib/json/json.c` | a depth, two masks with a bit per level, a key waiting for its value, the failure | object, array, end, key, values, done | levels used again, a sink that fills or fails inside a call | what was written is JSON, as far as it goes |
| run, `lib/http/run.c` | the bound ports, the stop flag, the threads, what is returned | bind, run, signal, start, join | a worker that fails to start or dies while others serve | the others stop; nothing runs behind the return; a failure is reported |

The proactor dispatches CQEs to connections (`on_recv`), to listeners
(`on_accept`) and to suspended one-shot operations; connections wake
coroutines; coroutines run the engine over a pipe, which takes buffers from the
connection's queue and gives them back to the ring; what any of them wants from
the kernel is staged in the one SQ of the worker and entered once per
iteration. Nothing is shared between workers but the stop flag, the router and
the certificate store: those interleave as threads do. Everything else
interleaves at awaits, which is where the models have their steps.

The hazards of the code, each at its line with the properties that would catch
it, are listed in `PROJECT.json`.

## 2. Modules

| module | models | notes |
|---|---|---|
| `Conn` | one `conn_t` over all its incarnations, with its SQEs and CQEs | the core |
| `ConnProofs` | - | inductive invariant of `Conn`, seven theorems |
| `Worker` | a worker: loop, listener, buffer ring, several connections, one SQ and one CQ | composes; every connection refines `Conn` |
| `WorkerProofs` | - | inductive invariant of `Worker`, its refinement of `Conn`, six theorems |
| `PipeReader` | the reader of a pipe with the memory it points into | |
| `PipeReaderProofs` | - | inductive invariants of the buffers and of the bytes of `PipeReader`, three theorems |
| `Body` | the request half of the engine: serve loop, body reads, drain | |
| `BodyProofs` | - | inductive invariant of `Body`, three theorems |
| `Reply` | the reply half: slab, head, framing, filter, finish, with the pipe writer | |
| `Certs` | the certificate store, with handshakes and reloads of several threads | |
| `CertsProofs` | - | inductive invariants of `Certs`, four theorems |
| `Handshake` | the TLS prologue and the handover to the kernel | |
| `HandshakeProofs` | - | inductive invariant of `Handshake`, its theorem |
| `StaticCache` | a worker's table of static files | |
| `Router` | registration, resolution, lookup and chains of `router.c` | |
| `Run` | the life of the workers in `run.c` | |
| `Server` | application, router and workers together | composes `Router` and `Run` |
| `ServerProofs` | - | inductive invariants of `Run`, `Server` and `StaticCache`, nine theorems |
| `Json` | the JSON writer, with a reader of what it wrote | |
| `ReplyProofs` | - | inductive invariants of `Reply` and `Json`, five theorems |
| `MC*` | TLC instances | |

### Conn

The fields of `struct conn` are variables of the same name. `c->waiter` is set
just before a yield and cleared just before a resume, so it is not a variable:
`co` says where the coroutine is - in the pool (`none`), spawned (`ready`),
running (`run`; `run_recv` and `run_pause` just woken in that call), parked in
`recv_item` (`recv`), in `recv_pause` (`pause`) or elsewhere (`parked`).
`phase` is the part of its life (TLS prologue, serving, unwinding after a
failed prologue, the setsockopt of an outgoing connection). `err` and the bytes
are abstracted.

`on_recv` calls `wake_reader`, which runs the handler to its next await before
`on_recv` goes on. That is modelled, not assumed away: the dispatch of a CQE
(`OnNobufs`, `OnEnd`, `OnData`) ends at the wake and leaves in `frame` what
`on_recv` still has to do; `TailMore`, `TailLast` and `TailUnref` are the rest,
which sees whatever the handler did meanwhile. `begin_drain` is `BeginDrain`,
one `RecvDrain` per starved connection and `EndSweep`, for the same reason.
`Close` is one step although it stages up to two SQEs: an enter forced by a
full SQ in between only moves the kernel, which reads nothing `Close` has yet
to write.

The kernel is external. What the code relies on is in the `K` actions: SQEs are
taken in order; a multishot recv posts CQEs until one comes without F_MORE; a
cancel ends the recv it finds and is a no-op when it finds none; an empty
buffer ring ends the recv with -ENOBUFS; a kernel may or may not know
`IORING_ASYNC_CANCEL_ANY` (`CancelAny`). In this module the kernel may move at
any time.

### Worker

Each connection is a record (`Fresh` lists the fields), and the loop is at one
place (`pc`): `top`, `sweep`, `ready`, `enter`, `batch`, `exit`. With
DEFER_TASKRUN the kernel only moves inside an enter, that is at `enter` or while
`flushing`, the enter `ioxd__proactor_sqe` makes when the SQ is full. `Flush` is
enabled whenever something is staged (`cfg.hiccups`), which covers every place
where the real SQ can be full. What a worker is set up with - its buffers, its
file table, the objects for its connections, TLS or not, what its kernel knows -
is `cfg`, chosen at the start from `Setups` and never changed, so that one run
covers several workers. Buffers are model values and each one is somewhere:
`kfree`, `staged`, in a CQE, in a queue, held by a reader.
`Connections` is the refinement: with the mapping in `C(c, any)`, every step of the
worker is a `Conn` step or a stutter of each connection, so that what is shown
of `Conn` holds of each connection of a worker. The run checks it on its
workers, `WorkerProofs` proves it of all. A connection's queues are picked out of
the worker's (`SqOf`, `CqOf`): its own SQEs and the blanket cancel, which is an
SQE of every connection, and the CQEs of its recv.

### PipeReader

The memory is explicit: the kernel buffers' contents, the gathering buffer, and
pointers into both. Bytes are the numbers 1, 2, 3, ... in the order they
arrive, so "the live span" and "the run" can be compared with what they should
be. A buffer given back to the ring loses its contents, as the kernel may fill
it again at once.

### Body

The input is a sequence of tokens: a head, a chunk's size line, an empty line,
anything else. What a token means depends on where it stands. The position by
the framing rules is kept where the peer writes (`ref`) and each token carries
the role it has there; the server's own position is `pc` and `st`, which are
`serve_state`. The three reads (`read_until`, `read_next_chunk`, `body_all`) are
calls in progress (`call`) that consume as bytes arrive; `drain_body` is a
sequence of `read_until`. Parsing of the head itself is one step that gives the
head's fields or refuses it.

Of the reply `res` has what the body's end depends on: `out` is the messages begun
on the wire (an interim `100`, the reply's `head`, a `status` of the engine's own, the
`500` of a head that could not be built) and `said` what the head promised. A flush
with the head unsent sends it, loses it, fails in `build_head`, which sends a 500 and
leaves `head_sent` unset, or fails before (`Flushes`). A handler may set `res.close` in
time or too late (`AsksToClose`); `finish` may find a streamed reply short of its
declared length and closes (`CutShort`). The lengths that lead there are in `Reply`.

### Reply

`pw` and `cw` are the data in the slab and in the coded slab, `fl` the flush in
progress with its place, `wire` what was sent. A send or a coder may fail at
every place where the code checks for it. The coder is external: it takes
any part of what it is given, gives out any part of what it took, and a trailer
at the end. `Client` is a reader of the wire that follows the head's framing,
and the properties compare what it reads with what the handler wrote.

### Certs

A process is one activity of one thread: a handshake or a reload. What is done
under `certs->lock` is one step; each stretch between locks is at least one
more, so the check of the count behind the unlock in `ioxd__certs_release`
(`FreeDying`) is a step of its own. The directory is not state: each entry the
loader reads turns out not to be a host, to load or to fail. OpenSSL's counts
of contexts are in `ctx`. Freed tables are handed out again by the next
`calloc`.

### Handshake

The client's stream is a sequence of records, and `arrived`, `delivered` and
`taken` are positions in it: in the socket, in the reader, and behind
`take_record`. The client may send records behind its Finished at any moment;
the pause cuts the stream wherever it happens to. Behind `Install` the kernel
decrypts from where the drain left the stream, with the sequence number it was
told; a record that does not match is `garbled`.

### StaticCache

A request gives way where it reads from the disk (`LoadPlain`, `LoadTwin`) and
where it sends (`Sent`); up to there the handler runs undisturbed, so `serve`
with its lookup, `current` and `drop` is one step. A file is its version, which
stands for the inode, size and time that `current` compares; files are replaced as a
whole. `now` is the clock, which moves at any time, also while a load is suspended;
`checked` of an entry is its `checked_at`, and inside `revalidate_ms` of it (`Revalidate`)
`current` does not look at the disk. `seen` is what the server cannot know: when a
version of a file was last on the disk. The hash buckets are abstracted to the set of entries of a
name, any of which may be the one found.

### Router, Run and Server

A path is the sequence of its segments, literal (`Seg`) or captured (`Cap`):
`next_segment` and `prepend` only say where segments end. A node of the tree is
named by the edges that lead to it, so `tree` is a function from such names to
the endpoints of the node. `ioxd__router_build` is one step, as nobody runs
beside it. `walk` follows the code with what it leaves behind in the request and
in `seen`, also on the way back from a branch that came to nothing; the limits
on captures, nodes seen, methods listed, middleware and the arena are constants.
The property compares it with a definition that looks at the registrations
alone: `Matching`, `Beats`, `Answering`.

A request in a worker (`ctx`) is its route, the cursor of `struct ioxd_next` and
the links that are running; each middleware calls `ioxd_next_run` any number of
times.

`Run` has the main thread (`main`), which starts, joins and returns, and of each
worker the part `run.c` sees: it sets up or aborts the process (`Aborts`: its port, its
ring or its buffers cannot be had), loops, finds the
flag set, drains and leaves, or its ring fails and it raises the flag. That a
worker that drains leaves is `StopEndsTheWorker` of `Worker`, and is the
fairness of `Drained` here. `Server` lets the application register from the main
thread before, between and after runs, and from inside handlers.

### Json

The document is nowhere in the writer's state, so the model reads what was
written: `doc` is a reader of JSON marks (brackets, commas, keys with their
colon, scalars) that keeps for each open level what came last, and says `bad` at
the first mark that has no place. It shares nothing with the writer's fields.
The writer's fields are variables; the masks are the sets of levels whose bit is
set. The sink is its room and its two failures (`pw->failed`, `res.failed`),
which are not the same thing: `ioxd_reserve` looks at one, `sink_failed` at
both. A flush of a reply may succeed although `pw` has failed, as with a filter it goes
through the coded slab, and may fail with `pw` whole (`ReplyFlushed`). A scalar goes out as one run or not at all; a key, a string or raw JSON
goes out in pieces and may be cut anywhere (`Cut`). Between two calls the
handler may write to the same slab or flush it, and the peer may leave.

## 3. Runs

| run | instance | shows |
|---|---|---|
| `conn` | queue of 2, 2 undispatched CQEs, no CANCEL_ANY, fairness | the five safety invariants of `Conn`, `ClosedIsRecycled`, `PauseCompletes`; deadlock freedom |
| `worker` | three workers: 2 connections, 1 buffer, file table of 2, no CANCEL_ANY; 1 TLS connection, 2 buffers; 1 TLS connection, 1 buffer, SQ flushes and partial enters; fairness | starvation and re-arming, accept stall, buffers, unmapping at exit, refinement of `Conn` among pauses and flushes, the worker ends |
| `pipe_reader` | 3 buffers of up to 2 bytes, gathering buffer of 4 | byte order within the bounds, kept pointers, buffers |
| `body` | 5 heads (none, sized, chunked, expecting a 100, refused), 6 tokens, fairness | the server stays in step with the message; one reply; the head's promise; every request is answered |
| `reply` | slab of 2, 5 units of body, lengths 0, 2, 3, GET and HEAD, HTTP/1.0 and 1.1, with and without a filter | what the client reads is what was written, or it can see that it is not |
| `reply_head` | the same with 3 units | finding 1 |
| `certs` | 2 processes, 3 tables, 3 contexts, 2 hosts, fairness of reloads | counts of tables and contexts; lifetime; reload keeps hosts and returns |
| `handshake` | headers of 2, 3 records of up to 2 units, room for 3 | order and completeness of what the handler reads across the handover |
| `static` | 2 requests, 1 file in 2 versions of sizes 1 to 3, 4 entries, budget 2, `Revalidate` 2, a clock up to 4 | sends read live entries; budget; what is sent was on the disk within the window |
| `static_leak` | 1 request, 1 file, budget 1 | finding 2 |
| `server` | up to 3 registrations of 4 paths, 1 group path, 3 methods, 2 middleware; 4 request paths; 2 workers, 2 runs; limits of 1 or 2; fairness | every request is routed as registered, chains run once, the table is read-only, no worker outlives its run, failures are reported, runs return |
| `json` | depth 3, a slab of 3, values of 1 and 5 bytes | the text is JSON; failures are final |

Bounds. `conn` and `worker` need a queue that is empty and full, a CQE behind
another of the same recv (2), an object reused while an older cancel is staged
(incarnations are unbounded: `refs` returns to 0 and `Accept` is enabled again),
two connections for one buffer (competition) and a table that fills (stall).
`MaxCqes` only bounds what the kernel posts on its own; CQEs caused by SQEs are
never held back. `MaxHeld` bounds how many buffers one reader holds.
`pipe_reader` needs a delivery that ends in the middle of the gathering buffer
and one that does not fit; `MaxBytes` allows two buffers and a half. `body`
needs a body that is shorter than, equal to and longer than a read, the drain's
limit and the pipe, and a head behind it: six tokens. `reply` needs a body
larger than two slabs and lengths below, at and above one. `certs` needs the
table that serves, the one it replaces and a fresh one. `handshake` needs
a record cut in its header and in its body, one before and one behind the
cut. `static` needs two loads of one file at once, and so two entries of one
name, of different versions and checked at different times, a budget that two entries
exceed, and a clock that leaves the window and enters the next. One file is enough for
the budget and the sends: `make_room` and `drop` look at no names, and two entries of
one name compete as those of two would; the theorems are for any number of files. `server` needs three routes that match one path and one that is
reached only by turning back, more captures, nodes and methods than the limits
allow (they are 2), and a chain of two. Registrations are few (`MaxSize`), and
larger applications are not combined with everything else: one with more than
`SmallSize` registrations binds its port first, is run once on one worker and is
not stopped, and one request is under way at a time. `SmallSize` is 1: failures,
signals, second runs and late registrations are explored with applications of at most
one registration. For the others, `ServerProofs` has the properties of `Run` and
`TableIsReadOnly` and `ChainRunsOnce` for applications of every size; `RunReturns`
speaks of `Run`'s variables alone, which by `ServerImplementsRun` no registration touches. `N` and `MaxRuns` are 2: a worker that
fails while another serves, and a second run behind a first. `json` needs a
level that is left and used again by the other kind, the limit of the depth,
and values that fit the slab, need a flush, and are larger than it.

Fairness. `Conn!Fairness` and `Worker!Fairness` say that the thread keeps
running its loop, dispatches what it reaped, finishes what it began and runs
the coroutine it woke, and that the kernel takes submitted SQEs. No fairness is
assumed of peers, of data, of the return of buffers, nor that a handler ever
closes; `StopEndsTheWorker` further assumes that a running handler reaches its
next await (coroutines are cooperative) and that the clock reaches the deadline,
and is not stated of the worker with `hiccups`, whose flushes the model lets
happen without end.
`Body!Fairness` has three parts: the engine runs when it can; a handler returns
in the end; and the peer sends on or leaves. The last is needed because the
engine has no timeout: with a peer that stays silent without closing, a drain
waits for good. `Certs!FairSpec` only lets a thread that is in a reload run on;
handshakes may hang for ever. `Run!RunFairness` lets the main thread and each
worker run on, and a worker that drains leave, which `StopEndsTheWorker` shows of
`Worker`; no signal, no failure and no request is assumed to come.

Deadlock is checked everywhere but in `worker` (a worker really stops at `exit`),
`handshake` (a connection is dropped or its input ends), `server` (the process may
abort, and is done after its last run) and `json` (a writer that failed).

## 4. Findings

1. *HEAD* (`reply_head`). A chunked reply to HEAD that the handler flushed gets
   the terminating chunk from `finish` (`engine.c:539`), although
   `include/ioxd/http.h:77` says such a reply "carries no body whatever was
   written". The properties of `reply` set this case aside (`Terminated`).
2. *Static files* (`static_leak`). A file that does not fit the budget is "served
   once and freed" (`lib/http/static.h:65-66`) by the release behind the body's
   write; a HEAD, a 304 or a 416 of it returns before (`static.c:617-626`) and the
   entry is never freed.

Seen while modelling, in the models as the code has it, without a run of its own:

- A head that cannot be built: `flush_with` sends a 500 and fails the reply
  (`engine.c:450-454`) with `head_sent` unset, and the handler runs on. Its first read of
  a body that expects it sends a 100 Continue behind the 500 (`engine.c:666-670`), and a
  body refused later gets a second status (`engine.c:1070-1071`), although
  `lib/http/engine.h:130-131` says of the engine's own replies "Best effort; the caller
  then closes." `OneReply` sets this case aside: it says that no head follows then and
  that the connection is not kept.
- A port that cannot be opened: `include/ioxd/run.h:22-23` says that `ioxd_run` returns
  non-zero "when a port could not be opened". `listener_open` aborts the process
  (`proactor.c:209-230`), and so do a ring and buffers that cannot be had
  (`proactor.c:313`, `bufring.c:14,22,43`). `RunReturns` is stated for a process that does
  not abort.
- A recv whose -ENOBUFS or whose last CQE with data is dispatched after
  `begin_drain` is armed again (`rearm_starved`, `conn.c:235`), behind the blanket
  cancel. Its reader is not woken by the drain, although `proactor.h:14-16` says
  parked coroutines wake; the worker then waits out the grace period, and ends.
  `recv_resume` guards against just this.
- `ioxd_json_done` is true of a writer nothing was written with, and of one that
  wrote several values at the root, separated by commas: `WritesJson` reads the
  root as such a list.
- On a reply whose writer alone has failed (a 100 Continue that could not be
  sent), JSON calls go on returning true as long as the slab has room: `want`
  falls through to `ioxd_reserve`, which looks at `res.failed`.
  `include/ioxd/json.h:35` says every call returns false once the sink is gone.
- A middleware that calls `ioxd_next_run` again after an inner one returned
  without calling it runs the link behind that inner one. `ChainRunsOnce` says
  that links run inside those before them only while nobody calls twice.
- `ioxd_run` without a bound port returns 2 with the table already resolved
  (`run.c:188`): what is registered after it is ignored, also by the next run.
- A signal between two runs is forgotten (`run.c:112`).
- The allow header's order is that of the first endpoint seen of each method,
  which need not be the first registered with it.
- A run that starts in the gathering buffer behind dropped bytes keeps them below
  `floor` (`pipe.c:166-168`), so the reader reports FULL earlier than "kept plus
  live bytes would exceed the pipe's buffer" (`include/ioxd/pipe.h:31`).
- `rearm_starved` arms one connection per returned buffer (`proactor.c:192-204`).
  If the one it arms has nothing to receive, the buffer stays free and the other
  starved connections wait for the next one returned. `proactor.h:214-217` says
  as much; `conn.h:29` says "re-armed once buffers return".
- `read_until` goes on after a malformed chunk end inside the same call
  (`engine.c:881-892`): what it has read so far is handed out, and the error shows
  at the next call.
- A reload returns -1 although hosts were loaded, when neither `default` nor the
  host that answered for unmatched names is among them (`certs.c:245-249`);
  `include/ioxd/tls.h:18-19` gives -1 "when nothing could be loaded at all".
- `drain_records` stops at a close_notify with what was delivered behind it in the
  reader as ciphertext, and early plaintext is injected behind that
  (`handshake.c:219-220`). A client must not send behind its close_notify, and
  `InOrder` is stated for those that do not (`Followable`).
- A KeyUpdate that asks for no answer passes the drain unnoticed
  (`handshake.c:225`): the kernel gets the key before it and cannot decrypt what
  follows. `Followable` excludes it as well.
- `current` compares the plain file only. A twin (`.br`, `.gz`) replaced later, or
  read while a deploy was half done, is served until the plain file changes, though
  `include/ioxd/static.h:21` says a deploy "shows at once". `ServedInTime` is
  stated for the file itself. Two requests that load the same file at once both
  insert an entry; the second one is found or ages out.

## 5. Proofs

`ConnProofs` proves, for every `RxQueue`, every `MaxCqes` and both values of
`CancelAny` (`ConnAssumption`: the two are positive), that `Spec` implies
`[]TypeOK`, `[]OneRecvOp`, `[]RefsCountOwners`, `[]CancelMatchesFlag`,
`[]ClosedRecvEnds`, `[]ParkedReaderIsWoken` and `EndIsFinal`.

None of these is inductive alone. That a cancel hits the recv it was meant for
(`CancelMatchesFlag`) needs to know where the recv can be (`OneRecvOp`), which
needs to know what `on_recv` may still do (`FrameInv`: its rest only ever runs
with the recv in the state its CQE implies, whatever the handler did), which
needs to know where the coroutine can be (`CoInv`, `RefsCountOwners`: a
coroutine that closed is gone) and that a pause under way has cancelled
(`PauseInv`). `IInv` is the conjunction; TLC checked it first.
The argument runs as follows: four lemmas say what staging an SQE, taking one,
posting a CQE and dispatching one do to the few facts about the queues the
invariant mentions (`Staging`, `Taking`, `Posting`, `Dispatching`); one lemma
per action then shows each conjunct preserved from those facts; `Inductive`
collects them, `Invariance` is the temporal step.

`WorkerProofs` proves, for any number of connections and buffers, any queue sizes
and any set of workers' set-ups (`WorkerAssumption`: connections and buffers are
finitely many and `None` is none of them, the bounds are positive), that `Spec`
implies `[]StarvedAreListed`, `[]AcceptIsArmedOnce`, `[]UnmapIsSafe` and
`[]BufferHasOneHome`. The four rest on one invariant (`Inv`, itself the theorem
`AlwaysInv`), since what a CQE does depends on what its connection waits for and
what it leaves behind is a buffer, a list entry or a reference. So each thing
that can be under way is counted over every place it can be in, and the record of
the connection says what the count is: its recv over SQ, kernel, CQ and the rest
of `on_recv` (`RecvOk`), its one-shot op (`OpOk`), its entries in the ready and
the starved list (`ListOk`), its references (`RefsOk`), its buffers once it has no
coroutine (`GoneOk`). Of the worker it says that a CQE of a recv with F_MORE has
the recv's end behind it or the recv still in the kernel (`EndFollows`), that
`live` is the number of open connections, that the accept is at one place unless
it is stalled, and has its cancel behind it once the worker drains (`AcceptOk`);
and of each buffer that it is once with the rings or once with one connection
(`BufferOk`), which for `BufferHasOneHome` is turned into a cardinality. Lemmas
about counting in a sequence (`CountCat`, `CountTail`, `CountRemoveAt`,
`CountListing`, ...) carry this through the queues; there is one lemma per action of
the loop and of a connection, and the kernel's actions go through a few shared
ones (`KernelStep`, `KEnds`, `KQuiet`).

The sixth theorem is the refinement, `Spec => Connections` (`WorkerImplementsConn`):
seen from any one of any number of connections, whatever the loop, the kernel and the
other connections do is a step of `Conn` or none. First come the lemmas on the mapping:
what a connection sees of a queue when an entry is added, taken or listed by the
blanket cancel (`PickedCat`, `OnSqAdd`, `OnSqTail`, `OnCqOnly`, ...). `Picked` is a
recursive function, and what it yields is shown by `NatSet` from the function that
records its values step by step (`Picks`). Then one lemma per action (`PauseSeen`,
`OnDataSeen`, `KBlanketSeen`, ...) shows `View(d)` for every connection `d`: the one the
action is about takes the `Conn` step of the same name, every other one stutters, and
steps of the worker as a whole (the blanket cancel, the re-arming, the end of the sweep)
are a step of each. The invariant `Inv` alone does not give that, so it is strengthened
(`RInv`) by what `Conn` takes for granted: a connection is pausing only inside `recv_pause`
(`PausingOk`); there is one blanket cancel, staged or answered, only during the shutdown,
a kernel that knows it does not refuse it, and the sweep is part of the shutdown
(`DrainOk`).

`BodyProofs` proves, for any heads, any sizes of chunks, of reads, of the pipe and
of the drain's limit and any input (`BodyAssumption`), that `Spec` implies `[]InStep`,
`[]OneReply` and `PromiseKept`. The tokens that wait were given their roles when the
peer wrote them, so the server's position says nothing about them by itself: the
invariant (`Linked`) is a chain of positions through the queue, from where the
server stands to where the peer stands, each the step of RFC 9112 behind the one
before. With it go the body's counters by where the coroutine is (`Counted`), what
the reply's head said and how much of the body may be left when it said that the
connection stays open (`Promised`), and what was sent so far (`Sent`). A close behind
a head that kept the connection is thereby one of four: the writer failed, the body was
refused, the reply came short or the handler asked late; the drain's own limit and an
unsent 100 are not among them, since the head took them into account.

`CertsProofs` proves, for every number of threads, tables, contexts and hosts
(`CertsAssumption`: finitely many threads and hosts, the null values are none of the
others), that `Spec` implies `[]RefsCountOwners` and `[]TableLifetime`: `t->refs`
is the number of owners, a table somebody points to is allocated, each is freed
by one thread only, and none is left allocated without an owner.
The count is exact only together with knowing who may be at which place with
which pointer: `PlaceInv` (what a process has in hand at each place), `OldInv`
(the table a reload will replace is still the one it read), `FirstInv` (the first
load is alone), `FreshInv` (a table being filled is known to its loader only),
`TablesOK` (types). `IInv` is their conjunction with the two properties. Lemmas about
cardinalities (`OneMore`, `OneLess`, `LastOwner`) say what acquiring and
releasing do to the sum of owners; `Acquiring`, `Releasing`, `Freeing`,
`Allocating` and `Publishing` say the same of the invariant, once for each
thing the code does to a table; one lemma per action applies them.
On top of `IInv`, `CtxInv` gives `[]ContextsCounted` (OpenSSL's count of a context is
the number of table entries and connections that have it, over a finite set of
live tables), and `KeepInv` the action property `ReloadKeepsHosts`: what a reload
has put into the new table covers each host it has passed, loaded anew or taken
over from the table it replaces.

`HandshakeProofs` proves, for records of any size, cut anywhere, any number of them
and any `PlainMax` (`HandshakeAssumption`), that `Spec` implies `[]InOrder`. The
property speaks of the end, what the handler got and whether the kernel met a record
it could not decrypt; the invariant says how the prologue gets there: `taken` is a
number of whole records and the piece in hand (`Hand`), the early plaintext is what
those records carry (`Early`), the kernel starts behind them unless a close_notify
stopped the drain (`Handover`) and goes on record by record (`Served`). Positions in
the stream are sums of sizes (`Ends`) and plaintexts are concatenations (`Carried`),
both recursive functions, so the lemmas about them (`EndsGrow`, `EndsAppend`,
`CarriedAppend`, `CarriedBegins`) are inductions with `NatSet`.

`ServerProofs` has three parts. Of `Run` it proves, for every number of workers, of
listeners and of runs (`RunConstants`: they are naturals), that `RunSpec` implies
`[]RunTypeOK`, `[]WorkersWithinRun` and `FailureIsReported`. The invariant (`RunInv`)
places each worker against the counters of the main thread (`Placed`: those not
started are none, those joined have left, one that failed has left) and says what
`rc` holds once a start failed (`Counted`).

Of `Server`, for any registrations, any limits and any number of workers
(`ServerConstants`), it proves that `ServerSpec` implies `RunSpec`, so that the three
hold with an application and its requests around them, `[]ChainRunsOnce` and
`TableIsReadOnly`. The chain a request runs was flattened when the table was
resolved, from groups that a late registration may still add to; so `ServerInv` says
of the registrations that the groups are a forest whose parents come first and that
each endpoint has a home in it, of the tree that its nodes hold endpoints that exist,
of the resolved chains that they are what the groups above an endpoint have, root
first (`RoutesOK`), and of each request that its chain is that of its route and that
its cursor and its running links are in order (`CtxOK`). What `flatten_chain`
prepends from the inmost group up and what `Under` appends from the root down are the
same sequence (an induction over the depth), and `walk`, with its way back from
branches that came to nothing, only ever answers with an endpoint of the tree (an
induction over the segments left).

Of `StaticCache` it proves, for any files, sizes, budget, entries and handlers
(`StaticAssumption`: finitely many handlers at once, sizes are naturals), that `Spec`
implies `[]BudgetIsKept`, `[]SendsReadLiveEntries` and `[]ServedInTime`.
`make_room` drops entry after entry in one step, so the invariant is stated of a
table and of the handlers apart (`Good(s, q)`): each table on the way is a good one
for the next drop. It says that the table holds each entry once, live and charged
(`Charged`), that an entry's references are its senders, and that an entry being
loaded is known to its loader only (`Held`). For `ServedInTime`, with any
`revalidate_ms`, `TimedInv` adds the times: what the disk has now was seen now (`Times`);
an entry that was not dropped was checked no later than its version was last seen, and
what a handler has in hand was seen in time for when its request came (`Timely`). An entry is stamped before it
is read, and `current` stamps it only when the disk agrees or the entry is dropped, which
is what keeps the first of these.

`ReplyProofs` has two parts. Of `Reply` it proves, for a slab and a coded slab of any
size, any number of writes and any declared lengths (`ReplyAssumption`: the slabs
hold something, lengths are naturals), that `Spec` implies `[]WellFramed`,
`[]NoFalseEnd` and `[]KeptIsComplete`. The three speak of what the client has read,
which is what was written only when the reply is over; before that the rest is on
its way, so the invariant follows it. `Flow` says that what the client has, the coded
slab, the coder, the slab, the flush and the call in progress hold together, in this
order, all the handler wrote, with the coder's trailer from the final flush on
(`Stream`); `ReadOn` that the client stands where the framing puts it after as many
bytes (`Stand`: inside a declared length, between two chunks, or reading until the
close); `Heading` what the head promises; `Measured` that a length which was counted
and not declared is sent at once by the last flush; `Calling` and `Staged` where a
call and its flush can be, and what the flush has decided by then. A reply that failed
or is over keeps none of this, only what its client has read (`Settled`). `Client` is
a fold over the wire: `AfterBoth` and the lemmas on what it makes of plain data, chunks and
the last chunk (`LenReads`, `CloseReads`, `ChunkReads`, `LastReads`) are inductions with
`NatSet`. One lemma per
action follows, with the sends split by whether a declared length cuts them
(`SendAll`, `SendCut`).

Of `Json`, for every `DEPTH`, every `Cap` and every set of `Sizes`
(`JsonConstants`: sizes and slab are positive), it proves that `JsonSpec` implies
`[]WritesJson` and `FailedIsFinal`. `WritesJson` is inductive only with what ties
the reader to the writer: as long as the writer has not failed, the reader is at
the writer's depth with its kinds of levels, each level below the innermost has
just been given its value, and what came last in the innermost is what the
fields say of it (`Mirrors`, `Standing`); a key waits only inside an object
(`KeysInObjects`). Lemmas of the reader say what it makes of a comma, a mark
that has its place, an opening and a closing bracket, and of what was cut
(`LeadFields`, `ReadsNow`, `ReadsOpen`, `ReadsClose`, `CutIsGood`); one lemma per
call uses them.

`PipeReaderProofs` proves, for any number and size of kernel buffers, any
gathering buffer and any number of bytes (`PipeAssumption`: sizes are positive,
no buffer is called `none` or `buf`), that `Spec` implies `[]BufferHasOneHome`,
`[]BytesInOrder` and `[]KeptStays`. The
count is not inductive alone: `cur_done`, the unpinning in `release` and `close`
give a buffer back because of the reader's flags, so the invariant (`Held`) adds
what the flags say of the two buffers the reader may hold (`Own`: they are the
same one exactly when `cur_is_pinned`, and a run kept in place has its buffer).
Each helper is shown to keep `Held` (`CurDoneHeld`, `PinHeld`, `UnpinHeld`,
`GatherHeld`, `ConsumeHeld`, ...), then each action; `OccAppend` and `OccTail` say
what a delivery and a taking do to the count of the queue.

The bytes need `Held`, since a delivery overwrites a buffer that is in the ring and
must not be one the reader points into, and `Good`, which says where each byte is:
the indices are inside their buffers (`Fits`), the live span is what was given and
not consumed (`Lives`), the run reads as what was kept (`Runs`), a frozen byte is
below the floor of the gathering buffer or in the pinned kernel buffer before all
that is still done there (`Stays`), and the queue holds the bytes from the last
given to the last that arrived (`Feed`). `keep` is two steps in the code, a move and
a consume, and between them the live span counts bytes that are already kept, and
may be overwritten by the move; so the invariant is stated with the number n of bytes
about to be consumed, and holds with n = 0 between actions. Copies are read through
lemmas about `Over` and `Span` (`OverIs`, `SpanIs`), the overlapping ones through
`Sliding`; then each helper (`CompactData`, `AppendData`, the three ways of keeping,
gathering, consuming, unpinning) and each action. TLC checked the invariant on the
instance of `MCPipeReader` and on a larger one before it was proved.

`Conn`'s `TypeOK` and `EndIsFinal` are proved and not listed with a run.

Induction. The library's induction theorems have an operator as a parameter, which
the provers cannot instantiate. Where a sum or a chain over a sequence is needed,
the proofs use induction as a fact about sets (`NatSet`: a set with 0 and closed
under successor has every natural), proved from `WFMin` of the library.

Only model-checked:

- the liveness properties: `ClosedIsRecycled`, `PauseCompletes`, `StopEndsTheWorker`
  and the others under fairness, which is out of reach of the prover used;
- `DispatchIsRight` of `Server`: that `walk` answers with an endpoint of the tree is
  proved, that it is the one the registrations mean is not. It compares what the
  insertions, `walk` with its way back and the status of a request nobody serves come
  to with a definition over all registrations; both sides are folds and selections over
  sequences, which the library has no lemmas for.

## 6. Plan

Order of work: first the connection and the worker that everything rests on, then
the path of the bytes (pipe, body, reply), then what is shared (certificates,
files). Each module comes with its MC module, its runs and its mutants.

1. Done: `Conn`, `ConnProofs`, `Worker`, `PipeReader`, `Body`, `Reply`, `Certs`,
   `CertsProofs`, `Handshake`, `StaticCache`, `Router`, `Run`, `Server`, `Json`,
   `PipeReaderProofs`, `BodyProofs`, `WorkerProofs`, `HandshakeProofs`, `ServerProofs`,
   `ReplyProofs`.
2. Left to model: the counters of the rings modulo 2^32 and the wrap of the buffer
   ring's index, the framing checks of `parse_framing` inside `Body`.
3. Left to prove: `DispatchIsRight`, in `ServerProofs`.

## 7. Not modelled

Assembly stack switching (`lib/io/switch_x86_64.S`): the models rely on a
resumed coroutine running to its next yield. Socket set-up, CPU pinning, log lines,
page mapping. OpenSSL, zlib, brotli and picohttpparser are external; HKDF is
abstracted to whether it succeeds. The digits and escapes of JSON, header
formatting, the lookups of `api.c` and `find.c`, `ioxd_configure`'s checks, query
decoding and the conditional and range logic of static files are text and
comparison without shared state. The close_notify at the end of a TLS connection
is one best-effort send.
