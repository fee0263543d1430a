# csrv: a TLA+ model of the server, its cache of DSOs and its handlers

csrv (`src/src/001`) is a single-threaded HTTP server built on mongoose. Its
pages are shared objects: a request for `/tpl` makes the server open
`./www/tpl.so`, call its `entry` function and keep the object open in a cache,
unless the request says `?flush=true`. DSOs are rebuilt and deployed while the
server runs. Everything below is about the C code under `src/src/001`; line
numbers are those of the file named with them, and `a.c` alone is
`libsrc/app/src/a.c`.

## 1. Inventory

| Component | State | Operations | Hard parts |
|---|---|---|---|
| Hash map (`libsrc/app/src/map/map.c`) | buckets, capacity, count, tombstone count, insertion list | set, set_free, get_set, get, remove, remove_free, size, iterate | probing over tombstones, resizing while walking the list, probes without a bound, the cap in iterate |
| Server core (`a.c`) | maps `mglb` (./lib) and `mloc` (cache), `running` | lodlibs, poll loop, hdl_dso, exlib, unloading | who owns each dlopen reference; error returns between dlopen and the cache; files that change between access, dlopen and the next request; messages delivered while shutting down |
| Dynamic loader (external: glibc) | reference counts, names of mapped objects | dlopen, dlsym, dlclose | an object is found by its *name* before its file is looked at |
| logctl (`libsrc/logctl/src/a.c`) | a static buffer mongoose points into | entry | a pointer that outlives the DSO |
| stop (`libsrc/stop/src/a.c`) | none of its own; clears `running` | entry | the loop ends before the reply is written |
| thread (`libsrc/thread/src/a.c`) | flag, mutex, `tbuf`, counter, eight workers | start, stop, setperiod, cancel; worker loop | real concurrency: the mutex is initialised while in use, joins under the mutex, cancellation inside the critical section |
| ex0, data1 | data1's `acc` | entry; load and unload | a symbol taken from another DSO, which can be rebuilt and unloaded on its own |
| lst, blog | lst: the connection of its last request | entry, exported helpers | RTLD_GLOBAL gives a new build the helpers of an old one |
| acc, dec, nop, data2 | the server's `val` | entry | none: one thread, and the server is never unmapped |
| dsoctl | none | entry: prints both maps | sees only what iterate visits |
| req, addr, buf, mjson, metrics, tpl | at most a request counter | entry | allocation failures in req; otherwise formatting |
| quickjs, duktape, tplcpp, tplrec, json, cpr, hiberlite, sqlitecpp | none that outlives a request of theirs, or a vendored library's | entry | third-party engines |
| mongoose (`libsrc/app/src/mongoose`, vendored) | connection list, I/O buffers, protocol handler of each connection, log level | poll, accept, read, write, close, HTTP parsing, static files | the list changes while it is walked; pipelined requests; a file that is sent while requests arrive; delivery at the close; lengths below zero; running out of descriptors |
| mjson, dlfcn.c (vendored) | none | formatting; Windows shim | none here |
| 000 | none | the older prototype | none here |
| makefiles, `scr/` | files | build, deploy, clean, run | `cp` over a mapped file |

How they interact. mongoose calls `cb` for each HTTP message, one at a time;
`cb` logs it (which reads the log level), `hdl_dso` looks for a DSO of that
name and `exlib` finds it in the cache or loads it, and calls its `entry` with
the connection. Handlers talk back through globals of the server (`running`,
`val`, both maps), through mongoose (`mg_log_set`), or through each other's
exported symbols. Only the thread handler creates threads. The file system is
shared with whoever builds and deploys DSOs.

What makes each component correct: the map is a map, whatever its buckets look
like; every reference obtained from the loader is closed once, and code is
called only while it is mapped; a flush runs what was deployed; a server that is
told to stop ends, with everything unloaded that it can still reach; a handler that hands out a pointer
into itself is not unloaded under it; and a stop of the thread handler leaves no
worker behind. The hazards that threaten this are listed, each at its line, in
`PROJECT.json`; those no property covers yet carry a note that says why.

## 2. Modules

| Module | Models | Role |
|---|---|---|
| `OrderedMap` | what `map.h` promises | abstract specification of the map |
| `HashMap` | `map.c` | implements `OrderedMap` (property `ImplementsOrderedMap`) |
| `DsoCache` | `a.c`, the loader, the file system, stop | the core: the life of the process seen from its DSOs |
| `LogCtl` | `logctl/src/a.c`, `mg_log_set`, `LOG` | extends and composes with `DsoCache` |
| `ThreadDso` | `thread/src/a.c`, glibc's mutex | the handler and its workers |
| `ThreadHost` | `thread/src/a.c` in the server | extends and composes with `DsoCache`: the code under the workers |
| `SymbolScope` | RTLD_GLOBAL in `a.c`, ex0, data1, lst, blog | symbols across DSOs and builds |
| `Exchange` | what a client that waits is promised | abstract specification of the server's connections |
| `HttpServer` | `appmain`, mongoose's poll loop, `http_cb`, `static_cb` | implements `Exchange` (property `ImplementsExchange`) |
| `DsoCacheProofs`, `LogCtlProofs`, `ThreadHostProofs`, `ThreadDsoProofs`, `HashMapProofs`, `HttpServerProofs`, `SymbolScopeProofs` | | theorems and proofs about the module each extends |
| `Subsequence` | | the elements of a sequence that are in a set, for `HashMap` and `SymbolScope` |
| `BasicLemmas` | | induction over sets of numbers and of sequences, remainders, `Only` of `Subsequence` |
| `MC...` | | small instances for TLC |

Definitions called "Mutant" are broken variants of the definition that follows
them. No specification uses them; they record which slip of the code each
property would notice (`PROJECT.json`, "mutants").

### HashMap
Buckets are `[key, value]`; a key is a pointer, and `Content` and `Hash` say what
it points at. The intrusive list is the sequence `order` of bucket indices.
`Call` picks up a request and, for setters over the load limit, begins a resize;
each `Resize` step is one iteration of the do-while loop (map.c:107-122); then one
of the operations takes effect in a single step, probing included. The refinement
maps a state to the live elements of the list, those already moved before those
still to be moved, so resizing has to be invisible, and shares `call` and `ret`
with the abstract map, so every call must do and answer what `map.h` says.

### DsoCache
The maps are functions here (`HashMap` is why that is right) from paths to
*images*. An image is an inode: one build of a file. One action per step of
exlib that touches the cache, the loader or the handler, so that the file system
(`Deploy`, `Undeploy`) can move in between. `Known`, `OpenTarget`, `DlOpen` and
`DlClose` are glibc's rules: a mapped object is found by a name it was opened
under, otherwise by its inode. Paths `//x` and `/x` are different names of one
file (`FileOf`). `Lose` stands for the returns of exlib that drop the only
handle; the history variable `lost` counts them. After `running` was cleared
messages still arrive (`late`): the rest of the last poll, and the connections
mg_mgr_free closes. Kinds of build: an ordinary handler, the stop handler, a DSO
without `entry`, and a file that cannot be loaded.

One thing about the maps does not follow from their being maps: `hashmap_iterate`,
with which appmain unloads what they hold, gives up after 1002 nodes of the map's
list, and a flush leaves its node there as a tombstone. So `nodes` and `libNodes`
are the lists: `AppendNode` and `Tombstone` are what setting and removing do to
them, with or without the resize that drops the tombstones, `Reached` is what
iterate gets to with a cap of `IterReach` nodes, and `UnloadLib`, `UnloadDso` and
`Exit` are about that only. `UnloadedAtExit` says that what is still mapped at the
end is exactly what lost handles and entries behind the cap keep.

### LogCtl
Adds mongoose's pointer `s_spec`, the buffer of each mapped logctl image, and
history. It conjoins one update to each step of `DsoCache`, so every interleaving
of loading, flushing and shutdown is there. Reading the level is not an action;
`LogReadable` asks that it can be read whenever the next message may be logged.

### ThreadDso
Threads are the server's thread and `NTHREADS` workers; `at` says where each is.
Every access to shared memory is a step, the unsynchronised ones (`running`, the
load and the store of `reqidxthread++`) included. Because each worker calls
`pthread_mutex_init` on the shared mutex (thread/src/a.c:53), which POSIX leaves
undefined while the mutex is in use, the mutex is modelled as the build provides
it: glibc's futex word (0, 1, 2), its owner field with the assertion that aborts
the process, and sleepers that only a release of a contended word wakes.
`Begin` resets word and owner and wakes nobody. Cancellation takes effect at
`usleep` or at a `printf` that writes, also inside the critical section. A join or
cancel of the NULL left in `tbuf` ends the process (`NullThread`). A slot of `tbuf`
holds a descriptor, named after the worker it was allocated for, or `NULL`. When
pthread_create fails (`CreateFails`, which sets `failed` until the next start) the
slot keeps what it had, if there was no memory for a descriptor, or holds one of no
thread, if clone failed: glibc stores the descriptor first. Such a `Dangling` one
may be handed out again by the next call (`Create`); joined, it ends the process or
yields a number nobody counted (`BadThread`, `JoinNobody`). The period is not
modelled: `usleep` takes any time.

### ThreadHost
`DsoCache` with a thread page, whose workers outlive the call that started them.
Each build has its own `running`, `tbuf` and workers (`on`, `tbuf`, `crew`),
because they are static variables of the DSO; they vanish when the loader unmaps
it, and the workers become `orphans`, which die of the next return from `usleep`.
`CrewInReach` asks for a path by which the workers can be stopped, from `access()`
to the lookup of the image (`LeadsTo`); while no file is in the page's place there
is none. A command is one step here, since `ThreadDso` has the races within one.

### SymbolScope
A request is one step, since `DsoCache` has the interleavings, with one disjunct
for each way exlib returns: the handler is cached (`Answers`) or loaded
(`Loading`), or there is no memory for the path (`NoMemory`), dlopen fails
(`Refuses`), or the handle just opened is dropped, for want of `entry` or of memory
(`Loses`; `lost` counts these, as in `DsoCache`). The loader keeps,
beside references and names, the global list of images (`scope`) and the image
each one's symbol was bound to (`bound`), which stays mapped as long as its user.
One symbol per file is enough: ex0 needs `acc` of data1, lst exports and needs
`ls`. `Kept` is what remains mapped when a handle is closed: the least set of
images that has every image with a reference and every image bound to by one of
the set. `c` says whose connection an image's static `c` holds. blog's `test1` is
bound in the same way but is given its connection as an argument. The rules for
binding and unmapping were compared with glibc's behaviour on small DSOs built as
the makefiles build these; thread's functions are hidden and cannot be mixed.
`DsoCache`'s `FlushReloads` is about pages that do not take symbols from each
other; `OldOnlyIfHeld` is its counterpart for those that do, with the same three
holders (another name, a lost handle; ./lib has no pages) and bindings as a fourth.

### HttpServer and Exchange
`conns` is `mgr->conns`; `todo` is what `mg_mgr_poll` has still to visit, so that
accepting (at the head of the list) and closing happen behind the back of the
walk, as in the code. A visit goes through the labels `visit`, `http_cb`, `write`
and `close`; clients move between any two of them. A request is its number and
the part that was sent; a reply is pieces, so that a buffer can be full and a
write partial. `file` in a connection's record is the `pfn`/`pfn_data` pair:
`static_cb` is the handler while it is set. `Read` covers MG_EV_POLL and
`read_conn`; `HttpCb` is one turn of `http_cb`'s loop, with `mg_http_parse` as
`Malformed` and `Complete`; `Close` includes what `http_cb` delivers at
MG_EV_CLOSE. `mg_mgr_free` is the same walk with every connection closing. The
record `handled` notes what each handler was given and when, `lost` the files that
nobody will close.

mg_to64 takes a minus sign, and mg_http_parse adds a negative Content-Length, cast
to size_t, to the header's length. Two fragments stand for it. With `loop` the sum
is zero: the message is complete, nothing of it is deleted, and `http_cb` hands it
to `cb` again. `MaxTurns` of these turns are told apart, after which `Spin` is the
server's only step. With `front` the sum is a part of the header: that part is
deleted after the request was handled, and the rest of the header, which the client
sends as a fragment with a number of its own, is parsed as a request. Either way the
handler gets a body of nearly SIZE_MAX bytes (`endless`). `accept` fails when there
is no descriptor left, and the client stays in the backlog; or it yields one that
select cannot handle, and the client is closed at once. Both happen only when
FD_SETSIZE descriptors are in use (`Accept`).

Time is not modelled: select may return at any time, and says
that a socket has room, or not, as it likes.

`Exchange` knows neither buffers nor polls. A client that waits for each reply
gets exactly the replies it is owed, in order; its connection ends only if it hung
up, the server is stopping, it was never accepted, or after the reply to a HEAD of
a file (which drains the connection, mongoose.c:1347).

## 3. Runs

| Run | Expect | What it shows |
|---|---|---|
| `HashMap` | pass | types; the counters match the table; some bucket is always vacant, so probes end; the list covers the table; every live key is found; refinement of `OrderedMap` |
| `HashMapIterate` | violation | `hashmap_iterate` does not reach every element (map.c:374 against map.h:65) |
| `DsoCache` | pass | references are accounted for; called and cached code is mapped; a flush reloads unless someone else holds the image; at exit all is unloaded but lost handles and what `hashmap_iterate` did not reach; a stopped server ends |
| `LogCtl` | pass | only a flush of logctl can leave the log level dangling |
| `LogCtlFlush` | violation | it does: set a level, flush, send any request, as `libsrc/logctl/test` does |
| `ThreadDso` | pass | a stop that answers leaves no worker and a sane mutex; `tbuf` has every worker, and nothing else unless pthread_create failed; the shared counter may lose counts and never invents any |
| `HttpServer` | pass | refinement of `Exchange` for a client that waits, beside one that does not; every reply such a client waits for arrives, unless accept fails for it for ever; the loop ends after any stop; both unless `http_cb` spins on an empty message |
| `HttpHasty` | pass | types and buffer sizes; requests are handled in order, and once unless the message is empty; replies are mixed only by pipelining behind a file; a request is left lying only behind a file; files are lost, and bodies cut, only by the causes named |
| `DefaultPort` | violation | started without a port, as `scr/run.sh` does, the server dies (a.c:66) |
| `ThreadHost` | pass | workers lose their code only by a flush of their page or the shutdown; until then, while any file is in the page's place, a path leads to the build that can stop them |
| `SymbolScope` | pass | bindings stay mapped, the shutdown included; ex0's counter survives flushes and rebuilds; a page mixes builds only under two spellings of its path, and runs an old one after a flush only if something holds it, a lost handle included |
| `ThreadStop` | violation | stop joins, holding the mutex, a worker that waits for the mutex: the server hangs |

Bounds, and why they are enough:

- `HashMap`: two keys of equal hash and two pointers to one of them, a table of 4
  that grows to 8. The keys collide at the last bucket, so probes wrap; four
  removals fill the load limit with tombstones; a second resize would be blocked by
  `MaxCapacity` and repeats the first.
- `HashMapIterate`: the cap is 1 in place of 1000, which moves the break from the
  1002nd list node to the third; the comparison and the increment are the code's.
- `DsoCache`: one file with two names in ./www and two in ./lib, two builds of every
  kind, at most two lost handles per image, one late message. Two builds are what
  staleness needs, two names what aliasing needs. `MaxLeaks` stops new requests only
  after a handle was lost twice. The cap of `hashmap_iterate` is one node in place of
  1002, so that one tombstone, or one other entry, hides the next entry of either
  map; the list of the cache has at most three nodes (`MaxNodes`), after which a
  resize has to come. (`AppendNode` lets a resize come at any time, since
  the capacity is not in this model.)
- `LogCtl`: logctl under two names, another page, one build each; a cap of two nodes.
- `ThreadDso`: two workers in place of eight. With the handler they are three
  contenders: one holds the mutex, one sleeps on it, one initialises it. Two rounds
  per worker and start suffice for a lost update; starts are possible until two
  rounds were reported, so stop-and-start-again is covered, with a pthread_create
  that failed in between. The theorems of section 5 lift the number of workers.
- `HttpServer`: a client that waits, with two requests of any kind, beside one that
  does not, with one request for a stop or a file, whole, in parts or with a
  Content-Length that takes back its header. `HttpHasty`: the roles are exchanged,
  two requests: of any kind, a page or a file in two parts, or a file with a
  Content-Length below zero. Two turns of `http_cb` on the same request (`MaxTurns`)
  show what any further one does. Two requests are what
  pipelining needs (three, of one client alone, were tried as well). Files have two
  pieces and buffers grow by one, so `static_cb`'s buffer of two is full when a
  header is in it, and a file may end exactly at its end. FD_SETSIZE is 3: the
  listener, a connection and its file use it up, so that the other client is refused.
- `ThreadHost`: two names of one file, two builds of it, of every kind; two slots;
  at most two lost handles.
- `SymbolScope`: data1, ex0, and lst under two names, two builds of each (three were
  tried as well), two calls of ex0, one lost handle: it keeps one image mapped, and a
  second one adds a reference or keeps another.

Fairness. `DsoCache` has weak fairness on exlib's steps and on the life cycle:
one thread that executes straight-line code and is not stopped by anything (a
handler's call is taken to return). Requests and the file system are not fair.
`ThreadDso` has weak fairness on the handler and on each worker: the kernel runs
every runnable thread. No fairness is assumed for who gets the mutex.
`HttpServer` has weak fairness on the server's thread (but not on `Spin`, which
changes nothing), and strong fairness on a poll
that finds room in the socket of a client that waits: such a client reads what it
is sent, so its socket cannot stay full. Clients need not send, read or hang up
otherwise. `Answered` names the two cases in which this is not enough: accept fails
for the client again and again because descriptors are used up (lost files keep
theirs for ever), or the thread never comes back from `http_cb`; `ServerEnds` has the
second exception as well.
`ThreadDso`'s runs do not check for deadlock, because the handler really can hang
there; `ThreadStop` is about that. All others check it.

## 4. Findings

- `hashmap_iterate` gives up after 1002 list nodes and counts tombstones; `map.h`
  promises every element. Consequence: after many flushes dsoctl omits entries and
  appmain leaves DSOs open.
- `logctl` gives mongoose a pointer into its own DSO; flushing logctl leaves it
  dangling for the next request.
- The thread handler's stop joins its workers while it holds their mutex.
- Without an argument the server dies of `strlen(NULL)` after announcing the default
  port, which is how the run scripts start it.

Not findings, since nothing in the repository says otherwise, but worth knowing:

- The reply of stop is normally lost. It is appended to a send buffer after select
  has been asked what is writable, and there is no next poll (a.c:74).
- Requests pipelined behind a static file's get their replies into the middle of it,
  or are left in the receive buffer until the client sends more (mongoose.c:1673,
  1180); the file that is overtaken by another is never closed.
- A request whose body was cut off by a hang-up, or by the shutdown, is handled as if
  it were complete (mongoose.c:1676).
- A Content-Length below zero is taken at its word (mongoose.c:996): if it takes back
  the whole header the server handles that request for ever, and nothing else.
- A failed pthread_create goes unnoticed, and the next stop joins what it left.
- After a redeployment a page requested by two spellings of its path may call the
  helpers of its old build. lst's then write to the connection of an earlier request
  (lst/src/a.c:5), and the old build cannot be flushed while the new one is bound to it.
- A flush of the thread page while its workers run takes their code away.

## 5. Proofs

Every safety property that a passing run checks, and both refinements, are theorems
here, for every value of the constants. Each module proves `Spec => []Inv` from an inductive invariant (`IInv`, or
the name given below), which the runs' instances were used to check first.

**`DsoCacheProofs`**: `TypeCorrect`, `Accounting` (`RefsAccounted`), `CallsAreSafe`
(`RunsMappedCode`), `CleanExit` (`UnloadedAtExit`, for every `IterReach` and every list),
`FlushIsFresh` (`FlushReloads`). The invariant is `TypeOK /\ RefsAccounted /\ Control`. Accounting is what makes the
rest work: a reference count equals the number of holders, so a holder implies a
mapped image, and closing it cannot take another's. `Control` says what each label
implies about request, handle and symbol (for instance that the path of a flushed
request stays out of the cache until its handle is closed), that every entry has a
node on its map's list, and that a stale image which a flush is about to run is held
by someone else. One lemma per action; counting
lemmas over finite sets carry the arithmetic. `Named` (a cached image is known to the
loader under its path) is proved beside it for the two modules that follow.

**`LogCtlProofs`**: `LogTypeCorrect`, `FlushAloneDangles` (`DanglesOnlyByFlush`).
`LogCore` says why: unless logctl was flushed, the buffer mongoose points at belongs to
an image the cache holds, which `RefsAccounted` says is mapped. A flushed call of
logctl sets the pointer too, but began with a flush.

**`ThreadHostProofs`**: `HostTypeCorrect`, `FlushAloneOrphans` (`OrphanedOnlyByFlush`),
`CrewStaysInReach` (`CrewInReach`). `CrewCached` is the counterpart of `LogCore` for
builds with workers, `CrewNamed` says that a build which has workers was opened under
some path of the page: the loader finds it again under that name, whatever was
deployed since, as long as `access()` finds anything there.

**`ThreadDsoProofs`**, for any number of workers: `TypeCorrect`, `StopLeavesQuiet`
(`QuietWhenStopped`), `TbufIsExact` (`TbufListsWorkers`), `CountsLoseOnly`
(`CountNeverExceeds`). The invariant adds `Quiet` (with the flag down and no join under
way there is no worker, and the mutex follows the handler's own label), `Sweep` (what
the loops of start and stop have done so far) and `Exact` (every live worker is in its
own slot, and a slot with another's descriptor has no worker of its own). Nothing is claimed of the
mutex while workers exist, because nothing holds; the argument is that a worker exists
only while the flag is up or a join runs, and the last unlock of stop restores the
mutex. `WorkerStep` handles every step of every worker at once. Since mutual exclusion
fails, the counter needs an argument without it: `Tally` bounds the counter, and every
value a worker has loaded and may store later, by the sum of all rounds, which never
shrinks. The lemmas before it (`FoldOf` to `Differ`) say what that sum is, that its
order does not matter, and how it changes with one slot.

**`HashMapProofs`**, for any hash function, keys and capacity: `TypeCorrect`,
`Counting` (`CountsMatch`), `Termination` (`ProbesTerminate`), `ListIsTable`
(`ListCoversTable`), `Reachability` (`LiveReachable`). The invariant `TableOK` has the
counters, the list, and

- `Shape`: a bucket without a key is vacant or a tombstone, and nothing else;
- `Distinct`: no key is stored twice, counting what a resize has still to move;
- `Reachable`: between the place of a key's hash and its bucket nothing is vacant.
  `LiveReachable` itself is not inductive: where a probe ends depends on all buckets
  it passes. Removing turns a bucket into a tombstone, which a probe passes too;
- a load of at most three quarters, from which the vacant bucket follows.

`CallOK` adds that a setter which is about to insert has room for one more, and that a
table being filled has no tombstones, which is why `resize_entry`, which stops at a
tombstone where `find_entry` does not, puts a key where a probe finds it.

The refinement rests on it: `ImplementsIfUncut` and `Implements`
(`ImplementsOrderedMap`). The elements of the abstract map are the live ones of a
sequence of nodes, so what one bucket contributes lies between what the nodes before
and after it do (`Splitting`, `Amid`); `HitIs` finds the abstract position of the
bucket a probe ends at, from which a change, a removal and a second place after a
resize follow. `Call` is OrderedMap's, whether it begins a resize or not, `Resize` is a
stutter, and each operation is OrderedMap's own. Only `hashmap_iterate` is not: it gives
up after `IterBreak + 2` nodes. `ImplementsIfUncut` asks that no iteration meets more,
`Implements` concludes it from the size of the table (1336 buckets for the break at
1000); the run `HashMapIterate` shows what happens beyond.

**`HttpServerProofs`**, for any clients, requests, file lengths and buffer sizes. Two
layers. `IInv` (`ListOK`, `FlagsOK`, `Typed`, `ClientOK`) says of each client what list,
flags and requests look like; it gives `TypeCorrect`, `Order` (`HandledInOrder`),
`Prompt` (`WaitsOnlyBehindFile`) and `Bodies` (`CutOnlyAtTheEnd`). `RInv` rests on it and
says which pieces of which replies a client that waits has received, or has in its send
buffer, or in the file being sent (`Replied`), when a file is open (`Opened`) and what no
longer happens to a connection that is gone (`Quiet`); it gives `Delivery`
(`RepliesInOrder`), `Leaks` (`LostOnlyByHaste`) and `Implements`, the refinement
`Spec => ImplementsExchange` (its safety part, which is all `Exchange` states).
What a request with an empty message does would make each of these facts weaker, but
once `http_cb` goes round with one the server never does anything else. So the theorems
are about `IInv \/ Turned` and `(IInv /\ RInv) \/ RTurned`: `Turned` and `RTurned` say
what is still true while the message in front of one connection has no length
(`Turning`). `TurnBegins` leads there; of the server's actions only `HttpCb` is
possible then (`OnlyTurns`), and neither its turns (`OneTurn`, `TurnStep`) nor the
clients (`TurnGoesOn`) lead away. For the rest of the refinement, step by
step: Connect, HangUp and Send are Exchange's own; Accept is its Accept, or Drop of the
one connection there was no descriptor for; a write that sends something is Receive;
handling a stop is Stop; a close is Drop for a client that waits, Stop or a stutter
otherwise; the listener's close drops all who were waiting to be accepted. All else
stutters.

**`SymbolScopeProofs`**. Two layers again. The first (`DiskOK`, `Sound`, `Typed`) is about
the loader: an image is mapped if and only if a map of `a.c` holds it or a mapped image
is bound to it, references count the handles, in the maps or lost, and an image with a
handle in a map is known by the path it is held under. It gives `TypeCorrect` and `NothingUnmappedInUse` (`BoundMapped`).
The second (`RInv`) gives `CounterIsKept` (`CounterKept`: there is one library with `acc`, so
the count of calls and `acc` move together), `OneNameSuffices` (`OneNameIsEnough`: requested
under one name, a page is never mapped twice, lost handles or not, so the first provider
of what it needs is itself) and `OldIsHeld` (`OldOnlyIfHeld`). The lemmas on what closing keeps of the
scope, and in which order, come first.

Assumptions. They are the named ASSUMEs of the modules, and TLC evaluates them too.

- Bounds are naturals; paths, libraries and slots are finitely many; `None`, `NULL`,
  `Listener`, `NoFile` and the like are none of the values they stand beside; a hash is a
  natural; values are numbers and the tombstone is one other than 0 (only a bucket
  without a key is tested for it, so a caller may store 0xDEAD too).
- `PageAssumption`, `LibraryAssumption` (`SymbolScope`): a page that exports the symbol pages
  look for needs the same one (lst and blog; all others are built with
  `-fvisibility=hidden`), a page's file is not a library's, and one library exports it
  (data1). `CounterIsKept`, `OneNameSuffices` and `OldIsHeld` use them; they are facts about
  the DSOs of this repository, not about the server.

Induction. The library's induction theorems take a predicate, which the provers cannot
instantiate. `BasicLemmas` derives forms about *sets* from `WellFoundedInduction` that
they can: a nonempty set of naturals has a least element, a set closed under successor
is all of them, and a set of sequences closed under Append is all of them
(`SeqInduction`). What the recursive functions and folds compute here, the sum over
slots in `ThreadDso`, `Only` and `FlattenSeq`, is proved with these.

Only model-checked: the liveness properties `ShutsDown`, `Answered` and `ServerEnds`
(fairness and ENABLED are out of the prover's reach). The violation runs are
counterexamples, so there is nothing to prove about them.

## 6. Not modelled

- hdl_dso's choice between DSO and static file by the spelling of the URI
  (a.c:131-153): string handling whose outcomes, a DSO or mongoose's own reply, are
  both in the models.
- The length of the address buffer (a.c:66), one byte short: heap layout.
- Of mongoose: chunked uploads, a request line that arrives in parts (it is waited
  for, like a body; the rest of a header left by a negative Content-Length is one
  fragment and arrives after what was left of it), a Content-Length of -1, which
  mongoose takes for none, fopen failing for a static file, ranges and etags, the text of listings, and all that csrv never
  calls (TLS, UDP, DNS, WebSocket, MQTT, SNTP, timers, outgoing connections).
- Heap blocks: leaked paths, keys and DSOEntries of a.c are not tracked, nor the
  allocation ladders of req and blog; references of the loader and descriptors are.
- A deployment that overwrites a mapped file in place (`cp` in the makefiles without
  a clean): every build is a new inode here, otherwise the mapped code is undefined.
- Want of memory elsewhere than in exlib and hdl_dso: mongoose's buffers, the map.
- Handlers that only format a reply, and the vendored engines and libraries
  (quickjs, duktape, nlohmann json, pcre2, sqlite_orm and others). They are nearly all
  of the repository's lines, in two copies, and csrv calls them once per request as
  black boxes; its own program is about two thousand lines beside mongoose.

## 7. Plan

Everything sections 1 and 2 name is modelled, and what section 5 lists is proved. Left:

1. An abstract specification of the cache, as `OrderedMap` is of the table and
   `Exchange` of the connections: what a client may rely on when it requests a path,
   flushes it and deploys in between; `DsoCache` shown to implement it.
2. The safety part of the shutdown: a measure over the labels of `DsoCache` and of
   `HttpServer`'s last walk that every step of the server decreases once `running`
   was cleared, from which `ShutsDown` and `ServerEnds` follow by fairness alone.
3. Simpler proofs: the older lemmas of `SymbolScopeProofs` on sequences by
   `SeqInduction`.
