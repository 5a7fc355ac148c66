# Kode: TLA+ models, model checking and proofs

Kode is a small JavaScript runtime: V8 on a libuv loop, a C++ concurrency library
(fibers, a work-stealing scheduler, channels), a CommonJS loader, an HTTP server, and
host APIs (`Kode.scope`, `Kode.timeout`, `Kode.sleep`, `kode:fs`). This directory models the parts of it
whose correctness depends on the order in which threads, callbacks and promise reactions
run. Paths below are relative to the repository's `src/` unless they start with `docs/`.

`PROJECT.json` lists the components, the TLC runs, the mutants of every checked property,
the source lines of every definition, the hazards and the theorems.

## 1. Inventory

| Component | State | Operations | What is hard | What makes it correct |
|---|---|---|---|---|
| `Channel<T>` (`concurrency/task.h`) | queue, capacity, closed flag, waiters on two condition variables | send, receive, try_send, try_receive, close | wake-ups, `notify_one` with overtaking, close while threads wait | FIFO without loss, capacity, no lost wake-up, the end is final |
| `Task`, `TaskScheduler` (`concurrency/task.{h,cc}`) | global queue, local queues, `current_task`, `state_`, `cancelled_`, `uc_link`, `active_tasks_` | spawn, worker loop, steal, yield, cancel, wait_all, stop | fibers move between threads; `state_` has no lock; cancellation is two stores | one place per task, exact counter, join means done, cancel and stop take effect |
| `ConcurrencyRuntime::with_timeout` | `completed`, `timed_out` | wrapper task, watchdog task | deadline against completion; the watchdog needs a worker | the function is bounded, the outcome is known, the watchdog ends |
| Channel registry of `KodeRuntime`, `ExecuteStatement` (`core/runtime.cc`), `JSConcurrency` (`concurrency/task.cc`) | named channels, reference counts; three separate static maps in `JSConcurrency` | create, send, receive from tasks | look up, then use; a name replaced under waiting tasks; a wait blocks the worker, not the fiber | a held channel is alive, the registry is never blocked by a wait, partners return |
| `KodeParser` (`parser/parser.cc`) | flag and brace depth while parsing | Parse, ParseLine, argument splitting | two scalars for all nesting; quotes, escapes and parentheses | statements outside callbacks and only those; arguments split where they should |
| `HttpServer` (`http/`) | listener, connections, writes in flight | accept, read, respond, close, stop, destruction | EOF, write completion and close in any order; the server destroyed under its callbacks | one response, no handle closed twice, a server that is through with its work may be destroyed, everything freed |
| Module loader (`v8/module_loader.cc`) | cache, directory stack, entry directory | require and its error paths | cycles, throws and catches, calls after loading | cache and stack agree with the loads in progress |
| Engine and `main()` (`v8/engine.cc`, `core/runtime.cc`, `main.cc`) | script promise, microtasks, loop | modes, run, wait, drain, dispose | explicit checkpoints, two loops, late settling | right exit status, nothing after dispose, reactions run |
| `Kode.sleep`, `kode:fs` (`v8/kode_host.cc`, `v8/builtins/fs.cc`) | timers, pool requests, promises, signal | start, work, complete, cancel | completion against cancellation, pool thread against main thread | nothing left pending at the end |
| `ModernFS` (`filesystem/modern_fs.cc`) | files and directories on disk, requests, results | read, write, info, exists, parent creation | pool threads work on the same files without a lock; info is taken after the content | undisturbed reads and writes are whole, parents exist |
| `Kode.scope`, `Kode.timeout` (`v8/kode_host.cc`, JavaScript source) | failed flag, two counters; signals and their handlers | scope, async; timeout, cancel | chains of reactions interleave; handlers re-enter | exact counters, a failure seen is recorded, one call of a handler |
| path built-in (`v8/builtins/path.cc`, `v8/v8_helpers.cc`) | none | join, normalize, resolve, dirname, basename | `.` and `..` | normal forms, laws between the functions |
| `KodeFS`, encoding, crypto, env | none that outlives a call | | | see section 7 |

The components meet at few points: `main()` owns the libuv loop and the isolate; the
loop calls back into the host APIs, which settle promises and run a microtask checkpoint;
`Shutdown()` first joins and stops the scheduler, then disposes of the isolate. The scheduler
and the channels are used from C++ (`tests/concurrency_test.cc`); fibers never run V8 in the
paths `main()` takes.

## 2. Modules

| Module | Models | Uses |
|---|---|---|
| `FifoChannel` | what a channel with a capacity promises: a log, a read position, a limit, an end | |
| `Channel` | `Channel<T>` by critical sections | `INSTANCE FifoChannel` |
| `TaskScheduler` | fibers, workers, queues, cancel, wait_all, stop | |
| `WithTimeout` | `with_timeout` on the scheduler | `EXTENDS TaskScheduler` |
| `ChannelRegistry` | named channels used by tasks on worker threads, `ExecuteStatement`, `JSConcurrency` | the abstract channel's bounded log |
| `HttpServer` | the callbacks of the server | |
| `Paths` | `kode:path` and `NormalizePath` on sequences of names | |
| `ModuleLoader` | `require()` against an arbitrary program | `EXTENDS Paths` |
| `HostLoop` | one invocation of kode, in every mode, to the disposal of the isolate | |
| `ModernFS` | what the pool threads do to files and directories | |
| `KodeScope` | `Kode.scope`, `scope.async`, `Kode.timeout` | |
| `Parser` | `KodeParser::Parse` and the splitting of arguments | |
| `ChannelProofs`, `SchedulerProofs`, `ChannelRegistryProofs`, `HostObjectsProofs`, `ModuleLoaderProofs`, `HostLoopProofs`, `ModernFSProofs`, `ParserProofs` | TLAPS proofs, section 5 | each `EXTENDS` its component; `SchedulerProofs` extends `WithTimeout` and proves about both, `HostObjectsProofs` extends `KodeScope` and `HttpServer` (whose `Init`, `Next`, `Spec`, ... are called `HttpInit`, `HttpNext`, `HttpSpec`, ... for that) |
| `MC*` | values of the constants that are functions or tuples | |

Definitions whose names start with `Mutant` are not part of any specification. Each is a
plausible wrong version of the definition after it; substituted for it, TLC must find the
property that `PROJECT.json` pairs it with violated.

### Channel

A step is a critical section: from taking `mutex_` to returning or to blocking in `wait()`.
`pc` says whether a thread is outside, asleep in one of the two waits, or woken and about to
take the mutex again; a woken thread re-evaluates its predicate in a step of its own
(`SendResume`, `ReceiveResume`), after whatever others did. `notify_one` picks any sleeper,
spurious wake-ups are possible, `close()` wakes everybody. A message is the pair of its sender
and a serial number. `sent`, `received` and `ended` are histories. `is_closed()` and `size()`
only read (and do not compile if used: they lock a non-mutable mutex in a const member).

### TaskScheduler

A step is a critical section, an atomic operation, or a store to `state_`. `wpc` is the position
of a worker in `worker_loop`, `fiber` that of a task in `invoke`/`yield`. `spawn()` is three steps
(count, push, map entry), `cancel_task()` two (`cancelled_`, then `state_` and the erase) under
`global_mutex_`. A `try_to_lock` may fail at any time, so every steal may fail. A task's function
may spawn its children, yield up to `MaxYields` times (any number of times, possibly for ever, if it is in `Loopers`), return or
throw. It is assumed not to swallow the exception a cancelled `yield()` throws.

`uc_link` is the worker that ran the task first. If the fiber finishes elsewhere it returns into a
context in use by another thread; nothing can be said after that, so the model sets `undefined_`
and stops. `scheduler_foreign_return` shows that this happens; the other two-worker runs show what
holds up to that point (the liveness properties have `undefined_` as a way out). The unlocked accesses to `state_` are interleaved as single stores.

The 100 ms `wait_for` in the loop is why a missed notification of `stop()` is harmless: the model
lets an idle worker leave the wait at any time. The preemption timer only sets
`preemption_requested`, which nothing reads.

### WithTimeout

The watchdog is a task of the same scheduler; `dog` is its position, `expired` says that the clock
passed the deadline. Its sleep keeps its worker. The store of `completed` and the end of the
wrapper are one step. The scheduler may have other tasks besides the two; the run has none, the proof allows any.

### ChannelRegistry

The scheduler is reduced to what matters when no task yields: a free worker takes the head of the
global queue and keeps the task until its function returns, also while it waits in a channel. A channel
object is a number with a capacity, a buffer and the count of the `shared_ptr`s to it; what `Channel` is proved to
implement stands for the object. `sendToChannel` and `receiveFromChannel` are two steps, the lookup
under `channels_mutex_` and the operation after it. `createChannel` on an existing name takes the old object's
reference away. `JSConcurrency`'s calls look into maps of their own that nothing fills. Today's `spawnTask`
runs V8 code and not statements; the model shows what the registry guarantees to the callers its mutex is for.

### Parser

A line is the statement its beginning announces and a sequence of the characters (or words) the parser looks at; an
iteration of the loop of `Parse()` is an action, the character loop of `ExtractFunctionArguments` the recursive function `Loop`. Both are compared
with a reference that does not follow the loop: a block is open while the depth of braces has not fallen below it since it was opened (`Open`), and a
line is in a callback if a block that a line with an arrow opened is open (`InCallback`); arguments are cut at the commas where the number of quotes so far is even and
the numbers of opening and closing parentheses are equal (`Cuts`, `Pieces`; for texts with one kind of quote and no escapes). What the parser does not handle is excluded by `WellFormed` and worth knowing: an arrow function inside
another block swallows the rest of that block, a `//` in a string cuts the line, and braces in strings are counted.

### HttpServer

A libuv callback runs to its end, so it is one action. A request is a number of reads; the headers
end in the `HeaderChunks`-th. Closing a handle cancels writes still in flight, whose callback then
runs on the closing handle (`CancelWrite`); a second `uv_close` fails libuv's assertion (`aborted`). The close callback comes
after those of the cancelled writes, which is libuv's doing (`WritesCancelled`, external).

`~HttpServer()` calls `stop()` and frees the server at once. The loop may still have the handle to close, and a connection still points to the
server, which it needs when the headers of its request are complete: a step that reaches into a destroyed server ends the model with `aborted` "dangling". `destroyed`
says whether the destructor found the server idle (the listener closed, every open connection answered) or not; `DestroyedIdleUntouched` says that the first is safe.

### ModuleLoader

The loads in progress are the frames of `frames` that run a module's body (`Loads`); `g_module_dir_stack` is compared with them
index by index. `Normal` is the library's `lexically_normal` on absolute paths, which goes name by name (`Walk`); that it is idempotent, on which the identity of a
file rests, `NormalLaw` checks for all short paths and `PathNormal` proves for all.

The program is arbitrary: any frame may require, call a function of a module it got, throw, catch
or return. `frames` is the call stack as far as it belongs to modules. A path is a directory (a sequence of names,
normalised by `Paths`), a stem and an extension, so that one file has many specifiers. A module object is a number, so that two
objects for one file can be told apart. Built-in modules are made afresh by every call and keep nothing.

### HostLoop

`main()` looks at its first argument only (`Mode`), then runs one script, the six of the demo, or none; every
mode goes through the same drain and shutdown. Whether V8 is available and enabled, and whether the script can be
opened, is chosen at the start. An operation is one promise with one reaction; the reaction is in `jobs` from the time the promise is
settled until a checkpoint runs it. Whenever JavaScript runs it may abort the signal, start an
operation and settle the script's promise. `turn` is one `uv_run(UV_RUN_ONCE)`. The failure path of
`uv_queue_work` is left out: it fails only without a work callback; so is that of `Initialize()` (`main.cc:65`), which returns what
`ConcurrencyRuntime::initialize()` returns (`concurrency/task.cc:672-676`), and that is always true. The data the pool reads or writes is
reduced to success or failure here.

### ModernFS

Every system call of `workCallback` is a step: the walk up to the innermost level that exists and each `mkdir` down from there
(`level` is how far it has got; a level that the system refuses or that is a file by then ends it, without an error), opening (which
truncates), each chunk read or written at the stream's own position, and the `FileInfo` taken at the end. A chunk is named after
the write it comes from, so that torn content shows; a stream that writes behind the end of a file truncated meanwhile
leaves a hole. A stream may fail at any chunk: a write then reports an error (`WriteFails`), a read does not (`ReadFails`), because `workCallback` does not look at the
state of the stream. `last`, `dirty`, `source` and `rivals` are histories that say which writes and reads were disturbed: the
code promises nothing about those, and the properties are about the others; `failed` says which streams failed under a read, whose content is
then the beginning of the text, beside the size of all of it. Files are never removed.

### KodeScope

An action is one promise reaction, or the settling of a promise of the user's function; reactions of
different chains interleave in any order, which includes every order the microtask queue produces.
A scope object may be used after its function has settled. A controller of `Kode.timeout` calls its `onabort`
handler synchronously, so `running` is a stack: while a handler is on it, it may call anything, and reactions wait.

## 3. Runs

Passing runs check deadlock, except where stopping is right (a server, a scope or a pool with nothing to do; tasks
stranded on a replaced channel).

| Run | Instance | Shows |
|---|---|---|
| `channel` | 3 threads, capacities 0, 1, 2, 2 sends each | FIFO, capacity, no lost wake-up, the end is final; close releases waiters, pushed is received; with a capacity it implements `FifoChannel` |
| `scheduler_one_worker` | 3 tasks, one spawned by another; 1 yield each, except one that may yield for ever | join means done, with tasks spawned by tasks; wait_all and stop return, a cancelled task leaves, also the endless one. `wait_all()` may wait for ever, and a task starve, while a task that nobody cancels keeps yielding (`Spinning`) |
| `scheduler_two_workers` | 2 tasks, 1 yield each | one place, exact counter, no task lost, with steals, until `undefined_` |
| `with_timeout` | a function that loops or returns, its watchdog, 2 workers | bounded lifetime, known outcome, the watchdog ends |
| `channel_registry` | 4 tasks on 4 workers, 2 names of capacity 1, up to 3 objects; one program replaces a name twice, one does not | held channels are alive; without a replacement all tasks return |
| `http_server` | 2 connections, headers in 2 of up to 3 reads | one response, no callback into a server destroyed when idle, only a hang-up leads to a second close, freed in the end |
| `module_loader` | 3 files in 2 directories, one of them broken, 5 specifiers, 4 requires, depth 5 | cache and stack match the loads; a finished module is one object under all its names; a loading module resolves from its own directory. The laws of `Paths` (all paths of up to four names) are `ASSUME`s of this run |
| `host_loop` | all modes, with and without V8; 1 timer, 2 pool operations, 1 old-style callback | disposal, exit status, reactions (of what the loop settled always, of all but for a script that threw or an old-style callback), termination |
| `scope_counts` | 2 scopes, 3 tasks, 2 controllers | exact counters that drain, recorded failures, handlers called once |
| `modern_fs` | a long and a short write and a read of one file two directories deep, a write of a file in the place of the outer directory, an info; 3 pool threads | with streams that fail: undisturbed writes are whole, undisturbed reads are of one text, cut short only by a failing stream, with the info of the whole; parents exist |
| `parser` | all programs of up to 5 lines out of 9, and all argument texts of up to 5 tokens out of 7 | statements outside callbacks, arguments split |

The type invariants of the modules document the state; all of them are proved. In `modern_fs` nothing is `Denied`: a refused `mkdir` takes the
same branch as one that meets a file, and the proofs cover both.

Why the bounds are enough for the cases in question: three threads are the least with which a woken
thread can be overtaken while another sleeps; capacity 2 with six messages fills, drains and refills the buffer; one yield
per task gives a suspended fiber that can be stolen, cancelled or dropped, and a task that yields for ever leaves only if a cancellation reaches it; three files give a cycle,
a chain of failing loads and two files of one name; four host operations of three kinds give completions in every order;
three pool threads let two writers and a reader of one file overlap, and two writers make the same two directories; two controllers
can cancel each other from their handlers; five lines open, nest and close a callback with a statement behind it.

One run is expected to fail: it states what a comment says, and the code does otherwise.

| Run | Claim | What the code does |
|---|---|---|
| `scheduler_foreign_return` | `task.cc:480` "return to scheduler when finished" | a stolen fiber returns into the first worker's context |

### Other disagreements with the docs

Met while modelling, and visible in the models, but without a run of their own:

* `http_server.h:15` "Closes the connection after response": `read_cb` closes on EOF although a response is being written; libuv
  cancels the write, and its callback closes the handle a second time. `OnlyHangupAborts` says that this is the only way to get there.
* `~HttpServer()` (`http/http_server.cc:18`) may free the server while the loop still closes its handle and connections point to it; no line of the repository says when it may be
  called, and `DestroyedIdleUntouched` says from which state on it is safe.
* local-commonjs-modules-design.md:41 "Paths resolve relative to the requiring module's directory": a function that requires after its
  module was loaded resolves against the innermost load in progress, or the entry. `ResolvesFromOwnDir` says what holds: code of
  a module resolves from its own directory while the module is being loaded and nothing is loaded inside it.
* timers-cancellation-design.md:56 "When the deadline expires, the signal aborts automatically": `Kode.timeout` starts no timer.
* `concurrency/README.md:172`: channel operations in code given to `kode("...")` would be interpreted by the parser; `spawnTask` gives
  that code to V8, which has no such functions.
* `JSConcurrency` declares its map of channels in each of its three functions, so a created channel is never found.

* `concurrency/README.md:31` "capacity 0 creates an unbuffered channel": `send()` waits only if `capacity_ > 0`, so capacity 0 buffers without limit (`HasRoom`);
  `tests/concurrency_test.js:42` calls it unbuffered too. `FifoChannel` promises nothing for capacity 0, and `ImplementsFifo` and `CapacityBound` are about channels with a capacity.
* `concurrency/README.md:12` lists `yield()` and channel operations as safepoints that let another task run. A yielding task is
  requeued locally and served before the global queue, so with one worker it starves the queue (`PopLocal` before `StealGlobal`);
  a channel wait blocks the worker thread, so with too few workers partners wait for each other. This is why `channel_registry` has a worker for each task.
* `concurrency/README.md:214` "bound task execution lifetimes": with one worker the watchdog of `with_timeout` waits behind the
  function it should bound. `LifetimeBounded` holds from two workers on.
* local-commonjs-modules-design.md:95, same exports object twice: an unfinished module handed out in a cycle whose load then fails
  is erased, and a later `require` makes another object. `LoadedOnce` states what does hold, of finished modules.
* `main.cc:112` "keeps host promises reliable": there is no checkpoint after the callback of the old `fs.readFile`, so a reaction
  queued by one in the last drain does not run. Nor is there one after a script that throws (`v8/engine.cc:212-217` returns the error at once), against this
  line and timers-cancellation-design.md:112 "already drains V8 microtasks and libuv work after script execution": reactions that the script had queued, such as that to a call
  refused because its signal was aborted, run only if a timer or a request of the same process happens to bring a checkpoint. `ReactionsRun` names both exceptions; what a timer or the pool settles always has its reaction run.
* kode-native-fs-design.md:165 "`EIO`: unexpected host I/O failure", timers-cancellation-design.md:139: a read whose stream fails is a success with the part
  read so far (`filesystem/modern_fs.cc:120-126`), and `readText` hands that part to the program without the size that would tell (`ReadFails`).
* timers-cancellation-design.md:140 "Cancellation wins": the signal is read at the call only; an abort in flight does not stop a fulfilment.
* better-node-runtime-design.md:58 and :59: a scope settles with its function, not with its tasks, and siblings that were queued when a task failed still start.

## 4. Fairness

* `Channel`: a woken waiter gets the mutex back (critical sections are short and have no loop). Nobody has to call.
* `TaskScheduler`: threads keep running; started calls of `spawn` and `cancel_task` go on; strong fairness of the
  global steal, because its `try_to_lock` fails only while another thread is in a critical section of a few
  instructions. Nobody has to spawn, cancel or stop, and a function has to go on but not to yield.
* `WithTimeout`: the same, and time passes.
* `ChannelRegistry`: a worker goes on unless its task waits in a channel.
* `HttpServer`: the loop delivers finished writes and closes; the peer is assumed to take what is written to it or to break the connection.
* `HostLoop`: the script ends, timers expire, the pool works, checkpoints go on; strong fairness of loop
  events, because the loop serves every ready event in a later iteration.
* `KodeScope`: reactions run, the user's functions settle and handlers return.
* `ModernFS` and `Parser`: none; only safety is stated.

## 5. Proofs

TLAPS proves every safety invariant that a passing run checks, for every value of the constants; the refinement of `FifoChannel` by `Channel` and of
`TaskScheduler` by `WithTimeout`; two action properties and two invariants that no run states (`DestroyedForGood`, `FinishedStaysCached`, `FibersFit`, and
`~undefined_` with one worker; TLC has checked them on the instances of the runs); and what the pure functions of the parser and of `Paths` compute.

| Module | Theorems (`Spec => []...`) |
|---|---|
| `ChannelProofs` | `TypeCorrect`, `ChannelFifo` (`FifoNoLoss`), `ChannelCapacity` (`CapacityBound`), `ChannelDrained` (`DrainedIsFinal`), `ChannelWakes` (`NoLostWakeup`), `ChannelImplementsFifo` (`Spec => ImplementsFifo`), `ChannelRefines` (`Spec => (capacity_ > 0 => Abstract!Spec)`) |
| `SchedulerProofs` | `SchedulerTypeCorrect`, `SchedulerOnePlace`, `SchedulerCountExact`, `SchedulerJoinedMeansDone`, `SchedulerNoTaskLost`, `SchedulerFibersFit`, `SchedulerOneWorkerReturns`; `TimeoutImplementsScheduler` (`WTSpec => Spec`), `TimeoutOutcomeKnown` (`WTSpec => []OutcomeKnown`) |
| `ChannelRegistryProofs` | `RegistryTypeCorrect`, `RegistryHeldIsAlive`, `RegistryDestroyedForGood` |
| `ModuleLoaderProofs` | `LoaderTypeCorrect`, `LoaderDirStackMatches`, `LoaderCacheMatches`, `LoaderResolvesFromOwnDir`, `LoaderLoadedOnce`, `LoaderFinishedStays` (`Spec => FinishedStaysCached`); without a specification: `PathNormal`, `PathStepwise` |
| `HostLoopProofs` | `HostTypeCorrect`, `HostNothingAfterDispose`, `HostOutcomeReported`, `HostReactionsRun` |
| `ModernFSProofs` | `FsTypeCorrect`, `FsParentsCreated`, `FsLastWriteWins`, `FsReadIsConsistent` |
| `HostObjectsProofs` | `ScopeTypeCorrect`, `ScopeCounts` (`CountsExact`), `ScopeFailures` (`FailureSeenIsRecorded`), `ScopeAborts` (`OnabortOnce`); `HttpTypeCorrect`, `HttpOneResponse`, `HttpDestroyedUntouched` (`DestroyedIdleUntouched`), `HttpOnlyHangupAborts` |
| `ParserProofs` | `ParserTypeCorrect`, `ParserOutsideCallbacks` (`ParsesOutsideCallbacks`), `ParserArgumentsSplit` (`ArgumentsSplit`); without a specification: `SplitRight` |

The only assumptions are the `ASSUME`s of the modules, which TLC evaluates in each run. All bounds (sends, yields, chunks, depth, pool
size, numbers of objects) are arbitrary in the proofs. Each proof has an inductive invariant, called `IInv` (`TypeInv`, `DataInv` and
`WakeInv` for the channel), whose parts were checked by TLC first.

**Channel.** `TypeInv` adds to `TypeOK` that a thread blocked in `send()` has offered a message; without it the message a resumed
sender pushes would not be known to be one. `DataInv` is the conjunction of the three data properties, which is inductive over
`TypeInv`. `WakeInv` is the wake-up argument in numbers of threads: a thread sleeps in `receive()` only while there are at least as
many woken receivers as messages, and likewise for senders and free slots; a pop takes one message and one woken receiver (or a
passer-by takes the message and leaves a woken receiver too many), a push adds one of each. Sets of threads are replaced by counts
(`Count`), with lemmas for what moving one thread does to them, so that each case is linear arithmetic. The refinement maps the log
to `sent`, the deliveries to `received`, for channels with a capacity; a push is `Accept`, a pop `Deliver`, and the rest of the steps stutter, close or tell the end.

**Scheduler.** `PlaceInv`, the part of `OnePlace` about queues and workers, is not inductive by itself: a queue that held a task twice would still hold it
after a pop, so `QueuesDistinct` comes with it, and `HasTask` (a worker in the middle of a dispatch has a task in hand).
The decision to requeue or to count off is taken once per dispatch, from which `CountExact` follows: `InFlight` gains
and loses one task where `active_tasks_` does. For `NoTaskLost`, `SwitchedBack` says what a worker finds after the switch back: a fiber that has returned, one
that is `RUNNABLE`, or one that a canceller has marked; `CancelMarked` says that the mark comes before the store to `state_`. `WithTimeout` takes
only steps that the scheduler may take (`TimeoutImplementsScheduler`), so it inherits all of this; `OutcomeKnown` needs in addition that the function is spawned
before its watchdog (`BodyFirst`), that only the watchdog cancels it, after storing `timed_out` (`CancelIsTimeout`), and that
a function that returned has stored `completed` or was cancelled (`ReturnIsKnown`).
`FibersFit` relates each context to the place of its task: never entered in the global queue, left by a yield in a local queue, inside on a worker that runs it; what a worker
has left and finds `RUNNABLE` was left by a yield, so a worker never switches into a context that has returned or is in use. It holds up to the return into a foreign context,
of which `SchedulerOneWorkerReturns` says that it takes a second worker: `uc_link` is set when a fiber is first entered (`LinkSet`), and with one worker it is that worker's.

**Channel registry.** `CountsMatch`: the reference count of an object is the number of names and of tasks that point to it. A lookup
adds a pointer and counts it, a replacement takes one away and gives one; so an object dies exactly when nobody can reach it.
`HeldWhileDoing` says that a task works on a channel only between lookup and return, `OnlyMade` that nothing points to an object not made yet.

**HTTP server.** `HttpRespondedCounts`: responses in flight and written are at most one, and none before the flag is set. `HttpRunningListens`: a
`stop()` that acts finds the listener open, so it is never closed twice. `HttpIdleStays`: a closed listener accepts nothing, and a connection once answered stays answered,
so what the destructor found idle stays idle, and the two steps that reach into the server (the end of its close, the end of a request's headers) cannot come.

**Module loader.** `FramesInv`: the loads in progress are of files, with different objects, none of them finished. `CacheInjective`: no object is cached for two
files. So the entry that a failed load erases is its own, and loads that fail in the middle of a cycle do not take others with them.
`DirStackMatches` counts the loads below a frame (`Upto`, with lemmas for a push and a pop); `ResolvesFromOwnDir` follows from it. `LoadedOnce` follows from
`ReturnedInv`: a finished module that `require()` returned is still what it returns. `FinishedStaysCached` says it of each step: only `ClearModuleCache()` takes a finished
module out of the cache. That a file found on disk has one name needs `Normal` to be idempotent: every stage of `Walk` is in normal form (`IsNormal`: no `.`, and `..` only
where a relative path begins), and along a path in normal form `Walk` only adds names (`PathNormal`).

**Parser.** `FlagStands` says what the two scalars mean: of a well-formed program, when `insideCallback` is set a block of depth 1 that
a line with an arrow opened is still open, when it is clear no block of such a line is open, and `braceDepth` (`DepthCounted`) is the depth after the lines read. A callback of a well-formed program begins at depth 0, so its outermost block is
open as long as the depth is positive, which is the parser's test. For the splitting, the loop's state after `i` characters is related to the reference on the first
`i` characters (`Tracks` for quotes and parentheses, `Collects` for the pieces cut so far), character by character.

**Induction over data.** The library's induction theorems take an operator, which none of the installed provers can instantiate. The proofs about recursive functions
use sets instead: a non-empty set of numbers has a least element (`NatMin`, from `WFMin` and `NatLessThanWellFounded`), so a set that has 0 and with
each number its successor has all (`SetInduction`). That a function with the recursive equation exists is proved the same way (`DepthAfterDef`, `LoopDef`, `WalkDef`).

**Host loop.** `PendingHasHandle`: a pending promise has a timer or a request, which keeps the loop alive; with `GoneIsIdle` nothing is pending after the
disposal. `ReactionsDue`: a reaction waits only while the script runs or a checkpoint is in progress. `Served`, a second invariant on top, carries the part that
holds after a script that threw: outside a checkpoint only reactions to refused calls and to old-style callbacks wait, and what is queued is not started anew. `ScriptRuns` says which scripts run, `PendingIsIdle` that a script's promise
still pending in the last drain stays so, and `StatusFinal` that the status is final from then on; `CheckpointInLoop` says where checkpoints and turns are.
What JavaScript may do at any of its entry points is one lemma (`JavaScriptEffect`).

**ModernFS.** Three arguments. The directories that exist are closed under parents and never files (`DirsInv`), so the innermost level that exists
vouches for all above it, and each `mkdir` for one more (`LevelInv`); `TreeAssumption` says that the chains of different paths
belong to one tree. A write that is not dirty is alone on its path from its truncation to its close, so the file is a prefix of its text
(`WriteInv`, with `LastInv`). While no write is on and none truncates, the file does not change under a read, whose text is a prefix of the
file's, and all of it at the end if its stream did not fail (`ReadInv`); and what it opened is still there and still a file (`OpenedInv`).

**Scope.** `CountsExact` is inductive with the types, by counting the set that one reaction changes. `FailureCaught` strengthens the failure
property: the flag is set from the catch reaction on, before the finally reaction lets the caller see it. `OnabortOnce` follows from the
signal being marked as aborted before the handler is called.

Only model-checked:

* the liveness properties (`CloseReleasesWaiters`, `PushedIsReceived`, `JoinTerminates`, `StopTerminates`, `CancelTakesEffect`, `LifetimeBounded`,
  `WatchdogEnds`, `EveryTaskReturns`, `AnsweredIsFreed`, `Terminates`, `CountersDrain`): liveness under fairness is out of the prover's reach;
* `JoinLaw` and `ResolveLaw` of `Paths`: `PathJoin` and `PathResolve` fold over their arguments with the library's `FoldLeft`, about which there is no theorem to
  cite; `PathStepwise` proves the law of `LexicalPath` they rest on;
* `ReturnsToOwnScheduler`, which is violated.

## 6. Plan

1. (done) `Channel`, its abstract specification and its proofs; the scheduler; `with_timeout`; the HTTP server; the
   module loader; the host loop; scopes.
2. (done) The channel registry with `ExecuteStatement` and `JSConcurrency`; the data of `ModernFS`; `Kode.timeout`; the modes of `main()`;
   the parser and the path functions as pure algorithms.
3. (done) Proofs of the safety invariants of all modules, of the parser and the paths by induction over the text, and of action properties from the same
   invariants.
4. Left: the splitting of arguments with escapes and mixed quotes, for which the reference by parity of quotes does not do; the two laws of `Paths` above.

## 7. Not modelled

* `v8/include` and `libuv`: the headers of third-party libraries, about 34,000 of the repository's 39,400 lines of C and C++. They
  have no logic of this program and are modelled from their use (marked external), so the mapped share of all lines is
  small: about 2,200 lines, 6% of all and two fifths of the 5,400 lines of the program itself.
* `KodeFS` and `KodeParser::ExecuteStatement`: single blocking calls; the libuv chain of `OnOpenComplete` is started by nothing.
* encoding and crypto built-ins: stateless functions of bytes. SHA-256 over 32-bit words has no small instance that says more than
  its test vectors.
* environment and arguments: copied once, then read.
* V8 entered from several worker threads by `spawnTask` (`core/runtime.cc:290`): undefined by V8.
* the preemption timer, `steal_task`, `Task::run`, stack growth and the assembly context switch: inert or uncalled.
* the text of HTTP requests and responses, MIME types, file times, error messages and logs.
* the installation of the global objects (`InstallKodeHostApis`, the `Create...Module` functions): straight-line set-up code.
