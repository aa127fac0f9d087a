# A TLA+ model of the Opsian agent

The repository builds `opsian-ocaml`, a profiling agent that is linked into an
OCaml program. It samples the program's stacks from signal handlers, reads
metrics in a thread of its own, and sends both to a collector over TLS, or
exports them to Prometheus. The code is in `src/lib/`; `src/lib/deps/` is
vendored.

This directory holds a model of the agent, from the signal handlers to the
messages it sends, the TLC runs that check it on small instances, and TLAPS proofs
of its most important invariants.

## The system

Threads and what they share:

| thread | code | shares |
|---|---|---|
| application threads and the signal handlers that interrupt them | `profiler.cpp` (`handle`), `linkable_profiler.c` | push to the queue |
| processor thread | `processor.cpp`, `collector_controller.cpp`, `network.cpp`, `protocol_handler.cpp`, `log_writer.cpp` | pops the queue, owns the socket and the io_service, enables and disables the metrics, tells the scanner its interval |
| metrics thread | `metrics.cpp`, `cpudata_reader.cpp`, `event_ring_reader.cpp`, `proc_scanner.cpp` | pushes to the queue, scans `/proc/self/task`, takes `readersMutex` |
| main thread | `lib_opsian.cpp`, the `atexit` handlers | joins the other two, holding the OCaml runtime lock |

### Components, their state and what makes them correct

* **InternalQueue** (`internal_queue.h`): a lock-free ring, many producers, one
  consumer. State: `input`, `output`, one mark per slot. Correct if an entry is
  handed over once, in order, complete, and slots are reused only when free.
  Hard: the interleaving of atomic operations, and stale indices.
* **CircularQueue** (`circular_queue.*`): three such rings and the methods that
  fill and empty them; drops what does not fit. Each slot of the stack ring owns a
  buffer of frames that is written and cleared in place. Correct if a listener sees
  the frames of its own trace and nothing else. Hard: reuse of buffers by traces of
  other lengths, and by broken ones.
* **Stack walker** (`linkable_profiler.*`): two nested loops, libunwind's and the
  OCaml runtime's, that share one array. Correct if they stay inside it.
* **Network** (`network.*`): one TLS socket. `connect` and `sendWithSize` wait by
  *running the io_service*, so timers and reads are handled inside them, and
  those handlers may send and close. Correct if writes and reads do not overlap,
  the socket outlives its operations, and every wait ends. Hard: nesting,
  timeouts that race completions.
* **CollectorController** (`collector_controller.*`): the session: hello, first
  sample rate, heartbeats both ways, timeout, disconnect, backoff, reconnect;
  notifications stashed while there is no session. Correct if a session that is
  dead is noticed and replaced, and nothing promised for later is lost.
* **ProtocolHandler** (`protocol_handler.*`): header read, body read, dispatch.
* **Processor** (`processor.*`): the loop around all that, and its end.
* **Profiler** (`profiler.*`): wires the parts together; restarts them in a
  forked child (`on_fork`); the signal handlers.
* **LogWriter** (`log_writer.*`), **SymbolTable** (`symbol_table.*`): turn entries
  into messages. A function or file gets an id and is announced once per session;
  samples refer to ids. Correct if the collector can read every sample. Hard: names
  are sent from callbacks while the sample is being put together, and a send may
  fail or end the session there.
* **PrometheusExporter** (`prometheus_exporter.*`): a tree of call paths with
  counts, printed and reset by each scrape. Correct if a scrape reports what was
  recorded since the last one. Hard: nodes outlive the phases, marks and counts
  must not.
* **ConcurrentMap** (`concurrent_map.h`): an open-addressing map with one writer
  and readers that take no lock. Correct if the writer sees a map, and a reader
  never gets another key's value. Hard: erasing moves other keys. (`profiler.h`
  includes it; this version of the agent creates none.)
* **ProcScanner** (`proc_scanner.*`): one timer per application thread, at the
  interval the collector asked for. Correct if all application threads are
  sampled, once, at that interval, and the agent's never. Hard: threads come and
  go during a scan; the interval changes; fork.
* **SignalHandler** (`signal_handler.*`): the process-wide profiling timer.
* **Metrics** (`metrics.*`) with its readers: names metrics, samples them,
  announces when the constant ones are complete. Correct if every sample has been
  named, and nobody waits for ever. Hard: a full queue, enable and disable during
  a cycle, an exception, exit, fork.
* **Library entry points** (`lib_opsian.cpp`): options, `bootstrapHandle`, the fork
  callbacks. **Logging**, **wire format**: not modelled, see below.

## The modules

| module | models | extends |
|---|---|---|
| `BoundedFifo` | what a queue promises (abstract) | |
| `InternalQueue` | the ring, one action per atomic operation | instantiates `BoundedFifo` |
| `InternalQueue_proofs` | its safety theorems, and that it implements `BoundedFifo` | `InternalQueue`, `TLAPS` |
| `Network` | `network.cpp` | |
| `CollectorController` | the session | `Network` |
| `ProtocolHandler` | the reads | `CollectorController` |
| `Agent` | the processor thread: all three, its loop, exit and fork | `ProtocolHandler` |
| `Agent_proofs` | theorems on its stack and the session's deadline | `Agent`, `TLAPS` |
| `Agent_socket` | theorems on sends, reads and the life of the socket | `Agent_proofs` |
| `SignalHandler`, `ProcScanner` | the two kinds of timers | |
| `Sampling` | both with the processor thread that sets the rates, the metrics thread, the application's threads and fork | both |
| `Sampling_proofs` | their theorems | `Sampling`, `TLAPS` |
| `Metrics` | metrics thread, processor thread, queue, runtime lock, exception, exit, fork | |
| `Metrics_proofs` | its theorems | `Metrics`, `TLAPS` |
| `StackWalker` | the walk of a signal handler over a stack | |
| `CircularQueue` | `Profiler::handle` and the queue it pushes to | `StackWalker` |
| `SymbolTable` | lookups, ids, callbacks | |
| `LogWriter` | the listener that sends to the collector | `CircularQueue`, `SymbolTable` |
| `PrometheusExporter` | the listener that counts for Prometheus | `CircularQueue`, `SymbolTable` |
| `Pipeline` | a sample's way: handlers, queue, processor thread, session, scrapes | both listeners |
| `Pipeline_proofs` | theorems on the walk of a stack and on the buffers of frames | `Pipeline`, `TLAPS` |
| `Pipeline_listeners` | theorems on the two listeners: what the collector is told, what a scrape prints | `Pipeline_proofs` |
| `AtomicMap` | what the writer of a map is promised (abstract) | |
| `ConcurrentMap` | the map, one action per atomic access | instantiates `AtomicMap` |
| `ConcurrentMap_proofs` | its theorems | `ConcurrentMap`, `TLAPS` |
| `MC*` | instances for TLC; in `MCSampling` the symmetry of thread ids, in `MCConcurrentMap` of values, in `MCPipeline` of the two signals; `MCInternalQueue` evaluates two facts on `StackWalker` | |

Definitions have the names of the functions they model; a definition named
`...Undrained`, `...Untimed` and so on, with a comment that starts with "Mutant",
is a plausible bug and is used by no specification: replacing the definition it
names makes TLC report the property it is meant for.

**InternalQueue.** `input`, `output`, `is_committed` are the fields; `content` is
what is in a slot; each producer has a program counter and the local
`currentInput`. `Push` starts a push; `LoadInput`, `Reject`, `HasRoom`,
`CasSucceeds`, `CasFails` are `acquireWrite`; `WriteSlot` and `commitWrite` the
rest; `FindEntry`, `AwaitCommitted`, `ResetSlot`, `AdvanceOutput` the consumer's
pop. Atomics are sequentially consistent, which is what the code's orders give on
x86. `Timely` is an environment assumption: no producer is stalled between its
check and its compare-exchange for as long as the ring takes to go round. It is
needed (see below).

**Network, CollectorController, ProtocolHandler, Agent.** One thread, so the
state of control is a *stack of frames*, running frame first. An action is the
code between two calls that can run handlers; a call pushes frames, a return
drops one. `RunsHandlers` says where the io_service runs: in the loop, in the
drain of `close`, and in a wait that has not completed. Timers are `armed`, then
`fired` (expired, handler queued), then handled. `ec` is the local of the wait
in progress. Messages and host names are not distinguished beyond their kind.
`on_fork` may happen at any moment of the processor thread and follows the child; what
the dead thread was waiting for is forgotten with it (`ec`). `metrics_.enable()` and
`disable()` wait for `readersMutex` and the OCaml runtime lock. `Metrics` has the locks;
here `exiting` (the main thread is in its atexit handlers and keeps the runtime lock)
and `inherited` (the process was forked with the mutex held) say when such a call need
not return: `onSampleRate` calls without a check, `onDisconnect` after looking at
`metrics_thread_running()`, so the exit may come in between. The thread then stays in a
frame `blocked` for ever. `metricsOn_` is not kept: `onDisconnect` may or may not call.

**Sampling.** The kernel is modelled as far as the agent sees it: `threads`, the
agent's own threads, and timers, each bound to its thread for life. Words wrap at
`Word` (2^64). A scan is one step up to `opendir`, one per directory entry and
one at the end, so threads start and end in between; the entries are those of the
`opendir`, while a real `readdir` may also meet a thread started meanwhile, or pass
over one when another ends. A `setitimer` that fails is left out; no property is about
it. The agent's own threads are the two it names: Asio's resolver thread is like one of
the application's. `processOn` and `elapsedOn` are history: what the collector last
asked for.

**Pipeline.** `Init` chooses the listener by the mode, as `Profiler::configure` does.
A signal handler is three steps: it begins, with the notification of a failed walk
(`handle`); it reserves a slot or loses the trace (`acquireWrite`, `Lose`); it writes
the frames and commits (`pushStackTrace`). What it writes is any of
`linkable_handle`, the set of all results of the walk: frames and an error type.
`StackWalker` computes that set by turns of the two loops. The processor thread
(`StartPops` to `NextPop`) pops the main ring and then the stack ring, up to
`MAX_POLLS` times. `recordStackTrace` of `LogWriter` is one step for each lookup and
one for each send, because the session can end in a send: `onNew` sends a name,
`addFrames` adds the ids to the sample, `SendSample` sends it and frees the slot. The
rest of the trace is recorded without a session, as in the code.
`lookup_locations` is an operator that takes the tables to new tables, the locations
found and the names to announce. `told` and `lost` are the collector's side: what it
has been told in this session, and which ids were sent and not delivered.
`captured` is history: the frames a slot was filled from. In Prometheus mode a trace
is one step, and so is a scrape; a node of the tree is named by its path. A scrape
prints a line for each function inlined at a node's address, each with the node's whole
count, so an address with two functions has its samples on two lines; a node without a
location has no line, but the nodes below it have.

**ConcurrentMap.** The cells' `key` and `value` are the atomic fields. The writer has
a program counter and the locals of its operation; a step is one store others can
see, so a move of `compactChain` is four. A reader has its own index and the value
it loaded. `seen` and `erases` of a reader are history: which values its key had
during the get, and how many erases ran meanwhile.

**Metrics.** Program counters for the metrics and processor threads, the mutex,
the flags and the map of ids. The queue is a count: what matters is whether
there is room. An entry of `recordEntries` is one step, so the processor thread
may make room, or the application take it, between two. `published` is history:
which names have been pushed since the ids were last cleared. `Exception` ends the
metrics thread from inside a read or from outside the mutex; `on_fork` starts both
threads again in a child and leaves the mutex as it was. `inherited` is history: the
process was forked while the mutex was held.

## The runs

Passing runs:

| run | shows | bounds |
|---|---|---|
| `InternalQueue` | the ring implements `BoundedFifo`, reserved slots are read; ownership of slots, the consumer waits for somebody, free slots are reset | ring of 2, 2 producers, 2 items: a full ring, wrap-around, lost compare-exchanges and items that can be told apart |
| `Pipeline` | a slot holds the frames of its own trace; samples refer to what this session's collector has been told, functions to files it has been told of; scrapes are exact | one thread, rings of one entry (so that every slot is reused), stacks of up to 3 frames of which 1 is the handler's, a foreign address known to the dynamic linker only and an OCaml one with an inlined function, two sessions, one undelivered name, two samples between scrapes |
| `ConcurrentMap` | the writer implements `AtomicMap`; chains whole, size exact; what a concurrent get may return | 4 cells, at most 3 entries, 4 keys of which two share a home at the end of the cells (chains wrap) and one has its home inside their chain, two values, one reader |
| `Agent_session` | deadlines, no overlapping writes or reads, sends released, no socket leaked or deleted early | all timers, one stashed notification, two pops a turn, three backoff steps; a connect may complete as it is closed |
| `Agent_recovery` | with a fork at any moment: reads and sockets in the child; a session lost without an error, or deaf, ends; reconnection; the loop ends at exit; all this unless the thread is blocked in a call of `Metrics` | one stashed notification (so sends nest), one pop, no periodic messages |
| `Sampling_safety` | threads seen are sampled at the interval in force, once; the agent is not | 4 thread ids, 3 timers, three intervals of which one is over a second, the process timer, fork |
| `Sampling_liveness` | a thread that stays alive gets a timer | 4 ids, 2 timers, one interval, starting and stopping |
| `Metrics_safety` | but for a child that inherited it locked, the mutex is only ever held by a thread that will release it, and the processor thread gets it; readers guarded by it, samples only under published names, completeness after all names | one constant per reader, one event, queue of 1, which the application can fill at any moment; exceptions, exit, forks at any moment |

The stack of `Agent` needs no bound: handlers nest only while a timer has fired or
a read is outstanding, and there are finitely many of each. The bounds of the
other modules are their constants. Word, millisecond and second are scaled down
(64, 4, 30) so that the products wrap as they do in the code and an interval of
more than a second is among the rates.

Deadlock is checked for the queue, the pipeline, the map and the sampling. `Agent`
and `Metrics` may stop: the program exits. The agent's runs and the pipeline divide
the session between them: `Agent` shows when it begins and ends, with all nesting
of handlers; `Pipeline` lets it begin and end wherever `Agent` allows and looks at
what is said in it.

Runs that show the code to differ from what the repository says of it (the
finding in `PROJECT.json` quotes the line):

| run | what happens |
|---|---|
| `Agent_danglingConnect` | the receive timer, restarted by its own handler after the disconnect, fires into the next connect and deletes its socket |
| `Sampling_stop` | the word for "stop" overflows, so per-thread sampling never stops |
| `Metrics_names` | the id of the duration metric is given to another metric too |
| `Metrics_exit` | the exit of the program may deadlock after a check meant to prevent it |

Behaviours the models have and no run is spent on:

* With `Timely = FALSE` TLC finds `SlotOwnership` violated: a compare-exchange
  succeeds on a check made one turn of the ring before. A push may also be refused
  though the ring was never full during it; `BoundedFifo` allows that.
* `FlagReleased` holds without forks. With `MayFork = TRUE` it fails:
  `Network::on_fork` does not clear `isSending_`, and a child forked during a send
  drops its first hello.
* The timeout of the resolver sets a copy of the error code (`network.cpp:138`):
  under `FairSpecNoResolver`, which does not promise that the resolver answers,
  `ResolveTimesOut` fails.
* A forked child believes it has the process timer of its parent
  (`signal_handler.cpp:10`), so `ProfilingHasTimer` fails after a fork.
* A fork that finds `readersMutex` held leaves it locked in the child: the line of
  `Metrics::on_fork` that would deal with it is commented out (`metrics.cpp:353`). Without
  the exception for `inherited`, `MutexOwned` and `ProcessorNotBlocked` fail, and without
  the one for `Blocked` so do `DeadSessionEnds` and `ExitCompletes`: the child's first
  `onSampleRate` waits for ever.
* The exit of the program may leave the processor thread in such a call too
  (`Metrics_exit`); `ExitCompletes` is about every other place the thread can be in.
* `GetFinds` of `ConcurrentMap` fails: while one key is erased, a get may miss
  another that is in the map throughout, because `compactChain` moves it back behind
  the reader. The comment at `concurrent_map.h:121` allows get beside erase and does
  not say what it may return; two erases and an assign during one get can even make
  it return another key's value, which is why `GetOwnValue` allows for one erase.
* With `LateCallbacks = TRUE` the walk of a stack writes `MAX_FRAMES + 1` frames
  (`linkable_profiler.c:117` adds two on one check); `LateCallbackOverruns` in
  `MCInternalQueue` is the example, `WalkFits` the bound without such callbacks, and
  the theorem `WalkBounded` both bounds for every `MAX_FRAMES`.
* `maxFramesToCapture` (the option `__maxFrames`) below `MAX_FRAMES` violates
  `FramesIntact`: nothing compares the two.
* The first scrape prints nothing: the root is marked by the end of a scrape only.
  `ScrapeExact` is about the later ones.
* The frames of a broken trace are not copied to the slot (`num_frames` is negative),
  so the lookups `log_writer.cpp:101` makes to print them are lookups of address 0.
* A name whose send fails without ending the session is not sent again in it. Two
  functions of the same name share the id, and the file, of the first.
* A child in Prometheus mode starts a session lifecycle
  (`CollectorController::on_fork` assigns `DISCONNECTED`).
* Stashed notifications are cleared whether or not they were sent. Samples of
  constant metrics are lost when the queue is full. The duration is sampled
  whether or not it has been named.

## Fairness

* `InternalQueue!FairSpec`: a producer that has begun a push goes on (it is a
  thread or a signal handler that runs to its end), the processor thread keeps
  popping. Nothing forces a push to begin.
* `Agent!FairSpec`: weak fairness for the thread's own steps. Strong fairness for
  the loop's turn, the receive timer's handler and completions of aborted
  operations: the io_service queues handlers in order and the loop polls a
  bounded number per turn, so none is passed over for ever, though each is
  disabled now and then by nested calls. The receive timer expires if nothing can
  restart it, that is while no read can bring a heartbeat (`QuietExpire`). The
  resolver answers; `FairSpecNoResolver` leaves that out. Nothing is assumed of
  the collector.
* `Sampling!FairSpec`: the agent's threads start and the metrics thread keeps
  scanning, as its duty cycle does.
* `Metrics!FairSpec`: both threads keep running; the processor thread gets the
  mutex in the end since the metrics thread releases it between reads and sleeps
  between cycles; one read of the event ring ends, after `MAX_EVENTS` events.

## The proofs

All theorems are about the specifications TLC runs, for every value of the constants
that satisfies the named assumptions of the modules. Each inductive invariant below
was checked by TLC on the run's instance before it was proved. Where a theorem has a
hypothesis, the section on behaviours above says what happens without it.

### The ring: `InternalQueue_proofs`

The only assumptions on constants are that `Size` is positive and `None` is neither
an item nor a producer.

* `TypeCorrect`: indices stay in range, lapped or not.
* `OwnershipSafe`, `WaitSafe`, `ResetSafe`: if `Timely`, `SlotOwnership`,
  `NoOrphanSlot` and `FreeSlotsReset` always hold.
* `RingImplementsFifo`: if `Timely`, the ring implements `BoundedFifo`.

None of the three invariants is inductive alone. `IInv` is their conjunction with
the type and two strengthenings: `ConsumerInv` (where the consumer is agrees with
the mark of the slot at `output`) and `RoomInv` (a compare-exchange that would
succeed still has room, which is where `Timely` is used: without it `input` can
come back to a producer's old index). Three lemmas say what the arithmetic of the
ring comes to: `advance` wraps at `Size`, a reservation occupies one more slot,
passing a slot frees that one.

The refinement maps the ring to the sequence of its occupied slots from `output` on.
A compare-exchange that succeeds appends to that sequence, a commit marks an
entry, the consumer's step past a slot takes the first entry away, and every other
step leaves it alone. The lemmas on `SlotOf` and `Contents` say so of the sequence;
`DataInv`, added to `IInv`, says that a slot holds the item of its producer when it is
committed and that the consumer has the content of the slot at `output` in hand.

### The processor thread: `Agent_proofs`, `Agent_socket`

For every backoff, stash and pop bound, in either mode, with and without forks:

* `TypeCorrect`: the stack is well formed, so no return ever empties it, and the
  backoff never exceeds its maximum. The lemmas on calls, returns and
  continuations say that each keeps a stack whose last frame is a base.
* `DeadlineKept`: `SessionHasDeadline`. The only step that takes the receive
  timer away from a session is its handler, which runs `onDisconnect` next.
* `WriteSafe`, `ReadSafe`: `SingleWrite` and `SingleRead`, however deep calls nest.
* `DeleteSafe`, `SocketSafe`: `NothingOutstanding` and `NoSocketLeak`.
* `FlagSafe`: without forks, `FlagReleased`.

These are statements about the running frame, and a handler's frame sits on the
frames of the calls that run it, so the invariant has to speak of the whole stack.
`Shape`: a base is at the bottom only and a frame of `connect` right above it.
`SocketInv`: which frames go with which state of the socket (a connected socket is
not being closed or connected; a disconnected controller has one only while it is
drained or connected, or `onDisconnect` is in its call of `disable`). `SendInv`: at most one frame is a write, and on a connected
socket it is marked by `isSending_`. `ReadInv`: on a connected socket at most one
frame is about to read, and then no read is outstanding. `FlagInv`, for `FlagSafe`,
adds that a set flag has its frame, which a fork destroys.

### Metrics: `Metrics_proofs`

* `TypeCorrect`; `ReadersSafe`: `ReadersGuarded`, across forks too.
* `MutexSafe`: `MutexOwned`, which leaves out a child that inherited the mutex locked.
* `NamesSafe`: `RecordedArePublished`.
* `CompleteSafe`: the action property `CompleteAfterNames`.

`LockInv`: a thread in a block under `readersMutex` holds it. `NamesInv`: a metric has
an id only if its information was published, which is so because a failed push leaves
it without one. `ConstantsInv`, for the action property: a constant that a reader has
handed out is published or is still pending, in the call under way or for a retry.

### Sampling: `Sampling_proofs`

* `TypeCorrect`; `OnceSafe`: `SampledOnce`; `AgentSafe`: `AgentNotSampled`; these
  need nothing of the environment, so they hold with reused ids too.
* `SeenSafe`: if ids are not reused, `SeenThreadsSampled`.

`AgentInv`: nothing is scanned before both of the agent's threads have stored their
ids. `ScanInv`: an entry of a scan is visited once. `TimerInv`: a thread with a timer
has only that one and the last scan or this one has seen it; while a scan goes on it
has been visited, or will be and the last scan knew it, which is why it gets no
second one. `IntervalInv`: an interval that can be set is the interval of every timer.
`SeenInv`, for `SeenSafe`: a living thread that a scan has seen has a timer.

### The map: `ConcurrentMap_proofs`

For every number of cells, every hash, and every set of keys, values and readers:

* `TypeCorrect`; `SizeSafe`: `SizeExact`; `ChainsSafe`: `ChainsWhole`.
* `WriterImplementsMap`: the writer's operations implement `AtomicMap`.
* `CurrentSafe`: `GetCurrent`; `OwnValueSafe`: `GetOwnValue`.

The first part of the module is about a circle of cells: which cells lie between a
home and a cell, and what a step of a walk adds to them. `WriterInv` says what holds
in the middle of an operation: what a walk has met (`WalkInv`), that `compactChain` has
a free cell ahead to stop at and the cell to fill behind it (`CompactInv`), the one
free cell a chain may have (`ChainInv`), the one key that may be in two cells
(`UniqueInv`) and the cells without their value (`ValueInv`), and that `size` counts an
entry to come and one taken out until the operation is through (`SizeInv`).
`ReaderInv` says of a get that no erase ran into what it has met and that what it
loaded is its key's, and of a get that one erase ran into that, if its cell was taken
from its key, the same erase does not bring the key back. A
consequence on the way: the checks for a full circle in `assign` and `compactChain`
never come true (`concurrent_map.h:292` calls the second "probably redundant"). What
this rests on is the constructor's check that the load limit leaves a cell free.

### A sample's way: `Pipeline_proofs`

* `WalkBounded`: whatever is on the stack, `linkable_handle` ends and writes at most
  `MAX_FRAMES` frames, one more with late callbacks. For every `MAX_FRAMES`.
* `FramesSafe`: if a buffer has room for the longest walk (the default of
  `__maxFrames` is `MAX_FRAMES`), `FramesIntact`, for every number of threads and slots.

`Walks` is a function defined by recursion. `SetInduction`, from the library's
well-foundedness of the natural numbers, and `IterationExists` show that it satisfies
its definition; every turn of a walk that goes on adds to `Progress`, which `HasRoom`
bounds. `FramesIntact` is not inductive: a push overwrites as many frames as it has,
so `CleanInv` says that a slot without a trace has a buffer without frames, `WriteInv`
and `CommitInv` that a handler and the listener are never in the same slot, and
`ReadInv` that the trace being recorded stays the one at `output`. The walk's own
invariant also says that the frames after the handler's are addresses of the program,
marked foreign exactly if they are, which is what the listeners look up.

### The listeners: `Pipeline_listeners`

For every program (every set of addresses, with any names and any number of functions
inlined at each), every number of threads, slots, sessions and lost messages, if a
buffer has room for the longest walk:

* `ModulesSafe`: `ModulesTold`.
* `SamplesReadable`: `SampleReadable`.
* `ScrapesExact`: `ScrapeExact`.

`PcinfoAssumption` says that the functions at an address are a sequence. That is all
that is assumed of libbacktrace and of the dynamic linker.

The proofs follow the symbol table. A lookup folds over the functions at an address,
and the exporter's over the frames of a trace; `FoldExists`, `CallbacksInTurn` and
`LookupsInTurn` turn a fold into its sequence of steps, as `IterationExists` does for
the walk. `HandleKeeps` says what one callback does, `LookupKeeps` what a lookup does:
`Reached` relates the tables before to those after. They have only grown, the ids of
the messages are new, each new function is announced under its id and its name, and a
file before the functions in it; the address has the locations of its functions.

* `TablesInv`: ids are below the next one, and the locations cached for an address are
  those of the functions there, in either mode.
* `SessionInv`: in a session, each name of the tables is told, lost or about to be
  sent, an id the collector knows or will know stands for the name it has in the
  tables, and files come before functions. `HelloInv` says why this holds when a
  session begins: the tables were emptied and the loop has not looked anything up
  before the session was up.
* `EntriesInv`: the sample has one id for each function of the frames looked up so
  far, the one the tables have for its name. Its step is `addFrames`, for which
  `FlattenAppend` unfolds `FlattenSeq`. With `SessionInv` it gives `SampleReadable`.
* `TreeInv`: a node has the count recorded at its path and the names of the functions
  at its address, and the nodes on the way to a recorded one, and no others, are seen
  in this phase.

### Model-checked only

* The liveness properties: the prover handles neither fairness nor `ENABLED`.
* The runs with forks of `Agent` do not check `SessionHasDeadline`; for them it rests on
  the proof alone.

Every invariant and action property of the passing runs, and both refinements, are
theorems.

## Abstractions to know of

* The drain of `close` takes no time: timers that have not expired when it starts
  do not expire in it. TLS handshake and shutdown are calls that return.
* The random part of the backoff only takes time. The timer for allocation tables
  is never scheduled by the code. A message that cannot be serialised is left out.
* The collector may send any message at any time, or nothing.
* In `Sampling` an id the scanner remembers is not given to a new thread
  (`TidReuse = FALSE`), and properties speak of the time while the kernel still
  grants timers (`TimersLeft`). Since the word for "stop" overflows, the stop
  branch of `on_interval_change` is never reached; it is in the model all the same.
* In `Metrics` the collector disables at most the event ring's prefix. `enable`
  may fail to open the ring. The unsynchronised insertion into the id map is
  atomic. The runtime lock is available until the main thread exits.
* In `Metrics` a fork is followed into the child, with the queue as it was. In
  `Pipeline` there is no fork.
* In `Pipeline` the rings are used as `InternalQueue` shows them to work. What a
  handler walks and which signal it got are chosen when it writes them to the slot,
  since nothing looks at them before. The walk finds any frames, not only those a
  real stack can have. The failure counters, line numbers, thread names (only that a
  name is looked up once) and the prefix `handleSyminfo` removes are left out.
  `MaxLost`, `MaxSessions` and `MaxSamples` are bounds: the ids that go on from session
  to session and the counts would have none.
* `lookup_locations` runs all callbacks of one address in one step and sends their
  messages after it, in order; in the code each send is inside its callback. Nothing
  that runs in those sends reads or writes the tables.
* `Agent` leaves sampling rates to `Sampling` and metrics to `Metrics`; each of
  these has the part of `onSampleRate`, `onDisconnect` and `onEnd` that is about
  its state.

## Not modelled, and why

* `lib_opsian.cpp`: the parsing of the options and the substitution of names in them
  are string handling, and their results are constants of the models. The fork
  callbacks call `on_fork`, which `Agent`, `Sampling` and `Metrics` have.
* The HTTP side of `prometheus_exporter.cpp` (binding, accepting, the text printed):
  I/O. Its `session` serves one read, and a request that is not a scrape changes
  nothing.
* `LogWriter`'s allocation table and `CircularQueue`'s `pushAllocation` and
  `pushThread`: no code calls them. `handleBtError`: libbacktrace's errors.
* `cpudata_reader.cpp`'s parsing of `/proc`. `debug_logger`, `globals`, `misc.h`:
  formatting and logging. `data.proto`: generates code.
* A fork in the middle of a push. The slot stays reserved in the child and its
  consumer waits for it for ever; the code has no answer to that, so there is no
  property to state beyond saying so.
* The exit of all threads at once: `Agent` has the processor thread's, `Metrics` the
  metrics thread's and the join of both. The loop of `sendDurationMetricId` that waits
  for room after the consumer has gone needs the queue of one and the exit of the
  other.
* Weak memory: the models are sequentially consistent, which the orders used give on
  x86 for these accesses.

## Plan

Done, in this order: the ring and its abstract queue; the processor thread, bottom
up (`Network`, `CollectorController`, `ProtocolHandler`, `Agent`); sampling;
metrics; the proofs of the ring and of the session's deadline; the map and its
abstract map; the pipeline from the stack walker to the two listeners; exceptions
and forks of the metrics thread; the proofs of `Metrics`, of the ring's refinement,
of the sends, reads and sockets of `Agent`, of `Sampling`, of the map, and of the
walk and the frame buffers; the proofs of the symbol table and the two listeners.

Next: facts that no run checks and a proof could state, such as that the ids a
collector is told never repeat over sessions, and the properties of `Agent` between a
fork and the first hello of the child.
