# A verification project for Tonic

Tonic is an implementation of a Python-like language in Rust: a compiler to
register bytecode, a virtual machine with a moving generational collector, a
JIT compiler, a native `asyncio` loop and three ways to talk to native code (its
own C API, HPy, CPython). This directory holds TLA+ models of the parts whose
correctness depends on the order of many steps, the TLC runs that check them on
small instances, and TLAPS proofs of the most important results for every value
of the constants. `PROJECT.json` maps every definition to the lines it models.

## 1. Inventory

All paths are below `src/crates/`.

| Component | State it keeps | Operations | What makes it correct |
|---|---|---|---|
| Heap (`tonic-runtime/src/heap.rs`) | entries in storage order, slots with generation and location, free stack, remembered set, external fields, three queues of finalization, handles already finalized | allocate, store, append, resume and suspend generators, write barrier, refresh of foreign edges | a value resolves to the object it was made for or to nothing; the remembered set is complete |
| Collector (`tonic-runtime/src/gc.rs`) | none of its own | minor and major collection, queueing, revival, sweep and compaction | nothing reachable is swept; everything unreachable is, in the end; slots agree with storage |
| Foreign objects (`foreign.rs`) | payload, traced edges | trace, refresh, take the finalizer | edges are fresh when a collection uses them; a payload is destroyed once |
| Virtual machine life cycle (`vm.rs`) | phase, draining flags, call depth | run, call, collect, shutdown in three steps, drains at safepoints | finalizers do not re-enter, keep their order, and every operation ends |
| `asyncio` loop (`calls.rs`, `heap.rs`, `vm.rs`) | futures, tasks, ready queue, timers, current task | run, create, sleep, complete, cancel, await, callbacks | no lost or doubled wake-up, cancellation delivered, timers served |
| Interpreter (`vm.rs`, `calls.rs`) | frames with the continuation of their caller, exception in flight, faulting instruction | call, return, dispatch of exceptions, every operation that may run a method of the program | the innermost handler gets an exception; a method in bytecode and a native one make no difference |
| Generators, coroutines, async generators (`vm.rs`, `calls.rs`) | frame, state, delegate, awaitables | send, throw, close, `yield from`, drive | exceptions reach the innermost delegate; a running generator is not resumed and never left running |
| Native handles (`native.rs`, `runtime_owner.rs`) | table of tokens, free slots, owner flag, queues filled by other threads | insert, resolve, promote, release, invalidate | a stale token never resolves; a release is neither lost nor doubled |
| C API (`c_api.rs`) | the scope of each native call | create, release, call, export | nothing outlives its call unless it was persisted |
| Buffers (`buffer.rs`) | exports, owners | export, release, mutate | the count of writable exports is the number of owners |
| HPy host (`tonic-hpy/src/host.rs`) | modules and their locks, the active call of a thread, handles, builders, trackers, fields, globals | calls of methods, every operation of the context | tokens name one value in one call; an edge of the heap has its field and the other way round |
| Dictionaries (`dict.rs`, `hashing.rs`, `calls.rs`) | entries, hashes, index of positions, suspended operations | get, set, delete, merge, construct, compare | what was matched before a method ran is still right when it is used |
| JIT and tiering (`tonic-jit`, `vm.rs`) | counters, call profiles, code cache, facts, float maps | profile, compile, enter, side exit, deoptimize, replace on stack | compiled code computes what the interpreter would |
| Imports (`vm.rs`, `tonic-compiler/src/modules.rs`) | module states and owners of globals | import, cycle, failure | a failed import leaves no half-made module |
| Classes and caches (`classes.rs`, `shapes.rs`, `type_plan.rs`) | linearisation, versions, dependents, shapes, inline caches | define, assign attribute, look up | a cached lookup equals an uncached one |
| Bytecode verifier (`tonic-core/src/bytecode.rs`) | none | verify | accepted code never reads outside its registers |
| CPython bridge (`tonic-cpython`) | proxies, deferred decrements | calls across the boundary | the two sides' counts agree |
| Compiler front end, command line | syntax trees, files | parse, lower, print | translation; tests and the differential corpus reach it |

How they interact: guest code allocates and mutates the heap at every
instruction; before every instruction the machine passes a *safepoint*, where it
drains finalizers (which are guest code again) and may collect. A collection
takes its roots from the machine, from the continuations in the frames and from
the handle table, asks foreign payloads for their edges, moves the survivors and
fills the queues that later safepoints drain. An operation that needs a method
of the program leaves a continuation in the method's frame and goes on when it
returns or fails; the method may operate on the same objects meanwhile. The
`asyncio` loop steps coroutines, which are generator frames on the heap. Native
code holds handles, calls back into guest code and mutates its payloads without
any barrier; other threads only post releases that a safepoint applies. Compiled
code takes over a frame and gives it back at a side exit or a deoptimization.

The hard behaviours are therefore: collections between any two mutations;
finalizers that allocate, resurrect, fail and collect; native references that
change unseen; completion, cancellation and timers racing for one task; errors
half way through an operation and on their way through generators, modules and
native boundaries; methods that re-enter the operation that called them; a tier
change at any instruction while types, annotations and globals change; nested
native calls; releases from other threads while the runtime ends.
`PROJECT.json` lists these as hazards at their lines.

## 2. Modules

| Module | Models | Extends |
|---|---|---|
| `TonicSequences` | helpers on sequences: `Elements`, `Increasing`, `At`, `Retained` | standard modules |
| `TonicHeap` | heap, collector, foreign edges and the three queues | `TonicSequences` |
| `TonicEventLoop` | the `asyncio` loop | `TonicSequences` |
| `TonicFinalization` | safepoints, drains and shutdown | standard modules |
| `TonicUnwinding` | frames, generators, async generators, imports and exceptions | `TonicSequences` |
| `TonicHandleNames` | abstract: names that are never reused | - |
| `TonicHandles` | handle table, scopes of native calls, exports, deferred releases, end of the runtime | `TonicHandleNames` as an instance |
| `TonicHpy` | the HPy host | community modules |
| `TonicDictionaries` | dictionaries and sets with the hash and equality protocols | standard modules |
| `TonicProtocols` | the operations that run methods of the program, on both of their paths | standard modules |
| `TonicJitAnalysis` | what the native compiler works out about a function | community modules |
| `TonicJit` | the two tiers of a function next to a reference interpreter | `TonicJitAnalysis` |
| `TonicHeapProofs`, `TonicFinalizationProofs`, `TonicHandlesProofs`, `TonicEventLoopProofs`, `TonicHpyProofs`, `TonicUnwindingProofs`, `TonicDictionariesProofs`, `TonicProtocolsProofs` | theorems | the module they are about, `TLAPS`, library theorems |
| `MCTonic...` | the instances that TLC explores: programs, scenes, bounds | the module of the same name |

Definitions called "Faulty variant" or "Mutant" are plausible bugs. They are not
used by any specification; each is exchanged for the definition it varies to see
that the properties notice.

Several modules have a constant of *programs* or *scenes*: each initial state
picks one, and it never changes. It says which operations the modelled guest or
native code may use, and so splits one large instance into parts that together
use every operation.

### TonicHeap

`objects` is the storage in order (`Heap::objects`), `slots` the indirection,
`free` the stack of free slots, `remembered` the old objects that may refer to
young ones, `external` the fields that native extensions keep outside their
owner, `pendingGenerators`, `pendingFinalizers` and `pendingForeign` the queues,
`finalizedObjects` the handles that were queued for `__del__`. `roots` stands
for everything `append_gc_roots` collects: registers, cells, globals, handles.
`reclaimed` and `ran` are history variables that only properties read.

An object has one of five kinds, which are the ones the collector tells apart:
a container, a cell (its one edge is replaced), an object with `__del__`, a
generator (whose edges are its saved frame and whose state decides whether it is
queued) and a foreign wrapper (whose edges are those of the last trace callback,
`refs`, while the payload really holds `held`). `Collect` is one action, as in
the code, where a collection runs without interruption: refresh of the foreign
edges, marking, queueing with revival, sweep, compaction, retirement of slots at
`MAX_GENERATION`. A slot is reused with a higher generation, so a stale value is
told from a live one.

Not in the model: byte accounting and limits, the purge of class dependents,
and what the objects contain apart from edges.

### TonicEventLoop

`objs` are futures and tasks in order of creation; `ready`, `timers`, `tasks`,
`main` and `current` are the fields of `EventLoop`; `maturing` holds the timers
that `mature_async_timers` has taken out and not yet looked at; `pc` says
whether the loop, a coroutine, a callback or module code runs. A timer keeps the
ticks that are left, `due_tick - tick`, so the counter needs no bound. A
coroutine's behaviour is open: between two suspensions it may call any operation
of `GuestOperation` and then ends its step in any way of `EndOfStep`.
`awaiting` records the source that the innermost `await` iterates over, since
the value a task is resumed with goes to that iterator. Completion with no
running loop follows the code: the outcome is stored and the lists are gone
before scheduling fails. `program` bounds the futures, the ticks and the ready
queue and names the operations and outcomes in use.

### TonicFinalization

`stack` holds the activations of `execute_until_depth` and of the two drains,
innermost last; a drain is called by code at a safepoint or by the embedder's
operation, and calls code to run a finalizer or the unraisable hook. `draining`
are the two flags, `pending` the lengths of the queues, `alive` the objects not
yet queued, `host` the embedder's operation and its place in it. Each stage of a
safepoint is an action with the condition of the code, including the local
`generatorsPending`, which is read once and used after the objects were drained.
Finalizers may create objects, collect, fail in the guest's way (reported to the
hook) or in the machine's own way (the drain fails, and its caller with it).
Compiled code collects at its own safepoints and drains nothing.

Which of the `alive` objects are unreachable is open; `TonicHeap` has the graph.
`allocated` keeps a safepoint from collecting twice with nothing allocated in
between, as the allocation counter does.

### TonicUnwinding

`frames` is `Vm::frames`; each has the `ReturnAction` of its caller's
instruction, the generator it belongs to, what it delegates to, and whether its
instruction lies inside of a `try`. `bases` are the depths at which native code
called the guest. `raised` is the exception that `dispatch_exception` is called
for; one step of that function is one action, which drops frames, enters a
handler, consumes the exception (a `StopIteration` by whichever continuation
asked for the next item, a `GeneratorExit` by a close, an `AttributeError` by a
default) or converts it (PEP 479). `gens`, `awaits` and `modules` are the states
of generators, of async-generator awaitables and of modules. What an instruction
does next is open, within what the program uses. Values are left out, and so is
the arithmetic that makes an exception: any instruction may raise any kind that
the program uses. `raised` also says which code, and which of its places, the
machine blames (`Error`), since that decides which handlers are looked for.

Two paths of the code lose what is on the stack, and the definitions `CutOff`
and `Replaced` name the programs that take them: a reduction that fails as it
ends leaves the machine without a search, and an `Op::Next` whose resumption
fails replaces the continuation of its own frame. `Accounted` is a program in
which neither can take away the frame of a generator. `RunningOnStack`,
`ImportsReset` and `NoHandlerSkipped` are about such programs only; without the
restriction TLC refutes each of them, as section 3 says.

### TonicHandles and TonicHandleNames

`entries`, `free` and `next` are the handle table and the token counter, which
all runtimes of the process share; `stack` has the nested activations of guest
code and of native scopes, these with the handles and buffer owners they must
give back; `exports` are the writable exports of each buffer. `queue`, `threads` and `alive` are the
runtime owner: a thread that drops a reference checks the flag in one step and
pushes in another, and the runtime may end in between. `Interface` has every
operation that makes or releases a handle, of the Rust and the C interface,
`Activation` calls and returns with their failures, `Shutdown` the end of the
runtime, `Outside` other runtimes and threads.

`TonicHandleNames` is what native code is promised: a map from names to
references in which a name that was ever handed out is never handed out again
and keeps its meaning until its release. `live` is the refinement mapping.

### TonicHpy

One runtime per thread, modules that they share. `call[t]` is the `CallState`
that `ACTIVE_CALL` points to, with its handles, texts, builders, trackers and
exception; `lock` is each module's `call_lock`; `next` are the four token
counters, exhausted at a bound of the instance; `edges` are the external fields
of the heap and `field` the bits in the object. A thread that waits for a lock
is an activation of its own on `stack`. What a scalar, text or container holds
is left out; that converting it may fail is not.

### TonicDictionaries

`store` holds, for each dictionary and set, the entries in order, their hashes
and the index from a hash to positions. `now` is the call that the machine is
about to make: each function of the protocol (`invoke_hash_protocol`,
`complete_hash`, `continue_dict_operation`, `invoke_equality`, ...) is an action
that ends in the next call or in a frame with a continuation, and `frames` are
the methods of the program that run inside one another. While such a method
runs, it may begin any operation of the program on the same dictionaries. Hashes
are small numbers, so unequal keys collide; tuples are hashed and compared element
by element, and their elements are atoms (`ObjectAssumption`): a tuple in a tuple
would only repeat the same continuation one level deeper.

### TonicProtocols

Each operation is written twice in the interpreter: as the code after `invoke`,
for a method that ends within the call, and as a `ReturnAction`, for a method
that only got a frame. The module runs both in lockstep: `side.native` and
`side.guest` are two machines in the same `scene` (operation, operands, which
methods they have: a member of `Scene`) that get the same answers. A `Step` lets
each of them that is not waiting enter its next function; neither sees the other,
so no other order could make a difference. `log` has the answers so far,
`stored` the items each has pushed, `roots` what the last frame kept reachable, and
`given`, which only properties read, the items that iterators have given.
Where the code of the two paths is the same function, the model has one operator
for it; where they differ, there are two (`AfterCall` and `OnReturn`, `AfterError`
and `OnException`).

### TonicJitAnalysis and TonicJit

The analysis is a set of operators on the code of a function: facts about
registers by a fixed point over blocks, refinement at branches, the registers
that are kept as unboxed floats, proven returns, supported code. They are
evaluated on each scene when the function is compiled, as the code does.

`frames` are the activations of the function, each interpreted or in native
code; `ref` are the activations of an interpreter that never compiles. Both take the step of an instruction together, and `ended` has
the two outcomes. `cache`, `hot`, `profile`, `used` and `explicit` are the
tiering state of the machine. Between two calls the program may change
annotations (`plan`), rebind a global or ask for compilation. Integers beyond
`MinInt .. MaxInt` and floats are objects of the heap. Machine code is modelled
by what each instruction's template does: decode with or without a check, take a
side exit, poll, call.

## 3. Runs

| Run | Instance | Shows |
|---|---|---|
| `heap_collections` | 2 slots of 2 generations, containers, cells, one external field, at most 3 owners of edges | `StorageConsistent`, `NoDanglingReference`, `RememberedSetComplete`, `ReclaimedStaysDead`, `MajorCollectionComplete` |
| `heap_finalization` | 3 slots, objects with `__del__`, generators, foreign wrappers, at most 2 edges and 2 roots | `NoDanglingReference` with unseen native references, `FinalizerRunsOnce`, `FinalizedBeforeReclaimed` |
| `loop` | three programs: 4 futures and tasks with completion and cancellation; 3 with every operation; 3 with every outcome and a callback | `NoLostWakeup`, `WaitsOnce`, `AwaitResumedBySource`, `CompletionQueues` |
| `loop_progress` | 3 objects, sleeps of 1 and 2 ticks, fair | `TimersMature`, `ReadyTasksRun` |
| `finalization_drains` | 2 generators, 2 objects with `__del__`, 1 payload, limit 1 per safepoint, fair | `FinalizersNest`, `NoCodeWithoutRoots`, `DestructorsOutsideFinalizers`, `OperationsEnd` |
| `unwinding` | seven programs with up to 4 frames: imports, delegating generators, async generators, awaits, recursion, iterators that iterate themselves, async generators that are finalized | `RunningOnStack`, `ImportsReset`, `ContinuationOfCaller`, `NoHandlerSkipped`, `UnwindingAdvances` |
| `handles` | 2 slots, 3 tokens, 4 nested activations, one other thread, one buffer; exports with another runtime, deferred releases with foreign references | `LocalsOwned`, `DeferredNotLost`, the refinement `NamesSpec` |
| `hpy` | 2 threads, 2 modules, 2 values, 3 local tokens; six programs, each with one part of the interface | `TokensNameOneValue`, `BuildersKeepItems`, `FieldsMatchEdges`, `ValuesAreClean` |
| `hpy_nested` | one module, one runtime, methods that run guest code | *violated*: `NestedCallsRefused` |
| `protocols` | every operation with each combination of methods that its code tells apart, up to 6 answers | `PathsAgree`, `ContinuationsRooted`, `ResultsRight` |
| `jit` | 17 functions, 4 calls, thresholds of 2, integers of -4 to 4 | `CompiledAgrees`, `FactsHold`, `NoStaleSpecialization`, `CallsEnd` |
| `dictionaries` | five programs on up to 2 dictionaries or sets, 2 hashes, colliding and equal keys, methods 2 deep | `IndexConsistent`, `MatchExact`, `EqualHaveSameKeys` |

Why the bounds are enough to be interesting. Two slots of two generations see a
slot retired, reused and named by a stale value, an old owner of a young value,
a cycle and the compaction that moves an entry; a third slot is needed for
chains through the queues (a generator that holds an object with `__del__` that
holds a payload), where two edges make the chain and two roots leave something
unreachable. Four objects of the loop are two tasks and two futures, the
smallest instance in which a task's stale registration at one source meets its
await of another. Two objects of a category with a limit of one per safepoint
make a drain stop early, as nine do in the code. Four frames are a caller, a
generator, its delegate and native code or a module below it. Two slots and
three tokens reuse a slot and exhaust the counter; one thread is enough to push
late, since threads do not wait for each other. Three HPy tokens are a handle, its
duplicate and one that finds the counter exhausted. In a dictionary, three keys
of one hash and a nested store or deletion make a position stale in every way.
Six answers reach the second item of each reduction with its comparison and
truth. With thresholds of two, four calls of a function are interpreted,
compiled, left through a side exit and deoptimized to the limit; integers of
nine values overflow in one addition.

Deadlock is checked in every run whose program may not stop anywhere.
`ModuleEnds`, `Stopped`, `Finished` and `Idle` are the states in which a program
of the loop, the machine, a protocol and the tiers may really stop, and stutter
there. In `unwinding`, `handles`, `hpy` and `dictionaries` a program may end in
many states (an exception that nobody handles, a runtime that is dropped, the
bound on operations), so deadlock is not checked there.

Fairness. The loop and the machine are single threads that do not rest, so
their steps are weakly fair. That guest code ends is assumed where a property
needs it (`EndOfStep` weakly fair; `CodeEnds` strongly fair, because code passes
through its safepoints again and again before it can end). Guest code that never
ends stops either loop, as it does in the program. `ReadyTasksRun` holds for
finitely many cancellations only (see below). In `TonicJit`, `Fairness` says
that while a call runs there are always further steps; as every such step is one
of `Machine`, and there always is one (the run finds no deadlock), this is weak
fairness of `Machine`. The functions of the run end in the reference
interpreter, so `CallsEnd` is about the tiers only.

`Runtime::poll` may answer any status, while the machine's own poll always
answers 0; `PollAnswers` has the two kinds (go on, leave native code).

### Where the code disagrees with what is said of it

`hpy_nested`: a native method calls guest code that calls a method of the same
module. `invoke_method` takes the module's lock (`host.rs:548`) before it looks
whether a call is active (`host.rs:556`), so the thread waits for itself and the
error written for this case at `host.rs:559` is never returned.

The other disagreements below were found while the modules were written. The
models contain these behaviours where it is not said otherwise; properties that
they would break are restricted to programs without them, in their definitions,
and say so in their comments.

| Line | What the code does | What is restricted |
|---|---|---|
| `heap.rs:748` | a payload's destructor runs after the collection that swept its wrapper, and the same collection swept what only the payload held (comment there; `docs/NATIVE_API.md:227` promise the graph) | no property says so |
| `calls.rs:7481` | a task that cancels itself and then awaits stays registered at that source when the `CancelledError` has been delivered, and may be woken out of a later await (ADR 0075:25) | `WaitsOnce`, `AwaitResumedBySource` |
| `calls.rs:7158` | a cancelled task goes to the front of the ready queue, which ADR 0075:31 calls FIFO; tasks that cancel themselves for ever starve the others | `ReadyTasksRun`: finitely many cancellations |
| `calls.rs:7329`, `7151` | a future completed, or a task cancelled, between two runs loses its waiters and callbacks and cannot be completed again (ADR 0075:32) | `CompletionQueues`: while a loop runs |
| `vm.rs:3666`, `6229` | generators left by `__del__` methods, and whatever finalizers create during a shutdown, stay queued (ADR 0078:34) | no property says so |
| `vm.rs:8337`, `8586` | a `for` loop whose resumption fails, and `athrow(StopIteration)`, write the continuation of another frame (ADR 0059:18); an import whose continuation is replaced stays *initializing*, and a finalized async generator stays running | `ContinuationOfCaller`, `ImportsReset`; with finalizers `RunningOnStack`, `NoHandlerSkipped` |
| `vm.rs:5495` | in recursive code the faulting instruction may be the callee's | `NoHandlerSkipped` |
| `vm.rs:6040` | `max()` of an iterator of the program without items, and `sum()` that fails at its end, leave the machine past every handler, with generators running and imports half done: the `?` of `finish_extremum(...)?` leaves `dispatch_exception` (ADR 0058:18 has the innermost region selected; `tests/differential/classes.py:1957` catches the same error of `max(())`) | `NoHandlerSkipped`, `RunningOnStack`, `ImportsReset` |
| `vm.rs:5679` | a module whose body ended with an exception that was consumed as the end of an iteration stays *initializing* | `ImportsReset` |
| `calls.rs:8464` | a call with a star argument that the program iterates is made twice, or never, if the iteration ends at once (ADR 0063:23) | `PathsAgree` ends with the iteration |
| `vm.rs:9675` | a caller decodes the result of an inlined callee by the callee's annotation, although the argument it passes need not have the annotated type | no function of the `jit` run passes such an argument |
| `tonic-jit/src/lib.rs:3883` | the float analysis merges a float and an integer at a join (ADR 0039:12) | no function of the `jit` run has such a join |

Seen, with no property about it: keyword arguments of `dict()` are found by their
structural key (`calls.rs:4577`; in the run no key of the program equals such a
name); `async_delay_ticks` maps a delay beyond 64 bits to zero (`calls.rs:7269`;
delays are bounded); `step_async_task` looks for a delegate after the coroutine
has been resumed (`calls.rs:7505`); `finalize_shutdown` that fails stays in its
phase (`vm.rs:3632`); `finish_new` ignores what a native or a generator `__init__`
returns (`calls.rs:5512`), which is why `InitAnswers` of the `protocols` run is
`None` only.

## 4. Proofs

`TonicHeapProofs` proves, for any number of slots and generations, any set of
fields and any kinds, that `TypeOK`, `StorageConsistent`, `NoDanglingReference`,
`RememberedSetComplete` and `ReclaimedStaysDead` are invariants of `TonicHeap`.
The only assumption is `HeapAssumption`. None of the five is inductive alone:
that a minor collection sweeps nothing reachable needs a complete remembered
set; that set is complete after a sweep only if storage and slots agree; and
that a stale value stays dead needs every reclaimed value's generation to be
below the one its slot hands out next. `HeapInv` conjoins the first four with
two such facts: `ReclaimedGenerations` (the slot of a reclaimed value has a
later generation or is retired) and `HeldByForeign` (only a foreign wrapper's
payload holds reference handles). The argument goes collection by collection:

1. `Reach` is closed under edges, so what is marked refers to marked objects
   only (major collection, then minor collection with the remembered edges);
2. queueing adds the closure of what it queues, so the marked set stays closed;
3. compaction is an increasing enumeration of the marked locations, so a slot's
   new location holds the object of its old one;
4. the remembered set after a sweep contains every old survivor with a young
   edge, since the survivors' edges are unchanged;
5. every mutation changes one owner and passes the barrier.

The same module proves the three properties about finalization. `FinalizationInv`
says that a value in the queue of objects, or one whose `__del__` was started and
which still resolves, is marked in `finalizedObjects`; that a running generator is
rooted; and that the queued payloads belong to different, reclaimed wrappers. With
it `FinalizerRunsOnce` is an invariant, and every step satisfies
`FinalizedBeforeReclaimed`. That a full collection leaves no garbage
(`MajorCollectionComplete`) is the converse of safety: what survives is in the
closure of the roots and of what was queued, and the queues are roots of the next
state, so by induction along `Reach` (`CollectFullReaches`) each survivor is still
reachable when the slots have moved.

`TonicFinalizationProofs` proves, for any limits per safepoint and any number of
finalizable objects, that `TypeOK`, `FinalizersNest` and `NoCodeWithoutRoots` are
invariants of `TonicFinalization` and that every step satisfies
`DestructorsOutsideFinalizers`. It needs no fairness. `FinalizationInv` is the
conjunction of three parts:

* `CountsOK`, the types of the counters;
* `WellNested(stack, draining)`: the flags tell what is on the stack, an inner
  drain is one of generators inside one of objects, and activations of code and
  of drains alternate. The alternation is what `FinalizersNest` lacks: a
  safepoint drains objects only if both flags are clear, and to know that an
  activation that ends returns to a drain (or to the embedder) the kinds on the
  stack must take turns;
* `HostOK`: where the embedder's operation has nothing on the stack, and which
  phases it may be in. `NoCodeWithoutRoots` alone is not inductive, since it
  does not say that a shutdown which has cleared the roots never returns to a
  place from which drains are called.

The lemmas `GoOn`, `PushCode`, `PushDrain` and `Pop` say once what the four
ways to change the stack do to `WellNested`; each action is one of them.

`TonicHandlesProofs` proves, for any numbers of tokens, slots, threads, nested
activations and any values, that `TonicHandles` refines `TonicHandleNames`
(`HandlesImplementNames`, the property `NamesSpec` of the run), from
`HandlesAssumption`. The inductive invariant `TableInv` says that the entries are
well typed, that free slots exist and that every token handed out is smaller than
the next one. A slot may be reused at once, so nothing about slots tells an old
handle from a new one; the tokens do. Four lemmas say which changes of the table
the abstract names allow: none (`UnchangedAllowed`), a slot filled under a
fresh token (`FilledAllowed`), some references gone (`EmptiedAllowed`, with its
cases `ReleaseAllowed` and `InvalidateAllowed`); each operation is one of them.

Two invariants follow on top of it. `DeferredNotLost` needs `QueueOK` (what is
queued or held by a thread was issued) and the counting lemma `CompleteBatch`: a
drain reports success only if it released as many handles as it had taken, and
then no handle of the batch was passed over. `LocalsOwned` needs `ScopesInv`: guest
and native activations take turns, no handle is in two scopes, every entry of a
scope's kind is in one, and the exports of a buffer are as many as its owners. Its
proof is about the changes of the table once more (`InsertEffect` and the lemmas
after it), this time with what they do to the scopes.

`TonicEventLoopProofs` proves all four safety properties of the `asyncio` loop, for
any program, any number of futures, tasks and timers and any number of runs.
`LoopInv` has `TypeOK` and four parts: `Linked` (whatever the queues, the waiters
and the control refer to exists, and a source that is done keeps no waiters and no
callbacks), `Kept` (every unfinished task is stepped, queued or waiting, and the
first wake-up of a task that was asked to cancel is its cancellation),
`CallbacksOnce` and, unless the program lets a task cancel itself, `TasksOnce` (a
task is in exactly one place). `WaitsOnce` alone is not inductive: a completion
moves waiters into the queue, and that no task is queued twice then needs that no
waiter was queued before. The module starts with lemmas about queues (their elements
after a push, a pop, a concatenation and a `Retained`).

`TonicHpyProofs` proves all four safety properties of the HPy host that the run
`hpy` checks, for any numbers of threads, modules, values and tokens. `HpyInv`
says which stacks a thread may have and that a call belongs to exactly those with
native code in it (`Stacks`); that tokens were issued below the counter, for the
value they name, and to one call (`Tokens`); that builders hold what was put in
(`Builders`); that fields and edges agree (`Fields`); and that a call which owes a
report has an exception (`Debts`). Every operation of the context leaves one shape
of step, `Worked`, which keeps each part; the rest is about calls and returns. The
discipline of the stack is what the return of guest code needs: below it there is
always the native code whose call is active.

`TonicUnwindingProofs` proves all five properties of the run `unwinding`, for any
numbers of frames, generators, awaitables and modules and programs of any kind.
The argument reduces some thirty actions to two shapes. An instruction makes a
`Move`: the active frame goes on or fails, a frame is pushed (`Calls`, `Enters`),
or the active one is left (`Leaves`). A step of `dispatch_exception` that does not
convert the exception `Cuts` the stack at a frame `k`: the frames up to `k` are
kept, perhaps with a call of the next method above them, and the generators,
awaitables and imports above it are completed or reset. The invariant `IInv` says

* `BasesOK`: the native callers' depths grow, and the frame above each has a
  continuation that native code pushes, so no boundary is cut unseen;
* `GeneratorsOK`: one frame for a running generator and none for others. It is
  not inductive without `Unwound`: a generator is completed before its frame is
  dropped, and between the two every frame from it upwards must be one that cannot
  stop the exception;
* `DriversSet` and `OneDriver`: the awaitable that runs is the driver its generator
  remembers. No step changes more than one of them (`HandedOver`);
* `ImportsOK` and `ContinuationsOK`: each import and continuation with its caller;
* `CodesApart` and `FaultPlaced`, for `NoHandlerSkipped`: frames have different
  code and the exception blames an instruction of the frame that failed.

`UnwindingSkipsNoHandler` has the hypothesis `CodesDistinct`: functions, generators
and modules have different code. The machine finds the faulting frame by comparing
codes (`vm.rs:5495`), so two generators of one function that resume each other are
recursion, which the property excludes; distinct code is how a model without
values says so. The instance of the run satisfies it. The other theorems need
`UnwindingAssumption` only.

The proof attempt changed the model: `RunningOnStack`, `ImportsReset` and
`NoHandlerSkipped` could not be proved as they stood, and TLC refuted each on a
program that the run did not have (a reduction that fails as it ends below a
generator or an import; a failing `Op::Next` in a module body, or in an async
generator that a finalizer closes). That is what `CutOff`, `Replaced` and the program
`Finalizations` are for. `IInv` was checked by TLC on all programs of the run before
it was proved.

`TonicDictionariesProofs` proves both invariants of the run `dictionaries`, and
its action property, for any objects, classes, hashes, dictionaries, programs and
nesting limits. A continuation of this interpreter is a chain of actions, each
waiting for the one before it (`DictEntries` for a `CompareValue` for a
`DictCandidate` for a `Sequence` ...), as long as the program's methods nest. An
invariant defined along the chain would need induction over data. `Inductive`
says instead that there are two sets of waiting actions, one of pairs (a value,
what waits for its hash) and one of triples (two values, what waits for whether
they are equal), that contain what the machine and its frames will return to and
are *closed*: an action's own outer action is in them too, with the values it
waits for. A step that starts a nested operation adds one member
(the lemmas `Follows...`); a step that answers takes one out of use.

What each action must satisfy speaks of the dictionaries only as long as the version
it noted is still theirs: the candidates of a lookup are the bucket of its hash,
the candidates before its next one were compared and differ (`Tried`), the entries
of a comparison before its next one were found (`Found`). A method that runs
meanwhile may change any dictionary, and then either raises its version or leaves
its index and its keys as they were (`Evolves`); `ClosedOutlives` and the lemmas
before it carry the facts over such a change. Three arguments are about the data:

* a lookup that has compared all its candidates has compared every equal key,
  since equal keys hash alike, the hash of a tuple included (`EqualKeysHashAlike`);
* an index after an insertion or a removal lists each bucket in order again: a
  removal shifts the positions behind it by one;
* `EqualHaveSameKeys`: a comparison found each key of the left dictionary in the
  right one, which has as many entries; as keys are distinct and equality is
  transitive that is an injection, and between finite sets of one size a bijection.

Five assumptions describe the objects. `HashAssumption` and `ObjectAssumption`
are types. `EqualityAssumption` is the contract of `__eq__` and `__hash__`: equal
atoms have equal hashes. A program that breaks it breaks its own dictionaries, as
in any Python. `ProgramAssumption` says that programs use what exists.
`KeywordAssumption` is a real limit: the names of keyword arguments are strings,
and `dict(..., name=value)` looks them up by structure, without calling anyone's
`__eq__` (`dict_set`), so the theorems exclude an object of the program that claims
to be equal to such a string; with one, the dictionary gets both keys
(`calls.rs:4577`).

The attempt changed the model in one place: a removal took the position out of
every bucket, while the code looks into the bucket of the entry's own hash only
(`Unlisted`). That the other buckets cannot hold it is now a result of the
invariant, no longer built into the operation.

`TonicProtocolsProofs` proves the three properties of the run `protocols`, for any
set of members of `Scene`, any number of answers and any limit of arguments. `Scene`
is every operation on operands with any methods, any related classes, any builtin
type below the class. `Invariant` has four parts: `Shape`, `ErrorsEnd` (the first
half of `ResultsRight`), `PathsTyped` and `Lockstep`.

`PathsTyped` is a type system for suspended protocols. A *context* says which values
a path may use (`live`), which min and max may answer, which items were given and
stored, and whether the answers have decided a reduction or a membership test
(`hit`). Over a context there are types of nested actions (`Truths`, `Equalities`,
`Completions`, `Targets`, `Finishes`), of continuations, of arguments of functions
(`Ready`) and of results (`Ends`, which asks for `Right`). For each function of the
interpreter a lemma says that it takes a typed argument to a typed path. Then

* an answer changes the context. `Kept` and the lemmas after it say that an action
  is still typed where only what its `trace` names is live: this is what a
  collection in the method leaves, so `ContinuationsRooted` follows from `live`
  alone. `Told` says that the answer and what it decides (`HitNext`) lead to a
  continuation that is ready; `Thrown` says the same of errors;
* `ResultsRight` is `Right` of the last context. `hit` is what makes it inductive
  for `any`, `all` and `in`: a path that goes on has not been decided yet.

`Lockstep` says that the two paths are `Alike`: they have the same function to enter,
or wait for the same method with the same arguments, with the same continuation. The
only difference it allows is how the expansion of a starred argument remembers that it
was resumed. `ReturnsAlike`, `ResumesAlike` and `EndsAlike` compare, action by action,
the code after `invoke` with the `ReturnAction`; `FailsAlike` an error of a method in
a frame with one within the call.

`BothPathsAgree` has three hypotheses, and each is where the code really parts: an
`__init__` returns `None` (on the native path nothing looks at its result);
min and max of an iterator have a default (without one, the error of an empty
iterator comes from `dispatch_exception` itself and no handler sees it, `vm.rs:6040`);
and a call that waits for its starred argument gets one without an `__iter__` of the
program (it is made twice or never otherwise, `calls.rs:8464`). `Agreeing` is their
instance for one scene: an end may differ where it does not hold, but calls may not,
so `Lockstep` needs no hypothesis. The scenes of the run satisfy them.

The proof changed the model. The paths took turns before, and what to compare
depended on which was ahead; `given` replaces a recursive function of `log`; and
`Made` was missing: `list.__init__` makes a native iterator only after `__new__` has
returned, so nothing had to keep it before, but `ContinuationsRooted` asked for it
(the scenes of the run had no such argument, and have now).

Only model-checked, and why:

* the liveness properties `TimersMature`, `ReadyTasksRun`, `OperationsEnd` and
  `CallsEnd`: they need fairness, which is out of the prover's reach;
* the tiers: the analyses of the native compiler are recursive operators, and what
  a recursive definition computes cannot be proved with the installed provers.

`HeapTypeCorrect`, `FinalizationTypeCorrect` and the inductive invariants that are
listed as theorems are proved and not checked by runs of their own.

## 5. Plan

Done: the heap with its collector (most important: every other part relies on
it), the event loop, finalization and shutdown, handles with their refinement,
unwinding with generators and imports, dictionaries, the protocols, the tiers
and the HPy host; proofs of every safety property that a passing run checks of
the heap, the event loop, finalization, handles, HPy, unwinding, dictionaries and
the protocols. Next, in this order:

1. `TonicClasses`: linearisation against its definition, class versions,
   dependents, shapes and inline caches against uncached lookup.
2. `TonicCpython`: proxies over two collectors and deferred decrements.
3. The bytecode verifier, as an operator over small programs against what the
   interpreter reads.

## 6. Not modelled

Classes, attribute caches and shapes, the CPython bridge and the bytecode
verifier are planned. The compiler front end and the command line are sequential
translations and I/O, which the repository's tests and its differential corpus
reach. Finding the source of a module, opening a native library, negotiating
versions and the tables of capabilities are I/O as well. The code generator
proper (register allocation, encoding) is beyond a model of this kind: the tiers
are modelled by what each instruction's template does. Arithmetic beyond the
boundary of tagged words, formatting, text, slices of native sequences and the
layout of buffers are left out. Byte accounting, limits and statistics are left
out throughout; where exceeding a limit makes an operation fail, the failure is a
nondeterministic outcome.
