# Jato in TLA+

Jato is a Java virtual machine with a just-in-time compiler, written in C. This
directory holds TLA+ models of the parts of it in which several threads meet
(monitors, class initialisation and loading, the collector, lazy compilation,
inline caches, parking), of the path of an exception through compiled code, and
of algorithms the VM rests on (linking, flow graph, liveness, linear scan, the
radix tree, the priority queue); the TLC configurations that check them on small
instances; and TLAPS proofs, for every value of the constants, of the safety properties
of the parts with threads and of exceptions, and of what the radix tree, the flow graph, the
liveness analysis, the heap and the order of the linear scan compute. Source paths below are relative to `src/`.

## 1. The system

| Part | State | Operations | Where it is hard |
|---|---|---|---|
| Monitors (`vm/monitor.c`) | `monitor_record` of each object; owner, lock count, blocked and waiting counts, semaphore, condition variable of each record; a pool of records per thread | lock, unlock, wait, timed wait, notify, notifyAll, interrupt | lock-free inflation and speculative deflation; records are recycled while other threads hold stale pointers to them |
| Compilation locks and class initialisation (`lib/compile-lock.c`, `vm/class.c`) | status, waiter count, semaphore, initialising thread; state of the class | `compile_lock_enter`, `compile_lock_leave`, `vm_class_init` | re-entry, waiters counted at one moment, error path that leaves the lock early |
| Class loading (`vm/classloader.c`) | table of entries with status, waiter count, loading thread | `classloader_load`, `classloader_find_class`, `classloader_add_to_cache` | mutex released while a class is loaded; entries freed by the last waiter; retries after failure |
| Collector and threads (`vm/gc.c`, `vm/thread.c`, `jato.c`) | list of threads and two counts, safepoint count, signals | start and end of threads, `gc_start`, the GC thread, the signal handlers, exit | signals interrupt anything; threads start and end while the world is being stopped |
| JIT entry (`jit/trampoline.c`, `jit/fixup-site.c`, `jit/vtable.c`, `arch/x86/fixup.c`, `jit/inline-cache.c`) | state and mutex of a compilation unit, fixup lists, vtables, inline caches | magic trampoline, fixups, cache transitions | double-checked state, code patched while it runs |
| Compiler (`jit/*.c`) | one compilation unit, by one thread | bytecode to IR, control flow, dominance, SSA, liveness, linear scan, emission | pure algorithms, with corner cases |
| Exceptions (`jit/exception.c`, `jit/bc-offset-mapping.c`) | exception of a thread, exception tables | throw, unwind | order of handlers, frames of native code |
| Verifier (`vm/verifier.c`) | states of basic blocks | transfer, merge | termination and agreement at joins |
| Linking (`vm/class.c`, `vm/field.c`, `vm/method.c`, `vm/itable.c`) | layout of fields, virtual and interface tables | link, resolve | overriding and interface conflicts |
| Containers (`lib/*.c`) | hash map, radix tree, priority queue, bit set, lists, arena | get, put, remove, iterate | growth, node removal, counts |
| Natives, JNI, reflection (`runtime/*.c`, `vm/jni*.c`) | `park` permits; otherwise none | conversions and calls | `park`/`unpark` with time limits |
| Class files, archives, printing, debugging | none that lasts | parse, print | file formats only |

How they interact. A Java method is called through its *trampoline*, which asks
for the *initialisation* of the class of a static method and compiles the method;
compiling *loads* further classes; initialising runs Java code, which locks
*monitors*, loads and initialises other classes and starts *threads*; every
allocation under `-Xnewgc` may start a *collection*, which stops all threads
wherever they are. Threads share the class table, the class locks, the records of
monitors and the list of threads; they call each other only through semaphores,
condition variables and signals.

What makes each part correct:

* monitors: exclusion, no lost wakeup, no missed notify, counts that are exact
  when they decide about recycling, locks restored after a wait;
* class initialisation: one thread at a time, after the superclass, nobody sees an
  unfinished class but its initialiser, everybody is woken;
* class loading: one class per name and loader, no entry used after it is
  freed, failures are not remembered, everybody is woken;
* collector: nothing runs while it collects, every collection ends, no signal to
  a thread that is gone, exit after the last non-daemon thread;
* lazy compilation: whoever reaches a method's code finds it finished, patches are
  neither lost nor wrong, a failed compilation can be tried again, calls return;
* exceptions: the right handler, with the locks given back, and none forgotten;
* compiler and containers: the result is what the definition of the problem says,
  and the code that comes out reads the values the code that went in reads.

`PROJECT.json` lists every part, the hazards with the line where each bites, and
for every definition the source lines it models.

## 2. The modules

| Module | What it is |
|---|---|
| `Monitor` | `vm/monitor.c`, `vm_thread_interrupt`, and the pools of `vm_exec_env`, one step per access to shared memory |
| `MonitorProperties` | its invariants, the parts of the inductive invariant, the refinement mapping, its liveness properties |
| `JavaMonitor` | the abstract monitor: who holds, who waits, who sleeps |
| `MonitorProofs` | TLAPS proofs: types, the safety invariant, wakeups, the implementation of `JavaMonitor`, notifies |
| `ClassInit` | `lib/compile-lock.c` and `vm_class_init` |
| `ClassLoader` | the class table of `vm/classloader.c` |
| `StopTheWorld` | `vm/gc.c`, the life of threads in `vm/thread.c`, the end of `main` in `jato.c` |
| `Trampoline` | `jit_magic_trampoline` with compilation units, fixup sites, static accesses and vtable entries |
| `InlineCache` | one call site of `arch/x86/inline-cache.c` |
| `Linking` | `vm_class_link`: virtual indices, vtables, interface tables and their search, field layout, subtypes; `MCInlineCache` extends it |
| `Park` | `park` and `unpark` of `runtime/sun_misc_Unsafe.c` |
| `Exceptions` | throwing, handlers, unwinding and the code around synchronized methods, for one thread |
| `ControlFlow` | `jit/cfg-analyzer.c` and the blocks of `jit/basic-block.c` |
| `LiveIntervals` | `jit/liveness.c` and `jit/interval.c` |
| `PriorityQueue` | the binary heap of `lib/pqueue.c` |
| `Dominance` | `jit/dominance.c` and the placing of phi functions of `jit/ssa.c`; `MCRegisterAllocation` extends it |
| `RegisterAllocation` | the passes of `do_compile` from instructions on variables to code on registers, `jit/linear-scan.c` and `jit/spill-reload.c` among them, and a machine that runs the code; extends `LiveIntervals` and `PriorityQueue` |
| `RadixTree` | `lib/radix-tree.c`, which finds the compilation unit of an address |
| `ClassInitProofs`, `ClassLoaderProofs`, `TrampolineProofs`, `InlineCacheProofs`, `ExceptionsProofs` | TLAPS proofs about the module each is named for |
| `ThreadProofs` | TLAPS proofs about `StopTheWorld` and `Park` |
| `JitProofs` | TLAPS proofs about `RadixTree`, `ControlFlow`, `LiveIntervals`, `PriorityQueue` and `RegisterAllocation` |
| `MC...` | constants and symmetry for the model checker |

In those with threads a thread has a program counter per call, named for the
statement it is about to execute. `TypeOK` of a module says what values its
variables take. A definition that starts with the comment "Mutant of X"
is X with a plausible bug; no specification uses it. It shows that a property
would notice the bug.

### Monitor

| Model | Code |
|---|---|
| `monitorRecord[o]` | `vm_object.monitor_record` |
| `owner`, `lockCount`, `nrBlocked`, `nrWaiting`, `candidate`, `sem` | fields of `vm_monitor_record` |
| `notifyMutex`, `condQueue` | `notify_mutex`; the threads asleep on `notify_cond` |
| `freeRecs[t]`, `heap` | `vm_exec_env.free_monitor_recs`; records malloc has to give |
| `interrupted`, `waitingMon` | fields of `vm_thread` |
| `pc`, `op`, `caller`, `obj`, `rec`, `toPost`, `waiter` | where a thread is and its local variables |
| `held[t][o]` | how many locks the calls that returned have given (a history variable) |

`ReadRecord` to `DecBlocked` are the loop of `vm_object_lock`; `OwnerCheck`,
`TestBlocked`, `Release`, `WakeOne`, `SemPost` the slow path of
`vm_object_unlock`, and `Deflate`, `Recheck`, `Flush`, `Spin` its speculative
deflation; `WaitLock` to `Relocked` are `vm_object_do_wait` around an unlock and a
lock; `Notify` is both notifies; `Interrupt` enters a lock, a notifyAll and an
unlock, as the code does; `Exit` is `free_exec_env`. Allocation may fail.

Each step is one atomic operation or one short critical section. The memory is
sequentially consistent: the code puts a full barrier, or an atomic operation
that implies one, between each of the pairs of accesses that the protocol orders
(the comments in `vm/monitor.c` name the pairs), and the model takes these
barriers as given. Condition variables wake nobody spuriously, which is the
harder case for the properties about waking.

`QuiescentExit` is an assumption about the threads, not a fact about the code: a
thread ends only when no other thread has a pointer to a record of its pool.
Without it the code touches freed memory (section 4), and nothing can be said
about what follows.

### ClassInit

`status`, `nrWaiting`, `waitSem`, `compilingEe` are the fields of `compile_lock`,
`state` is `vm_class.state`. `stack[t]` holds the nested calls of `vm_class_init` of
a thread: a class, a program counter and the posts it has yet to give. The class
graph is a parameter: `Super`, and the classes `Uses` that the static initialiser
of a class may ask for. The static initialiser asks for some of them in any order
and ends normally or with an exception; the fault injection of `vm_class_init`
is one more way to fail. `vm_object_lock(vmc->object)` around `state` is one step.

### ClassLoader

`classes` is the hash map from names to entries, `entry` the memory of entries,
`free` the entries that are not allocated. `stack[t]` holds the nested calls: a
subclass loads its superclass `During` its own loading, an array class its
element class `Before` (with a Java loader) and `During`. The critical sections under
`classloader_mutex` are single steps; loading is outside of them and may fail.
Java class loaders are external code: they lock themselves, ask the VM first
(`classloader_find_class`), and define what is missing
(`classloader_add_to_cache`), which is what `java.lang.ClassLoader.loadClass` does.
`SpuriousWakeup` wakes any sleeper at any time. The model treats a failed allocation of an entry like a failed
`hash_map_put`; the code follows the null pointer (`vm/classloader.c:654`).

### StopTheWorld

`pc[t]` is what a thread does and `hpc[t]` its handler of SIGUSR1, which runs on
top of it; `sleeping[t]` is the condition variable `pthread_cond_wait` is in;
`usr1`, `usr2` and `gcUsr2` are pending signals, which do not queue. `threadList`,
`nrThreads`, `nrNonDaemons`, `countLocked` are the variables of `vm/thread.c`;
`nrInSafepoint`, `nrStopped` (`nr_threads` there) and `reclaiming` those of `vm/gc.c`.
`JavaCode` says whether a signal may find its thread in compiled code, `OutOfMemory`
whether a new thread may fail for want of memory. No code puts a thread into
`VM_THREAD_STATE_INCONSISTENT`, so the restart of such threads is one step
without effect. The GC thread has blocked SIGUSR2 before the first allocation.

### Trampoline

`state`, `mutex` and `arena` belong to a compilation unit: `cu->state`,
`compile_mutex`, and the memory the unit is compiled in, which is given back after a
success and which a second compilation would need. `target` is where a direct call in
compiled code goes, `cuCalls` the sites noted during selection
(`call_fixup_site_list` of the unit), `fixups` those handed over to the trampoline of
the callee. `access` is what a static access uses (the field or the guard page),
`cuStatics` and `vmcStatics` the two lists such a site is on. `vtable` has one
virtual method; `Slot` is what `setup_vtable` puts there, the method of the class itself if
it declares one. A thread calls no method while an exception is set (`vm/call.c:26`). A thread is a stack of frames, each in a trampoline or in
compiled code, where every site of the method is executed at most once in any
order. `vm_class_ensure_init` is reduced to what `ClassInit` shows: one thread
initialises, others wait, the outcome is final. A compilation
fails before emission (nothing is emitted), after it for want of a bytecode map (the sites are
handed over by then), or when the unit cannot be entered into the map of addresses. Selecting a static access is one step (`SelectStatic`), although the code reads the
state of the class and then puts the site on two lists (`arch/x86/insn-selector_32.brg:869`,
`vm/static.c:44`): an initialisation that ends in between is not in the model. Exceptions come from failed
compilations only, and from classes that are erroneous in consequence. `corrupt`
is set when the VM uses a dead pointer or code that is not written (`fixup_static`
meets a site of a unit that is still being compiled); nothing is said of what follows.

### InlineCache

The two operands `imm` and `fn` of one call site, written one after the other under
`ic_patch_lock`, and read by other threads without it. A thread loads the class of its
receiver, then `imm`, then jumps to `fn`: `ic_start`, `ic_vcall_stub` or the entry of a
method, which compares class and operand. `direct` says which vtable entries hold
code and not a trampoline. What `jit_lookup_cu` answers for the address of a JNI
function's stub is any method, since the stub itself is not in the map. `disturbed`
is a history variable: threads that had a patch between their loads.

### Linking

Operators without state. A class file has a superclass, interfaces, flags and methods, a
method a signature; linking a sequence of files gives every class its methods (those of the
file, then the ones made up for interface methods nobody declares), their virtual
indices, its vtable and its interface table. `emit_itable_bsearch` is not the code that
emits the search but what the emitted code does. `itable_hash` is any function from
signatures to buckets. `MCInlineCache` assumes, so that TLC evaluates it, that the vtables of
its receivers are what linking makes them, that in 41 thousand hierarchies (an Object, two
interfaces, one of which may extend the other, an abstract class and a class, with any of
two signatures in each, and an interface with a static initialiser) every virtual and every
interface call reaches the nearest declaration up the superclasses, with all methods in
one bucket and with each in its own (`CallsExact`), and that fields are aligned and
apart from each other for superclasses and classes of up to three fields
(`LayoutExact`). Access flags of methods are left out: section 4.

### Park

A permit per thread, a clock, and the time limit as the code computes it, with seconds
and milliseconds scaled down (2 milliseconds to a second, 3 nanoseconds to a
millisecond). The critical sections under `park_mutex` are single steps; condition
variables do not wake spuriously.

### Exceptions

One thread, a stack of frames of Java methods and native code, `ee->exception`, and
one monitor that all synchronized methods use. The two guard pages are armed
exactly while an exception is set, so they are folded into `exception`. The places
of a frame are listed at the head of the module; they are where the code of
`jit/emit.c` and `arch/x86` branches on an exception: the lock after the prolog, the test
after the call of a native method, the handler's prologue, and the exit and unwind
blocks with their unlocks and the tests after them. `goal` (where the Java language wants
the exception) and `locked` are history variables. `monitorenter` and `monitorexit` in
the body are left out: locking is structured by synchronized methods. When the lock of a synchronized
method fails, the unwind block unlocks what is not locked, and an IllegalMonitorStateException replaces the
OutOfMemoryError; `goal` is aimed at the handler of the new exception, as for any
exception thrown while another is in flight, so the loss of the first is no violation. `ThrowFromJit` finds handlers by their class alone: that resolving the class of a catch clause may load classes or fail
(`jit/exception.c:290`), and the branch for an exception that is no Throwable (line 344), are left out.

### The compiler

`code` stands for the bytecode and for the selected instructions: each has the variables
it reads and writes, and a branch its target. Instructions are chosen one by one,
so a run goes through all methods of its size. `phase` is the pass that comes next:
`BuildBlocks` is `analyze_control_flow`, each `AnalyzeLiveSets` a round of the iteration over the
blocks, `BuildIntervals` is `update_live_ranges`, `StartAllocation` is `allocate_registers` up to its loop,
each `AllocateRegister` a turn of that loop, and `InsertSpillReloadInsns` the rest up to the emitted code.
`bbs` are the basic blocks, `live` their live sets, `its` the intervals, `unhandled` the
queue, which is the heap of `lib/pqueue.c` itself: `MCRegisterAllocation` assumes, and so
TLC evaluates, that its two operations keep every heap of up to seven elements one. `pqueue_compare` narrows the difference
of two keys to an `int` (`lib/pqueue.c:31`); keys are positions in one method, less than 2^31 apart, for which the narrowed
difference has the right sign.
`active` and `inactive` are the sets of linear scan, `out` and `edges` the emitted code
and its resolution blocks. The machine then executes the code; `held` is, for each register and slot,
the set of variables whose current value it has. All variables have one type. The fixed
intervals of machine registers come from calls only. Instruction selection is reduced to that
choice: which instructions a bytecode becomes is left open. The processor is external; switches, exception handlers and the SSA passes (off by
default) are left out of these passes.

`Dominance` has depth-first numbers, immediate dominators, dominance frontiers and the
blocks that get a phi function for one variable, as operators on a flow graph.
`MCRegisterAllocation` assumes, and TLC evaluates, for every graph of four blocks with up to two
successors each: the dominators are the nearest blocks that no way from the entry avoids
(`DominatorsExact`), the frontiers are where dominance ends (`FrontiersExact`), and the phi
functions for writes in the entry and another block are the iterated frontier, where
the variable is live (`PhisExact`, on the graphs whose entry has no predecessor).

### RadixTree

The actions have the names of the functions (`radix_tree_insert`, `radix_tree_remove`). A node is
named by its level and the upper bits of the keys below it; `count` is its field, `slot` the values of the
leaves. `map` and `over` are history variables: what the caller may expect, and which
keys were overwritten (that raises `count` a second time). `FailAfter` says after how many
new nodes an insertion may run out of memory, `RemoveAny` whether a caller removes keys that it
has overwritten or not inserted.

## 3. The runs

| Run | Instance | States | Shows |
|---|---|---|---|
| `monitor_safe` | 3 threads, 1 object, 2 records; lock, unlock, timed wait, notify | 964 thousand | the invariants of `MonitorProperties` |
| `monitor_live` | 2 threads, 1 object, 1 record, depth 2; lock, unlock, wait, notify, interrupt, threads that end and start again | 65 thousand | `Monitor` implements `JavaMonitor`; no notify is missed; blocked threads are woken, flushes end, interrupts wake |
| `monitor_freed` | 2 threads, 1 object, 1 record | | violation: use after free |
| `class_init` | 2 threads; a class, its subclass, and a class whose initialiser uses the subclass and itself | 306 thousand | one initialiser, after the superclass, nobody sees an unfinished class, every request is answered |
| `class_loader` | 2 threads, a bootstrap class, a class of a Java loader, its array class | 465 thousand | safety of the class table; every call returns or waits for a Java loader's monitor |
| `gc_stop` | main thread, one more, one daemon | 140 thousand | safety of the collector, the counts and the exit; collections end that interrupt no compiled code |
| `compile` | 2 threads; `main`, a static initialiser, a virtual method and one that overrides it and calls super; one compilation may fail | 218 thousand | code is complete when it is reached, sites are kept, dispatch is right, calls return |
| `inline_cache` | 2 threads, receivers of 4 classes, one of which inherits its method; no native methods | 524 thousand | calls that overlap no patch reach the right method, and no assertion of the cache fails |
| `park` | 2 threads, limits of 0 to 3 units, 9 units of time | 10 thousand | nobody sleeps with a permit |
| `exceptions` | 5 frames; a plain and a synchronized method with overlapping handlers, native code between them | 362 thousand | locks are balanced, exceptions arrive, at the right handler, and are never passed over |
| `jit_registers` | 3 variables, 2 registers of which calls clobber one; up to 8 instructions with one `if` forward, up to 7 with two branches, `if` or `goto`, forward or back | 727 thousand | the blocks and edges are those of the code, values are covered by their intervals while they live, the scan advances; with one `if` forward values reach their uses |
| `radix_tree` | 6 keys on 3 levels of one bit | 31 thousand | `radix_tree_lookup_prev` is right |

Why the bounds are enough. Two threads meet in every race of the monitors; the
third is a thread that blocks while two others pass a record between them. With
two records one can be detached while the other is attached, and one thread finds
no memory. Exchange of records between several objects is not in the runs: the
proofs cover any number of objects. The limit of the semaphores is the number of
threads that can be blocked; superfluous posts reach it, and fail. (With a lower
limit wakeups would be lost; the real one is far above any number of threads.) Depth 2 is
the least with a recursive lock to restore. Three classes are enough for every
order of a superclass and a subclass and for a request from outside. Three entries in
the class table are enough for all names, and a thread that finds none free is one
whose allocation fails. The collector needs a thread that is last, a thread that
comes or goes meanwhile, and a daemon. Lazy compilation needs a caller and a
compiler of the same method, a class that is initialised meanwhile, and the call of an
overridden method. An inline cache has three states, and the fourth class makes a
receiver that inherits its method. Five frames are two Java methods between native
ones, the least over which a pending exception can be put aside and replaced. Three
variables on two registers force spills, splits at calls and reloads at a join; with
several branches the allocator is known to go wrong (section 4), so `ValuesReachTheirUses` is
claimed for one branch forward only. The flow graph and the live sets do not depend on that:
the same run has the methods with two branches of both kinds and with loops (`MaxHard`), the least
with which a block that has a branch and successors is cut again at a target inside it (the
hand-over in `bb_split`, `jit/basic-block.c:135`). Three levels are the least with a node that is
neither root nor leaf.

Deadlock is checked where the system must not stop: `class_init`, `class_loader`,
`exceptions`, `jit_registers` and `monitor_freed`. It is not checked where it may:
threads that wait for a notify or an unpark nobody sends, a process that ends, a VM that is
corrupt, the collector's own hang, and the bounds of the clock and of the radix tree's counts.

Fairness. Weak fairness of every thread's steps is a scheduler that runs every
thread that can run, which the operating system provides; sleeping threads have no
step that is enabled. In `gc_stop` it covers the GC thread, the steps inside the VM and the
signal handlers, and not what the Java program decides; in `compile` every step of a
thread that is inside a call; in
`exceptions` the code the VM emits. Two assumptions are about programs and not about the VM:
a thread that holds a monitor comes to an unlock of it again and again (strong
fairness of `unlock` for each thread, object and depth, in `monitor_live`), and a static
initialiser comes to its end (strong fairness of `ClinitEnd`, in `class_init`). What a
program asks for is never fair. Locks are not claimed to be granted to everyone: the
monitors allow barging, and `BlockedIsWoken` says only that a blocked thread gets its
turn to try. For the same reason `CallsEnd` of the class loader allows a thread to wait for
the monitor of a Java loader. `WaitsEnd` of the collector is conditional (`Undisturbed`):
section 4 says what happens otherwise.

## 4. Where the code differs from what it says

The run `monitor_freed`: between reading `monitor_record` and incrementing `nr_blocked` a
thread is not counted anywhere. The owner can deflate the record, put it into its
pool and end, and `free_exec_env` frees the record that the first thread then
increments. While the owner lives the pool keeps the memory valid, which is
why the protocol works otherwise.

Further configurations, which are not among the runs, have a trace for each of these:

| Configuration | What TLC shows |
|---|---|
| `MCStopTheWorldJava` | `suspend_handler` drops the result of `do_exit_safepoint` (`vm/gc.c:205`) for a thread that was interrupted in compiled code. If such a thread is the last to leave, the GC thread is never woken and every allocation waits for ever. |
| `MCInlineCacheRace` | The two operands of a call site are written one after the other (`arch/x86/inline-cache.c:126`). A thread that loads `imm` before and `fn` after the first write uses a vtable offset as a class or a class as a vtable offset (`VirtualDispatch`). |
| `MCInlineCacheNative` | `do_ic_setup` (`arch/x86/inline-cache.c:158`) caches every method whose unit is compiled, and a JNI method is once its trampoline has run. A class that inherits it still has the trampoline in its vtable, so that the lookup finds the method; it has no entry that checks the class, and the assertion at line 102 fails (`IcEntryExists`). A native of the VM (`VmNative`), compiled from the start (`vm/method.c:285`), would fail it in the first call; it is not known that one of these overrides a method. |
| `MCInlineCacheJni` | A vtable entry that holds the stub of a JNI method is not in the map of addresses (`jit/trampoline.c:46` adds the C function only), and the lookup from `do_ic_setup` answers with another method; `MethodInvokeVirtualTest` expects every receiver's own. |
| `MCParkTime` | `park` stores milliseconds as nanoseconds (`runtime/sun_misc_Unsafe.c:182`), against the comment at line 178, and does not carry into seconds (line 186): it returns before its time, or its wait is refused, though nobody has called `unpark` (`ParkKeepsTime`). |
| `MCExceptionsInherited` | The exception test after a call is emitted only if the method named in the call is native (`arch/x86/insn-selector_32.brg:2767`). A native method that overrides it, or implements an interface method, returns without test, and bytecode runs on with an exception set, against the comment at `jit/exception.c:99`. |
| `MCExceptionsUnlock` | With such an exception the test in the exit block finds it. The exit's unlock has been done, but `throw_from_jit` (`jit/exception.c:387`) tests for the unwind block only and the method unlocks twice, although `include/jit/compilation-unit.h:81` says the pointers are there to skip unlocking. |
| `MCExceptionsRegisters` | An exception thrown by the test in the unlock code leaves two registers on the stack (`arch/x86/emit_32.c:954`), and the epilogue restores callee-saved registers from the wrong places. |
| `MCRegisterAllocationLoop` | A value that is live around a loop but has no further use in it is not spilled before a call clobbers its register (`jit/linear-scan.c:101`). |
| `RadixTreeRemove` | Removing a key that is not there, or that was overwritten, breaks the counts (`lib/radix-tree.c:263`). `remove_cu_mapping` has no caller. |
| `RadixTreeOom` | An insertion that fails in the middle leaves a branch without values, and `radix_tree_lookup_prev` stops there (`lib/radix-tree.c:216`) though a preceding key exists (line 304). |

Differences without a configuration:

* a thread is in the list before it has set its execution environment, and the signal
  handler follows the null pointer (`vm/gc.c:131`; `EnterWithoutExecEnv`);
* a new thread that finds no memory for its reference ends without leaving the list, and the
  next collection dies (`vm/thread.c:289`; `EntryFails`, `SuspendLost`);
* `suspend_handler` looks an address up under `cu_map_rwlock`: a thread that is interrupted
  while it writes the map waits for itself (`jit/cu-mapping.c:60`);
* `compile_lock_enter` answers `STATUS_COMPILED_OK` on re-entry where
  `include/lib/compile-lock.h` promises `STATUS_REENTER` (its caller treats both alike);
* after an exception in the main thread the VM exits without waiting for other threads;
* a method that is compiled while another thread runs the initialiser of a class gets direct
  accesses to its fields (`arch/x86/insn-selector_32.brg:880`; `SelectStatic`): a third thread
  can read them early. The comment there thinks of the initialising thread only;
* with several branches an interval that starts where it meets the current one keeps the
  register (`jit/linear-scan.c:155`), and an edge that falls through runs no resolution
  block;
* `do_native_call` (`arch/x86/call.c:31`) leaves the native stack of the VM when entering it
  failed; native synchronized methods are not locked by `emit_jni_trampoline`;
* `setup_vtable` lets a method override one of the same signature whatever their access, a
  package-private one of another package too (`vm/class.c:97`);
* `vm_class_is_instance_of_array` takes both element classes from the same array class
  (`vm/class.c:1247`), so that every array is an instance of every array class, against the
  reference to `isAssignableFrom` at line 1279; `Linking` has subtypes of classes only;
* a loop back to the first bytecode makes the entry a block with predecessors;
  `compute_dom_frontier` then leaves the entry out of frontiers it is in, its own among them
  (`jit/dominance.c:156` with one predecessor, line 168 otherwise), so that SSA form has no phi function
  there;
* when one interface is reached twice, the table of an interface method has one entry
  although `arch/x86/emit_32.c:1148` says there are always two; a missing interface method
  selects its call twice (`arch/x86/insn-selector_32.brg:2786`);
* `count` of a radix tree node is not the number of nonempty slots once a key was
  overwritten.

## 5. The proofs

Each proof is about a specification as it stands in the component's module, for every value
of the constants that the module's assumption allows; what a theorem assumes beyond that
is written in its statement. Every safety theorem follows from one inductive invariant.
The property itself is never inductive, and what has to be added is
the reason why the code works.

| Theorems | About | Beyond the module's assumption |
|---|---|---|
| `TypeInvariant`, `TypeCorrect` | `Monitor` | |
| `SafetyInvariant`, `Exclusion`, `Placement`, `PoolIsReady`, `CountersExact`, `StaleRecords`, `WaitKeepsRecord` | `Monitor` | `QuiescentExit` |
| `WakeupInvariant`, `WakeupsAreNotLost` | `Monitor` | `QuiescentExit`, `EnoughPosts` |
| `WaitInvariant`, `JavaMonitors`, `NoMissedNotify` | `Monitor`, `JavaMonitor` | `QuiescentExit` |
| `InitialisationInvariant`, `InitialisationTypes`, `OneThreadInitialises`, `SuperclassFirst`, `ReturnsAreRight` | `ClassInit` | |
| `LoaderInvariant`, `LoaderTypes`, `EntriesStayInUse`, `FailuresLeaveTheTable` | `ClassLoader` | |
| `ClassesAreDefinedOnce` | `ClassLoader` | `Acyclic` |
| `HandshakeInvariant`, `TheWorldStops`, `CountsAreExact`, `TheVmExitsLast` | `StopTheWorld` | |
| `CodeInvariant`, `TrampolineTypes`, `RunningCodeIsComplete`, `VtablesDispatch`, `NoSiteIsLost` | `Trampoline` | |
| `DispatchInvariant`, `ConsistentCache` | `InlineCache` | `JniNative = {}` |
| `UndisturbedCallsDispatch` | `InlineCache` | `VmNative = {}`, `JniNative = {}` |
| `ParkInvariant`, `NoUnparkIsLost` | `Park` | |
| `ExceptionInvariant`, `ExceptionTypes`, `ExceptionsAreThrown`, `MonitorsAreBalanced`, `ExceptionsFindHandlers` | `Exceptions` | `InheritedCalls = FALSE` |
| `TreeInvariant`, `LookupPrevIsExact` | `RadixTree` | `FailAfter \subseteq {0}`, `~RemoveAny` |
| `AnalyzeControlFlowIsExact`, `FlowGraphsAreExact` | `ControlFlow`, `RegisterAllocation` | |
| `LivesAreCoveredAlways` | `LiveIntervals`, `RegisterAllocation` | |
| `QueueIsExact`, `HeapIsKeptAlways` | `PriorityQueue` | |
| `ScanAdvancesAlways` | `RegisterAllocation` | |

The assumptions of the modules say what the constants are: sets of threads and of class
entries are finite, `NULL` is none of the values it stands in for, functions have their
types. One is about the program: `Slot[ClassOf[m]] = m` in `Trampoline`, a virtual
method is in the vtable of the class that declares it, which is what `setup_vtable` does. Those of `LiveIntervals` and
`RegisterAllocation` are that there is a machine register, and that the instructions to choose from are
instructions, of which only the branches have a target (`MethodAssumption`); the prologue, the instructions, the
numbers of variables, registers, instructions and branches are any. The hypotheses
in the last column exclude programs on which the property fails; section 4 has the
traces for `QuiescentExit` (`monitor_freed`), `JniNative` and `VmNative` (`MCInlineCacheJni`, `MCInlineCacheNative`) and `InheritedCalls`
(`MCExceptionsInherited`, `MCExceptionsUnlock`), and for the two about the radix tree: an insertion fails at its first
allocation or not at all (`RadixTreeOom`), and only keys are removed that are there and were not overwritten
(`RadixTreeRemove`). `Acyclic` says that no class is its own superclass or
element class, however indirectly: for such a class `load_class` would load it
while loading it. `EnoughPosts` says that a semaphore has room for a post to every thread but one
(`Cardinality(Threads) <= SEM_VALUE_MAX + 1`); the C library's limit is 2^31 - 1, far above
the threads a process can have.

**Monitors.** Types alone are not inductive: a step uses `rec[t]` or `waiter[t].record` as a
record, which is one only because of where the thread is. `TypeInvariant` therefore carries
`LocalsSet` (locals are set where they are used) and `WaitFrames` (a thread is
inside `vm_object_do_wait` exactly from its unlock to the end of its lock).
Exclusion rests on `OwnerHolds`: the thread that `owner` names is
the one whose calls were granted, and the owner of the attached record is unique. A
lock can be granted by `CasRecord`, which attaches a record nobody else has
(`RecordPlacement`) and which is ready (`PoolReady`), or by `CasOwner`, which takes a
record whose owner is `NULL`. `CasOwner` is safe only if the record is still attached
to the object the thread wants. That is `StaleRecordIsOwned`: after a deflation the
thread that detached the record stays its owner until every thread that had
counted itself in has left, so that a stale `cmpxchg` fails. It needs the exact
counts (`Counters`), since the deflating thread leaves its busy wait on
`nr_blocked = 0`; and the counts need the waiters' side: `DeflaterAlone` (no thread
waits on a record that is about to be detached), `WaitersKeepRecord`, `HoldersOwn`
(inside the functions for owners the thread owns its record and the object has
it) and `SavedCount`. `QuiescentExit` is used in one step, `Exit`. Most lemmas are one
per action; steps that change none of the protected state are covered together
by `QuietStep`.

`NoLostWakeup` is proved on top of that from `WakeupInv`. For an attached record: a thread
that sleeps, or is about to, without a post is announced in `candidate` unless another
thread has yet to try the record or to post (`Announced`), and when nobody owns the
record some thread is awake that takes it or wakes a candidate (`SomebodyTakes`). One `candidate` flag
serves any number of sleepers because every thread that is woken comes back to the
loop, sets the flag again and tries. For a detached record: the posts that are there and that the flushing loop has
still to make are as many as the threads that may sleep (`FlushPosts`), which is where the
room in the semaphore is used.

The refinement (`JavaMonitors`) takes `held` as the locks of the abstract monitor outside of waits,
and `waiter.lockCount` while a waiter has not yet given the monitor up. `WaitInv` says
why that works: the unlock inside `vm_object_do_wait` finds `lock_count` 1, so that it is not recursive; it does
not detach the record, since the waiter counts itself in `nr_waiting` first; and the waiter has `notify_mutex`
from before the unlock until it sleeps. The abstract `Wait` is then the step `record->owner = NULL`
of that unlock, and `Resume` the step that restores `lock_count`; the lock in between is not
seen. A grant is an abstract `Acquire` because the invariant after the step (`MutualExclusion`) leaves no
other holder. The same clause about `notify_mutex` gives `NoMissedNotify`.
The abstract specification has no fairness, so that the refinement is about safety.

**Parking.** `SleeperHasNoPermit` needs the types, and these that a time limit is set only inside `park`, both forms of it together (`LimitsInv`).

**Class initialisation.** `ClassInv` says what the place of every call on every stack means for the
lock and the state of its class (`FrameInv`), that each lock has one owner (`OwnerInv`), that
`status`, `compiling_ee` and `vmc->state` agree (`StatusInv`), and that `nr_waiting` is exact
(`WaitingInv`). `HoldsInv` is what re-entry rests on: a thread that finds itself in
`compiling_ee`, or that runs a static initialiser, has an outer call that initialises the class (or the
superclass) and cannot end before the inner one. Calls are numbered from the
outermost (`Calls`), so that a call keeps its number as long as it lasts.

**Class loading.** `LoaderInv`: a call has an entry exactly while it loads or waits (`CallsInv`), no two
calls load into the same entry (`OwnInv`), `nr_waiting` is exact (`CountInv`), the table has one
entry per name, none of them freed (`TableIn`). That an entry in use is not freed needs the
counts: the last waiter, or the loading thread if nobody waits, frees it. One class per name needs
more (`OnceInv`): while a name is loaded its entry stays in the table (`LoadingInv`), the one
class of a name is in the table once it is defined (`DefinedInv`), one thread at a time is inside the Java class loader
(`MonitorInv`), and inner loads have smaller rank (`NestingInv`), so that a thread never loads what one
of its outer calls is loading.

**Collector.** `StopInv` ties each thread to the phase of the GC thread: `Phase(t)` says which of signal pending,
handler entered and handler left is possible in each phase; `GcInv` what the GC thread has locked
and counted; `WakeInv` that SIGUSR2 reaches the GC thread from one place at a time, without
which a signal left over from the way in could end the wait for the way out; `ListInv` and `ChildInv` the
threads that start and end; `CountInv` the three counts.

**Lazy compilation.** `CodeInv`: `FrameInv` says what the place of a frame means for its unit (who compiles holds
`compile_mutex`, who patches or runs finds it compiled); a call site is patched, on the list of its
unit, or on the list of its callee's trampoline (`CallSitesKept`), whatever the order of the unlocked look at
the list and an insertion; likewise for static accesses (`StaticSitesKept`). The step that
sets `corrupt` is the last one of the model.

**Inline caches.** `DispatchInv`: a prepared patch is a pair that belongs together, `fn` is written first (`PatchOK`), the lock is held
from the first write to the second (`LockHeld`), and a thread that no patch overlapped has the
operand that is in the site (`FreshOperand`). Without native methods a method found in the vtable is compiled with an entry (`IcEntries`), and what a patch or a call
enters is the method of the receiver's class (`RightMethod`).

**Exceptions.** `ExcInv`: the places where a frame may be with an exception set (`PendingInv`), where outer frames
continue (`BelowInv`), which places hold the lock (`FramesLock`), and `GoalInv`: `goal` is what the exception tables
of the frames that are left designate, so that removing a frame, or entering a handler,
preserves it.

**Algorithms.** The loops of the compiler and of the containers are recursive functions in the models,
`f[n] == IF n = 0 THEN ... ELSE ... f[n - 1] ...`, with the state after n rounds as their value. What such a function is follows
from two lemmas without operator parameters: a set of numbers with 0 and all successors is `Nat` (`SetInduction`,
from the well-foundedness of <), so that a function which satisfies the equation exists (`Recursion`) and
every round keeps what one round keeps (`RecursionStays`). For folds over finite sets the same holds with the number of
elements (`FoldExists`, `FoldStays`).

**Radix tree.** `TreeInv`: the nodes are the root and those on the ways to mapped keys; the count of a node is the number of its
slots in use, except in leaves with overwritten keys, where it is at least that; a slot has what the map has. A removal therefore frees
a node exactly when its last key goes. `radix_tree_lookup_prev` then goes down the tree (`DownToLargest`), or up to the first node with a used
slot to the left and down to its largest key (`SkippedHasNoLower`, `LastIsLargest`); every node has a key below it, so
that neither way ends without one.

**Flow graph.** `CodeInv`: once selected, the code is a method (its last instruction does not fall through, all targets are
inside). The blocks tile the code after every `bb_split` (`Tiles`), begin at the offsets that were cut (`Cuts`), and each
knows its last branch (`Labelled`); in the end the cuts are the leaders, whatever the order of branches and targets.

**Liveness.** `LiveBefore` is the least set of offsets that is closed under one step back (`LiveBeforeClosed`, `LiveBeforeLeast`: rounds that
grow for as many steps as there are instructions have every offset). Each visit of a block keeps the live sets inside the exact
ones (`LivePassSound`). When a round changes nothing, the offsets that are live according to the sets of their blocks are
closed, so that they hold all that is live (`LiveSetsComplete`). The intervals are built from the end: at each instruction an
interval is in order, covers every life behind it, and is open at the front if the variable is live there
(`VregInv`, `BetweenInv`); the ranges of clobbered registers only grow in front (`FixedInv`).

**Heap.** Both loops of `lib/pqueue.c` move a hole. Apart from the hole the array is in order, the parent of the hole is no larger than its
children, and what is outside of the hole is the old queue without one element (`UpAt`, `DownAt`); the hole rises or sinks with
every round, so that the loop has ended when the element is put into it. The top is the least (`TopIsLeast`).

**Linear scan.** `AllocInv`: between two turns the queue is a heap of distinct nodes, each with the start of its interval as key, none
for an interval that is active or inactive, and all ranges are in order. In a turn this holds for the position of the current
interval as a lower bound (`ScanAt`): expiring ranges moves the start of handled intervals only; a split leaves the start of the
old interval where it was and gives the new one the position of the split, which is behind the start of
the current interval, since an interval is split inside its ranges and two intervals meet no earlier than either
starts (`IntersectionOK`); a trim moves it on. The new interval is the last one, so that it is not yet in the queue.

What TLC checks and no theorem states:

* all liveness properties: the prover has no rules for fairness and ENABLED;
* `ValuesReachTheirUses` of `RegisterAllocation`: it does not hold for all methods (section 4), and what is special about
  one branch forward is not in the code but in the choice of the methods;
* everything about `Linking` and `Dominance`, which are evaluated as assumptions.

## 6. What is not modelled

Weak memory beyond the barriers the code has; the class path, class files and
archives; machine code, calling conventions and stack walks; JNI, reflection
and strings; the Boehm collector; the interpreter and the LLVM backend, which the source
leaves unfinished; tracing and printing. `PROJECT.json` gives the reason for each part.
The marking and reclaiming of the new collector are stubs in the source. Of the
compiler: switches, exception handlers in the flow graph, SSA renaming and the passes on SSA form, the mimic
stack, subroutines. The verifier. Of linking: annotations, inner classes, constants and
arrays. The containers other than the radix tree and
the priority queue are used by their contract: a hash map is a function, a bit set a set,
a list a sequence.

## 7. Plan

1. SSA renaming and its way back; the verifier's fixpoint; subroutines; the
   mimic stack.
2. The hash map with its growth; the queue of references.
3. Proofs: dominators and frontiers for every graph; the vtables and interface tables of `Linking`; that
   straight-line code without branches reads the values it should.
