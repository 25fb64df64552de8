# Verification of the Stanza run-time system

L.B. Stanza is a compiler written in its own language together with the run-time
system its programs are linked with. The compiler proper (`src/compiler/`) is a
long pipeline of sequential passes; the state machines, the concurrency and the
invariants that every program rests on are in the run-time system: the garbage
collector and the coroutines of `src/core/core.stanza`, the C runtime in
`src/runtime/`, the reader thread in `src/core/threadedreader.c`, and the debug
adapter and the debugger in `src/debug/`. This project models the run-time system in TLA+, checks
it with TLC on small instances, and proves part of it with TLAPS.

`PROJECT.json` lists the components, the runs, the source lines behind every
definition, the hazards of the code with the properties aimed at them, one
mutation of the code for every property, and the theorems.

## 1. Inventory

Paths are below `src/`; `core` stands for `core/core.stanza`.

| Component | Source | State it keeps | Operations | Modules |
|---|---|---|---|---|
| Mark phase | core 1540-1835 | mark bits, bounded marking stack, incomplete range, stack list | mark-from-root, mark-and-push, complete-marking, scan-stacks | Marking |
| Mark-compact | core 1840-2155, 2243-2288, 2761-2823 | heap words, mark bits, live ranges, offsets in headers, two lists | skip-live, create-live-ranges, relocate-*, compact | MarkCompact |
| Nursery collector and heap sizing | core 901-914, 1248-1275, 2190-2559, 4166-4190 | old objects, reserved to-space, nursery, remembered bits, limits | allocation, stores, extend-heap, evacuate-nursery, expand-heap, set-max-heap-size | Nursery, ObjectGraph |
| Mark bits of ranges | core 1389-1534, 1917-1950 | words of the bitset | clear-mark, set-mark, iterate-marked, skip-dead | BitWords, MarkBits |
| Trackers and finalizers | core 2645-2656, 2724-2823, 4111-4152; core/collections.stanza 155-161, 188-226 | tracker list, Vector of handlers, queue of new ones | notifier, remove-when, add-finalizer | Finalizers (and Nursery, MarkCompact) |
| Coroutines, dynamic wind | core 3595-4109 | statuses, links, frames, winders | resume, suspend, break, close, collection of a coroutine, dynamic-wind, with-finally | Coroutines |
| Child processes | runtime/process-posix.c, core 10170-10610 | list of children, statuses, signal mask | launch, SIGCHLD handler, state, wait, finalizer | ProcessPosix |
| Threaded reader | core/threadedreader.c, core/threaded-reader.stanza | buffer, flags, mutex | make, thread, stop, running?, contents, delete | ThreadedReader |
| Debug adapter | debug/debug-adapter.c, debug/debug-adapter.stanza, debug/safepoints.h | run mode, instructions at the safepoints, breakpoints, request queue, stack trace and variables | requests, stops, resume and step, delayed requests, pause, disconnect | DebugAdapter |
| Debugger | debug/debugger.c, debug/debugger.stanza | run mode, flag, set of breakpoints, place where a step began | commands, decision at a safepoint, SIGINT | Debugger |
| Stack pool | core 957-1080 | free list of stack frames | allocate, free, extend-stack | planned |
| Collections | core/collections.stanza | bucket arrays, ring buffer | add, get, set, remove, grow, shrink | planned |
| Buffered streams | core 5042-5173 | ring of characters | fill, get, close | planned |
| C driver | runtime/driver.c | memory maps, profiler ticker | main, stz_memory_map, ticker | not modelled |
| Signal handlers, stack traces, heap analyzer | core/sighandler.c, core/*.stanza | none of their own | read-only walks | not modelled |
| Reader, macros, Earley engine | core/reader.stanza, core/parser/ | item sets | scan, predict, complete | not modelled |
| Compiler passes, REPL, interpreter | compiler/ | tables of a pass, VM registers | passes, bytecode dispatch | not modelled |
| Vendored code | libs/, linenoise, asmjit | - | - | not modelled |

### How the components interact

Generated code allocates by moving `heap.top`, and calls `extend-heap` when the
nursery is used up. `extend-heap` calls `collect-garbage`, which evacuates the
nursery or, when the space that is left does not suffice, marks and compacts the
whole heap; both walk the globals, the frames of every reachable coroutine
stack, and the list of liveness trackers. The bitset of mark bits serves twice:
as the marks of a full collection and, between collections, as the remembered
set of the old objects. After a collection `extend-heap` runs the notifiers: Stanza
code, which runs finalizers, which may allocate and so collect again. Finalizers
are what releases the resources outside the heap: the stack of an unreachable
coroutine (through `close`), the `ProcessStatus` of a dropped Process, the buffer
of a dropped ThreadedReader. Coroutines are heap objects whose frames come from
the stack pool; a `break` or an exception unwinds them through the frames of
`dynamic-wind`.

A program that is compiled for debugging has a safepoint at every line: an
instruction that is NOP, or INT3 where it is to trap. The trap calls the debug
adapter (driven by an editor through a socket or pipe) or the command line debugger,
which decide whether to stop there. Both enable *all* safepoints to step or to
pause and, when the program is to run freely, disable all and write the
breakpoints again.

Five kinds of concurrency occur: the reader thread beside the program; the
communication thread of the debug adapter beside it; signal
handlers (SIGCHLD, SIGINT) inside it; child processes beside it; and callbacks, that is
finalizers, notifiers, wind thunks and finally blocks, that call back into the
function that called them.

### What makes each of them correct

* *Marking*: on return exactly the reachable objects are marked, though the
  marking stack is bounded and drops references when it is full; only frames of
  unreachable stacks are released.
* *Mark-compact*: the graph of the live objects is the same before and after,
  though for most of the time headers, list links and dead words hold something
  else; nothing but dead trackers leaves the two lists; no bit is left set.
* *Nursery collector*: the program cannot see a collection. That needs a
  remembered set with every reference from an old to a young object and no bit on
  anything else, a to-space that is never too small, and a layout that is
  consistent after a partial collection that was not enough.
* *Finalizers*: no handler is lost; each runs once, after its tracker was cleared (when
  that may happen is a matter of the collectors), and in the end.
* *Coroutines*: links and statuses stay a tree with one running branch; in front
  of a body are the frames that it is inside of; finally blocks execute once; a
  stack is released only when nothing can return into it.
* *Processes*: a status belongs to the process asked about and is up to date; a
  wait ends; the signal mask is given back as it was.
* *Threaded reader*: contents are complete and stable once the reader is seen not
  to run; the resources are released once, by whoever is last.
* *Debug adapter, debugger*: the program stops wherever the user asked for it, and
  stays stopped until the user lets it go; the instructions at the safepoints
  are what the breakpoints and the flag say, whoever wrote them last; what is shown
  at a stop is of that stop.

## 2. Modules and how they correspond to the code

### Marking
`mark-reachable-objects` at the grain of one marked reference. The marking stack
is the sequence `stk` of at most `MarkingStackSize` objects. `todo` are the
references of the object in hand (`continue-marking`); `MarkAndPush` sets the bit
and pushes, or, when the stack is full, widens the incomplete range.
`CompleteMarking` takes the range, and `SweepWord`/`SweepBit` go through it one
bitset word at a time, marking from every object in it. `ScanStack`, `MarkFrame`,
`MoveToLive`, `EndOfPass`, `NextPass`, `FreeStackList` are `scan-stacks`: `ahead` and
`passed` are the list that is being relinked. Graph and object addresses are
constants; the order in which slots of an object are visited is left open.

### MarkCompact
Every word of the heap, with what the algorithm stores there: headers, references,
threads, pointers of live ranges, offsets. A *tag* names an object and fixes its
size and reference slots. One action per loop step: the solid prefix (`SkipLive`,
`EndOfSolidPrefix`), the live ranges (`FindLiveRange`, `LiveRangeEnd`, `LiveObject`),
unthreading (`Unthread`), the offset (`UpdateReferences`), `RelocateSolidPrefix`, `RelocateTracker`,
`RelocateStack`, `RootsRelocated`, `CompactRange`, `CompactDone`. The references of one object, of the
frames of one stack, or of the roots are visited one by one in any order: `todo` are those left, and
`VisitSlot` (inside the compaction area: relocate, or reverse) and `VisitReference` (elsewhere)
take one of them. Cells with negative indices are outside the heap. Its
initial states are those in which Marking ends: `ProperHeap` says which heaps a program can
leave to it, and the reachable objects are marked. `Threads(a)` follows the list through the header of `a`. `memcpy` on overlapping ranges
(undefined in C) copies upwards.

### Nursery, ObjectGraph
The words of the heap with mark bits, and the layout old objects / to-space /
nursery. The program's operations are single steps (`Program`): allocation of each type, the
store with its write barrier, loads, trackers, stacks, dropping a variable. `ExtendHeap(n)` is the call of extend-heap for n words;
`BeginCollection` chooses a partial or a full collection, or none for a request that the heap can
never hold (`CanBeHeld`), and `Collector` goes through
`IterateMarked`, `CopyRoots`, `CopyOldStacks`, `CompleteCopying`, `CopyNewStacks`,
`DropUnreachable`, `FinishEvacuation`, `FullCollection`. `Notify` starts the notifiers, which are
program code: they allocate, and may call extend-heap, so `pending` has the requests of all calls whose
notifiers have not returned. `NotifiersReturn` checks the space that they left and collects a second time;
after that come `Resume` or `OutOfMemory`. A full collection is one step here, with the effect that the runs
of Marking and MarkCompact show. Lists linked through objects are sequences of
addresses; a stack has one slot in its frames; contents of dead memory are junk.

`ObjectGraph` is what the heap promises: objects with fields, variables, trackers.
It has no addresses; `Collect` may clear trackers of objects not in use, and
nothing else about a collection can be seen. Nursery implements it with the
refinement mapping at its end: headers carry the name of their object, a ghost,
and fields and variables map to names through the forwarding references.

### BitWords, MarkBits
Sets of bit positions as words of `BitsInWord` bits, with the shifts and masks of
the code (a shift by a full word is taken modulo, as the machine does).
MarkBits steps through iterate-marked, and has skip-dead, clear-mark and
set-mark as functions. Of BitWords, Nursery has the set-mark of a range as the code has it; its
`ClearMark` is what clear-mark is proved to do (`RangesAreRight`). Words have two bits or
more (`WordHasBits`): in words of one bit a shift by one is a shift by a full word, and
clear-mark would keep what it has to clear.

### Finalizers
The Vector of handlers as `array` and `size` (elements from `size` on are stale), the
queue of new ones, and `loops`: the notifiers in progress, innermost first, each with its place and
its local variables. `Collect(S)` is a collection that clears the trackers of any objects S, and the
beginning of the notifier: add-all has read the length of the queue and of the Vector ("adding"). `MakeSequence`
reads the length again ("copying"), `AddAll` copies and clears the queue. Then remove-when tests
one handler after the other: `TestHandler` starts its finalizer ("finalizing", until
`FinalizerEnds`) or keeps it ("keeping", until `KeepHandler`). Wherever that allocates (`MayAllocate`) another collection
can begin and run the whole notifier again. `Fail` is the end of the program
where add-all or the loop finds an element missing, as a build without OPTIMIZE reports it (`Defined`).
`LoopEnds(S)` ends the notifier; the second collection of extend-heap may clear further trackers and is
followed by no notifier. What becomes unreachable and when a collection finds it is left open: collections of
the nursery do not see old objects.

### Coroutines
`calls[c]` is the stack of activations of coroutine c: program code, and
the functions of the runtime that wait for a thunk or for a coroutine (wind-out,
wind-in, attach, detach, close, run-finally). `parent`, `status`, `frames`, `saved`
are the fields of a coroutine; `ThunkOps` names what thunks do besides returning. `throw` and
`catch` are `break` from an inner coroutine (compiler/core-macros.stanza:1452-1464).

### ProcessPosix
Program, handler and children. `kernel` is the process table: by pid, what the process does and what
waitpid has not reported. `DeliverSignal` and `Handler` run where SIGCHLD is not
blocked; `Launch` and its steps go through register, fork, exec, error pipe; every
element of `Failures` is a way it can fail. A record carries the number of its
process, a ghost that tells two processes with the same pid apart. Between fork and
registration a launch removes the dead records that nobody points to, one record per step
(`RemoveDeadChildProcess`): children change state and signals become pending between them.

### ThreadedReader
`thread` and `program` are program counters; each shared field is accessed in a step of
its own. Sequential consistency is what x86 gives for these accesses (stores are
not reordered with stores, nor loads with loads; the accesses whose store-load
order matters are under the mutex). Before pthread_mutex_init the
mutex is what malloc returned: free or never free.

### DebugAdapter
`comm` and `prog` are the program counters of the communication thread and of the program.
A packet is `Read(kind)` in the action of its handler: `Launch`,
`InsertRequest` (delayed requests), `Pause` and its two continuations (the run mode is
read, written, and then the safepoints enabled: three steps, since nothing is
locked), `SetBreakpoints`, `WriteBreakpoints`, `CreateList` (one handler, under
`safepoint_lock`, which `file` stands for). The program thread goes from safepoint to
safepoint (`Arrive`), is trapped where the instruction is INT3, looks up the
breakpoint, decides, stops, and handles requests (`Take`, `Handle...`) until the queue is
empty and the run mode is not "paused" (`FoundEmpty`, `Wait`, `Leave`). `Handle...` of the four
resuming requests write the safepoints first and the run mode in a second step
(`Resume`). The stack trace is a record that remembers where it was made, a variable one that
names the stack trace (`frames`, counted) whose frame it points to. What the client has been
told (`known`) is what it can ask about. Clients are sets of kinds of requests with a
bound on their number.

### Debugger
The same safepoints, one thread. `pc` says what it is doing: reading commands, inside
of one, or running the program. `Interrupt` is the handler of SIGINT: it runs
between any two steps of the others, sets the run mode and enables all safepoints.
`slots` is the set of breakpoints as the code has it, a vector with empty places that are used
again. `crossed` is a ghost that tells whether a signal came at one of the two places
where the code cannot cope with it (section 5).

### Modules of checks and proofs
`MCMarking`, `MCMarkCompact`, `MCNursery`, `MCDebugAdapter` define graphs, heaps,
workloads and clients for
TLC; the other configurations instantiate the module itself. `MarkingProofs` (about Marking,
BitWords and MarkBits), `NurseryProofs`, `ThreadedReaderProofs`, `CollectionProofs` (about MarkCompact and Finalizers), `CoroutinesProofs`, `ProcessPosixProofs`,
`DebugAdapterProofs` and `DebuggerProofs` hold the theorems.

## 3. Runs

Eleven runs pass; one shows a disagreement of the code with its own comments.

| Run | Instance | Shows |
|---|---|---|
| marking | every graph over five objects (two of them stacks) of a limited out-degree, bitset words of two bits, **one** entry of marking stack | exactly the reachable objects are marked, exactly the unreachable stacks released, marking ends |
| mark_compact | four objects of one to three words in every order, breaks of every size, with or without an unused to-space; and six objects with two stacks and two trackers, linked in every order | at every step no slot is lost from a thread and every offset is right; the graph is the same, live objects slide down in order, lists and trackers are right, headers and marks are restored |
| nursery | boxes, or cells and trackers, with at most four objects; stacks referring to each other, or cells and trackers, with at most three and with notifiers that run program code; 16 words that grow to 24 | remembered set, to-space, layout; collections cannot be seen (refinement) |
| nursery_limits | cells, stacks and trackers with one variable and at most three objects, a limit of 8 words set at any time, full collections, requests up to the maximal size of 24, notifiers two deep | extend-heap ends; memory is exhausted only in a heap as large as its limit, or by a request that no heap can hold |
| mark_bits | every bitset of three words of three bits, every range | the loops by words visit, find and clear the marks of the range |
| threaded_reader | up to three characters, among them 255, capacity 1, no input before make has returned | complete and stable contents, one release, every reader ends |
| processes | two children, pids reused, one stop each, every failure of a launch | statuses are right and current, wait returns, mask restored |
| finalizers | three objects, notifiers two deep | as long as notifiers do not nest: once, none lost, no failure, and in the end |
| coroutines | three coroutines beside the first, two suspensions, one plain and one finally frame, thunks that break | links, dynamic context, finally blocks, frees |
| debug_adapter | two files with a safepoint each, two coroutines of depth at most one; a client with four requests that resumes, steps, pauses, sets breakpoints and disconnects, and one with six that steps and inspects | instructions in step with the breakpoints, stops that hold, no stop passed, requests answered, no stale trace |
| debugger | three safepoints, two coroutines of depth at most one, any number of commands, two signals anywhere | instructions in step with flag and breakpoints, no stop passed |
| refcpy_barrier (violation) | as nursery, with refcpy | the remembered bit of a copied reference is not set |

### Bounds and why they are enough

* *Marking*: with one entry every object with two unmarked references overflows
  the stack; a bitset word holds two objects, one, or none, so that the
  incomplete range begins and ends inside words, and passes over empty ones. Two
  stacks are what it takes for one to be found through the frames of the other, in either list order.
* *MarkCompact*: references to earlier and later objects, to itself, several to
  one object; a one-word object (a header only) and a one-word break are the
  extremes of the format. Four objects allow a solid prefix, a break, a live range, and a second break.
* *Nursery*: heap of 16 words, page 4: four boxes of three words exhaust a nursery, one
  partial collection fits and the next does not, and growth by a page and to
  the maximum both occur. `MaxObjects` bounds allocations; after it collections continue.
  `MaxNested` bounds the calls of extend-heap whose notifiers have not returned: with one, the notifiers
  use up what the first attempt left; with two, a second attempt is made while another call waits.
  Requests of 20 words exceed every nursery, and one of 24 the heap.
* *Processes*: two children are what it takes for merged signals, and two with reuse for a
  mistaken pid. `MaxStops` bounds stop/continue cycles.
* *ThreadedReader*: capacity 1 grows twice for three characters.
* *Finalizers*: `MaxHandlers` is at most 8 (`Capacity`, the array of a new Vector), which
  the Vectors do not outgrow in the model. Three handlers give one that runs,
  one that is kept behind it, and one that is added meanwhile; `MaxDepth` of two is what nesting takes. Elements
  that were never set are read with four handlers only.
* *DebugAdapter*: two files tell the file that setBreakpoints clears from the rest; two coroutines
  and depths 0 and 1 tell deeper, same and outer frames apart, in the coroutine of the
  step and in another one. Four requests suffice for launch, a resume, setBreakpoints and
  a pause in any order and at any point of the program thread; six for launch, threads,
  stackTrace, scopes and variables with a step between any two of them.
* *Debugger*: three safepoints give a set of breakpoints with an empty place between two
  others. Two signals: one that interrupts a command, one that interrupts what it caused.
* *Coroutines*: three beside the first give a chain to be suspended from its
  end and resumed elsewhere; two suspensions give winders inside winders.

`CHECK_DEADLOCK FALSE` stands where the program may stop: the debugged program and the debuggers when
they have ended, the reader after its deletion,
the processes when all forks are used up, coroutines when all calls are bounded or lead to `fatal`.

### Fairness

* `Marking`: WF of Next; `MarkCompact`: WF of `CollectNext`. Sequential code that waits for nothing.
* `Nursery`: WF of the collector, written out as "infinitely often not collecting, or
  infinitely often a collector step" because the collector can always step while
  collecting (deadlock is checked). For each depth SF of the return of the notifiers there: a notifier
  returns, whatever allocation and collections it makes before. The program itself is not fair.
* `ThreadedReader`: WF of the thread and of calls in progress; the program need never
  call, the stream need never deliver or close. The mutex is not assumed fair.
  `Finishes` is conditional on the end of the stream: then a dropped reader is
  released, and a program that polls sees that the reader has ended.
* `ProcessPosix`: WF of delivery of an unblocked signal, of the handler, and of a call
  in progress. Children need not end: `WaitReturns` says that a wait ends if its
  process ends.
* `DebugAdapter`: WF of the communication thread in the middle of a handler and of the program
  thread while it is at a safepoint: both are scheduled. The client need not
  send anything, and a program that runs need not come to another safepoint.
  `Answered` says that what was received in a stop is handled. `Debugger` states no
  fairness: its user need not type.
* `Finalizers`: WF of the notifier, whose finalizers return. Nothing is assumed of collections: a program that
  keeps few objects never needs a full one, and then the tracker of an old object is never cleared. `Finalized` is
  about trackers that are cleared, in behaviours with collections again and again.

## 4. Proofs

Every theorem holds for all values of the constants that the named assumptions
of its module allow.

**MarkingProofs.** `TypeOK`, `MarksOnlyReachable`, `MarksAllReachable` and
`FreesDeadStacksOnly` are not inductive. `IInv` adds: where each stack is
(`ListInv`: the lists hold every stack once, and `previous` is an earlier head of
the live ones); what is pending (`MarkInv`: every reference of a marked object is marked,
or its object is on the marking stack, in hand, or in the incomplete range; a
pass that moved no stack marked nothing); and that all of it is reachable
(`SoundInv`). `TypeStep`, `ListStep`, `MarkStep`, `SoundStep` show that each part is
kept, with a step for each action; `RangePush`, `RangePop`, `RangeAppend` are
facts about the marking stack and the lists. `MarkingInvariant` is their conclusion. When
marking is done nothing is pending, so the marks are closed under references (`DoneClosed`),
and `MarkingIsComplete` follows since the reachable objects are the least closed set.

The second part of MarkingProofs is about BitWords and MarkBits, for every size of a heap,
every width of words and every set of marks.
The index of a word is what is lost by a shift to the right, so `DivMod`, `FirstIs` and `InWord`
say which positions a word has, and `MinIs` that the least bit of a word is the least position.
`LeastOf`, that a set of numbers has a least one, is proved from the order of the naturals being well
founded; `ScanExists` uses it for the recursive scan of skip-dead, which is a function
because every step goes to a later word. `RangeWords` takes clear-mark apart into the word where
a range begins, those it covers, and the word where it ends. `RangesAreRight` is `RangeFunctions`: skip-dead
finds the next mark or the end of the range, clear-mark clears the marks of the range and no other.
`MarksVisited` is `VisitsMarked`, from the invariant `VisitInv`: what was visited is what is
marked before the current word, or before the bit in hand (`ShiftPastIs`: shifting a
word twice, by its low bits and by one, leaves those past the bit that was visited).

**NurseryProofs.** For every size of the heap, of a page and of the nursery, every number of roots and
objects. The four invariants are about lists, bits and sizes, but what keeps them is the layout of
the heap, so that `Inv` has it. Between collections (`RunInv`): the objects lie in the old
space and the nursery without overlapping and have distinct names (`Layout`), every field, root and
frame refers to an object (`Fields`, `WordsIn`), the lists name the stacks and trackers, young
ones first (`Lists`), an old tracker has an old value (`OldTrackers`), the bits are of slots
(`BitsIn`), and the slots of old objects that refer into the nursery have theirs (`Barriers`).
During an evacuation (`CopyInv`) a reference leads to an object that was copied or is still to be, through
a forwarding reference or not (`Tgt`); the words of objects not copied yet fit between the copies and
the nursery (`Room`); and the part that copying has passed refers to copies only (`CleanTo`), which at the end
says that nothing refers into the nursery any more.

`CopyKeepsState` and `CopyObjectIs` say this of one copied object; `Moved` is what a
sequence of them leaves true (every address leads to the same object as before), and `StepTwice` that it is
transitive. The code that walks over roots, frames, lists and trackers is a fold in the model; each
fold has a lemma (`WordsFold`, `PassFold`, `TrackersFold`, `KeptFold`, `SlotsFold`) that gives the
states it goes through, proved from the definition of FoldLeft by a least counterexample, and a lemma
for one element and for all (`CopyWordsDone`, `PassDone`, `UpdateDone`). A full collection
computes the least closed set of objects (`LiveIs`) and gives them places one behind the other
(`PlacesAre`, by counting words); `CompactedIs` is the heap after that, and `DoublesExist` says
that the doubling in expand-heap ends. Each action has a lemma whose name ends in `Keeps`. `TypesAndLists`,
`RememberedSetHolds`, `ToSpaceSuffices` and `OutOfMemoryRightly` are the four invariants of the
runs. For the last one `Inv` says of each place of extend-heap that has not enough space that the heap is at its limit or
the request beyond its maximum (`Beyond`); requests are any naturals. `PendingOK` is the type of
the requests that wait for notifiers. Their assumptions are `Sizes`, that the roots are finitely many, and that the first
nursery fits into the heap the program starts with (`FirstNursery`). They are about `Spec`: with refcpy
the second is false (section 5, number 1).

**ThreadedReaderProofs.** Under `~EarlyInput`, `IInv` has the mutual exclusion of
thread and program (`MutexInv`), how far either gets before the mutex exists
(`StartInv`), who owns the resources (`FreeInv`: the number of releases is a function of
the two program counters), that no character is stored once running is 0
(`StableInv`), and that the buffer is a prefix of the stream up to the character in
hand (`StoredInv`). `ReaderStep` proves it inductive; `ReaderFreedOnce`, `ReaderComplete` and
`ReaderStable` follow, the last as a property of steps, and `ReaderTypes`. Without the assumption
`ReaderStable` is false (section 5).

**CollectionProofs.** First MarkCompact, for every heap that a program can leave to a collection:
any number of objects of any size, any graph, any place of the dead words. `CollectInv` says
nothing of steps, but what each word is in each phase. `Facts` is about the heap before the collection
only: objects lie apart, marks are closed under references, the lists are lists. `Orig` is
the word of a cell once the trackers have been scanned, `Final` the word it must have in the end, and
`PhaseInv` says for each phase which cells have which of them (`Keeps`). `New(b, a)` counts the live words below `a`:
`NewOverLive`, `NewOverDead`, `NewMonotone` and `NewOnto` are the arithmetic of sliding, from which
copying a range cannot overwrite one that is still to be copied. While live ranges are created, `ThreadState`
says that there is for every object ahead a sequence of different slots that its header leads to, one after
another, and which ends in the header it had (`Chain`); that
every slot visited is in the sequence of its target or has the target's new address; and that no
other is in one. `VisitThreads` adds a slot at the front (`ConsIs`), `UnthreadStep` takes one off (`TailIs`),
and since the slots of an object are not headers of another (`SlotCellsApart`) the other
sequences stay. `Breaks` says that the dead words behind the scan hold where each live range begins and ends, and
`Offsets` what is in the headers; `RelocRef` and `RelocPtr` relocate one word by them, so that the four
kinds of references from elsewhere differ only in which cells are done (`PrefixDone`,
`TrackersDone`, `StacksDone`, `AllDone`). Each action has a lemma whose name ends in `_Inv`. `CollectionIsSound`
follows because a sequence of different slots is no longer than the heap (`ListFits`), so that
`Threads`, which looks at as many words, sees its end. `GraphIsPreserved`, `HeapIsCompacted` and
`TrackersAreWeak` are what `DoneInv` says. The assumptions are `ShapesAssumption` (sizes and slots
of objects), `OutsideAssumption` (variables are not shared) and `HeapsAssumption` (`ProperHeap`).

Second Finalizers. `LoopInv` is the type of what each notifier remembers (`Shapes`), for any depth. The rest,
`AccountInv`, holds until a collection begins inside a notifier; after that it is false (section 5, numbers 5
and 8), and the theorems claim types only. The places of the Vector that count are those kept so far and
those the loop has not come to (`Live`), and every handler added is at exactly one of them, or queued, until
it has run (`OnceInv`, `ListedInv`). `PlaceInv` says that the one notifier finds in the queue and the Vector what
it read of them (`AddPlace`) and that its loop has not passed the end (`LoopPlace`), so that no element is
missing (`NoFailure`). `FinalizersWellFormed` follows for all handlers that the first array holds.

**CoroutinesProofs.** For any number of coroutines, suspensions and frames, and thunks that
do anything the program may do. `PlaceInv`: a frame that was entered is at one place at
most, on the list of a coroutine (`InFrames`), in a push-frame that waits for its in thunk
(`InPushes`), or in a winder (`InWinders`). `CountInv`: the calls of its thunks tell which. Each
step moves one frame at most: `Calls` says so of activations put on a stack, `FreedIs` of stacks
that are freed, `FramePushed`, `FramePopped`, `WinderPushed` and `WinderPopped` of the lists,
`EnterIs` and `PopIs` join them with the counts. That a winding which calls finally
blocks keeps no winder is part of the type of activations. `ThunksInTurn` and
`FinallyBlocksOnce` follow; the latter is what suspend, close and finalizer must agree on, since
all three consume the same winder. The chain of links is a recursive function
of the parents: `LinksExist` proves by least counterexample that there is such a function, and
`ChainIs` that the chain is a sequence of coroutines, so that there is always one to run.

`CoroutinesLinked`, `CoroutinesWellFormed` and `StacksFreed` say how coroutines hang together:
the running coroutine is the first of a chain of links that ends at the main one; what is in the chain is
running or waits for one it resumed; a closed coroutine has no frames, and its stack is
given back when it has no parent. Their invariant says of all coroutines what the code relies on at
one: links have no circles (there is a rank that decreases along them); a coroutine nobody
resumed has none before it; the status of a coroutine tells what its
stack waits in; only the coroutine in front, or one that nobody can resume any more, is being
closed. They hold under `NoSwitch`: thunks and finally blocks do not themselves suspend
or resume. That hypothesis is needed and not a convenience, since with such blocks
`FreesFinished` is false (section 5, number 7); they may break, close, enter
frames and create coroutines. The other theorems of the module have no hypothesis: `WellFormedUntilThrown` says that the
links are right, whatever thunks may do, until one does anything besides returning.

`DynamicContextHolds` is about the order of frames. Between two steps of a winding the frames of a
coroutine are neither those it had nor those it will have, so `ContextInvariant` says what is still to
be done (`DInv`). `Job` is the function of the runtime at work, under a thunk it may have
called and a push-frame it waits for (`PendOf`). `Replays(es, d, X, Y)`: to wind the entries es of d on the frames
X gives Y. `Context` says so of every active coroutine: the winder of the job (`WorkOf`), replayed on the frame being
pushed and the frames there are, gives the dynamic-winds on its stack (`Windings`); with nothing to wind
that is `WithinFrame`. A break exempts the coroutines it leaves (`Leaving`). `WaitingInv` says the same of the
coroutines behind one that can be resumed, with no frames and the winder that the last of them
waits with, that the winder belongs to one of them only, and that it has no entries of
others (`EntriesIn`). `ShapeInv` is what can lie on a stack: what has called what (`Words`),
nothing of the runtime below program code (`Sorted`), and that the other coroutines wait in a resume, suspend or
break (`Parked`). `JobIs` is what holds while coroutines are being left, innermost first, `SavedInv` who may have
saved finally blocks, `PlacesInv` that inactive coroutines have no frames. Each action has
a lemma whose name ends in `Keeps`; most of them by one about all steps that run on the same stack
(`RunParts`), enter coroutines, leave them, or give them back (`OverOn`). `Windings` is a fold, and
`WindingsFold` gives its values one activation at a time. That the thunks return is not a convenience: with one that
breaks the property is false (section 5, number 6).

**ProcessPosixProofs.** For any number of processes and process ids, whichever launches
fail and however ids are given out again. `MaskInv`: SIGCHLD is blocked in a call, so the handler
runs between calls or in sigsuspend. `OrderInv`: the list is in the order of launches.
`KernelInv` and `IdInv`: a process id belongs to one process at a time, and of the
records with that id the one of the latest process comes first, which is why
updating the first match (`UpdateStep`) is right although ids are used again. `ReapedInv`:
what is recorded as dead or freed has been reaped, so no later signal is about it.
`StatusInv` allows one exception, the status of a process whose launch failed after fork. `ReportInv`: with
no signal pending, all records the handler has passed are up to date. `ProcessesWellFormed`,
`StatusIsOwn`, `ProcessesUpToDate` and `MaskIsRestored` are the invariants of the run, and
`DeadStaysDead` its action property: a dead process stays dead unless that exception occurs.

**DebugAdapterProofs.** For every table of safepoints, any number of coroutines, depths and
clients. `LockInv` says what the instructions are at each place of setBreakpoints,
which alone holds the lock for several steps, and before there is a table.
`ModeInv` says that a step mode implies that all safepoints are enabled, except between the two steps
of a continue, which is why the mode cannot be stated alone. `AskedInv` traces everything
that can end a stop back to a request: the queue, the request in hand, a pause in
progress. `TypeStep`, `LockStep`, `ModeStep`, `AskedStep` show that each part is kept, one
step for each action. `AdapterWellFormed`, `AdapterStopHolds` and
`AdapterStopsWhereDue` are the invariant and the two action properties of the run.
`InspectionHolds` is what the client is shown: in a stop, every stack trace and every variable it was told
of is one of this stop, and the frame it names is there. `InspectInv` says that the threads are
asked for in a stop only, and `NeededHere` that what an answer needs was made in the same stop; whoever leaves a stop
frees both (`ShownKept` for the steps that do neither).

**DebuggerProofs.** `WriteInv` says what the instructions are at each place of disable,
restore and unbreak, `ModeInv` that a requested step has all safepoints enabled,
`Distinct` that no breakpoint is in two slots (`InsertKeeps`, `RemoveKeeps`).
`DebuggerWellFormed` and `DebuggerStopsWhereDue` follow for every number of safepoints,
breakpoints and signals. Both except signals inside of disable and unbreak (`crossed`), and the second says
nothing of a signal that comes between the assignment of the run mode and disable (section 5, number 13).

Checked by TLC only: all liveness and fairness properties, which the prover cannot state
as goals; that Nursery implements ObjectGraph; of Coroutines the
environment of finally blocks and that none is lost (`RightEnvironment`, `FinallyKept`); that finalizers run in the end. Where a proof needs
induction it is done by a least counterexample, for a set of numbers written out each time, because
the library's induction theorems take an operator as a parameter.

## 5. Counterexamples

These were found while modelling (the first has a run). The properties of the runs name them as
exceptions (through ghost variables), so that everything else is still checked.
Each is reproduced by checking the formula given with the constants given.

1. *set-mark of a range sets no marks.* core 1464 takes for its masks those of
   clear-mark, which are complements; its comment (1463) says that it sets the
   marks of the range. MarkBits, `SetMarkSetsRange`, BitsInWord 3, Size 9. Its
   consequence is run refcpy_barrier.
2. *The heap grows past its limit.* expand-heap (core 1259) doubles the size and
   caps it by max-size, not by size-limit, which set-max-heap-size (core 1102) imposes. Nursery, `SizeWithinLimit`,
   constants of MCNurseryLimits.cfg with Types {"box"}, HeapLimits {20} and
   Requests {0, 3}.
3. *A failed exec writes the status of an earlier process.* process-posix.c:534
   returns without reaping or registering the child. If it is given the pid of an earlier
   process, whose record is still listed, the handler stores its status there.
   ProcessPosix, `StatusOfProcess` without `FromFailed`, Failures {"exec"}, MaxForks 3, Reuse
   TRUE; with {"fdopen"}, `WaitReturns` without `Misled` fails too. Otherwise such children stay zombies.
4. *SIGCHLD stays blocked.* When vfork fails launch_process returns (519) after it blocked the
   signal (514). No child is reaped until the next wait.
   `MaskRestored` without its exception, Failures {"vfork"}. A failed error pipe restores a mask that was
   never read.
5. *Handlers are forgotten, or end the program.* With nested notifiers the inner remove-when compacts the Vector
   that the outer one walks (collections.stanza:225); the outer then cuts off handlers of
   live objects. Finalizers, `ListedOnce` without `overlapped`, MaxHandlers 2, MaxDepth 2. A notifier that begins while
   add-all allocates its range or sequence (collections.stanza:160) empties the queue under it, and the outer one
   fails: "Empty Sequence" or an index out of bounds. Finalizers, `FailsApart` without `overlapped`, MaxHandlers 1. Optimized builds do not check indices: they read
   the stale elements of the queue, and a handler is listed twice.
6. *An out thunk that throws.* wind-out pops a frame before it calls its thunk (core
   3737). If the thunk breaks an inner coroutine while an outer one is being left, the
   body that is continued is not in its frame any more (3798-3799). If it throws during
   suspend, finally blocks already moved to the winder (3986) are not saved
   (3990) and never execute. Coroutines, the conjuncts of `DynamicContext`, `FinallyBlocks` and
   `RightEnvironment` without `thrown`, ThunkOps {"break"}.
7. *A coroutine is closed while it is in use.* close tests the status (core 4019), runs finally
   blocks and frees the stack (4057-4058). If a block suspends, the coroutine can be resumed
   meanwhile. Coroutines, `FreesFinished`, ThunkOps {"suspend"}.
8. *A finalizer runs twice.* If a handler allocates, the collection it causes runs the notifiers
   again, and the handler in progress is still listed (core 4131). Finalizers, `RunsOnce`, MaxHandlers 1, MaxDepth 2. A comment there
   (4115-4116) says that a handler returns true "if the LivenessHandler ran, and thus should be removed"; it is removed
   only when the loop of its own notifier goes on.
9. *Contents of a reader grow after stop.* make_threaded_reader starts the thread
   (threadedreader.c:147) before it initialises the mutex: with input at once the thread locks what
   malloc returned. ThreadedReader, `SameContents`, EarlyInput TRUE, MaxChars 2.
10. *A pause that races with a stop.* request_pause reads the run mode (debug-adapter.c:2996), the
   program stops and sets PAUSED, request_pause sets RUNNING (2999): a "stopped" event was
   sent and the program goes on. DebugAdapter, `StopHolds` with `asked` left alone in
   `Pause`, and `MayEndStop` without its first disjunct. The other way round, a pause that found the
   program stopped writes PAUSED (1038) when it has gone on: `prog = "running" => runMode # "paused"`.
   After the program has ended it replaces TERMINATED, and the adapter reads on.
11. *Safepoints that are not armed.* setBreakpoints clears all safepoints of a file (2028) also
   while all are enabled, and writes no breakpoint then (2044): a step that follows passes them.
   The same happens to a pause before the table is set (228), which sets the flag and writes nothing.
   DebugAdapter, `StopsWhereDue` without `blanked`.
12. *Variables of freed frames.* A stackTrace request with another format frees the frames
   (2538), and not the variables that point to them. DebugAdapter, `Inspection` without
   `reformatted`.
13. *SIGINT inside of disable or unbreak.* The flag is cleared (debugger.c:24) and NOP is written
   after it (25): a signal between them enables all safepoints and has them overwritten. In
   write_breakpoint (31) the signal comes between test and write. Debugger, `StopsWhereDue`
   and `Armed` without `crossed`. Likewise a signal between the assignment of the run mode and
   `disable` is undone by disable: the request is lost (`asked` is not set there).

Read in the code, and not expressible in the models: the arrays of frames and of variables
start with capacity 0 and are grown by doubling it (debug-adapter.c:2393, 2478) unless they were
initialised by a reset; a breakpoint is looked up (1770) without the lock while
setBreakpoints frees the list.

## 6. Not modelled, and why

* `posix_spawn` for OS X, Windows process wrappers: other launchers of the same protocol; the
  latter keep no state.
* Failure of pthread_mutex_init; doubling of the reader's capacity near the width of
  an int: the model's buffers are far from it.
* Contents of pipes and characters beyond the values that matter (255 and another).
* More than one C context for coroutines: the check of the context register ends in `fatal`.
* More than one slot in stack frames of Nursery, and the second initial stack.
* Debug adapter: JSON and packets, fields of values below the locals of a frame, output
  events, the requests initialize, source and setExceptionBreakpoints, which read and write no state
  that the others use. The lookup of a breakpoint is one step; the memory of the list it walks is not modelled.
* Commands of the debugger that only print.
* Compiler passes: their correctness is about the semantics of programs; nothing in them
  interleaves. Crash handlers, profiler, heap analyzer: diagnostics.
* Vendored code. It is most of the C and C++ of the repository: asmjit, linenoise and
  linenoise-ng. The programming of the run-time system and of the compiler is in files ending in
  `.stanza`, so the models cover a small share of the lines of C whatever they model.

## 7. Plan

Written in this order, the most important behaviour first; the first ten are done.

1. Marking, with proofs. 2. MarkCompact. 3. BitWords, MarkBits. 4. ObjectGraph and
Nursery. 5. ThreadedReader, with proofs. 6. ProcessPosix, with proofs. 7. Finalizers,
with proofs. 8. Coroutines, with proofs. 9. The counterexamples above.
10. DebugAdapter and Debugger, with proofs.
11. *StackPool*: free list and doubling with the sizes of free and grown stacks;
blocks on the free list are disjoint from those of stacks.
12. *Collections*: Queue refined to a sequence, HashTable and IntTable to a function,
bsearch against its definition; bounds of two or three growths.
13. *BufferedStream*: the character ring refined to a sequence.
14. Proofs about the heap. MarkCompact: done. That Nursery implements ObjectGraph, from the invariant of NurseryProofs: `Moved` is the
stutter of a copying step, and the full collection a `Collect`.
15. Proofs about coroutines. `DynamicContext`: done. `FinallyKept` and `RightEnvironment`, from that invariant and what winders
say of the frames around an entry; steps of Queue that map to steps of a sequence.
