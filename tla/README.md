# A TLA+ model of NewOpenDylan

NewOpenDylan is a Dylan compiler and runtime in Rust over LLVM.  This directory
holds TLA+ specifications of its core, TLC configurations that check them on
small instances, and proofs, checked by TLAPS, of what holds for every instance.
Paths below are relative to the repository.

## The system

| Component | State it keeps | Operations | What makes it correct |
|---|---|---|---|
| Safepoint protocol, `src/newgc-core/src/page_heap/mutator.rs` | epoch, `world_running`, `park_mutex`/`park_cv`, `coord_mutex`, heap mutex, registry of mutators, each mutator's epoch, flags, published roots and TLABs | register, drop, poll/park, enter/leave native, collect (drive), refill | the collector is alone in the heap; every published root is updated by every collection; no lost wake-up |
| Page heap, `page_heap/{space,alloc,evac,cycle}.rs` | page descriptors, allocation regions, card table, start and mark bits, forwarding markers, promotion counters | allocate, mark card, minor / cascading / full cycle, evacuation chunk by chunk | collection is invisible; no dangling reference; the remembered set is complete; collections end |
| Marking and pins, `page_heap/{mark,pin,coordinator_api}.rs` | explicit pins, per-cycle pin set, mark bits | pin, unpin, mark from roots and cards, extend the mark from pins | pinned objects stay; what they refer to survives |
| Runtime heap, `src/nod-runtime/src/{heap,lib,make}.rs` | per-thread root stack, heap mutex, statistics | `alloc_object`, `alloc_raw`, `collect_*`, write barrier | an allocation ends in an object or in a panic; every live Word is a root |
| Roots, `stack_map.rs`, `aot.rs`, `values.rs` | active frames, multiple-value buffer | push/pop a frame, snapshot | as above |
| Dispatch, `dispatch.rs`, `classes.rs` | method tables, generation counters, inline caches, next-method chain stack | `add_method`, `remove_method`, `nod_dispatch`, compiled fast path, `next-method` | a cached method is the one lookup would find |
| Conditions, `conditions.rs` | handler stack, block registry, captured locals, cleanup guards | run a block, signal, non-local exit | the right handler, the right activation, cleanup once |
| Functions, closures, callbacks | function-reference caches, callback registries | make a reference, register, call back | a cached Word is kept up to date |
| Tables, collections, strings | buckets with tombstones | find, insert, delete, grow | a finite map; probing ends |
| COM and Windows FFI | handle tables | call, pin around a call, release | a handle is released once |
| Code generation and JIT, `src/nod-llvm` | modules, compilation cache on disk and in memory | compile, replay, evict | a cache entry is what its key says |
| IR, liveness, lowering, C3, reader, macros, namespaces, driver | trees and tables of one compilation | sequential transformations | the algorithms' own definitions |

Threads meet in the safepoint protocol and, in nod-runtime, on one heap mutex.
Compiled code allocates through `alloc_raw`, which may run a collection in the
middle of any expression; what the program holds must be rooted by frames, root
guards or published snapshots.  Foreign code is entered with published roots or
with pinned objects.  The hard behaviours are therefore: the interleavings of
mutators with one another and with concurrent drivers, lost notifications, a
panic with the world stopped, foreign calls that return in the middle of a
collection; and, inside a collection, references between what has been copied,
what is pinned and what waits for a later chunk, with few or no free pages.
PROJECT.json lists the hazards by line.

## Modules

| Module | What it is |
|---|---|
| `StopTheWorld` | what the safepoint protocol promises: threads run in the heap with current addresses, or are safe while one collector changes all addresses |
| `Safepoint` | `mutator.rs`; composes with `StopTheWorld` through `STW == INSTANCE StopTheWorld WITH ...` |
| `MCSafepoint` | symmetry, for `MCSafepoint.cfg` and `MCSafepointLive.cfg` |
| `Safepoint_proofs` | theorems about `Safepoint` |
| `Orders` | lemmas the proofs share: least numbers, maximal elements, sorted enumerations |
| `Reachability` | reachability in a graph given as a function |
| `ObjectGraph` | what the program sees: objects, fields, pins, and nothing of collection |
| `PageHeap` | `space.rs`, `alloc.rs`, `evac.rs`, `cycle.rs`, `mark.rs`, `pin.rs`, as `heap.rs` drives them |
| `MCPageHeap` | symmetry, for the `MCPageHeap*.cfg` |
| `PageHeap_proofs` | theorems about `PageHeap` |
| `ObjectGraph_proofs` | extends `PageHeap_proofs`: identities, and the refinement of `ObjectGraph` |
| `Precedence` | precedence lists, and when those of a program are linearised; shared by `C3`, which makes them, and `MethodTable`, which relies on them |
| `MethodTable` | extends `Precedence`: lookup among multimethods (`dispatch.rs`) and the closure test of the resolver (`optimise/dispatch.rs`), as operators |
| `Dispatch` | extends `MethodTable`: a generic's table and generation, the inline cache of a call site, a resolved call site, several threads |
| `MCDispatch` | classes, arguments and specialisers, for `MCDispatch.cfg` and `MCMultimethods.cfg` |
| `Dispatch_proofs` | theorems about `MethodTable` and `Dispatch` |
| `BlockScopes` | what `block ... cleanup ... end` promises |
| `Activations` | one thread's stacks in `conditions.rs`, `dispatch.rs` and `stack_map.rs`; implements `BlockScopes` |
| `Activations_proofs` | theorems about `Activations` |
| `Tables` | `tables.rs`: open addressing, against a finite map |
| `Tables_proofs` | theorems about `Tables` |
| `Liveness` | `liveness.rs`: the data-flow analysis, against paths through the function |
| `C3` | `c3.rs`: linearisation of class hierarchies |
| `Analyses_proofs` | theorems about `C3` and `Liveness` |
| `MCSequential` | one instance of `Activations`, `Tables`, `Liveness` and `C3`, which share nothing |

### Safepoint

`pc[m]` is the place of a thread in `mutator.rs`; the other variables have the
fields' names or say which field they are.  Every critical section under
`park_mutex` is one action, because the code never blocks inside one except in
`park_cv.wait`, which gives the mutex up; `sleepers` is the set of threads in
that wait, and `notify_all` empties it.  `coord_mutex` and the heap mutex are
held across such steps, so their owners are variables.  The steps between
critical sections are separate: reading the fast path, publishing roots and
flushing TLABs (`LeaveDylan`), announcing (`Announce`, `AnnounceNative`,
`Claim`), `TakeCoord`, `Stop`, `ListMutators`, `AwaitArrivals`, `LockHeap`,
`Collect` or `CollectPanics`, `Resume`, `ReleaseCoord`, `CopyBack`.

The heap is a number: the collections it has been through.  A root or a TLAB
carries the number it is valid for.  A collection adds one, and rewrites exactly
the snapshots the code's root visitor passes to the collector, and of those only
the ones that were current: a stale word cannot be repaired.  This is enough to
tell a protocol that loses an update from one that does not.

A panic in the collector moves the heap without updating snapshots, poisons both
mutexes, and unwinds through `ResumeGuard`; from then on every `lock().unwrap()`
panics its thread, and the address properties say nothing.

### PageHeap

An address is a slot.  A small object fills a slot and a page holds `PageSlots`
of them; a large object is a run of `LargeSpan` pages.  Each object has one
pointer and each slot one card.  `root` is the set of rooted Words, `heap` what
the slots hold (an object, or the forwarding marker left in its place), `page`
the descriptors, `region` the allocation regions, `pins` the durable pins,
`marked` and `pinned` the mark bits and pin set of the pass, `todo` and `chunk`
the pages of `evacuate_with_roots`' loop.  `id` is a ghost: an object's identity
when it is copied.  The chunk budget, its floor, the order of pages and the
order of copying are those of the code.

`Mark` is everything before the chunk loop; `NextChunk`, `CopyObject` (one
object per step, because any may be the one that finds no page), `Rewrite` and
`Reclaim` are one turn of it; `EndPass` ends a pass and decides over the next as
`collect_minor` and `collect_full` do.  `AllocYoung`, `CollectForRoom`,
`AllocTenured`, `AllocLarge` and `Exhausted` are `alloc_raw`; an object's first
stores (`Initialise`) mark no card, as in the code.  `Write` is the write barrier
with its store.

### MethodTable and Dispatch

`methods`, `generation`, `sealed` and `domains` are the fields of
`GenericFunction`; `slot` is the `CacheSlot` of one call site and `direct` what
the resolver made of another.  `pc[t]` is where a thread is: in the compiled code
of the call site (`Load` word by word, then `FastCall` or `Miss`), in
`nod_dispatch` (`SlowCall`, `ReadGeneration`, `Store` word by word), or in a
change of the table.  What `RwLock` protects is one step.  `add_method` and
`remove_method` bump the generation after the lock is released, so the change and
`BumpGeneration` are two steps; `try_add_method` checks sealing without a lock
that outlives the check, so `CheckSealing` and `AddChecked` are two as well.  The
cache's atomics are relaxed; the model takes them in the order of the code, as
x86-64 does.  A compiler might reorder them, which would make more of the torn
reads that the ghost `disturbed`, below, sets aside in any case.

The ghost `allowed[t]` collects what lookup gives for a thread's arguments at
each time of its call.  The abstract promise is that a call runs one of them
(`CallsCurrentMethod`).  The code does not keep it under every interleaving: a
slot that is filled while another thread loads or fills it may be torn, and one
filled around a change of the methods may hold the old method under the new
generation.  The ghost `disturbed` records that such a fill has happened, until
the next bump with no call in progress makes every entry stale, and the
properties are stated without those periods.  What is left, and holds, is that
calls, changes that overlap calls, sealing and resolution do not disturb one
another.  A slot filled in a race is not covered, then, and neither is a generic
of several arguments, for which see `multimethods` below.

The resolver is two steps, as closure is found (`CheckClosure`) before the lock on
the methods is taken (`Resolve`).  A resolved call is compiled as a direct call: it
compares no generation, so the one that the resolver records, and nobody reads, is
left out.  Nothing invalidates the call.  `dispatch.rs:1386-1388` says that nothing
needs to, as "the redefinition refusal policy guarantees no rewritten call site can
be invalidated".  The code supports less:

* A seal refuses additions only in `try_add_method`.  `add_method`, by which a
  library's own definitions are registered, and `remove_method` ask no seal.
* A call is also closed when the classes of its estimate are sealed.  That keeps
  out new classes, but no check keeps out a new method for them: with one method
  for the parent, a call with the sealed subclass is resolved to it, and
  `try_add_method` may replace it, or add one for the subclass, at any time.
* A sealed domain refuses methods inside it.  A call under the domain may have been
  resolved to a method for a superclass, which can be replaced.
* A seal may be declared, and a call resolved under it, between the check of
  `try_add_method` and its addition.

`SealedCallsKeepTheirMethods` states what is left, and needs the refusals to hold.
`Sheltered` methods are those that the seals the resolver found speak of: all, for
a sealed generic, or those within the domain.  Whatever is added afterwards, of the
sheltered methods that apply to arguments under the estimate the call has exactly
those of the table, and where the dispatcher would run a sheltered one first, the
call runs it.  The ghost `bypassed` records a change since the resolution for which
the seals of that moment had not been asked: by `add_method` or `remove_method`,
or by an addition that a seal overtook.  The resolver takes only methods that apply to
the whole estimate; arguments to which a sheltered method for a part of it applies
are left out, as there the call disagrees with the dispatcher from the beginning.

### Activations and BlockScopes

`stack` has the calls in progress: a method (by which of the three paths it was
called), a block with its phase, or a signal with its handler.  `handlers`,
`captured`, `chain` and `safepoints` are the thread-local stacks of the code;
entries carry the activation that pushed them, which the code's do not, and which
only the properties read.  `payload` is the panic in flight with the block id it
carries; `catcher` is a ghost, the activation that could catch it when it began.
`nod_run_block` is `EnterBlock`, then `ReturnBody`, `ReturnCleanup` and
`ReturnBlock`, or `Catch`, or `DropGuard`, `ResumeUnwind` and `UnwindBlock` with
`Abort` for a second panic in a destructor.  `nod_signal` is `Signal`,
`ReturnHandler` and `Unhandled`.  Compiled code on top may do anything at any
time, so every order of calls, returns, signals, exits and panics within the
bounds is a behaviour.  Two calls of the code are made through `extern "C"`
pointers, which the compiler may take as not unwinding, and a sealed direct call
pops its frame only on success: `UnwindCall` lets the frame stay, and the ghost
`leaked` says so; from then on the owners of chain frames are forgotten and no
more frames are pushed, which bounds what is left to explore.

### Tables, Liveness, C3

`Tables` has one step per operation: nothing else runs during one.  `hash` is
chosen at the start, any function from keys to `Hashes`, and does not change.  The
code hashes a byte string by its bytes and a symbol by its name's; that these are
not written to while the string or symbol is a key is assumed, as it is by the
code, which would no longer find the entry; `Probe`, `ShouldGrow`
and `Grown` are the code's functions, with the growth loop as a recursive
function over the old buckets.  A capacity is a power of two, so that `h & mask`
in the code is `h % capacity` here.  `contents` is the ghost map.  `Liveness` takes one step per visit to a block and per round,
in the code's order; `Functions` are control-flow graphs with the uses and
results of each computation.  `C3` linearises the classes of a hierarchy in the
order of definition, one picked head per step.

## Runs

| Run | Instance | What it shows |
|---|---|---|
| `safepoint_safety` | 3 mutators, 3 collections | the collector is alone, no stale address is used, published roots are updated by every cycle; the protocol implements `StopTheWorld` |
| `safepoint_liveness` | 3 mutators, 2 collections | a stopped world resumes, a parked thread returns, a driver returns |
| `pageheap` | 2 objects, 2 roots, 5 pages of 2 slots, thresholds 2 and 2 | small objects and pins through every cycle; refines `ObjectGraph` |
| `pageheap_large` | 10 pages of 1 slot, runs of 2, both sizes | large objects in Tenured with pointers to young ones |
| `pageheap_tiny` | 4 objects, 2 pages of 2 slots | hardly any room: Tenured fallback, stalls, exhaustion |
| `pageheap_liveness` | 2 pages of 2 slots, both sizes | collections end, allocations are answered |
| `dispatch` | 2 threads, 2 classes, 2 bodies, one argument, 2 changes | undisturbed cached calls run what lookup gives; calls resolved under a seal keep the methods it shelters |
| `sequential` | 4 activations, 2 block ids, 2 condition classes; 4 keys, hashes 0, 2, 7; graphs of up to 3 blocks; hierarchies of 6 classes | stacks match activations, exits reach their block, implements `BlockScopes`; the table is a map; roots are what is live; precedence lists agree |
| `pageheap_chunks`, `pageheap_pinned`, `pageheap_runs`, `multimethods` | see below | violations |

Why these bounds are enough to be interesting.  Three mutators are the fewest
with a driver, a second driver queued behind it, and a thread that parks or is
away.  Three collections let a thread sleep through a resume and a new stop, and
then through another.  Two concurrent drivers already need every notification;
so the liveness run has two collections.  In `PageHeap`, two objects are the
fewest with a pointer from old to young; two roots are needed to store one in the
other; thresholds of 2 make a plain, a promoting and a cascading minor collection
differ (the code's 3 and 5 only make more plain ones).  `YoungCap` is 2, so that
G0 fills.  Five pages leave room for both young pages, their copies and a pinned
page; `pageheap_tiny` takes the room away.  `MaxPins` bounds the pins on one
object; an allocation is asked for only while an identity is left, so `Objects`
bounds what exists at once, not what is ever allocated: an identity returns when
nothing carries it.

In `dispatch`, two threads are the fewest that race for a slot, two changes
(`MaxGeneration` 3) let a call span a change and the next.  The classes are a
parent and its subclass, so that one class's method covers the other; the sealed
domain and the sealed class are the subclass, so that a resolved chain has methods
inside the domain and outside.  In
`sequential`, four activations nest a block in itself with a signal in between
and a call of next-method; `MaxFrames` 2 and `MaxChain` 1 give an outer and an
inner chain frame; the two condition classes are an error and a kind of it.  The
table starts with 4 buckets, not 8 as in the code (`INITIAL_CAPACITY`): 70% of 4
leaves room for two entries, so four keys make it grow to 8 and then to 16, and
the three hashes collide in every capacity, wrap around, or differ only after
growth; `MaxCapacity` bounds further growth.  Functions of two blocks have
parameters, empty blocks and uses in terminators; those of three blocks, with one
computation each, have every loop and join.  Six classes, of which three have one
or two parents in either order, are the fewest with two orders of the same pair
that meet in a common subclass, which C3 must refuse.

Deadlock is checked except in `pageheap_tiny` and `pageheap_liveness`, where the
two panics end the program, in `sequential`, where the program may end by a panic
and the algorithms do when they are done, and in the violation runs that say so.

### Findings

Four runs show places where the code does not do what its documentation says.
The passing runs of the page heap do take their passes in several chunks, promoting ones and compacting ones,
but are sized so that none of the three situations arises: when a promoting pass
needs a second chunk there, the pages it leaves for later do not refer to what it
copied; no object is pinned over a large child; no large run straddles two
chunks.  They say what holds apart from these.

* `pageheap_chunks`.  `phase2_rewrite` rewrites pages of the destination
  generation.  If a promoting pass takes more than one chunk, source pages of
  later chunks keep references to objects copied in an earlier one; reclaiming
  that chunk erases the forwarding markers, and the references dangle.
* `pageheap_pinned`.  A large object met by the extension of the mark from
  pinned objects is marked but not pinned, and phase 3 keeps large objects by
  their pins: the child of a pinned object is released.
* `pageheap_runs`.  Phase 3 goes by a page list made before the first chunk.  The
  continuation page of a dead large run may be released with its head in one
  chunk, be acquired as a destination page in the next, and then be released as
  one of that chunk's source pages, live copies included.
* `multimethods`.  The inline cache remembers the method found for all arguments
  of a call under the class of the first, and its hit test compares that class
  and the generation.  The next call with the same first class and another second
  one runs the wrong method.  One thread is enough.  `dispatch` has generics of
  one argument, where this cannot happen.

## Fairness

`Safepoint!FairSpec` has weak fairness on `Advance(m)` for each thread: a thread
that is not blocked goes on, and one in Dylan code polls, which compiled code
does at function entries and loop back-edges.  No fairness is assumed of what a
thread does of its own accord (registering, foreign calls returning, asking for
a collection, departing), nor of spurious wake-ups and timeouts: the properties
show that the protocol does not need the ten-second timeout.  Weak fairness is
enough for the mutexes because the drives are bounded; the code's mutexes are
not fair and a thread could be overtaken forever by others that drive forever.

`PageHeap!FairSpec` has weak fairness on the collector and on an allocation in
progress: both run to their end on the thread that called them, with the world
stopped or the heap mutex held.  Nothing is assumed of the program.

## Proofs

Every safety invariant, action property and refinement that a passing run checks
is also the conclusion of a theorem, for every value of the constants that the
modules' named assumptions allow.  Three theorems about the cache need one
argument (`Unary`), and six about the page heap have hypotheses on the sizes of
objects and on chunks; both are discussed below.  In each component the argument
is the same: an inductive invariant whose parts are named for what they say, a
lemma that each action keeps each part, and theorems that follow by temporal
logic.

### Safepoint (`Safepoint_proofs`)

The assumptions are that `None` is no mutator, that `MaxEpoch` is a natural
number, that there are finitely many mutators.  `Invariance` proves `Spec => []IInv`;
`TypeCorrectness`, `CollectorIsAlone`, `AddressesAreCurrent` and
`EveryCycleVisitsRoots` the invariants that `safepoint_safety` checks;
`Refinement` proves `Spec => ImplementsStopTheWorld`, that is `STW!Spec`.

None of the safety properties is inductive.  `WorldStopped`, for instance, speaks
of a driver that collects and a thread in Dylan code, and nothing in it says why
the wait that ended some steps ago is still good.  `IInv` adds what the argument
needs:

* `LockInv`: a thread is in the driving part of the code exactly if it owns
  `coord_mutex`, and collects exactly if it owns the heap mutex;
* `StopInv`: the world is stopped exactly while some driver is between its stop
  and its resume;
* `SlotInv`: what the flags of a thread's slot say about where the thread is;
* `ArrivedInv`, the core: the driver's list has every active mutator, whom the
  driver has passed has arrived and stays so, and in a stopped world a mutator at
  the current epoch is asleep in `park` or is the driver;
* `AddressInv`: unless the collector has panicked, who has published holds a
  current snapshot and no TLAB, and who is in Dylan code holds current addresses.

### Page heap (`PageHeap_proofs`, `ObjectGraph_proofs`)

`Typing` and `IdsAreUnique` are for every heap and for objects of all sizes: the
promotion counters stay below their thresholds but in the pass that promotes, and
a copy and its original never both count as the object.

The other theorems need two hypotheses, because without them the statements are
false, as the violation runs show.  `SmallOnly` says that no object spans pages
(`pageheap_pinned` and `pageheap_runs` have large ones).  `[]ReferencesRewritten`
says of a behaviour that no chunk's reclaim leaves a reference to a forwarding
marker; that is what the comment on `phase2_rewrite` claims and what
`pageheap_chunks` refutes for a promoting pass of several chunks.  The theorems say
that, among small objects, nothing goes wrong but that.  The hypothesis is not
vacuous: every behaviour of the instances of `pageheap` and `pageheap_tiny`
satisfies it, passes of several chunks included, and TLC has checked `HeapInv` and
`CounterInv` on both as invariants before they were proved.

`HeapInvariance` is the invariant.  The properties speak of the time between
collections; what makes them true is what holds during one:

* `KindInv`, `AllocatorInOrder`: pages and regions;
* `PassInv`: what the passes of a cycle so far have emptied, and that the
  snapshot of generations at the start of a pass still shows Tenured as it is;
* `SourceInv`: what is left of the pages to evacuate, to which no region points;
* `MarkerInv`: a marker is in a page of the current chunk and leads to a copy
  outside the sources;
* `PinInv`: pinned objects are marked, and at reclaim a marked object that is
  still in its chunk is pinned;
* `PointerInv`: what survives the pass refers, through at most one marker, to
  what survives, and at reclaim to no marker;
* `CardInv`: a surviving pointer from old to young has a dirty card, and during a
  pass the references into the sources from outside are on the cards it scans,
  unless they come from pages of the destination, which are rewritten as a whole.

`AllocatorStaysInOrder`, `PointersStayValid`, `OldToYoungStaysCarded` and
`PinnedStay` follow.  `Refinement` proves that `PageHeap` implements
`ObjectGraph`: an allocation, store, pin or root change is the abstract one, and
a step of the collector is `Collect` or a stutter, because what is live survives
(`LiveIs`) and every survivor keeps its identity and its field.

### Dispatch (`Dispatch_proofs`)

`MethodTable` assumes of the classes that their lists are linearised
(`CplAssumption`), which is what `ListsServeDispatch`, below, proves of the lists
that C3 makes.  From it the lemmas on lookup follow: applicable methods can be
ordered, the first is the one that lookup finds, and what applies to an estimate
applies to all arguments under it, in the same order.

`BaseInv` holds for any generic: `TableInv` and `ThreadInv` (types and what each
program counter has read), `PastInv` (no cached entry is ahead of the
generation), `AloneInv` (unless `disturbed`, a thread that fills the slot is alone
with it), `FillInv` (the words stored or loaded so far are those of one entry) and
`SealInv` (the seals a resolved call relies on are still there; its chain is of
methods for its estimate, most specific first; unless `bypassed`, the sheltered
methods of the table that cover the estimate are in it, and each of its methods is
still in the table or, if not sheltered, has been replaced by one with the same
specialisers).  It gives `TypeCorrectness` and `SealedCallsStayResolved`, that
`SealedCallsKeepTheirMethods` holds for any classes, arguments, seals and threads.
The step that counts is `AddChecked`: the seals it asked include those of the
resolved call, so the method it adds, and the one it replaces, are not sheltered.
That the first method is the same then rests on the lists: two methods compare for
the arguments as they do for the estimate (`InheritedSpecificity`), and of two
that apply, one is more specific (`SpecificityIsTotal`).

`CacheInv` holds when the first argument determines the others, `Unary`: `SlotInv`
(an entry of the present generation is what lookup gives in a table whose
replacement, if any, is not announced) and `AllowedInv` (the ghost has what every
table current during the call gives).  It gives `CachedEntriesAreCurrent` and
`CallsRunCurrentMethods`.  Without `Unary` they are false, which is the finding of
`multimethods`.

### Activations (`Activations_proofs`)

`BaseInv` relates each stack to the activations.  `SafepointInv`: each frame's
entry is in its place, with more above it only during a panic.  `HandlerInv`: the
`handlerBase` of a block cuts the handler stack into the handlers of older
activations and of newer ones, and the block's own follow it in order; so
truncating to the base removes the block's handlers and no other.  `CapturedInv`
and `ChainOfMethods` are inductive as they stand.  `ExitInv`: the catcher of an
exit under way is the newest block of its id in its body, that of an exit that
waits for a cleanup is the newest below the cleanup, and a handler's block is the
newest of its id below the handler.

From it follow `TypeCorrectness`, `SafepointsMatchFrames`, `ChainMatchesMethods`,
`HandlersMatchBlocks`, the action property `ExitsAreCaught`, and `BlocksAreScoped`,
the refinement of `BlockScopes`.

### C3 and liveness (`Analyses_proofs`)

`C3Inv` has at its core `Merged`: at every step of a merge, each input's members
are divided between what has been picked and what is still in its queue, and two
of them are in the input's order in the result, or in the queue, or picked and not
picked.  It gives `ListsAreC3`; `RefusalsAreRight`, since when no head is good,
every remaining class has another before it in some queue, and a list that respects
them all would have no first one; and `ListsServeDispatch`.

For the liveness analysis, `AnalysisInv` says that the blocks a round has visited
without a change solve their equations (`RoundInv`), and that nothing is taken for
live that is not in every set of points closed backwards from the uses
(`SoundInv`).  `ReachIs` shows that the reference, `ReachUse`, is the least such
set; a solution is closed, so that the finished analysis is exactly it:
`RootsAreLive`, for functions of any size with any loops.

### Tables (`Tables_proofs`)

`TableInv` has types, `Unique` (no key twice), `Reachable` (on the probe path of an
occupied bucket's key nothing before it is empty), `Counted` (the counters count)
and `Agrees` (the entries are the ghost's).  Removal keeps `Reachable` because it
leaves a tombstone, reuse because it takes the first one, growth because each
entry goes to the first empty bucket of its new path.  `TablesAreMaps`,
`CountersAreRight` and `ProbesAlwaysEnd` follow, the last because growth at 70%
leaves a bucket empty at every capacity.

### How recursion is handled

The prover cannot instantiate the library's induction theorems.  Where a
definition recurs (a table's growth, the rounds of `ReachUse`, the walk of
`LiveAfter`), the function's existence and each fact about it go by a least
counterexample (`SomeLeast` in `Orders`), whose predecessor is none.

### Only model-checked

The liveness properties (`WorldResumes`, `ParkedReturns`, `DriverReturns`,
`CollectionEnds`, `AllocationAnswered`): they need fairness and ENABLED, which are
beyond the prover.  The page heap with large objects, but for `Typing` and
`IdsAreUnique`: `pageheap_large` checks it on an instance without the situations
of the findings.  That the instances of the page-heap runs satisfy
`ReferencesRewritten`.  The four violations are TLC's counterexamples.

## Not modelled

In `mutator.rs`: the conservative-pin feature (compiled out by default), the
length of the timeout, allocation inside a TLAB.  In the page heap:
`collect_major`, `collect_auto` and the static-area variants, which nod-runtime
does not call; `try_collect_*` with its poisoning; failures to commit memory;
interior pointers; cons pages, which differ from boxed ones in how a start is
marked; TLABs (nod-runtime allocates directly).  Objects have one pointer.  The
two models are not composed: `Safepoint` gives `PageHeap` its stopped world, and
`PageHeap` gives `Safepoint` its `Collect`.

In dispatch: two methods with tied specialisers (the table has none), the counters
of hits and misses, the names of generics and the libraries' facts about sealing.
In conditions: the values carried by exits, the registry of block thunks, the
captured locals as roots.  In tables: unhashable keys, the rooting of the table
while it grows.  Threads share a handler or chain stack nowhere, so `Activations`
has one thread.  No model of dispatch and activations together: `Dispatch` says
which method runs, `Activations` what its call leaves on the stacks.

Hazards in PROJECT.json without a property belong to modules that are not
written: words held outside the root set (`RuntimeRoots`), the session that
evaluates sources with its cache, the narrowing of estimates by type tests, and
the compilation cache on disk, which two processes share without a lock.

Not modelled at all: parsing, macros, most of lowering and of LLVM code
generation, command-line and FFI plumbing, which is sequential translation or
calls to the operating system and makes up most of the lines of this repository;
PROJECT.json gives the reason for each.

## Plan

1. Proofs: large objects in the page heap, under a condition that excludes the
   two findings about them (no pin over a large child, no run across chunks); a
   condition on the sizes of the heap and the generations that implies
   `ReferencesRewritten`, so that the page heap's theorems need no hypothesis on
   behaviours.
2. `RuntimeRoots`: threads with their own root stacks, function-reference caches,
   callback registries and captured locals over a moving heap.
3. The eval session: sources, registrations and the in-process cache.

No module uses RECURSIVE operators, so every one may hold theorems.
