# A verification of Chick in TLA+

Chick (`src/`) is an experimental x86-64 microkernel in the manner of seL4,
written in Rust. This directory holds TLA+ models of its components, TLC
configurations that check them on small instances, and TLAPS proofs of their
main invariants for every instance. Paths below are relative to
`src/src/kernel/src/` unless they start with `src/`.

## 1. The system

| Part | Source | Module |
|---|---|---|
| Thread control blocks, intrusive queues | `objects/tcb.rs` | `Threads` |
| Per-core EDF scheduler | `scheduler/executor.rs` | `Executor`; behind the timer interrupt, `Timer` |
| Synchronous IPC endpoints | `objects/endpoint.rs` | `Endpoint`, promise in `FifoEndpoint` |
| Capability slots, mapping database | `objects/cnode.rs`, `objects/nullcap.rs` | `Mdb` |
| Capability addresses | `cspace.rs`, `objects/cnode.rs` | `CSpace` |
| Untyped memory | `objects/untyped.rs` | `Untyped` |
| Virtual address spaces, TLB | `objects/vspace.rs`, `vspace.rs`, `arch/x86_64/vspace/` | `VSpace`, promise in `AddressSpace` |
| Words of a capability | `objects/mod.rs`, `frame.rs`, `vspace.rs`, `untyped.rs`, `cnode.rs` of `objects/` | `CapWords`, promise in `CapFields` |
| One-time cell | `scheduler/sync.rs` | `OnceLock` |
| Boot, calibration, timer interrupt, panic | `main.rs`, `arch/x86_64/tick.rs`, `apic.rs`, `pit.rs`, `interrupts/` | `Boot` |
| Per-core storage | `scheduler/percore.rs`, `scheduler/mod.rs` | `Boot` |
| Console and logger | `arch/x86_64/console/` | `Console`; its lock in `Boot` |
| System call entry and dispatch | `arch/x86_64/syscall.rs`, `syscall.rs` | the dispatch is `unimplemented!()` |
| Descriptor tables, PIC, ACPI, host runner | `arch/x86_64/`, `src/src/main.rs` | no |

How they interact. At boot `main` sets up the console, the APIC and interrupts,
calibrates the timer and fills the per-core schedulers, which sit in a
`OnceLock`; from the calibration on the timer interrupt may come at any point,
and shares the logger and `TICKS` with `main`. Later the interrupt calls
`preempt` of the scheduler of the core. System calls run with interrupts masked;
they will call the endpoint functions, which move threads between an endpoint's
queue (linked through the TCBs) and the scheduler's heap, and the capability
functions, which make objects from untyped memory, link their capabilities in
the mapping database and map frames.

No caller of the endpoint and capability functions is written yet. Where a
function is `unsafe` or has a precondition, the model states it as a guard
marked "contract" in a comment. What is assumed of the missing layer is said at
the head of `Endpoint`: a thread makes calls only while it is `Running` and has
the CPU, and calls are not interleaved with the timer.

## 2. The modules

**Threads** has the thread states and `TcbQueue`. A queue is a record of head,
tail and the link fields of all TCBs; `append`, `dequeue_head` and `remove` are
functions on it, assignment for assignment. `Follow` and `WellLinked` read a
queue back as a sequence.

**Executor** has one action for each public method of `Executor`. The
binary heap (crate `heapless`, external) is a bag, the number of copies of
each entry, because nothing in it excludes duplicates; `First` is its least
entry by deadline, then address. The
functions `context_switch` and `schedule` take the current entry, states and
heap as their caller left them. An `expect` that fails sets `panicked`, and
nothing happens after it: the panic handler loops. `SetIdle`, `Enqueue`,
`BlockCurrent` and `Run` have contracts, because the state of a thread does not
tell whether it is already in the heap. Every thread starts `Running`, as
`Tcb::new` makes it, which `enqueue` refuses; `Prepare`, external, is the missing
code that makes it `Inactive` before it is queued for the first time.

**Timer** extends `Executor` with the interrupt that calls `preempt`. A tick that
does not switch acknowledges the interrupt and releases `TICKS`; one that
switches never comes back to do either, since `context_switch` ends in `iretq`.

**Endpoint** extends `Executor` with the state of the endpoints and the IPC
fields of the TCBs. `send_ipc`, `receive_ipc` and `cancel_ipc` are one step
each. The loops of `cancel_all_ipc` and `cancel_badged_sends` take one step per
iteration, with the locals of the loop in `op`. Message registers are `mr1`, in
which the badge goes, and `rest`. The constant `debug_assertions` is the build: with
them an access to register `MR1`, which is 0, panics (`MrAsserts`), and a
transfer ends in `PanicRegister`. **FifoEndpoint** is the promise: a sequence of
threads for each endpoint, served from the front.

**Mdb** has slots (`Entry`, the `CNodeEntry` cells) with a type and two links. `revoke` is a loop with a step per
iteration. `after` is a ghost variable, the strict order of each chain; it
plays the part of `MdbChainGhost` in the Verus annotations of `cnode.rs`.

**CSpace** resolves one address in one capability space: the initial states are
all spaces, addresses and depths, and each iteration of `resolve_internal` is a
step. The build is chosen too: with debug assertions a CNode of no bits panics
(`cspace.rs:101`). The reference definition in the same module spells addresses as strings
of bits, along paths of slots: `SlotsAt` has the slots at the end of the paths
that spell an address, or a beginning of it after which there is no CNode.

**Untyped** has the capabilities of a CNode with their addresses and sizes.
`retype` is one action with the checks in the order of the code; a call that
returns an error changes nothing and is a stuttering step. `Erase` is what
`revoke` does to a slot.

**VSpace** has four levels of tables in memory, with the access and cache bits of
each entry, and the translations the processor may have cached. `map_frame`
stands for `map_4k`, `map_2m` and `map_1g`, which differ in the level alone, and
takes rights and cache policy from the frame capability. `Fill` is the
processor, which combines the entries on its way. **AddressSpace** is the
promise: a flat partial map from pages to physical pages and the access the
capability grants, changed by whole regions.

**CapWords** has the two argument words of one capability and every function
that makes, reads or changes one: the frame, VSpace, Untyped and CNode fields
are packed at the offsets and widths of the code. A field is a pair of powers of
two, so that a shift and a mask are a division and a remainder. **CapFields** is
the promise: records of fields, of which a setter changes its own.

**OnceLock** has a step for each access to the atomic and to the plain cell,
for any number of contexts. One of them, `TickHandler`, is the timer handler of the
core on which `Underneath` runs: while it has a call, `Underneath` does not go on. It
calls `get`, as `tick_handler` does.

**Console** has the framebuffer writer: the position of the next glyph and
the corners of the glyphs on the screen, with `newline`, `clear`, `write_char`
and `panic_screen` as functions.

**Boot** has `main` and `timer_handler` on the boot CPU. A step is what the other
side can see: a lock taken or released, a message begun, a character of it, a
timer started. `main` stops while the handler runs, so a lock that the handler
waits for is never released: that is the state `hang = "spin"`. Time is counted
in steps of `main`, and the length of the PIT interval in these steps is chosen
at the start, from nothing to longer than the boot. The machine is chosen too:
cores, APIC id, a build with or without debug messages, a pixel format
the console knows, and which of the framebuffer, the memory offset, the RSDP and
the APIC is missing, if one is. With no thread `run` halts, and `preempt` returns.

## 3. The runs

Properties are invariants unless said otherwise.

| Run | Instance | Properties |
|---|---|---|
| `executor` | 4 threads, tied deadlines, one without a context; heap of 4 | `OnePlace`, `NoOverflow`; `StatesAgree` of states and steps; action property `EdfTick`; liveness `UrgentServed` |
| `endpoint_calls` | 3 threads, 2 endpoints, plain sends and both kinds of call, an idle thread, yields | `CallerWaits`, `QueueHoldsBlocked`, `NoPanic`; `ScheduledOnce` of states and steps |
| `endpoint_queue` | 4 threads, 1 endpoint, 2 badges, cancellations | `QueueHoldsBlocked`; action properties `BadgedExactly`, `LoopsEnd`; refinement `FifoOrder` |
| `mdb` | 5 slots | `AdjacentLinked`, `Acyclic`, `NullIsolated`; action property `RevokeExact`; liveness `RevokeEnds` |
| `oncelock` | 3 contexts, one the handler over another | `RaceFree`, `WrittenOnce`; liveness `CallsReturn` |
| `vspace` | 4 tables of 2 entries, frames of 3 sizes with different rights and cache policies | `TlbCoherent`, `TablesReachable`; refinement `MapsRegions` |
| `untyped` | 4 slots, one memory and one device untyped | `Exclusive`, `ObjectsAligned`, `KernelObjectsInRam` |
| `capwords` | fields at 0, 1 and their largest values, widths that do not fit | refinement `KeepsFields` |
| `boot` | 1, 5 or 6 cores for 4 slots, 3 samples, intervals of 0 to 24 steps, a screen of three lines | `NoSelfDeadlock`, `CalibrationKept`, `GlyphsApart`; liveness `BootEnds` |
| `cspace` | CNodes of radix 1 and 0, 4 guards, 3-bit addresses, both builds | `ResolvesAddress`; liveness `LookupEnds` |

The types of `Endpoint` and `CSpace` are checked in their runs; these and those of
`Executor`, `Mdb`, `OnceLock`, `Untyped`, `CapWords` and `Boot` are proved,
and those of `VSpace` are part of its invariant (section 4). Two more runs show a
statement of the repository that the code does not meet (section 6).

Bounds, and why they are enough for the cases that matter:

- `executor`: four threads give a full heap, ties, and a thread without a
  context beside an idle thread. `ticks_consumed` wraps at `TICK_MOD`, since
  nothing reads it; `MaxDeadline` is `u64::MAX`.
- `endpoint_calls`: three threads, one of which may be idle; two endpoints show
  that the shared link fields never mix. Endpoints are symmetric. Both endpoint
  runs are of the build without debug assertions (section 6).
- `endpoint_queue`: a thread must run to make a call, so four threads allow a
  queue of three while one cancels, and hence a removal in the middle, and
  every pattern of two badges over the queue.
- `mdb`: with five slots a removal may have two neighbours on either side, or
  two chains may exist at once.
- `vspace`: root and three tables reach the lowest level once, or allow two
  tables at one level. The TLB is bounded to one cached translation: coherence
  is a statement about each cached translation by itself. The three frames
  differ in size, in every right and in the cache bits; tables other than the
  root are symmetric.
- `untyped`: sizes are scaled (a page is 4 units, the least untyped 4); the
  objects of one untyped need padding between them, and an untyped can be made
  within an untyped. Deadlock is not checked, as the panic of `mint` stops the
  kernel; nor in `oncelock`, where a panic leaves contexts waiting.
- `capwords`: one capability at a time, since a setter has one argument. The
  values are the ends of each field, where a wrong mask shows. Deadlock is not
  checked, as the assertion in `CNodeCap::mint` stops the kernel.
- `boot`: a PIT interval of 0 steps interrupts at the first instruction that
  can be interrupted, one of 24 after the whole boot, and those between at every
  place: intervals longer than the boot differ in nothing. Six cores for
  four slots make `init_core` warn twice, which is where the handler meets a
  message of `main`. The screen holds three lines of one glyph, so that the
  boot wraps lines and clears it, in one call too. The boot ends in a halt, a panic or a lock
  that is never released, so deadlock is not checked: `NoSelfDeadlock` and
  `BootEnds` say which end is reached.
- `cspace`: words of 4 bits, addresses of 3. Guards are absent, one or two bits
  wide, or do not fit their width; the CNode of radix 0 without a guard resolves
  no bits; capability spaces may be cyclic.
- `oncelock`: two contexts on different cores race, and the handler interrupts
  one of them at every step of its call.

What `boot` shows is conditional on time, as the code is. `NoSelfDeadlock` and
`BootEnds` assume `IntervalsLongEnough`: the first PIT interval is longer than
the way from starting it to `*TICKS.lock() = ticks`, and no handler message
falls into the rest of the boot. With the 50 ms interval of `tick.rs:43` this is
plausible, and nothing enforces it; the definition counts the steps exactly, so
that the properties say which margins the code relies on. `BootEnds` also
assumes a machine that lacks nothing `main` expects, a known pixel format, a CPU
with a slot of its own, and a debug build's sum of samples below 2^32
(`SumPanics`). `CalibrationKept` and `GlyphsApart` assume none of this.

`LookupEnds` says when a lookup may fail to end: without debug assertions, and
then in CNodes that resolve no bits from some iteration on. `ResolvesAddress` is
about spaces where every CNode resolves some (`Resolving`): in others the address
denotes no single slot.

`CallsReturn` says that every `get` and `set` returns, in the handler too,
and every `get_or_init` unless an initializer panicked.

Fairness. `TimerFairSpec` has weak fairness of `TimerTick`: the local APIC is
periodic, and delivers the next tick as long as none is in service. Since a tick
that switches stays in service for ever, `UrgentServed` promises an urgent
thread no more than the next tick: while none is in service, the thread gets the
CPU, or another becomes more urgent before a tick comes. That no tick need come after is the finding
`timer_edf`. `BootFairSpec` has weak fairness of `main`, of the handler and of an
interrupt that is due: there is one CPU, and it runs.
`FairSpec` of `Mdb` and the specification of `CSpace` have weak fairness of one
iteration: a loop in the kernel runs with interrupts masked until it is done.
`OnceFairSpec` has weak fairness of the steps of each context, that
is, each core goes on, and strong fairness of those of `Underneath`: the handler may
interrupt it again and again, but between two interrupts the core runs what was
interrupted. Starting a call is never assumed. `LoopsEnd` needs no
fairness: it says that each iteration leaves fewer.

## 4. The proofs

TLAPS proves the following for every value of the constants that the named
assumptions allow.

Eight modules hold the proofs:

| Module | About |
|---|---|
| `ThreadProofs` | lemmas on the ready heap, on `TcbQueue` and on one step of a thread |
| `EndpointCallProofs` | `send_ipc`, `receive_ipc`, `cancel_ipc`, the starts of the loops |
| `EndpointLoopProofs` | the loops of `cancel_all_ipc` and `cancel_badged_sends` |
| `SchedulingProofs` | the theorems about `Executor`, `Timer` and `Endpoint` |
| `CapabilityProofs` | `Untyped` and `Mdb` |
| `CSpaceProofs` | `CSpace` |
| `MappingProofs` | `CapWords` and `VSpace` |
| `BootProofs` | `OnceLock`, `Console` and `Boot` |

`ThreadInvariant` has the invariants and the vocabulary of the first four, and no
theorem. Their lemmas take `Counting`, four facts on numbers and finite sets, as
a hypothesis; `CountingFacts` of `SchedulingProofs` proves it from the library's
theorems, and no theorem has it as a hypothesis.

**Executor and Timer.** `ExecutorTypeOK`, `ExecutorOnePlace` and
`ExecutorStatesAgree` hold for any finite set of threads and any capacity.
`OnePlace` is not inductive. The invariant `ExecInv` adds that what is in the
heap is `Inactive` and that the thread on the CPU is `Running` (`Agree`): a
thread that is woken is blocked, hence neither in the heap nor on the CPU, so its
entry is the only one. `StatesAgree` is also about steps. A thread that has not
been prepared is `Running` off the CPU, so what is proved is that no step makes one
so: `Handed` says of `context_switch` and `schedule` that the thread they dispatch
is the only one they make `Running`, and that the one they take off is not left so. `ExecutorNoOverflow` needs `Enough`: all TCBs of the
core, the idle thread included, fit in the heap. Its argument is a count: the
entries of the heap are of different threads, and the current thread is not
among them. `ExecutorEdfTick` follows from it: the entry a tick dispatches
is the least one, and the thread it puts back has a later deadline.
`TimerExecutor` shows that the scheduler behind the timer interrupt implements
the scheduler alone, so that all of these hold with ticks that may stop coming.

**Endpoint.** All that the endpoint runs check is proved for any finite set of
threads, any endpoints and any deadlines, in a build without debug assertions: `EndpointTypeOK`,
`EndpointScheduledOnce`, `EndpointCallerWaits`, `EndpointQueueHoldsBlocked`,
`EndpointNoPanic`, the action properties `EndpointBadgedExactly` and
`EndpointLoopsEnd`, and the refinement `EndpointFifoOrder`. With debug assertions
the first transfer panics between a dequeue and the change of the state that
goes with it, where most of them fail. `EndpointNoPanic` needs `Enough`, as `ExecutorNoOverflow` does: a full heap is the one way a push can fail.

The argument has three layers. The first is about `TcbQueue` alone, and is in
`ThreadProofs`: `Follow` is a recursive function, and what it reads from a
chain of links without repetition is shown without an induction rule, from the
least depth at which it would go wrong. From there, `append`, `dequeue_head` and
`remove` make of a well-linked sequence `s` the sequences `Append(s, t)`, `Tail(s)`
and `s` without one place, and leave the chains of other queues as they are. The
second is `EndpointInv`, which is inductive. It joins to the types that each
queue is a well-linked list, that these lists are apart and hold exactly the
threads blocked on their endpoint, and that reply links are mutual. While
`cancel_badged_sends` runs the queue is in pieces, and the invariant says which:
the kept threads (`KeptLine`), then those not looked at yet (`RestLine`), and that
nothing kept has the badge. The third is the refinement: every action moves the
lists by one of `Stays`, `Joins` and `Leaves`, which are steps of `FifoEndpoint`.
`LoopAssumption` says that `None`, the value of `op` between calls, is not one of
the records the loops keep there.

**VSpace.** `SpaceTlbCoherent`, `SpaceTablesReachable` and the refinement
`SpaceMapsRegions` hold for any number of tables, entries per table and frame
capabilities of the three sizes. The invariant `SpaceInv` says that tables out
of use are clear (`ClearInv`), that what is in use is met by the walk of some page (`MetInv`) and
of one path only (`OnePath`), so that the tables are a tree, and that every cached
translation is what the tables give. Since a table has one path, an entry is
read by the walks of exactly one region: this is why writing it changes the
translations of that region and of nothing else, and why `flush_page`, which
drops the pieces of one region, is enough. `NoneAssumption` says that `None`, an
unmapped page, is not a translation.

**Mdb.** `MdbAdjacentLinked`, `MdbAcyclic`, `MdbNullIsolated` and
`MdbRevokeExact` hold for any finite set of slots. The inductive invariant `ChainInv` adds
`BackReach`, the ghost order read along `prev`, so that an isolated slot is
known to be out of it, and `RevokeLoop`, the loop invariant of `revoke`: the
cursor is what follows the slot, and what followed it at the call still does or
has been erased.

**Untyped.** `UntypedExclusive`, `UntypedObjectsAligned` and
`UntypedKernelObjectsInRam` hold for any number of slots,
any sizes, and any untypeds at boot that are aligned and apart
(`BootAssumption`). Of powers of two only divisibility is used
(`BytesAssumption`), which keeps exponentiation from the prover. `Exclusive` is
inductive with the types: the objects of a `retype` lie above the free offset and
apart from each other, so that what was apart from the untyped, or below its
offset, is apart from them. `KernelObjectsInRam` is not: a device object may
lie in an untyped that lies in a device untyped. The invariant adds
`DeviceAgrees`, that memory which overlaps has the same flag.

**CSpace.** `CSpaceTypeOK` and `CSpaceResolvesAddress` hold for any CNodes, radixes
and guards, any capability space, cyclic ones included, any address and
depth, and both builds. The reference is recursive (`CapsOn`, `Join`), and the prover cannot
use an induction rule with a predicate for a parameter. The inductions are made
over sets: lemma `Climb` says that a set with the first number of an interval,
and the successor of each number it has, has the interval, and rests on the
least element of what it has not. `Iterate` obtains from it the function a
recursion defines, hence the recursion equations of the reference. Lemma
`FieldInside` is the arithmetic: a field is at its place in the string of bits
iff the shift and the mask cut it out of the number. `ResolvesAddress` is about
lookups that have ended, so it is not inductive; `LookupInv` adds `Walks`, where a
running lookup is: at the end of a path that spells the bits resolved so far, and
from which every path goes on that stands for the address (`Only`). A step then
shows that the next slot of any such path is the one the code computes
(`NextSlot`), in a CNode whose guard the address has. `PowerAssumption` states what
is used of powers of two, up to `CNODE_DEPTH`; TLC evaluates it in the run.

**CapWords.** `CapWordsKeepFields` is the refinement: for all ASIDs below
2^16, addresses, offsets, sizes and guards, the words implement `CapFields`. The
invariant `Packed` says that a word is a sum of fields, each in its range; the
getters read the summands back, and a setter replaces one of them.

`CapWordsTypeOK` follows from the same invariant.

**Boot and OnceLock.** `BootTypeOK` bounds the slots that `init_core` writes and the
calibration index, for any number of cores. `BootGlyphsApart` holds for any screen with room for one glyph
(`ScreenAssumption`) and any interleaving; `WriterInv` of `Console` adds that a
glyph is above the line being written, or on it and to the left.
`BootCalibrationKept` holds for any number of samples and any interval, without
`IntervalsLongEnough`: the invariant `CalibrationInv` says that until `main` writes
`TICKS` back it is as `Tick::new` made it, so that a tick before that faults on
the address 0 and never adds a sample that would be lost.
`BootNoSelfDeadlock` is about time, and holds for any number of cores and samples,
any length of a message and any interval that `IntervalsLongEnough` allows. Its invariant
`BootInv` has a clock, the steps of `main` since the first interval began
(samples taken, times the interval, plus what has elapsed). `ClockInv` bounds it
from above by the place of `main`, with the characters still to be written;
`OwnerInv` says who may hold a lock at which place. An interrupt comes when an
interval has elapsed, so a bound on the clock says where `main` is by then, and
that it holds neither lock there.

The first section of `BootProofs` is about `OnceLock`, in which `main` puts the
schedulers. `OnceRaceFree` and `OnceWrittenOnce` hold for any set of contexts.
The invariant `Discipline` says what each value of `once` allows: one owner while
it is INITIALIZING, none otherwise, and a value once it is INITIALIZED.

Only model-checked:

- Liveness (`UrgentServed`, `RevokeEnds`, `CallsReturn`, `BootEnds`, `LookupEnds`):
  fairness and `ENABLED` are beyond the prover. That the loops of `Endpoint` end is
  proved in the form of `LoopsEnd`, a number that each iteration makes smaller.
- The two findings of section 6 are counterexamples, found by TLC.

## 5. Not modelled

- The system call entry and dispatch: `handler` of `syscall.rs` does nothing for
  one number, refuses the unknown ones and is `unimplemented!()` for the rest,
  and the stub is assembly. There is no state to model until a handler calls
  the endpoint or capability functions.
- Register frames beyond the message registers and the assertions on their index (`trapframe.rs`), `Fault`,
  `identify` and `reply_from_kernel_*`: they write registers that no property
  reads, and have no caller that would.
- `flush_all`, `invalidate_pcid` and `flush_all_non_global` of `tlb.rs`,
  `VMAttributes::kernel` and `device`, `Pml4e::table`: no caller. No PCID is used.
- Device registers (APIC, PIC, PIT, ACPI) and descriptor tables: written at boot
  and read by the hardware. What they do to control is in `Boot`: when a timer
  runs, where its interrupt goes, when it is acknowledged.
- The values of the calibration (counters, mean, the rounding of `f32`): no
  control depends on them. Exceptions other than the page fault of an early tick.
- Colours and glyph bits, error messages, the build script and host runner.
- More than one core: the code starts none but the boot CPU. `OnceLock` alone is
  written for several, and modelled with several.
- A composition of `Mdb` and `Endpoint`: an endpoint capability holds no pointer
  to an endpoint yet, and `revoke` calls nothing of `endpoint.rs`.
- `map_frame` and `unmap` do not call `set_mapped` and `clear_mapped`: `VSpace`
  and `CapWords` are apart as the code is.

## 6. Where the code and its comments disagree

Shown by a run that ends in a violation:

- `endpoint_wakeup`: `send_ipc` makes the receiver `Inactive` before it calls
  `wake`, which accepts blocked threads only and whose error is dropped; the
  receiver is in no queue, where the comment says "Schedule receiver".
- `timer_edf`: the README of the repository promises "a partitioned per-core EDF
  scheduler". `timer_handler` calls `preempt` under the lock of `TICKS` and
  acknowledges the interrupt after it; a `preempt` that switches does not return.
  The first such tick is the last one: the thread that is the most urgent
  afterwards waits until the running one gives up the CPU by itself.

The models keep this behaviour: the properties of section 3 hold of the code as
it is. Met while reading, without a run of their own:

- `Tcb::new` makes a thread `Running`, and `enqueue` and `wake` refuse a thread in
  that state: no method queues a new thread until something else has made it
  `Inactive`, and nothing in the code does. `Prepare` is assumed.
- `set_mr` and `get_mr` have `debug_assert!(idx > 0 ...)` (`trapframe.rs:49`, `58`),
  and `MR1` is 0: in a build with debug assertions the first IPC transfer panics,
  after the thread was taken from its queue. `NoPanic` and the theorems about
  `Endpoint` are about the build without them.
- `cancel_all_ipc` and `cancel_badged_sends` drop the error of `enqueue`
  (`endpoint.rs:397`). Nothing bounds the number of TCBs of a core by the capacity of
  the heap; with more, a cancelled thread may end in no queue.
- `do_ipc_transfer` writes the badge to `MR1` (`endpoint.rs:125`), and the loop
  that copies the registers starts at `MR1` (`endpoint.rs:130`): the receiver gets
  the sender's register, where `tcb.rs:173` says "Capacity badge".
- A server that takes a second call before it answers the first forgets the
  first caller (`endpoint.rs:313`), which stays `BlockedOnReply`; cancelling that
  one clears the link to the second (`endpoint.rs:363`).
- `retype` passes `guard_bits = 64 - radix` to `CNodeCap::mint`
  (`untyped.rs:141`), which asserts that both add up to at most 32: making a
  CNode of any radix but 0 stops the kernel.
- `write_pixel` sets a known format before it panics, "to avoid a double panic"
  (`framebuffer.rs:150`), but panics under the lock that the panic handler then
  tries to take (`main.rs:98`): it panics again, for ever. The `boot` run reaches
  this. A panic before the console is set has no logger to show it.
- The samples of the calibration are added in 32 bits (`tick.rs:105`): where the
  sum does not fit, a debug build panics in the handler (`SumPanics`).
- The boot relies on time: a PIT interval shorter than the boot makes the handler
  wait for the lock of a message of `main` (`tick.rs:110`), or find no scheduler
  (`tick.rs:59`). The comment at `tick.rs:82` says 10 ms, the field 50 ms.
- `get_mut` of `PerCore` indexes by APIC id the slots that are filled by count
  (`percore.rs:43`, `percore.rs:63`): with ids that are not dense a slot is used
  that was never written.
- `executor.rs:34` says that interrupts are disabled; `main` calls `run` with
  interrupts enabled.
- A CNode that `retype` makes with radix 0 has no guard bits either, against
  `debug_assert!(level_bits != 0)` in `cspace.rs:101`; without the assertion a lookup
  that meets a cycle of such CNodes does not end, which is what `LookupEnds` allows.
- The ASID of a VSpace (`untyped.rs:178`) is the same for pages 0 and 1, and
  for pages 2^16 apart.
- `yield_current` pushes before it pops, so that 64 threads beside the idle
  thread overflow a heap of 64; `NoOverflow` counts the idle thread.
- A thread that blocks in `send_ipc` stays current, and `preempt` replaces it
  only by an earlier deadline until somebody calls the scheduler.
- With `panic = "abort"` the guard of `OnceLock::get_or_init` is never dropped,
  and the cell stays INITIALIZING after a panic (`sync.rs:49`).
- `deadline_of` accepts a thread without a scheduling context, which
  `tcb.rs:85` keeps out of the queues.
