# TLA+ models of riscvbarelib

riscvbarelib is a small bare-metal C library for RISC-V platforms with several
cores: boot code, a thread library that dispatches worker functions to other
cores, locks, a few data structures, trap handlers, drivers and newlib stubs.
It runs without an operating system and without a scheduler: each core executes
one function at a time, and all the coordination is polling, atomic memory
operations (AMOs) and software interrupts between cores.

This directory holds TLA+ specifications of that code, TLC configurations that
check them on small instances, and TLAPS proofs for every instance. Line numbers
below are those of the repository; `PROJECT.json` maps each definition to the
lines it models.

## 1. The system

| component | state | operations | interaction | what is hard | what makes it correct |
|---|---|---|---|---|---|
| thread functions, `common/threads.c` | `thread_t` of the application | `thread_create`, `thread_destroy`, `thread_join`, `thread_id` | write `cpu_list[]`, send the software interrupt, poll the state of the target | two cores handshake through one word while waits expire; interrupts outlive the call that sent them | a worker runs with the arguments of one call, an end is reported only after it happened |
| core descriptions, `common/mp.c`, `mp.h` | `cpu_list[]`, `cpu_hid2sid[]`, `cpu_sid2hid[]` | AMO getters and setters, `mp_get_free_cpu` | shared by every core | the state word is written by both sides | it agrees with what the core does |
| start routines, `bsp/shared/bsp_start.c`, `crt0.S` | stack pointer, `.bss` | primary and secondary start, wait for an interrupt | fill `cpu_list[]`, run the worker | boot order; a core that wakes up late | no core starts before its description is valid |
| CLINT, `drivers/clint` | msip, mtime, mtimecmp | init, send, receive and clear, timers | memory-mapped, shared | one pending bit, read and cleared in two accesses | an interrupt starts what its sender meant |
| locks, `ticket_mutex.c`, `spin_mutex.c` | `curr`, `next`; `lock` | init, lock, trylock, unlock | AMOs | counters wrap; waiting is polling | exclusion, order of service, no starvation (ticket) or progress (spin) |
| FIFO buffer and lists, `fifobuf.c`, `list.h` | a circular doubly linked list, a ticket mutex | init, push, pop, is_empty; list links | shared by producers and consumers | relinking, stale cached links | each node comes out once, in order |
| traps, `trap_entry.S`, `trap_handler.c` | handler tables per core, trap frame, CSRs | setters, dispatch on mcause, save, restore, epc += 4 | call back into the application, panic into `exit()` | handlers that enable interrupts: traps nest, also inside the restoring code | the interrupted code gets all its context back; a panic is reported |
| boot, `crt0.S`, `bsp_init.c`, `bsp_start.c` | the stack word, `.bss`, ID tables, `cpu_list[]` | stacks, clear, fill, `main()`, `_exit()` | all cores start at once; the boot core fills what the others read | the order of its stores, and of the starts | stacks are disjoint, a woken core reads a complete description, `main()` is reported |
| system calls, `syscall.c` | heap pointer | `_sbrk`, `_write`, `_read`, `_exit`, stubs | called by newlib on every core | several cores share the console; only core 0 reports an exit | output is whole; what is reported is true |
| UART, `uart16550` | a transmit FIFO | init, putchar, getchar | shared by all cores, no lock | the FIFO is full, others keep it busy | no character is lost, calls return |
| `bitset.c`, `mem.c` | a bit vector; memory | set, reset, flip, test, all, any, none, count; memset, memcpy | none | word boundaries, tails, sign | equal to the set, or the byte range, that they stand for |
| counters, `cpu.h`, `bsp_perf.h` | 64-bit counters in two halves | read and set | the hardware counts on | a carry between the two accesses | the value is one the counter had |
| caches, `cache.h`, `bsp_cache.h`, `bsp_cmo.h` | the lines of two caches | invalidate, prefetch, flush, zero | stores of other cores pass by | ranges that start and end inside a line | no stale byte after an invalidation |
| PLIC | enable bits, levels, claims | one access each, read-modify-write of enable bits | shared by cores and handlers | unlocked read-modify-write | an update does not undo another |
| CLINT timer | mtime, compare registers | init, period, compare | the time goes on | 64-bit registers in a 32-bit build | the timer fires at its period |
| prefetcher, `bsp_hwpf_dcache.h` | control registers of 4 engines | set and get, abort | none | fields stored minus one, register numbers by arithmetic | what is read back is what was set |
| performance monitor, `pmu.c` | a table of operations | init, the operations | filled by the BSP | an initialization that fails half way | no call follows an unset pointer |
| vendored `ut*.h`, build files, `bin2mem.py` | - | - | - | - | not modelled: third-party code, build steps |

The hazards of this code, each at its line and with the properties that cover
it, are the list `hazards` of `PROJECT.json`.

## 2. Modules

| module | role |
|---|---|
| `Mutex` | abstract: a mutex with waiting cores and at most one holder |
| `SpinMutex` | `spin_mutex.c`; implements `Mutex` |
| `SpinMutexProofs` | its invariant and the refinement, proved |
| `FifoLock` | abstract: a mutex that serves a queue in order |
| `TicketMutex` | `ticket_mutex.c`; implements `FifoLock` |
| `TicketMutexProofs` | its invariant, exclusion and the refinement, proved |
| `Deque` | abstract: a sequence of distinct nodes with both ends |
| `List` | `list.h`; implements `Deque` |
| `ListProofs` | the invariant of the links, the walks and the refinement, proved |
| `NodeQueue` | abstract: a queue with atomic push, pop and test |
| `FifoBuf` | `fifobuf.c` with the operations of `list.h` it uses, on non-coherent caches; composed with `FifoLock`; implements `NodeQueue` |
| `FifoBufProofs` | its invariant, the links, the data and the refinement, proved |
| `ThreadPool` | abstract: cores that execute jobs, and what a director learns |
| `Threads` | `threads.c`, `mp.c`, the secondary start routine, the software interrupt of the CLINT; implements `ThreadPool` |
| `ThreadsProofs` | the types and the inductive invariant of `Threads` and what follows from it, proved |
| `Trap` | `trap_entry.S`, `trap_handler.c`, the exit path of `syscall.c`, on one hart |
| `TrapProofs` | its invariant, transparency and the report, proved |
| `Boot` | `crt0.S`, `bsp_start.c`, `bsp_init.c`, from reset to the report of `main()` |
| `BootProofs` | the stacks and the publication of the descriptions, proved |
| `BitSet`, `Mem` | `bitset.c`, `mem.c` |
| `Counter` | the 64-bit counters of `cpu.h` and `bsp_perf.h` |
| `Plic` | the PLIC driver |
| `Console` | `_write()` over the UART driver |
| `Cache` | `cache.h`, `bsp_cache.h`, `bsp_cmo.h` |
| `Hwpf` | `bsp_hwpf_dcache.h` |
| `Timer` | the timer of the CLINT driver |
| `Pmu` | `pmu.c`, `pmu.h` |
| `Services` | the nine modules `BitSet` to `Pmu` side by side, one of them at work in each behaviour |
| `ServicesProofs` | the invariant of each of the nine, and that `Services` composes them, proved |

The modules that are checked need no separate instance module: their constants
get values in the `.cfg` files, as model values.

### Threads

One step is one access to shared state. Per core `c`, `state`, `ipi_kind`,
`entry_func`, `args` and `thread` are the fields of `cpu_list[c]`, `msip` is its
software interrupt, `pc` is its place in the secondary start routine, and
`run_func`, `run_args` are what it loaded and calls. Per director `d` (a core
that calls the library), `dpc` is its place in the call, `op` the function,
`thr` the `thread_t`, `tgt` the target core, `ret` the value returned. Per
thread, `cpu_id` and `desc` are the fields of its `thread_t`. `live` and
`outcome` are no state of the code: they record which threads the application
created and has not seen the end of, and how the last run of each one ended.

| code | actions |
|---|---|
| `thread_create()` 29-34, `mp_get_free_cpu()` | `CreateOn`, `CreateAnywhere`, `Scan` |
| 45, 48-51, 54-57 | `Check`, `Write`, `Commit`, `SendIpi` |
| 60-70, 73-76, 79-80 | `Poll`, `Fill`, `Declare` |
| `thread_destroy()` 83-106 | `Destroy`, `DestroyIdle`, `DestroyError`, `Kill`, `Commit`, `SendIpi`, `JoinPoll` |
| `thread_join()` 109-119 | `Join`, `JoinPoll` |
| `bsp_start_wait_for_ipi()`, `clint_recv_ipi()` | `Wake`, `RecvIpi`, `AckIpi` |
| `bsp_secondary_start()` 170-204 | `ReadKind`, `SetAwake`, `SeeRunning`, `LoadFunc`, `LoadArgs`, `Succeed`, `Fail` |

Abstractions, and why they are sound:

- *Plain stores and the fence.* The description is written by plain stores
  (`Write`, `Kill`); each becomes visible by itself (`Commit`), in any order, and
  `SendIpi` waits for all of them, which is what `cpu_dfence()` orders. The state
  word and the reads of the secondary core are AMOs: one step each.
- *Timeouts.* A wait is 10000 polls with delays. How many polls fit between two
  steps of another core is not known, so with `TIMEOUTS` any poll may be the last
  one. With `TIMEOUTS = FALSE` a wait never expires: the platform is fast.
- *A poll that changes nothing* is a stuttering step and is no action.
- *A function and its argument* are named by the `thread_t` of the call, so a mix
  of two calls is visible.
- *Identifiers.* hid and sid are equal, as `bsp_init.c:95-99` sets them. `cpu_id`
  is a pointer whose NULL means any core, so core 0 cannot be named, and a
  `thread_t` starts with a secondary core or NULL.
- *The application* makes the calls that a director may make: it creates a
  `thread_t` that is not live, joins or destroys a live one, uses a `thread_t` in
  one call at a time, and never resets `cpu_id` between two uses. It may make a
  call again after -2. A core calls the library only while it runs application
  code, so core 0, or a secondary core inside a worker.
- *Coherent memory.* The cache invalidations have no effect in this model.
- *The initial state* is one that `Boot` reaches: `WokenSeesItsDescription` says
  that a core that wakes up finds its own identifier and description there.

### The locks

Every access is an AMO on one word, hence one step; `ticket_mutex_trylock()`
is `ticket_mutex_lock()` and has no action of its own. The counters of the ticket
mutex are kept modulo `TICKETS`, which stands for 2^32; `Cardinality(Cores) <=
TICKETS` is the assumption under which tickets are distinct. Cores unlock only
what they locked: the library leaves that to the application.

### Lists and the FIFO buffer

In `List` each operation of `list.h` is one step on the links `prev` and `next`;
`linked` and `removed` record what the user of the list did. Removing from an
empty list, and removing a node twice, are legal and are actions too. The walks
(`list_for_each`, `list_for_each_prev`, `list_for_each_continue`) and the questions
for single elements are operators on the links, compared in every state.

`FifoBuf` takes the operations apart. A call asks for the lock (`Push`, `Pop`,
`IsEmpty`), gets it (`Enter`), reads links (`First`, `LinkLast`, `Unlink`, `Test`),
and its stores reach memory one by one in any order (`Commit`) until the fence
and the release (`Unlock`). The lock is the specification `FifoLock`, which
`TicketMutex` implements. Caches are write-through and not coherent: `stale[c]`
holds the elements another core stored to since core `c` last invalidated them,
and a load from one of them may yield any pointer. Two elements never share a
cache line, which the application has to see to. `items` is no state of the code:
it is the queue as the calls that ended left it.

### Traps

One hart, one step per CSR or memory access that matters. `pc` is a piece of
code and an offset in half words: application, the handler of a slot, or a line
of the trap code. `gpr` stands for all the registers of the frame; `frames` are
the trap frames on the stack. `trapped`, `asked` and `panicked` are no state of
the code: what each trap under way interrupted, the status passed to `exit()`,
and whether a trap found no handler.

| code | actions |
|---|---|
| `CPU_CONTEXT_SAVE` | `TakeInterrupt`, `TakeException` (hardware), `Save` |
| `trap_handler()`, `__irq_handler()`, `__exc_handler()` | `CallHandler`, `Panic`, `Return`, `Skip` |
| `set_irq_*_handler()`, `set_exc_*_handler()` | `SetHandler`, by this hart or another one, at any time |
| `CPU_CONTEXT_RESTORE`, `mret` | `RestoreCause`, `RestoreStatus`, `RestoreEpc`, `RestoreGprs`, `Mret` |
| `exit()`, `_exit()`, `bsp_tohost_exit()` | `Exit`, `TestThread`, `CallbackReturns`, `Report` |

An interrupt may be taken at every step at which MIE is set: in the application,
in a handler that enables it, during the exit (a panic included, whose handler
runs with what the trap left), and in the two restoring instructions before
mstatus is written. Instructions have 2 or 4 bytes. The trap code takes no
exception: its code and its stack are valid memory.

### Boot

All harts run from `reset`. The boot hart has plain stores in flight (`pending`)
that become visible in any order (`Drain`); a fence, and the AMO of
`cpu_set_state()`, wait for them. `memory` starts with junk in `.bss`.

| code | actions |
|---|---|
| `_start`, `crt0.S` | `DrawStack` |
| `bsp_primary_start()`, `bsp_mp_init()` | `ClearBss`, `ClearIds`, `FillIds`, `SetIdle`, `CheckBootHart`, `Describe`, `EnterMain`, `AllocationFails` |
| `main()` of the application: `clint_send_ipi()`, its return | `SendIpi`, `IpiSent`, `MainReturns` |
| `_exit()`, `thread_id()` | `Exit`; when the thread pointer is junk, or the `thread_t` of `main()` could not be allocated, the report may or may not happen |
| `bsp_start_wait_for_ipi()`, `bsp_secondary_start()` | `WakeUp`, `RecvIpi` |

### The services

Each is a sequential or nearly sequential driver, in a module of its own with
its own `Init` and `Next`; they share no variable and no code, so `Services`
composes them by choosing one subject per behaviour.

- `BitSet`: a word is the set of the positions of its ones; `members` is the set
  the calls describe. Elements past the end and negative ones are among the
  arguments; `stray` records that a negative one was named, which shifts by 64 or
  more: whatever one bit of the first word then becomes is a choice. What precedes
  the table is no part of the model.
- `Mem`: one store per step, for every size and alignment class; afterwards the
  extent written and read is compared with the arguments.
- `Counter`: one action per function, of 32-bit and of 64-bit cores; in the former
  two accesses with the counter advancing in between by any of `GAPS` (`ReadLo`,
  `ReadHi`, `WriteLo`, `WriteHi`); `begun` is its value at the first one.
- `Plic`: a register is its offset, so two that coincide would show; the update
  of an enable bit is a read and a write, and `overlap` records that another
  write of the register came between them.
- `Console`: several cores print, each writes the transmit register and waits for
  the FIFO; a character written to a full FIFO is lost. `due` is what is still to
  come out of each call.
- `Cache`: a byte of memory is the number of times it was written; lines are
  loaded and evicted at any time, and the range loop is interleaved with that.
- `Hwpf`: a register is the tuple of its fields; `wanted` is what was last set.
- `Timer`: `mtime` and the words of the compare registers, for both widths. In a
  32-bit build `clint_init()` leaves the high words of all of them as they were at
  reset, so the time may start at any multiple of `WORD`.
- `Pmu`: the pointers, and a BSP initialization that may set any of them and fail.

## 3. Runs

| run | instance | result |
|---|---|---|
| `ticket` | 4 cores, 4 ticket values | `MutualExclusion`, `IInv`, `ImplementsFifoLock`, `StarvationFree` hold |
| `spin` | 5 cores | `IInv`, `ImplementsMutex`, `WaitersEnter` hold |
| `list` | 4 nodes | `IInv`, `WalksAgree`, `ImplementsDeque` hold |
| `fifobuf` | 2 cores, 2 nodes | `LinksAreItems`, `DataIsFresh`, `ImplementsQueue`, `CallsReturn` hold |
| `threads_all` | 3 cores, 1 director, 2 threads, all calls, waits may expire | `CoreStateAgrees`, `IInv`, `DispatchConsistent`, `EndIsReal`, `ImplementsThreadPool` hold |
| `threads_prompt` | 3 cores, 1 director, 2 threads, create and join, no wait expires | `HandshakeHasDirector`, `CreateSucceeds`, `CallsReturn`, `CreatedThreadsEnd` hold |
| `threads_destroy` | 2 cores, 1 thread, no wait expires | `DestroyedCoreIsIdle` is violated |
| `threads_late` | 2 cores, 1 thread, waits may expire | `AwakeIsDeclared` is violated |
| `threads_two_directors` | 3 cores, 2 directors, 3 threads, create | `ThreadIsExecuted` is violated |
| `trap` | hart 0 or 1, 1 interrupt, 2 exceptions, 2 frames | `IInv`, `Resumes`, `ReportIsHonest`, `PanicIsReported` hold |
| `boot` | 3 harts, boot hart 0 or 1 | `StacksDisjoint`, `WokenSeesItsDescription`, `MainIsReported` hold |
| `services` | below | `BitSetIsSet`, `MemExtents`, `CounterIsExact`, `EnableIsLocal`, `LinesAreWhole`, `SomeWriteReturns`, `RangeIsFresh`, `HwpfReadsBack`, `TimerIsExact`, `PmuIsWhole` hold |

*Bounds.* In `ticket` there are as many ticket values as cores, the tightest
case the assumption allows: the counters wrap, and all the values are in use at
once. In `threads_all` two threads and two secondary cores are enough for a
thread to use a core another one had, for a call to meet the interrupt of an
earlier call, and for the second core to serve while the first is lost. No
counter is unbounded, so no state constraint is needed. No run disables the
deadlock check.

In `list` four nodes allow a removed node whose former neighbours are not
neighbours of each other. In `fifobuf` one core relinks what the other one holds
copies of, and two nodes tell a queue from a stack; the larger instance of 2
cores and 3 nodes (808715 states) passes too, and is left out for its time.

In `trap` two frames (`MaxDepth`) make one trap nest in the handler or the
restoring code of another; a third would nest in the second as the second does
in the first, and the theorems hold for any depth. The page fault is a cause
without a handler slot, the load fault one with a slot; offsets up to `MaxOff` =
2 allow one instruction of each length. In `boot` three harts let two of them draw
stacks between two steps of the boot hart, which is hart 0 (the start succeeds)
or another one (it fails). One value stands for all statuses of
`main()`, and it is not `EXIT_FAILURE`: the code hands it on without a look.

In `services`: sets of up to 7 elements in words of 3 bits (0, 1 and 2 multiples of the
word size, full and partial last words), with a negative argument for every bit of
the first word and one before it; `memset` with every kind of alignment
and sizes around a word, a block of four words and two blocks, on 8-byte words;
counters of two halves of 8 values with advances 0, 1, 2 and 7; the last two
groups of PLIC sources on two harts and two callers (their levels are written
with one value: which register is hit matters, not what it then holds); two
cores that print lines of up to 3 characters over a FIFO of 2 places, the
smallest that holds one character of each; two cache lines of two bytes, each
written once, with every start and length of a range; three engine numbers, one
of them out of range, with the largest and smallest value of each field; a timer
of two harts whose words wrap during a run; all six operations of the monitor.

*What the properties concede.* Some of them hold only in the form that the code
supports, and say so:

- The operations of a bit set do not refuse a negative element (bitset.c:32, 42, 52,
  62 compare it with the size only): the first word then says nothing until the
  next `bitset_init()`; the elements of the other words are still right.
- `bitset_all()` may answer no for a full set whose size is a multiple of the word
  size: it shifts by the word size, which is undefined (bitset.c:74). It never
  answers yes for a set that is not full. This contradicts bitset.h:69-71 ("Return 1
  if it is true"); `BitSetIsSet` states which sizes are concerned, in both directions.
- `memset()` fills the upper half of a word with 0xff for a byte with its top bit
  set, as the word is built in an int (mem.c:41). `memcpy()` moves a word for each
  byte of its tail, so it writes past the end when the size is not a multiple of
  the block (mem.c:104).
- A counter read in two halves is exact if the counter advances by one between
  the two accesses; a trap in between, or an event counter that stands still,
  makes it off by 2^32 (cpu.h:188), for exactly the values that `CounterReads` names.
- An enable bit of the PLIC may be undone by an update of another source of the
  same group that overlaps it (plic.h:123).
- In a 32-bit build the driver sets the low words of the time and of the compare
  register only: the timer is exact while the high word is already right, and it
  may fire right after `clint_init()` (clint.c:87).
- If the boot hart is not logical core 0, `bsp_primary_start()` fails and calls
  `exit()` before the thread pointer is set, and the failure may not be reported
  (bsp_start.c:96). Nor may that of `malloc()` for the `thread_t` of `main()`
  (bsp_start.c:125): `_exit()` asks that `thread_t` for the identifier of its
  thread. A panic of a secondary core is not reported either, it only stops.

*What the violations show.* Three statements of the sources do not hold.

1. `thread_destroy()` (threads.c:105, "Wait for the target core to be IDLE") may
   return 0 and leave a core that then goes to ERROR. It decides to kill, the
   worker ends by itself, the core is IDLE and `thread_join()` returns 0; the KILL
   interrupt then reaches an idle core, and `bsp_start.c:170` stops it for good.
2. A core that wakes up after `thread_create()` returned -2 stays AWAKE
   (bsp_start.c:183, "Wait for the director thread to declare this thread as
   running") and is lost to every later call.
3. With two directors the check of threads.c:45 and the stores that follow it
   are not atomic: both calls take the same core, and `cpu->thread` (mp.h:62,
   "Pointer to currently executed thread") is the thread of the other call.

The safety properties of `threads_all` therefore assume one director (`Directors
= {0}`), which is how the comments of the library speak of it; the first two
situations occur in that run, and the properties hold in spite of them.

*Fairness.* A core that has a step to take inside the library takes it (weak
fairness of `Director(d)`, `Startup(c)`: each core runs its own loop, nothing
preempts it), and a worker function that runs returns (`Worker(c)`), an
assumption on the application that `thread_join()` makes too. Critical sections
end, and a core that polls a lock polls again. In `Trap` the hart executes the
library's code and a handler or a callback that runs returns (`WF(Library)`), and
the exit gets on although interrupts keep arriving (`SF(Leaving)`: each of them
ends or panics in its turn, and the stack bounds their nesting). In `Boot` harts
run and stores drain; `main()` may run for ever. In `Console` the device sends and a core polls (weak
fairness). Nothing obliges the application to make a call. A core that polls for
something that comes and goes, the word of the spin mutex or the empty FIFO of the
UART, may miss it each time, and weak fairness promises it nothing. So neither
module claims that a given core gets on. `WaitersEnter` says that the waiting cores
get the spin mutex again and again if no `trylock()` takes it from them for ever,
and `SomeWriteReturns` that some call of `_write()` ends, again and again, as long
as there are any.

Each property of a passing run has a mutant in `PROJECT.json`: a plausible bug
in one definition (a dropped fence, a missing check, a counter that does not
wrap) for which TLC finds the property violated. The mutated forms stand next
to the definitions they replace and occur in no specification.

## 4. Proofs

Every safety invariant, action property and refinement that a passing run checks is
a theorem, for every value of the constants that the named assumptions allow
(`TicketsAssumption`, `ThreadsAssumption`, ...) and under the further hypotheses
that are spelled out below.

- **Ticket mutex.** Exclusion is not inductive. `TicketsInUse` is the
  strengthening: the tickets of the cores that asked and have not released are
  consecutive values from `curr` on, modulo the wrap, each held once, and `next`
  is the one after the last. With `HolderIsServed`, two cores inside would hold
  the same ticket (`TicketInvariant`, `TicketMutualExclusion`). For `TicketIsFifo`
  the queue of `FifoLock` is the cores in the order of their distance from `curr`:
  a request appends, as `next` is the largest distance; the release of the
  served core takes away the smallest, and every other one falls by one.
- **Spin mutex.** `LockedIffHeld` ties the word to its owner (`SpinInvariant`);
  each exchange is then a grant or a stutter of `Mutex`
  (`SpinImplementsMutex`).
- **Lists.** `LinksMatch` is inductive with the types. Both additions are one
  insertion between two neighbours and the three removals are one unlinking, so
  two lemmas carry the proof (`ListInvariant`). That is not enough for the walks:
  links that match could form two circles. The second invariant, `Ordered`, says
  that some sequence of the linked nodes, without repetition, is what the links
  go through (`Holds(s)`); an addition puts its node at an end of it, a removal
  takes one out. A walk along a ring meets its elements: for that the first place
  where the walk and the ring differ is taken, which exists because the natural
  numbers are well-founded, and shown to be impossible. So `list_for_each` is
  the sequence itself, `list_for_each_prev` its reverse (`ListWalks`), and each
  operation acts on it as on a deque (`ListIsDeque`).
- **FIFO buffer.** `IInv` is proved for any cores and nodes (`FifoBufInvariant`). While a core holds the lock its stores are on
  their way, so the links are none of any list; `Pushing` and `Popping` say for each
  link that has to change that it has the new value or that its store is in
  flight, and that all the other links are those of the items already. With them
  go the ownership of nodes (`NodesAreApart`), the place of each call
  (`CallsAreWhole`), one holder (`HolderIsAlone`), and the freshness of the popped
  node (`PoppedIsFresh`), which holds as `list_del()` invalidates it and no other core
  stores to it afterwards. `FifoBufLinks` and `FifoBufData` follow, and
  `FifoBufIsQueue`: the release of the lock by a push or a pop, and the
  read of the head by a test, are the operations of the queue; every other step is
  a stutter.
- **Threads, typing.** `ThreadsType` holds for any directors, one lemma per
  action. It needs `ThreadsKnown`, without which `desc` of a thread to join could
  be NULL.
- **Threads, one director.** `IInv` is the inductive invariant. It has to say why
  a core that wakes up by itself does no harm to the call under way:
  `TargetReserved` (from the check to the declaration the target does not run,
  and is AWAKE once the poll saw it), `ArgumentsWritten` (the arguments that have
  been committed stay), `RunningConsistent` (what RUNNING implies for the
  description and the thread), `OutcomeKnown` (what the state of its core says of
  a thread), `CallAgrees` and `CoreZeroRuns`. Each action has a lemma that takes
  the conjuncts it can disturb one by one. From `IInv` follow `CoreStateCorrect`,
  `DispatchCorrect`, `EndCorrect` (an action property), and
  `ThreadsImplementPool`: declaring is `Dispatch`, the end of a worker `Succeed` or
  `Fail`, an idle core that stops `Break`, a call that learns of an end `Collect`;
  every other step is a stutter. "One director" is the hypothesis
  `\A d, e \in Directors : e = d`.
- **Threads, the prompt handshake.** `HandshakeCorrect` adds the hypotheses of the run
  `threads_prompt`: no wait expires (`~TIMEOUTS`) and no thread is destroyed. They
  are needed: the runs `threads_late` and `threads_destroy` show what happens
  without them. `PromptInv` follows the interrupt: no core but the target of the
  call under way has one, is waking up or is AWAKE (`Quiet`), and the target is at
  one of the places between its interrupt and its declaration (`Answers`).
- **Traps.** `IInv` says where the context of each trap under way is: in the hart at
  the entry and before `mret`, in its frame in between, with `epc` advanced exactly
  if an exception's handler has returned; and that MIE is clear wherever a trap
  would overwrite it (`MaskedWhenFragile`), at the innermost level and at all the
  interrupted ones. `Place(i)` names the code at level `i`, so a step within a level
  leaves all the others alone (`MoveInv`), and only `TakeTrap` and `Mret` change the
  number of levels. `Resumes` follows at `Mret` (`TrapResumes`). For the report,
  `StatusKept` adds what the status register of each level that called `exit()`
  holds, and `PanicStays` that a level that panicked is never left
  (`TrapReports`). Neither the depth nor the length of code is bounded in the proofs:
  `TrapAssumption` only says that causes are those of the dispatch.
- **Boot.** `StackInv`: the word that stacks are drawn from counts the harts that have
  drawn, each stack ends at least one size below it, and any two are one size
  apart (`BootStacksDisjoint`, for any number of harts and size of a stack).
  `StartInv` follows what the boot hart has stored, as it would read it itself,
  through the tables and the descriptions; at the fence that is what memory holds,
  and before `main()` no hart is sent an interrupt (`BootPublishes`). Only logical
  core 0 gets that far, so the boot hart describes itself at the right place.
- **Services**, each with an inductive invariant in `ServicesProofs` and for any
  values of its constants:
  `RegistersDisjoint` is the arithmetic of the PLIC's offsets: all five kinds of
  registers against each other and each against itself, for the 15872 harts and
  1023 sources of plic.h:26-69. `PlicInv` says
  that what an update has read is current unless another write overlapped it
  (`PlicIsLocal`). `PmuInv` tells which operations are the BSP's (`PmuCorrect`).
  `HwpfCorrect` rests on the distinct numbers of the registers, `TimerCorrect` on
  what the words of a compare register hold before, during and after a setting.
  `CounterCorrect` relates the halves to the counter between the two accesses,
  `CacheCorrect` says which bytes of a range are fresh already while its loop runs.
  `BitSetInv` ties each bit of the table to an element, except in the first word after
  a negative one was named, so the bits past the end are 0 (`BitSetCorrect`). For memory, the loops of bytes, words and blocks keep track of
  what has been written and what is left (`MemCorrect`). `ConsoleCorrect` assumes
  that no more cores print than the FIFO has places: each core has one character in it
  at most, but with more cores all of them may see it empty and one is lost.
  `ServicesCompose` carries these results over to `Services`, whose behaviours the
  run explores: they satisfy the specification of each service.

*Only model-checked* is liveness, which the provers do not reach here:
`StarvationFree`, `WaitersEnter`, `CallsReturn` (of `FifoBuf` and of `Threads`),
`CreateSucceeds`, `CreatedThreadsEnd`, `PanicIsReported`, `MainIsReported` and
`SomeWriteReturns`. The refinements are proved and checked for the safety part of the
abstract specifications, which is all that these state.

## 5. Plan

In this order; what is done is marked.

1. (done) `TicketMutex`, `SpinMutex` with `FifoLock`, `Mutex`: the primitives the
   rest is built on.
2. (done) `Threads` with `ThreadPool`: the core of the library.
3. (done) `List` with `Deque`, and `FifoBuf` with `NodeQueue`, composed with
   `FifoLock`.
4. (done) `Trap`.
5. (done) `Boot`.
6. (done) `BitSet`, `Mem`, `Counter`, `Plic`, `Console`, `Cache`, `Hwpf`, `Timer`,
   `Pmu`, together in `Services`.
7. (done) A theorem for every safety invariant, action property and refinement
   that a passing run checks.
8. Left: `Threads` on caches that are not coherent (what a director reads of `ret`
   after `thread_join()`); the thread handshake for several directors that never
   name the same core; `TicketMutex` for fewer ticket values than cores, where it
   must fail.

## 6. Not modelled

- The vendored `ut*.h` headers: third-party code, included unchanged.
- The build files, linker scripts and `bin2mem.py`: no behaviour of the running
  system. Of the linker script, `Boot` uses the size of the stack area.
- I/O accessors, compiler attributes and configuration headers: single accesses
  and constants. The functions of `cpu.h` that are one instruction each and
  keep no state (fences, `wfi`, reads of identifiers).
- The UART divisor that its init writes, `getchar` and `_read()`, one read of a
  register; the newlib stubs that return a constant.
- `_sbrk()`: newlib calls it under its own lock, which is not in the repository,
  and it has no bound that could be exceeded in the code; both hazards are listed.
- The busy and free fields of the prefetcher, which only the hardware writes.
- The floating-point registers, which the trap frame does not have.
- Identifiers of cores that do not exist: `cpu_get_desc()` (mp.h:109) lets the number
  of cores itself pass, so `thread_create()` would use a description past the end
  of the table where its comment (threads.c:35) expects a failure.
- Output formats, and the text printed by a panic.

Remarks on code that is not compiled as it stands, and is modelled by what it
does where its text is plain: the prefetcher header uses types that no header
defines; `list_entry_is_head` (list.h:260) has an unbalanced brace; the line loop
of `cpu_icache_invalidate_range()` (cache.h:117) uses a variable that is not
declared, under a configuration that no BSP selects; `pmu.c` is in no object list
and its `bsp_pmu.h` is missing; `bsp_perf.h` reads 64-bit counters with one access
on 32-bit cores too.
