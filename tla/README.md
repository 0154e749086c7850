# A TLA+ model of the BitVisor core

BitVisor is a thin hypervisor: it runs one guest, passes most hardware through
to it, and intercepts the devices it wants to encrypt, monitor or share. This
directory models the part of it that everything else stands on, the kernel of
the VMM (`core/`) with its cooperative threads, timers, clocks, page allocator,
memory pools, protection domain processes, locks and debug shell channel, and
two parts that carry the guest's own traffic: the hooks on guest-physical
addresses and the queues of the NVMe driver. It holds TLA+ modules translated
from the C source, TLC configurations that check them on small instances, and
TLAPS proofs of the main results about the scheduler, the timers, the clocks, the
page allocator, the processes, the memory hooks, the NVMe queues and the locks for
every instance.

## 1. Inventory

| Part | Source | State it keeps | Operations | What is hard about it |
|---|---|---|---|---|
| Thread scheduler | `core/thread.c`, `core/x86/thread.c` | thread table `td[]`, free list, run queue, `thread_lock`, `old_stack`, `thread_cpu0only`, `thread_cpu`; per processor the current tid, stack and pid | create, schedule, stop, wake, exit, pin to processor 0 | several processors; a stack is in use after the table says it is not; wake-up in two critical sections; exit must not return |
| Lists | `include/core/list.h` | link fields in the elements | push, add, delete, insert, pop | no check that an element is in one list only |
| Timers | `core/timer.c` | three lists, `timer_lock`, per timer enable, set time, interval, callback | new, set, free; the timer thread | callback after unlock; unsigned time arithmetic; sorted list whose head alone is looked at |
| Page allocator | `core/mm.c:59-444, 759-790` | a type and size per page, a free list per size | allocate pages, free, release reserved pages | splitting and merging; joined blocks of two sizes; order of the free lists |
| Memory pools | `core/mm.c:804-947` | blocks, pieces in use, free pieces, count of kept blocks | new, allocate, free | splitting and merging pieces |
| Small objects | `core/mm.c:446-757` | bitmaps inside pages | alloc, free, realloc | bitmap arithmetic |
| Processes, messages | `core/process.c`, `core/msg.c` | process table with generation, thread count, exit flag and limit; descriptors; registry of names | system calls, calls into processes, creation, exit | reuse of pids; descriptor read and called in two critical sections; exit while others are inside |
| Locks | `include/core/x86/spinlock.h` | lock words | plain, reader-writer and ticket lock | lock-free code, counters that wrap |
| Time | `core/x86/time.c`, `core/acpi.c` | last time given out, per processor a counter value and an offset; the extended ACPI timer | get time, start, sleep and wake | clocks that differ between processors, compare and exchange that fails, counters that restart |
| Debug shell channel | `core/vmmcall_dbgsh.c` | two mailboxes, the thread to wake | send and wait, answer | waiting and answering race |
| Hooks on guest memory | `core/x86/mmio.c` | one list of handles, a sorted list per bucket, lock, a flag for handles to be swept | lock, access, register, unregister, sweep | a handler may unregister itself or others; unlocked handlers; deferred frees; ranges over bucket boundaries |
| NVMe driver | `drivers/nvme/` | shadow rings, request slots, counts of unacknowledged answers | submission and completion doorbells, interrupt, requests of the VMM | guest and VMM share a ring with other identifiers and phases; rings that are full |
| Start-up, panic | `core/x86/ap.c`, `core/panic.c` | rendezvous counters, the panicking processor | start processors, stop them | all processors at once |
| Virtualization core | `core/x86/vt_*.c`, `svm_*.c`, `cpu_mmu_spt.c` | guest state, shadow page tables, a pending NMI | VM exits | hardware semantics |
| Other drivers, storage, network | `drivers/`, `storage/`, `net/`, `ip/`, `vpn/` | device queues | device emulation | hardware semantics |

How the parts meet: every lock is one of the three in `spinlock.h`. The timer
thread, the debug shell and the drivers' threads are made by `thread_new` and
call `schedule()`; so does the guest's own (boot) thread at VM exits. A message
to a process is a call on the stack of the current thread, so the scheduler
saves and restores the process a thread is in. Stacks, process tables and pools
come from the page allocator. The timer thread reads the time of `time.c`. A VM
exit takes the shared lock of `mmio.c` before the instruction is interpreted;
the NVMe driver sits behind such a hook: the guest's doorbells reach it from
there, and it handles completions on the processor that takes the interrupt.

What makes each part correct is listed with the runs below; `PROJECT.json`
lists, under `hazards`, the source lines where each can go wrong and the
property that would show it.

## 2. Modules

| Module | Models | Checked by |
|---|---|---|
| `List1` | the LIST1 macros, a list being the sequence of its elements | (used by the others) |
| `Thread` | `core/thread.c`, `core/x86/thread.c` | `MCThread` (two configurations), `ThreadProofs` |
| `Timer` | `core/timer.c` | `MCTimer` (two configurations), `TimerProofs` |
| `Mm` | the page allocator of `core/mm.c` | `MCMm`, `MmProofs` |
| `Mempool` | the memory pools of `core/mm.c` | `MCMempool` |
| `Process` | `core/process.c`, `core/msg.c` | `MCProcess`, `ProcessProofs` |
| `Ticketlock` | the ticket lock | `MCSpinlock`, against the abstract lock `FifoMutex`; `SmpProofs` |
| `RwSpinlock` | the reader-writer lock | `MCSpinlock`, `SmpProofs`; `Mmio` instantiates it |
| `CpuTime` | `core/x86/time.c` | `MCCpuTime`, `SmpProofs` |
| `Dbgsh` | `core/vmmcall_dbgsh.c` | `MCDbgsh` |
| `Mmio` | `core/x86/mmio.c`, on top of `RwSpinlock` and `List1` | `MCMmio`, `MmioProofs` |
| `NvmeQueue` | one I/O queue pair of `drivers/nvme/` | `MCNvmeQueue`, `NvmeProofs` |
| `CoreTheorems` | lemmas on lists, on sorted and concatenated sequences and on the word of the reader-writer lock | TLAPS |
| `ThreadProofs` | theorems on the scheduler, its stacks and the data it saves | TLAPS |
| `TimerProofs`, `MmProofs`, `ProcessProofs`, `MmioProofs` | theorems on the timers, the page allocator, the processes and messages, the memory hooks | TLAPS |
| `SmpProofs` | theorems on what processors share: the two locks and the clocks | TLAPS |
| `NvmeProofs` | ring arithmetic and theorems on the NVMe queue pair | TLAPS |

Operators keep the names of the C functions and actions. A definition whose
name ends in a suffix such as `_Not` or `_Early` and whose comment begins with
"Mutant" is a wrong version of the definition after it; the mutants in
`PROJECT.json` show for each property a mistake in the code that it would catch.

**Grain of atomicity.** A critical section of a lock is one step, because the
lock excludes everybody who touches the same variables. The code is split at
every unlock, at every access outside a lock, and in the two lock modules at
every locked instruction. Every module has a `TypeOK` that documents its
variables; it is a property of a run only where a theorem proves it. `panic` and a failed `ASSERT` stop the model, as they
stop the VMM; `panicked` keeps the reason.

### Thread

Variables are the fields of `struct thread_data` (functions from thread ids),
the two lists, the static variables, and per processor the current thread, its
stack address and process and the stack it really executes on (`sp`). `pc` says
where in `thread.c` a processor is. The steps of `schedule()` are
`schedule_enter` (the THREAD_1CPU test), then either `schedule_none` and
`schedule_unskip` or `schedule_found`, which ends with `thread_lock` held, and
`thread_arch_switch`, which moves to the other stack where `switched()` unlocks.
`thread_wakeup` and `thread_exit` have two steps each, as in the code.

The environment is how the rest of the VMM uses the scheduler: only threads made
by `thread_new` stop or exit, a thread is only woken while it is alive
(`vmmcall_dbgsh.c` is the only caller), and a thread may enter and leave
processes between calls. `home` is a history variable. `THREAD_1CPU`, a macro of
the build, is a variable that no step changes: its first value is any of
`Builds`, so that one state graph and one set of theorems are about both builds.

### Timer

One action per function; the timer thread has three places (looking at the
list, unlocked with a copied callback, inside the callback). A client is a
callback with its data. The lock that `timer_new` keeps when it finds no free
timer is modelled (`timer_lock = "leaked"`), after which only the clock moves.

`get_time` is the time of the processor that calls it: any reading within `SKEW`
of the fastest clock (`time`), another one at every call. A processor may so set
a timer at a time before the one an armed timer was set at, or look at the head
of the list with a clock that is behind the head's set time; the unsigned
differences of `timer.c` then wrap at `WRAP`. In the first case the armed timer
is passed over and the new one may be put behind it although it is due earlier;
in the second the head is taken for expired and called early. `owed` and
`behind` (was the timer last set by such a clock?) are history variables, and
`HeadDecides` says that the timers of the first case are the only ones the timer
thread can miss.

### Mm

`mm` is the page table and the free lists in one record, so that the helper
functions are functions from such records to such records, in the order the C
functions call each other. `owned` is what the clients were given. All pages
start reserved; `mm_init_global` frees the ones that are to be free, one step for
each page (`init_page` is its loop variable), and only when it has come to the end
do the clients run.

### Mempool

A block is a record with its two lists of pieces; which pages a new block gets
is any choice of unused ones.

### Process

A thread has a stack of the processes it has called into. A system call runs
in the process on top of the stack; the VMM itself is process 0. Between two
critical sections a thread is at a named place: `checked` (the limit was
tested), `open` (a name was found), `call` (a descriptor was read), `return`
(the exit flag is set), `unregister2` (the function is cleared, the names are
not). Descriptors and stack entries carry `inst`, a history field that says for
which of the processes with the same pid they were made.

### Ticketlock, FifoMutex, RwSpinlock

One step per locked instruction, counters modulo `WRAP` and `2 * SIGN`.
`FifoMutex` is the promise of a fair lock: a queue of those who asked, and at
most one holder, the head of the queue. The refinement mapping reads the queue
off the tickets, by their distance from `now_serving`.

### CpuTime

Every processor has its counter value at start (`tsc`), its offset (`timediff`)
and the local variables of `get_cpu_time`; the call has three steps, the read of
`lastcputime`, the read of the counter, and the compare and exchange or the
correction of the offset. Start-up has the two barriers of
`time_arch_init_pcpu` with BIOS (all processors) and with UEFI (the others
later, against `time_init_dbsp`, which holds `initsync`). `sleep` is external:
the counters restart and every processor runs `time_wakeup`. All counters tick
at one rate, so the measurement of the frequency and the conversion to
microseconds are left out; what differs is when a processor read what.
`highest` (of the times returned since the machine started or last woke up),
`before` and `atsync` are history variables. Over a sleep times may go back: a
compare and exchange that fails loses a time that was returned, and
`time_wakeup` restarts the clocks from `lastcputime`, so `BehindOnlyBySkew` is
about the times since the last wake-up.

### Dbgsh

The thread of the shell and the program in the guest are two processes with one
step per access of `s`, `r`, `stopped` and the thread's state. Of the scheduler
it keeps what `Thread` says of one thread: `thread_will_stop`, a `schedule`
that does not return before a wake-up, and `thread_wakeup`, which makes a thread
run that will stop or has stopped.

### Mmio

The lock is an instance of `RwSpinlock`, so that a processor may be waiting for
its share. A chunk of memory (`mem`) holds a handle or is free; `handle` and
`mmio` are the lists. A walk (`access`, then one step per visited handle) keeps
the elements it has still to visit and, in `done`, which bytes were put to which
handler and which went to the memory behind. A handler returns 0 or 1; when it
returns 0, as the one of the local APIC always does, its own part goes to the
memory too (`Returned`), for a handler called under the lock and for an unlocked
one. `DeviceAskedFirst` says that this is the only way a byte of a hooked range
gets there. `mmio_unregister` has one step for the
trylock and, when that fails, one for the mark and one for the flag; the sweep
in `mmio_unlock` has a step per handle. `LIST1_FOREACH` reads the next pointer
from the chunk the sweep has just freed: the pointer is what it was, or another
processor has written the chunk meanwhile, after which `stopped = "undefined"`
and nothing is said. Addresses wrap at `SPACE`, which keeps the unsigned
comparisons of `rangecheck`. Who may call what is how the callers are written: a
handler without the unlocked flag holds a share and so may unregister but not
register. `mmio_lock` nests on the path of a VM exit, before the access; nothing
that is built calls it from inside a handler (`ehci_shadow.c:786-789` does, under
`ENABLE_DELAYED_START`, which is defined nowhere).

### NvmeQueue

The contexts that enter the driver are the submission doorbell, the completion
doorbell with the interrupt, and a thread of the VMM; the locks of the two rings
are variables and a section under `hub->lock` is a step. A guest's command is
fetched, gets a slot whose number is its identifier on the host's ring, is
executed, and its completion is copied back with the guest's identifier and
phase, the first one of a batch last. The guest's driver and the controller are
external: the guest keeps its rings in order, the controller fetches in order,
completes in any order and stops at a full completion ring. Both rings of a pair
have the guest's sizes, because nothing in the repository implements
`get_io_entries`. A fetch takes at most `FETCH` commands (32 in the code, 1 in
the run), one per step; only when its loop is over does it move
`cur_pos.tail` (`move_tail`), which the answers given meanwhile on another
processor carry to the guest as its head pointer, and then it submits, whether
or not commands are left in the guest's ring. What is left is fetched when a
completion comes in. An interceptor may set another limit (`nvme_crypt.c` allows
less the more requests it has in hand); interceptors are not modelled.

Positions go around their ring: `Inc` is the next one, `Dist` how far one is
behind another, which is the remainder the C code computes, and `Window` the
positions from one up to another. The loop of `nvme_submit_queuing_requests` is
the action `submit`: it says at once how many requests fit, which slots they get
(`get_free_slots`, the first free ones from `next_slot` on) and what the ring
holds afterwards, because the loop runs under `hub->lock`.

## 3. Runs

| Run | Bounds | States | Shows |
|---|---|---|---|
| `thread` | both builds; 2 processors, 4 threads, 2 heap stacks, 2 pids | 847 778 | `TypeOK`, `OneOwner`, `ExitNeverReturns`, `NoBadState`, `StackSafety`, `ContextFollowsThread`, and `OneCpuRunsThreads`, the promise of THREAD_1CPU in Kconfig |
| `thread_live` | parallel build, 1 pid, fairness | 26 181 | `ReadyThreadRuns` |
| `timer` | 3 timers, 4 clients, intervals 0 and 1, clocks that differ by 1, time to 3 | 895 537 | `InOneList`, `HeadDecides`, `CalledOncePerArming` |
| `timer_live` | 2 timers, 2 clients, intervals 1 and 2, clocks that differ by 1, time to 4, fairness | 85 994 | `SetTimerExpires` |
| `mm` | 16 pages, 3 sizes, 7 pages reserved | 119 738 | `BlocksTile`, `FreeLists`, `LowersFirst`, `Coalesced`, `ClientsDisjoint`, `NoCorruption` |
| `mempool` | blocks of 4 units, 2 blocks | violation | `GivenBackIsFree` fails, see below |
| `process` | 1 process besides the VMM, 1 descriptor, 2 threads, 4 generations | 785 906 | `RegistryLive`, `CallsWhatWasOpened`, `RunningCounts`, `ExitedIsFreed` |
| `spinlock` | 3 processors; a ticket lock of 2 bits and a reader-writer lock of 3 bits, fairness | 119 814 | `MutualExclusion`, refinement of `FifoMutex` (`FirstComeFirstServed`), `TicketIsServed`; `WriterAlone`, `ReaderGetsLock` |
| `mmio` | 2 processors, 2 handles, 8 addresses in 3 buckets, 3 ranges, nesting 2 | 2 815 111 | `BucketsIndexHandles`, `WalksSeeNoFreed`, `MarkedIsSwept`, `DeviceAskedFirst` |
| `cpu_time` | 2 processors, 5 ticks, BIOS and UEFI, one sleep | 2 369 335 | `TscNotBehind`, `BehindOnlyBySkew`, `StartsAtTimeOfBsp` |
| `dbgsh` | 2 characters each way, fairness | violation | `AnswerArrives` fails, see below |
| `nvme_queue` | rings of 3, fetches of 1, 3 commands of the guest, 1 request of the VMM, fairness | 125 188 | `CommandsOwnSlots`, `AnsweredOnce`, `DoorbellIsGuests`, `GuestRingKept`, `EveryoneServed` |

**Why the bounds are enough.** Four threads on two processors leave two made by
`thread_new`, so one can stop, exit or be woken by the other and by a boot
thread, and thread ids and both stacks are reused; running out of either is
reached. Three timers let one be inserted before, between and behind two
others, and the fourth client finds none free; a skew of one tick lets a timer be
set, and the head be looked at, before the time another was set at, with
intervals for which either is seen. Sixteen pages are four blocks of
the largest size, so that splitting, merging and joined pairs occur with full
and with broken blocks, and every size the code distinguishes (exact, block and
half, block and less than half, too large) is requested. One pid that is used
twice is enough for every kind of stale descriptor. The ticket counters wrap
at the smallest value the lock allows, one more than the processors, and so does
the count of readers. Of the three ranges two overlap (the second registration
is refused), one crosses a bucket boundary and one is unlocked and lies in the
last bucket; the longer access meets several of them with a gap between. Two
processors suffice for a clock to be overtaken between any two steps of a call,
and five ticks for both to start, sleep, wake and differ. Rings of three hold
two entries, so they are full with two commands, the controller can complete
them in the other order, and the fourth command (three of the guest and one of
the VMM) wraps every ring, its phase and the slots; a fetch of one command leaves
the second in the guest's ring.

**Bounds that are only for TLC**: `MaxTime` and `MAXTIME` (the clocks), `MaxGen`
(generations of a pid), `MEMORY` (pool memory), `NEST` (nested `mmio_lock`
calls), `MAXOUT` and `MAXIN` (characters), `MAXG` and `MAXH` (commands).
`MaxDepth` stands for the size of a stack, `WRAP` and `SPACE` for 2^64, `FETCH`
for the 32 commands of a fetch, and `SKEW` for however much the clocks of the
machine differ.

**Symmetry** is used for heap stacks, timers, clients, the threads of `Process`,
handles and the processors of `Mmio`, in safety runs only, where nothing in the specification orders them.

**Deadlock** is checked for the locks, the hooks, the clocks, the debug shell
and the NVMe queues: in none of them can everybody wait for everybody. The other
systems may really stop: at a panic, or (timers) at the leaked lock and the last
tick.

**Fairness.** `thread_live`: every processor keeps calling `schedule()` (the
guest's thread does at VM exits, service threads in their loops) and gets
`thread_lock` when it keeps asking: strong fairness, because others take the
lock in between. That is what the ticket lock gives once a ticket is drawn
(`TicketIsServed`); drawing it is a compare-and-exchange loop that a processor
could in theory lose for ever, and the THREAD_1CPU build uses the plain
spinlock, which promises nothing, so liveness is checked for the default build.
`timer_live`: the timer thread runs again and again (that is `ReadyThreadRuns`),
callbacks return and time passes. `spinlock`: a waiting processor keeps looking
and critical sections end; nothing is assumed about processors outside the lock.
`dbgsh`: both processors go on and the user types, no more than that, so what
fails is not for want of a step. `nvme_queue`: a processor in the driver goes on
and gets the ring locks it keeps asking for (they are plain locks, which do not
promise that; but who keeps taking such a lock does the same work under it, so
nothing depends on who gets it); the controller executes what it has
fetched and interrupts while a completion is not acknowledged, and the driver
looks for completions at every interrupt (`pci_register_intr_callback` in
`nvme.c`); the guest rings a doorbell after it has changed a ring and takes its
answers. Nothing makes the guest issue a command or the VMM make a request.
`EveryoneServed` holds because the guest's commands are bounded: the VMM's
request waits until no answer of the guest is unacknowledged, so a guest that
always has one under way keeps it back; the driver waits for a pause.

### Findings

`mempool_allocmem` takes the front of a larger free piece by moving its offset
but does not shorten it (`core/mm.c:878-885`), so the free piece reaches into
pieces in use and, after merging, can be as long as the whole block.
`mempool_freemem` then gives back a block with pieces in use and its own
assertion (`core/mm.c:938`) fails. The run shows the shortest such history. It
starts with `keep = 0`, although `mempool_new` never sets that field, so the
finding does not depend on it.

`dbgsh_send_to_guest` tests for the answer and then, under `dbgsh_lock2`, says
that it stops (`core/vmmcall_dbgsh.c:53`). An answer that arrives between the
two finds `stopped` from an earlier round, or not set, and a thread that is
still running: the wake-up does nothing. The thread then stops with the answer
in `r`, and since the guest has nothing to answer any more, it calls with -1,
which wakes nobody: the shell hangs. Taking the lock before the test would close
the gap.

## 4. Proofs

### The scheduler

The theorems about `Thread` hold for every number of processors, threads,
stacks and pids and for both builds. The only assumption is `ThreadAssumption`:
there is a processor, the table has an entry for each, and each came up on its
own stack outside the heap.

| Theorem | Statement |
|---|---|
| `Invariance` | `Spec => []IInv` |
| `TypeCorrect` | `Spec => []TypeOK` |
| `ThreadsHaveOneOwner` | `Spec => []OneOwner` |
| `ExitIsFinal` | `Spec => []ExitNeverReturns` |
| `BadStateUnreachable` | `Spec => []NoBadState` |
| `OneCpu` | `Spec => []OneCpuRunsThreads`, which says something in the build with THREAD_1CPU |
| `StackInvariance` | `Spec => []SInv` |
| `StacksAreSafe` | `Spec => []StackSafety` |
| `DataFollowThread` | `Spec => []ContextFollowsThread` |

The argument. None of the invariants is inductive alone. `OneOwner` needs
`LocalInv`, what the place of a processor says about its thread (a processor
outside `schedule()` runs a thread in state RUN or WILL_STOP, one in the switch
holds the lock), because `schedule_found` puts the old thread where its state
says. `ExitNeverReturns` needs `BootInv`: the boot thread of a processor is
always current on it or in the run queue, and it is eligible there whatever
`thread_cpu0only` is; so an exiting thread, which is not a boot thread, always
finds somebody. With THREAD_1CPU it also needs `OneCpuInv`, since `schedule()`
returns at once on a processor that does not own `thread_cpu`: a processor that
runs a thread made by `thread_new` owns it. `IInv` is the conjunction of these;
there is one lemma per action, and `CoreTheorems` says what the list
operations do to the elements and to the absence of duplicates.

`StackSafety` rests on a second invariant `SInv`, proved on top of `IInv` with
one lemma per action. It says for every thread that no processor runs and that
none is just leaving that its stack address, its saved context and the place it
will resume are the same (`AddrInv`, `PidInv`), that these stacks and the ones
the processors are on are allocated and all different (`UseInv`), that threads
made by `thread_new` are on heap stacks (`HeapInv`: a boot thread never exits,
so only heap stacks reach `old_stack`), and that `old_stack` is used by nobody
but the processor that is still leaving it, whose thread is already on the free
list (`OldStackInv`). That last part is what makes the free at the next
`schedule()` safe: it runs with `thread_lock` held, and a processor keeps the
lock until it is off the stack.

### The clocks

`TscNeverBehind` (`TscNotBehind`) and `LateProcessorsInTime`
(`StartsAtTimeOfBsp`) hold for every number of processors, with BIOS and with
UEFI (`CpuTimeAssumption`). The invariant `TimeInv` says that the value a
processor keeps is not ahead of its counter except between a reset of the
counter by sleep and `time_wakeup`, when nobody converts, and follows the
processors through `initsync`: what has been published once a processor is past
each barrier.

`OnlyBehindBySkew` proves the action property `BehindOnlyBySkew` under the same
assumption. A time that is returned may be older than one returned before on
another processor since the machine started or last woke up, since a compare and exchange that fails loses its time; the
theorem bounds by how much. `SkewInv`, on top of `TimeInv`, keeps what the three
steps of a call need: the highest time returned since the last wake-up is
not ahead of the clock of some processor that has started; between the read of
`lastcputime` and the read of the counter the highest time at the start of the
call is not ahead of some running clock; and between that and the end of the call
the time read is not ahead of the own clock, and behind the highest one at most by
the difference of two clocks. Clocks only move forward and tick together, so the
other processors do not disturb this. That the boot processor may be back at a
barrier, holding `initsync`, is why "has started" is weaker than "is running".

### The locks

`LockExcludes` (`MutualExclusion`) and `LockIsFifo` (`FirstComeFirstServed`, the
refinement of `FifoMutex`) hold for every finite set of processors smaller than
the range of the counters (`TicketAssumption`), however often they wrap. The
invariant `LockInv`: the tickets in use are exactly those from `now_serving` up
to `next_ticket`, counted modulo the range, one processor to each, and who is in
has the ticket that is served. It follows that every step is a request, a grant
to the head of the queue, a release or no step of `FifoMutex`.

`WriterExcludes`, `WriterAloneBeside` (`WriterAlone`, in the run's composition
with the ticket lock) and `WordCountsReaders` hold for every number of processors
smaller than the sign bit of the lock word (`RwAssumption`). The invariant
`RwLock`: the word is the number of readers, the waiting ones included, plus the
sign bit while there is a writer. It is stated over a set of processors, a word
and a place for each of them, in `CoreTheorems`, so that `Mmio`, which uses the
same lock, cites the same lemmas.

### The timers

`TimersInOneList` (`InOneList`), `TimerHeadDecides` (`HeadDecides`) and
`TimerCalledOncePerArming` (`CalledOncePerArming`) hold for every finite set of
timers, all clients, all intervals, every bound on the time and however much the
clocks of the processors differ (`TimerAssumption`; the range of the times,
`WRAP`, is more than twice the times that occur). The invariant `TimerInv`: the three lists share out the
timers (`ListInv`), a timer that is not free and its client know each other
(`OwnerInv`), the armed timers are sorted by the time at which they are due, but
for those set by a clock that was behind (`OrderInv`), and between the unlock and the callback the timer thread has a
client to call (`ThreadInv`). `HeadDecides` alone is not inductive: `timer_set`
inserts by the remaining time at that moment. For a timer set at an earlier or
the same time this agrees with the order of the deadlines, because the remaining
time of an expired timer is zero and not a wrapped number, so that such a timer
stays before every new one. A timer set at a later time by another clock seems to
have expired long ago (the difference wraps), so the new timer is put too far
back, never too far forward. That is why the order is only lost for the new timer
(`SortedBut`): wherever a timer stands behind one that is due later, it was set
by a clock that was behind. When the head has not expired by some
reading of the clock, a timer that is due by that reading stands behind one that
is due later, and so is one of those.

### The page allocator

| Theorem | Statement |
|---|---|
| `MmInvariance` | `Spec => []MmInv` |
| `PagesTile` | `Spec => [](TypeOK /\ BlocksTile)` |
| `FreeListsRight`, `LowerHalvesFirst` | `Spec => []FreeLists`, `Spec => []LowersFirst` |
| `BuddiesMerged` | `Spec => []Coalesced` |
| `ClientsKeepPages` | `Spec => []ClientsDisjoint` |
| `AssertionsHold` | `Spec => []NoCorruption` |

They hold for every number of pages and of block sizes, every set of reserved
pages and all requests. The assumption, `MmAssumption`, is that the memory is a
whole number of blocks of twice the largest size, as it is in the code (32768
pages, the largest blocks 4096): with less, the buddy of the last block would lie
outside `pagestruct[]`, where `mm_page_alloc_cont` looks at it.

The invariant `MmInv` is about one table, `Memory(m, X)`, so that it can be
followed through the intermediate tables of an operation: X holds the blocks that
have been taken off their list and not been marked yet. Its parts: `Tiling`, every
page is in the block of exactly one head, heads are aligned, and the `allocsize`
of a page that is no head is the size at which it is an upper half; `Lists` and
`Ordered`, the free lists; `Apart`, no two free buddies. The last part of `Tiling`
is what `BlocksTile` lacks to be inductive: `mm_page_free_2ndhalf` makes an upper
half a free block again without setting its `allocsize`, relying on what an
earlier merge left in that field. `Clients` says what a client has: a block, or a lower half and the block
behind it, which is in use and has no client of its own; `Starting`, that the
pages `mm_init_global` has not come to are reserved.

The argument. `Block(x, n)`, the block of size n around page x, divides the pages
into classes, and the classes of size n + 1 are pairs of classes of size n
(`BlockStep`, `Halves`, `SameBlock`); that the powers of two are positive and
double, which the provers do not know of `^`, is shown by counting subsets
(`PowerOfTwo`). A change of the table that stays within one block of size k and
leaves that block tiled leaves the memory tiled (`Retile`); a split is such a
change for the block that is split, a free for the block it merges into, whose
heads are the freed block and its buddies and nothing else (`MergeHeads`).
Merging stops at a size where the buddy is not free, so `Apart` holds again. For
the clients, every operation keeps type and size of all blocks in use but the ones
it is about (`Keeps`, `KeepsUsed`), and a block lies behind at most one other
(`OnePartner`): an upper half has one size.

### Processes and messages

`ProcessRegistryLive`, `ProcessCallsWhatWasOpened`, `ProcessRunningCounts` and
`ProcessExitedIsFreed` prove the four properties of the run for every number of
pids, descriptors, threads and names and every depth of calls
(`ProcessAssumption`). They are inductive together with `GenInv` (the generation
of a pid counts its processes: it is even while the pid is in use, odd while it is
free), `DescInv` (a descriptor, stored or read, names the generation that its
process had) and `DepthInv`. The argument: a descriptor whose generation is the
current one can only have been made for the process that is there now; a process
is not freed while `running` is not zero; and `running` is the number of calls on
the stacks of all threads, which is shown by adding and taking one call from a
finite set.

### The memory hooks

`BucketsAreIndex` (`BucketsIndexHandles`), `MarksAreSwept` (`MarkedIsSwept`),
`NoWalkSeesFreed` (`WalksSeeNoFreed`) and `DeviceFirst` (`DeviceAskedFirst`)
hold for every number of processors the lock word can count, all handles, bucket
sizes, ranges and accesses below the end of the physical addresses
(`MmioAssumption`, `RwBits`). The invariant has four parts. `LockInv`: the lock is
a reader-writer lock and each processor has of it, and in `lock_count`, what its
place in the code says; so who changes a list does it alone. `DataInv`: the
buckets are an index of the handles, a handle has one owner until it is
unregistered (`OwnInv`), and a sweep's pointers are on the list (`SweepInv`).
`MarkedIsSwept` is inductive on top of these. `WalkInv` is about accesses: the
handles a walk has still to visit are the rest of the concatenation of the sorted
bucket lists, everything it has passed lies behind the address it has come to,
a part put to a handler meets no registered range but that handler's, and a part
that went to the memory without asking anybody meets none; it also keeps the
registered ranges disjoint (`Disjoint`). It follows that a byte of a registered
range that went to the memory was put to the handler of that range, which
returned 0. A handle of two
buckets is visited twice; that a walk in address order over several buckets misses
nobody needs the lemmas on concatenated sorted sequences in `CoreTheorems`.

### The NVMe queue pair

| Theorem | Statement |
|---|---|
| `QueueInvariance` | `Spec => []QueueInv` |
| `NvmeOwnSlots` | `Spec => []CommandsOwnSlots` |
| `NvmeAnsweredOnce` | `Spec => []AnsweredOnce` |
| `NvmeDoorbell` | `Spec => []DoorbellIsGuests` |
| `NvmeGuestRing` | `Spec => []GuestRingKept` |

They hold for submission and completion rings of any size from two entries on, the
two sizes independent of each other, and any number of commands of the guest and
of the VMM, and any limit on a fetch (`RingSizes`). That the rings wrap any number of times is the point:
positions, phases and identifiers are all reused.

None of the four properties is inductive, and none follows without most of the
others. The parts of `QueueInv`:

- `LockInv`: who processes completions holds the lock of the ring, and has a
  request in hand exactly between taking it out of its slot and freeing it.
- `GuestRingsInv`, `HostRingsInv`: the positions of each ring are in order around
  the ring (`Between`), so no producer passes a consumer; in the guest's submission
  ring these are the head the guest knows, `cur_pos.tail`, the position the fetch
  has come to (`g_cur_tail`), the doorbell and the guest's tail. The phase bits are those
  of this round below the tail and of the last round from there on (`PhasesOK`),
  which is why comparing one bit tells whether an entry is new. The submission
  heads that successive completions report only go forward and do not pass what was
  fetched (`HeadsOK`): `update_h_subm_cur_head` can trust the one it copies.
  For the guest's ring all this is about `Eff`, the ring as it will be when the
  first answer of a batch, which is held back, is shown.
- `OwnInv`: commands not fetched, in execution and in completions not looked at
  have different identifiers, each the slot of its request, and every slot in use
  has such a command.
- `CountsInv`: what `n_slots_used`, `n_not_ack_g_reqs` and `n_not_ack_h_reqs`
  count, that one of the last two is zero, and that the completions the doorbell
  leaves open are the guest's. `NvmeDoorbell` rests on the last two: while a
  guest's completion is not acknowledged no request of the VMM is at the
  controller, so there is never one of the VMM's among them.
- `CommandsInv`: every command of the guest is in one place, its ring, the queue of
  requests, a slot, the driver's hand, its completion ring or its past; the first
  two are in order of issue, which is what makes them disjoint from the rest.
- `ExecutedInv`: what is completed anywhere was executed.

Under these are the lemmas on ring arithmetic (`Dist`, `Inc` and `Window` when a
position moves by one or by several) and on counting slots, each stated for a ring
of n entries and used for all four rings. TLC checked `QueueInv` with rings of
different sizes (3 and 3, 3 and 2, 2 and 3) and up to five commands before it was
proved.

### Only model-checked

All liveness properties (`ReadyThreadRuns`, `SetTimerExpires`, `TicketIsServed`,
`ReaderGetsLock`, `EveryoneServed`): fairness is outside what
TLAPS 1.4 handles. Every invariant and action property of a passing run is
proved. `Mempool` and `Dbgsh` have no theorems: their runs show a violation. Two
kinds of induction over data were avoided rather than used: what a fold or a
`CHOOSE` over numbers computes is shown with the least element of a set of
numbers (`LeastExists`, `Upward`, `Climb`, `Descend`), because the library's induction theorems
cannot be instantiated by the installed provers.

## 5. Not modelled

Of the modelled parts: memory ordering beyond what locked instructions give, the
plain spinlock (one instruction), the bitmap allocators and the virtual address
windows of `mm.c`, mapping of message buffers and premapped buffers (a call may
fail there, nothing more), `mempool_free` and `msg_unregister` (never called),
loading of processes (`processbin_load` gives back the entry point of a program
that is part of the VMM and cannot fail, so the branch of `process_new` for a
failure is never taken), a call of address 0 when `_msgunregister`, which takes no
lock, clears a function between the test and the call (the process faults and is
killed), and the non-local exit of `process_kill` out of a kernel
panic. Of `mmio.c` the lookups that return a handle's range
(`mmio_range`, `mmio_access_page`) walk the same lists in the same way and are
left out; that a handler may still run after `mmio_unregister` has returned is
in the model, but the code promises nothing about it. Of the NVMe driver the
admin queue, queue creation and deletion, reset, and the interface for pausing
requests, which nothing in the repository uses.

Of the core, parts within reach of a model that are not done yet: panic, the
start-up of processors, the NMI paths of the VT and SVM cores, the 24 bit ACPI
timer, and the small object allocators.

Outside: shadow and nested paging and the instruction interpreter (their state is
the guest's page tables and the instruction set; a model would be a model of the
processor), UEFI and ACPI tables (parsing), the register level of the other
device drivers, cryptography and the TCP/IP and VPN stacks (vendored), SQLite
(vendored), boot loaders and tools. Vendored and generated code is by far the
largest share of the repository's lines.

## 6. Plan

Done, in this order: `List1` and `Thread`, its proofs, `Timer`, `Mm`, `Mempool`,
`Process`, `Ticketlock` with `FifoMutex`, `RwSpinlock`, `CpuTime`, `Dbgsh`,
`Mmio`, `NvmeQueue`; the locks and the two builds of the scheduler each became
one run.

Proved: every invariant and action property of the passing runs, of `Thread`,
`Timer`, `Mm`, `Process`, `Mmio`, `CpuTime`, `Ticketlock` with the refinement of
`FifoMutex`, `RwSpinlock` and `NvmeQueue`.

Next modules: `Panic`, the election of the panicking processor; the NMI paths;
`Ap`, the rendezvous as an implementation of an abstract barrier, which
`CpuTime` assumes; the small object allocators; the NVMe admin queue and reset;
the ACPI timer.
