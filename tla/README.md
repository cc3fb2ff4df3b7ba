# A TLA+ verification of the JinxOS kernel

JinxOS is a small x86 kernel in C. This directory models its synchronisation,
threads, memory management, processes, containers and devices in TLA+, checks
the models with TLC and proves the central properties with TLAPS. Paths below
are relative to `src/`.

## The system

One processor runs kernel threads (`cpu/cpu.c` brings up `cpus[0]` only). Code
is interleaved in two ways: a timer tick (`hw/pit.c`) calls `thread_schedule`
while EFLAGS.IF is set, and a thread gives the processor up itself with
`thread_yield` or `thread_wait` (`kern/syscall.c`). Code that runs with
interrupts off is therefore atomic until it switches. That a failed `assert`
or `cpu_idle` stops the machine is part of the models.

| Part | Source | Module | Status |
|---|---|---|---|
| spinlocks | `synch/spinlock.c` | `Spinlock`, `SpinlockProofs` | modelled |
| scheduler, timer preemption | `thread/thread.c`, `hw/pit.c`, `kern/syscall.c` | `Sched`, `SchedProofs` | modelled |
| wait channels | `synch/wchan.c` | in `Sched` and its users | modelled |
| semaphores | `synch/semaphore.c` | `Semaphore`, `AtomicSemaphore`, `SemaphoreProofs` | modelled |
| recursive locks | `synch/lock.c` | `Lock`, `LockProofs` | all but `lock_destroy` |
| condition variables | `synch/cv.c` | `CondVar` | all but `cv_destroy` |
| thread life cycle | `thread/thread.c` | `Thread`, `MCThread`, `ThreadExit` | fork, start, join, exit, reaping |
| thread lists | `thread/threadlist.c` | `ThreadList`, `AbstractLists`, `ThreadListProofs` | modelled |
| kernel heap | `mem/mm.c`, `mem/mem.c`, `mem/kmm.c` | `Mm`, `MmRealloc` | modelled, until the heap is damaged (below) |
| physical pages | `mem/pmm.c`, `hw/e820.c` | `Pmm`, `PmmProofs` | modelled |
| page tables, program loading | `mem/vmm.c`, `proc/proc.c` | `Vmm` | modelled |
| processes, stacks | `proc/proc.c`, `thread/thread.c`, `mem/pmm.c` | `Proc` | all but the way into user mode |
| pids | `proc/pidreg.c` | `Pidreg` (over `Lock`) | modelled |
| shared containers | `klib/queue_ts.c`, `klib/bitmap_ts.c` | `QueueTs`, `BitmapTs` (over `CondVar`) | all but their destruction |
| containers | `klib/{list,queue,hashtable,array,heap,bitmap}.c` | `List`, `AbstractList`, `Hashtable`, `AbstractDict`, `Array`, `Heap`, `Bitmap` | modelled |
| keyboard, console, screen | `hw/kbd.c`, `hw/serial.c`, `console/console.c`, `hw/cga.c` | `Kbd`, `Console`, `Cga`, `CgaProofs` | modelled |
| timers | `klib/time.c`, `hw/pit.c` | `Timer` | modelled |
| interrupt dispatch | `kern/{irq,isr,idt}.c`, `kern/asm.S`, `hw/lapic.c` | `Irq`, `IrqProofs` | all but the I/O APIC's table |
| symbols | `debug/debug.c` | `Stabs` | modelled |
| formatted printing | `klib/print.c`, `klib/snprintf.c` | `Format` | all but `%f` |

`PROJECT.json` gives for each definition the lines it translates, and lists the
hazards of the code with the properties that cover them.

## The modules

**Spinlock** is the floor everything stands on, so it goes statement by
statement: `spinlock_acquire` is the actions `AcquireCheck`, `AcquireCli`,
`AcquireXchg`, `AcquireOwn`, and `spinlock_release` is `ReleaseCheck`,
`ReleaseDisown`, `ReleaseXchg`, `ReleaseIfx`. Between any two of them a
`TimerTick` may run if interrupts are on, and the tick itself needs the
run queue's spinlock. The flag saved by `cli` is the one static `iflag` all
locks share, as in the source; `entry` and `nested` are history variables that
record what the caller had. `WchanSleep` is `wchan_sleep` down to the switch.

**Sched** is `thread_switch` and `thread_make_runnable`: the run queue `active`
is the sequence its thread list holds, `intr` is the IF of the running thread
and, for the others, the IF in the frame they will resume with. It has no
specification of its own; the blocking primitives extend it. A section under a
spinlock is one step there, which is what `CriticalSectionsAtomic` of
`SpinlockProofs` justifies.

**Semaphore**, **Lock**, **CondVar** extend it with the fields of the structure
and its wait channel. A call that sleeps is two actions: the call (`P`,
`lock_acquire`, `cv_wait`) and what the thread does when it runs again
(`PAwake`, `AcquireAwake`, `CvAwake`), which tests its condition again and may
sleep again. `Elsewhere` is a tick or a yield. **AtomicSemaphore** is what
`semaphore.h` promises: a counter, `P` when it is positive, `V` always.

**Thread** models creation to reaping. `Threads` there is the set of memory
blocks thread structures live in, so that a block freed by `thread_destroy` is
used again by a later `thread_fork`, and a stale pointer would be seen.
`thread_exit` and `thread_join` contain the semaphore operations they make.
`ThreadExit` adds the call of `thread_exit` that its header allows.

**ThreadList** is `threadlist.c` on the links of nodes and bookends. It
implements **AbstractLists**, the sequences that `Sched` uses for the run queue
and the wait channels. **List** and **Hashtable** implement **AbstractList** and
**AbstractDict** in the same way, with the nodes `kmalloc` gave and with the
resizes, one of which may happen inside another. **Array**, **Heap** and
**Bitmap** are compared with a history variable that holds what was put in.
`heap_assertvalid` is an action of `Heap`, the recursion of its check included.

**Mm** keeps boundary tags, footers and the free list in the words of the heap,
as `mm.c` does, so that a wrong tag has the effects it would have there.
The callers write a different value in every word of their blocks.
**MmRealloc** adds `krealloc`, one action for each way it serves a request, with
the copy into the block before word by word. Its variable `gap` marks the words
`krealloc` loses track of, and `Apart` of `Mm` says that `kpalloc` has taken no
page of the heap (see below).

**Pmm** is `init_pmm` and the bitmap of physical pages, with addresses in half
pages so that a region may end inside a page. Its second loop takes one region
a step (`UnmarkEntry`), with the assert of `bitmap_unmark`, and the 64-bit
numbers of the map are cut to a `size_t` where the code casts them. **Vmm** has page directories, the
tables in physical pages behind them, and the loader that calls `page_insert`.
**Proc** composes processes, their thread arrays, pids, stack pages and page
directories, and goes on when pids or pages run out, as the code does.

**Pidreg**, **QueueTs** and **BitmapTs** extend `Lock` or `CondVar`: each
statement group between two points where another thread may run is an action.

**Kbd** has the keyboard that sends scan codes and the driver's handler.
**Console** has the ring, which interrupts fill at any time (they write `wpos`
and `getc` writes `rpos`, so a `getc` is one step), and `readline` and `runcmd`,
with the cells of the screen left of the cursor. **Cga** is `putc_cga` and
`scroll`.

**Irq** has both 8259A controllers and the local APIC, and each thread's stack
of trap frames. `idt_set_gate2` builds trap gates, so an interrupt may nest in
the stub of another before its `cli`. A tick may switch threads inside that.

**Stabs** takes one turn of `stab_binsearch` a step. **Format** takes one
character of the format a step; the formats are built from pieces, so what a
call should print is known without scanning, and may end inside a conversion.
**Timer** scales the counter's
2^32 to a smaller `Wrap` and keeps the constants of the conversions; its clients
use the id `timer_create` returned, whatever it is.

**MCKlib** and **MCKernel** instantiate the components for TLC. Their initial
state picks one component, which then runs by itself, so a run explores the
disjoint union of the components' state graphs. A component's properties are
stated under `component = "..."`.

## What the runs check

| Run | Bounds | What it shows |
|---|---|---|
| `spinlock` | 2 threads, 3 locks | interrupts are off while a spinlock is held; nobody spins, no assert fails, no switch happens inside a section; the static `iflag` restores IF after flat sections and leaves it off after nested or sleeping ones |
| `semaphore` | 3 threads, largest count 3 | no lost wakeup; the processor idles only when all threads wait on a zero count; refinement of `AtomicSemaphore` |
| `lock` | 3 threads, depth 2, 3 acquires each | mutual exclusion, no lost wakeup, no stop, IF kept across acquire and release; if all are preemptible, every ready thread runs and every waiting thread gets the lock |
| `condvar` | 3 threads, depth 2 | the lock stays sound under wait, signal and broadcast; each thread is on exactly one list |
| `condvar_nested` | the same | violation: see below |
| `thread` | boot thread and 3 blocks | handles stay valid until joined, joins return exit values, nothing is freed in use, no stop |
| `thread_live` | boot thread and 2 blocks | joins return, zombies are destroyed |
| `thread_exit` | boot thread and 1 block | violation: see below |
| `heap_valid` | elements 1 to 3, up to 6 of them | violation: see below |
| `klib` | per component, below | the library: lists and tables implement sequences and maps, arrays, heaps and bitmaps keep what they hold, symbols are found, formats printed, timers exact; every lookup, and every print of a whole format, ends |
| `kernel` | per component, below | heap, physical and virtual memory, processes, pids, shared containers, keyboard, console, screen, interrupt dispatch |
| `pidreg_lock_leak` | 2 threads, 3 pids | violation: see below |

Two threads and three locks (the run queue's and two more) give `spinlock` a
section nested in another and a thread to switch to. Elsewhere barging needs
three threads: an owner, a woken waiter and a third that takes the lock in
between. Three blocks in `thread` allow a parent, its child
and a sibling that reuses a freed block; the blocks other than the boot
thread's are interchangeable, so the run uses symmetry (not in the liveness
run). The largest count 3 stands for `UINT_MAX`; at it `V` stops the machine, as
the assert behind the increment does. `Rounds` bounds the acquires from
outside.

The bounds of `klib` and `kernel` are in their modules. They are chosen so that
each limit is reached:

* heap: a heap of 2 to 4 pages of 8 words, 3 live blocks and 5 calls, with
  requests that fit a split, that do not, and that force `mem_sbrk`. Three
  blocks make a free between two free neighbours.
* physical memory: maps of two regions, adjacent or apart, available or not, with
  boundaries at pages and inside them, and ends behind the largest `size_t`.
* virtual memory: two processes, 16 pages, programs that start inside a page and
  that need a second table.
* processes: two beside the kernel's, two threads beside the boot thread, six
  pages and pids below 7, `EMPROC` (6) among them: a freed stack is used again,
  and pids and pages both run out.
* pids: two threads that hold up to two pids each, of 4.
* shared containers: three threads, so that a woken one can lose the race.
* console: a ring of 3, a line of 6 and two cells of prompt; the ring overruns,
  the line fills and the prompt is erased.
* screen: 2 rows of 5, so that a tab, a newline and a character each scroll.
* interrupts: two threads, lines 0 and 4 of the first controller and two of the
  second, frames nested up to three deep.
* lists: three threads on two lists, four nodes. Hash tables: four keys, three of
  which collide modulo 4 and two modulo 8, from size 2 upwards.
* arrays up to 5, heaps up to 6, bitmaps up to 10 bits: past each growth and
  into a second, partial byte.
* symbols: every table of up to three functions, of one or more files, and an
  assembly file, with stabs two bytes apart and one; every address. Formats:
  every conversion alone, in pairs and cut short.
* timers: a counter that wraps after 4000000 ticks, in steps that cross it, and
  three clients of a table of two; for `pit_wait` a counter that wraps after 40.

Deadlock is not checked in `klib` and `kernel`, whose components stop when a
call ends, a bound is reached or the machine halts, nor in `semaphore` and
`condvar`: threads that all wait for a unit or a signal stop the machine, which
is a mistake of their program and not of the code here. `IdleOnlyInDeadlock` and `CvIdleOnlyWhenAllWait` say
that the processor runs out of threads in no other case.

Four runs show that the code does not do what it says of itself:

* `condvar_nested`: `cv.h` says that `cv_wait` releases the lock. It calls
  `lock_release` once, so a thread that acquired the lock twice sleeps as its
  owner.
* `thread_exit`: `thread.h` says interrupts need not be disabled; `thread_exit`
  asserts that they are.
* `pidreg_lock_leak`: `pidreg_getpid` returns `EMPROC` with the registrar's lock
  held, so other threads' `pidreg_returnpid` never make a pid available.

* `heap_valid`: `heap.h` says that `heap_assertvalid` validates the heap. Its
  recursion asserts the strict comparator between each element and both its
  children, which for a leaf lie behind the last element, and fails for equal
  elements: it stops the kernel on a heap of one element.

Each property is also checked to fail for a mutant of the model: the
definitions marked "Mutant" make the mistakes a change of the code could make.

## What the code does that a reader may not expect

These have no run of their own. The models follow the code, and the properties
are stated so that they say what does hold.

* `krealloc` at the end of the heap extends it by whole pages and sizes its block
  exactly: the words behind it have no header. Where it falls back on `kmalloc`
  it still holds `mem_lock`, and the machine stops. `HeapConsistent` follows a
  heap until either happens.
* `kpalloc` takes pages from the top of the heap's range without comparing them
  with the end of the heap, and clears them. `PayloadKept` says that only the
  words of such pages are lost; tags and free list are followed while `Apart`
  holds, as the loops of the allocator need not end on cleared tags.
* `init_pmm` also frees the page behind a region that ends on a page boundary,
  and the assert of `bitmap_unmark` stops it when two available regions touch
  one page, which adjacent regions do although its comment asks only that they
  do not overlap. `BootNeedsGaps` gives the condition exactly, `OwnedExactly` the
  pages that are handed out.
* `EMPROC` is a small positive number and so also a pid. `RegistryExact` is
  about the pids handed out while there are any. `proc_create` and
  `proc_program` store it unchecked: `PidsApart` says that pids stay apart but
  for that one number, once it was returned. Each `proc_program` takes two pids
  and gives back one, and `proc_destroy` does not give back the page directory.
* `ENTIMER` is also the id of a timer, and the struct of a new timer is what
  `kmalloc` found: `ReadingExact` and `AssertsHold` are about clients that were
  given a timer of their own that is not marked active.
* `bitmap_ts_isset_blocking` waits for a bit to be cleared, but only
  `bitmap_ts_mark` signals. `BlockingReturnsClear` says what its return means,
  not that it returns.
* A tick that switches threads does not acknowledge the 8259A. Until a tick
  finds no other thread ready, or a handler that was under way ends, its lines
  below the timer's stay blocked. An
  acknowledgement is not specific, so with handlers of two threads under way it
  may end the other thread's line; `SlaveInService` therefore counts.
* The console's ring is written whether or not it has room. The character that
  fills it makes it look empty, so all it held is lost; `ReadInOrder` says that
  the rest is read in order.
* A DEL (0x7f, from the serial line) on an empty line is stored and not shown,
  and erasing it erases a cell of the prompt. `EchoMatchesLine` has this
  exception.
* `pit_wait` waits for one value of the counter: a thread that does not run in
  that tick waits for the counter to wrap. `WaitExactOrWrapped` says that a wait
  is as long as asked or a whole number of wraps longer.
* `runcmd` refuses a line of `MAXARGS` words, the maximum its message names.
* `stab_binsearch` takes a stab one byte after another for it, and for an address
  before all stabs of its range it leaves the first one, although its comment
  says that the range is then empty. `FindsContaining` says what it leaves in
  every case.
* `vsnprintfmt` of a format that ends inside a conversion puts the NUL and reads
  on behind it. `StaysInFormat` says that no other format is left, and `CallsEnd`
  is about the others.
* The two formatted printers are copies that have drifted apart: flag `-` pads
  numbers with dashes in one of them, and unknown conversions are scanned anew.

## Fairness

The timer ticks forever while interrupts are on (weak fairness of the tick),
and a thread that gets the processor again and again finishes the code it is
in (strong fairness per thread: between two of its turns it is not enabled).
Code that holds a lock is assumed to release it. `EachGetsLock` is stated for
threads that acquire the lock a bounded number of times (`Rounds`): with endless
acquires a woken thread can lose the race each time, since `lock_release` hands
the lock to nobody. The liveness properties of `lock` are stated for threads
that entered with interrupts on, and `thread_live` starts with them on. Nothing is
assumed of threads that keep interrupts off: they are not preempted, and the
code promises nothing.

In `klib` a lookup and a print go on to their next step (weak fairness of each):
they are loops of one thread that wait for nobody. `pidreg_lock_leak` uses
`PFairSpec`: ticks and the threads inside calls are strongly fair, since a tick
that comes with interrupts off stays pending.

## What is proved

For any finite set of threads, any locks, counts and bounds:

* `SpinlockProofs`: the inductive invariant `IInv` says that only the running
  thread holds spinlocks, that `locked`, `cpu` and the counter agree with what
  it holds at its place in the code, that interrupts are off there, and that
  `iflag` is true only in a flat section entered with interrupts on. From it:
  `InterruptsOffWhileHeld`, `SpinlocksUncontended`, `CriticalSectionsAtomic`,
  `FlatSectionsRestoreIF`.
* `SchedProofs`: lemmas on the run queue and wait channels (what waking,
  dispatching and preempting do to the lists and states of the threads).
* `SemaphoreProofs`: the invariant adds to the types that each thread is on one
  list, that the sleepers are in `P`, and that while somebody sleeps the count
  is at most the number of threads woken and on their way. That last part,
  `NoLostWakeup`, is not inductive alone: a `P` or `V` changes which threads are
  woken, and the count of them needs the lists to be disjoint and complete.
  `SemaphoreImplementsAtomic` is the refinement, step by step.
* `LockProofs`: the invariant ties `lk_owner` and `lk_count` to the acquires
  each thread has not yet released, and says that with a free lock and a sleeper some
  woken thread is ready. From it `LockExcludes`, `LockNeverStuck` and
  `LockKeepsInterruptFlag`.

* `ThreadListProofs`: `ListsStayLinked`. The types and `LinksAgree` (neighbours
  point at each other, bookends are outermost) are inductive together. One lemma
  treats insertion between any two neighbours and one the removal of a node; the
  seven operations are instances of them.
* `PmmProofs`: the invariant `PagesSplit` says that the regions the second loop
  has passed freed disjoint sets of pages, that the marked pages are the ones
  not freed and, apart from them, the owned ones, and that a stop before the
  loop's end comes from a region that frees a page freed before. The lemma
  `FreedIsTouched` turns the page numbers the loop computes into addresses: the
  pages freed are those the region, cut to a `size_t`, touches. From both
  `PagesOwnedOnce`, for every memory map, width of `size_t` and kernel size: the
  boot stops exactly if two available regions touch a page, and after it the
  marked pages are the owned ones and those no region touches. `FreeNeverFails`:
  the assert of `pp_free` holds for every owner.
* `CgaProofs`: `CursorStays`. A character moves the cursor at most one row behind
  the screen, so one scroll is enough on a screen of any size whose rows hold a
  tab.
* `IrqProofs`: `SlaveAcknowledged`. The count of frames and the count of lines in
  service change together in every step. Types alone are needed beside it: a
  delivered line was not in service before, since those are all lower in
  priority, and a handler's own frame makes the set it acknowledges nonempty.

The assumptions are those the modules name: finitely many threads, at least
one, `NULL` not one of them, bounds that are naturals, `UINT_MAX` positive,
lists apart from threads, memory maps that end at a natural address, and
screens as above.

Only model-checked: liveness (the prover does not reason about fairness); the
refinements of the lists and the dictionary and the contents of heaps, arrays
and bitmaps, whose definitions are recursive over data; `CondVar`, `Thread`,
`Mm`, `Vmm`, `Proc` and the clients of locks, for which the inductive invariants
have not been worked out.

## What is not modelled

* Other processors and inter-processor interrupts: they are started into a
  loop that halts, and nothing is sent to them.
* Boot, device initialisation and the I/O APIC's table, which is written once.
* Entry into user mode and the user programs.
* `lock_destroy`, `cv_destroy` and the destruction of the shared containers. All
  would need callers that agree not to use the structure any more.
  `hashtable_ts.c` puts a lock around the operations of `Hashtable`.
* String and number routines, `%f`, and `check_heap`, which nothing calls.
* A switch in the middle of `thread_exorcise` when the page registrar's lock is
  contended (see the hazards in `PROJECT.json`).
