# OUR-BEST-OS in TLA+

A verification project for the teaching operating system in `src/`: six copies
of Pintos, each with the solution of one lab of an operating-systems course.
The modules here translate the C code that the labs wrote (and the little of
the distributed Pintos they rest on), TLC checks them on small instances, and
TLAPS proves the properties that matter most for every instance.

`PROJECT.json` lists, for each definition, the lines of C it stands for
(`map`), the runs, the mutants that show that each property can fail, the
findings, the hazards and the theorems.

## 1. The repository

| directory | what it is |
|---|---|
| `src/pintos/src` | Pintos as distributed |
| `src/lab0` | exercises in C, no kernel code |
| `src/lab1/zhk/pintos/src` | lab 1: alarm clock, priority scheduling, priority donation, MLFQS |
| `src/lab2/pintos-proj2`, `src/lab2/pintos_project2/src` | lab 2: processes and system calls (the first is Pintos as distributed) |
| `src/lab3/pintos3_all_passed/pintos/src` | labs 2 and 3: processes, system calls, virtual memory; the version its authors kept |
| `src/lab3/pintos3` | an earlier variant of the same |
| `src/lab4` | empty |
| `src/doc` | design documents |

Pintos runs on one CPU. A thread is a page of memory; its `struct thread` lies
at the bottom of the page and its kernel stack at the top. Interrupts are the
only source of preemption, and turning them off is the only primitive way to
be atomic: everything else (semaphores, locks, condition variables) is built
on it. Lab 1 keeps the scheduler with priorities and donation; labs 2 and 3
start again from the round-robin scheduler of the distribution.

## 2. Inventory

For each component: its state, its operations, how it interacts, what is hard,
and what makes it correct.

### Scheduler (lab 1, `threads/thread.c`)
State: `ready_list` (ordered by priority at insertion), each thread's `status`,
`priority`, `original_pri`, the running thread. Operations: `thread_create`,
`thread_block`, `thread_unblock`, `thread_yield`, `thread_exit`,
`thread_set_priority`, the time slice (`thread_tick`), `schedule`. Called by
everything that blocks; the timer interrupt and device interrupts enter it at
any instruction that has interrupts on. Hard: `thread_create` and
`thread_set_priority` run with interrupts on and read fields that other
threads write; pages of dead threads are freed and reused. Correct when one
thread runs, the ready list is exactly the READY threads, each thread is on
one list at most (one `elem` serves all lists), nobody is forgotten, and the
running thread has the highest priority.

### Semaphores and locks with priority donation (lab 1, `threads/synch.c`)
State: `value` and `waiters` of a semaphore; `holder` and `max_pri` of a lock;
`lock_list` and `blocked_lock` of a thread. Operations: `sema_down`,
`sema_try_down`, `sema_up`, `lock_acquire` with the donation loop,
`lock_try_acquire`, `lock_release`. Hard: the semaphore part is atomic but
`lock_acquire` and `lock_release` run with interrupts on: between any two of
their steps another thread may acquire, release, donate or exit. Correct when
locks exclude, no wake-up is lost, the thread woken is the highest waiter,
donation reaches the holder and is taken back, and the donation loop ends.

### Condition variables (lab 1, `threads/synch.c`)
State: a list of waiters, each a semaphore on its owner's stack. Operations:
`cond_wait`, `cond_signal`, `cond_broadcast`. Hard: a waiter is on the list
before it sleeps, and `cond_cmp` reads the sleeping thread. Correct when a
signal wakes exactly one thread that waited before it and no signal is lost.

### Alarm clock and MLFQS (lab 1, `devices/timer.c`, `threads/self-compute.c`)
State: `waiting_time` of each thread, `ticks`, `thread_ticks`, `recent_cpu`,
`load_avg`, `nice`. Operations: `timer_sleep`, the tick, `thread_set_nice`.
Hard: the tick decrements one field of every BLOCKED thread, whatever it is
blocked for, wakes threads without giving them the CPU, and changes the
priorities of threads that are in the ready list. Correct when a sleeper wakes
after exactly its ticks and nobody else is woken, a woken thread waits for no
more than a time slice, and nobody starves among equals.

### Interrupt queues and the console (lab 1, `devices/intq.c`, `serial.c`, `input.c`, `kbd.c`)
Distributed code over lab 1's locks. State: two ring buffers, each with a
waiting thread and a lock; the console lock; the interrupt enable register of
the serial port. Operations: `intq_getc`, `intq_putc` from threads and from
interrupt handlers, `serial_putc`, `serial_flush`, `serial_interrupt`,
`input_getc`, `keyboard_interrupt`. Hard: the same queue is emptied by
interrupts, by polling and by threads, and what the port may interrupt for has
to follow. Correct when bytes come out once and in order, the port is neither
deaf nor silent, and a waiting thread is woken.

### Processes (lab 3, `userprog/process.c`)
State: the list of children, a shared `struct child` with a reference count, a
semaphore and the exit status. Operations: `process_execute`, `start_process`,
`process_wait`, `process_exit`. Hard: parent and child exit, wait and free in
any order. Correct when `wait` returns the status of the child once, never
blocks for ever on a dead child, and the record is freed once, by the last one.

### System calls (lab 3, `userprog/syscall.c`)
State: descriptors and mappings of a process, `fs_lock`. Operations: the
fifteen calls, `syscall_exit`. Interacts with the file system under `fs_lock`
and with virtual memory by locking the frame of each user page it touches.
Hard: a user page may be evicted at any moment it is not locked. Correct when
nothing is left locked by a dead process and mapped files are written back.

### Virtual memory (lab 3, `vm/frame.c`, `vm/page.c`, `vm/swap.c`)
State: the frame table with a lock per frame, the clock hand, a page table of
`struct page` per process, the swap bitmap, present/dirty/accessed bits.
Operations: page fault, eviction, `page_lock`, page deallocation, process
exit. Hard: eviction by one process of a page that another is faulting on,
locking or freeing; swap exhaustion. Correct when a frame belongs to one page,
a page's content is never lost, and slots and frames are given back.

### File system (lab 3, `filesys/`)
Distributed code, used under `fs_lock` by lab 3's system calls. State: the
in-memory inodes with `open_cnt`, `deny_write_cnt` and `removed`, the root
directory, the free map; the references processes hold: descriptors, mappings,
the executable. Operations: create, open, reopen, write, close, remove. Hard:
`process_exit` closes the executable and eviction writes mapped files, both
without `fs_lock`. Correct when the counters equal the references, a running
program is not changed, and sectors are given back once, at the last close.

### Allocators, block layer, libraries, start-up
Code of the distribution that the labs did not change. `lib/kernel/list` is
modelled because the scheduler's order depends on it; for the rest see "Not
modelled" at the end.

## 3. Plan

In this order, the behaviour that everything else rests on first.

| module | contents | abstract specification, theorems |
|---|---|---|
| `KernelLists` (done) | ordered insertion, sort, removal | what they return: proved |
| `Synch` (done) | lab 1 scheduler, semaphores, locks, donation, sleepers | types, mutual exclusion, lists, donation chains, wake-ups, priority order: proved |
| `CondVar`, `Monitor` (done) | condition variables over a lock | implements an abstract monitor: proved |
| `ProcessWait` (done) | exec, wait, exit, reference counts | freed once, by the last; exec and wait tell the truth: proved |
| `Vm` (done) | frames, supplemental pages, eviction, swap, mmap, munmap, exit | content, tables and locks agree, mappings are written back: proved; every fault ends |
| `Files` (done) | inodes, directory, free map, descriptors, mappings, executables, `fs_lock` | counters equal references where no update is lost, only executables can lose one, the free map is exact: proved; next: an abstract file system |
| `Timer`, `AlarmClock` (done) | tick, sleep, time slices, MLFQS in fixed point | implements "sleep n ticks", nobody is outranked for a slice: proved |
| `Serial`, `Fifo` (done) | interrupt queues, serial port, keyboard, console | each queue implements a bounded FIFO, the enabled interrupts match: proved |
| `Lifecycle` | round-robin scheduler of lab 3, thread exit and reuse | every READY thread runs |
| `Lists` | `list_sort` and `list_remove` at the level of `prev`/`next` | implements `KernelLists` when nobody interferes |
| `Pages` | `palloc.c`, whose `palloc_free_multiple` clears bits without the pool's lock, and `malloc.c` | no page has two owners |

`CondVar`, `Timer` and `Serial` take from `Synch` that locks exclude (proved
there) and use locks as atomic steps with preemption between them, so that
each stays small; `Vm` and `Files` do the same with lab 3's locks, which the
labs did not change. `Vm` leaves `fs_lock` and descriptors to `Files`, and
`Files` leaves the content of pages to `Vm`: the one place where they meet,
the writing of a mapped page, is in both. Runs use two or three threads or
processes, one or two locks, two or three priorities: enough for a third party
to interfere between two steps of two others. Each module keeps recursion in
functions or folds so that TLAPS can be used on it.

## 4. What is modelled now

### `KernelLists`
Lists are sequences of elements without duplicates. `list_insert_ordered`
inserts before the first element that is smaller (so equal priorities stay
first-in first-out), `list_sort` is the stable sort in descending order that
the merge sort computes, `list_remove` deletes an element, `list_push_back`
and `list_pop_front` are `Append` and `Head`/`Tail`.

### `Synch`
Variables are the fields of `struct thread`, `struct semaphore` and `struct
lock` that lab 1's code uses, plus `pc`, `arg` and the locals that live across
a preemption (`cur_lock`, `lock_h_t`, `new_pri`, `child`). `status[t] =
"FREE"` is a page that no thread occupies; `thread_schedule_tail` frees the
page of a dead thread at once, and `thread_create` takes any free page, so
that stale pointers and reuse are in the model. `panic` names the panic (or
page fault in the kernel) that ended the run, `"none"` while it runs.

Only `current` takes steps. What runs with interrupts off is one action
(`sema_up` including its yield, one turn of `sema_down`'s loop, `schedule`);
what runs with interrupts on is cut at each access to a field that other
threads use:

| code | actions |
|---|---|
| `sema_down` | `CallSemaDown`, then `DownBlocks`/`DownTakes` (the loop's test is made again after each wake-up) |
| `sema_up` | `CallSemaUp` |
| `lock_acquire` | `CallLockAcquire` (test of `holder`), `RecordBlockedLock`, the loop `ReadHolder`, `DonateSkips` or `DonateComputes` (`DonateTangled`) with `DonateWrites`, `EndsChain` or `ReadsAgain`, `NextInChain`, anywhere in it `DonateFaults`, then `sema_down`, `LockOwn`, `OwnHolder` |
| `lock_try_acquire` | `CallLockTryAcquire`, `OwnHolder` |
| `lock_release` | `LockRelease` (list and new priority), `ReleasePriority`, `ReleaseHolder`, `ReleaseUp` |
| `thread_create` | `CallThreadCreate`, `allocate_tid` with `tid_lock` through the lock's actions and `AllocateTid`, `CreateUnblocks`, `CreateYields` |
| `thread_set_priority` | `CallSetPriority`, `SetPriorityWrites`, `SetOriginalWrites`, `SetPriorityYields` |
| `thread_exit` | `CallThreadExit` |
| `timer_sleep`; `wait` of `intq.c` | `CallSleep` |
| `time_minus` in `timer_interrupt`; `signal` of `intq.c` in a handler | `InterruptWakes`: `thread_unblock` without a yield |
| the timer's end of slice | `Preempt` |
| `idle` | `IdleBlock` |
| `timer_interrupt` with `-o mlfqs` | `MlfqsTick` |
| a device handler that calls `sema_up` | `IntrSemaUp` |

Abstractions, each deliberate:

- `list_sort`, `list_remove` and `list_push_back` on a `lock_list` are atomic
  although interrupts are on. The code has a real race there (hazard at
  `synch.c:231`); it needs a model of the list's pointers.
- Threads take locks in the order of a rank (`Rank`), as a program that wants
  no deadlock does; a lock is released by its holder, and a thread exits
  holding none. These are preconditions of the functions or of any sane
  program, not restrictions on the scheduler.
- A time slice may end at any cut: no slice length is counted.
- `MlfqsTick` may give any priority: the formulas are not part of this module.
- A freed page has priority 0 in the model; no action reads it before
  `init_thread` has written it again, except `CreateYields`, which treats it
  apart (`ChildPreempts`).
- When a sleeper is due is not part of this module (it is `Timer`'s): a handler
  may wake one whenever interrupts are on. `woken` is a ghost: those whom
  handlers have woken since the running thread was chosen.
- Under `-o mlfqs` `lock_release` leaves the lock on `lock_list`, so that the
  next `lock_acquire` of it, by anybody, links its element a second time and
  lists run into each other. `tangled` records this, and the kernel goes on as
  the code does: `lock_list` remains the set of locks linked, and a donor's
  `list_sort` may loop for ever (`"sorting"`, with interrupts on), fail an
  assertion (`panic = "bad_list"`), or return with any lock in front
  (`DonateTangled`). What it writes into links elsewhere is left out.
- `lock_h_t->blocked_lock` is read by the loop's test and by the assignment
  after it; a compiler may read the field once or twice, and both are in the
  model (`NextInChain` from `"chain"` and from `"again"`).

### `CondVar` and `Monitor`
`CondVar` is `cond_wait`, `cond_signal`, `cond_broadcast` and `cond_cmp` over
one lock. Each thread's `struct semaphore_elem` lies on its stack, so the
thread names it: `waiters` is a list of threads and `value[t]` its semaphore's
value. `cond_wait` is cut where it runs with interrupts on: `CallCondWait` (up
to `list_push_back`), `CondWaitReleases`, `CondWaitDowns` (one turn of
`sema_down`'s loop) and `LockAcquire`. `cond_signal` is `CallCondSignal` (test
and sort) and `CondPopUp` (pop and `sema_up`); `cond_broadcast` repeats them
(`CondBroadcastLoops`). A lock is taken and given up in one step, which the
proof of `LockExclusion` in `Synch` justifies.

`cond_cmp` takes `list_front` of a copied semaphore. If its owner sleeps there,
that is the owner; if not, the word read as a priority is whatever the stack
holds, so `SortKeys` lets it be any member of `StackWords`. With `Strict`
only a thread the priority scheduler could pick takes a step; without it any
interleaving is possible. `Monitor` is the abstract Mesa monitor: giving up
the lock and beginning to wait is one step, a signal picks one of those that
wait, a signalled thread takes the lock again. The refinement counts a thread
of `waiters` as waiting from `lock_release` on.

### `ProcessWait`
The hand-shakes of lab 3's processes. A process is a member of `Procs`, its
`struct child` is named by it, and each process has one `share_str` (it can be
in one `process_execute` at a time). Interrupts are on all through this code,
so it is cut at each access to shared memory and each semaphore operation:

| code | actions |
|---|---|
| `sys_exec`, `process_execute` | `CallExec` (takes `fs_lock` unless called by the initial thread), `ExecReturns` |
| `start_process` | `LoadSucceeds` or `LoadFails`, `StartReports` (`share->isrun`), `StartUps` |
| `process_wait` | `CallWait` (list and `list_remove`), `WaitDowns`, then the drop |
| `--ref_cnt` under the lock, `free` | `DropLocks`, `DropReads`, `DropWrites`, `DropFrees`; the same three lines occur three times in `process.c` |
| `sys_exit`, or killed by the kernel | `CallExit` |
| `syscall_exit`, `process_exit` | `ExitCloses`, `ExitStores`, `ExitUps`, the drop, `ExitForgets` for each child left, `ExitDone` |

Abstractions: a list of children is a set (its order only decides which child
is forgotten first); `DropWrites` stores the count and releases the lock in one
step, since the count is touched only with the lock held; `ExitCloses` waits
for `fs_lock` but holds it for no step, as nothing in between blocks; loading
is its outcome. `process_wait` of a tid that is not on the list, and an exec
whose `thread_create` fails, change nothing and are no action. `malloc` leaves
`Garbage` in `store_exit`, and `isrun` of a fresh `share_str` is arbitrary.
A tid, and so a member of `Procs`, is used once.

### `Vm`
A page is a user address of one process together with its `struct page` and
its page-table entry, so `pages`, `frame`, `sector`, `file`, `private` are
fields of the `struct page` and `present`, `dirty`, `accessed` bits of the
entry; `page`, `lock` and `data` belong to a frame, `used` and `swap` to the
swap device. Content is told only by whether it is up to date: a frame or slot
`has q` when it holds what `q` was last written, so that a write makes every
other copy worthless. A step is one access to memory that another process
uses; the places are those of the code:

| code | actions |
|---|---|
| `load_segment`, `setup_stack` | `Load`, which goes on in `frame_alloc_and_lock` |
| the program's loads and stores | `UserReads`, `UserWrites` (present pages; set the accessed and dirty bits) |
| `page_fault` with `page_in`; `page_lock` by a system call | `Faults(p, "fault")`, `Faults(p, "access")`; `Exits` where they refuse |
| `frame_lock` | `StartsFrameLock` (reads `p->frame`), `FrameLockGets`, `FrameLockRechecks` |
| `frame_alloc_and_lock` | `AllocStarts` (`vm_sc_lock`), `Scans` for a free frame, `Clocks` (second chance), `AllocFails` after two turns |
| `page_out` | `PageOutClears` (entry invalid before the dirty bit is read), `SwapOutGetsSlot`, `SwapOutWrites`, `FileWrites`, `PageOutFails`, `PageOutReturns` |
| `install_page_in`, `swap_in` | `Fills`, `SwapInResets` (the slot's bit, without `s_lock`), `SwapInForgets` (`p->sector = -1`), `Maps` |
| `setup_stack` after the frame | `SetsUpStack`: the arguments, through the kernel's address |
| `sys_read`, `sys_write` on the locked page | `KernelAccesses`, with `page_unlock` |
| `sys_mmap`; `sys_munmap`, `unmap` | `Mmap`; `Unmaps`, `UnmapWrites`, `Deallocates` |
| `page_exit`, `page_destroy`, `frame_free`, `pagedir_destroy` | `Destroys`, `FreesPage`, `FreesFrame`, `FreesNoFrame`, `Dies` |

Abstractions: `malloc` and `page_allocate` do not fail; whether an address is
near enough to the stack pointer to grow the stack is left to choice; a
mapping has one page; `fs_lock` is in `Files`. `frames[0]` and the last
initialised frame are useless because `frame_init` increments `f_count` before
it uses it (`frame.c:28`): frame 0 is in the model as a lock nobody can take.
What the code gets wrong without breaking the properties: a slot is not given
back when a page that is in swap is destroyed (`page.c:128`, `182`), a page
that swap had no room for, or that its file refused, is mapped again without
its dirty bit (`page.c:80`; the ghost `spoiled` names these pages, and
`NothingLost` and `WrittenBack` do not speak of them), `page_lock`
dereferences a NULL frame when `install_page_in` fails (`page.c:212`,
`panic`), `setup_stack` never maps the page (the first fault does) and does
not clear it.

### `Files`
An inode is named by its sector. `fds`, `maps` and `bin_file` are the
references of each process; `open_inodes`, `open_cnt`, `deny_write_cnt` and
`removed` the inodes in memory; `dir`, `start` and `free_map` what is on disk.
A file call holds `fs_lock` from beginning to end, and `sys_exec` holds it
while the child loads, so a call is cut only where one of the two users of
inodes without the lock can come between: `process_exit`, which closes the
executable, and the eviction of a mapped page. That is at every access to
`open_cnt` and `deny_write_cnt`. `open_cnt++` reads the counter into a register
(`seen`) and writes it later, and another update between the two is lost; the
ghost `spoiled` has the inodes to which this happened.

| code | actions |
|---|---|
| `inode_open`, `inode_reopen` | `Finds` (`dir_lookup` and the search), then `ReopenReads`, `ReopenWrites`, or `InodeOpens` for a new inode |
| `sys_exec` with the child's `load` | `Loads`, the open, `inode_deny_write`: `DenyReads`, `DenyWrites`, `DenyTests` (the assertion) |
| `sys_create` | `Creates` (in one step: it opens nothing that others share) |
| `sys_open`, `sys_mmap` | `Opens`, the open, `OpenReturns`; `Mmaps` (`file_reopen`), `MmapReturns` |
| `sys_write`, the write of `munmap` | `Writes` |
| `page_out` of a mapped page, by any process | `EvictionTests`, `EvictionWrites`: no `fs_lock` |
| `inode_close` | `CloseReads`, `CloseWrites` (`--open_cnt == 0`), `LastCloses` (list, free map, free) |
| `sys_close`, `syscall_exit` | `ClosesFd` and the close |
| `sys_remove` | `Removes`, the open, `RemoveErases`, then the close |
| `process_exit` | `Exits`; without `fs_lock`: `AllowReads`, `AllowTests` (two assertions), `AllowWrites`, and the close |

Abstractions: one data sector per file, no content and no positions; the root
directory is a function with room for `DirSize` names; `list_remove`, the free
map and the directory change in one step each; seek, tell, filesize and read
change nothing others see. The value that an update has read stays in a
register, which is what `gcc -O` makes of it: the assertions at `inode.c:326`,
`335` and `336` and the test for 0 look at the value read or written, not at
memory again. The model ends where the kernel does: when an assertion fails
(`panic`), or when an inode is freed while somebody uses it (`freed`), after
which everything depends on who gets the memory. A process that died leaves
the file of its mapping open, since nothing closes it, and this counts as a
reference.

What the code gets wrong without breaking the properties of the passing runs:
`filesys_create` loses the data sector when the name exists or the directory is
full (`filesys.c:50-55`, ghost `lost`); nothing closes the file of a mapping;
and an executable can lose an update of its counters, be freed in use and be
written while it runs (ghosts `spoiled`, `freed` and `tampered`; the findings
`find_inode`, `FindDenial.cfg` and `FindExecutable.cfg`). A program may be
mapped, opened, written, removed and created anew in the model as any file may.
`sys_read` of descriptor 0 ends the process in `lookup_file_d`
(`syscall.c:303`) and is not a call of the model. The disk the system starts
from is any well-formed one: each entry of the directory has its own sector,
each file its own data sector, and these and no others are taken
(`DiskAssumption`).

### `Timer` and `AlarmClock`
One `Tick` is the whole of `timer_interrupt` with `thread_tick`: charge the
running thread (`Charged`), every second the load average and all accounts
(`SecondPasses`), every fourth tick the running thread's priority
(`FourthTick`), `thread_foreach (time_minus)` with its wake-ups
(`QueueAfterWakeUp`), and at the end of a time slice the yield. The threads do
`TimerSleep` and `FallsAsleep` (interrupts are off between them, but the field
is set before the thread blocks), `Waits`, `Signals`, `SetNice`; devices do
`Interrupt`; idle does `IdleBlocks`. Semaphores are left at "blocked without
sleeping": that is what the alarm has to leave alone. The fixed-point
arithmetic is the code's, division rounding toward zero, with the number 1
(`f`) as a constant. `AlarmClock` is what `timer_sleep` promises: sleep for n
ticks once asleep, and nobody else is touched.

Bounds: `TIMER_FREQ`, `TIME_SLICE`, `PRI_MAX`, `Minute` and `f` are small;
`ticks` is counted modulo `Period`; `waiting_time` -1 stands for all negative
numbers, so that the wrap after 2^32 ticks of a blocked thread is left out, as
are the truncation of the 64-bit argument of `timer_sleep` (`timer.c:120`) and
the overflow of 32-bit products (`thread_get_recent_cpu` multiplies by 100 and
overflows once `recent_cpu` exceeds 1310). Threads of different `nice` starve
each other by design in a small instance (with `Nices = {0, 1}` `NoStarvation`
is false).

### `Serial` and `Fifo`
`intq["tx"]` is `serial.c`'s queue, `intq["rx"]` the buffer of `input.c`.
`AcquiresConsole`, `Puts`, `ReleasesConsole` are a thread that prints;
`Reads`, `Gets` one that calls `input_getc`; `LockGets`, `LockReleases` the
waiting in `intq.c`; `PrintsUninterrupted` a byte printed with interrupts off,
which empties a full queue by polling; `Flushes` `serial_flush`;
`SerialInterrupt` and `KeyPressed` the two handlers; `Arrives` and
`Transmitted` the port. Threads only put into one queue and get from the
other, so each has one kind of waiter. The code before
interrupts are on (polled mode) and scan codes are left out. `Fifo` is a
bounded queue; the one to transmit may also be emptied at once
(`serial_flush`), the one for input may not (`Flushable`).

## 5. Runs

Each configuration instantiates an `MC` module, which only gives the constants
values. In `MCSynch`'s runs `MaxValue` bounds how far a semaphore counts;
everything else is bounded by the constants themselves. The threads other than
`Main` are interchangeable there (no definition tells them apart), and only
invariants and action properties are checked, so these runs use
`ThreadSymmetry`, the permutations of `Threads \ {Main}`. No other run uses
symmetry, since most check liveness. Deadlock checking is on where the system
cannot stop (idle always has a step, and `Vm` stutters once it has stopped);
`process_wait` and `files` turn it off because a system in which everybody has
exited stops, `serial` because nothing moves after a panic.

| run | instance | what it shows |
|---|---|---|
| `sched_semaphores` | 3 threads, all of which may sleep, priorities 0..2, `thread_set_priority`, one semaphore to 2, no shared lock but `tid_lock` | until a thread donates the ready list is sorted and the running thread is highest, threads aside that a handler woke since it was chosen (`StrictPriority`); no wake-up is lost although woken threads compete again (`NoLostWakeup`); no sleeper is out of reach (`BlockedReachable`) |
| `locks_and_donation` | 3 threads, priorities 0..2, one lock and `tid_lock` | `TypeOK`, `ElemUsedOnce`, `LockExclusion`, `LockListHeld`, and `HighestWaiterWoken`: the thread taken off a wait list is the highest of the waiters at that moment; a thread may hold the lock and wait for `tid_lock`, so that a donor follows a chain of two holders, which ends (`DonationChainsEnd`) |
| `mlfqs_devices` | 2 threads, `-o mlfqs`, sleeping, `lock_try_acquire`, a device interrupt | locks exclude there too (`LockExclusion`), also after the lists of held locks have run into each other |
| `cond_monitor` | 3 threads, priorities 1..2 that change at any time, any interleaving; weak fairness of the steps that finish a call, while all priorities are equal | `ImplementsMonitor`: `CondVar` refines `Monitor`; `SignalPending`: a signal is kept for a thread that has not reached its semaphore; `SleepersByPriority`: sleeping waiters are signalled by present priority; `BroadcastReaches`: if the priorities are equal from some time on, a broadcast reaches all who waited |
| `process_wait` | the initial thread and 2 processes, each of which may start, await, forget and outlive the others; fairness | a `struct child` is live while referred to and freed once, by the last (`FreedExactlyOnce`, `CountsReferences`); nobody writes to a `share_str` that is gone (`ShareThere`); exec and wait report the truth (`ExecTells`, `WaitReturnsStatus`) and come back (`CallsReturn`) |
| `vm` | 2 processes, one with a stack page, one with a stack page and another that is code, data or a mapping; 2 usable frames, 1 slot | a present page is where both sides say and has what was last written (`PresentCurrent`), a page in no frame can be had again (`NothingLost`), slots, frames and frame locks belong to one page or one process (`TablesAgree`), and a mapping that goes away is written back (`WrittenBack`) |
| `vm_faults` | 2 stack pages, 1 usable frame, 1 slot, fairness | every fault ends, in the program or in its death (`FaultReturns`) |
| `files` | 2 processes, a program and a document, 4 sectors, 2 directory entries, 1 descriptor per process and file, 1 mapping per process; fairness | counters equal references and denials where no update was lost (`CountsExact`), only executables lose one or are freed in use (`DocumentsUnharmed`), the free map is exact (`FreeMapExact`), an exiting process gets `fs_lock` as often as it needs and dies, unless the kernel goes down first (`ExitEnds`) |
| `timer` | 3 threads and idle, all sleepers, one of which waits for events too; with and without `-mlfqs`, where one never sleeps | `Timer` refines `AlarmClock` (`AlarmImplemented`); a thread that outranks the running one waits less than a time slice (`OutrankedBriefly`); no thread starves under `-mlfqs` among others of equal `nice` (`NoStarvation`) |
| `serial` | a writer and 2 readers, 2 bytes, buffers of 2 | both queues refine `Fifo` (`QueuesKeepOrder`), the enabled interrupts are exactly those needed (`InterruptsMatchQueues`), waiting threads are woken (`WaiterWoken`) |
| `find_unmap`, `find_inode` | that of `vm` with more frames and slots; that of `files` with 6 sectors | a disagreement of the code with its comments each, see below |

Why the bounds are enough. Three threads are a lock's holder, a waiter and a
third that interferes; two locks and three threads make the longest chain of
holders without repetition; priorities 0..2 give idle's, and two that differ,
so that a donor, a holder and a thread in between all exist. In `mlfqs_devices`
two threads suffice for each to take the lock again after the other, which is
when the lists tangle, in any place of the other's call. In `cond_monitor`
three threads are a signaller and two waiters whose order the sort decides. In
`process_wait` three processes make a grandparent, a parent and a child, or a
parent with two children. In `vm` two frames for three pages make each process
evict the other's page and its own, and one slot is full after the first
eviction, so that `swap_out` fails as well as succeeds. In `files` two
processes share one program and one document, each of which may be mapped,
removed while it is open and created again, so that one process closes in
`process_exit` what the other loads, opens, maps or removes; four sectors let
`free_map_allocate` succeed, beside an old file that is removed and still open,
and fail. (With six sectors the safety properties hold as well, and they are
theorems; liveness takes too long there.) In `timer` a second of 3 ticks and a
slice of 2 let them coincide and not; a sleep of 2 ticks takes one that wakes
nobody; without `-mlfqs` all threads may be blocked and idle runs, with it one
thread always has something to compute, which keeps the accounts within a size
TLC can search. In `serial` a buffer of 2 bytes is empty, half full and full,
and its head wraps. (With two writers the properties hold as well; the run is
left out because it takes longer.)

Fairness. `ProcessWait` assumes weak fairness of the steps that finish a call
already made, never of making one: lab 3's scheduler is round robin. Lab 1's is
so among threads of one priority, since `thread_yield` puts the running thread
behind its equals; with two priorities the lower one may wait for ever. `CondVar`
therefore assumes weak fairness of such a step only for as long as all
priorities are equal (`SamePriority`), and `BroadcastReaches` is about the runs
in which they are equal from some time on.
Steps of `ProcessWait`, `Vm` and `Files` that take a lock have strong
fairness: waiters of equal priority are woken first-come first-served and lab
3's scheduler is round robin, so a thread cannot find the lock taken for ever
while it is given back again and again; their other kernel steps have weak
fairness, user code has none. `Timer` assumes that ticks keep coming: the 8254
never stops. `Serial` assumes that the port transmits what it was given and
that its interrupt is served once it is raised.

### Findings

Each is shown by a run or a configuration in which TLC violates one property
that a comment, an assertion or a document states. Two are runs of
`PROJECT.json`, which quotes the line:

- `find_unmap`, `UnmapFindsPage` - `munmap` reads a dirty page through its user
  address without locking it; if it was evicted, or the dirty bit is that of an
  earlier mapping at the same address, the page is not present and the kernel
  dies of the fault (`syscall.c:495`).
- `find_inode`, `OpenStaysOpen` - `process_exit` closes the executable without
  `fs_lock`, so that `inode_close` of the last reference and `inode_open` by
  another process leave the latter with a freed inode (`inode.c:171`).

Nine more, seven of them of lab 1's scheduler, have a configuration to run by
hand (`tlc -config FindHolderGone.cfg MCSynch`, `FindCondOrder.cfg` with
`MCCondVar`, the last two with `MCFiles`):

| configuration | property | what the code does |
|---|---|---|
| `FindHolderGone.cfg` | `HolderStillThere` | `lock_acquire` dereferences a holder that released the lock, or died, after the test (`synch.c:224`) |
| `FindNoDonation.cfg` | `DonationReaches` | `max_pri` is never lowered, so a second contention may donate nothing (`synch.c:226`) |
| `FindStaleBoost.cfg` | `BoostJustified` | for the same reason a thread can run at the priority of a donor that left long ago (`synch.c:302`) |
| `FindUnsorted.cfg` | `ReadyListSorted` | a donation to a READY thread leaves it at its old place in the ready list (`synch.c:236`) |
| `FindMlfqsList.cfg` | `LockListHeld` | with `-o mlfqs` released locks stay on `lock_list` (`synch.c:291`) |
| `FindChildGone.cfg` | `ChildStillThere` | `thread_create` reads the new thread's priority after it may have exited (`thread.c:223`) |
| `FindCondOrder.cfg` | `HighestSignalled` | `cond_cmp` compares stack garbage as the priority of a waiter that has released the lock and not reached its semaphore (`synch.c:431`), so that a signal may go to a lower-priority thread |
| `FindDenial.cfg` | `AssertionsHold` | `process_exit` reads `open_cnt` of the executable without `fs_lock`, another process opens it and counts itself in, and the close writes back what it read, less one; `inode_deny_write` of the other finds more denials than openers, and its assertion stops the kernel (`inode.c:326`) |
| `FindExecutable.cfg` | `ExecutableIntact` | the eviction of a page of a mapped file tests `deny_write_cnt` without `fs_lock`, a process loads the file, and the write changes a program that runs (`page.c:83`), against the comment of `file_deny_write` (`file.c:116`) |

Others are in the models without a configuration of their own: `sema_up` ends
in `thread_yield`, which asserts `!intr_context ()`, although the comment at
`synch.c:116` allows calling it from an interrupt handler and `ide.c:517` does
(`IntrSemaUp` stops with `panic = "intr_yield"`); `lock_release` after
`lock_try_acquire` removes an element that is in no list (`synch.c:293`,
`panic = "not_in_list"`), which no caller in the repository does; with two
readers the assertion at `intq.c:91` fails, because `lock_release` lets the
second go on before the first has taken the byte (`panic` of `Serial`), and
nothing in lab 1 reads the keyboard from two threads; and what section 4 says
of `Vm` and `Files`.

## 6. Proofs

`KernelListsProofs` states what the list operators return for every list and
every integer-valued key: insertion adds exactly its element, sorting permutes
and orders, removal takes out one. Sequences are handled by positions
(`InsertAtPlaces`, `SortedPositions`), because induction on lists is out of the
prover's reach.

Every safety property that a passing run checks, and every refinement, is also
a theorem. The inductive invariants below were checked by TLC on the instances
of the runs before they were proved; each proof has one lemma per action or
group of actions, and under it one step per conjunct that the action disturbs.

`SynchProofs` proves, for any number of threads, locks, semaphores and
priorities (`SynchAssumption` is the only assumption, and every run's instance
satisfies it):

| theorem | property | inductive invariant |
|---|---|---|
| `TypeCorrect` | `TypeOK` | `Types`: with it, what a thread's `arg` and `child` point to at each place (`LocalsFit`) |
| `MutualExclusion` (also with `-mlfqs`, after the lists of held locks have run into each other) | `LockExclusion` | `Locking`: with it, a thread inside `lock_release` is still the holder (`ReleasersHold`) |
| `ListedLocksHeld` (without `-mlfqs`) | `LockListHeld` | `Holdings`: with it, a lock is on a `lock_list` once (`ListsOnce`), and off it once its release has begun (`ReleasedOff`) |
| `ChainsEnd` | `DonationChainsEnd` | `Chains`: `blocked_lock` is set only while its thread asks for that lock (`BlockedWaits`), the lock ranks above all the thread holds (`RankRises`), or it is `tid_lock`, whose holder asks for nothing (`TidHolderBusy`) |
| `ElemOnOneList` | `ElemUsedOnce` | `Listing` |
| `NoThreadForgotten` | `BlockedReachable` | `Listing`: the lists are exact, a dead thread waits for nothing, each thread under creation is BLOCKED and has one creator, and each BLOCKED thread is found, or sleeps until a handler wakes it |
| `WakeupsKept` | `NoLostWakeup` | itself, with `Types` and `Listing` |
| `HighestWoken` | `HighestWaiterWoken` | `Types` and `Listing`; an action property |
| `StrictlyByPriority` (without `-mlfqs`) | `StrictPriority` | `Donating /\ Order`, with `Types` and `Listing` |

`LockExclusion` alone is not inductive: `lock_release` clears `holder` of the
lock in `arg`, and only `ReleasersHold` says that this lock was the caller's.
`ElemUsedOnce` alone is not inductive either: `thread_create` unblocks a thread
that must still be BLOCKED, on no list, and known to nobody else. `LockListHeld`
needs `ListsOnce` because a second link of the same lock would stay behind when
the first is removed. `HighestWoken` does not need the wait list to be in any
order, and it is not, as priorities change while threads sleep: `sema_up` sorts
first, and `ListSortElements` says what the sort returns. `StrictPriority`
speaks of a thread outside the kernel's calls; `RunsFirst` of `Order` extends it
to a thread inside them, except on its way to a yield (`Loose`) or between
`thread_unblock` and the comparison in `thread_create`. Both exempt the threads
in `woken`, which a handler of the timer or of a device unblocked without
yielding since the running thread was chosen; how long these wait is
`OutrankedBriefly` of `Timer`.

`StrictPriority` says "until a thread donates": even where programs take no
locks, two threads in `thread_create` contend for `tid_lock`, and a donation
over it to a READY thread leaves the ready list unsorted. Three threads are too
few for this, so that only the attempt to prove the property without this
condition showed it. `NothingDonated` (the `max_pri` of every lock is 0) is the
condition.

`CondVarProofs` proves, for any threads, priorities and stack contents
(`CondVarAssumption`), `NoSignalLost` (`SignalPending`), `MonitorImplemented`
(`ImplementsMonitor`) and `TypeCorrect` (`TypeOK`, which is therefore not
listed in a run), and the action property `SleepersSorted`
(`SleepersByPriority`). The invariant `Inv` says who holds
the lock at which place, that the list has no duplicates and only threads
inside `cond_wait`, and which of them has a token; under it each step is one of
`Monitor`'s or a stutter. That the sort keeps the elements of the list,
whatever keys it reads, is `ListSortElements`.

`ProcessWaitProofs` proves, for any number of processes (`ProcessAssumption`):

| theorem | property | parts of the invariant it rests on |
|---|---|---|
| `NeverUsedAfterFree`, `FreedOnce`, together `ChildFreedExactlyOnce`; `ReferencesCounted` | `NoUseAfterFree`, `NoLeak`, `FreedExactlyOnce`; `CountsReferences` | `Counted`: the count is right, a count read under the lock is still right when it is written (`Locked`), at most one process has read 0; `Family`: who works on a `struct child` is its process or its parent |
| `ShareStillThere`, `ExecReports` | `ShareThere`, `ExecTells` | `Starting`: one child at a time uses a `share_str`, and `isrun` agrees with `share->child` once reported |
| `WaitReturns` | `WaitReturnsStatus` | `NotPosted`, `Told`: the semaphore is 0 until the status is stored, which then never changes |
| `TypeCorrect` | `TypeOK` | all of it: that `ref_cnt` stays at 0 or above is a consequence of `Counted` |

None of these is inductive alone: that the one who reads 0 is the only one
needs the count to be exact, and that needs the lock to exclude and each
process to drop a `struct child` once. There is one lemma per part, with one
step per action.

`VmProofs` proves, for any number of processes, pages, frames and slots
(`VmAssumption`), `TypeCorrect` (`TypeOK`), `AlwaysCurrent` (`PresentCurrent`),
`ContentsKept` (`NothingLost`), `TablesAlwaysAgree` (`TablesAgree`) and the
action property `AlwaysWrittenBack` (`WrittenBack`) from one invariant. It has
to say for every place of the code what a process that was interrupted there
may rely on:

| part of `Inv` | what it says |
|---|---|
| `Locals`, `Reasons` | a process works on its own page, and for one of the reasons that lead to its place |
| `Holding` | a frame is locked by the one process that is at work on it |
| `Residence` | `frame[q] = f` and `page[f] = q` go together, but for the frame being freed; a page that is being brought in is in no frame before it gets one |
| `Slotted` | no two pages share a slot, and it is in use; a page in a frame has one only while somebody who locks the frame swaps it in or out. Exempt is a page whose `swap_in` has cleared the slot's bit and not yet forgotten the slot (`Forgetting`, between `swap.c:41` and 42): another page may have the slot by then |
| `Backed` | stack pages have no file and mappings do; what is evicted to a file has one |
| `Presence` | a present page is in a frame or its owner is exiting; an evictor's page is no longer present |
| `Contents` | a page in a frame has its content there, or it is being filled; a page in no frame has it in its slot or file; a clean page with a file equals the file |

`Contents` needs the rest: that an eviction copies the frame before anybody
writes it again needs `Presence`, that nobody else fills it needs `Holding`, and
that its slot is not written for another page needs `Slotted`. `spoiled` pages
are excluded, as in the properties themselves.

`SerialProofs` proves, for buffers of any size, any bytes and threads
(`SerialAssumption`), `TypeCorrect` (`TypeOK`), `AlwaysMatch`
(`InterruptsMatchQueues`) and `QueuesImplementFifo` (`QueuesKeepOrder`): each
queue is a bounded FIFO, the one for input without the step that empties it,
and each step of the driver is one of its steps or a stutter. The invariant is
the first two together. That a put appends to, and a get takes the first of,
what lies between `tail` and `head` is arithmetic modulo the buffer's size,
done once in `RingPlaces`, `PutAppends` and `GetTakesFirst`.

`TimerProofs` proves, for any threads, time slices, numbers of ticks and
fixed-point parameters (`TimerAssumption`), `TypeCorrect` (`TypeOK`),
`OutrankedForLessThanASlice` (`OutrankedBriefly`) and `TimerImplementsAlarm`
(`AlarmImplemented`: the refinement of `AlarmClock`, step by step). The
invariant is `TypeOK /\ Running /\ Doing /\ Prompt`. `OutrankedBriefly` alone
is not inductive: `Prompt` says that who is outranked has waited no longer than
the present slice has run, and that the ready list is sorted, so that the yield
at the slice's end takes the highest. `Doing` ties `waiting_time` to what each
thread is doing, so that the clock wakes sleepers only.

`FilesProofs` proves, for any processes, files, sectors and well-formed initial
disk (`FilesAssumption`, `DiskAssumption`) and without further hypotheses,
`TypeCorrect` (`TypeOK`), `CountsStayExact` (`CountsExact`),
`DocumentsStayUnharmed` (`DocumentsUnharmed`) and `FreeMapStaysExact`
(`FreeMapExact`). One invariant,
`TypeOK /\ CountsExact /\ DocumentsUnharmed /\ Disk /\ (freed = {} => Sound)`,
carries them; `Sound` is what the places of the code rely on, until the first
inode is freed in use:

| part | what it says |
|---|---|
| `Locks` | a call that opens, removes or closes has `fs_lock`, or is in `process_exit` and at work on the executable; where it goes on afterwards |
| `Executables` | who runs which file, and that a file that somebody runs or has run is in `ran` |
| `Locals` | what `dir_lookup` and `inode_open` found is still true; the inode a call works on is in memory |
| `Fresh` | a counter that has been read is still as it was, unless somebody has run the file |
| `Disk` | the free map is exact, and names lead to files that are not removed |

`CountsExact` alone is not inductive: without `Fresh` the second half of
`open_cnt++` could undo another's, and without `Locals` an open could count a
reference to an inode that has gone meanwhile. That a document, a file nobody
has run, loses no update is `Locks`: only `process_exit` touches counters
without `fs_lock`, and only those of the executable.

What stays with TLC is the liveness: `BroadcastReaches`, `CallsReturn`,
`FaultReturns`, `ExitEnds`, `NoStarvation`, `WaiterWoken`. Fairness is
stated with ENABLED, which the prover does not support. No liveness is
stated of `Synch`: with strict priorities a low thread may starve by design,
so that fairness of threads is not something this scheduler gives. The
library's induction theorems are out of the provers' reach too; where a proof
needs induction it takes the least counterexample instead (`QueueUpToSteps` for
the threads `thread_foreach` comes to, `LeastSector` for the first free sector),
or the operator is written without recursion (`list_sort`, `References`).

## 7. Not modelled

The map covers a small part of the lines under `src/`, and most of the rest
never will be: the directory holds six copies of Pintos, of which the labs
changed a few thousand lines in all, and the models follow lab 1 (`lab1/zhk`)
and the last version of labs 2 and 3 (`pintos3_all_passed`) only. The other
copies are the distribution, or earlier states of the same solution whose
models would repeat these.

- Memory allocators (`palloc.c`, `malloc.c`): distributed code; planned.
- Pointers of the kernel lists: planned; until then the race at `synch.c:231`
  is outside the model.
- The round-robin scheduler of labs 2 and 3: planned. `ProcessWait`, `Vm` and
  `Files` allow any interleaving, which includes all of its own.
- ELF loading, argument stack, decoding of system call arguments, hash tables,
  bitmaps beyond the set they stand for, `printf`, strings: sequential data
  handling without state that processes share.
- Page directories' two levels, TSS, GDT, IDT, PIC, drivers other than the
  serial port and the keyboard, boot loader, start-up, calibration of delays:
  port I/O, tables for the processor, and code that runs once.
- Crashes: the file system keeps no log and does not recover, so there is
  nothing to state about one.
- Tests, examples, utilities, documents, lab 0 (exercises), lab 4 (empty).
