# A TLA+ model of MiniKernel-SO-UCV

MiniKernel simulates a small multiprogrammed machine: a decimal CPU with memory
protection, a kernel with a fixed process table and round-robin scheduling, a
disk, a DMA controller that runs in threads of its own, and a shell. This
directory models its control in TLA+, checks it with TLC and proves its main
safety properties with TLAPS. File names below are those of `src/src/`.

## 1. Inventory

| Component (files) | State | Operations | Talks to | What makes it correct | Modules |
|---|---|---|---|---|---|
| Kernel tables and scheduler (`kernel.c`, `kernel.h`) | `process_table`, `partitions_bitmap`, `ready_queue` with `rq_head`, `rq_aux`, `rq_count`, `current_pid`, `system_ticks`, `file_table` | `kernel_init_structures`, `enqueue_ready`, `dequeue_ready`, `create_process`, `find_free_partition`, `schedule`, `kernel_handle_interrupt` (clock, fatal, IO_END, four system calls) | called by the loader, the shell and the interrupt sequence; calls `dispatch` and `dma_get_state` | the queue holds exactly the ready processes; one process owns the CPU; partitions are not shared; FIFO turns of a whole quantum; sleepers wake | `Fifo`, `Kernel`, `MiniKernel`, `ReadyRing`, `Multiprogramming` |
| Interrupts and the instruction cycle (`cpu.c`, `cpu.h`, `brain.h`) | `context`, `interrupt_pending`, `interrupt_code_val`, `cycle_counter` | `cpu`, `cpu_interrupt`, `handle_interrupt`, `dispatch`, `mmu_translate`, one case for each opcode | `kernel_handle_interrupt`, `dma_handler`, the bus | contexts saved and restored; processes never in kernel mode; a trap reaches its own process and is not lost; a process stays in its partition | `MiniKernel`, `Memory` |
| Arithmetic unit (`cpu.c`) | AC and CC of `context` | `sm_to_int`, `int_to_sm`, the four operations, comparison | the instruction cycle, system call 3 | results exact or saturated, and flagged | `Alu` |
| Loader (`load.c`, `load.h`) | the words on disk and in RAM | `parse_program_file`, `write_program_to_disk`, `load_program_to_disk`, `load_program_to_ram` | kernel tables, disk, memory | what is loaded is what was in the file; images do not run over each other | `MiniKernel`, `Images`, `Memory` |
| Shell (`main.c`) | `proxima_pista_libre`, the list of programs loaded | `ejecutar`, `reiniciar`, `apagar`, `ps`, `memestat`, the `cpu()` loop | everything | a session starts from consistent tables; the loop ends when nothing is active | `MiniKernel` |
| DMA controller (`dma.c`, `dma.h`) | the registers, `BUSY`, `STATE`, `dma_thread`, `dma_thread_running` | `dma_handler`, `dma_perform_io`, `dma_get_state`, `dma_destroy` | bus, disk, `cpu_interrupt`; a thread for each transfer | one transfer at a time; STATE tells the truth; it always ends; the shutdown waits for it | `Dma`, `MiniKernel`, `Memory`, `Images`, `Locks` |
| Bus and memory (`bus.c`, `memory.c`) | an array under `bus_lock` | read, write | CPU, DMA, loader | mutual exclusion, bounds | `Memory`, `Locks` |
| Disk (`disk.c`) | an array under `disk_lock` | read, write a sector, initialise | DMA, loader | geometry respected, mutual exclusion | `Images`, `Locks` |
| Log (`log.c`) | a file under `log_lock` | `write_log` | everybody | output only; its mutex is the innermost | `Locks` |

What is hard to test here:

* two threads share the interrupt latch and the DMA flags without a lock;
* `current_pid` may be nobody, with the `cpu()` loop still running in kernel mode;
* `schedule()` is entered from the clock, from a process that ends, from one that
  sleeps, and from the shell with a process already RUNNING;
* the CPU may stop in the middle of a process and leave every table as it was to
  the next `ejecutar` or `reiniciar`;
* a load that fails half way goes on with what it took;
* the address and the sector of a transfer are those the DMA finds 20 ms after it
  was started, whoever runs, or lives in that partition, by then;
* four mutexes, nested, and one of them initialised again while it may be held.

`PROJECT.json` lists each of these hazards, and the smaller ones, at its line, with
the properties that are about it.

## 2. Modules

| Module | Models | Uses |
|---|---|---|
| `Fifo` | `enqueue_ready` as an operator on a bounded sequence of pids | |
| `Kernel` | the tables and the scheduler of `kernel.c` | extends `Fifo` |
| `MiniKernel` | the whole program, one step per call of `cpu()`, per program loaded, per shell command and per step of a DMA thread that the kernel can see | extends `Kernel`; implements `Multiprogramming` |
| `Multiprogramming` | abstract: what the processes are promised, with no tables | extends `Fifo` |
| `ReadyRing` | the ready queue as it is stored, with its indices | extends `Fifo`; implements `ReadyFifo` |
| `ReadyFifo` | abstract: the queue the rest of the kernel may rely on | extends `Fifo` |
| `Alu` | the conversions and the arithmetic of `cpu.c`, with the width of an int | |
| `Memory` | who writes which cell of RAM: MMU, stack, loader, DMA, restart | |
| `Images` | the disk, the file table, program images written and read back | |
| `Dma` | `dma.c` and the interrupt latch, with every unlocked access a step | |
| `Locks` | the four mutexes and the order in which they are taken | |
| `MC...` | values of the constants | extend their module |
| `KernelProofs` | theorems of `MiniKernel` for every session | extends `MiniKernel` |
| `SchedulerProofs` | theorems of `MiniKernel` for sessions with clean restarts | extends `KernelProofs` |
| `RingProofs`, `AluProofs`, `MemoryProofs`, `ImagesProofs`, `DmaProofs`, `LocksProofs` | theorems of the module they are named for | |

The state the modules have in common is tied together as follows. `Kernel` and
`ReadyRing` see the queue through the same two operators of `Fifo`, so that what
`ReadyRing` implements is what `Kernel` is written with. `Memory` lets any live
process execute at any moment, which covers every schedule of `MiniKernel`, and its
`Load` takes from `MiniKernel`'s `PartitionsOwned` that no live process has the
partition. `Locks` takes from `Dma`'s `OneTransfer` that a transfer thread is
created with no other one in its transfer.

### `Kernel`

The header of the module gives the counterpart of each C variable. Three of them
are abstracted:

* `ready_queue` is the sequence of pids between head and tail. `Enqueued(q, w)` is
  `enqueue_ready` for every pid of `w` in turn, with its bound: what does not fit is
  dropped and its state not changed (`MarkedReady`).
* `system_ticks` and `wake_time` are only ever compared, so the model keeps the
  difference.
* `quantum_counter` is that of the running process: `schedule()` clears it
  before every dispatch.

`Schedule(st, q)` is `schedule()` entered with the process states `st` and the
queue `q` as the caller has left them, and `OnClock`, `Terminate` and `Sleep(n)` are
the branches of `kernel_handle_interrupt` that end in it. So each of them is one
step, whatever the code does in the middle.

### `MiniKernel` and `Multiprogramming`

`phase` says where `main()` is. In phase "running" one call of `cpu()` is one
step: it counts the cycle, may latch the clock, and then either executes one
instruction (`Executes`) or runs the whole interrupt sequence (`Attending`). The
exception is system call 3, which waits in `scanf` in the middle of the handler
and takes two steps, since the DMA thread runs in between. Programs are abstract:
a process may at any time execute any class of instruction of `Effects` and make
any call of `Calls`. With no current process the CPU executes whatever words its
PC runs over: `IdleEffects`.

`Ejecutar`, then one of `LoadOk`, `LoadStops`, `LoadFails`, `AddFails` for each
program, then `EndOfList`, are `cmd_ejecutar` up to its loop. The four loads are
its four outcomes, each with what it takes and does not give back. A program
already in the file table is not written to disk again.

`DmaTransfer`, `DmaNotifyFlag` and `DmaNotifyCode` are the moments of a transfer the
rest of the program can see: `cpu_interrupt` writes its two variables without a lock,
so the DMA thread's two writes are two steps, between which `pending` is whatever
code was last written (`interrupt_code_val`), attended or not. Those of the CPU
itself are within one call of `cpu()`; how the DMA's fall inside of one is in `Dma`.
Two history variables record facts that no C variable holds:
`behind`, the processes with instructions executed that their PCB does not know of,
and `raised_by`, the process whose instruction raised the pending code.

`Multiprogramming` has no process table, bitmap, state, quantum or interrupt. It
has who holds the CPU, who waits and in which order, who sleeps, and the partition
of each process. It says that the CPU passes to whoever has waited longest, that
only the process that holds it can be put to sleep or ended, that sleepers come
back behind those that wait, that partitions are private, and that a restart comes
only with nobody on the CPU or in the queue, and ends all who sleep. The refinement
mapping `Promise` reads these off the tables, so the program keeps the promise
only as long as queue, states, `current_pid` and partitions agree.

### `ReadyRing`

`enqueue_ready` and `dequeue_ready` index by index. `Move` stands for every other
assignment to a process state. `Contents`, the pids between head and tail, is the
refinement mapping to `ReadyFifo`.

### `Alu`

One action per instruction that computes, over AC and CC, with the word its operand
stands for. The word may be any int a cell can hold, signed zeros and sign digits
that are none included. C's truncating division, the sign digit and the
narrowing of a product to `int` are as in the code; `MAG` and `INT_MAX` stand for
10^7 and 2^31 - 1. `last` is history: the exact result.

### `Memory`

`home[p]` is the partition of a live process, which stands for RB and RL; `SP` and
the DMA's `ADDRESS` are physical. Words are left out; the cells each step writes
are kept in `written`, with the process on whose behalf. Each of the ways in which
the code can write RAM has its own bounds there, as it has its own in the code:
`mmu_translate`, `PSH`, `POP`, `kernel_pop_stack`, `SDMAM`, `SDMAON`, the loader.

No conduct is assumed of programs. The code's own guards leave ways out of a partition
open, and the properties name them all, each with a history variable to tell it by:

* the kernel pops the parameter of a system call that was never pushed
  (`kernel.c:500` only compares SP with RAM), after which PSH writes above the
  partition: `overdrawn`;
* a program may be longer than its partition (`load.c:418` stops at the end of RAM
  only): written.how = "overlong load";
* SDMAM has no lower bound (`cpu.c:802`), the DMA's one set of registers belongs to
  nobody, and a transfer reads them late, when they may have been set again or its
  process may have ended, as the one of `test_io.txt` does right after its SDMAON:
  `aimed_by`, `asked_by`, `retargeted`.

### `Images`

Sectors are records of track, cylinder and sector; a word on disk is its value
after the eight characters of a sector and `atoi` (`Stored`). `LoadToDisk` and
`LoadToRam` follow the two walks of `load.c` sector by sector. `proxima_pista_libre`
goes up by one for each program and survives `reiniciar`. That no image is longer
than a track is the assumption `TrackAssumption`: the 1000 words of the loader's
buffer (`load.c:11`) are exactly the 10 cylinders of 100 sectors of one
(`disk.h:7-9`), and the next program starts on the next track. `MemoryToDisk` is the
transfer that may hit any sector; `scribbled` remembers which were hit.

### `Dma`

The main thread walks through `main`: shell, tick, the two writes of
`cpu_interrupt`, the test of the flag, `handle_interrupt`, the kernel, the clearing
of the flag, the instruction, `pthread_create`, `pthread_join`, the destruction of
the lock. Each transfer thread walks through `thread[t]`: the sleep and the locked
transfer, the two writes of `cpu_interrupt`, the unlocked `dma_thread_running = 0`.
What the lock protects is one step. The registers are in range or not (`valid`),
may change while a transfer waits to read them, and a transfer with valid
registers may still fail at the bus or at the disk. An instruction may raise any
code of `brain.h` through the same latch as the threads (`TrapFlag`, `TrapCode`). `good` is history: how the last
transfer that ended did.

### `Locks`

What the critical sections do is in the other modules; here is which mutex a thread
may ask for while it holds which others (`Under`, `Outside`), read off the calls.
`Take` and `Leave` are lock and unlock. `restart` is where the main thread is in
`cmd_reiniciar`: `mem_init` and `init_kernel` in the RAM without `bus_lock`, the `memset` of
the disk without `disk_lock`, and then the initialisation of that mutex, whoever
holds it. `bus_init` is not called again and `dma_init` does nothing. The destruction
of the mutexes by `apagar` is in `Dma`, after the wait of `dma_destroy`.

## 3. What is checked

| Run | Question | Bounds | Distinct states |
|---|---|---|---|
| `core_sched` | Does the scheduler keep queue, turns, alarms, contexts and traps right in every interleaving of system calls, faults and clock, does every ready process run and every sleeper wake while somebody runs, and does it all implement `Multiprogramming`? No stops, no DMA. | 4 processes, 4 partitions, quantum 2, sleeps up to 3 ticks, `FairSpec` | 26 122 |
| `core_tables` | Are the tables consistent, and is the promise kept, after every outcome of loading and after restarts between sessions in which no program stops the CPU? | 3 slots, 4 partitions, 4 tracks, sleeps of 1 tick, five programs: three small, one larger than a partition that fills a track, one unreadable | 697 787 |
| `machine` | With every class of instruction, masked interrupts, the idle CPU in kernel mode, transfers and their two writes, a CPU that stops in mid process and is started again, and restarts with pids in the queue: is user mode with a process, does nobody ready wait for an idle CPU, is nobody marked RUNNING but the one that is current, and is the dequeue from an empty queue out of reach? | 3 processes, 2 partitions, sleeps of 1 tick, two threads about to notify | 2 065 722 |
| `dma` | One transfer at a time, no false success, the DMA always becomes free and the shutdown always ends | 3 threads alive at once, `FairSpec` | 216 205 |
| `ring` | Are the indices of the ready queue a queue, through wrap-around, full and empty? | 3 slots | 101 250 |
| `alu` | Is what is left in AC exact or saturated, and does CC agree, in every order of instructions? | words of one digit and a sign, ints of six bits | 997 |
| `memory` | Are the ways out of a partition, and into the cells of the system, the ones the properties name, whatever the programs do? | 2 processes, 3 partitions of 2 cells, 2 cells of the system, addresses from 3 below to 1 beyond a partition, images up to more than two partitions | 736 657 |
| `images` | Is an image on disk, and what is loaded of it, what the file says? | 3 tracks of 4 sectors, words of 2 characters, five programs, one transferred word | 14 454 |
| `locks` | Is there no circular wait, and does the CPU always get what it asks for? | CPU and 2 threads, `FairSpec` | 2 870 |

Why the bounds are enough. With three processes one runs, one waits and one sleeps,
and with four two can wait and change places. A quantum of two ticks has a tick
that ends a turn and one that does not. Four partitions and three slots (and the
reverse by failed loads) make each run out first. A third thread lets two linger
behind the one that transfers. Three slots of a ring have head and tail apart,
adjacent, equal and wrapped. In `alu` the sum of two words fits in an int
and the product does not always, as with the 10^7 and 2^31 of the code. In `memory` the
third partition is one that changes hands with two processes alive. In `images` one
program fills a track, one crosses a cylinder, one has no words and one is
too long for the buffer; the next track runs over the last of the disk. The code has 20 slots
and queue places, so equal sizes are kept equal. Bounds of the model, not of
the code: `MaxSleep`, `MaxIrqs`, `Threads`, `MaxTrack`, `Offsets`, `Sizes`, `Scribbles`,
`Targets`, `Words`, `Inputs`. Deadlock is checked everywhere; `Off` is the program
gone.

The other three runs end in a counterexample each: see 6.

### Properties

* `ReadyQueueExact`, `OneRunning`, `PartitionsOwned`, `AlarmSet`, `WorkConserving`:
  the tables agree with each other.
* `KeepsPromise`: and every step of them is one that the processes may expect.
* `UserModeOwnsCpu`: kernel mode outside the handler means that no process is
  current.
* `SavedContexts`: what a process has executed is in its PCB when it loses the CPU.
* `TrapsHitTheirProcess`, `TrapsNotOverwritten`: a trap is served, on account of
  the process that made it, as long as nobody uses the DMA or stops the CPU.
* `WaitersUntouched`, `NoOvertaking`, `TurnsAreWhole`: what a step may not do.
* `SecondDequeueUnreached`: the `dequeue_ready` of `kernel.c:317` never answers
  `NULL_PID`.
* `ReadyRuns`, `SleepersWake`, `BusyEnds`, `ShutdownEnds`, `CpuGoesOn`: what has to
  happen.
* `OneTransfer`, `SuccessIsTrue`, `JoinsAThread`: the DMA.
* `RingShape`, `ImplementsFifo`: the ring.
* `ExactOrSaturated`, `FlagsAgree`: the accumulator and the condition code, for
  results that fit in an int.
* `StackInside`, `Isolated`, `SystemUntouched`: what can leave a partition, or reach
  the system, and that nothing else can.
* `FilesIntact`, `LoadedAsWritten`: the disk, except for what transfers spoil.
* `NoCircularWait`: the mutexes.

### Fairness

`FairSpec` of `MiniKernel` has weak fairness for the `cpu()` loop, the end of the
loading list and the DMA thread, none of which waits for anything but its own turn,
and for the answer to system call 3, which is an assumption about the user: with
the input closed, `scanf` fails and its loop spins for ever (`kernel.c:441`). It has strong fairness for `Plain`, because the
clock is held back while another code is pending and a process that did nothing
but trap would keep it out: no program can, since its PC runs out of the
partition unless a jump, an ordinary instruction, is executed. `core_sched`
leaves DHAB out: a user program may mask interrupts for ever (`cpu.c:591`) and
then nobody else runs again. Nothing is assumed of the user at the shell, so no
property asks for a command.

`FairSpec` of `Dma` has weak fairness for the CPU, for the shutdown and for each
transfer thread: the operating system schedules every thread.

`FairSpec` of `Locks` has weak fairness for `Take` only: a mutex that is given to
others in turn is nobody's by right. It has strong fairness for what a transfer
thread does next, because every path through `dma_perform_io` is finite: it cannot go on
logging, say, for ever, inside a critical section or before it. Nothing is
assumed of the CPU but that.

## 4. What is proved

For every value of the constants that satisfies their assumptions:

| Theorem | Says | Of which sessions |
|---|---|---|
| `TypeCorrect` | `Spec => []TypeOK` of `MiniKernel` | all |
| `CpuConserved`, `ProcessesRunInUserMode`, `RunningIsCurrent`, `OneDequeue` | `WorkConserving`, `UserModeOwnsCpu`, `OneRunning`, `SecondDequeueUnreached` | all |
| `TurnsKept` | `TurnsAreWhole`, an action property | all |
| `SchedInvariant` | `Spec => [](TypeOK /\ SchedInv)` | clean restarts |
| `QueueExact`, `PartitionsNotShared`, `SleepersHaveAlarm` | `ReadyQueueExact`, `PartitionsOwned`, `AlarmSet` | clean restarts |
| `WaitersLeftAlone`, `NobodyOvertaken` | `WaitersUntouched` and `NoOvertaking`, action properties | clean restarts |
| `ImplementsPromise` | `MiniKernel` implements `Multiprogramming` | clean restarts |
| `ContextsSaved` | `SavedContexts` | no program stops the CPU |
| `TrapsServedToTheirProcess` | `TrapsHitTheirProcess` | nor does the idle CPU trap, nor does anybody use the DMA |
| `TrapsKept` | `TrapsNotOverwritten`, an action property | nor DHAB |
| `RingKeepsShape`, `RingImplementsFifo` | `RingShape`, and `ReadyRing` implements `ReadyFifo` | |
| `ArithmeticExact`, `FlagsCorrect`, `AluTypes` | `ExactOrSaturated`, `FlagsAgree` and `AluTypeOK`, for any number of digits and any width of int that holds the sum of two words; the first two for results that fit in an int | |
| `StacksInside`, `ProcessesIsolated`, `SystemCellsUntouched` | `StackInside`, `Isolated`, `SystemUntouched`, for programs that do anything, any number of processes and partitions of any size | |
| `ImagesInvariant`, `FilesKept`, `LoadsFaithful` | `ImagesInv`, `FilesIntact` and `LoadedAsWritten`, for any programs, transfers and geometry of the disk in which a track holds the longest program | |
| `TransfersExclude`, `SuccessTrue`, `JoinsCreated`, `DmaTypes` | `OneTransfer`, `SuccessIsTrue`, `JoinsAThread`, `DmaTypeOK`, for any set of threads | |
| `DeadlockFree` | `NoCircularWait`, for any set of threads | |

**The hypotheses on sessions.** They are conditions on the constants `Commands`,
`Effects` and `IdleEffects`, and each is there because the code does not do without
it. Run `machine` has none of them, and checks the five invariants that are proved
for all sessions.

* Clean restarts, `RestartsAreClean`: there is no `reiniciar`, or no program makes
  `cpu()` stop with a process current (`NoneStops`). `kernel_init_structures` does
  not reset the ready queue, which a program that stops leaves full. `core_sched`
  has no restart and `core_tables` has restarts and no stop.
* `ContextsSaved` excludes programs that stop: `ejecutar` after a stop
  in mid process reschedules without saving the context.
* `IdleNeverTraps`: what the PC of an idle CPU runs over contains no SVC, illegal
  instruction or fetch violation. A trap with no process behind it would stay
  pending until a process is there to be served, or ended, for it.
* The DMA, `NoTransfers`: a transfer that ends makes the CPU serve a system call that
  nobody made (`cpu.c:190`), or replaces a trap that is pending (run
  `trap_overwritten`).
* DHAB: with interrupts masked a trap waits, and the process goes on to its next one.

**The marks of the CPU's owner** (`CpuOwner`, in every session). After a stop and a
restart little is left: the queue may hold pids of slots that are free, or that the
loader has filled again, and one of them may be current. What survives is that nobody
but the current process is marked RUNNING, that it is so marked while programs run,
and that a current process marked READY finds the queue not empty. That is what
`kernel.c:317` needs: when the process that leaves the CPU is put back in the queue, or
something else is in it, the second `dequeue_ready` gets a pid, even if
`enqueue_ready` has dropped one (`EnqueuedEmpty`). `OneRunning` and `TurnsAreWhole` follow from it.

**The invariant of the tables.** None of the table properties is inductive alone.
That the queue is exact depends on nothing being dropped by `enqueue_ready`; that
depends on the queue having no repetitions, on every pid in it being READY (so
that whoever is enqueued is not already there) and on there being as many slots as
queue places (`DistinctFit`: distinct pids never exceed `MAX_PROCESSES`).
`schedule()` leaves exactly one RUNNING process only if the outgoing one is the
only one that can be RUNNING when it is entered, and only if the pid it dequeues
is READY. A reused slot does not disturb the queue because a free slot is
TERMINATED. `SchedInv` is the conjunction of these facts. Its proof has one
lemma for what `enqueue_ready` does (`EnqueueQueued`), one for what `schedule()`
does from any state its callers can leave (`ScheduleScheduled`), and then one
step per action (`StepSched`). A restart keeps it if the queue is empty
(`RestartSched`), and `Quiet` says that it is: if no program stops, the loop of
`cmd_ejecutar` ends either with nobody active, so that nobody is current and, by
`SchedInv`, nobody waits, or in the idle CPU, which by `WorkConserving` idles
only when nobody waits.

**The promise.** From `SchedInv`, one lemma per way of entering `schedule()`:
since nothing is dropped, `Enqueued(q, w)` is `q \o w`, and the process dequeued
is the head of that (`ScheduleHandsOver`). Ending, sleeping and the clock then map to
`End`, `Sleep` and `Wake`, a successful load to `Admit`, the end of the list to `Start`,
a restart to `Restart`, which needs `Quiet`, and everything else to a stutter.
`NoOvertaking` is read off the promise: every step of `Multiprogramming` appends to the
queue, takes its head, or leaves it (`PromiseFollows`), and nobody is overtaken
in that way (`FollowsForward`).

**Contexts and traps.** `SavedContexts` is inductive with `Quiet`, since then
no step hands on the CPU but the interrupt sequence, which saves, and `ejecutar`, which
finds nobody current. For the traps, `TrapOfCurrent`: a trap is pending only while
its process is current and the shell has not the terminal. `TrapsKept` adds
`Undisturbed`: whoever runs is interruptible, so that the trap is attended in the
very next call of `cpu()`. Both need `DmaQuiet`: no transfer and no thread about to
notify.

**The ring.** `RingShape` is inductive by the arithmetic of the remainder. For the
refinement, an enqueue writes the cell just behind `Contents` and appends to it; a
dequeue shifts it. Both need that two places at a distance of less than
`MAX_PROCESSES` around the ring are different cells.

**The arithmetic.** `AluInv` is the conjunction of the three invariants. The
lemmas say that `Narrow` is the identity on an int, that the magnitude of an int
other than the smallest is non-negative, and that `sm_to_int` undoes `int_to_sm` up to
saturation.

**The memory.** `MemInv` adds to the three properties that live processes have
different partitions, that an ADDRESS set by a live process with an index that is
not negative is in its partition (`aimed_by`), and that the ADDRESS of a transfer is
outside of the system unless it was set after SDMAON (`retargeted`). Partitions are
disjoint stretches above the reserved cells (`CellsDisjoint`).

**The disk.** The model's walk over the sectors and the digits that fit in a
word are functions defined by recursion. `WalkNth` and `LeadingFits` give them a
closed form, not by induction but by the least counterexample: a non-empty
set of naturals has a minimum (`Minimum`). `WalkNth`: after `i` steps the walk
of `load.c:167-180` is at sector `i % DISK_SECTORS` of the cylinder and track that the
quotients say. So the places of an image are distinct (`NthInjective`) and, by
`TrackAssumption`, within the track it starts on (`NthTrack`), and a word read back
from its place is the one that was stored (`NewWritten`, `StoredFits`).
`ImagesInv` adds to the two properties that every file is as long as its program
and starts on a track below `proxima_pista_libre` (`FileTableOK`): without it the next
image could be laid over an earlier one (`OthersKept`).

**The DMA.** `OneTransfer` and `SuccessIsTrue` are inductive with the shape of
`thread`. `JoinsAThread` needs `FlagHasThread`: the flag is set with no thread only
in the window of `pthread_create`, in which the main thread cannot be in
`dma_destroy`.

**The mutexes.** `Ordered`: each agent asks for mutexes in the order of `Rank`,
`dma.lock` first, then those of bus and disk, which are never nested, then that of
the log. A thread that waits in a circle and has the greatest rank there would wait for
the holder of a mutex of a greater one. The argument does not use that the mutexes
exclude, and so stands after a restart has undone the one of the disk.

**Only model-checked.** The liveness properties, `ReadyRuns`, `SleepersWake`,
`BusyEnds`, `ShutdownEnds` and `CpuGoesOn`, rest on fairness, which is out of the provers'
reach. Every safety invariant, action property and refinement of a passing run is
stated by a theorem.

## 5. What is not modelled

* The program counter, its sixteen bits, RX, TTI's timer, and the comparison with
  which a conditional jump decides: an instruction is one of the classes of
  `Effects`, and jumps are ordinary ones.
* The directives of program files and their parsing: a file is its words, or cannot
  be read. Names are model values, so those of fifty characters and more, which the
  file table cuts, are not told apart.
* `ps`, `memestat` and the text of the log, which change no state; `log_close`, and
  what a transfer thread still logs after it has lowered its flag.
* In `Memory`, a CPU with no process, which executes in kernel mode the words it
  finds, and so may write anywhere.
* `pthread_mutex_init` before the `memset` that clears the same structure
  (`dma.c:39-45`): on the systems the Makefile is for a cleared mutex is a mutex
  initialised. `ejecutar`'s list longer than its buffer.

## 6. What the counterexamples show

* `sleeper_alone`: an idle CPU has its interrupts masked and raises no clock
  (`cpu.c:210`, `cpu.c:276`), so a process that sleeps alone, as in `test_sleep.txt`,
  never wakes: the CPU runs over the words of the system up to the RETRN at 20
  (`main.c:47`), which ends the session (`cpu.c:583`) with the process BLOCKED.
* `trap_overwritten`: INT_IO_END replaces a system call that was pending.
* `dma_stale_state`: the DMA is free before the end of its transfer is announced; an
  SDMAON in between makes the kernel read "in progress" as "error" and end the
  running process. Consecutive transfers, as in `test_consecutive_dma.txt`, do this.

Seen while modelling, and kept in the modules as the code has it, with no run of their
own. Some are not what a comment of the code says:

* between the two writes of `cpu_interrupt` (`cpu.c:190`) the flag is up with the code
  the CPU attended last: a system call is served again, on account of a process that
  made none;
* a violation on fetch both stays pending and stops the CPU (`cpu.c:303`): the next
  `ejecutar` may dispatch another process, which is ended, and logged (`kernel.c:380`),
  for it;
* the thread of a finished transfer may clear the flag of the next one (`dma.c:302`):
  `dma_destroy` then destroys the lock with a transfer still to come, where `dma.c:341`
  says "Si hay un hilo corriendo, esperar a que termine";
* `reiniciar` clears the disk without its mutex, and initialises the mutex again while a
  transfer may hold it (`disk.c:16`, `disk.c:18`), where `disk.c:10` says "Se garantiza
  que solo un hilo accederá al disco a la vez mediante el bus";
* a program longer than its partition is laid over the partitions that follow
  (`load.c:418`), where `load.c:345` says "dentro de una particion";
* SDMAM has no lower bound (`cpu.c:802`) and may follow SDMAON's test: the transfer then
  writes in the memory that `dma.c:107` refuses;
* a product is narrowed to an int before it is tested for overflow (`cpu.c:393`):
  65536 * 65536 is 0 with the condition code of a positive result, and the mark of
  `cpu.c:260` is never made.

Of the others no document, comment or test of the repository says anything:

* the ready queue survives `reiniciar` (`kernel.c:57`) after the CPU stopped in mid
  session;
* a program that cannot be loaded costs a partition for good (`main.c:332`);
* `test_io.txt` writes the sector where the image of the first program loaded is;
* a program whose last word fills the last sector of the disk is rejected
  (`load.c:173`), and `proxima_pista_libre` survives the restart that empties the
  disk;
* `ejecutar` after a stop in mid process reschedules without saving the context;
* after enough restarts `proxima_pista_libre` has left the disk, and no program fits;
* the kernel pops a parameter that was never pushed (`kernel.c:500`), and SP leaves its
  partition.

## 7. Plan

Done: all the modules above, with their runs and refinements, and a theorem for
each safety invariant, action property and refinement that the runs check. What is left:

1. A counterpart of `SchedInv` that survives a restart after a stop, to say how much of
   the queue and of the partitions is still right then.
2. Between the modules: that `MiniKernel` gives `Memory` and `Images` the order of loads
   they assume, as a refinement, where the README now argues it.
