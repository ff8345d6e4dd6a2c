# A verification project for kybOS

kybOS is a small message-passing kernel for the Raspberry Pi 2: one core, one
C kernel (about 20 source files and an assembler file), user programs that
enter it through `swi`. This directory holds TLA+ models of the kernel, TLC
configurations that check them on small instances, and theorems checked by
TLAPS. Line numbers refer to the repository's files at its root.

## 1. Inventory

| Component | State | Operations | Talks to |
|---|---|---|---|
| Scheduler, `scheduler.c` | `priority_array` (FIFO of ids per level), `current_running_process`, the test counter | `scheduler_enqueue`, `reschedule`, `context_switch_c`, `test_begin` | process table, mappings |
| Process table, `pcb.c` | linked list of PCBs (id, state, priority, `is_queued`, message queues, mappings) | `pcb_insert`, `pcb_get`, `pcb_remove` | everything |
| Message passing, `ipc.c` | a FIFO per priority level in each PCB | `system_send`, `system_send_driver`, `ipc_kernel_send`, `system_receive`, `ipc_flush_msg_queue` | scheduler, process table, drivers |
| Processes, `process.c` | none of its own | `process_load`, `process_start`, `process_spawn`, `process_kill` | all of the above, file system, memory, mmu |
| Driver registry, `drivers.c` | `os_drivers` (list), `irq_drivers` | register, remove, look up by name or interrupt | called by system calls, interrupts, kill |
| Dispatch and boot, `interrupts.c`, `main.c`, `start.S` | the processor's modes, stacks, IRQ mask | system calls, timer, UART, GPIO, aborts, undefined instructions | calls every handler, then `context_switch_c` |
| Memory and mmu, `memory.c`, `mmu.c` | occupied sections, a mapping list per PCB, the page table | slot get/free, MMAP, map and unmap a process, remap | process, scheduler |
| Time, `time.c`, `armtimer.c` | `system_time`, `scheduling_on` | tick, read, add, compare, delay | timer interrupt, SD driver, test mode |
| User library, `program_library/` | the caller's buffers | `ipc_send`, `ipc_receive`, `process_spawn`, `_sbrk` | system calls |
| FAT and SD, `fat.c`, `fs.c`, `sd.c`, `emmc.c` | the mounted file system, the card device | load a file, follow a cluster chain, card initialisation, read with retry | `process_load` |
| Device access, `uart.c`, `gpio.c`, `mailbox.c`, `jtag.c`, `control.c` | device registers | register access | - |

What makes each component correct:

* **Scheduler.** A READY process has exactly one run-queue node, at its level, or
  is running; blocked and dead processes are never resumed; the process resumed
  has the highest priority of those ready; none is forgotten.
* **Message passing.** No wake-up is lost; a waiting sender is blocked exactly as
  long as its message is undelivered; messages of a level arrive in order.
* **Processes and drivers.** A killed process leaves nothing behind that a later
  process with its id inherits.
* **Dispatch.** A handler runs for a process that exists; preemption is off while
  a load uses the supervisor stack.
* **Memory.** No section has two owners, and the page table maps what the running
  process's mapping list says.
* **SD card.** A read returns the blocks asked for or an error, whatever failed or
  came late before; commands go out at the clock they need.
* **File system.** A path loads the bytes of the file it names, or fails.

What is hard to test: interrupts during a load or during boot, in any order with
the calls of other processes; ids killed and reused while messages, run-queue
nodes or driver entries still name them; the states of two processes changed by
one call; priorities at and beyond the limits; errors half way through a load or
a card initialisation. `PROJECT.json` lists each hazard at its line.

## 2. Modules

| Module | Models | Built on |
|---|---|---|
| `Scheduler` | process table and run queues | - |
| `Ipc` | message queues, send, receive, flush, the vector table a dead sender's store hits | `Scheduler` |
| `Drivers` | driver registry and interrupt table | `Ipc` |
| `Process` | spawn with its IRQ window, kill, the supervisor stack | `Drivers` |
| `Kernel` | boot, system calls, interrupts, context switch; `Spec`, `FairSpec`, all properties | `Process` |
| `MCKernel` | symmetry of process ids, for TLC | `Kernel` |
| `Memory` | slots, mappings, MMAP, the page table as `process_load` and `context_switch_c` rewrite it | - |
| `MCMemory` | symmetry of process ids, and the view of `MemorySpaces`, for TLC | `Memory` |
| `SdClock` | the clock divider of the SD controller, as operators | - |
| `BlockDevice` | abstract: what a read of the card promises | - |
| `Emmc` | `emmc.c` and `sd.c`: initialisation, reads, retries, with card and controller | `SdClock`; implements `BlockDevice` |
| `Fat` | `fs.c` and `fat.c`: mounting, directories, path look-up, reading a file | assumes `BlockDevice` |
| `MCFat` | small volumes, for TLC | `Fat` |
| `KernelProofs` | proofs: types, and that no process is lost | `Kernel` |
| `IpcProofs` | proofs: blocked senders and receivers, preemption during a load | `KernelProofs` |
| `SchedulerProofs` | proofs: run queues, who runs, who is selected | `KernelProofs` |
| `RendezvousProofs` | proofs: the rendezvous of waiting sends | `SchedulerProofs`, `IpcProofs` |
| `MemoryProofs` | proofs: ownership of sections | `Memory` |
| `AddressSpaceProofs` | proofs: types of `Memory`, address spaces | `MemoryProofs` |
| `EmmcProofs` | proofs: types, late data, the clock, the answers of reads | `Emmc` |
| `FatProofs` | proofs: types, that the named file is loaded, failing reads | `Fat` |

In the kernel modules each layer EXTENDS the one below, as each C file calls those
below it, so an operator such as `SystemSend` is one operation whose primed
variables include what the functions it calls assign. `Kernel` wraps each in an
action with what the entry code does.

The three stacks (kernel, memory, file system on the SD card) meet in
`process_load`. `Process` takes its reading of the file as a step of any length
that may fail; `Fat` is that step, on reads as `BlockDevice` promises them; `Emmc`
shows that the driver keeps the promise, and adds what `Process` found: a load may
be abandoned at any point (`Abandon`). `Memory` takes from the kernel which
processes exist, which were started and which ids may still have a run-queue node of
an earlier owner, and lets any of these be scheduled.

### State of the kernel modules

`procs` is the set of ids with a PCB; `state`, `priority` and `isQueued` are PCB
fields as functions over ids; `runq[p]` is the node list of level `p`; `msgq[id][p]`
the message list; `current` is `current_running_process`. The fields of a freed PCB
go back to their initial values: `pcb_get` never returns it, so nothing reads them,
and states that differ only there are one state. `started` is a history variable,
the processes `process_start` was called for, and `starting` the one that boot is
starting: IRQs are on in `kernel_main`, so `process_start` is three steps there
(`BootStart`, `BootFlag`, `BootLink`: called, flagged, linked). A GPIO interrupt in
between switches away from `kernel_main` for good, and `starting` keeps the process
whose start was cut short: READY, perhaps flagged, without a node. If it hits
between the two stores that link the first node of a list (`scheduler.c` 116-117),
the list has a head and no tail; it behaves as empty, or the next pop of it stores
through NULL (`TailMissing`, phase `undefined`). In `process_spawn` IRQs are masked
again before `process_start`, which is one step.

`cpu` is what the core executes. With IRQs masked nothing else can happen, so a
handler is one step, and a handler that asks for a reschedule leaves phase
`switch`. `ContextSwitch` is `reschedule` up to its loop (phase `pick`), and `Pop`
one round of it. `Kill` is a step per flushed message (phase `flush`) and one for
the rest. IRQs are enabled, and interrupt actions possible, in `boot`, `user` and
`loading` - the window `process_spawn` opens around `process_load`.

Every `swi` starts its handler at the same stack address (`start.S` 273-281), so a
SPAWN that an interrupt suspended survives only until the next system call.
`load` is the SPAWN whose frames are intact, `lost` the processes whose frames were
overwritten; resuming one of those is phase `undefined`, from which the model
claims nothing. The same phase stands for KILL of an id without a PCB and for
an undefined instruction after its vector was overwritten.

When no node is left, `reschedule` pops for ever (`PopNothing` leaves the state as
it is); in `halted` and `undefined` the system stops (`Stopped`). These are
self-loops, so TLC's deadlock check is on in every run and a state without any
step would be an error of the model.

### State of the other modules

`Memory`: `slots` is `memory_slots_physical` with the byte behind it, `table` the page
table, `maps[id]` a PCB's mapping list, latest first, `load` the `process_load` whose
frames are intact (as in `Process`), `content[s]` whose code and whose stack a
section holds, `stale` the ids that `process_kill` may have left in the run queue.
`process_load` is six steps, since interrupts are on throughout; stores go through
the page table as it is then. `LoadOpen` gets the slot and opens the window,
`LoadCopy` and `LoadStack` store through it, `LoadInsert` is `pcb_insert`, `LoadMap`
`memory_add_mapping`, `LoadClose` closes the window and is followed by
`process_start`. The getting of the slot and the opening, and the closing and the
start, are one step each: an interrupt between them leads to what an interrupt before
or after leads to, as nothing else reads what the first half wrote. Between
`LoadInsert` and `LoadClose` the process exists and may be dispatched from a stale
node (`Runnable`); without a mapping it aborts at its first instruction
(`Executes`), and if it is gone when `memory_add_mapping` looks for it, that works on
a PCB at address 0 (phase `undefined`).

`Emmc`: `pc` is the driver's next step, a command or the register accesses between
two of them. `card` (kind, state of the SD state machine, block being sent) and `host`
(a transfer is expected, READ_RDY, the FIFO) are external. `dev` and `device` are the
structure and the global pointer to it, `clock` the fields of CONTROL1, the rate of the
base clock and the one the driver takes it for (`taken`). A failing command may or
may not have reached the card; data may arrive long after the driver gave up
(`CardSends`). Pieces of a block are tagged `<<block, piece>>`, so stale data shows.
A command that reads a block is four steps: `Attempt` (the interrupts left over),
`Issue` (CMDTM), `Transfer` (the interrupt register is read and READ_RDY cleared),
`Copy` (the words are read from the FIFO). `host.dirty` is a history variable: words
are in the FIFO, or may be, that no flag announces. A read abandoned in the middle of
the copy sets it, one abandoned between STOP_TRANSMISSION and the reset of the
circuit, and data whose flag is cleared unseen (`FlagRaces`); a reset of the circuit
clears it.

`Fat`: `fs` is what `fat_init` derived from the boot sector, `current`, `list`,
`cluster`, `loc`, `out` the locals of `fat_load`, `fat_read_dir` and `fat_read`. A step
is one read of the card. Volumes are records: the allocation table as a function,
directories as sequences of slots, file data tagged by cluster and byte. Sectors are
read by address (`Address`, modulo `Wrap`), and `SlotAt` and `BytesAt` say what is
there. What is on a volume by right is defined without the steps: `ChainOf`, `NodeAt`,
`Contents`; and `Sound` is what makes these definitions those of a file system.

### Abstractions and assumptions

Kernel and memory:

* Payloads, sizes, file names, printed text and the error flags written to the
  caller are left out; a caller's buffer is valid.
* `malloc` does not return NULL: the kernel's `_sbrk` (`memory.c` 222-237) stops the
  kernel instead. The heap, and so its corruption, its leaks and its exhaustion, is
  not modelled.
* Ids are not negative. A program may pass any id in `Id`; `KILL` of `NULL_ID` behaves
  as KILL of any id without a PCB.
* In `Process`, `process_load` is two steps, before and at `pcb_insert`; reading the
  file takes any time and may fail.
* `context_switch_no_build_stack` does what the comment at its label says (the
  instruction below it, `start.S` 305, uses another register).
* Programs run in user mode. SRBK stores a number nobody reads; FIQ prints only.
* Reading `state` through the NULL PCB of a dead sender or of the kernel
  (`ipc.c` 178) reads a word of the vector table, an `ldr` instruction or, after
  a stray store, READY; neither is BLOCKED_SENDING, which is 0.
* Page-table entries are a section, cached or not. What they say of access is left
  out, because it has no effect: `mmu.c` 100-103 makes domain 0 a manager domain, so
  the processor checks no access bits, and a program in user mode can write the
  kernel's section and the peripherals. `OwnAddressSpace` is about what is mapped,
  not about protection; a program that writes the kernel's memory is not modelled.
* Cache and TLB maintenance is left out. `mmu_init_table` and `page_table` agree on 1024
  entries in the model; the code writes up to entry 4095 of what it declares.
* A load starts with `KeepFree` vacant slots or more. In boot a load of `Memory` ends
  with the start, and the processes may run in any order after it: more than the code
  does.

SD card and file system:

* A command's outcome is answered, or failed. A read abandoned within a command that
  transfers no block is one abandoned before or after it: the other register accesses
  of a command change nothing that outlives it. The waits for CMD_INHIBIT (`emmc.c`
  639, 689) are taken to end: no command is under way there, the controller having
  answered or timed out. The wait for DAT_INHIBIT at 696 is modelled (`BusyWait`).
* The FIFO holds two blocks, and words nobody read survive the next command; only a
  reset of the data circuit or of the controller empties it.
* A base clock the firmware does not report is taken for 100 MHz (`emmc.c` 945). The
  properties of the clock are then about the rate reckoned from that: on the board,
  whose base clock is 250 MHz, the card's clock is two and a half times as fast as
  meant.
* `block_no * 512` (`emmc.c` 1377) is left out of `Emmc`, which asks a card for
  blocks by number; that it wraps is in `Fat` (`Wrap`).
* `emmc_write` and the commands of several blocks are called by nothing.
  `emmc_power_off` (473) stores nothing, so a card stays as it is there.
* The SCR's data phase, eight bytes, is part of its command, also when the read is
  abandoned there. Whether card interrupts stay masked
  after a failed ACMD6 does not matter to anything modelled.
* `fat_load` is called after `fs_init`, which ignores what `emmc_init` returned. Names
  are compared as their lower-case forms (`Lower`); a volume's label is an entry like
  others, as in the code; no path here names it. `fat_store` only returns -1.

### Constants

Kernel: `Id`, `NumPriorities` (64 in the code), `SpawnPriority`, `Name`; `SystemCall` and
`Interrupt` choose what programs and devices of an instance do. Bounds: `MaxMsgs`
(messages of one level waiting at one process; a send that would exceed it is
not taken), `MaxDrivers` (registry entries), `MaxNodes` (nodes of a level when SPAWN
is called; stale nodes would pile up without it). `ReuseLeftover = FALSE`
restricts programs to ids the kernel no longer names in a run queue, a message or
the registry; the operators it needs (`Leftover`, `MayUse`) are an assumption on
programs, not code.

Memory: the sizes (`Phys`, `IoBase`, `FirstSlot`, `TableSize`: 1024, 1008, 10, 1024 in the
code), `LinkedAt`, `MapTargets`, the bounds `MaxMaps` and `KeepFree`. Emmc: kinds of
`Cards`, `Units` (pieces of 8 bytes, 64 in the code), `MaxRetries` (3, as in the code),
whether initialisation fails (`InitFaults`), reads are abandoned (`Abandonable`), data
may come just when the driver does not look (`FlagRaces`), where a disturbed card is
found (`UpsetTo`); bounds `MaxCount`, `MaxUpsets`. SdClock: rates in
100 kHz, `ClockId` 4 and `ClockNormal` 250 as in the code. Fat: the sizes of a sector, an
entry and the buffer, the limits between FAT types, `BadMark` for 0x0ffffff7, the
bound `MaxFaults`, and `Wrap`, the number of sectors after which addresses repeat.

## 3. Runs

| Run | Instance | Shows |
|---|---|---|
| `FreshIds` | 3 ids, 2 levels and one priority out of range, every call but registration and printing, timer, GPIO (also in boot), aborts; no id reused while named | `RunQueuesConsistent`, `RunningReady`, `HighestPriority` |
| `ReuseTwo` | 2 ids, 2 levels and one priority out of range, all calls, all interrupts; ids reused freely | `TypeOK`, `NoLostProcess`, `BlockedReceiverEmpty`, `BlockedSenderPending`, `LoadUnpreempted`, and `ExecutingLive`, `FlagHasNode`, `ReadyFlagged` |
| `Rendezvous` | 3 ids at one level, 2 messages, send, receive, yield, no interrupts; `FairSpec` | `Rendezvous`, `RoundRobin` |
| `CardFaults` | 4 kinds of cards, 2 blocks, reads of up to 2, 3 attempts, failing initialisation, abandoned reads, flag races, one upset, 2 base clocks and the assumed one | `TypeOK`, `CopiesRequestedBlock`, `CircuitIdle`, `ClockFits` |
| `CardPromise` | 4 kinds of cards, 4 blocks, reads of up to 3, two upsets to any state; `FairSpec` | `KeepsPromise`: `Emmc` implements `BlockDevice` |
| `FatFiles` | 2 FAT32 volumes, a FAT16, a FAT12 and an unformatted one, 8 paths, 2 failing reads; `FairSpec` | `TypeOK`, `LoadsNamedFile`, `RootFileOrError`, `LoadReturns` |
| `MemorySpaces` | 3 ids, 4 slots of RAM, MMAP of a peripheral and of another process's section, aborts, GPIO | `TypeOK`, `OwnSections`, `OwnAddressSpace` |
| `PriorityReuse` | 3 ids, yield, kill, spawn | violated: `HighestPriority` |
| `DeadSender` | 2 ids, send, receive, kill, undefined instructions | violated: `UndefinedHandled` |
| `LoadSuspended` | 2 ids, GPIO | violated: `LoadedInPlace` |
| `FreedDevice` | one card, failing initialisation | violated: `TriesAgain` |
| `MissingSegment` | 2 FAT32 volumes, the path d/a/b | violated: `NodeOfSegment` |

Ids are symmetric wherever no liveness is checked: no action compares them other
than for equality. Self-loops stand for a kernel that spins or for what the model
claims nothing of (`PopNothing`, `Stopped`, `Undefined`), so deadlock is checked in
every run.

Why the bounds suffice. In the kernel a conflict needs a process that acts, one acted
upon and one that competes: three ids, or two where the property is about one
process and the one that disturbs it. Two levels give an order; a third, out of
range, the rejected priority. One waiting message distinguishes empty from not, two
give order at a level and a message behind another. Nodes of dead processes matter
one at a time: a second stale node of an id behaves as the first. In `MemorySpaces`
two processes live while a third is loaded, and a load that is lost leaks a slot; with
`KeepFree` of two, four slots are what this takes. Its view leaves out `content`, which
no action reads and none of its properties speaks of. In `Emmc` two reads of two
blocks give every order of late data from an earlier attempt, an earlier block and an
earlier read; two pieces tell a whole block from its head, and `MaxRetries` is that of
the code. The base clocks are
a multiple of neither rate and the board's 250 MHz, a multiple of both. The FAT32
volumes have directories and files over one, two and three clusters, out of order,
an empty file, one that ends in the middle of a cluster and one larger than the
buffer, and clusters of one and of two sectors.

What the passing runs say beyond the obvious: `NoLostProcess` and the IPC
properties hold even when ids are reused carelessly and a load is abandoned. The one
process that is lost is the one whose start a GPIO interrupt cut short in boot:
READY, started and never run (`starting`); a process that was loaded and not yet
started is lost in the same way. A process out of the range of priorities is
flagged and never run, as the code has it; the properties speak of the others. The
scheduler's stronger claims need the assumption that ids are not reused early;
`PriorityReuse` shows why. `Rendezvous` needs that nobody is killed:
`ipc_flush_msg_queue` releases a sender that is blocked on any message, also on one
queued elsewhere, and that message later releases it a second time. No block is
answered with another's data only because every command first handles the
interrupts left over (`emmc_handle_interrupts`), which is of no use where there are
words in the FIFO and no flag: then the next block read is wrong. `CopiesRequestedBlock`
and `CircuitIdle` except this case by name (`host.dirty`), until the circuit is reset;
without the exception TLC finds both violated. `KeepsPromise` is about a driver to
which none of this happens: with `FlagRaces`, or after an abandoned read, the
controller may still expect data when the card is found in the identification state,
and the driver then waits in `BusyWait` for ever. `OwnAddressSpace` holds of a killed
process's mappings because the page table is then rebuilt, and of a lost load's
window because all programs are linked at one address. After a failed read only
files of the root are safe (`RootFileOrError`): deeper paths run into number 5 below.

### Fairness

* `Kernel!FairSpec`: the kernel's own steps go on (its handlers run with interrupts
  masked to their end), and the program that runs returns to the kernel: it calls it,
  or the timer preempts it. Preemption is off until a SPAWN has finished, so that a
  program which never calls the kernel is preempted is *not* assumed. The run
  `Rendezvous` has no SPAWN and no timer: what it shows of `RoundRobin` is about
  programs that send, receive or yield again and again.
* `Emmc!FairSpec`: the driver's polling loops run on, with the timer counting, so each
  timeout expires; a card that got power finishes its power-up. Nothing is assumed of
  the card's answers. `CardPromise` leaves out failing initialisation, which may end
  on the freed structure (number 4), abandoned reads, which have no answer, and data
  that loses its flag. It has cards that fall back to the identification state, so
  a card is selected again (`Reselect`) and the busy wait before it is considered.
* `Fat!FairSpec`: `fat_load`, once called, runs on.

### Disagreements with the code's own comments

With a run:

1. `scheduler.c` 143, "this always selects the highest priority": a node that
   outlives its process (`process.c` 219) resumes the id's next owner at the dead
   process's level (`PriorityReuse`).
2. `interrupts.c` 120, "Undefined interrupt handler": `system_receive` stores
   through a NULL PCB when the waiting sender is dead (`ipc.c` 164); the store is to
   address 4, the vector (`DeadSender`).
3. `process.c` 119, "the new process should go in here!": an interrupt that switches
   in the middle of `process_load` rewrites the page table it stores through
   (`LoadSuspended`).
4. `emmc.c` 1315, "Try again to initialise the card": after a failed re-initialisation
   the global device names a freed structure (`FreedDevice`).
5. `fat.c` 536, "current_node now contains the dirent for the next path segment": a
   missing segment leaves the node of the segment before it (`MissingSegment`).

Read in the source, in the model where it says so, without a run of their own:

* `process.c` 216, "free driver": `driver_remove` deletes one registry entry and leaves
  `irq_drivers` (modelled, `DriverRemove`). `gpio.c` 61, "send msg with interrupt regs":
  the send is commented out (modelled, `GpioIrq`).
* `memory.c` 41: `memory_slot_get` may return the slot behind its table, and NULL when
  no slot is left, which `process_load` does not check (modelled; `KeepFree`). `memory.c`
  61, "0 is reseved for kernel": `virtual_memory_slot_get` returns 0 when a process has
  used every section (modelled).
* `process_kill` frees one section and never the list of mappings; the slot of a load
  that aborts or is lost stays occupied (modelled). Sections that are MMAPped are not
  marked occupied (modelled). Physical addresses of 1 GB and more index past the slots.
* `emmc.c` 1105: the retry after a failed voltage switch clears
  `failed_voltage_switch` and sets only its caller's local pointer, so `emmc_init` may
  report success with the global device NULL (modelled). `emmc.c` 1329: stand-by is
  compared with the number of another state, so such a card is initialised again
  instead of selected (modelled). A read abandoned while the SCR is read leaves
  `block_size` 8 (modelled). One abandoned in the middle of copying a block (764-784)
  leaves words in the FIFO with READ_RDY cleared, and the next read takes them for its
  own (modelled, `LeftInCircuit`); so does data that arrives between lines 763 and 764
  (modelled, `FlagRaces`). `emmc.c` 592: a rate that does not divide the base clock is
  exceeded, by a factor below three (modelled, `HasRate`).
* `fat.c` 277: on FAT12 and FAT16 the root directory is not skipped before the
  clusters, 267 takes `table_size_16` even where it is 0, and 316 takes `&` for `%`
  (modelled; the properties of these volumes are `TypeOK` and `LoadReturns`).
  Of entries with one name the last is taken (modelled).
* `fat.c` 324: a failed read of the table is returned as cluster 0x0ffffff7, below the
  end mark, so `fat_read` goes on at that cluster. With clusters of up to 8 sectors its
  sector is at 128 GB or more, so on the usual cards the load fails after all. With 16
  or more it wraps modulo 2^32, and on a card with byte addresses (`emmc.c` 1377)
  modulo 2^23, to a place shortly before the clusters: then data of that place may be
  loaded as part of the file without an error. TLC finds `RootFileOrError` violated when
  `FatFiles` is run with a `Wrap` of 100 and without the ASSUME of `MCFat`; the run and the
  theorem have `ErrorsOffCard`.

### Mutants

For each property an operator named `Bad...` stands next to the definition it
replaces and is a plausible slip in the code: enqueueing without one of the
conditions of `scheduler_enqueue`, prepending instead of appending, searching the
levels upwards, not clearing `is_queued`, not waking the receiver, not releasing
senders on a flush, a sticky preemption switch, not handling the interrupts left
over before a command, not resetting the data circuit, dropping the upper bits of the
divider, `&` for `%` in the table's index, counting clusters from 0 instead of 2, not
marking a slot occupied, not taking out the mappings of the process before. Each
breaks its property under the run's own configuration.

## 4. Proofs

The eight modules named `...Proofs` prove the following for all values of the
constants that satisfy the named assumptions of the modules: `NullId` is not in
`Id`, `NumPriorities` is positive, priorities are natural numbers, `MaxMsgs` and
`MaxNodes` are positive, `MaxDrivers` is natural, `SystemCall` and `Interrupt` name
known events; `SectionsAssumption` in `Memory`; in `Emmc`, sizes and bounds are
numbers and kinds of cards are known ones; in `Fat`, sizes are numbers, an entry divides
a sector, volumes have fields of the right types, names and paths are not empty.
`Id` may be infinite. A theorem that needs
more says so in its ASSUME.

| Theorem | Assumes | States | Argument |
|---|---|---|---|
| `TypeCorrect` | | `[](TypeOK /\ ExecutingLive)` | inductive together: `current` and `victim` may be `NullId`, for which `msgq` has no entry, so a call is well typed only because the core executes for, and kills, an existing process |
| `FlagsAreBacked` | | `[](FlagHasNode /\ ReadyFlagged)` | inductive over `TypeOK`; the steps are classified (below) |
| `NoProcessIsLost` | | `[]NoLostProcess` | a READY process is flagged, and a flag has a node |
| `NoWakeUpLost` | | `[]BlockedReceiverEmpty` | inductive over `TypeOK`: sends wake in the same step, `system_receive` blocks on an empty queue |
| `NoSenderForgotten` | | `[]BlockedSenderPending` | inductive over `TypeOK`: removing a head releases its sender or leaves the message of another |
| `LoadsAreNotPreempted` | | `[]LoadUnpreempted` | inductive: only the end of a SPAWN turns preemption on, and it drops the load |
| `QueuesAreConsistent` | `IdsAreClean` | `[]RunQueuesConsistent` | part of `SchedInv` |
| `OnlyReadyRuns` | `IdsAreClean` | `[]RunningReady` | part of `SchedInv` |
| `HighestIsSelected` | `IdsAreClean` | `HighestPriority` | from `RunQueuesConsistent` and `NoLostProcess`: the head of the highest list is at its own level, and every READY process has a node |
| `RendezvousHolds` | `Immortal` | `[]Rendezvous` | `QueuesOfTheLiving` and `AtMostOne`, with `RunningReady`; that there is one message at least is `NoSenderForgotten` |
| `SectionsAreOwned` | `KeepFree >= 2` | `[]OwnSections` | `IInv` |
| `MemoryTyped` | | `[]TypeOK` of `Memory` | inductive with the types of a load's and a mapping's fields, and `RunsLive` |
| `AddressSpacesAreOwn` | `KeepFree >= 2`, `OneLinkAddress` | `[]OwnAddressSpace` | `EInv` |
| `NoStaleData` | | `[]CopiesRequestedBlock` (circuit not left unclean) | `DInv` |
| `CircuitIsIdle` | | `[]CircuitIdle` (circuit not left unclean) | `DInv` |
| `EmmcTyped` | `DividerReach` | `[]TypeOK` of `Emmc` | the divider fits its ten bits |
| `ClockIsFit` | `DividerReach` | `[]ClockFits` | `ClockData` |
| `AnswersAreContents` | `~Abandonable`, `~FlagRaces` | `[][AnswersRight]_vars` | `PInv` |
| `ReadsKeepPromise` | `~Abandonable`, `~FlagRaces`, `~InitFaults` | `Promise!Safety`: `Emmc` implements `BlockDevice`, but for its liveness | `PInv`, step by step |
| `FatTyped` | | `[]TypeOK` of `Fat` | `TInv` |
| `LoadsTheFile` | | `[](Sound(vol) => LoadsNamedFile)` | `FInv` |
| `LoadsOrFails` | | `[](Sound(vol) /\ ErrorsOffCard(vol) => RootFileOrError)` | `FInv` |

### The kernel

`NoLostProcess` is not inductive: it says nothing of the flag, and a flag without a
node would make the next enqueue a no-op. The proof of `FlagsAreBacked` classifies the
steps: every handler only adds nodes and sets flags with them (`QueuesGrow`, lemma
`HandlerGrows`), makes READY only what it queues (`ReadyOnlyQueued`), and only the pop
loop takes a node, clearing the flag of the process it then runs. In boot the flag and
the node come in two steps, `BootFlag` and `BootLink`; the process they start is the
one exception of these properties, and it stays the exception when an interrupt comes
in between. In the same way
`StepKinds` in `IpcProofs` reduces the actions to the eight things that happen to
states and messages.

The theorems of `KernelProofs` and `IpcProofs` assume nothing of the reuse of ids, so
they cover the histories in which the scheduler's stronger invariants fail. Those need
`IdsAreClean`: `ReuseLeftover` is FALSE (no id is reused that the kernel still names),
or `Immortal` (no EXIT or KILL, no abort and no undefined instruction). Without it they
are false, as `PriorityReuse` shows. The code guarantees neither: both are about what
the programs do, `FreshIds` checks the first and `Rendezvous` the second.

`SchedInv` is what makes `RunQueuesConsistent` inductive. A process that stops being
READY must have no node: it is the one that executes (`RunningReady`). One that is
inserted must have none: its id was clean when its SPAWN began (`LoadIsFresh`), but
the load may since have been suspended by an interrupt, and a process that was killed
meanwhile still has its messages to flush (`VictimIdle`: it is not queued, and flushing
its messages does not queue it). `BootReady` covers `kernel_main`, where nobody is blocked
and only what was started, and not what is being started, has a node; `NodesLive`
covers histories without kills.

`Rendezvous` counts messages. That no process has two needs that one that sends has
none pending: it executes, so it is READY, and by `AtMostOne` only blocked senders have
a message. A process that is inserted has no queue and no message anywhere
(`QueuesOfTheLiving`). `Immortal` is needed for the reason given in section 3.

### Memory

`SectionsAreOwned` needs of the bound `KeepFree` that it is two at least:
`memory_slot_get` also takes the byte behind its table for a slot, so with one vacant
slot it might return that one (`SlotGotInRam`, which uses that a set of naturals has a
least element). `OwnSections` is not inductive. Killing a process frees the section in
its PCB, so the process must exist (`RunsLive`: who runs, or waits for its load, has a
PCB); what a load occupies must be RAM, so no slot of a peripheral ever becomes vacant
(`PeripheralsKept`); and the section of a pending load must be RAM before it becomes
a process's (`LoadInRam`).

`OwnAddressSpace` speaks of the table after a context switch; its invariant `EInv` speaks
of the table before one. Between two switches loads, MMAPs and kills change the
table, and a load that is suspended leaves its window in it. `OthersAsAtBoot` says that
all of this stays within the sections the current process names: an MMAP leaves
the table alone, a load touches only the section that programs are linked at, and
every process that has mappings names that one (`LinkedIsNamed`); who asked for a load
executed, so it has some (`LoaderIsMapped`). The switch takes out
what the process before named, which leaves the table of boot (`CleanedIsInitial`), and
puts in what the next one names. That holds too of a process dispatched before its
load gave it a mapping: it finds the table of boot and aborts. `OneLinkAddress` is the hypothesis: all
programs are linked at one section (`program_library/linker.ld` 10 puts all of them at
0x100000), it lies below the peripherals, and `MaxMaps`, the bound on a process's
mappings, is below `IoBase`. The last is a limit of the code, not of the model: a
process that maps more than a thousand sections is given virtual sections of the
peripherals by `virtual_memory_slot_get` (`VirtualSlotLow`, a pigeonhole argument, shows
that fewer never lead there).

### SD card

`DInv` follows the transfer that outlives its command, in a circuit that is not left
unclean (`host.dirty`, section 2). What an earlier attempt started
is the block that is still wanted (`Sending`, `FifoRequested`), and a transfer of
an earlier read cannot reach a later one: the first command for a block finds the
circuit idle (`FirstIdle`, `FifoFlagged`), because a cancelled transfer ends with the reset of the data
circuit or, where the driver loses the answer to STOP_TRANSMISSION, it also
forgets the address of the card, and the next read starts with a new initialisation
(`CancelLost`). Failing initialisations, any number of retries and
reads abandoned anywhere are covered but for what `host.dirty` stands for: it is set where
words are left that no flag announces, and gone with the reset of the circuit, after
which all of this holds again (`PreparedIdle`).

`DividerReach` says that no base clock, the assumed one included, is more than 2046 times the identification
rate, that is 818 MHz: the ten bits of the divider go no further, and the firmware of
the board reports 250 MHz. With it the fields of the register have the rate asked for
as `HasRate` defines it, which allows for the rounding in `emmc.c` 592 (`DividerIs`,
`CeilLog2Is`, `ProgrammedFits`). `ClockData` adds
what the clock is at each step of an initialisation, wherever it fails or is
abandoned: a card that has been identified has the fast clock or none.

`PInv` counts what a read has copied: the first k blocks (`Progress`), in blocks of the
right size (`Sizes`; the SCR is read in blocks of 8 bytes). `Clean` says that, without flag
races and abandoned reads, the circuit is never left unclean, and that a block is
alone in the FIFO when it is copied (`CleanTransfer`). `Outcome` says what any
step does to the read and its answer, and both theorems follow from it. An abandoned
read has no answer, hence `~Abandonable`; one whose data lost its flag may end with
data of an earlier attempt or block, hence `~FlagRaces`; an initialisation at boot that fails would answer what nobody
asked, hence `~InitFaults` in the refinement only.

### File system

`FatTyped` holds on any volume, sound or not: the buffer is not overrun because a file
that is read fits it and `fat_read` takes no more than the file has left (`TInv`).

`LoadsTheFile` compares what the steps compute with what recursive definitions say is
on the volume, so it is about volumes of any size, directories and files over any
number of clusters, and paths of any length. `FInv` relates the two. `DirWalk`: the
entries listed are those of the first j clusters of the chain of the directory that is
searched. `PathWalk`: that directory is the node which the segments before lead to.
`FileWalk`: the buffer holds the first k clusters of the file's chain. `MissingFirst` and
`FileChosen` keep what the end of the load needs to know: a missing first segment never
gets as far as a file, and the file that is read is the one of the path. Each step then
needs that the code finds the right place: the sector of a cluster, the slots and the
bytes in it, and the entry of a cluster in its sector of the table (`ClusterSector`,
`ClusterSlots`, `ClusterBytes`, `NextInTable`). That a directory has no two entries of one
name makes the last one found, which the code takes, the only one.

`Sound` is what a formatter and a correct driver leave on a FAT32 card: the table has
room for its entries and lies on the card, chains of directories end, those of files
cover them, names in a directory are unique, and no path names the volume's label. An
`ASSUME` of `MCFat` evaluates it for the FAT32 volumes of the runs. Without it the code
may loop over a cyclic chain or read a cluster of another file.

In `LoadsOrFails` any reads may fail. A read that fails ends the listing of a directory,
which is then searched as an empty one, so a file of the root is not found; or it
ends `fat_read` with an error; or it is one of the table, and the next cluster is the
one marked bad, of which `FileWalk` remembers that a read failed, and whose own
read fails since it is off the card (`ErrorsOffCard`, section 3). If that cluster
is beyond the end of the file, nothing more is read, and the file is right.

The recursive definitions need induction over positions in a chain, a path or
a cluster. The library's induction theorems take an operator, so `LeastElement` is
derived from the well-foundedness of the natural numbers and `Induction` from it, over
sets; `Recursion` shows that a function defined step by step exists, from which the
equations of `ChainOf`, `NodeAt` and `Dirents` follow (`ChainSteps`, `NodeSteps`, `DirentsAre`).

### Out of reach

Liveness, fairness and ENABLED: the liveness of `BlockDevice` in `KeepsPromise`,
`RoundRobin`, and `LoadReturns`.

## 5. Only model-checked, and not modelled

Only model-checked: `RoundRobin`, the liveness in `KeepsPromise`, and `LoadReturns`. These
are liveness properties. Every invariant of a passing run is also a theorem, under
the hypotheses given in section 4.

Not modelled:

* Register access of devices and coprocessors (`uart.c`, `mailbox.c`, `jtag.c`,
  `control.c`): a store to a device has no effect on the kernel's state but the
  interrupts and answers that the modules take as possible at any time.
* Cache and TLB maintenance, banked registers and processor modes in `start.S`.
* The heap, and the pointer lists of `pcb.c`, `scheduler.c` and `ipc.c` below the sets
  and sequences used here.
* The clock (`time_get`, delays): its effect on the modelled code is when a wait ends.
* The user library and the programs: a program makes any call at any time.
* Formatting and printing, ELF checks beyond their outcome, SPAWN's flags.
* `emmc_write`, `fat_store`, the removal of single mappings: called by nothing, or stubs.
* Build files, linker scripts and boot images.
