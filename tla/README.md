# A verification of the pi teaching OS

TLA+ models of the kernel for the Raspberry Pi 4 in this repository, the TLC
configurations that check them, and proofs of their main properties. Paths are
relative to the repository (`src/` in `PROJECT.json`). `PROJECT.json` maps each
definition to the lines it models, and lists the hazards of the code with the
properties that watch them.

## 1. Inventory

The kernel runs on one core, at EL1, in one address space, with tasks that are
preempted by the EL1 physical timer.

| component | state | operations | interacts with |
|---|---|---|---|
| task scheduler (`kern/task/task.c`, `pcb.c`, `switch.S`) | two intrusive doubly linked lists, `curtask`, each task's links, state, stack and context | `task_new`, `task_start`, `task_yield`, `task_exit`, `mi_switch`, `mi_task_startup` | masks interrupts through spl; is re-entered by the timer's trap |
| interrupt levels (`spl.c`) | `curspl`, `curtask->spl`, PSTATE.DAIF | `splhigh`, `spl0`, `splx` | called by the scheduler, by traps, by tasks |
| trap entry, preemption (`interrupt.S`, `trap.c`, `preempt.c`, `el1_physical_timer.c`) | the frame on the stack of the interrupted task; the timer's compare value | `aarch64_trapentry`, `el1_timer_irq`, `preempt_fire` | calls the GIC driver, then `task_yield` |
| GIC driver (`gic_400.c`, `devices.c`) | `irq_to_kirq_map`, the distributor's enable bits, the acknowledged interrupt | `gic_400_install_ppi`, `gic_400_handle` | reads IAR and writes EOIR; calls `irq_fire` |
| IRQ registry (`irq.c`) | a linear probing hash map of callbacks | `irq_init`, `irq_register`, `irq_fire`, `irq_unregister`, `irq_rehash` | called by the drivers at boot and by the GIC driver in interrupts |
| page tables and frames (`mmu.c`, `linked_list.h`, `boot.c`, `link.ld`) | page tables, the early frame allocator, the array of struct frames, two frame lists | `mmu_init`, `mmu_map`, `allocate_page_table`, `walk_pages` | runs once, before tasks and interrupts |
| kernel memory (`mem.c`) | `heap_next`, the bump pointer of a static 16 KiB heap | `kzalloc`; `kmmap`, `new_range`, `allocate_frame` are stubs | called by `task_new`, `irq_init` and `gic_400_init`, by tasks with interrupts enabled |
| formatted output (`printf.c`) | the options of the directive it is in, a buffer of 32 bytes | `generic_printf` | writes to the console through `printk` |
| console and UART (`printk.c`, `con_vt100.c`, `rpi4os_uart.c`) | the UART's registers and FIFO | `con_putc` down to `uart_writeByteBlockingActual` | polled by every task that prints, by panics and exceptions |
| panic (`panic.c`), watchdog (`watchdog.c`) | the step it has reached; the watchdog | `panic`, `wdog_panic` | masks interrupts, prints, calls the power device |
| devices (`device.h`, `devices.c`) | one pointer per kind of device, to a dummy at first | `INSTALL_DEVICE`, in the order of `load_devices` | every service goes through the pointers |
| menu, strings | | | |

Interactions that carry the system: a task calls the scheduler; the timer
interrupts a task at any instruction where DAIF is clear; the trap handler raises
the level, the GIC driver acknowledges, calls the callback, ends the interrupt
and then yields *from inside the trap*, so that a preempted task is suspended in
`mi_switch` on top of `aarch64_trapentry`, and another task goes on wherever it
was suspended: in a trap, in a voluntary switch, or at `mi_task_startup`.

What is hard in it: `curspl`, `curtask->spl` and DAIF are three copies of one fact
that are saved and restored around switches; the lists are changed with
interrupts enabled; a loop in the GIC driver ends only if each callback silences
its device; the registry looks entries up with a modulus that changes; the early
allocator gives out frames for page tables while the page tables are being
walked. Nothing is persistent and there are no messages: crashes and delivery
are not hazards of this code.

What makes each component correct:

* scheduler: a runnable task is on the ready list once, an exited one on the zombie
  list once; a switch enters a saved context only; first come, first served; no starvation;
* levels: a task's own code always runs at the level it has set; kernel stacks are bounded;
* GIC driver: an interrupt is ended before a task runs; a callback's request to
  preempt is not lost; the loop ends;
* registry: the handler that is registered is the one that is found;
* MMU: tables form a tree in frames of their own, a mapping changes one page only;
* heap: blocks are disjoint, and inside the heap while it has room;
* printf: a field is what C says it is, whatever came before it, and the padding ends;
* console: what is printed with interrupts masked is sent whole and in one piece;
* panic: the first one is the last thing that the kernel does, its message comes
  out, and it ends.

## 2. Modules

| module | models | how |
|---|---|---|
| `TaskLists` | `task_unlink_from`, `task_list_move_head`, `task_list_move_tail` | operators on the record of all links: the pointer assignments the code makes |
| `Tasks` | `task.c`, `spl.c`, the trap path | one action per operation; masked code is one step |
| `RoundRobin` | what the scheduler promises | a queue; `Tasks` implements it (`ImplementsRoundRobin`) |
| `TasksUnmasked` | the same calls made with interrupts enabled, statement by statement | extends `Tasks`; each statement is an action, the timer comes between any two |
| `IrqMap` | `irq.c` | one operator per call; `Search` is the probing loop |
| `IrqRegistry` | what drivers expect of `irq.c` | `IrqMap` implements it |
| `Gic` | `gic_400.c`, the order of set-up in `devices.c` and `el1_physical_timer.c` | extends `IrqMap`, whose map finds the callbacks; each access to a GIC register is a step; the GIC and the devices are external |
| `Mmu` | `mmu_init` | one action per mapped page and per frame of a list; `mmu_map` and the allocator are operators |
| `AddressSpace` | what a page table stands for | a map that only grows; `Mmu` implements it |
| `Printf` | `printf.c` | a state machine that reads the format character by character; the buffer and the padding are operators; what ISO C says is an operator on the items of the format |
| `Heap` | `kzalloc` | each access to `heap_next` is an action, with the calls' locals per task; the calls are made in `Services` |
| `Services` | `printk.c`, `con_vt100.c`, `rpi4os_uart.c`, `devices.c`, `panic.c`, `watchdog.c`, the exceptions of `trap.c` | extends `Heap`, composes them with `RoundRobin`: tasks that allocate, print, panic and fault, preempted at every statement that is not masked |
| `MC*` | | instances for TLC |
| `TasksProofs`, `SchedulerProofs`, `TasksUnmaskedProofs`, `GicProofs`, `IrqMapProofs`, `MmuProofs`, `PrintfProofs`, `ServicesProofs` | | section 5 |

### Tasks

`links` holds `list_next`, `list_prev` and the heads and tails of both lists;
`curtask`, `curspl` and `spl` are the variables of that name; `daif` is the mask.
A suspended task's `stack` is a sequence of frames, innermost first:
`[at |-> "mi_switch", spl, into]` with its local `spl`,
`[at |-> "aarch64_trapentry", oldspl]`, and `mi_task_startup`, which
`md_init_new_task_pcb` fakes. An empty stack is a task's own code, or a task
that has no context. `level` is no variable of the program: it records the level that
a task's own code has asked for, so that "restored to what it was" can be said.

`MiSwitch` is the whole of `mi_switch` up to `md_switch`, its list operations,
the assertion and the jump included: a false assertion sets `halt` to `panic`, a
jump into a task that has no context sets it to `wild`. `TimerIrq` is the trap from the
vector to the switch; `SwitchReturn` and `TrapReturn` are what runs when the
task is switched back to. `task_exit` never returns, so `SwitchReturn` of an
exited task is `wild` too.

Code that runs with DAIF set is atomic: there is one core, and nothing else runs.
`task_start`, `task_yield` and `task_exit` change the lists with interrupts enabled
when the caller has them enabled. `Tasks` therefore models callers that mask them
first, and shows that the design is right then; `TasksUnmasked` models
the others at the granularity of C statements. That granularity is justified by the
Makefile, which passes no `-O` flag: each statement loads and stores. Only
`task_unlink_from` of a task that is on no list is one step there. After a panic or a
wild jump the other variables mean nothing, and properties say `halt = "no" =>`.

`kern/main/main.c` starts no task as checked in (the calls are commented out at
lines 51-55), so the model's tasks are any that a `main` could start: any
number, in any order, each masking, yielding and exiting as it likes. The boot
task never exits.

### Gic

The state is the lines, the enable bits and the active interrupts of the GIC,
`irq_to_kirq_map`, and the locals of `gic_400_handle` with its program counter.
`served` is a history variable of one run of the handler. Lines are level-sensitive
and of one priority, as `boot.S` and the driver set them; a read of IAR returns any
interrupt on offer, or 1023. The callbacks are in the map of `IrqMap`: `Register` and `Unregister` are its
`irq_register` and `irq_unregister`, and a round of the loop finds a callback only if `irq_fire` does, with the
modulus as the calls before it have left it. The callback of device `i` is called `i`. A driver
may unregister before it starts its device; the one of the timer, the only one there is, registers once.
An IRQ at or above the last slot may not be found (`irqmap_high`), and then the level-sensitive
line stays asserted and the loop does not end; the instance and the proof have IRQs below it, as the
kernel's only one, 2, is. A device asserts its line at most once during one
run of the handler: the timer's period is 10 ms. All interrupts are private
peripheral interrupts, as `load_devices` installs. The second half of the path, from
`preempt_fire` on, is `Tasks`.

### IrqMap

`Search` gives the first slot of the probe sequence that stops the C loop, where the
modulus is `allocated` as the code has it. An access past the entries is `overrun`, and
an insertion that finds no slot is `panic`. `registered` is a
history variable: what the drivers have asked for. Drivers register an IRQ that is
not registered. `irq_rehash` is left out, and `RehashNeeded` shows why: its
condition is computed from `used`, which nothing changes.

`allocated` starts at the 8 slots and is never below them while it counts the registrations, so
that `id % allocated` is `id` for an IRQ below the last slot: these IRQs have a slot each, and the
map is the registry it should be. The modulus changes all the same, and is what fails the others: an IRQ at or above
the slots is stored with one modulus and looked up with another (`irqmap_high`), and IRQ 7, in the last slot, has no
empty slot behind it: registered and unregistered while another IRQ is registered, it leaves a tombstone from which the next
search for it goes on to slot 8, past the entries (`irq.c:138`). No run has IRQ 7, and `StaysInside` is about the IRQs
below it. Nor is there a run with more handlers than half of the slots to show that the "Load factor of 2"
of `irq.c:88` is never acted on; that `used` stays 0 is in `IrqMapTypeOK`.

### Mmu

Addresses are numbers of pages and frames. A page table has `Fanout` entries
instead of 512, and a walk has four levels as in the code; the lower half of level 0 is
the image's, and the upper half gets the tables of the boot code. `memory` holds
every table and the allocator's last frame. Sections, memory sizes and the length of
the array of frames are parameters; `AddressAssumption` says that the image and the array fit
into the address space of the tables, which the linker script and 512 entries see to. Memory that was never written is taken to be zero, as
under QEMU; the code does not clear a new table. A store through a null pointer
changes no list (`page_table_frames` is never initialised).

`MappedNotFree` says of the two lists of frames that whoever takes a frame from `free_frames` gets none that a
page is mapped to. `ll_unlink` clears `node->next` before
it hands it on, and so cuts `free_frames` at every frame it takes out: after
`mmu_init` only the frames above the last mapped one are reached from its head, and the free
frames below are lost. The comments at `mmu.c:39` and 44 say something else of the lists: that
`free_frames` holds frames that are free to be used, and `page_table_frames` those in use as page
tables. `walk_pages` hands over the frames of the *mapped pages*, so `page_table_frames` holds these and no
table, and page tables above the last mapped frame stay on `free_frames`. The comments are not what `MappedNotFree`
checks, and the divergence is recorded here and not in a run. Nothing takes frames from either list yet.

### Printf

A format is a sequence of items, texts and directives, which `Spell` writes out: the flags of a directive
in any order, then the digits of its width, the dot and the digits of its precision. The
formatter reads the characters and knows nothing of the items. `pr` has the fields of
`printf_runner` that a directive sets; `base`, which every conversion sets before it uses it, is an
argument of the operators. A field is pushed as one sequence (`PushAll`), character by character. `size_t` and `long long` have `SizeRange` values, so that
`field_width - total_len` wraps around. Arguments are words, chosen when
`va_arg` fetches them; strings are in memory at addresses. `in_fmt` staying set after an
unknown character is action `Other`.

`ISO` is what C says, for the directives that C defines (`Defined`): the conversions d, x, p, s and %, `#` with x
only, `0` with d and x, a precision not with p, widths and precisions that a `size_t` holds. `Number`
is the value of a sequence of digits. `Agrees` says for which of them
`generic_printf` does the same: the output is right for these (`AgreesWithC`) and wrong
for all others of the run (`DiffersOtherwise`). The others are a
left-justified field that is narrower than its contents (the padding is the whole range
of a `size_t`), zeros in front of a sign or prefix or in spite of a precision, `%x` of a negative
number (printed with a sign), `%#x` of zero, strings with a precision other than their
length, empty strings (printed as 0), and `%%` in front of anything that could belong to a directive.
The digits' buffer (`INT_BUF_SIZE`) is left out: 2^64 has 20 digits and fits.

### Heap and Services

`kzalloc` reads `heap_next` twice and stores it once, and masks nothing. `alone` is a
history variable of a call: no other task was in one at the same time. Two calls that
met can return one block (`BlocksApart`, run `heap_overlap`); what holds whatever the interleaving is that the block of a
call that was alone overlaps no block that is handed out after it (`BlocksDisjoint`), also when calls that meet set
`heap_next` back. With the real
sizes, `irq_init`, `task_bootstrap` and `gic_400_init` take little, and a task takes 48 + 4096 bytes:
three tasks fit into 16384 bytes, and the fourth's stack lies past the end
(`HeapBound` says when that happens for any sizes). `requested` is a history variable: what the calls that
have returned asked for, in whole units of 16 bytes, by a formula (`Units`) that is not the code's.

In `Services` the processor goes round as `RoundRobin` says (`Rotate`, `Start`), which `Tasks`
implements; that a task keeps its own interrupt level is `InterruptLevels` of `Tasks`. So
`masked[t]` stands for DAIF when `t` runs, and `Preempt` can come between any two
statements that are not masked, once the timer is installed. `load_devices`
installs console, power device and timer in this order; before, the dummies are called. A
message is `MessageSize` bytes tagged with their writer; `Poll` is the loop that waits for
the transmitter, `Write` the store, which loses the byte if the FIFO is full by then.
`accepted` and `lost` are histories. `panic` is called by a task, or by an assertion in
the handler of an interrupt that came anywhere (`PanicInTrap`), and goes on from the step it has
reached. `Exception` is the part of `aarch64_trapentry` that prints and hangs, which
`main` runs into at line 48. `PowerOff` comes some time after `wdog_panic`.
Allocating and printing happen at any interrupt level, chosen by the task. Not in it: an exception in
the middle of another call, and the accesses to the UART inside `mmio_read`.

## 3. Runs

Runs that pass:

* `tasks` (3 tasks and the boot task): the lists, levels, contexts, absence of
  panics, the refinement of `RoundRobin`, and no starvation. Three tasks give a
  list with a middle element, an empty list, and every order of start, yield,
  exit and preemption. What more tasks would add is covered by the proofs.
* `unmasked` (2 tasks and the boot task): the interrupt levels stay right in every
  interleaving of unmasked calls with the timer, `splhigh` included.
* `gic` (interrupts 30, 26, 27 and 29, mapped to IRQs 2, 3, 4 and 6 of a map of 8 slots; two ask for preemption, one may withdraw its
  request): ended before tasks run, preempted when asked, each round of the loop serves
  another interrupt (`EachRoundServes`), and the loop ends. Four interrupts
  are more than enough for a loop of several rounds in which the first, a middle or
  the last one asks for preemption. The map under it implements `IrqRegistry`, and no search leaves the entries: `allocated`
  goes from 8 to 12 and back, tombstones appear in every slot that is used and are used again, three of these slots are neighbours
  and one is apart. These IRQs have a slot each whatever the modulus is; that
  the modulus changes between a registration and a search does harm in `irqmap_high` only.
* `mmu` (8 layouts, memories of 8 to 20 frames, tables of 2 entries): a tree of tables in
  frames of their own, right protections, one translation per mapping. With two
  entries per table, an image of 3 to 6 pages crosses the bounds of tables at each level,
  and the memory runs out at different points of a walk. No frame of a mapped page is left on `free_frames`.
* `printf` (the directives with the conversions d, x, p, s and % that C defines, their flags in every order, with widths none, 2 and 10, and precisions none, empty, 0
  and 3, and eleven formats of several items; words of 5 bits, a buffer for 4 characters):
  `AgreesWithC`, `DiffersOtherwise`, and arguments fetched for directives only (`OnlyPercentFetchesMore`). The values are 0, 5, 12, 17, the greatest negative and the least one, and strings of 0, 2 and 4
  characters, so that each is below, at and above a width and a precision; most
  fields are longer than the buffer, and wrapped padding is up to 31 characters.
* `services` (2 tasks, 64 bytes of heap, sizes 8 and 32, a FIFO of 1 byte, messages of 2): blocks, masked messages, last words, and
  that every call ends. `MaxCalls` bounds what the tasks call, where `kzalloc` counts 2 and any other call 3: 9 are four
  allocations, three and another call, one and two others, or three other calls. Four allocations are
  two that meet and set `heap_next` back between two that meet no other; the two sizes, below and at a multiple of 16, fill the
  heap exactly, or overrun it. Two tasks are
  enough for each pair of statements to meet; three calls let two tasks print while one of them
  panics; a message longer than the FIFO makes every writer wait.

Runs that show where the code and what it says of itself part; each is a finding in
`PROJECT.json`, with the line that is quoted:

* `unmasked_start`: `task_start` lists a task before its context is set up; the timer
  switches to it in between.
* `unmasked_yield`: preempted inside `mi_switch`, a task is linked behind itself, and the
  assertion of `task_list_move_tail` fails.
* `irqmap_high`: IRQ 9 is stored in slot 9 % 8 = 1 and looked up from slot 9 % 9 = 0, an empty one: a
  registered handler is not found.
* `gic_spurious`: the first read of IAR is masked with 0x2ff, so that 1023 becomes 767,
  and the loop body handles and ends an interrupt that nobody sent.
* `heap_overlap`: two tasks that meet in `kzalloc` are given the same block.
* `printf_percent`: after a second percent sign the formatter is still in the directive, and the
  text behind it fetches an argument.

`CHECK_DEADLOCK FALSE` stands where the system does stop: a kernel that has
panicked or gone astray (`services`, `heap_overlap`, `unmasked*`, `irqmap_high`), and `mmu_init` (`mmu`)
and `generic_printf` (`printf`, `printf_percent`), which end.

## 4. Fairness

`Tasks`: the processor executes the kernel's masked code
(`MiTaskStartup`, `SwitchReturn`, `TrapReturn`) and takes a pending interrupt (`TimerIrq`);
the timer is re-armed at every tick and expires again (`TimerExpire`); a task leaves the
sections for which it has masked interrupts (`SetLevel(0)`), without which no
kernel of this kind preempts anybody. Each is weak fairness of an action that stays
enabled until it is taken. Nothing is assumed of `task_yield`, `task_exit` or
`task_start`: a task may compute for ever.

`Gic`: the processor takes an interrupt on offer and executes the handler. Devices
may assert or not.

`Services`: the timer preempts a task that unmasks again and again (strong, because a
task may mask and unmask for ever; a timer interrupt stays pending until it is taken), and
a task that is in a call executes a statement of it if it gets the processor again and again (strong,
because it is preempted in between; 10 ms are many statements). That it gets
the processor is `Rotate`, and `NoStarvation` of `Tasks`. A task leaves the sections it has masked
interrupts for, the UART sends, and the watchdog fires. Nothing is assumed of the
calls: none has to be made.

## 5. Proofs

For every set of tasks (finite, without the null pointer, with the boot task in it):

* `TasksProofs`: `TypeOK`, then `LevelInv`, which says which stacks a task can have
  for its level, that only code outside a task's own runs masked, and that
  `curspl`, `spl` and DAIF agree, and that a task which never ran is at level 0 (`NewLevels`,
  for `mi_task_startup`, which sets level 0 whatever was there). It is inductive where
  `InterruptLevels` is not: what a trap restores is right because what it saved was, and
  that is a fact about the stacks of suspended tasks. From it: `InterruptLevels` and `SavedContexts`.
* `SchedulerProofs` begins with the list operations of `TaskLists`. If the links represent the queues
  `q` and `z`, then appending, prepending and removing the head represent the queues
  one expects, and leave the other list alone; the links represent one pair of
  queues only (`ListUnique`, by the least position at which two queues would differ:
  `LeastNumber` is proved from the well-foundedness of `<` on the naturals, because the
  induction theorems take an operator as parameter).
  `SchedInv` adds to `LevelInv` that the links represent a
  queue of the runnable and a queue of the exited tasks (both have a context to be switched
  to), that nothing has halted, and that the boot task runs or is runnable (`MainRuns`):
  a task that exits finds another one. Each action of `Tasks` preserves it by one of the list
  lemmas. From it: `EachTaskListed`, `NeverHalts`, and the refinement
  `ImplementsRoundRobin`: starts are `Start`, yields and preemptions `Rotate`,
  exits `Exit`, everything else a stutter.
* `GicProofs`, for every set of interrupts below 256, mapping and set of devices:
  `TypeOK`, `EndedBeforeTasksRun`, and `PreemptsWhenAsked`, from `GicInv`, which adds to
  the first two that the local `preempt` says whether an interrupt of this run whose callback asks for it has been served.
  `RoundInv` adds to it in which order an interrupt is set up (`SetUp`: a device that runs has a callback,
  an interrupt with a callback is enabled, an enabled one is mapped to its IRQ) and that no interrupt that
  this run has served is asserted again or about to be fired (`Unserved`). From it: `EachRoundServes`, hence the
  bound on the rounds that `HandlerReturns` rests on. It has two hypotheses. `MapHasRoom` says that the kernel's IRQs are
  below `irq_map_count`: `gic_400_install_ppi` compares them, and not the interrupts, with the size of the array. `OwnSlots`, of
  `IrqMapProofs`, says that each has a slot of its own in the map of the IRQs, without which `irq_fire` need not find a callback that is
  registered; `RoundInv` contains `MapInv`, whose steps are the lemmas of that module. The kernel's only IRQ, 2, satisfies both.
  `GicUsesMap` says that the driver's behaviours are behaviours of `IrqMapSpec`, so that what `IrqMapProofs` proves is true of the map in `Gic`.
* `TasksUnmaskedProofs`, for every set of tasks and every choice of the calls that are made
  with interrupts enabled: `UnmaskedInv` is `LevelInv` with the frames of calls in
  progress. A stack is a call's frame, or a trap on top of one; a frame in which an interrupt can come
  (`Interruptible`) is at level 0 with nothing masked, every other one is masked; a task that is being started has no other call in
  progress that starts it (`StartsApart`), without which `task_start` would
  give a context to a task that already waits in one. From it: `TypeOKUnmasked`, `InterruptLevelsUnmasked`.
* `IrqMapProofs`, for every set of IRQs with a slot each, that is `OwnSlots`: `Ids` within
  2 .. `InitialSlots` - 2. The kernel's only IRQ is 2 and there are 8 slots; run `gic` satisfies the
  hypothesis, and `irqmap_high` shows what happens without it. `MapInv` says that an IRQ
  that is registered is in the slot of its number, whatever the modulus was when it was stored, and
  that the last slot stays empty: `allocated` grows and shrinks with the registrations, but never
  below the number of slots, so that `id % allocated` is `id`. From it: `IrqMapTypeOK`, `StaysInside`, `NullEndsSearch`,
  and the refinement `ImplementsRegistry`.
* `ServicesProofs`, for every set of tasks, heap, sizes, FIFO and length of message.
  `HeapInv`: a call that is alone has read the present `heap_next`, every block ends at or below `requested`,
  and later blocks start behind a block whose call was alone, even when calls that met set
  `heap_next` back to what they had read, because such a block was returned before they began. From it: `BlocksDisjoint`
  and `HeapBound`. `ConsoleInv`: where in its message the task that prints is, that what it has
  sent of a masked message is the tail of what was accepted, that nothing is lost while it is masked, and that after
  `panic` has masked interrupts only the task that panics is in the UART. From it: `MaskedWhole` and
  `LastWords`. `TypeOK` holds by the same two.
* `MmuProofs`, for every even `Fanout`, every set of layouts and memories. `MmuInv` says that
  there are two functions on frames, the level of the table in it (4 for no table) and the entry that leads to it, with
  which the tables are a tree (`Tree`): an entry that is valid leads to a frame of the next level that knows the entry, tables
  lie between `root` and the allocator's last frame, and the frame of a page is no table; and that each page from `Load` to the one that is
  mapped next has the frame and flags it was given, and no other page has any (`Mapped`). The lemmas on the walk:
  two pages whose paths meet in the entry of a level have the same indices up to there (`IndexUnique`, `Paths`), a
  new table changes no path (`GrownPaths`), and a store in level 3 changes the
  translation of one page (`StorePage`); `MapPage` composes them into what `mmu_map` does. Indices are
  quotients, so that the lemmas on `\div` and `%` come first (`Division` to `IndexUnique`). From `MmuInv`: `TypeOK`, `TablesApart` (a
  table is known by the entry that leads to it, hence the cardinalities), `KernelMapped`, and
  the refinement `ImplementsAddressSpace`, by `MapsOne`: a step gives one page that had
  none a translation, or none. `ListsInv` is about the two lists of frames: while they are filled, `free_frames` holds
  the frames below the present one, greatest first; while the pages are walked it is cut off above the frame moved last,
  and `page_table_frames` holds the moved ones, last one first. `ll_unlink` drops what is before the
  node it removes; that the frames come in the order of the pages (`Mapped`) is why that loses
  nothing that is free. `MappedNotFree` follows by `ListedIs`: what `Listed` collects along the links
  is the list's nodes one after the other (an induction, done with the least number at which two
  functions differ): the frames of the pages are at or below the last one moved.
* `PrintfProofs`, for every size of the buffer, width of a word, set of arguments and set of formats: `PrintfInv` adds to `TypeOK` that the buffer
  has room (`IsBuffer`) and that `written` counts what was sent. `PushesEverything` says what
  `PushAll` does with a field of any length: it comes out of the buffer once and in order (a recursive
  function of the number of characters, of which it is first shown that it exists). `DigitsSeq` is the same for
  the digits of a number. From `PrintfInv`: `TypeOK`. `ConversionAgreesWithC` is about
  one directive: if its options have been read (`Options`), it is one that C defines
  and that `DirectiveAgrees` allows, and a `size_t` can count its field, then the conversion adds to the
  output what C says (`Field`); `DoPrintField` is why, the padding being `Wrap(field_width - total_len)`
  in the code and `Padding` in C. `ReturnSendsAll`: nothing stays in the buffer.

  `FormatInv` carries this to whole formats (`PrintfAgreesWithC`, for formats of any items that C defines).
  `AgreesWithC` speaks of the last state only; the invariant has to say where in the format the formatter is.
  It is between two items (`Between`), in a text (`InText`), or in a directive, having read
  so many of its flags, of the digits of its width and of the characters of its precision (`InDirective`),
  and then `pr` is what those set (`OptionsRead`): the field width is the number that the
  digits read so far write, and no option of an earlier directive is left. The arguments of the items before it have been
  fetched, one for each directive that takes one (`Fetched`), and as long as all of
  them are such that C and the code agree (`Alike`), what was sent and what is in the buffer are together the
  output of these items (`Out`). All this holds if each `%%` is followed by text only that cannot belong to a
  directive (`Tame`); behind such a `%%` `in_fmt` stays set, and texts are printed by `Other` instead of
  `PlainChar`. `NextCharacter` finds the character to be read in the text, `Dispatch` the
  action that reads it. The lemmas on the recursive definitions (`FlattenParts` for the spelling of a
  format, `NumberParts` for the value of digits) say that the function is there, and what one more
  item or digit adds. `OnlyPercentFetchesMore` comes from the same invariant: what `printf_percent`
  shows happens behind `%%` only.

Assumptions are the named `ASSUME`s of the modules; TLC evaluates them in each run.

Only model-checked:

* liveness (`NoStarvation`, `HandlerReturns`, `RequestsAnswered`, `CallsEnd`, `PanicPowersOff`),
  which the prover cannot do;
* `DiffersOtherwise`, that the other directives come out wrong: that is so for the formats and
  strings of the run, and no theorem. Two blanks printed with `%2.1s` are one blank and one for the width in C, and
  the two blanks in `generic_printf`; and what one directive has too much another could have too little;
* `FetchesWhatIsPassed` where it fails, behind a `%%` (`printf_percent`);
* the findings: each is a counterexample, and TLC's to give.

## 6. Not modelled

Each part is listed in `PROJECT.json` with its reason: stubs (`kmmap` and its
helpers; `task_sleep` and `task_wakeall`, which are only declared; `kfree`), code that is
called nowhere (menu, readline and the input of the console, `uart_init`, the GPIO functions,
`irq_rehash`, `gic_400_assign_irq_cpu`, `wdog_reboot`, `kzrealloc`), straight-line boot code,
string functions, the list of devices, which is only printed. The time that the UART needs
for a byte is not modelled: a board that is powered off by a panic may lose the bytes that are still
in the FIFO. Memory that holds something else than zero when it is first used for a page
table is not modelled either.

## 7. Plan

Order: the scheduler first (it carries the concurrency), then interrupts, then memory.
Done: `TaskLists`, `Tasks`, `TasksUnmasked`, `RoundRobin`, `IrqMap`, `IrqRegistry`,
`Gic`, `Mmu`, `AddressSpace`, `Printf`, `Heap`, `Services`, and proofs about each of them. What is left of the system is in section 6.

Every safety invariant and every action property that a passing run checks is proved, except `DiffersOtherwise`,
which is no theorem. Left to prove: for which directives and strings the output differs whatever
the rest of the format is; and of the registry, the weakest condition on `Ids` under which `NullEndsSearch` holds.
