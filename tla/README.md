# Verification of the SvetOS kernel

TLA+ modules that model the parts of SvetOS that keep state and can go wrong,
TLC configurations that check them on small instances, and TLAPS proofs of what
matters most for every instance. Paths below are relative to the repository.

## 1. The system

SvetOS is a small 32-bit x86 kernel, started by GRUB. One thread, `kernel_main`,
runs to an idle loop; besides it only interrupt handlers execute. Everything else is
libraries that drivers, file systems and sandboxes are meant to call.

| component | state | operations | interacts with |
|---|---|---|---|
| heap allocator, `kernel/src/mm/mm.c` | block list laid out in the heap, `mm_stats` | `mm_init`, `kmalloc`, `kfree` | called by ipc, sandbox, loader, registry |
| ipc, `kernel/src/ipc/ipc.c`, `include/kernel/list.h` | 32 circular lists of messages | `ipc_init`, `ipc_send`, `ipc_receive`, `ipc_process_messages` | nodes come from `kmalloc` |
| sandbox manager, `kernel/src/sandbox/sandbox.c` | table of 32 sandboxes, a count | create, destroy, grant, revoke, check, alloc, syscall | memory from `kmalloc` |
| boot and interrupt set-up, `boot.asm`, `kernel.c`, `interrupts/{idt,pic,irq}.c`, `exception_stubs.asm` | IDT, two 8259 controllers, interrupt flag | `idt_init`, `pic_remap`, `irq_init`, `kernel_main` | devices interrupt it from `sti` on |
| interrupt dispatch, `irq.c`, `irq_handlers.c`, keyboard driver | two tables of handlers | register, unregister, dispatch, mask, end of interrupt | drivers |
| module manager, `kernel/src/modules/manager.c` | circular list of modules | register, initialise all, find | calls each module's `init` back |
| module loader, `kernel/src/modules/loader.c` | segments in the heap | ELF checks, load, call entry | `kmalloc`, `cpio_get_file` (a stub); entries may register with the manager |
| interface registry, `kernel/src/interfaces/registry.c` | list of names | register, get | `kmalloc`; file systems find storage through it |
| ATA driver (three versions), initrd file system, `modules/` | the device's registers; mounted device | polling read; mount, read, list | registry |
| serial port and `printk`, `kernel/src/hal/serial.c` | the UART's registers | set-up, polling write | the exception stubs write to the port too |
| gdt, `kernel/src/gdt/` | three descriptors | `gdt_init`, at boot | every gate names its segment 1 |
| image builder, `tools/os-builder.c` (runs on the host) | an archive | options, one entry per module | its archives are for `cpio_get_file` |
| tty, vga, paging, scheduler, multiboot loader, string, debug | a cursor, stubs, none | | |

What is hard about it:

- **Interleaving.** Device interrupts against `kernel_main`, because `idt_init` enables
  interrupts before the controllers have been remapped, down to the two instructions of
  a poll of the serial port; faulting and spurious handlers against a thread that changes the
  table of handlers; and the disk against the driver that polls it. No interrupt handler in the tree calls the heap, ipc or sandbox code, so
  those run to completion.
- **Callbacks.** A module's `init`, called from the walk over the list of modules, may add
  to that list.
- **Timeouts.** The ATA driver gives up on a slow disk, whose answer may still come.
- **Ends of interrupt.** Two cascaded controllers, requests that are taken back, and
  handlers that fault: one end of interrupt too few leaves a line dead.
- **Long sequences of legal calls.** The heap and the lists rewrite linked structures
  in place; a wrong link shows many calls later.
- **Partial failure.** `kmalloc` may fail inside every operation that calls it.
- **Word arithmetic** in `ALIGN`, in `init_heap` and in `ipc_send`'s size.
- **Data that is believed.** The loader copies as many bytes as a file says into a region of a
  size that the file says too; the image builder writes sizes that no reader can use.
- **Reuse.** Blocks, nodes and sandbox slots are reused at once.
- **Stopping for ever.** Everything is masked when the kernel goes idle, and only one
  process exists to receive messages.

`PROJECT.json` lists each hazard at its line with the properties that would catch it.
What makes each component correct: the heap gives callers disjoint regions of the size
asked for; ipc delivers each message once and in order, losing no node; the sandbox
manager lets nothing through without a capability and shares no memory; boot brings
both controllers to a known, masked state whatever interrupts it, and loses nothing it
prints; dispatch leaves nothing in service, and masks are those asked for; a loaded module keeps its
bytes as long as well-formed files are loaded and a registered one is initialised once; a registered interface is found; a read
ends even when the disk is dead; an archive's parts lie as its format has them, with an entry for
each file that could be read.

As committed, the tree does not link: `kernel.c` defines stubs of `ipc_init`,
`load_multiboot_modules` and `initialize_modules` that also exist elsewhere. The models
take each source file as the definition of its own functions; `Boot` takes those three
calls as steps without influence on interrupts, which both versions are, and
`KernelModules` takes the order in which `kernel_main` calls the last two.

## 2. Modules

| module | models | correspondence |
|---|---|---|
| `Allocator` | what `kmalloc`/`kfree` promise | abstract: `live` maps each region held to its length |
| `Heap` | `mm.c` | `hdr` maps addresses to `mem_block_t`; `owned` is what callers hold; one action per call and outcome |
| `HeapLoops` | the two walks of `mm.c` as loops, a step per iteration | `current`, `best_fit` are the code's; `headers` is what `kfree`'s loop has made of the list so far; implements `Heap` |
| `HeapSizing` | `init_heap` | word arithmetic on memory reports; a part of `Boot`; establishes what `Heap` assumes of its constants |
| `Mailboxes` | what ipc promises | abstract: a sequence per process |
| `Ipc` | `ipc.c` and `list.h` | `next`, `prev` are the link fields; each list operation is its stores; `waiting` is auxiliary |
| `Capabilities` | what the sandbox manager promises | abstract: capabilities held by the sandboxes that exist |
| `Sandbox` | `sandbox.c` | `sandboxes`, `sandbox_count` as in the code; `live`, `lent`: which blocks are out |
| `Pic8259` | external: the two interrupt controllers | registers, masks, priorities, initialisation, ends of interrupt; used by `Boot` and `Dispatch` |
| `Serial` | `serial.c`, `printk` as far as it sends characters | sequences of statements, for a thread that may be interrupted; the UART is external |
| `Boot` | `boot.asm`, `kernel_main`, `gdt.c`, `idt_init`, `pic_remap`, `irq_init`, the stubs | the program as a sequence of statements, `pc` into it; composes `Pic8259`, `Serial` and `HeapSizing` |
| `Dispatch` | `irq.c`, `irq_handlers.c`, the masks and ends of interrupt of `pic.c`, `keyboard.c` | both tables; `frames` is what is being handled, `access` a mask read and not yet written; over `Pic8259` |
| `Modules` | `manager.c` and `list.h` | the same pointers; the walk of `initialize_modules` is a step per module with its cursor in `pos`; `order` and `log` are auxiliary |
| `Loader` | `modules/loader.c` | a step per program header; the heap as `Allocator` promises it; `memory` is what each byte holds, `corrupt` that something was written past a region's end |
| `KernelModules`, `MCModules` | `kernel_main`'s order of the two | composes `Loader` and `Modules`: entries register modules, then the walk |
| `Ata` | the read of the ATA drivers | a step per poll of the status port; the disk is external |
| `Registry` | `registry.c` | the list as a sequence, newest first |
| `InitrdFs`, `MCInitrdFs` | `initrd_fs_module.c`, `ata_module.c`, `ata_improved.c`, `ata_module_simple.c` | composes `Ata` and `Registry`; `call` is the call in progress, `answer` what the last one returned |
| `Image`, `MCImage` | `os-builder.c` | a step per module added; the archive is a sequence of parts with their places and lengths; a header has the digits of its two sizes |
| `BootClaims`, `DispatchClaims`, `LoaderClaims`, `InitrdFsClaims` | what comments and messages say and the code does not do | one property each run |
| `IpcProofs`, `SandboxProofs`, `DispatchProofs`, `ImageProofs` | theorems | of the module each is named after |
| `HeapProofs` | theorems | of `Heap` and of `HeapLoops`, which implements it |
| `ModulesProofs` | theorems | of `KernelModules`, which composes `Loader` with `Modules` |
| `InitrdFsProofs` | theorems | of `InitrdFs` with `Ata` and `Registry` |
| `BootProofs` | theorems | of `Boot` with `Pic8259`, `Serial` and `HeapSizing` |

Definitions have the names of the functions they model. An operation with several
outcomes is several actions: `kmalloc` and `kmalloc_null`, `sandbox_create`,
`sandbox_create_fails` and `sandbox_limit_reached`. A definition named after another
with something missing or wrong in it (`ALIGN_WithoutAdding`, `irq_init_WithoutRemap`)
is that line of C dropped or mistaken; no behaviour uses it, and putting it in the
place of the right one makes a property fail, which shows what the property is worth.

**Heap.** A header is identified with its address, the list with the set of headers it
reaches. `Place` is the split; `Sweep` and `Coalesce` are the merging pass. The pass
absorbs a free successor and then moves *past* it, so of three free neighbours it
merges two: `Sweep` says which headers go (a header goes exactly when its predecessor
is free and stays). `HeapLoops` has the loops themselves, with a cursor that follows
`next`, the best fit so far, and a merge that rewrites headers under its own cursor; it
implements `Heap`, a call there being the step in which the loop returns. Nobody looks at the list
while a call is under way, which is why the variables of `Heap` may change in that step only.

**Ipc.** The pointers are modelled as they are stored, and `Linked` relates them to the
sequence they stand for; this is what `Mailboxes` is reached through.

**Sandbox.** The heap is reduced to which blocks are out; `kmalloc` may fail at any time.
`passed` is what the last call let through, so that capability checks are visible to
`Capabilities`.

**Boot.** External parts, modelled from how the code uses them: the 8259s (ICW1 resets
mask, requests and service, as emulators and the hardware's common successors do; the
next three data bytes are initialisation words), the UART, interrupt entry and `iret`. A
request during initialisation may be delivered with the vector base the chip then has. An
interrupt without a gate is a fault and ends the model: what the processor does then
is not described by the code. What is printed where no interrupt can come is one statement,
`call`; what is printed between `sti` and the remapping, and the UART's set-up, are port
accesses. A poll is two statements, since the port's number waits in `dx` between
them and the stubs leave another there: the poll then reads the data port, whose bit 5 is
that of whatever was last received. C leaves open whether the number is loaded for every poll or once
before the loop of `serial_write`, and at `-O2` a compiler does either: with gcc 12.2 and the Makefile's flags
`serial_putc` and `serial_write` load it once, and the copy of the loop in `serial_puts`, which `printk` calls,
for every poll. `hoisted` says which build it is, and both are checked and proved about. In the hoisted one a misled poll
stays misled: it goes on when what was last received has bit 5, and hangs while it has not. `mm_init` may find anything where its argument points.

**Dispatch.** It begins where `Boot` ends, and assumes the entry code that the tree lacks (no
gate leads to `irq_handler`): it passes the vector and returns with `iret`. The thread calls
one operation after another. A handler may fault, once, and the fault's own vector then
passes through `irq_handler` too.

**Loader.** A file's headers may say anything, since the loader checks neither sizes nor offsets. `filesz` may
be beyond `memsz`, and `memsz` so near 2^32 that `kmalloc` rounds it up to 0 and grants a region of no bytes (`Granted`).
The copy and the clearing then go past the region, and round the end of the address space (`Written`); from there
on (`corrupt`) the allocator's headers may be damaged, and `kmalloc` may return anything. An overrun is followed in the
heap's bytes only, and not into the structures of the manager's list, which are data of the modules, or of the kernel.
An entry of 0 is taken for a failed load (`no_entry`). `kmalloc` may fail whenever it is called. `load_module` and
`load_module_from_cpio` differ only in that the second finds no file. An entry that was
called may register modules until it returns.

**Image.** What a file holds is its size and whether it can be read. Of a header's fields the two sizes are
modelled, as the digits that are written: `format_cpio_field` formats in octal and then sets the eighth digit to
zero, so that seven are left, while the magic number, 070701, has a reader take digits for hexadecimal. `Hexadecimal`
is that reading. The size 11 becomes 0000001 and is read as 1; of names every size comes out too small, of files
most do not come out right (4096, which is 0001000, does by accident). Modes, times and numbers of devices are left out.
`fwrite` is taken not to fail, as the code does, which looks at none of its results.

**Modules.** An `init` runs between `call_init` and `init_returns`, and may register or look
up modules there; the walk reads its next link only when it has returned. A module
registers itself once: the code resets the links of what it registers, and calling it
twice for one module would break the ring; nothing in the tree does.

**Storage.** `InitrdFs` takes `initrd_fs_module.c`, of which the Makefile links a `.kmod` module, and
the three versions of the ATA driver, which use the same ports and commands and may be registered
side by side, the newest being the one found; with the registry in the place of
`module_stubs.c`, whose comments say the kernel replaces it; nothing in the tree does
that yet, or calls a module's `register_interfaces`. The disk is external: it is busy
until it has the sector or an error, may stay busy for ever, and, when a command reaches
it while it still has data to give, may take it or ignore it (the standard forbids the
driver to write one then, and emulators ignore it). `taken` records which. A disk that takes a command is busy
with it at once: real ones have 400 ns to become so, in which a poll would see the status of before, a DRQ or an ERR of
the last command; the model has no such poll. Sectors are one
datum, fetched in one step, since a disk with DRQ set does nothing until its words have
been read. A `call` in progress is exclusive: the driver's polls are not preempted.

## 3. Runs

| run | instance | what it shows |
|---|---|---|
| `heap` (`Heap.cfg`) | heap of 192 bytes at 64, sizes 0, 5, 16, 33, 64, 6 allocations | `Tiled`, `AtMostOneFreePair`, `OwnersHaveTheirBytes`, `StatsAddUp`; `KeepsHeap`, the loops' refinement of `Heap`; `KeepsPromise`, that of `Allocator` |
| `ipc` | 2 processes, 3 nodes, sizes 0 to 2 | `Linked`, `NodesHaveOnePlace`, refinement of `Mailboxes` |
| `sandbox` | 2 slots, 3 blocks, 3 masks | `CountIsExact`, `MemoryIsPrivate`, refinement of `Capabilities` |
| `boot` | lines 0, 5, 6 and 8, two initial masks, FIFO of 10, both builds of the poll, words of 2^12 with memory reports around every boundary | `ControllersAreSetUp`, `NothingIsLost`, `HeapIsSound`, `InterruptsOnTheWay`, `BootEnds` |
| `dispatch` | lines 0, 1 and 8, handlers for 8 and 16, an exception | `NothingLeftInService`, `MasksAreAsAsked`, `NoLineIsDead` |
| `image` | nine command lines, seven ways for each of three files to be | `OnlyLayoutIsRight`, `NoHalfEntries`, `ExitMeansTurns` |
| `modules` | five files, two of them ill-formed, four bytes, two loads; four modules, two of one name, one without `init` | `LoadedIsIntact`, `Linked`, `WalkIsInOrder`, `FindsTheFirst`, `WalkEnds` |
| `initrd_fs` | 3 sectors of 4 bytes, 2 polls, 2 registry entries, 3 drivers | `SectorsAreThoseAsked`, `QuietAfterSuccess`, `ReadsTheFile`, `WritesFitTheBuffer`, `NewestWins`, `CallsReturn` |
| `boot_argument` | violated | `mm_init` gets the magic number as its pointer |
| `initrd_fs_late_answer` | violated | the boot sector, asked for by `mount` and given up, is returned as the file's contents |
| `keyboard_unheard` | violated | an interrupt of the keyboard is handled without its driver |
| `loader_entry` | violated | the entry called lies in no segment that was loaded |

Bounds, and why they are enough:

- `MaxAllocs` = 6 bounds `alloc_count` in the guard of `kmalloc`. The heap holds at most
  six blocks, so six allocations fill it; with them every chain of free, used and
  unmerged neighbours of up to six blocks arises. Frees need no bound of their own.
- `WORD` = 1024 in `Heap`, 4096 in `HeapSizing`: small enough to enumerate, larger than
  every address; reports of memory lie on both sides of where they wrap. 5 and 33 are
  rounded, 16 and 64 are not; 64 leaves remainders on both sides of
  `HDR + MIN_BLOCK_SIZE`.
- Three nodes in two queues: a queue with a first, a middle and a last node, and one
  queue growing while the other shrinks. Two sandboxes and three blocks: the limit is
  reached, and a block is left to be lent.
- Requests are not bounded in `Boot`: a device may ask again as soon as it was served.
  The lines are the three that find a gate (0, isr8; 5, isr13; 6, isr14), and one on
  the slave that finds none (8).
- `FIFO` = 10 of 16: the fewest places with which nothing is lost (TLC finds a lost character
  with 9). Each of the three lines sends a letter without polling, and may again after the
  controller was reset, and a poll that one of them misled adds a character of the message,
  however long that is.
  As the real transmitter has more places, `NothingIsLost` holds of it, with six to spare.
- The lines of `dispatch` are the keyboard's (1), a line before it in priority (0), and one of the slave;
  masks of the cascade's line 2 are set and cleared too; 16 is a number outside the tables.
- Masks 0 and 184 in `boot`: everything passes, or, with 184 (0xB8, a usual value), lines 0, 6 and, of the slave's, 8.
- Two loads into four bytes, of files that ask for two, four, or, because the size wraps, none of them: a module
  loaded and another failing after or in between, or overrunning it; the sizes leave a rest to be cleared and an
  empty segment. `WORD` = 16 and `ALIGNMENT` = 2 for 2^32 and 8: 15 is rounded up to 0.
- In `image`, lengths of names and sizes of files leave every remainder by four, options are missing,
  repeated and unknown, lists have empty places at the start, between and at the end, and two
  tokens stand for one file.
- Four modules: the walk has modules before and after the one whose `init` is running
  and another to be added; the pair of one name is registered in either order.
- `TIMEOUT` = 2 for 100000: a poll that fails, one that succeeds and the end of the polls.
  `COUNT8` = 2 and `LBA28` = 4 for 2^8 and 2^28, with counts 0 to 3 and address 4, so that
  both registers cut what they are given; sector 3 is behind the end of the disk. Offsets
  0, 5 and 8 lie at the start of a sector, inside of one and behind the last, sizes of 0, 3 and 9 are
  none, less than a sector and more than two.
  `MaxEntries` = 2 entries suffice for one to hide another or to follow a foreign one.

Deadlock is checked in every run. The runs of `heap`, `ipc`, `sandbox`, `dispatch`, `modules` and
`initrd_fs` also check a type invariant.

**Fairness.** `Boot`: `WF_vars(kernel_step)` and `WF_vars(isr)`: the
processor executes the next instruction of what it runs, kernel or handler; and
`WF_vars(uart_sends)`: the UART sends what it holds. Devices are
not fair: they may never interrupt. `BootEnds` holds although an interrupt may come in
whenever the kernel could step, because the handlers of exceptions send no end of
interrupt, so that each line gets through once between two resets of its controller. Its one exception, stated in the property, is
the hoisted build, and in it only the run in which a stub has left its port in `dx` and the data port reads without bit 5 time and
again for ever; nothing fair ends that, as only the other end of the line could send something.
`Dispatch`: the processor takes an interrupt when one waits and they are enabled, runs
`irq_handler` to its end and writes back the mask it has read; `NoLineIsDead` asks for no
more, and speaks of lines that no other keeps waiting by its priority. `KernelModules`: the
loader's steps, and the walk: `WF_vars(Walk)`, `kernel_main` goes on and an `init` returns; `WalkEnds` needs no bound on
registrations but that each module is registered once. `InitrdFs`: the driver's polls
and the code after them are executed; nothing is assumed of the disk.

What the violated runs say of the passing ones: `SectorsAreThoseAsked`,
`QuietAfterSuccess` and `ReadsTheFile` are about reads whose command the disk took;
`initrd_fs_late_answer` shows that this premise is needed. `loader_entry` shows what `LoadedIsIntact`
does not promise: that the segments are where the file's code expects them. Since `boot_argument` shows that
`mm_init` reads its report from anywhere, the report may be any; `HeapIsSound` claims something only for sane ones
(`Sane`): the product by 1024 does not wrap, and memory ends far enough behind the kernel. For the others the code
has no check, and no property covers what it makes of them. `LoadedIsIntact` has a premise of the same kind: that every
file that passed the loader's checks is `WellFormed`, its segments no longer, in the file or in memory, than the region that
is allocated for them. The run has ill-formed files too; without the premise it fails. `OnlyLayoutIsRight` says what its
name does: headers and data lie where the format has them, and no header tells a reader how long its name is.
`ControllersAreSetUp` states that everything is masked when the kernel goes idle, which is what keeps it idle for ever. `WritesFitTheBuffer` states the
exception that `initrd_list`'s `strcpy` makes.

## 4. Proofs

All for arbitrary constants satisfying the named assumptions of the modules. Every safety
property, action property and refinement that a passing run checks is proved; liveness is not.

| theorem | says |
|---|---|
| `HeapProofs!TypeCorrect` | `Spec => []TypeOK` |
| `HeapProofs!BlocksTileTheHeap` | `Spec => []Tiled` |
| `HeapProofs!OnePairIsTheMost` | `Spec => []AtMostOneFreePair` |
| `HeapProofs!StatsStayExact` | `Spec => []StatsAddUp` |
| `HeapProofs!OwnersKeepTheirBytes` | `NoWrap => (Spec => []OwnersHaveTheirBytes)` |
| `HeapProofs!HeapKeepsPromise` | `NoWrap => (Spec => KeepsPromise)` |
| `HeapProofs!LoopsImplementHeap` | `LoopSpec => KeepsHeap`: the loops implement `Heap` |
| `HeapProofs!LoopsKeepPromise` | `NoWrap => (LoopSpec => KeepsPromise)`: and so what callers rely on |
| `IpcProofs!TypeCorrect`, `ListsStayRings`, `NodesStayInOnePlace` | the invariants of `Ipc` |
| `IpcProofs!IpcKeepsPromise` | `Ipc` implements `Mailboxes` |
| `SandboxProofs!TypeCorrect`, `CountStaysExact`, `MemoryStaysPrivate` | the invariants of `Sandbox` |
| `SandboxProofs!SandboxKeepsPromise` | `Sandbox` implements `Capabilities` |
| `ModulesProofs!BothTypeCorrect` | `BothSpec => []BothTypeOK` |
| `ModulesProofs!SegmentsStayIntact` | `BothSpec => []LoadedIsIntact`, of any files: their being well-formed is a premise of the property |
| `ModulesProofs!ListIsARing`, `InitsAreInOrder` | `BothSpec => []Linked`, `BothSpec => []WalkIsInOrder` |
| `ModulesProofs!LookupFindsTheFirst` | `BothSpec => FindsTheFirst`, an action property |
| `DispatchProofs!TypeCorrect`, `ServiceEnds`, `MasksAreKept` | `[]TypeOK`, `[]NothingLeftInService`, `[]MasksAreAsAsked` |
| `InitrdFsProofs!TypeCorrect` | `Spec => []TypeOK` |
| `InitrdFsProofs!SuccessIsTheSectors`, `SuccessIsQuiet` | `[]SectorsAreThoseAsked`, `[]QuietAfterSuccess`, of the driver |
| `InitrdFsProofs!FileIsRead`, `NothingIsOverrun` | `[]ReadsTheFile`, `[]WritesFitTheBuffer`, of the file system |
| `InitrdFsProofs!RegistrationsWin` | `Spec => NewestWins`, an action property |
| `BootProofs!ControllersComeUp` | `Spec => []ControllersAreSetUp` |
| `BootProofs!PrintedIsSent` | `FIFO >= 10` implies `Spec => []NothingIsLost` |
| `BootProofs!InterruptsAreMet` | `Spec => InterruptsOnTheWay`, an action property |
| `BootProofs!HeapComesOutSound` | `Spec => []HeapIsSound` |
| `BootProofs!HeapGetsItsConstants` | `Spec => []AsHeapAssumes`: the heap that `init_heap` sizes is one that `Heap` is about |
| `ImageProofs!HeadersMislead`, `EntriesAreWhole` | `ImageSpec => []OnlyLayoutIsRight`, `ImageSpec => []NoHalfEntries` |
| `ImageProofs!EveryModuleHasItsTurn` | `ImageSpec => []ExitMeansTurns` |

*Heap.* The tiling is proved on functions, apart from the state: a predicate says that a
function from addresses to headers tiles the heap, and lemmas say that the split
(`Place`) and the pass (`Coalesce`, for any set `Sweep` allows) keep it. That requires
facts no state predicate of `Heap` mentions, such as that sizes stay multiples of
`ALIGNMENT` and that a header's successor is the next header by address; these are the
strengthening. `AtMostOneFreePair` is inductive together with the tiling: a pass started
with at most one pair, plus the two a freed block may form, leaves at most one.
`StatsAddUp` is inductive with the tiling and with `PointersAreOwned`, which says that callers hold
the pointers of the used blocks and no others: a call then adds or removes one interval of bytes that meets no
other used block (this is the tiling), and one pointer; the pass changes no used block.
`NoWrap` says that no request is within `ALIGNMENT` of `WORD`. Without it
`OwnersHaveTheirBytes` and the refinement are false (a request of `WORD - 1` gets a block of no
bytes); the other theorems need no such assumption.

*Loops.* The refinement is the identity on the variables of `Heap`: an iteration stutters, the return
is the call. What makes it provable are the loops' invariants (`LoopIInv`). The search: the blocks
before the cursor that fit (`Seen`) have a smallest, the first of them is `best_fit`, and there is none exactly when
`best_fit` is `NULL` (`BestSeen`). The merge: of the headers before the cursor exactly those are unlinked that
`Sweep` says go, given which of their predecessors did (`Swept`); what stays has grown over what went, and the
headers from the cursor on are as `kfree` marked them (`Merged`). The cursor always lies on a header that stays, because
after absorbing one it moves past it. At the end of the list both say of all blocks what `BestFit` and
`Coalesce` say. No recursion is involved, so lists may have any length.

*Ipc.* The invariant is the conjunction of `TypeOK`, `Linked` and `NodesHaveOnePlace`: that a node
is in one place is what makes the four stores of an insertion or removal hit the right
cells and no others. The refinement then is a computation with sequences.

*Sandbox.* `CountIsExact` rests on the cardinality of the set of slots in use, and its
second half (a slot is free exactly when the count says so) on the least free slot,
which exists by well-foundedness of the naturals.

*Loader.* `LoadedIsIntact` speaks of finished loads only. What makes it inductive: the load in progress
has placed exactly the segments before its counter, each holding what its header says in a region
of its own, and regions do not overlap (`LoadInProgress`, `LoadedHold`, `RegionsAreApart`). All of it holds as long as
no file begun is ill-formed, and until then nothing is `corrupt`: what is written lies in the region that
was granted. The heap
enters as `Allocator` promises it, which is what `HeapKeepsPromise` is about.

*Modules.* `Linked` with "a module is registered once" (`RegisteredOnce`); the walk's invariant adds that during an
`init` its module is the last of the log and has not been counted. Registering appends to the order while the
cursor is inside it, so the places before the cursor do not change. That the search of `find_module` stops at
the first of the name needs the least such place.

*Dispatch.* Neither property is inductive. `NothingLeftInService` needs to know what will be ended
by the frames being handled: each controller has at most one line in service, the slave's only under a frame that
will end it (`ServiceWillEnd`), and the controllers stay as `irq_init` left them. `MasksAreAsAsked`
speaks of when no access is under way; `MasksWillBeAsAsked` says of every state what the mask *will be*
when the byte that has been read is written back. Priority and bits of a byte are arithmetic on
0 to 7, proved in lemmas by cases; that an interrupt has a highest priority, by well-foundedness.

*Storage.* `InStep`: from the command that the disk took to the next one, the disk is as far as the
buffer is filled, and is quiet only when it has sent everything. Above it, `CallIsUnderWay` ties the driver's
registers to the call in progress (`initrd_read` waits for sector `1 + offset / BYTES`), and `AnswerIsRight` is what
`ReadsTheFile` and `WritesFitTheBuffer` say. The look-up of a name in the list, `SelectInSeq`, is reduced to the
first entry of the name by a lemma, and the rest is about lists with one more entry in front.
`InitrdFsAssumption` says that the sectors asked for have addresses below 2^28. Offsets are 32-bit words, so that
sectors are below 2^23 + 1.

*Boot.* The program is a sequence of 89 statements put together from pieces, one of them flattened from the characters of a
message. The first half of `BootProofs` computes it: how long each piece is, which statement is at which place,
which places are polls, sendings and commands. The invariant then says, by ranges of `pc`, what has been done: which words each
controller has still to be sent (`RemapsGoThrough`), which tables are up (`TablesAreUp`), when interrupts
can be on and find a handler or none (`InterruptsAreLate`), what may be in service (`ServiceIsShort`), and how full the transmitter
can be (`QueueIsShort`). The last is the counting argument: a handler of exceptions sends no end of interrupt, so
each of the lines 0, 5 and 6 enters once before the first command; each adds two characters, its
own and that of the poll that it misled; and after the command, which clears the service, each may add another.
So ten places are enough. That is the hypothesis of `PrintedIsSent`, since the model leaves `FIFO` open: the
16550 of the code has 16 places. `HeapIsSound` is independent of the rest: arithmetic of words and of remainders, for any
`WORD`, page and granule of which one divides the other (`SizingAssumption`, which holds of 2^32, 4096, 1024
and 8). `HeapGetsItsConstants` adds that
both ends are words, and so has what `HeapAssumption` asks of `HeapStart` and `HeapEnd`.

*Image.* The archive is a sequence of parts that know where they begin. `Written`: they lie end to end, every header
so far has its parts where they belong, and between two entries the file's position is a multiple of four; a new entry
keeps this because padding depends on the remainder of what it follows only (`PaddingAligned`). That a name's header
misleads is arithmetic of numbers below 512 (`CutShort`): the seven digits are those of n in octal
without the last, and are less than n when read as hexadecimal. What the archive
holds is stated with sequences chosen from others (`NamesOf`, `ReadableOf`, `NonemptyOf`), which `FlattenSeq` defines
by recursion. The library's induction theorems cannot be used, so the first part of `ImageProofs` reasons about a
smallest counterexample: the function behind `FlattenSeq` exists (`FlatExists`), two of them agree on sequences
that agree (`FlatsAgree`), and so one element more adds one piece (`FlattenGrows`). `TurnsSoFar` says that
the tokens that had their turn are the nonempty ones among the places that `strtok` has passed; when it finds no
other, the rest is empty, and they are all there are.

The inductive invariants were checked with TLC on the runs' instances before they were proved.
What the proofs changed in the models: `WalkIsInOrder` is stated without `SelectSeq`, about the places of the order;
`InterruptsOnTheWay` asks for more than it did (a handler enters before the *master* has its new offset, which was
"before both have"); `HeapLoops` is a state machine that implements `Heap`, where two recursive functions
were compared with it on the lists of one instance; and the parts of `Image` carry their places, so that `OnlyLayoutIsRight`
relates neighbours.

Not provable with the tools used and left to TLC: liveness, `BootEnds`, `NoLineIsDead`, `WalkEnds` and
`CallsReturn`.

## 5. What is left

`Heap` takes as constants what `Boot` computes. A constant of one module cannot be instantiated with a
variable of another, so the two are composed by `AsHeapAssumes`, which repeats `HeapAssumption` of the variables.

Of the models, `Ipc` and `Sandbox` could share one `Heap` instead of each having a reduced one.
That would let the size arithmetic of `ipc_send` be stated, which `Ipc` leaves out.

Not modelled, and why:

- `initrd_fs_improved.c` and `initrd_fs_module_simple.c`: they do not compile (they assign to
  `name`, an array, and use `MODULE_TYPE_FS`, which is not declared), so there is no
  behaviour to be faithful to. `fs.c` beside them, and `initrd.c` but for `cpio_get_file`, are stubs.
- Exceptions of the kernel's own: no code in the tree raises one on purpose but the tests;
  isr8, isr13 and isr14 do not pop the error code such an exception would push.
- The entry code of vectors 32 to 47: the tree has none. `Dispatch` says what it assumes of it.
- `tty.c` and `vga.c`: nothing calls them. `debug.c`, and `serial.c`'s input: likewise.
- Formatting (`printk`) and the string functions: loops over bytes without state.
- `mm_paging.c`, `scheduler.c`, `multiboot_loader.c`: empty files and stubs.
- Test modules, the Makefile and `create_initrd.sh`. The Makefile makes the image before the
  modules it is to hold.
- The archive's header fields other than the two sizes; and what a reader makes of an archive, beyond the
  size of the names: `cpio_get_file` is a stub.

Callers that free a pointer twice or use memory after freeing it are outside `Heap`'s
environment: no code in the tree does so with effect (`ipc_receive` prints from a freed node,
before anything can reuse it). A module that registers itself twice is outside that of `Modules`.
