# RedFox32 in TLA+

Models, model checks and proofs of RedFox32, a 32-bit operating system that
boots from a floppy disk: its two-stage boot loader and its kernel (heap,
keyboard driver, text console, interrupt handling, the beginning of a floppy
driver), and of the previous tree under `src/RedFox32/Old/`: its floppy driver,
interrupts, system calls, calls back into the BIOS and file system. Paths below are
relative to `src/RedFox32/Source/` unless they begin with `Old/`.

`PROJECT.json` has, for every definition that models code, the lines it stands
for, and for every property a mutation of the model that breaks it.

## 1. Inventory

The processor runs one thread. What makes the system concurrent is the hardware:
interrupt handlers come between any two instructions while the interrupt flag is
set, and the keyboard controller, the interrupt controllers, the floppy
controller and the BIOS act at their own pace.

| Part | State | Operations | Talks to |
|---|---|---|---|
| Boot loader stage 1, `BootloaderStage1/Bootloader.asm` | registers, memory from 0x0500 | reset the disk, read 16 sectors, retry for ever | BIOS; jumps to stage 2 |
| Stage 2, `BootloaderStage2/Stage2A.asm` | `KERNEL_LOAD_ADDR`, the table at 0x8000 | `CreateMemoryMap`, `LoadKernel`, `EnableA20`, mode switch | BIOS, 8042; calls the kernel with the table |
| Heap, `Kernel/Memory.c` | `NextAllocationPosition`, `MemoryAllocationList`, a header before each block | `malloc`, `free`, `realloc` | reads the memory map |
| Keyboard, `Kernel/Keyboard.c` | `Modifiers`, `PreviousEvent` | `Keyboard_Handler` (IRQ 1), `Keyboard_GetEvent`, `Keyboard_getch`, `UpdateLEDS` | 8042; handler and readers share `PreviousEvent` without a lock |
| Console, `Kernel/TextMode.c` | video memory, `ScreenPos` | `putch`, `ClearScreen`, and callers of `putch` | - |
| Interrupts, `Kernel/IDT.c`, `IDTA.asm` | gates, `InterruptHandlers`, the stack frame | `IDT_Setup`, `SetInterruptHandler`, entry code, `InterruptHandlerStub` | both 8259s, handlers |
| System calls, `Kernel/Syscalls.c` | a slot of `InterruptHandlers` | `Syscalls_Setup`; the handler is empty | interrupts |
| Floppy driver, `Kernel/Floppy.c` | `IRQReceived` | `IRQHandler`, `WaitIRQ`, DMA set-up | not called yet |
| Main, `Kernel/Kernel.c` | - | set-up in order, event loop, `Shutdown`, `Reboot` | all of the kernel |
| Previous loader, `Old/Source/BootloaderStage2/` | `IRQReceived`, `Drive`, the DMA channel, `InterruptHandlers`, `Syscalls`, a volatile `ScreenPos` | `ReadLBA`, `WriteLBA`, `IDT_Initialize`, registration by `int 0x80`, `puts` | floppy controller, both 8259s; hands the kernel interfaces of function pointers |
| Previous kernel, `Old/Source/Kernel/` | `RootDirectory`, `SectorMap`, the boot sector at 0x7C00 | `KMain`, `FS_Initialize`, `ReadFile`, the sector map, `int32` | system calls of the loader, BIOS in real mode |

The previous tree is not built by the Makefile. Its loader is a whole program; its
kernel lacks the `malloc` it calls (`FileSystem.c:183`, `Kernel.c:41`), which is
nowhere declared or defined, and is modelled without it. The hardest of its code is what a new floppy
driver and file system will be made from.

What is hard in each, and what makes it correct:

* **Heap.** 32-bit arithmetic that wraps; a map check that looks at two addresses
  only; a check that calls `malloc` recursively; a `Next` word left as it was
  found; growing in place without moving the place of the next block. One would want
  that no byte is handed out twice and that reserved regions are kept clear of; the
  code does not go so far. Correct, as far as it goes: two blocks share bytes only
  through growth in place, the list of headers stays whole until such a block is
  filled, only the last block grows in place, a freed block stays freed, and a long
  region has at most the tail of a block in it.
* **Keyboard.** A structure copied and cleared byte by byte under interrupts; a
  test followed by `hlt`; one slot for all events; bytes read before they have
  arrived, or dropped; two keys with one modifier bit. Correct: a stored event is acted
  on at most once and in order, whole if nothing overlapped, and is never forgotten in a
  `hlt`; each modifier bit says what was last sent of its code.
* **Console.** Unsigned arithmetic at both ends of the screen, a scroll that is
  put off. Correct: it looks like a terminal and stores nowhere else.
* **Interrupts.** The order of set-up; end-of-interrupt for spurious and software
  interrupts; edges that come only once; stack frames shared between assembly
  and C. Correct: nothing unhandled is taken, no line stays in service, the
  interrupted program goes on where it was and finds what the C code left alone.
* **Floppy waits.** A counter decremented in two steps; flags from an earlier
  command; results that must be read exactly; a timeout that resets the
  controller in the middle of a loop; a DMA address that is set once for all
  transfers. Correct: a wait matches its command, and the driver is a block device.
* **Previous interrupts and system calls.** A handler registered by a system call
  that turns interrupts on before it returns; a way to real mode and back that
  changes mode, table and vectors one by one; a handler that prints while the main
  program prints. Correct: the processor is always where the source sends it.
* **Previous file system.** A path cut up in place, a flag read unassigned, three
  loops that may not end, bits in bytes. Correct: a file is found and read whole,
  the map is a set of sectors, a call returns.
* **Boot.** Retries after partial reads; counts not looked at; off-by-one loops; a
  controller shared with a keyboard that is still sending; a stack that A20 moves; a BIOS
  free to answer in many shapes. Correct: what is entered has been loaded, the table is
  the map, A20 is on, nothing resets the processor.

The full list, line by line, is `hazards` in `PROJECT.json`.

## 2. Modules

| Module | Models | State ↔ code |
|---|---|---|
| `Memory` | whole calls of `malloc`, `free`, `realloc` | `heap` maps the address of each header to its fields; `NextAllocationPosition` and `MemoryAllocationList` as in the code; `status` says how the machine was lost: an out-of-memory halt (`oom`), a recursion (`runaway`), a block over the end of the address space (`wrapped`), a header written over by a caller (`overwritten`) |
| `MemorySteps` | the same calls at the grain of the loop over the memory map | adds `stack`, a frame for each active `malloc`, and `moved`, the block `realloc` is moving; extends and refines `Memory` |
| `MemoryProofs`, `KeyboardProofs`, `InterruptEntryProofs`, `BootProofs`, `FDCProofs`, `FileSystemProofs`, `OldKernelProofs`, `DriverProofs` | - | theorems about the module each is named after, `MemoryProofs` also about `MemorySteps`, `KeyboardProofs` also about `KeyboardGetch`, `DriverProofs` about `TextMode` and `FloppyIRQ`; section 5 |
| `KeyboardDriver` | `Keyboard_Handler`, keyboard, 8042 | keys have codes, which they may share; a field of `PreviousEvent` holds the number of the event it was stored by, so that fields of two events are told apart; histories `pressed` and `missed` of the codes last sent |
| `Keyboard` | KMain's loop with `Keyboard_GetEvent` | extends `KeyboardDriver`; `pc`, the byte index `i`, the copy `Event` |
| `KeyboardGetch` | `Keyboard_getch` in a loop | extends `KeyboardDriver`; `place`, where `getch` is; `c` |
| `Terminal` | what the console promises | abstract: cells, row, column |
| `TextMode` | `putch` and its callers | bytes of video memory, `ScreenPos`, stray stores; refines `Terminal` |
| `PIC` | the pair of 8259s | operators: priority, in service, end of interrupt |
| `Interrupts` | set-up, delivery, end-of-interrupt | gate descriptors, handlers, the request and service registers of both 8259s |
| `InterruptFrame` | the entry code, instruction by instruction, and what C code may do to its frame | registers and stack in 16-bit halves; `scribbled`, the halves of its arguments the C code has written to |
| `InterruptEntry` | an interrupt from the controller to the `iretd` | composes the two above |
| `FloppyIRQ` | `WaitIRQ` and `IRQHandler` of `Kernel/Floppy.c` | the counter, and the register it is decremented in |
| `A20` | `EnableA20`, the 8042 and the gate | input and output buffer, output port; for each word on the stack, what A20 was when it was pushed |
| `MemoryMap` | `CreateMemoryMap` against the BIOS | the table at 0x8000, `bp`, the BIOS's answers |
| `DiskBoot` | disk reads of both stages | which disk sector each slot of memory holds |
| `Boot` | from the BIOS's jump to the call of the kernel | composes the three above |
| `BlockDevice` | what a floppy driver promises | abstract: the call, its outcome, the buffer |
| `DMA` | channel 2 of the 8237 and the port writes of `DMAInit`, `DMARead`, `DMAWrite` | operators on the channel's address, count, page, mode and flip-flop |
| `FDC` | `Old/Source/BootloaderStage2/FDC.c` | driver's `pc`, `IRQReceived`, `Timeout`; controller, drive and DMA channel; refines `BlockDevice` |
| `FileSystem` | `Old/Source/Kernel/FileSystem.c` | disk, buffer, `RootDirectory`, `SectorMap`, the path in memory, `ReadFile`'s locals |
| `Video` | `Video.c` of the previous loader | `screen.pos` is `ScreenPos`, `screen.beyond` how far behind the screen a store went; `loaded`, the register |
| `OldInterrupts` | `Interrupts.c`, `InterruptsA.asm`, `Syscall.c`, and `int32` of the previous kernel | tables, `frames` (nested interrupts and system calls), processor mode, 8259s |
| `OldKernel` | `Stage2_CEntry`, `FDC_Init`, `KMain`, `FS_Initialize` as one program | composes the two above with a floppy that takes commands |
| `MC*` | instances for TLC | constants |

Composition. `KeyboardDriver` is shared by its two readers. `MemorySteps` is shown
to implement `Memory`, `TextMode` to implement `Terminal`, `FDC` to implement
`BlockDevice`, whose outcomes the reads of `FileSystem` and `OldKernel` have.
`OldKernel` runs the main program, printing step by step, on `OldInterrupts` and
`Video`. `InterruptEntry` joins
`Interrupts` and `InterruptFrame`: the step that takes an interrupt starts the
entry code, the stub's two halves are the handler's and the end-of-interrupt's
step, and while the entry code runs the devices go on. `Boot` runs the steps of
`MemoryMap` while `DiskBoot` waits for `CreateMemoryMap`, and those of `A20`, with
8042 and keyboard beside them, between the mode switch and the call of the
kernel. Once the table is made `Boot` forgets its history, which nothing later
looks at. `Interrupts`, `InterruptFrame`, `DiskBoot`, `A20`, `Video` and
`OldInterrupts` have no specification of their own; `MemoryMap` has one for its violation run.

Two abstractions run through all modules. Data that the properties do not tell
apart are model values or numbers of events. Code that runs with interrupts off
(a handler, a heap call made only from the main loop) is one action; code that an
interrupt can come between is as many actions as there are accesses to shared
state. An operator whose comment begins "Mutant of" is not part of the
specification: it is an erroneous form of its neighbour that shows the
properties to depend on the code.

Some reading notes where a model may surprise:

* `Fill` in `Memory` stands for the callers: one that writes to all the bytes it was
  handed, when a later header lies among them. Blocks that share bytes are possible
  before (`NoOverlap` says how); from then on nothing is known of the list.
* `Fail` in `Memory` lets a `malloc` whose place is in the way of the map end in
  `oom` or `runaway`; that it never returns is what `MemorySteps` shows.
* `RegularKey` stores one number in five fields because the handler writes the
  five fields of one event without interruption; only the reader tears them.
* The byte behind 0xE0 is taken from the keyboard with or without its interrupt
  still latched, since a read from the port does not take an edge back.
* Two keys of one code are two keys of `Keys`: left and right control send 0x1D, the
  right one behind an 0xE0, and the handler has one bit for both. A shift that a keyboard
  fakes around an extended key (0xE0 0x2A, 0xE0 0xAA) comes with the key's own bytes. The
  Pause key, whose code begins with 0xE1, is left out.
* `Stub` in `InterruptFrame` may write to the slots of its arguments, which are its own
  in the calling convention; which ones is a constant. The stub's source assigns to none,
  and the Makefile's options (line 14) do not optimise, so the one that is built writes to
  none; the properties say for every choice what follows from it.
* The stack of `EnableA20` ends at 0x00105000. With A20 off what is pushed at 0x00104FFC
  goes to 0x00004FFC; a word is the one that was pushed only if A20 is what it was then.
* In `Interrupts` initialising a controller clears its latches. A byte that came
  before is lost to the kernel; `EveryKeyRead` is about those that came after.
* A gate in `Interrupts` is the descriptor `IDT_SetInterruptEntry` stores, and leads to
  the stub only if its halves give the stub's address. `StubAssumption`, that stubs lie
  below 64 KiB, holds for a kernel linked at 0x2900 and is needed: `OffsetHigh` is cut
  off before it is shifted.
* `MemoryMap` allows answers of 20 and 24 bytes, ignored and empty entries, an end
  by `ebx = 0` or by carry, and a failing first call.
* In `FDC` a transfer with the motor off ends in an error; hardware might not
  answer at all, which only the state after a panic could meet.
* The sector map's functions in `FileSystem` are called by nothing yet; `Mark` stands for
  their caller. After a failed read the model makes no call until the machine is started
  again: a bound, for the code cannot tell.
* A sector of `FileSystem` has a reading as a directory, as the map and as data. Writing the
  map back makes the sector it lies in another one as data (`MapData`); that no directory
  lies there is assumed, as in the image.
* A name in `FileSystem` is one token, which stands for the five bytes `NameCompare`
  looks at: two names that differ behind the fifth byte only are one name, as in the code.
* The bit of a sector is looked up in a table of eight powers of two, which is what the
  code's shift of `0b10000000` gives.
* `InDir` is a free choice in each `ReadFile`, being read before it is assigned.
* In `OldKernel` the `asm` statements that load EBX, EDX and EAX one by one before `int
  0x80` are taken to keep each other's registers, as the compiler's output does, and a
  read is one command (in the driver it is a seek, which may be repeated, and a
  transfer; `FDC` has them).
* Only the heap states a type invariant as a property of its run. Elsewhere the types are
  the first conjunct of the induction in the module of proofs.
* The channel of `DMA` has a bit for its mask and its flip-flop and is set up by port
  writes, one by one, from the state `BiosChannel` in which the BIOS leaves it.

## 3. Runs

Passing:

| Run | Distinct states | Bounds | What it shows |
|---|---|---|---|
| `MemorySteps` | 195 000 | 40 words of which 4 to 24 are allocatable, header 2, sizes 0, 1, 2, 3 and 39, four regions out of order of which one wraps, stack of 4 frames | what two blocks may share, list whole, only tails in long regions, growth in place only at the end, freed blocks stay freed; the recursion never returns; the step-wise `malloc` implements `Memory` |
| `Keyboard` | 40 800 | 2 key movements, 4 keys of all kinds | what tearing can and cannot do; order; liveness of `Keyboard_GetEvent` |
| `KeyboardGetch` | 2 745 000 | 3 key movements, 6 keys, two of which share a code and two of which come with faked shifts | `getch` answers an earlier event than the one it returns on; modifiers |
| `TextMode` | 53 000 | 3 lines of 3 cells | refinement of `Terminal` |
| `InterruptEntry` | 28 000 | IRQ 0, 1, 8, 12, spurious 7, 15; eight sets of halves the stub writes to | set-up order, end-of-interrupt, edges, frame and arguments |
| `FloppyIRQ` | 5 050 | counter of 8 values, 10 commands, at most 6 in flight | no wait returns early; one command at a time never sticks |
| `Boot` | 154 000 | one cylinder, as shipped; up to 4 BIOS answers; three bits of a byte at the 8042, A20 on or off | loaded memory, the table, A20, reset, termination |
| `FDC` | 289 000 | seven sectors at the boundaries of the geometry, timeout at 2, wrap at 4 | waits match commands, heads and DMA channel in place, refinement of `BlockDevice`, return or panic |
| `FileSystem` | 78 600 | seven disks of six sectors, three paths, unsigned short of 3 bits, two sectors marked | `ReadFile` finds and reads, the map is a set across restarts, `ReadFile` returns but from three loops |
| `OldKernel` | 75 100 | IRQ 0, 6, 12; two rows of four cells; two sectors of kernel | processor never lost, reads wait for their own interrupt, printing near the screen, progress |

Why the bounds suffice. The address space keeps the order of the constants in the
code (bottom, end of the allocatable range, a margin the header fits in, the wrap),
and every size relative to a region occurs: shorter, equal, longer, touching, with its
tail inside, and, with 39 of 40 words, one that comes round. Four regions out of order
have a gap that ends at another region, and four frames are one more than the recursion
needs to repeat itself. Two key movements of a key with an extended scancode are up to four
events, for the handler may store the 0xE0 and the byte behind it apart: one being
copied, one overwriting it, and more after; the keys include one of each branch of
the handler. Three movements of six keys hold both control keys and release one,
or press a key, drop its release in `UpdateLEDS` and press another. Three cells by
three lines have a first, a middle and a last of each, and a tab wraps over a line
and scrolls. A counter of eight values wraps with six commands in flight; the width
enters the code only through that wrap. Six of the seven sectors of `FDC` are the
ends of a track, a cylinder and the disk, the seventh lies past it; limits on
retries enter only by equality. The disks of `FileSystem` are the image the repository
builds, one with two entries of a name and files at and beyond both limits, one with a
chain of three descriptors (following a chain and following it further differ), one
with directories, and three with chains that go round in a circle or leave the disk, from
the root or from behind it; their maps have the first byte, both bytes, none or single
bits set; sectors 7 and 8 are the last and the first bit of two bytes. In
`OldKernel` a screen of two rows scrolls with every second line, the third line beside
timer and floppy is one of the second controller, and two sectors are one after
another; the timer does not tick while an interrupt waits or is served.

Two runs find a statement of the repository that its code does not keep; the
quotations are in `findings`:

| Run | What the trace shows |
|---|---|
| `MemoryMap_entries` | the kernel takes the first entry's first word for a pointer |
| `Boot_a20` | `EnableA20` is called with A20 off: the `ret` behind the write that switches it on pops a word that was pushed elsewhere |

Further deviations met while modelling. They are in the models as the code has
them, and the properties are stated around them; no run is spent on them:

* `Kernel/Memory.c:103` "Ensure our bounds won't wrap round below 0": the sum is compared
  after it has wrapped. A size that takes it past 2^32 and back to `MEMORY_START` passes,
  and the block handed out runs over the end of the address space; from 0x115000 on there
  is a position at which a size does so (the status `wrapped`, and `NoOverlap`).
* `Kernel/Memory.c:209-212`: `realloc` lengthens the last block in place, without a look at
  the bounds or the memory map and without moving `NextAllocationPosition`. The next
  `malloc` writes its header, and hands out its block, inside the one that has grown; when
  the caller fills that, the header is gone (`Fill`, the status `overwritten`). `NoOverlap`
  says that blocks share bytes in no other way.
* `Kernel/Keyboard.h:33` has the character belong to the event; a copy that an
  interrupt divides has the code of one key and the character of the next
  (`TornForward` and `WholeUnlessOverlapped` say what is left).
* `Kernel/IDT.c:113`: a key pressed before the controllers are initialised leaves its
  byte in the 8042 unread, and no further edge comes (`EveryKeyRead` starts later).
* `Kernel/Memory.c:136` "Check if we end up in the unsafe region": only the position and
  the position plus the size are tested. A block spans a region shorter than itself; up to
  `HeaderSize - 1` bytes, 16, at its end may lie inside a long one, for the header is left
  out of the sum; and growth in place is not tested at all. `OnlyTailInLongRegion` is what
  is left.
* `Kernel/Keyboard.c:163-164`: what the handler stores between the copy of a byte and its
  clearing is cleared unread. An event stored between the two for `State` is left with
  `State` zero, and its press is never acted on (`PendingServed` names this case).
* `Kernel/Keyboard.c:38`: the byte behind 0xE0 is read before the keyboard has
  delivered it, so that an extended key may come out as the plain key of the same
  scancode, against `Keyboard.c:29-34`; and if its interrupt is still to come the byte is
  read twice, and one movement is stored, and acted on, as two events.
* `Kernel/Keyboard.c:54-57`, `90-93`: the two control keys, and the two alt keys, have one
  bit between them, because the switch does not look at `Extended`. With both held, the
  release of one clears it. A shift that the keyboard fakes around an extended key sets
  or clears `LeftShift` (59-62). `HoldKeysTracked` says what the bits mean then.
* `Kernel/Keyboard.c:14`, `16`: `UpdateLEDS` reads and drops what is in the controller while
  it waits. A modifier key released then stays set until the code is sent again.
* `Kernel/TextMode.c:33` "Ensure we stick within our bounds": a backspace in the top
  left corner takes the unsigned position below zero and stores outside the
  screen (`Lost` in `Terminal`).
* `Old/Source/BootloaderStage2/Video.c:21` "Ensure we stick within our bounds": when the
  interrupt handler prints between the test and the stores, the main program stores up
  to two bytes behind the screen (`NearScreen`).
* `Kernel/IDTA.asm:43` says that the system call's entry "does exactly the same as
  the above"; it pushes its ID as a word, and the registers its handler is passed
  are two bytes off (`StubFindsArguments` leaves them out), and the last half of
  `Registers32` is where EIP lies: a stub that wrote there would have the system call
  return elsewhere (`Transparent`).
* `Kernel/Floppy.c:85-86` "we don't get stuck waiting for an interrupt that has
  already happened": with two commands in flight the decrement may overwrite an
  increment, and the second wait does not end (`SoloNotStuck` is the rest).
* `BootloaderStage2/Stage2A.asm:103` has a count of cylinders, "1 based - MAXIMUM 4". The
  loop loads tracks where a cylinder has two, for a count of two as many as for a count of
  one, and later one less than the count says; the second of them comes from cylinder 0,
  head 0, sector 2, which is stage 2 again; and `Stage2A.asm:97` offers memory up to
  0x10000, through the memory map at 0x8000 that the third track, with a count of four,
  goes over. The shipped count is one, and what is said of the kernel is said of it.
* `Stage2A.asm:166-172` does not look at the count of sectors in `al`: a read without
  carry that came back short leaves the rest of the kernel's memory as it was, and the
  kernel is called all the same (`KernelWhole` is about what was transferred).
* `Stage2A.asm:302`, `320-324`: with a byte in its output buffer that nobody reads, the 8042
  may take nothing more, and `a20wait` waits for it (`BootEnds` names this wait).
* `Old/Source/BootloaderStage2/FDC.c:57` has SENSE_INTERRUPT acknowledge an
  interrupt; after a transfer, whose result has been read, there is none
  (`FDC.c:265-270`).
* `FDC.c:127`, `FDC.c:130` "ResetController FlipFlop" write port 0xD8, the second DMA
  controller's, and `FDC.c:133` "Page register 0" port 0x80, which is no channel's page;
  the transfer works because the BIOS leaves flip-flop and page at zero. "(1K) 2
  sectors" (`FDC.c:132`) is a count of 512 bytes, one sector. `Kernel/Floppy.c` has the
  same writes.
* `FDC.c:126-134` sets the address once; after a transfer that stopped halfway the next
  sector goes to the wrong place (`Misplaces` in `BlockDevice`).
* `Old/Source/Kernel/Kernel.c:11` "Regs32.EAX = Interrupt": EAX is the number of the system
  call, 3, when `SYS_int32` is called, so the BIOS gets interrupt 3 whatever the driver
  asks for.
* `Old/Source/BootloaderStage2/Syscall.c:5` has 0x256 entries, of which line 38 clears up
  to 0xFE only (calls in the model are below 0xFF).
* `FileSystem.c:167` writes into the caller's path: a path passed a second time finds
  nothing. Three loops do not end: a directory that is found is never left
  (`FileSystem.c:122`); a chain of descriptors that goes round in a circle, or leaves the
  disk, is followed for ever, each descriptor a call deeper (`:130-138`), which in the
  build eats up the stack; a file whose end does not fit in 16 bits is read for ever
  (`:187`). Every sector of a longer file goes to the
  first 512 bytes (`:191-195`); behind a chain of descriptors only the last one is
  searched for files. `ReadsTheFile` and `Returns` are stated around these.
* `Old/Source/Filesystem/FSRoot.asm:9` "51 10 byte entries" are 52 with the first, so that
  the word for the next table lies behind the sector; it happens to be zero.

Deadlock is checked everywhere except in `Keyboard` (`Shutdown` and `Reboot`
stop the machine, and the key movements are bounded), in `FloppyIRQ` (the commands
are bounded), in `FileSystem` (the machine may be stuck in the directory loop) and in
`OldKernel` (the loader ends in `cli`, `hlt`).

## 4. Fairness

* *Processor.* Weak fairness of the steps of the thread (`Main`, `Getch`, `Serve`,
  `SetupStep`, `WaitIRQ`, `Driver`, `Stage2`, `Step`, `ServeInterrupt`; in `FileSystem`
  the steps of a call, without assuming a failure): the processor
  executes its next instruction; a `hlt` is a state in which no such step is
  enabled.
* *Timer.* Weak fairness of `Tick`: IRQ 0 is unmasked and the timer runs from
  power-on at 18.2 Hz. The liveness of every wait depends on it, because each
  tests and then halts with interrupts on.
* *Interrupts.* Strong fairness of `EnterHardware` in `InterruptEntry`: a latched line
  is taken, though interrupts are off now and then. One tick in each busy period
  is a stated bound, for the handlers take far less than 55 ms.
* *Nesting.* In `OldKernel` interrupts may come inside a system call, so strong fairness
  of the main program, of a system call and of taking an interrupt: each gets a turn
  between two ticks, for the same reason.
* *Devices.* Weak fairness of the 8042 taking what it is sent while its output buffer is
  empty (with a byte in it the firmware may wait for somebody to read it), and of the floppy
  controller ending what it was told to do. Strong fairness, in stage 1 only, of
  a disk reset that succeeds and of a full read: stage 1 retries without end, so
  without it there is nothing to wait for. Nothing is assumed of the keyboard,
  of how often a seek misses, or of reads by stage 2.

## 5. Proofs

Each module of proofs shows an invariant of the specification to be inductive and
takes its theorems from it, for every value of the constants that satisfies the
`ASSUME`s of the module. Only safety is proved, from `Init` and `[][Next]_vars`; no proof
uses fairness. TLC has checked every invariant on the instance of the run, except
`ShowsATerminal` of the console, which quantifies over all memories; there TLC has the
refinement itself.

| Module | Theorem | States |
|---|---|---|
| `MemoryProofs` | `TypeCorrect` | `[]TypeOK` |
| | `SharedOnlyByGrowth` | `[]NoOverlap` |
| | `ListCorrect` | `[]ListWellFormed` |
| | `InPlaceGrowthIsLast` | `GrowsOnlyLast` |
| | `OnlyTailsInLongRegions` | `[]OnlyTailInLongRegion` |
| | `NeverRevived` | `FreedForever` |
| | `NeverReturnsFromGap` | `NestedNeverReturns` |
| | `StepsImplementMemory` | `ImplementsMemory` |
| `KeyboardProofs` | `OnceInOrder` | `[]ActedOnceInOrder` |
| | `NeverTornBackward` | `[]TornForward` |
| | `WholeEvents` | `[]WholeUnlessOverlapped` |
| | `ModifiersTracked` | `[]HoldKeysTracked`, under `getch` |
| | `ModifiersTrackedInLoop` | `[]HoldKeysTracked`, under the main loop |
| | `AnswersBehind` | `[]AnswersAnEarlierEvent` |
| `InterruptEntryProofs` | `AlwaysPrepared` | `[]NeverCrashes` |
| | `NothingStaysInService` | `[]NothingLeftInService` |
| | `ProgramUnchanged` | `[]Transparent` |
| | `ArgumentsFound` | `[]StubFindsArguments` |
| `DriverProofs` | `ScreenIsATerminal` | `ImplementsTerminal` |
| | `NoReturnWithoutInterrupt` | `[]OneInterruptEach` |
| `BootProofs` | `Stage2Complete` | `[]Stage2Whole` |
| | `KernelComplete` | `[]KernelWhole`, with the shipped count of one cylinder |
| | `GateOpen` | `[]A20Enabled` |
| | `NoResetWithoutScancode` | `[]ResetOnlyByScancode` |
| | `MapComplete` | `[]TableIsTheMap` |
| `FDCProofs` | `EachWaitItsOwn` | `[]WaitsForItsOwn` |
| | `TransfersPrepared` | `[]ReadyToTransfer` |
| | `DriverIsBlockDevice` | `ImplementsBlockDevice` |
| `FileSystemProofs` | `FilesAreRead` | `[]ReadsTheFile` |
| | `TheMapIsASet` | `[]SectorMapIsASet` |
| `OldKernelProofs` | `NeverGetsLost` | `[]NeverLost` |
| | `ReadsAreComplete` | `[]ReadsComplete` |
| | `ScreenStaysNear` | `[]NearScreen` |

### The heap

No theorem of `MemoryProofs` restricts the sizes callers ask for. `LayoutAssumption` asks
that a header fit between the end of the allocatable range and the wrap, as 17 bytes fit
above 0xFFFF0000.

`NoOverlap` is not inductive: it says next to nothing of a block that has grown, which
could then be taken to reach over the next place. `IInv` adds `ReservedDisjoint`: what
malloc carved for each block, header included, ends below the next header and below the
next position, and growth in place leaves that alone. (`reserved` remembers the size a
block was carved with; a block that is not `Grown` is no longer than that, and so
`NoOverlap` follows for the blocks as they are handed out.) Three facts about the next
position are needed besides: it is never below `MemoryStart`, it is `MemoryStart` as long
as there is no block, and there is a block at `MemoryStart` as soon as there is one at
all. The last two are needed because `malloc` recognises the first block by the position
and not by a count: without them a later block could be taken for the first and lose its
`Previous`. All this is claimed while the heap is `Intact`. It stops being so in two ways,
and the invariant keeps the reason of each: a size that wraps (`Wraps`; every other size
moves the position up, `NoWrap`), and a caller that fills a block that has grown
(`FillPreserves`).

`PlaceEffect` and `InPlaceEffect` say what an operation does to each header;
`CarvePreserves`, `InPlacePreserves`, `FailPreserves` and `FillPreserves` are the kinds of
step. The action properties follow from `IInv` in the state before, since
`ListWellFormed` puts every block's `Next` above zero except the last one's. For
`OnlyTailInLongRegion` the inductive form is about what malloc carved less a header, which is
what `CanSafelyAllocate` tests.

In `MemorySteps` that an inner call never returns is not inductive as it stands: a walk
returns when it has passed the last entry. `StepsInv` says that every frame but the
outermost is `Stuck`, an entry its walk has yet to reach is in the way of its size. It is
kept because the size of an inner call is the gap below the region that stopped the outer
one, so the block for the gap reaches that same region (`GapReaches`,
`GapIsInTheWay`). `OuterInv` keeps what the outermost call was for and that its walk has
found nothing in the way so far; with it the return of the outermost call is `Carve` of
`Memory`, running out of memory or of stack is `Fail`, and every other step is none.

### The keyboard

The five fields of an event bear the number of the event they were stored by, and
the proofs look at them by position, as the copy does. `OnceInv`: behind the field that
is being copied, a `State` that is set is of an event newer than the copied one and the
one acted on, except between the copy of the field and its clearing. `ForwardInv` is the
order of stamps along the copy and what is not copied yet, and `WholeInv` says that,
with no event stored during the copy, the front copied is clear and the rest whole.

For the modifiers the right invariant is about codes, not keys, and for each code by
itself: `CodeTracked` says that a code was last sent as a press exactly if the modifiers,
updated by every byte still under way, in the controller's buffer or the keyboard's queue,
have its bit, and that the byte the port repeats has been applied already unless a later
one of its code is under way. An update by a byte applied twice is the same, which is why
reading the byte behind 0xE0 too early does no harm to the modifiers, although it makes
two events. A byte that `UpdateLEDS` drops spoils its own code and no other
(`Cut`), until the keyboard sends that code again. `KeysInv` leads from codes to keys: a bit
that was last sent as a press has a key that is held, and of a code one key alone sends it
is that key's; the codes of faked shifts are left out of it. `StrokeBytes` is what one
movement sends, fakes included. `AnswerInv` keeps that `Ready` is of the last event or
cleared, and, while `getch` tests, only of an event that came after the one in `c`.
`TrackInv` is about the handler and not its reader, so both theorems about the modifiers
have it.

### The console

A terminal has cells in lines and columns, the driver bytes and an unsigned position.
`ShowsATerminal` says that until something is stored outside the screen the position is
that of a cell, or the one behind the last, and the terminal's screen is what these bytes
show (`Agree`). The proof is arithmetic on places first: lines do not overlap, two bytes
belong to one cell and none is shared (`LinesApart`, `CellsApart`), nothing wraps
(`InWord`, from `ScreenAssumption`: two lines more than the screen fit in a word). On it
rest one lemma for each part of `putch`: a scroll of bytes is a scroll of lines
(`StickScrolls`), two stores put one character into one cell (`CellPut`, `Puts`), a newline
goes to the start of the next line (`NewLines`), a tab is four blanks and may wrap over
lines (`Tabs`). A backspace goes back one cell, or in the top left corner stores
outside (`Backspaces`, `BackspaceLoses`); this is the step with which the terminal is lost.
The theorem has no bound on the size of the screen or the number of characters.

### Interrupts

`SetupInv` ties the step of the set-up to what is initialised, loaded and registered,
`ServingInv` to what is in service: nothing before the end of the set-up, and later
exactly the lines of the ID being served, which `EoiUndoes` shows the stub's commands to
take back, spurious and software interrupts included. That a gate leads to its stub
needs `StubAssumption` (`GateOfStub`). `FrameInv` gives for each instruction of the entry
code what lies on the stack: the words pushed, and from the stub on those words with
`handler` in the halves the C code has written to (`Over`). What is popped is then the
interrupted program's but for these halves (`OverBelow`, `Kept`), and the `iretd` finds its
three words untouched unless the last half the stub owns, in a system call, is the low
half of EIP. The rest is a calculus of words of two halves on a sequence (`WordsBelow`,
`WordsAbove`, `WordsOnWords`), because the system call pushes one half.

### The floppy wait

That the counter is at most the number of interrupts unmet is not inductive: between
the test and the decrement the handler may take it from its highest value to its
lowest, which counts down to the highest again. `IRQInv` adds that the
number of interrupts unmet is then a whole width ahead of the counter.

### Boot

`DiskInv` says where the reads of stage 2 may still land: above stage 2, and above the
kernel's first track once that is in memory. `KernelComplete` has the hypothesis
`KERNEL_CYLINDER_COUNT = 1`, the shipped count: with two and three the loop loads a
track too few, and the second from the wrong place, and with four the third track goes
over the memory map, so that for the
other counts `CylinderAssumption` and the comment at the constant allow the statement is
false. `GateInv` says, for each step of `EnableA20`, what the 8042 may still have to take and
whether the keyboard is enabled; `GateClean` that without an unread byte the value read is
the output port's own. `StackInv` has what A20 was when each word on the stack was pushed:
what it was at the call of `EnableA20`, until the 8042 takes the new value, and on from
then. A `ret` finds its word only if that is what A20 is now (`ReturnPreserves`), so that
`EnableA20` gets to its end only if A20 was on at the call, and goes astray only if it was
off: `GateOpen`. `MapInv` keeps the table as the sequence of the regions answered so far, with one
answer not counted yet in the slot behind them, and covers every list of
answers a BIOS may give.

### The floppy driver of the previous tree

`WaitInv` is the reason the flag is enough: a command is given only right before its wait,
and during the wait either the command runs and neither line nor flag is up, or it is
answered and exactly one of them is. `AnswerInv` adds the bytes that can be read, `HeadsInv`
that a driver that has not panicked knows the cylinder it is on (and therefore is
not in the reset's wait), `ChannelInv` that the channel is `BiosChannel` before `FDC_Init` and
afterwards differs from what `DMAInit` leaves (`SetUp`) only in mode and place.
`DriverIsBlockDevice` is by refinement: `Call` is `Begin`, `TransferEnds` is `Transfer`,
`MotorOff` is `Return`, and `Unseen` says that the others change nothing a block
device has. `CallInv` shows that a call makes one transfer only; `SectorAsked` that the three
bytes of a command name the sector asked for. No assumption is made on
how often a seek misses or a transfer fails.

### The previous file system

`MapInv` has the bits of the map on the disk as the set `saved`, and those in memory as
`used` once they are loaded and until a read or write fails. It is inductive because a
toggled bit that differs is an addition of its power of two if it was clear, a subtraction
if it was set, and leaves the other seven as they were (`AddBit`, `TakeBit`, for every byte),
so that `SetSectorStatus` changes one sector's status in the whole map
(`SetsTheBit`, `MarksTheSet`). The induction starts from the set the disk's map has at first,
whatever that is, since the bits of every map are a set (`EveryMapIsASet`).

`ReadInv` follows a call that the property is about from its start to its answer: while it
scans, the path is NULs up to where it has been cut and as it was passed behind
(`CutTo`), and the name it will look for is the last one; in the directory and in the
search `Dir` is still the root directory; while it copies, the descriptor is that of the
first entry of the name (`NamedEntry`) and the sector either still to be read or read.
That needs the path to be whole at the start of the call, and `InDir` may
be anything: either way the same name is looked for. `StaysAnswered` is why an answer is not
spoilt by marking sectors and by writing the map. The first entry of a name is the least
index of a set of indices, by well-founded induction (`MinOf`), so that the search needs no
induction over the directory.

### The previous loader and kernel

The invariant ties the machine to the place in the program. `ProgramIs` and
`ProgramFits` say what stands at each place, for every number of sectors; the parts
of `KernelInv` say what must be there by then.
`StackInv`: at most a system call and one interrupt in it are being served, and the
system call that is interrupted is over, because the only ways to turn interrupts on
inside one are the `sti` before its `iretd` and `int32`, which has the BIOS's vectors
while it does. `CpuInv` gives mode, table and vectors for each of the twelve steps of
`int32`, and that interrupts are on in two of them only; `TablesInv` what the loader
has filled in; `CallInv` what a system call has been asked for while it is served;
`EffectsInv` what the program has got from those that have returned. `CallInv` is
needed because a registration is asked for in one step and stored in another, and
`EffectsInv` excepts the command whose call is not over.

`ReadInv` is a chain of custody: the interrupt of a read is with the controller,
latched, due or received, one of them at a time and only while the read waits, so that
no flag is left over for the next one. It needs `KernelInv`: only an interrupt of line 6
gets to the handler that raises the flag.

`VideoInv` says for each step of `putch` how far behind the screen the position, and what
the main program has loaded of it, may be: never more than a row. The handler may print
between any two steps, but it tests before it stores and ends its message with a new
row, so that it leaves the position below the first row and not behind the screen.

### Only model-checked

* Liveness and `ENABLED` are out of the prover's reach: `PendingServed`, `SoloNotStuck`,
  `BootEnds`, `EveryKeyRead`, `ClearCallReturns`, `ReturnsOrPanics`, `Returns` and
  `MainGoesOn`.
* What a recursive definition computes for every input, for induction theorems take
  an operator. No module declares a `RECURSIVE` operator.

## 6. Not modelled

Port access (`IO.c`, single instructions), the mode switch and GDT (straight-line
register set-up), the colour and hexadecimal formatting of the console, the text of
the layout tables, build scripts. Of the previous tree: `VGA.c` of its kernel
(`Video.c` again, with a position no handler shares), the VESA and VGA drivers
(written against headers that are not there, drawing only), the disk reads and the
mode switch of its loader's assembly (earlier forms of what `DiskBoot` and `A20`
model), its keyboard layouts, which no driver uses; and in `FDC.c` the function
`Calibrate`, which nothing calls, and the rates of `Specify`.

What a BIOS does inside an interrupt, and what is on the screen of the previous
loader, are outside the models.

## 7. Plan

Done, in this order: heap and its proofs; keyboard; console; interrupts; floppy
waits; boot; the earlier floppy driver and the block device it implements; gate
descriptors; the earlier file system; the earlier interrupts, system calls and main
program.

The proofs: the heap, whole calls and step by step; the floppy wait; boot; the keyboard
under both readers; interrupts from the set-up to the `iretd`; the earlier floppy driver
as a block device; the earlier loader and kernel as one program.

Then the console as a terminal on any screen, and the earlier file system's map and
reads; and last, blocks as callers fill them, keys that share codes, argument slots the C
code writes to, a stack that A20 moves, and chains of descriptors without an end. Every safety property and every refinement a passing run checks has a theorem.
