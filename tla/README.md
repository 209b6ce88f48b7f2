# cool-os: a TLA+ verification project

cool-os is a small x86-64 kernel: a boot path, a frame allocator and a heap,
preemptive tasks with per-process page tables, an ELF loader, an ATA and FAT32
driver under a small VFS, a keyboard, a text console and a shell that runs user
programs. This directory models that code in TLA+, checks it with TLC on small
instances, and proves what matters most for every instance with TLAPS. `src/`
below is the repository.

## The system

| Component | State it keeps | Operations | Talks to |
|---|---|---|---|
| process lifecycle (`task.c`) | `task_t` records: state, parent, list of children, exit code, frames | create, set_parent, wait, reap, exit, and two deaths that bypass exit (a fault, the return of a kernel task) | run queue, heap, frames, page tables |
| scheduler (`scheduler.c`, `context_switch.S`) | the ring of tasks, `current_task`, the slice | add, yield, preempt | page tables, `tss.rsp0` |
| kernel entry (`syscall_entry.S`, `isr_stubs.S`, `isr.c`, `timer.c`, `gdt.c`) | kernel stacks, `user_rsp_scratch`, `tss.rsp0`, cr3 | system call, interrupt, fault, tick, first entry of a task | scheduler |
| physical memory (`pmm.c`) | bitmap, free count | boot from the memory map, single and contiguous grants, free | everything |
| heap (`heap.c`) | arenas, block lists | kmalloc, kfree, growth | physical memory |
| paging (`paging.c`) | page tables | map a page, clone the kernel half, free the user half | physical memory |
| ELF loader (`elf.c`) | the pages of an image | load, load_at, load_into | paging, files |
| block device (`block.c`) | ports of the drive | identify, read sectors | the drive |
| FAT32, VFS (`fat32.c`, `vfs.c`) | the mounted volume, two descriptor tables | mount, open, read, seek, close, list | block device |
| keyboard (`kbd.c`) | decoder, ring, line | the interrupt, getc, readline | shell, timer |
| console, framebuffer (`console.c`, `framebuffer.c`) | cursor, two pixel buffers | putc, erase, clear, scroll, present | shell |
| shell (`shell.c`) | line, argv | prompt, parse, dispatch, the commands | all of the above |
| USB (`xhci.c`, `pci.c`) | rings of the controller | commands, interrupt, key reports | keyboard; disabled in `kernel.c:335` |
| user libc (`user/libc`) | heap array, print buffer | malloc, printf | system calls |

What is hard in it: kernel code runs with interrupts on unless it turns them
off, so a tick may preempt a task between any two steps of `task_wait`,
`task_exit` or `task_reap`; system calls of several tasks overlap on one scratch
cell and one TSS; tasks die in three ways; the frame allocator is shared by
everything; a sector read may fail in the middle of any file operation; the
reader of the keyboard halts the processor between `sti` and `hlt`.

## Modules

| Module | What it models | Notes |
|---|---|---|
| `RunQueue` | the ring of tasks: insertion, the search and the store of `remove_from_scheduler`, the pick of `scheduler_yield` | pure operators |
| `Process` | the lifecycle: one action per stretch of code that no tick matters within; `pc[t]` is where task t is in `task_wait`, `task_reap`, `task_exit`, `work[t]` its local pointer; `build` is the client | EXTENDS `RunQueue` |
| `ProcessProperties` | the properties, and the inductive invariant behind the proofs | |
| `TaskStates` | abstract: the states of tasks and the CPU | implemented by `Process` |
| `Spawn`, `PageTables` | the frames behind a task: creation page by page, the refused image, death, reaping; tables as trees | |
| `FrameMap`, `Frames`, `FrameOwners` | `pmm_init`'s arithmetic, the allocator, and the abstract table of owners it implements | |
| `Heap`, `HeapOwners` | the heap on `Frames`, and the abstract table of ranges it implements | |
| `Elf`, `ElfLoad` | validation and both passes of the loader on one address space, byte by byte | |
| `Disk`, `Fat32`, `Vfs`, `Files` | disks as clusters and slots, the driver one sector at a time, the descriptor table, and the abstract files both implement | |
| `FileCommands` | `cat`, the loading of a program, `ls`, and free calls of the tests, over `Vfs` | |
| `Block` | the ATA driver against a drive | the drive is external |
| `Keyboard`, `KeyQueue` | the interrupt, decoder, ring, both getc, the line editor, the test build's injection; and the abstract queue of keys | |
| `Console`, `Framebuffer`, `Page` | drawing, wrapping, scrolling, editing under the shell's prompt and line; and the abstract page | |
| `KernelEntry` | what is saved on each kernel stack, by whom, and who finds it | |
| `CommandLine`, `ShortName` | the shell's parser and dispatch, the 8.3 names | |
| `Printf`, `Malloc` | the user libc's algorithms | |
| `Algorithms` | `CommandLine`, `ElfLoad`, `Printf` and `Malloc`, which share no state, in one specification, a behaviour of which runs one of them | INSTANCEs the four |
| `Xhci` | the USB driver's commands, waits, interrupt handler and key reports | the controller is external |
| `ProcessProofs`, `KernelEntryProofs`, `HeapProofs`, `SpawnProofs`, `KeyboardProofs`, `FileCommandsProofs` | the theorems about the module each is named after, with their inductive invariants; `HeapProofs` begins with the frames below the heap | EXTENDS it |
| `SpawnProofs`, second part | the theorems about `Algorithms` | EXTENDS it |
| `DeviceProofs` | the theorems about `Block`, `Console` and `Xhci`, which do not interact, one after the other | EXTENDS the three |
| `NumberLemmas` | facts about numbers, sets and enumerations that several proofs need | |

`MCProcess`, `MCSpawn`, `MCHeap`, `MCConsole`, `MCFileCommands`, `MCXhci` and
`MCPrograms` give the constants their values; the other runs take them from their
configuration alone.
Operators named `X_Y` next to an operator `X` are slips: what a plausible bug in
that code would do. Each property is known to be violated by one of them.

How the code's atomicity is chosen: code between `cli` and `sti`, in an
interrupt handler or on one processor without a shared variable in between is
one action; where a tick may come and matter, there is an action boundary. A
tick is an action of its own (`Tick`), enabled between any two actions of a task
that is RUNNING, as `irq_handler` tests.

## Runs

| Run | What it checks | Bounds, and why they are enough |
|---|---|---|
| `process` | the run queue stays one ring and its two-step edits never overlap (`OrderlyQueue`), lists of children and parents agree, statuses arrive, no dead task runs; the inductive invariant of the proofs (`OrderlyInv`); `Process` implements `TaskStates` | five `task_t` blocks, three of them for the tasks of each client, four tasks ever created: a parent with two children, one reaped in the middle of the list, a block reused. A slice of one tick makes every tick preempt |
| `process_live` | runnable tasks run again and again; a sleeper is served | four blocks, slice of two, one exit code |
| `lost_wakeup` | expected violation, see below | |
| `spawn` | frames of tasks: none lost, shared or freed twice (`OneOwner`); every page of a running task mapped to what was put there; kernel half kept | three tasks, sixteen frames, tables of two entries and four levels; images of one and two pages, so that tables are shared between pages and memory runs out |
| `memory` | bitmap, count and owners agree (`FramesAccounted`); arenas tiled, merged, accounted for (`HeapIntact`); both implement their abstract tables of owners | three memory maps that put the bitmap and the kernel in different places, pages of six units; requests of none, one, a few units and more than a page |
| `keyboard` | modifiers follow the keys; ring and reader implement a queue of keys; no reader sleeps with a key in the ring | three keys, a ring of three (two usable), a line of four, all modifiers |
| `console` | no store leaves the buffers; what is shown is what was written, echo included, whenever the shell waits; the screen implements the page | two rows of five cells with odd pixels and padding, with and without back buffer, four rows written, lines that reach the end of a row: each wrap, tab and scroll happens, and a backspace right after a wrap |
| `files` | no descriptor or buffer outlives a command (`NothingLeaked`); files are shown, loaded and listed whole or refused (`ToldTheTruth`); driver and descriptors implement the abstract files; every command ends | clusters of two sectors, chains in any order, chains shorter than the size, one failing read anywhere, two descriptors |
| `block` | a call that succeeds delivers the sectors asked for, whole and in order (`Faithful`); it leaves nothing at the drive's port | sixteen sectors, four kinds of drive, two faults |
| `kernel_entry` | every frame on a kernel stack is found again, whoever ran between | two user tasks, `idle_task` and kmain; slice of two |
| `xhci` | driver and controller agree on every ring (`Followed`), a command gets its own answer, the start-up ends and every report is heard | a ring of four entries, so that every ring goes round; three ports, two faults, five reports |
| `programs` | parser, names, loader, printf, malloc | four algorithms that share no state, one per behaviour: all lines of six characters, images of two segments over eight pages, formats of four characters, calls in every order; `ImageFaithful`'s images end at, before and behind the last user address |

A property that names several parts (`OrderlyQueue`, `OneOwner`,
`FramesAccounted`, `HeapIntact`, `ToldTheTruth`, `Faithful`, `Followed`) is the
conjunction of the definitions just before it in its module, each with a comment
of its own.

`CHECK_DEADLOCK FALSE` stands where the system stops for good within the bounds:
a bound is used up, or the machine has halted in a panic.

### Fairness

- `Process!FairSpec`: the timer keeps ticking (`WF(Tick)`), and kernel code that
  is begun goes on while its task is given the CPU again and again
  (`SF(InKernel(t))`: a task is preempted, so weak fairness is not enough, but a
  slice is many instructions). What a program does of its own accord carries no
  fairness.
- `Keyboard!FairSpec`: the reader's code goes on, the timer and the keyboard
  interrupt come when they are raised and unmasked. Keys are up to the user.
- `FileCommands!CmdSpec`: a command that is begun goes on.
- `Xhci!FairUsbSpec`: driver and controller go on; the reset of a port ends.

### Assumptions with a name

- `Process!BuildAssumption`: kmain and `idle_task` are made by nobody. `Orderly`
  says which clients the repository has: the production kernel with one shell,
  and the test build where only kmain makes and reaps. Properties of the run
  queue hold under it; `task.c:549` edits the queue with interrupts on, so that
  two tasks that reap at once would lose an edit.
- `KernelEntry!ShortWindow`: no second interrupt of the timer before the first
  one's handler has switched tasks.
- `Spawn!ProgramAssumption`: no two segments of an image share a page, and pages
  lie in the user's half (`elf.c:89` to `103` refuse others). The loader does not
  refuse shared pages: `paging_map_user_page_in` (`elf.c:373`) puts the second frame
  in the place of the first, which from then on belongs to nobody, is not found by
  `paging_free_user_pages` and stays allocated. `OneOwner` would not hold of such an
  image. The programs of the repository have none: `user.ld` aligns nothing to
  pages, and GNU ld then puts all that would share a page in one segment.
- `Spawn!MachineAssumption`: the kernel's tables lie in its own half and hold
  frames of the machine.
- `Frames!MapAssumption`: the boot loader's regions are whole pages, do not
  overlap and do not hold address 0, and one has room for the bitmap.
- `Heap!HeapAssumption`: the header and a page are multiples of `HEAP_ALIGN`.
- `Heap!HeapIsClient`: what the heap asks of the frame allocator is among the
  requests of the allocator's clients.
- `Keyboard!KeyAssumption`: the names of the keys differ, the user's and the
  tests' keys are keys, the ring has a slot.
- `Fat32!DisksAssumption`: the disks are `Disk!Formatted`, as mkfs.fat and mcopy
  write them (`Makefile`): the sizes fit, chains share no cluster and lie in the
  table, the root directory has room for its entries, names differ, and a file
  with bytes has a cluster. A chain may be shorter than its file's size says.
- `Disk!EntryAssumption`, `Fat32!FilesAssumption`, `Vfs!DescriptorsAssumption`,
  `Vfs!TablesAssumption`, `FileCommands!CapAssumption`: the types of the
  constants, and that the driver's table is not the smaller one (both have 16
  entries, `vfs.h` and `fat32.h`).
- `Vfs!CallsAssumption`: what the clients ask for fits in a `uint32_t` beyond the
  largest file. `fat32.c:250` adds position and count in 32 bits, and a count
  near 2^32 would wrap; no caller in the repository has one.
- `Block!BlockAssumption`: the types of the constants. `Late` says whether a drive
  may answer after the driver's wait gave up (`block.c:154`); the run and the
  theorems take a drive that does not.
- Every file is read by one task at a time, as in the repository.
- `Framebuffer!ModesAssumption`: a mode shows some pixels, and its rows are at
  least as long as what they show. `Console!ConsoleAssumption`: the font's
  pictures differ and lie in their cell, the space's is empty, no printable
  character is a control character; cells have an even width (`fb_clear` and
  `fb_present` go by pairs of pixels); a screen has room for a cell; and the
  rectangles that are filled are those of the tests (`kernel_tests.c:177`),
  whose sides do not wrap at 2^32.
- `Xhci!RingAssumption`, `Xhci!KeysAssumption`: the types of the constants, rings
  of two entries or more, key codes above zero for modifiers. `OneDevice`, "we
  assume Slot 1 for now" (`xhci.c:408`), is stated by the theorems that need it:
  with two devices the second is addressed and configured as the first was.
- The USB controller answers a command within the driver's wait or never: what
  `OwnAnswer` says of a wait that gave up is said of a command without an answer.
  A late answer would be taken for the next command's (`xhci.c:442`).
- `Algorithms!ShellAssumption`: a NUL is not typed; the names of commands differ;
  names on the disk are those of 8.3, two parts padded behind with spaces, without a
  dot, and no letter is the upper case of another.
- `Algorithms!LoaderAssumption`: an image's numbers do not wrap when they are added
  (`elf.c:97` refuses one that does, `elf.c:148` and `elf.c:487` do not look; nothing
  in the repository calls `elf_load` or `elf_load_at` but their declarations), and
  the user range is whole pages: 0x10000 is the first byte of one, 0x7fffffffffff
  the last. `ImageFaithful` speaks of images whose segments share no page.
  `elf_load_into`, which the kernel does call, has the same two passes; what it puts
  where is checked by its frames alone (`Spawn!ImageKept`), not byte by byte.
- `Algorithms!PrintfAssumption`: a format takes no more arguments than are passed.
  `Algorithms!ArenaAssumption`: the array is aligned, and no request wraps when it
  is rounded up and added to the array's end (`malloc.c:25`, `malloc.c:27`).

## What the code does and its documents do not say

`lost_wakeup` is a run that TLC must find violated: `task_wait` scans its
children and stores `PROC_BLOCKED` (`task.c:636`) with interrupts on; a child
that exits in between finds its parent READY, wakes nobody, and the parent
sleeps for ever beside the zombie. The liveness property of `process_live`
therefore starts from a parent that already sleeps.

Others were met while modelling and have no run of their own; most are kept out
of the checked instances by the assumptions above:

- `isr.c:117`: a task that faults wakes no parent and orphans no child.
- `task.c:549`: two tasks that reap at once would edit the ring together.
- `elf.c:217`: a segment that shares a page with an earlier one replaces its
  frame, and the bytes of the first are lost; `elf.c:373`: in `elf_load_into` the
  frame is lost with them (see `Spawn!ProgramAssumption`); `elf.c:170`: the entry
  point is checked against the range from the lowest to the highest segment, gaps
  included.
- `pmm.c:147`: `pmm_alloc_frame` panics instead of returning 0, so that the
  out-of-memory paths of its callers (`task.c:336`) are dead code.
- `kbd.c:237`: a line that fills the buffer returns without its Enter;
  `kbd.c:154`: the test build's injection edits the ring with interrupts on.
- `console.c:667`: erasing stops at the start of a row, so that after a backspace
  there a line that had wrapped shows a character it no longer has, where
  `DONE/prototype12.md:143` says it is erased. What does hold is that the row of
  the cursor ends in the line as edited (`Presented`).
- `framebuffer.c:176`: x + w may wrap at 2^32 and is then not clipped.
- `fat32.c:51`: a failed read of the table counts as the end of the file;
  `fat32.c:251`: position + count may wrap.
- `block.c:149`: a count of 0 is refused though the drive takes it for 256;
  `block.c:154`: a drive that answers after the wait gave up is in the middle of
  a command at the next call.
- `xhci.c:442`: an event's type alone decides whether it is the answer;
  `xhci.c:242`: `ep_ctx[1]` is context 2, not 1; `xhci.c:401`: the transfer ring
  has no link at its end, so that it is used up after 256 reports; `xhci.c:95`:
  both Ctrl keys are sent as one code, so that releasing either releases it.
- `malloc.c:25`: a size near the largest one wraps when aligned.

## Proofs

What is proved holds for every number of tasks, pids and codes, every slice, and
(`Builds`) every set of clients that `BuildAssumption` allows; for every memory
map, request, program and page size that the assumptions above allow. What
depends on the client says so with `Orderly`, what depends on the drive with
`~Late`.

- `ProcessProofs` begins with rings, whatever their size. Insertion and removal
  keep a ring (`RingInsert`, `RingRemove`), the search of
  `remove_from_scheduler` stops at the predecessor (`StopsAtPredecessor`),
  `scheduler_yield` picks a runnable task or `idle_task` (`PicksRunnable`). A
  loop is the smallest set closed under its step (`Walk`), so that no recursion
  is needed. Then type correctness (`TypeCorrect`, without `Orderly`); that
  `IInv` is inductive while `Orderly` holds (`OrderlyInvariant`), and from it
  the run queue (`QueueStaysWhole`), the CPU's owner (`OneRuns`), the dead
  (`NoDeadRuns`), the exit status (`StatusIsTold`), the refinement of
  `TaskStates` (`StatesFollowed`), and the families: the list of a task's
  children holds those that name it (`ListsAreWhole`), and no task that lives
  names one that was freed (`NothingDangles`).
- `KernelEntryProofs`: what is on each kernel stack (`EntryAlways`), that
  `tss.rsp0` is the running task's (`OwnStackAlways`), and that a task is given
  back the registers it left with (`RegistersRestored`), for any nesting of
  system calls, interrupts and switches.
- `HeapProofs`: the accounts of the frame allocator (`EveryFrameAccounted`),
  `pmm_init` included, and the refinement of the table of owners
  (`FramesHaveOwners`); then the heap's lists (`HeapStaysIntact`), the frames
  below it (`HeapKeepsFrames`), the refinement of the table of ranges
  (`HeapHasOwners`), and that the two layers together still refine the table of
  owners (`HeapFramesHaveOwners`).
- `SpawnProofs`: the frames behind the tasks (`EveryFrameOneOwner`), the images
  (`EveryImageKept`) and the kernel's half (`KernelStaysMapped`).
- The rest of `SpawnProofs`, about `Algorithms`: the blocks of malloc
  (`BlocksStayDisjoint`), the shell's parser, dispatch and file names
  (`LinesAreUnderstood`), the loader on one address space (`ImagesAreFaithful`), and
  printf (`TextsArePrinted`), for every line, directory, image, format and array that
  the assumptions allow.
- `DeviceProofs`: what a read delivers (`ReadsAreFaithful`) and what a call leaves
  (`NothingLeftBehind`), with `~Late`; that no drawing leaves its buffer
  (`DrawingsStayInside`), that the user sees what was written and the end of the
  line (`UserSeesTheLine`), and the refinement of the page (`PixelsShowThePage`),
  for every screen, font, prompt and text; that the USB keyboard is followed
  (`KeyboardIsFollowed`) and a command gets its own answer (`AnswersAreOwn`), with
  `OneDevice`.
- `KeyboardProofs`: the modifiers (`ModifiersAreFollowed`), and the refinement of
  the queue of keys (`KeysAreDelivered`), for any number of keys held, bytes on
  their way and slots of the ring.
- `FileCommandsProofs`: what a command took it gives back (`CommandsGiveBack`),
  any number of descriptors in either table, and a device that may fail at any
  read; that driver and descriptors together implement `Files` (`FilesAreRead`);
  and that what a command tells is true (`CommandsTellTruth`), for every disk
  mkfs.fat can write.

Why `IInv` has the parts it has: that the run queue is a ring is not inductive,
since a removal finds its predecessor in one step and stores through it in a
later one. `ReapInv` therefore says that the predecessor that was found is still
one; this needs `QueueEditsExclusive`, which follows from who may reap and who
may add (`KindInv`, with `Orderly`: one shell, or kmain alone). That the task
that is removed is on the ring and dead comes from the list of children
(`ListInv`), whose links are described by the parent each child names, so that a
step of one task is seen to leave the lists of the others alone (`OthersKept`).
That a task that is added is not on the ring yet is `MakingInv`; that a task
that lives is on the ring, unless it is being made or freed, is `QueueInv`.
`StateInv` ties a task's state to where it is and to the CPU. `StatusInv` adds
that pids of live tasks differ and that a task's exit code is the one recorded
for its pid. TLC checks the whole of `IInv` in the run `process`.

`FamilyInv` says whose lists may have a member: with the clients there are no
task with children dies (the parents are kmain and the shell, and neither ever
exits), so that only `task_set_parent` and `task_reap` change a list and the
loop of `task_exit` over the orphans has none to visit. The run has a client
whose tasks do die before their children, by `task_exit`, which orphans them,
or by returning, which does not; it is not `Orderly`, and the theorems do not
cover it. Nobody reaps such a task there, as nobody in the repository does: its
children would keep a parent that is freed.

`EntryInv` is inductive by itself: it says which frames are on each kernel stack
for each place a task can be, and that `tss.rsp0` is the running task's.
`RegsInv` adds what they hold: from every place in the kernel the code back to
user mode puts `left` together from the registers it still has and the frames
below (`Suits`), and every frame holds what the code that pops it needs
(`Holds`). A switch in the middle changes neither, since a task's stack is its
own (`OwnStack`).

`HeapProofs!IInv` adds to the accounts that only frames `pmm_init` cleared are
held: without it a free of a reserved frame would be possible and the count
wrong. The work is in `pmm_init`: the counter it computes region by region is
the number of clear bits (`InitiallyFree`), which needs that regions are
disjoint and that the kernel's and the bitmap's frames are subtracted only where
they were counted.

`HeapInv` is `HeapIntact` said locally, so that a split or a merge disturbs one
place: every block ends where its successor begins or where its arena ends, and
no two overlap (`Linked`, `Inside`); arenas are whole frames the heap holds, and
apart (`Founded`); no two free blocks are neighbours (`Separate`). That the list
of an arena reaches all its blocks follows by induction along it
(`ChainIsPlaced`). A merge keeps them apart because `kfree` looks at both
neighbours; a block is found in the first arena
where the search along its `next` pointers (`Walk`) hits one that fits.

`SpawnInv` says for each task that what it owns is exactly its stack and the
frames of its tree of tables, that its first pages are mapped to frames filled for
them and the others are what is still to be mapped (`Whole`), and that one image
is loaded at a time; the owners, the free frames and the kernel's partition the
machine (`Books`). That a new table never takes the place of another needs that
two pages with the same path are the same page (`NumberLemmas!Digit`).

The four algorithms have an invariant each. `ArenaInv`: blocks lie one behind the
other below the pointer, and what was refused was too large for the rest.
`ParserInv`: the buffer is the line as typed but for spaces that became NULs; the
cursor is at the start of a word or on a space, `argv` has exactly the words that
begin before it, each with a NUL where it ends, and what is behind it is untouched.
That a name in any case finds the file `ls` shows rests on the name that `ls` puts
together being taken apart again at its only dot. `LoaderInv` is what the run checks:
a page belongs to the last segment mapped over it, so that images whose segments
share no page are whole, whatever was there; `elf_load_at` maps only segments whose
turn came before the first one outside the user range. `PrintInv`: what is written
and what the rest of the format stands for are together the text (`Beginning`), or
the buffer is full with its beginning; and the arguments are enough for the
specifiers still to come (`Fits`). The text is a recursive function on the positions
of the format, the digits of a number one on the numbers below it: that such
functions exist, and are unique where needed, is proved first (`TextExists`,
`DigitsExist`, `ValueExists`), by induction over numbers.

`DeviceProofs!IInv` ties the place the driver is at to the state of the drive: what
is in `dst` so far and what the drive still has to give are together the sectors
asked for (`Reading`).

The console's proof goes up in four steps. Addresses: a row and a column make one
address and come back from it (`AddressOf`, which divides), and every drawing is a
set of such addresses within the visible part (`Fits`). Characters: what is lit in
a cell is the picture of one character at most, so that a drawn cell shows its
character and the others what they did (`DrawnGrid`); a scroll moves the rows up
(`ScrolledGrid`), because it copies whole rows of the pitch it draws with; and
`fb_present` shows the same grid at the hardware's pitch (`ShownAre`). The page: the
rows that are gone and those of the grid down to the cursor (`PageNow`); that an
advance in the last row appends to it rests on the rows below the cursor being
empty (`BelowInv`), which the tests' drawings would break if `console_clear` did
not come first. Last, `ConsoleInv` adds `EchoMatchesLine`: the cells before the
cursor, as far as its row reaches, are the end of the line. It is inductive because
a wrap leaves nothing before the cursor, and an erased cell takes one character off
both.

`UsbInv` describes the event ring by where its two ends are: the entries between
them, and only those, carry the cycle bit the driver looks for (`RingInv`), even
where the ring goes round between the two. Of these, one at most answers a
command, it answers the last one, and it is there only while that command is
waited for (`AnswerInv`). The transfers put on endpoint 1, on their way and
answered are one together (`XferInv`). `HeldInv` is `Held` and that only codes of
keys are down: a report's key presses and releases come from the difference of two
reports, so that what they leave down is what the new report has (`AfterHas`);
for the two Ctrl keys, which share a code, only that nothing is down that no key
holds.

`KeyInv` relates three things that no single step moves together: the keys the
user holds, the bytes on their way, and the decoder's flags. The bytes lead from
the flags to the keys (`Leads`): there is a row of modes, one after each byte,
that begins with the driver's and ends with the user's. A key appends a byte at
one end, an interrupt takes one at the other. `RingInv` keeps the indices within
the ring, and says that a `kbd_inject_string` preempted between its test and its
store still finds its slot free: the one task that injects is also the one that
reads, and nobody types while the tests run.

`LinkInv` says that the files open in the driver are those of the descriptors in
use, one each, and that the call in progress and the last reply are at the place
where the client's command is: a command that sees a failure therefore holds
exactly the descriptor it then closes.

`DiskInv` adds what is on the disk. The proof first computes what the driver
reads: that `cluster_to_sector` and `fat_get_entry` address the sector that holds
a cluster's data and its entry (`DataRead`, `FatRead`), and that an entry leads
to the next cluster of its own chain, since chains share none (`EntryIs`). Every
open file then is the entry of one slot of the directory, and its position is
where its current cluster and offset say: `k` clusters and some bytes into the
chain (`InCluster`), past its end, or cut off by a failed read (`Stopped`); a
failed `fat_get_entry` looks like the end of the chain, which is why that case
needs the device to have failed. A read in progress has so far the bytes of the
file from where it began (`Got`), a seek in progress is where whole clusters have
taken it (`SeekingOf`), and a walk of the directory has passed a number of
entries of which none has the name it looks for (`Walking`). `JobInv` says what the
command of the shell was answered, in the terms of `Files`, so that `FilesAreRead`
is a step by step simulation.

`TellInv` says that the verdict of the last command is still true, which rests on
the catalogue not changing after the mount and on no command ending before it.
`ListInv` says that the names a listing has given so far are those of the entries
it has passed, each at its place among the listed ones (`Disk!Rank`); a sector
adds to them exactly those that `Listed` has in it (`DirList`). `Rank` counts
because a filter of sequences is recursive, and a listing ends at the first
unused entry, whatever lies behind it.

Inductions over numbers and finite sets are by the least counterexample
(`NumberLemmas!LeastExists`, `SetInduction`).

Without `Orderly` the run queue does break: two tasks that both reap children
may each find a predecessor before either stores (`task.c:549`).

## Only model-checked

- Liveness (`NoStarvation`, `SleeperIsServed`, `ReaderServed`, `Ends`, `Heard`):
  fairness is out of the provers' reach.
- The loop of `task_exit` over orphans, and what `Orderly`, `~Late` and `OneDevice`
  leave out: the theorems that need them say so.

Every invariant of the passing runs is also proved.

## Not modelled

- `serial.c`, `utils.c`: polled output and memory helpers; `include/limine.h`:
  third-party declarations.
- Device programming that nothing depends on: PIC, PIT, LAPIC, PCI enumeration,
  the xHCI register set-up, the BIOS handoff, and the contents of the device
  contexts. `pci_init` is commented out in kmain (`kernel.c:335`), so that the
  USB driver never runs in this build.
- Descriptor tables (`gdt.c`, `idt.c`) beyond `tss.rsp0`; the TLB; access bits.
- The text of messages, the font, and the output-only commands of the shell.
- The races of the frame allocator and the heap when several tasks call them at
  once: in both clients one task at a time makes and reaps tasks, and a call is
  one step of the models.
