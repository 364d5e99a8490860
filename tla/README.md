# A verification of GümüşOS in TLA+

GümüşOS is a 32-bit x86 kernel with a round-robin scheduler, paging, a heap, a
pseudo-FAT file system, a window manager and a collection of drivers. This
directory holds TLA+ modules translated from its source, configurations that
check them with TLC on small instances, and proofs of the central results with
TLAPS. Paths below are relative to `src/kernel/` of the repository.

## 1. The system

Almost everything in the kernel runs with interrupts off: the stubs of
`cpu/interrupt.asm` begin with `cli`, so a timer, keyboard or mouse interrupt and
a system call each run to their end. After boot `kernel_main` only halts. What
interleaves is therefore whole handlers and system calls (of different
processes), and three things inside them: loops whose end has to be argued for,
steps on the disk between which the power may go, and hardware that acts on its own.

| Component | State | Operations | What makes it correct |
|---|---|---|---|
| Scheduler (`cpu/task.c`, `cpu/gdt.c`) | circular list of PCBs, `task_head`, `current_task`, `next_pid`, loaded directory, TSS stack | `create_task`, `create_user_process`, `create_elf_task`, `task_kill`, `task_exit`, `schedule` | one circle through allocated PCBs; a context per task; fair turns; the dead stay dead |
| Kernel heap (`core/memory/memory.c`) | list of blocks, break | `kmalloc`, `kmalloc_aligned`, `kfree`, `expand_heap` | blocks tile the heap; nothing handed out twice; calls return |
| Frames and address spaces (`memory.c`, `core/elf_loader.c`, `core/syscall.c`) | frame bitmap, directories, `shm_table`, `mem_break` | `pmm_alloc_frame`, `map_page_in_dir`, ELF load, `sbrk`, `shm_get`, `shm_at` | one use per frame; no hole below the break; one region per key |
| Keyboard ring and stdin (`core/kernel.c`, `drivers/input/keyboard.c`, `syscall.c`) | ring of 128 characters | `kbd_put` (interrupt), `kbd_get`, SYS_READ | a queue; a read loses nothing and returns |
| Flat file system, ATA (`fs/fs.c`, `drivers/storage/ata.c`) | directory sector and data sectors | `fs_write_bin`, `fs_read_bin`, format, power failure | files never overlap; what is saved stays; a file is found |
| VFS (`fs/vfs.c`) | `file_table`, nodes, offsets | `vfs_open`, `vfs_read`, `vfs_write`, `vfs_close` | offsets follow reads; nodes belong to descriptors |
| Interrupt entry (`cpu/interrupt.asm`, `cpu/idt.c`) | words on the stacks | stub entry and exit, first switch to a task | what is popped is what was pushed |
| Window manager, mouse (`core/window.c`, `drivers/input/mouse.c`) | `windows[]`, ids, z indices, drag state, window data, `mouse_byte` | create, close, raise, click, key, drag, packets byte by byte | the front is the latest; a drag keeps its window; data lives with its window; a lost byte is got over |
| Desktop applications (`apps/`) | snake's body, file list, mixer levels and clicks | their callbacks for keys, clicks and ticks | a body without gaps; what is listed opens; levels in range |
| Shell (`apps/system/shell.c`), GumusDil | line, cursor, history | `shell_input`, commands | what is run stands on the screen |
| C library (`core/string.c`, `printf.c`) | – | numbers, copies, tokens | numbers read back; copies exact even when they overlap |
| Boot, console (`core/kernel.c`, `src/boot/`), graphics (`vga_gfx.c`) | order of initialisation, cursor, back buffer | `kernel_main`, `putchar`, `timer_handler`, `vga_present` | each step finds what it needs; what is drawn is shown |
| Driver manager, hardware detection, pseudo and serial drivers | two lists, unique ids, created drivers | register, activate, deactivate, unregister, auto-load | what is active runs and can be stopped; numbers name one driver |
| USB core, host controllers (xHCI, EHCI, OHCI), classes (HID, storage, audio) | pools, schedules, rings, tags, last report | enumerate, transfer, remove, report | late work for a transfer reaches no other; status and data belong to the command; key up for every key down |
| Network protocols (`drivers/network/`) | ARP and DNS caches, DHCP and FTP state | resolve, ping, look up, discover, request, renew, log in | answers matched to questions; nothing cached beyond its time; a lease asked for again by half |
| Network cards (`network_driver.c`) | receive ring, transmit buffers | send, receive | a frame is read where one begins (it is not: section 4) |
| Audio (`sound.c`, `advanced_sound.c`) | speaker, melody, channels, recorder | beep, play, mix, record | a tone has an end; buffers have one owner |
| ext2 (`fs/ext2.c`), AHCI, user programs, stubs | – | – | see section 7 |

How they meet: IRQ 0 calls `timer_handler` and `schedule`; IRQ 1 puts a character
in the ring and offers it to the front window or the shell; IRQ 12 feeds the window
manager, which calls back into the applications; int 0x80 reaches the VFS, the
break, shared memory, exit and kill. The scheduler takes PCBs from the heap, the
loader and `sbrk` take frames from the PMM, and the VFS calls `fs.c`, which reads
the disk anew in every call.

The build (`build.ps1`) links with `--allow-multiple-definition`, and several
functions exist twice (stubs of the staged builds). The models follow the real
files: `kernel.c`, `syscall.c`, `task.c`, `memory.c`, `interrupt.asm`, `window.c`.

## 2. Modules

| Module | Models | Composes or refines |
|---|---|---|
| `Scheduler` | the task list and `schedule()` | `MCScheduler` for TLC, `Scheduler_proof` |
| `KernelHeap` | `kmalloc`, `kfree`, `expand_heap` loop by loop | `MCKernelHeap`, `Memory_proof` |
| `AddressSpaces` | frames, directories, loader, `sbrk`, shared memory | `MCAddressSpaces`, `Memory_proof` |
| `BoundedFifo` | the promise of the keyboard ring: an abstract queue | – |
| `KeyboardBuffer` | the ring itself | implements `BoundedFifo`; `KeyboardBuffer_proof` |
| `StdinRead` | SYS_READ on descriptor 0, the keyboard interrupt | extends `KeyboardBuffer`; `KeyboardBuffer_proof` |
| `FlatFs` | directory and data sectors, writes sector by sector, power failure | – |
| `FileStore` | the promise of the files: an abstract store of whole files | – |
| `Vfs` | the open file table | extends `FlatFs`, implements `FileStore`; `MCVfs`, `Vfs_proof` |
| `InterruptFrame` | what is pushed, laid out and popped around a switch | – |
| `Desktop` | window manager, mouse and key events, open and close of the applications | `MCDesktop`, `Desktop_proof` |
| `MousePackets` | three bytes, three interrupts, one packet | `MCDesktop` |
| `ShellLine` | the line editor and its history | `MCDesktop` |
| `Snake`, `FileManager`, `Mixer` | the game, the list of files and their names, the mixer window | `MCDesktop` |
| `CString` | numbers and text, copies, comparison, tokens, against reference definitions | `MCDesktop` |
| `Console` | printing and painting into one back buffer | – |
| `Arp` | resolution, its cache, routing, ping | – |
| `Dns`, `Dhcp` | resolver and cache; lease and its timer | extend `Arp`; `MCNet`, `Net_proof` |
| `Ftp` | the control connection line by line | `MCNet` |
| `Checksum` | IP, UDP and ICMP checksums, sender and receiver | `MCNet` |
| `Rtl8139` | receive ring, registers and transmit buffers of the card; no property | `MCNet` |
| `DriverManager` | the two lists, detection, the start and stop of USB | `MCDevices`, `Devices_proof` |
| `UsbSchedule` | pools, schedules and transfers of EHCI and OHCI | `MCDevices` |
| `Xhci` | command and event ring | `MCDevices` |
| `MassStorage` | the commands and their phases over a device that fails | `MCDevices` |
| `UsbProbe` | devices that come and go, the drivers that take them, settings sent to them | `MCDevices` |
| `UsbClasses` | HID reports, audio streams | `MCDevices` |
| `Sound` | speaker, melodies, mixer channels, recorder | `MCDevices` |
| `NatLemmas` | no code: least elements, ranks and divisions of natural numbers, for the proofs | – |

Definitions keep the names of the source where there is one. Where a decision of
the code is easy to get wrong it is an operator of its own, and next to it stands
a *slip*: the same decision with a plausible mistake (`StaleStack` beside
`KernelStack`, `LastStart` beside `EndOf`). No specification uses a slip; they are
there so that every property can be shown to notice one.

`MCDesktop`, `MCNet` and `MCDevices` put modules together that share a machine but
little state: a constant `session`, chosen at the start, says which of them moves.
The parts that do share state are composed: `Dns` and `Dhcp` send through the cache
of `Arp`, `Vfs` works on the disk of `FlatFs`, `StdinRead` on the ring.

### Scheduler
A PCB is identified by its address, and addresses that `schedule()` freed are used
again, so that a stale pointer would be seen. `Create` is the three create
functions (they differ in whether the task has a directory and a kernel stack),
`Kill` is `task_kill`, `Exit` is SYS_EXIT with the `schedule()` it calls, `Timer` is
IRQ 0. The call of `schedule()` is three steps – `Enter` (save, reap or step),
`Skip` (one round of the loop over dead tasks), `Switch` (directory, TSS, stack) –
because whether its loop ends is a question. `esp` and `cpu` hold whose stack is
meant. `kernel_directory` is the null pointer: `init_paging` takes it from an empty
PMM, whose first frame is frame 0.

### KernelHeap
Addresses and sizes are numbers, scaled down; a block is the address of its header.
A call is split at its loops (`pc` is `scan`, `expand` or `coalesce`). The magic word
is left out because callers free only what they were given, which `Free` requires.
`held` is history: what callers hold.

### AddressSpaces
Frames, pages and page tables scaled down (two bytes per page, two pages per table).
All directories share the tables of the identity map (`kmap`). The loader and `sbrk`,
which map memory page by page, are split at their loops: `job` says which process is
being mapped, from where, up to where and what follows (`Segment`, `MapOn`, `Loaded`,
`BreakMoved`). The other calls are one step, and no call begins in another. When the
PMM is empty `pmm_alloc_frame` returns 0, no caller looks, and frame 0 –
the kernel's page directory – becomes a page of a process: the model ends there
(`NoFrameZero` guards `SpacesNext`), since nothing after it can be relied on.

### KeyboardBuffer, StdinRead
`Put` and `Get` are `kbd_put` and `kbd_get`. `StdinRead` adds the interrupt flag,
the scan code in the controller, and the loop of SYS_READ turn by turn; int 0x80 is
an interrupt gate, so the flag is off until the read returns.

### FlatFs, Vfs, FileStore
A file is a run of sectors, a block a pair of data and number, so a block of another
file in the wrong place is seen. A write is the directory first, then one action
per sector; `Crash` may come between any two. Names are reduced to what is stored
(8.3) and what `strcasecmp` calls equal. `Vfs` adds descriptors over it; ext2 is
never mounted, so every open takes the fallback path, and the model ends when a
node is allocated over memory whose `impl_data` is not null (`NoStrayExt2`), because
`vfs_read` then follows a stray pointer. `FileStore` is what remains when directory,
sectors and nodes are taken away: files by age, each complete from one step on, and
descriptors that are a name and an offset. The file a name stands for is the oldest of
that name, also when it never became complete (the finding of `fs_readback`, kept as
what the code does). Of a file that is not complete it promises its size only. The
refinement mapping takes the files from the directory, with the content that is on the
disk once their write has ended; the sectors of a write but the last are stutters.

### InterruptFrame
A word is a pair of the register it came from and the task it belongs to; memory
below a stack is stray. `Timer` pushes what the stub pushes and pops what it pops.

### Desktop
A mouse packet finds any set of windows under the pointer, so positions are not
needed. An application is what the manager is told about it: whether it takes keys,
closes on 'q', has data that its `on_close` frees, opens a viewer. `older` (which
window was raised before which), `grabbed` (what was pressed) and `lost` (data without a window)
are history.

### MousePackets, ShellLine, Snake, FileManager, Mixer
One record each (`mouse`, `shell`, `snake`, `files`, `mixer`), one operator per
callback. A mouse byte is bit 3, the overflow bits and where it came from; that
movements of 8 to 15 pixels look like first bytes is kept (`far`). The shell keeps
what lies behind the cursor, as the buffer does. A file's name is its characters,
because cutting, dots and a name that fills its array are the point. What the shell
shows goes through `putchar`: a row that is full makes way for the next, and `\b` goes
back to the start of the cursor's row and no further (`Column`, `Backed`), so that a
line which has filled a row leaves characters on the screen that `command_buffer` has
lost. While a line is edited nobody else prints; the screen does not scroll.

### CString
Operators for the functions, in the width `MaxInt` scales down; the initial states
are the inputs: numbers of the width, texts up to `MaxStr` of the letters `StrChar`,
memory of `Size` bytes. `itoa`, `atoi`, `memmove`, `strtok` and the dotted quads are
compared with what numbers, sequences and fields mean. The loops are recursive
functions local to their operator, so that they can be proved about.

### Console
A cell holds the letters whose pixels stand there. `Tick` is `timer_handler`: paint,
then show. `due` is the block as it was when the frame began.

### Arp, Dns, Dhcp
A frame that was sent stays in the network and may be answered at any later time,
again, or not at all. What the code does on a miss (ask, give the datagram up) is in
`Datagram`, through which the resolver and the DHCP client send too. The numbers of
DHCP are their four bytes, because `ntohl` and the order of bytes are what matching
rests on: the number goes out in the machine's order (`Wire`) and what comes back is
read with `ntohl`. A server that repeats the bytes it was sent (`Repeated`) is
therefore refused unless the number is a palindrome; what passes is an answer whose
number happens to have the bytes asked for, as those to another client may, because
nobody looks at `chaddr`. `ethernet.c` hands no frame up as committed; the process
functions are called as declared, and that they ever are is assumed nowhere.

### Ftp, Checksum, Rtl8139
`Ftp` is written from the client's side: TCP delivers lines early, late or never.
Words in `Checksum` have two digits of a small base. The ring of the card is the
card's own (data sheet): it counts as read what lies before its own place (`cleared`),
and CAPR is that place less 16. The driver takes CAPR for the place and never sets it
first, so what it reads on an empty ring is stray (`Found`). The module has that as it
is, and no property is claimed.

### DriverManager, UsbSchedule, Xhci, MassStorage, UsbProbe, UsbClasses, Sound
`DriverManager` starts where `kernel_main` registers the disk before it empties the
lists. A call that runs a loop (over the cards found, over the class drivers) puts what
it has to do into `todo`, and each pass of the loop is a step. Network cards of a kind
share one driver object, which detection starts and registers again for each. What
detection stores in `detected_drivers` (16 entries, up to 32 cards, no check:
`drivers/hardware_detect.c:260`) nobody reads; it is left out and not claimed to fit. A transfer of `UsbSchedule` takes descriptors from a pool that never gets any
back; the controller works while the driver polls, may be too slow, and goes on with
what it still holds after the call has returned: `Finish` unlinks and rings no doorbell,
and `LetGo` is the controller's own step. In `Xhci` the
event's type passes a mask of four bits, so no answer is recognised and every
`xhci_enable_slot` fails after its wait: the module has that as it is and no property
is claimed. In `MassStorage` every bulk transfer may be done, refused, or reported
as done with nothing moved; data that is moved comes whole, since `data_residue`, in
which a device says that it sent less, is read nowhere. In `UsbProbe` a control transfer
has two outcomes that need not agree: what its caller is told and what the device did
(`Transfers`). EHCI reports a timeout as done, OHCI what has hardly begun, xHCI what it
never sends. A setting not reported as taken is left as the probe made it; `doubt` lists
those of which a report was not true, and the controller may carry such a request out
long after (`TakenLate`). Three things the module shows are not claimed to be
otherwise: a device probed twice has two entries, of which a removal takes one and
leaves the other with a freed `usb_device_t`; a device whose class is only in its
interface, as every common keyboard's is, is handed to `usb_hid_probe` and refused
there; and since the report descriptor is never fetched every device is of type
"other", so that no keyboard or mouse is made and the reports of `UsbClasses` are
those its functions would be called with. `Sound` takes `handle_beep_timer` as its comment means it,
called by the timer; `timer_handler` has that call commented out. It says who owns a
buffer, not how far it is read: a sample of two bytes at the last position of a buffer
takes one from behind it (`advanced_sound.c:343`).

## 3. What TLC checks

| Run | Checks | Bounds and why they are enough |
|---|---|---|
| `scheduler` | `ListSound` (one ring, no dangling pointer, pids unique, the kernel schedulable), `ContextMatches`, `FinishedForGood`; live: `RoundRobin`, `ExitReaped` | three PCB addresses, four tasks created: reuse of an address, a ring of one, two and three, a full heap |
| `heap` | `HeapSound` (tiles; expands only when nothing fits; no two free neighbours), `HeldMemory`; live: `CallsReturn` | four pages of four units, requests of one unit, a part of a page and more than a page, aligned or not: exact fits, splits down to the least remainder, three-way merges, expansion that fails |
| `addr` | `OneUse`; steps: `MemoryStays` (break mapped, shared regions by key, `sbrk` keeps memory) | seven frames for two processes and two regions under three keys, increments below and above a page and minus two pages: every use of a frame, a full table, exhaustion |
| `stdin` | `FifoSpec` (the ring implements `BoundedFifo`), `LineRead`; live: `BufferedReadReturns` | a ring of four and two characters: full, empty and wrapped at every index; reads of 0 to 3 bytes |
| `vfs` | `DescriptorsSound`, `FilesSound`, `FilesAsStored` (disk and descriptors implement `FileStore`) | three directory entries with one descriptor, two descriptors while the disk has two files (`FewAtOnce`: an older file under the name and a full directory are reached either way), files of no and two sectors, a name that is cut and one in another case, crash anywhere |
| `desktop` | `FrontIsLatest`, `WindowsKeepTheirOwn`, `OneWrongPerLoss`, `RunsWhatIsShown`, `BodyIsAPath`, `StringsAgree`, `ListedFilesOpen` | three slots, five windows, six raises in a row (reuse of a slot, a full table, closing during a drag; below the wrap of `z_index`); four packets, any byte lost; a history of two that goes round; a board of four by three; numbers of eight bits; names that are cut and that fill their row; rows of four characters and lines that fill one, the prompt before them (a second filled row is in the proof only) |
| `net` | `LoginStands`, `OneByteIsCaught`, `LeaseInStep` (an offer taken once; a client bound only by the answer to its last request, and for at most half of the lease), `CachesAreCurrent` | two near hosts, one far, two cards; caches of two with three names; leases shorter and longer than the clock's bound; a ring that is four units longer than the longest frame, so that frames fall on every place and across its end; replies of two lines; data of up to four bytes, each damaged |
| `devices` | `DriversAccounted`, `ReadGivesItsBlocks`, `ControllersInStep`, `HandlersKnow`, `SoundOwned` | a driver of each kind, two of one name, two cards of one driver, an `init` that fails; a pool of eight descriptors, which two transfers use up, and waits of three polls; six tags, failures at every phase; a device of either class and one by interface, two entries; reports of three slots with two keys; two channels, two blocks, effects only while the rest of the sound is at rest (`EffectsBound`) |

`scheduler`, `heap`, `addr`, `stdin`, `vfs` and `desktop` also check the type
invariants of their modules. `scheduler` and `heap` check deadlock; the others do not,
since there the code does stop (out of frames, in a read of an empty ring, at a stray
pointer, at the start button) or a session ends at its bound. Symmetry is used for
keys, nodes and blocks (of windows and of sound), which are only compared, and never in a run with liveness
properties.

## 4. Where the code and what is said of it part

| Run | What TLC finds |
|---|---|
| `stdin_wakes` | SYS_READ of an empty ring executes `hlt` to "wait for interrupt", with interrupts off: the key never arrives (`core/syscall.c:102`). |
| `fs_readback` | A second write under a name adds an entry that no read finds, `tests/fs_test.c` expects to read what it wrote (`fs/fs.c:99`). |
| `switch_entry` | The stub pops three words more than the create functions lay out, `tests/task_test.c` expects the entry point in EIP (`cpu/interrupt.asm:111`). |
| `console_shown` | Text drawn between two frames is under the wallpaper before the block is shown; the README says that all drawings are made in the block and then put on the screen (`core/kernel.c:269`). |

`switch_entry` and `stdin_wakes` mean that the other modules describe the code as it
would run once a task has been entered and while a read finds characters; they are
modelled on their own for that reason. Also seen, and not the subject of a run:

- A kernel task has the null directory, so it runs in the directory of whichever
  process ran before, under a comment that promises isolation (`cpu/task.c:217`).
- `z_index` is a byte that only grows: after 255 raises the window just raised is the
  last one (`core/window.c:106`). A click on the start button waits inside the mouse
  interrupt for the next mouse interrupt (`drivers/input/mouse.c:202`).
- `kernel_main` calls `msleep`, which halts until the tick moves, before `sti`.
- `irq_handler` is declared `void`, and the stub loads `esp` from `eax` after it.
  `InterruptFrame` takes the outcome of the timer path, where `eax` still holds the
  result of `schedule()`.
- Programs linked below 16 MB share the page tables of the identity map.
- `init_paging` marks all frames below 16 MB used, so page tables made for a process
  lie above it, where the kernel clears them through an address that is not mapped.
- Two ELF segments that share a page: loading the second loses the first's bytes.
- `sbrk` of a process made by `create_user_process` starts from an uninitialized
  break, and a negative increment may take a break into the identity map.
- `strncpy` of a string of `n` characters or more wraps its counter and clears memory
  to the end (`core/string.c:97`). Its one caller passes 255: a line of the shell is
  shorter, a file run with `yukle` (`shell.c:139`) need not be.
- Of a file of 256 sectors or more only the count modulo 256 is written.
- The loader does not close its descriptor when the magic is wrong.
- `move_window` moves twice down for one movement.
- `XHCI_TRB_TYPE` (0x3F00) keeps four bits of an event's type; no completed command is
  recognised. Were it, the slot would be read from the wrong word (`xhci.c:295`), at
  index -1 after the last entry of the ring.
- DHCP sends its transaction number in the machine's order (`dhcp.c:85`) and compares
  it through `ntohl` (`dhcp.c:198`): no server that repeats the number it was sent is
  heard.
- A DHCP discover or request that is lost is never sent again: the timer retries only
  when `retry_count` is above 0, and every discover sets it to 0 (`dhcp.c:140`, `:340`).
  A client whose renewal is lost stays REQUESTING with its address for ever.
- `rtl8139_receive` takes CAPR for the place of the next frame (`network_driver.c:511`);
  the card keeps it 16 less, and 0xFFF0 after the reset, which `rtl8139_init` leaves. The
  first receive reads behind the ring. The length of a frame to be sent is written to
  0x40 and on instead of the status words at 0x10, so nothing is sent.
- EHCI returns 0 for a control or bulk transfer that timed out or halted in an earlier
  stage than its last (`ehci.c:376`); the queue head is unlinked without the doorbell
  (`EHCI_CMD_IAAD` is used nowhere), so the controller may still write to the caller's
  buffer. OHCI's wait ends at its first read (`ohci.c:280`), with a constant,
  `OHCI_TD_NOERROR`, that no header defines.
- A backspace does not go back to the row above (`kernel.c:142`): on a line that has
  filled a row the screen keeps what the buffer lost.
- A MIDI note does not look whether it got a block (`advanced_sound.c:258`), and
  `create_network_driver` reads the ids of the null device it is given
  (`hardware_detect.c:292`).
- `usb_host_init` registers a second driver object of one name for each controller,
  and the activation by name finds the first (`usb_host.c:55`).
- `scroll` moves memory at 0xA0000, not the back buffer (`kernel.c:120`).

## 5. Fairness

`scheduler`: weak fairness of `Timer` (the PIT fires for ever) and of each step
inside `schedule()` (it runs with interrupts off, so nothing keeps it from going
on). Nothing is assumed of the programs: that tasks are created, exit or kill is
never forced. `heap`: weak fairness of the steps inside a call, for the same reason;
none for calling. `stdin`: weak fairness of the read loop and of the delivery of an
interrupt that the processor may take; keys need not be pressed. The other runs check safety only; in particular nothing is
assumed of the network, since no code path hands a frame to `arp_process_packet` and its
like, and nothing is claimed to happen there in the end.

## 6. What is proved

For every value of the constants, by TLAPS:

**`Scheduler_proof`** – `TypeCorrect`, `RingCorrect`, `NoUseAfterFree`,
`KernelAlwaysSchedulable`, `PidsNeverShared` and, of the four together,
`ListCorrect`; `ContextCorrect`, `DeadStaysDead`; from
`MaxPidAssumption` alone (any set of addresses). `OneRing` says that the live PCBs
form one circle: the successor is one-to-one on them and no proper part is closed.
That is not inductive alone: unlinking a PCB needs that it is on the ring and not
its head, and that its predecessor is found. The invariant `IInv` adds that ids lie
below `next_pid` (so a new one is fresh), that only tasks with an id other than 0
own a directory (0 stands for none), and that `schedule()` is entered on the current
task's stack. The lemmas `RingPred`, `RingInsert` and `RingRemove` are about any
circle; every action has a lemma, and `NextIInv` puts them together.

**`Memory_proof`** – of `KernelHeap`, `TypeCorrect`, `TilingCorrect`,
`FirstFitComplete`, `CoalescingComplete`, of the last three together `HeapCorrect`,
and `HeldCorrect`, from `HeapAssumption`. `HeapInv` is the tiling with the facts
about the cursors it needs (that they are on the list, where the last block ends,
that the break stands on a page). `TilesSplit`, `TilesAppend` and `TilesMerge` say
what a split, an expansion and a merge do to a tiling. `SearchInv` adds what the two
loops have passed: no fitting block before `curr`, no free neighbours behind it;
first fit and full coalescing follow when the loops end. That no two neighbours are
free (`FreeBlocksApart`) is not inductive: an expansion appends a free block behind
what may be a free block. `ApartInv` says that this block is then the only one that
fits, so the call that asked for it takes it and the pair is gone before it returns.
`HeldInv` carries that pieces are not empty and requests large enough for their
alignment, so that a piece lies in one block and in no other's.

Of `AddressSpaces`, `SpacesTypeCorrect`, `OneUseCorrect` and `MemoryCorrect` (an
invariant of two parts and two action properties), from `AddressSpacesAssumption`.
`SpacesInv` has four parts. `Apart` says of pages, page tables, heap and regions,
pair by pair, that they share no frame, that all they hold is marked, and that a
region's frame is mapped nowhere but at the page of its slot: without that, two
processes could hold one frame at two places. `PageGiven`, `TableGiven`, `HeapGiven`,
`RegionGiven` and `RegionAttached` say what becomes of it when a frame gets one of
the uses, and `PageMapped` puts them together for `pmm_alloc_frame` followed by
`map_page_in_dir`, which may take a second frame for the table. `BreaksOK` is stronger
than `BreakMapped`: the byte before a program's first break is mapped too, which is what
fills the gap between a break inside a page and the next page, where `sbrk` starts.
`JobOK` says what has been mapped so far in a loop, `MemoryShape` the types. The
assumption keeps addresses a page away from where rounding up wraps to 0: ends of
segments, the limit of `sbrk` (0xB0000000 in the code), and the break that
`create_user_process` leaves to chance, of which the code promises nothing.

**`KeyboardBuffer_proof`** – `TypeCorrect` and `RingIsFifo`: the ring implements
`BoundedFifo` for every size and every alphabet. The refinement maps the places from
tail to head to a sequence; `PutAppends` and `GetTakesHead` carry the index
arithmetic around the end of the array. `LineCorrect` is `LineRead` for every size of
read, and `StdinIsFifo` the refinement again under reads, keys and interrupts, both
with `StdinAssumption`. Their invariant `ReadInv` adds to the types that the
interrupt flag is off as long as a read runs (so no key enters the ring under it, and
what it stored followed by what waits stays one sequence), that no stored character
before the last is a newline, and that only characters wait in the ring, never the 0
with which `kbd_get` says it is empty. What they do not say, because it is false of
the code, is that the read ends (section 4).

**`Vfs_proof`** – `TypeCorrect`, `FilesCorrect`, `DescriptorsCorrect` and
`StoreImplemented`, from `FsAssumption`, `FilesFit` and `VfsAssumption`. `FsInv`
speaks of the disk between two sector writes: the directory is a prefix of used
entries, each entry's extent begins where the one before it ends, what is written of
the file under way is what its entry will hold, and what is saved is untouched by it.
Of this follows that no write, and no power failure in one, reaches a sector of
another file. `VfsInv` adds who owns which node, and that what a descriptor has seen
since its open is the part of the file below its offset. `StoreImplemented` is the
refinement of `FileStore`, one lemma per action (`OpenStored` to `PowerLossStored`):
`FileIs` gives what a file is to its callers by its entry and the history alone, so
that a step which writes other sectors leaves it as it is, and `FindsFirst` makes the
file the search finds the oldest of its name. `FilesFit` says that a directory full
of the longest files fits on the disk and in the 16-bit cluster number, and that no
sector count is cut: with the code's sixteen entries and 8-bit count, files of fewer
than 256 sectors on a disk with two megabytes behind sector 200. Beyond it neither
`fs.c` nor `ata.c` checks anything (section 4 has the file of 256 sectors).

**`Desktop_proof`** – `FrontCorrect`, `OwnersCorrect`, `PacketsCorrect`,
`LinesCorrect`, `BodyCorrect`, `ListCorrect`, `StringsCorrect`, `TypesCorrect`, one
invariant per part:
`WinInv` (the order of `z_index` is the order of raising, for windows alive and the
slots of closed ones; ids are below the counter; the drag is of the window pressed;
data is allocated once and owned by one window), `MouseInv` (how far a packet may be
out of step, and that only one lost byte explains it), `ShellInv` (the buffer of the line and the rows on the screen, of any width, against
the line as it was typed: `OnScreen` says that the line is part of what stands there,
all of it until a row has been filled, and that the cursor's row is its end, which is
what a backspace can still take away; the history as the last commands, in order, on
either side of its wrap), `SnakeInv` (a path, and where the tail was),
`FilesInv`, `MixerInv` and `StringsInv`. The last says of a `strtok` under way that
the fields which begin before the place where it goes on are returned, each at its
rank, and that this place is the head of the string or behind a delimiter. The other
functions are single steps; what is proved of them is about the function: reversed, the
digits of `itoa` are read as the number by `atoi` (`DigitsRead`), `sscanf` finds each
number behind its dot (`AddressRead`), the first difference decides either way round
(`Compared`), and after `k` bytes of a copy exactly those are as they were at the source
(`OneMore`, which is where the direction matters). `DesktopAssumption` keeps `MaxZ` below `ZLimit`: the order
is claimed below the wrap of `z_index` only, and section 4 says what happens at it.

**`Devices_proof`** – `DriversCorrect`, `ReadsCorrect`, `ControllersCorrect`, `HandlersCorrect`,
`SoundCorrect`. `MgrInv`: after every step of a call the active drivers are on the list,
up and there once, and the numbers on the list are below the next one, so that emptying
the manager, which begins again at 1, is the only way to see a number twice. `DiskInv`:
every tag on the wire is of an earlier command or of this one, so that what is left
unread can not be taken for the answer to a later command. `UsbInv`: the
descriptors of the transfers a controller still holds lie one behind the other below
`pool_index`, the newest last, and only the one being waited for is linked in EHCI's
list. `ProbeInv`: of a setting of which every report was true the value kept is the one
the device took last, or the probe's if it took none; of an entry whose device is taken
twice nothing is said. `ClassInv`: what the
handlers were told adds up to the keys, modifiers and buttons of the last reports,
which are apart from each other (`UsbClassesAssumption`), so that a report of the one
kind never takes back what another told.
`SoundInv`: buffers of channels and recorder are disjoint and allocated, a tone sounds
only with a deadline or a melody behind it. They rest on the assumptions of their
modules alone, which give types and signs to the constants, keep keys, modifiers and
buttons apart, and say that there are finitely many drivers without `init` and that a
scan finds a sequence of cards.

**`Net_proof`** – `LoginCorrect`, `LeaseCorrect`, `ChecksumCorrect` and `CachesCorrect`; the last is a conjunction of an invariant and two action properties. `FtpInv`: each line
on the wire that logs in was sent by this connection's server, and a wait begins early
enough to end by `Timeout` (`FtpAssumption`: `3 * Wait <= Timeout`; the code has 10
seconds, `ftp.c:183`, and 30, `ftp.h:16`). `DhcpInv`: transaction numbers taken rise, the client's is the last one given out, and
a client that is BOUND got its ACK under that number and has passed less than half of
its lease. It does not say that the lease is renewed, which is false (section 4). It
needs
that the numbers do not come round to the first ones within the bound on transactions
(`DhcpAssumption`, as the 32 bits from 0x12345678 on). `ArpInv` and `DnsInv` say of
every entry what was last heard for it and how long ago. `PacketInv` says that a packet
is damaged exactly if its field is not the checksum of the rest: a byte changes the sum
of the words by less than all ones and not by 0, and folding the carries in keeps the
sum modulo all ones and makes 0 of nothing but 0.

**`NatLemmas`** – a set of natural numbers has a least element (from the library's theorem
that `<` is well-founded, which needs no operator as a parameter), every rank in a finite set is taken, and
division keeps order: what `CHOOSE` and `Min` in the models rest on. The library's
induction theorems take an operator as a parameter, so what a recursive function
computes for every input is shown by its least counterexample instead: the least
argument at which the claim fails is not the first, so the claim holds one step
before, and the equation of the function carries it on. That there is a function with
that equation is shown the same way. `Checksum` and `CString` are proved about like
this.

Where a run checks a conjunction of several modules' properties in one session
(`ControllersInStep`, `CachesAreCurrent`), the theorem is about the same composition;
its proof has one lemma per module and one that puts their steps together.

Only model-checked, and why:

- liveness (`RoundRobin`, `ExitReaped`, `CallsReturn`, `BufferedReadReturns`), which with `ENABLED` is beyond the prover;
- the four statements of section 4, which are false.

## 7. What is not modelled

- ext2 (`fs/ext2.c`): does not compile as committed (`ata_device_t`, `ata_read`,
  `ata_primary_master` are defined nowhere) and `ext2_mount` returns an error on every
  path: no file of it is ever open.
- AHCI: one identify at detection, one slot at a time; nothing reads or writes through
  a driver object. `audio_driver.c` is in a directory that the
  full build leaves out (`build.ps1`), `vesa_vbe.c` never starts.
- FTP transfers: `ftp_open_data_connection` refuses the mode the connection always has.
  TCP is external: the functions `ftp.c` calls are defined nowhere.
- USB: what a transfer that was given up writes into its caller's buffer; the registers of devices and class drivers name functions no file defines; the
  xHCI transfers are empty; descriptors are taken as parsed.
- The interface list of `network_driver.c`; the E1000, whose send and receive are empty.
- Calculator, paint and the start menu, which only a click that never returns reaches.
- Drawing, fonts and colours, the formats of `printf`, floating point, UTF-8, the
  interpreter of GumusDil: no state that others read.
- User programs: wrappers; what they may call is in the models of the calls.
- Stubs and minimal kernels: linked only by staged builds.
- Parts of modelled components: what `init_paging` does to the first frames while it
  builds the map; the polling of the ATA status; window positions; the waits of
  `kernel_main`; exceptions, which halt.

## 8. Plan

Built so far, in this order: the core (`Scheduler`, `KernelHeap`, `AddressSpaces`, the
keyboard ring, files, windows), then drivers, network, applications and library.
Left, the most valuable first:

1. An abstract lease that `Dhcp` implements, an abstract set of held keys for
   `UsbClasses`.
2. Positions of windows; the polling of the ATA disk with a disk that fails.
