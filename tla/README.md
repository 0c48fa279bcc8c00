# A TLA+ verification of PekerOS

PekerOS (also called FerkanOS in its sources) is a 32-bit x86 kernel for one
processor: preemptive tasks, a small TCP/IP stack with BSD-like sockets, a file
system of its own (PAFS), a shell that runs inside the keyboard interrupt, and a
GUI.  This directory holds TLA+ models of its core, the TLC runs that check
them on small instances, and TLAPS proofs of the safety properties that the passing
runs check, for every value of the constants.

All paths below are relative to the repository's root.

## 1. The system

### Components, their state and operations

| Component | State | Operations |
|---|---|---|
| Kernel heap, `kernel/mm/kheap.c` | headers `{size,is_free,next,prev}` inside one static area | `init_kheap`, `kmalloc`, `kfree` |
| Frame allocator, `kernel/mm/pmm.c` | `frame_bitmap`, `total_frames`, `used_frames_count` | `init_pmm`, `alloc_frame`, `alloc_contiguous_frames`, `free_frame` |
| Tasks, `kernel/proc/task.c` | `task_list`, `current_task`, each TCB's `state`, `next_pid` | `create_task`, `schedule_internal`, `schedule`, `task_exit` |
| Interrupts and timer, `kernel/core/irq.c`, `kernel/drivers/timer.c` | what the PIC has in service, `tick_count` | `irq_handler` (handler, EOI, scheduler), `timer_handler`, `sleep` |
| Sockets, `kernel/net/socket.c` | `sockets[]`: ring buffer, `waiting_task`, ports | `socket_create/bind/connect/listen/accept/sendto/recvfrom/close`, `socket_dispatch_udp` |
| TCP, `kernel/net/tcp.c` | `tcp_pcbs[]`: state, `snd_nxt`, `rcv_nxt` | `tcp_send_segment`, `tcp_close`, `tcp_input` |
| PAFS, `kernel/fs/pafs.c` | superblock, inode table and block bitmap cached in memory; the disk | `pafs_format`, `pafs_init`, `pafs_create`, `pafs_delete`, `pafs_write`, `pafs_vfs_read/write/readdir/finddir/close` |
| Shell, `kernel/ui/shell.c` | `shell_active`, line buffer, working directory | `shell_input`, the commands |
| Keyboard, `kernel/drivers/keyboard.c` | the ring `kbd_buffer`, shift | `keyboard_handler`, `keyboard_put`, `keyboard_get` |
| Terminal, `kernel/core/kernel.c` | row, column, video memory | `put_char`, `clear_scr` |
| System calls, `kernel/proc/syscall.c` | each task's `fd_table` | open, read, write, close, sbrk, socket calls, exit |
| ARP, IP, ICMP, UDP, `kernel/net/net.c` | one `gateway_mac`, the bind table | `net_handle_packet` and the handlers below it, `net_send_ipv4`, `net_send_udp` |
| VFS, `kernel/fs/vfs.c` | `vfs_root` | `vfs_get_node_by_path`, `vfs_finddir`, `vfs_close` |
| GUI and mouse, `kernel/ui/gui.c`, `kernel/drivers/mouse.c` | list of windows, `dragged_window`, the packet being received | `gui_create_window`, `gui_destroy_window`, `gui_bring_to_front`, `gui_on_mouse_event`, `gui_render`, `mouse_handler` |
| Paging and ELF loader, `kernel/mm/paging.c`, `kernel/proc/elf.c` | one page directory and its tables, each task's heap break | `init_paging`, `paging_map_memory`, `elf_load`, `sys_sbrk`, the drivers' mappings |
| ext2, network cards, display, sound, PCI | see `PROJECT.json` | not modelled, or only where they touch the parts above |

### How they interact

* System calls enter through an interrupt gate with IF clear.  A call that blocks
  sets `s->waiting_task`, sets its own TCB to `TASK_SLEEP` and calls `schedule()`,
  which is `sti; int $0x20`: from there on the call runs with IF **set** and any
  interrupt can fall between two of its instructions.
* The network card's interrupt runs `tcp_input` or `socket_dispatch_udp`, which
  write into the socket's ring and make the waiting task ready.
* The timer interrupt and `schedule()` enter the same vector.  Both advance
  `tick_count` and send an EOI; only the first comes from the PIC.
* A shell command runs inside IRQ1, on the stack of whatever task was
  interrupted; IRQ1 stays in service until the command returns, and `sleep` is a
  command that waits there with IF set.
* `exec` clears `shell_active` for the program it starts, `task_exit` of that
  program sets it.
* The network card's interrupt also remembers the sender's MAC, the only one the
  kernel keeps, and every frame it sends goes there.
* The mouse interrupt edits the list of windows that the graphics task is walking
  with IF set.
* PAFS holds its lock with interrupts off, so no other code interrupts an
  operation; only a power failure does, between two sector writes.

### What is hard

Wake-ups that race with going to sleep; a ring that one party empties byte by
byte while another fills it; an EOI that ends somebody else's interrupt; answers
that arrive before the sender has finished sending; segments that are lost,
repeated and reordered; the power failing between two sectors; long sequences of
splits, merges, creates and deletes that drift apart from what is counted about
them.  `PROJECT.json` lists these hazards with the line each bites at and the
properties that watch it.

### What makes each component correct

* heap: blocks tile the area, the list agrees with them, callers' memory is
  disjoint, a double free is seen;
* frames: none leaks, is doubled or miscounted; reserved memory is never given out;
* paging: the kernel finds every page table where it looks for it, a frame has one
  use at a time, a program keeps the pages it was given;
* tasks: nobody starves, the shell and a program never share the keyboard, the
  shell is not re-entered, a sleep lasts long enough and ends;
* UDP socket: a bounded FIFO of whole datagrams whose reader always wakes;
* TCP: the stream is intact, acknowledgements are honest, a connection that is
  reported exists at both ends, blocking calls return, a closed socket's memory is
  left alone and its PCB given back;
* descriptors, sockets and PCBs: each descriptor names a node of its own, each slot
  in use has one node, each PCB one slot, and no slot is lost in silence;
* console: the prompt shows the line that Enter executes, a program reads keys in
  the order they were typed;
* working directory: the path shown leads to the node that commands work in;
* windows: the list reads the same in both directions whatever is clicked, and the
  drawing follows it;
* PAFS: no block has two owners, and a power failure leaves none with two; what was
  written is read; what an operation changed is on the disk; a directory's size,
  entries and blocks agree; names and files correspond.

## 2. The modules

| Module | Models | Abstract specification / proofs |
|---|---|---|
| `KHeap` | `kheap.c` | implements `HeapContract`; `KHeapProofs` |
| `Pmm` | `pmm.c` | `PagingProofs` (about `PmmSpec`) |
| `Paging` | `paging.c`, and its users `elf.c`, `sbrk` and the buffers of `rtl8139.c` | extends `Pmm`; `PagingProofs` |
| `Scheduler` | `task.c`, `irq.c`, `timer.c`, and the shell's exec, sleep and graphics commands | `SchedulerProofs` |
| `DgramSocket` | one UDP socket of `socket.c` with its reader | implements `DatagramQueue`; `DgramSocketProofs` |
| `TcpSocket` | one TCP connection of `socket.c` and `tcp.c`, a host and a network | `TcpSocketProofs` |
| `Pafs` | `pafs.c`, and the shell commands that call it | `PafsProofs` |
| `Sockets` | `syscall.c`'s descriptors, the tables of `socket.c` and `tcp.c`, composed | `SocketsProofs` |
| `Console` | `keyboard.c`, the shell's line editor and history, `put_char` | `UiProofs` |
| `Cwd` | the shell's working directory, `vfs.c`'s path walk over the tree | `UiProofs` |
| `Windows` | `gui.c`, `mouse.c`, `start_graphics` and `graphics_task` | `UiProofs` |
| `Ui` | which of the three gets a key, what a command does to each | composes `Console`, `Cwd`, `Windows`; `UiProofs` |

Each `MC...` module extends one of these for TLC.  Recursion is written as a local
recursive function (`LET f[k \in S] == ...`), which the provers can reason about.
Definitions that begin
with the words *Seeded mistake* are wrong on purpose: substituted for the
definition that follows them they must make a run fail, which shows that the
property it checks depends on that line of code.

### KHeap

`blocks` is the set of headers on the list; `size`, `is_free`, `next` and `prev`
are the header fields at *every* address, because a header stays in memory after
its block was absorbed and `kfree` reads it on a double free.  `live` and `want`
record what callers hold; `stale` the headers of freed pointers that nobody has
overwritten (`kmalloc` removes those its caller may write to).  `kmalloc` takes
the first block that fits and either splits it or takes it whole;
`kmallocFail` returns 0; `kfree` merges right, then left.  Each runs between
`irq_save` and `irq_restore` and is one action.  Requests close to 2^32, whose
sums would wrap, are outside `HeapAssumption`.

### Pmm

Addresses are frame numbers.  `init_pmm` ranges over every memory map: any total, any
set of available frames.  `alloc_contiguous_frames` is specified by the run it
returns; the loop itself is `Scan`, and `ScanFindsLowest` says that they agree.

### Paging

The frame allocator's state and operations are those of `Pmm`: where the code calls
`alloc_frame`, the action contains `alloc_frame` or `alloc_frame_fails`.
`directory` and `tables` are indexed as the processor does; the kernel reaches a
table at frame `f` through page `Direct(f)` (`f + 0xC0000000`) and therefore
changes the table at `Reached(f)`, whatever frame is mapped there.  `work` names
the loop in progress and `todo` the pages it has left; a turn takes a frame
(`take_frame`) and enters it (`paging_map_memory`, which may need a second frame
for a table).  `oom` records that a caller has used alloc_frame's 0 as a frame,
which none of them tests.  A file is the list of pages its segments cover, in
either half: `elf_load` maps any page and `sbrk` moves the break anywhere, modulo
the address space.  Once pages of the higher half are asked for, where the kernel
itself and its direct map lie, or once `init_paging` has been given frame 0 for the
directory or a table, the machine is not followed any further (`work = "lost"`).
Breaks in the user half are explored within `Breaks`, a bound of the run.
Protection bits, the TLB, what is copied into the pages and the memory map's parts
that no driver of the model uses (frame buffer, E1000, sound) are left out.

### Scheduler

`at[t]` is where a task's own code is (running, at the test of a blocking call,
about to mark itself asleep, about to yield, halted after exit); `if_flag` is IF
of the running code; `isr1` says that IRQ1 is in service; `sleeper` is the task on
whose stack a shell `sleep` waits.  `timer_irq` and `schedule` share
`schedule_internal`, which takes the next task that is not DEAD, asleep or not.
`tick_count` wraps at `TICKS`, and so does the product by which `sleep` turns
milliseconds into ticks (`TicksOf`).  `slept` is a history variable: the timer
interrupts that a sleep has seen.

### DgramSocket

The reader takes a step for every turn of its copy loops; interrupts come between
any two once `schedule()` has set IF.  `buffer_tail` moves with the copy,
`buffer_len` only at its end.  A header is two cells instead of eight bytes.
The scheduler is reduced to what `Scheduler` promises: the reader and the others
take turns.  `Decoded` is the queue that the ring stands for, read from the head
backwards; with it `DgramSocket` implements `DatagramQueue`.

### TcpSocket

The program may connect or listen, then call accept, recv, send and close in any
order it can; `tcp_input` has one action per PCB state.  Transmission of the SYN
and the advance of `snd_nxt` are two steps, because IF is set there; everywhere
else `tcp_send_segment` runs with IF clear and is one.  The host is an
assumption: it follows the standard (segments in order only, ACK for what it
cannot use, data within the window).  With `Unreliable` the network loses,
repeats and reorders segments and the host retransmits.  The bytes the host
sends are numbered, so that a gap or a repetition shows.  `refused` is a history
variable: a segment with data has found the ring without room for it.

### Pafs

An operation changes the cached metadata in one step and leaves its sector
writes, in the code's order, in `pending`; `flush` completes one; `reboot` before
the last one is a power failure, which may fall between any two writes of any
operation, and re-reads the metadata.  `failed` records where it fell.  Two bounds:
one power failure between two formats, and after one inside a delete or a format,
which may leave a block in use unmarked (`Exposed`, section 4), only restarts and
the next format are explored.  `Accounted` and `ListComplete` speak of disks without
a power failure, `BlocksSafe` also of those with one in create or write,
`DiskCurrent` and `FilesKeepData` of all.  File sizes are counted in blocks and
directory sizes in entries.  `written` is a history variable: what completed writes
reported.  Partial blocks (read-modify-write of a block in `pafs_vfs_write`) are not
distinguished from whole ones.

### Sockets

Where `TcpSocket` and `DgramSocket` follow one connection or ring instruction by
instruction, `Sockets` has the tables around them.  A system call is one action,
except for connect and accept, which call `schedule()`: segments arrive between their
parts.  A node or PCB is a heap block; `node_live` and `pcb_live` say which blocks
are allocated, and a freed block keeps its contents until it is given out again, as
`kfree` leaves it.  `sockets[s].tcp_pcb` survives the socket, as in the code, where
neither `socket_close` nor `socket_create` clears it; what is written through it when
its block is free, or 0, is not seen.  `task_exit` drops the descriptors and closes
nothing.  `Outcome` is `tcp_input`'s state machine, `Matches` its lookup; a host is
its IP and port.  A FIN comes with an ACK (`Segments`).  ARP, echo and the one MAC
the kernel remembers are left out.

History variables mark where the code stops keeping its tables apart (section 4):
`accepted` and `shared` are the nodes and slots that accept has given a second
descriptor, `stale` the slots whose PCB `tcp_input` has freed, `abandoned` the nodes
that an exit or a `socket()` without a free descriptor has left without one.

### Console, Cwd, Windows and Ui

`Console` keeps the line, the history and what stands on the screen behind the last
prompt (`term`), with the column, because a backspace does not leave its row.  Keys
arrive whole; `mixed` records what the code does not repair before the next Enter: a
kernel message in the middle of a line, a backspace at the left edge, an arrow key
while a program runs.  `recent` is a history variable: the keys last typed.

`Cwd` has the tree as the path walk sees it, with directories of one block, in which
`pafs_remove_entry` drops the last entry whatever was to be removed (section 4), and
the shell's path and node, which `cd ..` changes one after the other.

`Windows` keeps the list with its pointers.  A click hits the front-most of any set
of windows that may lie under the mouse; positions, labels and buttons are left out.
Any byte may arrive, because bytes get lost.  `gui_render` takes a step per window
and the mouse interrupt comes between any two; `torn` says that the window it was on
has been closed, after which it reads what the heap made of that block.

`Ui` says who gets a key (shell, program, nobody in graphical mode) and what the
commands do to the three parts.

## 3. The runs

| Run | Shows | Bounds |
|---|---|---|
| `kheap` | blocks tile the heap, list consistent, free neighbours merged, callers disjoint, double free seen, `HeapContract` implemented | 40 bytes, header 4, alignment 2, requests 0, 1, 3, 8 |
| `pmm` | count exact, frames accounted for, only usable ones handed out, scan correct | 9 frames, every memory map, runs of 1 to 3 |
| `scheduler` | shell or program owns the keyboard, shell not re-entered, sleeps long enough and returns, nobody starves | 4 tasks, 2 at boot, `tick_count` modulo 8, 2 ticks to 3 milliseconds, sleeps of 1, 3 and 4 milliseconds |
| `dgram` | ring and indices agree, FIFO of whole datagrams, reader returns | ring of 8 cells, packets of 0, 1 and 3 bytes, reads of 0, 2, 4 |
| `tcp` | stream intact until a segment finds the ring full, recv with data and accept with a connection return (`CallsReturn`), PCB given back | ring of 2, 3 bytes from the host, 1 segment from us, reads of 1 and 3 |
| `tcp_lossy` | honest acknowledgements within the ring's bounds, agreed connections, closed sockets left alone, on an unreliable network | ring of 1, 1 byte, 1 repetition, any loss and order |
| `pafs` | blocks have one owner but for the moments `Exposed` names, disk current, data kept, power failures in every operation included; without one, blocks accounted for and directories without gaps | 3 inodes, 3 blocks, 2 slots, 2 entries to a block, 2 inodes to a sector, 2 names and 2 values (interchangeable) |
| `paging` | page tables reachable, frames with one use, programs keep their pages, until memory runs out or the higher half is asked for | 3, 4, 15 or 16 frames, tables of 8, pages of 2 bytes, heap of 3 pages, buffers of 2 frames, programs of 1 and 2 pages, one of them in the higher half |
| `sockets` | descriptors, nodes, slots and PCBs belong to each other, slots are lost in two ways only | 2 descriptors, 2 slots, tables of 1 and of 2 PCBs, 2 nodes and 2 PCB blocks (interchangeable), 1 host, 1 port to bind and 1 of its own |
| `ui` | prompt and line, order of keys, path and directory, list of windows | lines of 2 characters, rows of 3, history of 2, ring of 3 keys, 3 inodes, 2 names, 2 entries to a directory, 3 windows |
| `exited_not_dispatched` | **fails**: a task that exited is dispatched again | as `scheduler` |
| `entry_removed` | **fails**: a delete removes the wrong directory entry | as `pafs` |

*Why the bounds are enough.*  The heap has room for six blocks, so splits, whole
blocks and left, right and double merges all occur with neighbours on both sides.
Nine frames leave room for runs before, between and behind the reserved ones and
behind the search limit.  Four tasks are two kernel tasks and two that the shell
starts, one after another or a program and the graphics task; `tick_count` wraps
within a sleep, and of the three sleeps one is rounded up to a tick, one takes two
ticks and one wraps in the conversion.  The ring of eight cells holds two or three
packets and wraps at every position.  Three bytes through a ring of two fill it, wake
the reader in the middle and are refused when the reader is slow; the unreliable
network multiplies states, so that run has one byte and one repetition, enough for a
late, repeated or overtaking SYN, data or FIN segment.  Three inodes in two sectors
and three blocks make files compete, fill the disk in the middle of a write and put a
directory inside the root.  Sixteen frames are enough to boot, load a program, grow
its heap into a second table and run out of memory in a page and in a table; one
memory map leaves no two free frames in a row, so that the driver's allocations fail;
three or four frames are too few for `init_paging`; the break goes below the heap's
start, where one program has a segment, and beyond the user half.

Two descriptors and two slots fill up, so that sockets and nodes are left behind; a
table of one PCB is full for the second slot, and with a table of two both slots have
a PCB at once, so that a slot keeps a freed block that becomes the other's PCB.
Three characters to a row put the end of a line of two at the left edge; the ring of
three is overrun; three inodes allow a directory within a directory; three windows
have one in the middle.  In `ui` the constraint `Focus` keeps the parts from
multiplying: of a used tree, a used key ring, windows and long lines there is one at
a time.  They share only the keyboard's owner and the command that moves between
them, which every one of them sees.

Type invariants are not properties of their own: each is a conjunct of the first
safety invariant of its module (`ShellOrProgram`, `RingAgrees`, `AcksOnlySent`,
`BlocksSafe`, `TablesReachable`) or of the proved `IInv`.

`MCKHeap.cfg` uses a VIEW: the fields of headers that are not on the list are left
out where `kfree` never reads them.

*Deadlock* is checked except in the TCP runs: there a program that has closed its
socket and a host that is done may really stop.

### Fairness

* The PIT keeps interrupting and its request stays pending while IF is clear:
  strong fairness of `timer_irq`.
* Code that runs with IF clear runs on: weak fairness of a task's steps while
  `if_flag = 0`; strong fairness of the reader's steps in `DgramSocket` and of the
  sleeping command's last test in `Scheduler`, because a time slice is thousands
  of instructions long.
* In `TcpSocket` a call that has begun goes on (that a task is dispatched again is
  `EveryTaskRuns` of `Scheduler`), the card interrupts when a segment is there and
  IF is set again and again, and the host answers.
* Nothing makes a program call, a host send data or a user type.

## 4. Disagreements between the code and its comments

Two are runs of their own, listed as findings in `PROJECT.json`:

* `kernel/net/socket.c:266`: accept, recv and connect can return with
  `waiting_task` still set; after the task's exit the next packet makes it ready,
  and the scheduler, which should "skip the dead ones" (`task.c:123`), runs it.
* `kernel/fs/pafs.c:308`: when the deleted entry and the last one share a block,
  the second write restores the deleted one and erases the other.

Others follow from the models without a run of their own:

* `task.c:127` takes sleeping tasks although its comment speaks of ready ones.
  `socket_accept` relies on it: nothing wakes it when the handshake ends, and with
  sleepers skipped `CallsReturn` fails.
* `socket.c:139`: accept looks at the state only; a connection that is established and
  closed again before its next turn is missed, and accept waits on (`CallsReturn`
  allows it).
* `socket.c:184`: a FIN wakes recv "to see EOF" (`tcp.c:183`), but its loop looks at
  `buffer_len` only, so that recv at end of file never returns.
* `tcp.c:93`: `snd_nxt` is advanced after the transmission, with IF set after
  connect's `schedule()`; a SYN|ACK in between is acknowledged with the SYN's own
  number.
* `socket.c:145`: accept returns the listening node.  Closing both descriptors closes
  the slot twice, the second time through freed memory; a socket made in between is
  closed with it (`DescriptorsSound` and `SlotsAccounted` except such nodes).
* `socket.c:26`, `tcp.c:234`: the slot keeps the PCB that `tcp_input` frees.  The next
  socket in the slot connects or listens with freed memory, which is in no table, or,
  once the block is given out again, with the PCB of another socket: its connect,
  listen or close then changes the other's connection.  That PCB still has one owner
  that it points back to (first part of `PcbOwned`); that its owner is open (second
  part) is not claimed while a slot left behind names it.
* `socket.c:88`: with sixteen PCBs in the table connect and listen write through the
  0 that `tcp_new_pcb` returns.
* `socket.c:240`: the lookup by port does not look at the type, and a datagram for the
  port of a TCP socket is stored in its stream, header included.
* `userland/multi_tcp_test.c:71` says that `_exit` closes all files, `tcp_test.c:87`
  that the VFS takes care of it: `task_exit` closes nothing, and slots, nodes and PCBs
  of a program that does not close them are lost.  So are those of a `socket()` that
  finds no descriptor (`syscall.c:164`), while `open` closes its node in that case.
  `SlotsAccounted` says that nothing else loses a slot.
* `net.c:231`: one MAC serves all hosts.  An answer to a frame reaches its sender,
  because the frame has just set it; what a program sends by itself goes to whoever
  sent a frame last.  No module has the MAC.
* `syscall.c:76`: writes to descriptors 1 and 2 go to the screen, whichever file or
  socket `open` or `socket` has put there.
* `keyboard.c:67`: arrow keys reach the shell's editor while a program runs; the line
  they recall is not shown at the next prompt, and Enter executes it.
* `shell.c:92`: help lists a command `write` that `execute_command` does not have.
* `shell.c:293`: nothing bounds the path text that `cd` appends to.
* `shell.c:207`: after `format` the working directory stays an inode that is free;
  `mkdir` may allocate it and enter it into itself (`CwdResolves` ends there).
* `vfs.c:146` passes 0 for a walk "from vfs_root", and the walk returns 0 for it: no
  relative symbolic link is ever followed.
* `gui.c:270`: a window closed while `gui_render` draws it is read after `kfree`
  (`WindowsSound` excepts that frame).  The widgets of a closed window are not freed.
* `pafs.c:225`: names longer than 27 characters are cut when stored and compared
  whole, so that one can be created twice and never deleted.
* `timer.c:65`: a shell sleep that interrupted a task which has exited is never
  dispatched again and keeps IRQ1 in service (`SleepReturns` excludes it).
* `socket.c:112`: connect gives up after one `schedule()`, although line 109 says
  that it waits for the handshake.
* `tcp.c:222`: nothing leaves TIME_WAIT (or CLOSING), so the PCB stays in the table
  (`ClosedPcbFreed` excludes these).
* `tcp.c:203`: a segment that did not fit is dropped, and skipped when the next one is
  accepted; `StreamIsPrefix` therefore ends at the first segment that finds the ring
  full (`refused`), and needs a network that keeps order.
* `timer.c:61`: `ms * timer_freq` wraps, so that a sleep of more than about twelve
  hours (at 100 ticks a second) is much shorter; `SleepLongEnough` counts the ticks
  that are left after the conversion.
* `rtl8139.c:83`, `vbe.c:100` and `e1000.c`: the drivers map their buffers from
  0xD0000000 on, over the pages through which the kernel reaches the frames from
  256 MB on.  `alloc_frame` says (`pmm.c:108`) that what it hands out below 1 GB is
  mapped at +0xC0000000 and good for page tables; on a machine with more than
  256 MB that is not so for those frames.  `TablesReachable` is stated for less.
* `vbe.c:110`: when the heap has no room for the back buffer, frames from 32 MB on
  are used that were never taken from the allocator, over the pages of the RTL8139.
* `syscall.c:117`: `sbrk` accepts a break below the heap's start; a later growth
  then maps new frames over the program (`HeapKept` excludes it).
* `syscall.c:117`, `elf.c:46`: neither `sbrk` nor `elf_load` refuses pages from
  0xC0000000 on.  A program there replaces the kernel's own mappings, through which it
  also finds its page tables; the properties of `Paging` end at that point.
* `syscall.c:123`, `elf.c:56`, `paging.c:22`, `48` and `126`: the 0 of `alloc_frame`
  is not tested; frame 0 then serves as several pages and tables, or as the
  directory.  The frames of a program that exited are never given back, so this point
  is reached after enough `exec`s.
* `pafs.c:349`: a delete saves the bitmap before the inode that goes.  A power
  failure in between leaves blocks that the inode still holds free in the bitmap, and
  the next write may give them to a second file.  `pafs.c:142`: a format saves its
  new bitmap, through `alloc_block`, before the inodes (`pafs.c:151`), with the same
  effect on every file of the old disk.  `BlocksSafe` excepts these moments
  (`Exposed`).
* `pafs.c:374`: a create lowers `free_inodes` in memory and saves it only if the
  directory gets a new block; after a restart the count is too large.
  `find_free_inode` still finds out that no inode is left, so nothing is refused or
  given twice (`DiskCurrent` and `Accounted` bound the count from below).
* `pafs.c:290`: after a power failure inside a delete the directory's size may be one
  too large, and the next delete takes an empty place for the last entry; after one
  inside a create an entry may name an inode that is still free (`pafs.c:377`).

## 5. The proofs

`tlapm` checks the following for every value of the constants that the named
assumptions allow.

`KHeapProofs` (from `HeapAssumption`).  The inductive invariant is

    IInv == TypeOK /\ Tiled /\ ListInOrder /\ Coalesced /\ LiveOwned /\ DoubleFreeSeen

None of the parts is inductive alone: a merge keeps the tiling only if the list
agrees with it, the list stays in order only because the neighbours it is
spliced between are adjacent blocks, the left merge restores `Coalesced` only
because the block before the left neighbour was in use, and a stale header
survives a split only because `LiveOwned` and the tiling say where new headers
can be.  There is a lemma per shape of the step (`SplitInv`, `TakeWholeInv`,
`CoalesceMerges`, `KfreeInv`), `NextInv` combines them.  `NoOverlap` follows from
the invariant (`OverlapFree`), and the refinement `HeapImplementsContract` from
the invariant and `NoOverlap'` (`StepRefines`): an allocation maps to `Malloc`, a
free to `Free`, a failure and a recognised double free to a stutter.

`PagingProofs`, last part (from `PmmAssumption`): the allocator's own specification
`PmmSpec`, frees included.  The inductive invariant is

    FrameInv == FramesOK /\ CountExact /\ Accounted /\ OwnedUsable

with the library's cardinality theorems for the count: an allocation adds frames that
were clear, which `FreeRun` says, and a free removes one that was set, which
`Accounted` says of an owned frame.  `ScanStaysLowest` is about the loop of
`alloc_contiguous_frames`: after the turn at frame `f`, `current_count` is the length
of the run of free frames that ends there and `start_frame` its first one
(`ScanTail`), so that a count reached is a run (`HitIsRun`) and a run lets the count
be reached at its end or earlier (`RunIsHit`).

`SchedulerProofs` (from `SchedulerAssumption`).  The inductive invariant is

    IInv == ShellOrProgram /\ ProgramsCall /\ DeadHalted /\ SleepsAsShell /\ SleepCounted

`ShellOrProgram` is not inductive: a step of a task might take or give back the
keyboard unless only programs make system calls (`ProgramsCall`) and `DEAD` is the
state of tasks that have exited only (`DeadHalted`).  `ShellNotReentered` rests on
`SleepsAsShell`: while a shell command sleeps inside IRQ1 no program runs, so nobody
calls `schedule()`, whose EOI would end IRQ1.  That is also why `tick_count` counts
true timer interrupts during a sleep (`SleepCounted`, modulo the width of the
counter), from which the action property `SleepLongEnough` follows.

`DgramSocketProofs` (from `DgramAssumption`).  The inductive invariant is

    IInv == TypeOK /\ Progress /\ WholePackets /\ ResultWhole

How far `recvfrom` moves the tail depends on the length it reads from the ring, so
`RingAgrees` holds only if that is the length of a packet: `WholePackets` says that
there is a set of boundaries, counted from the first cell of
the packet that `recvfrom` has not given back, between which lie whole packets, the
reader has passed `Consumed` cells of the first one, and what it has copied is what
stands there.  A dispatch adds a boundary, `recvfrom`'s end drops the first and counts
from the next.  `RingStaysConsistent` and `WholeDatagrams` (what a call returns is the
sender and the first bytes of *one* datagram) follow.

`RingImplementsQueue` is the refinement of `DatagramQueue`.  The ring is read as a
row of cells counted from the head, which does not move when `recvfrom` gives a
packet back.  By `LaidWhole` the packets of the invariant are whole packets of that
row, from which datagrams are decoded that take as many cells as there are
(`WholeDecoded`); a row with one more datagram before its head decodes to the same
queue and that datagram behind it (`Appended`).  So a dispatch is `Arrive`, with the
queue's own test for room (`DispatchArrives`), the end of `recvfrom` is `Receive`
(`FinishReceives`), its beginning `Ask`, and everything in between, the copying
included, a stutter.

`TcpSocketProofs` (from `TcpAssumption`).  On *any* network, one that loses, repeats
and reorders included, the inductive invariant is

    IInv == TypeOK /\ NetTyped /\ PeerSound /\ SegmentsSent /\ AcksSent /\ Handshake
              /\ Copying /\ Closed

What travels was sent (`SegmentsSent`), so that nothing is acknowledged that was not;
an ACK from the host presupposes that it has seen our SYN, which makes `Handshake`
and with it `ConnectionAgreed` inductive; `Closed` says that `tcp_close` leaves the
PCB in a state from which `tcp_input` does not write to the ring, which gives the
action property `NothingAfterClose`.  `StreamInOrder` adds

    SInv == in_use = 1 /\ refused = 0 =>
              Opening /\ DataSegments /\ BytesFollow /\ BytesInOrder

under `Reliable == ~Unreliable`, a network that keeps order: what was read, what is in
the ring and what is on its way are, one after the other, the host's bytes, until a
segment finds the ring full (section 4 says what the code does then).

`SocketsProofs` (from `SocketsAssumption`).  The inductive invariant is

    IInv == FdsTyped /\ TablesTyped /\ CallsTyped /\ DescriptorsSound /\ SlotsNamed
              /\ SharedSlots /\ PcbsLinked /\ PcbsOpen

`SlotsNamed` is `SlotsAccounted` without counting: the nodes of sockets and the slots
in use correspond one to one; the cardinalities follow at the end (`NamedCounted`).
It needs `SharedSlots`: a descriptor whose node is freed, or has a second one, can
close only slots that accept shared, so that no other slot is closed under its node.
`PcbOwned` needs that a PCB and the one slot that has not lost its own to `tcp_input`
point to each other (`PcbsLinked`), which is why a slot in `stale` never becomes an
owner again, and that a PCB in a state `tcp_close` has yet to leave belongs to an
open stream socket, the one connect is about to use included (`PcbsOpen`), because
connect lets segments in between its two halves.

`PafsProofs` (from `PafsAssumption`; `INODES <= MAX_COUNT` says that a count of all
inodes fits its field).  The theorems have no further hypothesis: the power may fail
inside any operation.  The inductive invariant

    IInv  == IF Followed THEN Sound ELSE Broken
    Sound == Typed /\ InProgress /\ MetaArrives /\ Exclusive(mem) /\ Counted(mem)
               /\ InodesSaved /\ (\E D : MemorySound(D))
               /\ (failed = 0 => Exact(mem) /\ InodesCounted)
               /\ (op # NoOp => FilesOnDisk)
               /\ (op.kind \in {"create", "write"} => DiskSound)
               /\ (op.kind = "delete" => DiskAhead)

speaks of two file systems at once.  One is the cached metadata with the data blocks
`D` as the pending writes will leave them: `MetaArrives` and `DataArrives` say that
the last write of each sector carries what memory holds and that whatever is not
pending is on the disk already, from which `DiskCurrent` follows when nothing is
pending.  The other is the disk as it is now, from which a reboot would start: during
create and write it is a part of the first (`DiskBehind`), bitmap and superblock are
written before inodes, and no pending write frees a block that the disk uses
(`WritesSafe`).  During a delete it is the other way round, and the disk's blocks
stay marked until the bitmap is written (`DiskAhead`): one write later `Exposed`
holds.  `BlocksSafe` survives a power failure in create and write because of
`DiskSound`.  Of a disk that a failure in delete or format left (`Broken`) only what
its files hold is kept, which `FilesOnDisk` says at every moment of every operation;
`FilesKeepData` needs no more.  `Accounted` and `ListComplete` need `failed = 0`,
after a failure blocks stay marked in vain.

`UiProofs` (from `ConsoleAssumption`, `CwdAssumption` and `WindowsAssumption`; the
last says that there are finitely many blocks for windows and that the null pointer
is none of them).  Four theorems, about all behaviours of `Ui`:

* `KeysStayInOrder`.  The invariant `RingTyped /\ NewestKept` says that the cells
  before the head hold the keys last typed, read or not, newest first, and that at
  least as many are known as are unread.  It is stated from the head, which moves
  with every key, and not from the tail, which the head may pass: that is why a full
  ring loses a whole round of keys and never mixes them (`KeysInOrder`).
* `PromptStaysTrue`.  `LineInv` adds to the property that the line is empty while a
  program runs and that no cell was left behind at the edge of the screen.  A recalled
  line is erased and written anew character by character (`put_str`), which the proof
  follows from its first turn to its last.
* `CwdStaysResolved`.  That the path still leads to the node after `rm` is seen from
  an order: every inode has a rank, the later it was created the higher
  (`TreeSound`), and an entry leads to a higher rank or to a free inode.  So a
  directory does not lie on its own path, and what `rm` takes from the directory it
  works in lies off the path to it.  One entry breaks the order: after `format` the
  shell may stand in a node that was taken away, and `mkdir` there makes an entry for
  that node in itself.
* `WindowsStaySound`.  `WindowsInv` says that the blocks in use are strung into one
  list (`Strung`: a sequence without repetition whose neighbours are the links), and
  which place in it `graphics_task` has reached (`Drawing`).  Creating, raising and
  destroying a window are shown to make such a list of such a list; `BackToFront` and
  the search for the window under the mouse follow it.

`PagingProofs` (from `PagingAssumption` and `PmmAssumption`).  The inductive
invariant is

    IInv == TypeOK /\ PmmInv /\ Steady /\ TablesOwned /\ BootMap /\ DirectMap /\ PagesOwned

`DirectMap` says that the kernel sees every frame of memory where it looks for it,
through tables that are themselves owned frames; `TablesOwned` that directory and
tables occupy frames of their own (but for frame 0, which a failed allocation stands
for); `PagesOwned` the same of the pages and of the frames in hand that are not
mapped yet.  They need each other: a mapping changes the table it means only if the
table is seen where it is, and leaves the direct map alone only because the pages it
maps lie in other tables or other entries.  During boot `BootMap` counts the tables
made so far.  `TablesStayReachable` has no further hypothesis; the property itself
names the three conditions that the code does not enforce (memory below the drivers'
pages, not run out, no program in the higher half); `FramesStayExclusive` assumes
`BelowDrivers`, that every machine considered is such a one (256 MB in the code);
section 4 says what happens above.  `HeapStaysKept` adds

    HInv == IInv /\ Calls /\ ProgramMapped

(a program's segments and heap are mapped but for what the loop in progress has left,
and `sbrk` has no page on its list that begins below the old break) and assumes with
`HeapAbove` that the heap begins on a page boundary above the programs' segments, as
`task.c:99` and `userland/user.ld` have it.

*Induction over data.*  The library's induction theorems take a predicate as a
parameter, which the installed provers cannot instantiate.  `Least` is used instead:
a set of numbers that is not empty has a least element (`WFMin`).  From it follow
`Counting` (a set with 0 and with every successor has every number) and `Course` (a
loop has a course), and with these what a local recursive function computes: one
shows that some function satisfies its equation, so that the `CHOOSE` behind it does,
and then counts.  The three lemmas are repeated where they are needed, in `UiProofs`,
`DgramSocketProofs` and `PagingProofs`.

*Only model-checked:* liveness (`EveryTaskRuns`, `SleepReturns`, `RecvReturns`,
`CallsReturn`, `ClosedPcbFreed`), which is outside the prover.  Every other property
of a passing run is stated by a theorem.

## 6. What is not modelled

* ext2 and symbolic links: ext2 reads a disk that nothing in the system changes.
* The descriptor rings of the RTL8139 and E1000: half of their protocol is the
  hardware's, which the repository does not describe.
* ARP, ICMP, the kernel's own UDP port and the remembered MAC of `net.c`: an answer
  is built from the frame it answers, and what is kept for later is one address that
  every frame overwrites (section 4).
* `fd_offset` of read and write: a single counter per descriptor, changed by its own
  program only.
* Drawing, fonts, sound, PCI and serial access, the set-up of descriptor tables and
  controllers, the layout and checksums of packets: pure I/O or one-time set-up
  without state that an invariant could relate.
* User programs: clients, which the models let make any calls.

`PROJECT.json` lists every component with its status.

## 7. Plan

1. `Pafs` after a power failure inside a delete or a format, with what still holds
   when blocks in use look free.
2. `Windows` with an abstract sequence of windows that the linked list implements; the
   sequence of the proof (`Strung`) is its state.
3. Larger tables in `sockets`: two hosts at a time.
