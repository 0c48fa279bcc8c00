------------------------------- MODULE Paging --------------------------------
(***************************************************************************)
(* The page tables of kernel/mm/paging.c and their users: init_paging, the *)
(* network driver's buffers, elf_load (kernel/proc/elf.c) and sbrk         *)
(* (kernel/proc/syscall.c), over the frame allocator of Pmm.               *)
(*                                                                         *)
(* There is one page directory for everybody.  The kernel reaches physical *)
(* memory, its page tables included, through the higher half, where        *)
(* init_paging maps frame f at page Direct(f).  The drivers later map      *)
(* their buffers over pages of the same half.                              *)
(*                                                                         *)
(* All of this runs with interrupts off.  A turn of a mapping loop is two  *)
(* steps here, the frame and the entry, so that each is one allocation.    *)
(* Addresses of sbrk are in bytes, PAGE to a page; elsewhere pages are     *)
(* numbered.  Nothing gives frames back: a program's pages stay mapped     *)
(* until the next program's replace them.  What programs write into their  *)
(* pages is left out, so once alloc_frame has failed and frame 0 is used   *)
(* for several things (oom), only the tables' entries are followed.        *)
(*                                                                         *)
(* Neither elf_load nor sbrk refuses pages of the higher half, where the   *)
(* kernel itself is mapped, and init_paging does not test for a lack of    *)
(* memory.  What the machine does after that is not followed: work is then *)
(* "lost".                                                                 *)
(***************************************************************************)
EXTENDS Pmm, Sequences

CONSTANTS
  TABLE,       \* entries in a page table
  DIRECTORY,   \* entries in the page directory
  KERNEL_PDE,  \* the entry the higher half starts with
  RX_PAGE, TX_PAGE,      \* the pages the driver's buffers are mapped at
  RX_FRAMES, TX_FRAMES,  \* their frames
  PAGE,        \* bytes in a page
  HEAP_START,  \* where a program's heap begins
  Programs,    \* executable files: the pages of the segments, in the order loaded
  Increments,  \* what programs pass to sbrk
  Breaks,      \* bound: the breaks in the user half that are explored
  Totals,      \* sizes of physical memory, in frames
  Holes        \* frames that the memory map leaves out

VARIABLES
  kernel_directory,  \* its frame, NONE before init_paging
  directory,  \* page directory: the frame of the table, NONE if not present
  tables,     \* page tables, by frame: the frame of the page, NONE if not present
  work,       \* what is being done: "boot", "rx", "tx", "exec", "sbrk", "idle" or "lost"
  todo,       \* pages still to map
  frame,      \* the frame for the first of them, NONE if not yet allocated
  new_end,    \* local of sbrk, HEAP_START outside it
  program,    \* the program loaded or running, <<>> for none
  heap_end,   \* of its TCB, HEAP_START when there is none
  oom         \* 1 when alloc_frame has returned 0, which its callers do not test

pageVars == <<kernel_directory, directory, tables>>
vars == <<pmmVars, pageVars, work, todo, frame, new_end, program, heap_end, oom>>

NONE == -1
Virtual == 0 .. DIRECTORY * TABLE - 1
UserPages == 0 .. KERNEL_PDE * TABLE - 1
UserEnd == KERNEL_PDE * TABLE * PAGE
Space == DIRECTORY * TABLE * PAGE
Window == (RX_PAGE .. RX_PAGE + RX_FRAMES - 1) \union (TX_PAGE .. TX_PAGE + TX_FRAMES - 1)

ASSUME PagingAssumption ==
  /\ {TABLE, PAGE} \subseteq Nat \ {0}
  /\ DIRECTORY \in Nat /\ KERNEL_PDE \in 1 .. DIRECTORY - 1
  /\ {RX_PAGE, TX_PAGE} \subseteq Nat /\ RX_PAGE <= TX_PAGE
  /\ {RX_FRAMES, TX_FRAMES} \subseteq Counts \intersect 1 .. MAX_FRAMES
  /\ Window \subseteq Virtual \ UserPages
  /\ HEAP_START \in 0 .. UserEnd
  /\ Increments \subseteq Int \ {0}
  /\ Programs \subseteq Seq(Virtual) \ {<<>>}
  /\ Totals \subseteq 0 .. MAX_FRAMES

\* How the processor translates a page.
Present(v) ==
  /\ directory[v \div TABLE] # NONE
  /\ tables[directory[v \div TABLE]][v % TABLE] # NONE
Translated(v) == tables[directory[v \div TABLE]][v % TABLE]

\* Where the kernel sees a frame, and the frame it really finds there.
Direct(f) == KERNEL_PDE * TABLE + f
Reached(f) == Translated(Direct(f))

NoTable == [j \in 0 .. TABLE - 1 |-> NONE]

\* The pages from..to - 1 as the order a loop visits them in.
InOrder(from, to) ==
  IF from < to THEN [i \in 1 .. to - from |-> from + i - 1] ELSE <<>>

-----------------------------------------------------------------------------
Init ==
  /\ total_frames \in Totals
  /\ available \in {Below(total_frames) \ h : h \in Holes}
  /\ init_pmm
  /\ kernel_directory = NONE
  /\ directory = [d \in 0 .. DIRECTORY - 1 |-> NONE]
  /\ tables = [f \in Frames |-> NoTable]
  /\ work = "boot"
  /\ todo = <<>>
  /\ frame = NONE
  /\ new_end = HEAP_START
  /\ program = <<>>
  /\ heap_end = HEAP_START
  /\ oom = 0

\* alloc_frame as its callers see it: a frame that nobody has, or 0.
Gets(f) ==
  \/ alloc_frame /\ f \in owned' \ owned /\ UNCHANGED oom
  \/ alloc_frame_fails /\ f = 0 /\ oom' = 1

\* What is not followed.
Lost == work' = "lost" /\ UNCHANGED <<pageVars, todo, frame, new_end, program, heap_end>>

\* init_paging: a frame for the directory, ...
init_directory ==
  /\ work = "boot" /\ kernel_directory = NONE
  /\ \E f \in Frames :
       /\ Gets(f)
       /\ \/ f = 0 /\ Lost
          \/ /\ f # 0 /\ kernel_directory' = f
             /\ UNCHANGED <<directory, tables, work, todo, frame, new_end, program, heap_end>>

\* Seeded mistake: the first frame of a table is counted from its last entry.
DirectTableShifted(i) ==
  [j \in 0 .. TABLE - 1 |->
     IF i * (TABLE - 1) + j < total_frames THEN i * (TABLE - 1) + j ELSE NONE]

\* The i-th table of the higher half.
DirectTable(i) ==
  [j \in 0 .. TABLE - 1 |->
     IF i * TABLE + j < total_frames THEN i * TABLE + j ELSE NONE]

num_tables == (total_frames + TABLE - 1) \div TABLE
\* ... then a table for each 4 MB of memory, as far as the directory reaches.
TablesMade == Cardinality({d \in 0 .. DIRECTORY - 1 : directory[d] # NONE})
Booted == TablesMade = num_tables \/ KERNEL_PDE + TablesMade = DIRECTORY

init_table ==
  /\ work = "boot" /\ kernel_directory # NONE /\ ~Booted
  /\ \E f \in Frames :
       /\ Gets(f)
       /\ \/ f = 0 /\ Lost
          \/ /\ f # 0
             /\ directory' = [directory EXCEPT ![KERNEL_PDE + TablesMade] = f]
             /\ tables' = [tables EXCEPT ![f] = DirectTable(TablesMade)]
             /\ UNCHANGED <<kernel_directory, work, todo, frame, new_end, program, heap_end>>

\* init_rtl8139: contiguous frames for the receive buffer are mapped over its
\* pages, then the same for the transmit buffer.  A 0 is not tested here either.
Buffer(count, page) ==
  /\ \/ /\ alloc_contiguous_frames(count)
        /\ frame' \in owned' \ owned /\ \A f \in owned' \ owned : frame' <= f
        /\ UNCHANGED oom
     \/ /\ alloc_contiguous_fails(count)
        /\ frame' = 0 /\ oom' = 1
  /\ todo' = InOrder(page, page + count)
  /\ UNCHANGED <<pageVars, new_end, program, heap_end>>

Finished(w) == work = w /\ todo = <<>>

init_rx ==
  /\ work = "boot" /\ kernel_directory # NONE /\ Booted
  /\ Buffer(RX_FRAMES, RX_PAGE)
  /\ work' = "rx"

init_tx ==
  /\ Finished("rx")
  /\ Buffer(TX_FRAMES, TX_PAGE)
  /\ work' = "tx"

init_done ==
  /\ Finished("tx")
  /\ work' = "idle" /\ frame' = NONE
  /\ UNCHANGED <<pmmVars, pageVars, todo, new_end, program, heap_end, oom>>

-----------------------------------------------------------------------------
\* elf_load and sbrk: the frame for the next page.
take_frame ==
  /\ todo # <<>> /\ frame = NONE
  /\ \E f \in Frames : Gets(f) /\ frame' = f
  /\ UNCHANGED <<pageVars, work, todo, new_end, program, heap_end>>

\* Seeded mistake: the next page gets the same frame.
NextFrameSame == IF work \in {"rx", "tx"} THEN frame + 1 ELSE frame

\* The frame of the page after this one: the driver's follow each other.
NextFrame == IF work \in {"rx", "tx"} THEN frame + 1 ELSE NONE

\* A turn of the loop of paging_map_memory.  A table that is not present is made;
\* the kernel writes to a table where it sees it, at Direct(table).
paging_map_memory ==
  /\ todo # <<>> /\ frame # NONE
  /\ LET d == Head(todo) \div TABLE
         j == Head(todo) % TABLE
     IN \/ /\ directory[d] # NONE
           /\ tables' = [tables EXCEPT ![Reached(directory[d])][j] = frame]
           /\ UNCHANGED <<pmmVars, directory, oom>>
        \/ /\ directory[d] = NONE
           /\ \E f \in Frames :
                /\ Gets(f)
                /\ directory' = [directory EXCEPT ![d] = f]
                /\ tables' = [tables EXCEPT ![Reached(f)] = [NoTable EXCEPT ![j] = frame]]
  /\ todo' = Tail(todo)
  /\ frame' = NextFrame
  /\ UNCHANGED <<kernel_directory, work, new_end, program, heap_end>>

-----------------------------------------------------------------------------
\* The shell's exec, while no program runs: elf_load maps the segments' pages, ...
elf_load(pages) ==
  /\ work = "idle" /\ program = <<>>
  /\ \/ pages \notin Seq(UserPages) /\ Lost
     \/ /\ pages \in Seq(UserPages)
        /\ work' = "exec"
        /\ program' = pages
        /\ todo' = pages
        /\ UNCHANGED <<pageVars, frame, new_end, heap_end>>
  /\ UNCHANGED <<pmmVars, oom>>

\* ... and create_task sets the new task's break.
create_task ==
  /\ Finished("exec")
  /\ work' = "idle"
  /\ heap_end' = HEAP_START
  /\ UNCHANGED <<pmmVars, pageVars, todo, frame, new_end, program, oom>>

\* The TCB, and its break with it, is dropped; the pages stay.
task_exit ==
  /\ work = "idle" /\ program # <<>>
  /\ program' = <<>>
  /\ heap_end' = HEAP_START
  /\ UNCHANGED <<pmmVars, pageVars, work, todo, frame, new_end, oom>>

\* Seeded mistake: the page of the old break is mapped again.
old_page_down == heap_end \div PAGE

\* The pages before a break, the one it lies in included.
old_page == (heap_end + PAGE - 1) \div PAGE
new_page(end) == (end + PAGE - 1) \div PAGE

\* sbrk moves the break, in either direction and modulo the address space, and maps
\* the pages it passes.
sys_sbrk(increment) ==
  /\ work = "idle" /\ program # <<>>
  /\ LET end == (heap_end + increment) % Space IN
     \/ end > UserEnd /\ Lost
     \/ /\ end <= UserEnd /\ end \in Breaks
        /\ work' = "sbrk"
        /\ new_end' = end
        /\ todo' = InOrder(old_page, new_page(end))
        /\ UNCHANGED <<pageVars, frame, program, heap_end>>
  /\ UNCHANGED <<pmmVars, oom>>

sbrk_done ==
  /\ Finished("sbrk")
  /\ work' = "idle"
  /\ heap_end' = new_end
  /\ new_end' = HEAP_START
  /\ UNCHANGED <<pmmVars, pageVars, todo, frame, program, oom>>

\* Nothing more is followed.
lost == work = "lost" /\ UNCHANGED vars

Next ==
  \/ init_directory \/ init_table \/ init_rx \/ init_tx \/ init_done
  \/ take_frame \/ paging_map_memory
  \/ \E pages \in Programs : elf_load(pages)
  \/ create_task \/ task_exit
  \/ \E increment \in Increments : sys_sbrk(increment)
  \/ sbrk_done
  \/ lost

Spec == Init /\ [][Next]_vars

-----------------------------------------------------------------------------
\* Entries hold frames of the machine, and the loops that are followed map pages of
\* the driver's window or of the user half.
TypeOK ==
  /\ kernel_directory \in Frames \union {NONE}
  /\ directory \in [0 .. DIRECTORY - 1 -> Frames \union {NONE}]
  /\ tables \in [Frames -> [0 .. TABLE - 1 -> Frames \union {NONE}]]
  /\ work \in {"boot", "rx", "tx", "exec", "sbrk", "idle", "lost"}
  /\ todo \in Seq(IF work \in {"rx", "tx"} THEN Window ELSE UserPages)
  /\ frame \in 0 .. MAX_FRAMES \union {NONE}
  /\ {new_end, heap_end} \subseteq 0 .. UserEnd
  /\ program \in (Programs \intersect Seq(UserPages)) \union {<<>>}
  /\ oom \in {0, 1}

\* The frames that hold the directory and the page tables.
Structures ==
  {kernel_directory} \union {directory[d] : d \in {e \in 0 .. DIRECTORY - 1 : directory[e] # NONE}}

\* Once init_paging is done, the kernel finds the directory and every page table,
\* those made later included, where it looks for them (entry + 0xC0000000 in
\* paging_map_memory): nothing mapped since hides them.  The code does not ensure what
\* this rests on: memory ends below the drivers' pages in the higher half, has not run
\* out, and no program has asked for pages of the higher half.
TablesReachable ==
  /\ TypeOK
  /\ /\ work \notin {"boot", "lost"} /\ oom = 0
     /\ KERNEL_PDE * TABLE + total_frames <= RX_PAGE
     =>
       \A f \in Structures : Present(Direct(f)) /\ Reached(f) = f

\* What a frame serves as.
Uses(f) ==
  (IF f = kernel_directory THEN {<<"directory", 0>>} ELSE {})
  \union {<<"table", d>> : d \in {e \in 0 .. DIRECTORY - 1 : directory[e] = f}}
  \union {<<"page", v>> : v \in {u \in UserPages \union Window : Present(u) /\ Translated(u) = f}}
  \union (IF todo # <<>> /\ frame = f THEN {<<"next", 0>>} ELSE {})

\* As long as alloc_frame has found memory, a frame is the directory, or one page
\* table, or one page of a program or of the driver's buffers, and never two of
\* these, across programs that replace each other's pages and breaks that move
\* down and up; and it is a frame the allocator has handed out.
FramesExclusive ==
  oom = 0 /\ work # "lost" => \A f \in Frames :
    /\ Cardinality(Uses(f)) <= 1
    /\ Uses(f) # {} => f \in owned

\* The pages a running program may use: its segments and what lies below its break.
ProgramPages ==
  {program[i] : i \in DOMAIN program} \union
  {v \in UserPages : HEAP_START \div PAGE <= v /\ v * PAGE < heap_end}

\* While a program runs, sbrk never takes away or replaces a page it already has
\* (the rounding of old_page leaves the page the break lies in alone), unless
\* memory has run out, or the program has moved its break below the heap's start or
\* beyond the user half, which sys_sbrk does not refuse.
HeapKept ==
  [][(program # <<>> /\ work # "exec" /\ program' = program /\ work' # "lost"
       /\ oom' = 0 /\ heap_end >= HEAP_START) =>
       \A v \in ProgramPages : Present(v) /\ Present(v)' /\ Translated(v)' = Translated(v)]_vars
=============================================================================
