-------------------------------- MODULE Pafs ---------------------------------
(***************************************************************************)
(* The file system of kernel/fs/pafs.c: superblock, inode table and block  *)
(* bitmap, cached in memory and saved sector by sector, and directories    *)
(* and files in the data blocks.                                           *)
(*                                                                         *)
(* An operation holds pafs_lock with interrupts off, so that only a power  *)
(* failure can interrupt it.  It changes the cached metadata at once and   *)
(* leaves its sector writes, in the code's order and each with the content *)
(* the sector has in memory at that moment, in "pending"; "flush" is the   *)
(* drive completing one of them (ata_write_sector flushes each write).     *)
(* No operation starts before the writes of the one before it are done.    *)
(*                                                                         *)
(* A file's size is counted in blocks, a directory's in entries.  A data   *)
(* block is a sequence of cells: directory entries, or copies of the value *)
(* that was written to it.  Operations that return an error change nothing *)
(* and are not steps.                                                      *)
(***************************************************************************)
EXTENDS Integers, Sequences, FiniteSets

CONSTANTS
  INODES,      \* PAFS_MAX_INODES
  BLOCKS,      \* data blocks; their numbers are 1 .. BLOCKS
  SLOTS,       \* block numbers in an inode, 14 in the code
  PER_BLOCK,   \* directory entries in a block
  PER_SECTOR,  \* inodes in a sector
  Names,
  Values,      \* what programs write to a block
  MAX_COUNT    \* bound: the largest free_inodes that is explored

ASSUME PafsAssumption ==
  /\ {INODES, BLOCKS, SLOTS, PER_BLOCK, PER_SECTOR, MAX_COUNT} \subseteq Nat \ {0}
  /\ INODES <= MAX_COUNT
  /\ 0 \notin Values

VARIABLES
  mem,      \* cached metadata
  disk,     \* metadata on the disk
  data,     \* data blocks on the disk
  op,       \* the operation in progress, and the inode it is for
  pending,  \* its sector writes that are still to come
  written,  \* what completed writes put in each slot of a file; 0: nothing
  failed    \* where the power failed since the last format: 0 in no operation,
            \* 1 inside create or write, 2 inside delete or format

vars == <<mem, disk, data, op, pending, written, failed>>

Inodes == 0 .. INODES - 1
Blocks == 1 .. BLOCKS
Slots == 1 .. SLOTS
Cells == 1 .. PER_BLOCK
Root == 0

Empty == [inode |-> 0, name |-> ""]
Zeroed == [j \in Cells |-> Empty]
FileBlock(v) == [j \in Cells |-> [inode |-> v, name |-> "data"]]
NoBlocks == [k \in Slots |-> 0]
NoOp == [kind |-> "none", ino |-> Root]
Smallest(S) == CHOOSE x \in S : \A y \in S : x <= y

-----------------------------------------------------------------------------
\* What the sector writes carry.
WriteSuper(m) == [to |-> "super", free_blocks |-> m.free_blocks,
                  free_inodes |-> m.free_inodes]
WriteBitmap(m) == [to |-> "bitmap", bitmap |-> m.bitmap]
WriteInode(m, ino) == [to |-> "inodes", sector |-> ino \div PER_SECTOR,
                       type |-> m.type, size |-> m.size, blocks |-> m.blocks]
WriteData(b, cells) == [to |-> "data", block |-> b, cells |-> cells]

\* The metadata on the disk after a sector write; an inode write replaces all the
\* inodes that share the sector.
Stored(d, w) ==
  CASE w.to = "super"  -> [d EXCEPT !.free_blocks = w.free_blocks,
                                    !.free_inodes = w.free_inodes]
    [] w.to = "bitmap" -> [d EXCEPT !.bitmap = w.bitmap]
    [] w.to = "inodes" ->
         LET Mix(old, new) == [i \in Inodes |-> IF i \div PER_SECTOR = w.sector
                                                THEN new[i] ELSE old[i]]
         IN  [d EXCEPT !.type = Mix(d.type, w.type), !.size = Mix(d.size, w.size),
                       !.blocks = Mix(d.blocks, w.blocks)]
    [] w.to = "data"   -> d

\* pafs_format: everything free but the root directory and its first block.
Formatted ==
  [type |-> [i \in Inodes |-> IF i = Root THEN "dir" ELSE "free"],
   size |-> [i \in Inodes |-> 0],
   blocks |-> [i \in Inodes |-> IF i = Root THEN [NoBlocks EXCEPT ![1] = 1] ELSE NoBlocks],
   bitmap |-> [b \in Blocks |-> IF b = 1 THEN 1 ELSE 0],
   free_blocks |-> BLOCKS - 1,
   free_inodes |-> INODES - 1]

\* A freshly formatted disk.
Init ==
  /\ mem = Formatted
  /\ disk = Formatted
  /\ data = [b \in Blocks |-> Zeroed]
  /\ op = NoOp
  /\ pending = <<>>
  /\ written = [i \in Inodes |-> NoBlocks]
  /\ failed = 0

-----------------------------------------------------------------------------
Idle == op = NoOp

\* Bound: after a power failure inside delete or format, where a block in use can be
\* left unmarked, only restarts and the next format are explored.
Followed == failed # 2

\* An operation that leaves the cached metadata m and makes the sector writes w.
Begin(kind, ino, m, w) ==
  /\ op' = [kind |-> kind, ino |-> ino]
  /\ mem' = m
  /\ pending' = w
  /\ UNCHANGED <<disk, data>>

FreeBlocks(m) == {b \in Blocks : m.bitmap[b] = 0}

\* Seeded mistake: the superblock's count stays.
AllocatedUncounted(m, b) == [m EXCEPT !.bitmap[b] = 1]

\* alloc_block takes the lowest free block and saves the bitmap and the superblock.
Allocated(m, b) ==
  [m EXCEPT !.bitmap[b] = 1, !.free_blocks = m.free_blocks - 1]

\* Seeded mistake: the bitmap is not saved.
AllocWritesSuper(m) == <<WriteSuper(m)>>

AllocWrites(m) == <<WriteBitmap(m), WriteSuper(m)>>

\* The cells of a directory, in the order the code visits them; a block number 0
\* ends a search.
Places == Slots \X Cells
Before(p, q) == p[1] < q[1] \/ (p[1] = q[1] /\ p[2] < q[2])
FirstOf(S) == CHOOSE p \in S : \A q \in S : ~Before(q, p)
EntryAt(dir, p) ==
  IF mem.blocks[dir][p[1]] = 0 THEN Empty ELSE data[mem.blocks[dir][p[1]]][p[2]]

\* pafs_find_entry finds nothing in a directory of size 0.
Matches(dir, name) ==
  {p \in Places : /\ mem.type[dir] = "dir" /\ mem.size[dir] # 0
                  /\ EntryAt(dir, p).inode # 0
                  /\ EntryAt(dir, p).name = name
                  /\ \A k \in 1 .. p[1] : mem.blocks[dir][k] # 0}

\* Where pafs_add_entry puts an entry: the first empty cell of a block the
\* directory has, or the first cell of the block it gets for an empty slot.
FreePlaces(dir) == {p \in Places : EntryAt(dir, p).inode = 0}

\* find_free_inode
FreeInodes(m) == {i \in Inodes : m.type[i] = "free"}

\* Inode ino as pafs_create sets it up, with the superblock's count.
NewInode(ino, is_dir) ==
  [mem EXCEPT !.type[ino] = IF is_dir THEN "dir" ELSE "file",
              !.size[ino] = 0, !.blocks[ino] = NoBlocks,
              !.free_inodes = mem.free_inodes - 1]

\* The size of a directory after an entry is added.
Grown(size) == size + 1

\* pafs_create with pafs_add_entry, and with "after" more saves of the new inode.
\* The superblock is saved only with a new directory block.
Create(dir, name, is_dir, after) ==
  /\ Idle /\ Followed
  /\ mem.type[dir] = "dir" /\ mem.free_inodes # 0
  /\ Matches(dir, name) = {}
  /\ FreeInodes(mem) # {} /\ FreePlaces(dir) # {}
  /\ LET new == Smallest(FreeInodes(mem))
         p == FirstOf(FreePlaces(dir))
         grows == mem.blocks[dir][p[1]] = 0
         b == IF grows THEN Smallest(FreeBlocks(mem)) ELSE mem.blocks[dir][p[1]]
         m1 == IF grows THEN Allocated(NewInode(new, is_dir), b) ELSE NewInode(new, is_dir)
         m2 == [m1 EXCEPT !.blocks[dir][p[1]] = b, !.size[dir] = Grown(mem.size[dir])]
         old == IF grows THEN Zeroed ELSE data[b]
     IN /\ grows => FreeBlocks(mem) # {}
        /\ Begin("create", new, m2,
                 (IF grows THEN Append(AllocWrites(m1), WriteData(b, Zeroed)) ELSE <<>>)
                 \o <<WriteData(b, [old EXCEPT ![p[2]] = [inode |-> new, name |-> name]]),
                      WriteInode(m2, dir)>>
                 \o [i \in 1 .. 1 + after |-> WriteInode(m2, new)])
        /\ written' = [written EXCEPT ![new] = NoBlocks]
        /\ UNCHANGED failed

\* The shell's touch and mkdir commands.
pafs_create(dir, name, is_dir) == Create(dir, name, is_dir, 0)

\* sys_open with O_CREAT of a name that is not there: pafs_write of no bytes creates
\* the file in the root directory and saves its inode once more.
pafs_write(name) == Create(Root, name, FALSE, 1)

-----------------------------------------------------------------------------
\* pafs_delete frees the inode and its blocks in memory; ...
Bitmap(own) == [b \in Blocks |-> IF b \in own THEN 0 ELSE mem.bitmap[b]]

Freed(ino) ==
  LET own == {mem.blocks[ino][k] : k \in Slots} \ {0}
  IN [mem EXCEPT !.type[ino] = "free", !.size[ino] = 0, !.blocks[ino] = NoBlocks,
                 !.bitmap = Bitmap(own),
                 !.free_blocks = mem.free_blocks
                                 + Cardinality({k \in Slots : mem.blocks[ino][k] # 0}),
                 !.free_inodes = mem.free_inodes + 1]

\* ... pafs_remove_entry moves the directory's last entry, found from the size, into
\* the place of the one that goes.  Both blocks are read before either is written.  The
\* code does not test that the last entry has a block; the first "size" places of a
\* directory always hold entries, so that it has one.
LastPlace(dir) ==
  LET l == mem.size[dir] - 1 IN <<(l \div PER_BLOCK) + 1, (l % PER_BLOCK) + 1>>

\* Seeded mistake: the entry is cleared where it is and leaves a gap.
RemoveWritesGap(dir, target) ==
  LET tb == mem.blocks[dir][target[1]]
  IN <<WriteData(tb, [data[tb] EXCEPT ![target[2]] = Empty])>>

RemoveWrites(dir, target) ==
  LET last == LastPlace(dir)
      tb == mem.blocks[dir][target[1]]
      lb == mem.blocks[dir][last[1]]
  IN (IF target # last
        THEN <<WriteData(tb, [data[tb] EXCEPT ![target[2]] = data[lb][last[2]]])>>
        ELSE <<>>)
     \o <<WriteData(lb, [data[lb] EXCEPT ![last[2]] = Empty])>>

\* The size of a directory after an entry is removed.
Shrunk(size) == size - 1

\* A directory must be empty to go.
Deletable(ino) == ~(mem.type[ino] = "dir" /\ mem.size[ino] # 0)

\* The directory's inode is saved first and the bitmap before the inode that goes.
pafs_delete(dir, name) ==
  /\ Idle /\ Followed
  /\ Matches(dir, name) # {}
  /\ mem.free_inodes < MAX_COUNT
  /\ LET p == FirstOf(Matches(dir, name))
         ino == EntryAt(dir, p).inode
         m == [Freed(ino) EXCEPT !.size[dir] = Shrunk(mem.size[dir])]
     IN /\ Deletable(ino)
        /\ Begin("delete", ino, m,
                 RemoveWrites(dir, p)
                 \o <<WriteInode(m, dir), WriteSuper(m), WriteBitmap(m), WriteInode(m, ino)>>)
        /\ written' = [written EXCEPT ![ino] = NoBlocks]
        /\ UNCHANGED failed

-----------------------------------------------------------------------------
\* Seeded mistake: a write in the middle cuts the file.
SizeCut(size, k) == k

\* The size of a file after a write that ends with slot k.
SizeAfter(size, k) == IF k > size THEN k ELSE size

\* A turn of the loop of pafs_vfs_write: slot k of inode ino gets a block if it has
\* none and value v is written to it.  s.on: the loop has not been left.
WriteBlock(s, ino, k, v) ==
  LET new == s.m.blocks[ino][k] = 0
      b == IF new THEN Smallest(FreeBlocks(s.m)) ELSE s.m.blocks[ino][k]
      m == IF new THEN Allocated(s.m, b) ELSE s.m
  IN IF k > SLOTS \/ ~s.on \/ (new /\ FreeBlocks(s.m) = {}) THEN [s EXCEPT !.on = FALSE]
     ELSE [m |-> [m EXCEPT !.blocks[ino][k] = b, !.size[ino] = SizeAfter(@, k)],
           w |-> s.w \o (IF new THEN AllocWrites(m) ELSE <<>>) \o <<WriteData(b, FileBlock(v))>>,
           done |-> s.done \cup {k},
           on |-> TRUE]

WriteLoop(ino, offset, count, v) ==
  LET S[k \in offset .. offset + count] ==
        IF k = offset THEN [m |-> mem, w |-> <<>>, done |-> {}, on |-> TRUE]
        ELSE WriteBlock(S[k - 1], ino, k, v)
  IN S[offset + count]

\* Seeded mistake: the inode is not saved.
WriteEndUnsaved(m, ino) == <<WriteSuper(m)>>

\* The saves that end pafs_vfs_write.
WriteEnd(m, ino) == <<WriteInode(m, ino)>>

\* pafs_vfs_write of count blocks at an offset that a sequential writer can have
\* reached.
pafs_vfs_write(ino, offset, count, v) ==
  /\ Idle /\ Followed
  /\ mem.type[ino] = "file" /\ offset <= mem.size[ino]
  /\ LET s == WriteLoop(ino, offset, count, v) IN
     /\ Begin("write", ino, s.m, s.w \o WriteEnd(s.m, ino))
     /\ written' = [written EXCEPT ![ino] =
                      [k \in Slots |-> IF k \in s.done THEN v ELSE @[k]]]
     /\ UNCHANGED failed

\* pafs_vfs_read of count blocks: what the caller's buffer gets.  A slot without a
\* block reads sector 0, the superblock, which is no file's data.
pafs_vfs_read(ino, offset, count) ==
  LET end == Smallest({offset + count, mem.size[ino], SLOTS})
      Sector(b) == IF b = 0 THEN Zeroed ELSE data[b]
  IN IF mem.type[ino] # "file" \/ offset >= mem.size[ino] THEN <<>>
     ELSE [n \in 1 .. end - offset |-> Sector(mem.blocks[ino][offset + n])]

\* pafs_vfs_readdir: the entry at an index, Empty where it returns 0.
pafs_vfs_readdir(dir, index) ==
  LET p == <<(index \div PER_BLOCK) + 1, (index % PER_BLOCK) + 1>>
  IN IF mem.type[dir] # "dir" \/ mem.size[dir] = 0 \/ p \notin Places THEN Empty
     ELSE EntryAt(dir, p)

\* What the shell's ls command lists: the entries up to the first index without one.
ls(dir) ==
  {pafs_vfs_readdir(dir, i) : i \in {i \in 0 .. SLOTS * PER_BLOCK - 1 :
     \A j \in 0 .. i : pafs_vfs_readdir(dir, j).inode # 0}}

\* The shell's format command: the superblock and the bitmap are saved when the
\* root's block is allocated, then again with the inodes.
pafs_format ==
  /\ Idle
  /\ LET m == [Formatted EXCEPT !.free_inodes = INODES] IN
     Begin("format", Root, Formatted,
           AllocWrites(m) \o <<WriteData(1, Zeroed), WriteSuper(Formatted)>>
           \o [s \in 1 .. ((INODES - 1) \div PER_SECTOR) + 1 |->
                 WriteInode(Formatted, (s - 1) * PER_SECTOR)]
           \o <<WriteBitmap(Formatted)>>)
  /\ written' = [i \in Inodes |-> NoBlocks]
  /\ failed' = 0

\* The drive completes a sector write; after the last one the operation returns.
flush ==
  /\ pending # <<>>
  /\ disk' = Stored(disk, Head(pending))
  /\ data' = IF Head(pending).to = "data"
             THEN [data EXCEPT ![Head(pending).block] = Head(pending).cells] ELSE data
  /\ pending' = Tail(pending)
  /\ op' = IF Len(pending) = 1 THEN NoOp ELSE op
  /\ UNCHANGED <<mem, written, failed>>

\* Shutdown or power failure, then pafs_init: the metadata is read from the disk.
\* What an interrupted operation wrote to its file may or may not be there.  Bound:
\* one power failure between two formats.
reboot ==
  /\ Idle \/ failed = 0
  /\ mem' = disk
  /\ pending' = <<>>
  /\ op' = NoOp
  /\ written' = IF Idle THEN written ELSE [written EXCEPT ![op.ino] = NoBlocks]
  /\ failed' = IF Idle THEN failed ELSE IF op.kind \in {"create", "write"} THEN 1 ELSE 2
  /\ UNCHANGED <<disk, data>>

Next ==
  \/ \E dir \in Inodes, name \in Names, is_dir \in BOOLEAN : pafs_create(dir, name, is_dir)
  \/ \E name \in Names : pafs_write(name)
  \/ \E dir \in Inodes, name \in Names : pafs_delete(dir, name)
  \/ \E ino \in Inodes, offset \in 0 .. SLOTS, count \in 1 .. 2, v \in Values :
       pafs_vfs_write(ino, offset, count, v)
  \/ pafs_format
  \/ flush
  \/ reboot

Spec == Init /\ [][Next]_vars

-----------------------------------------------------------------------------
\* Metadata is well-typed in memory and on the disk; the free block count never
\* passes its ends.
Metadata ==
  [type : [Inodes -> {"free", "file", "dir"}],
   size : [Inodes -> 0 .. SLOTS * PER_BLOCK],
   blocks : [Inodes -> [Slots -> Blocks \cup {0}]],
   bitmap : [Blocks -> {0, 1}],
   free_blocks : 0 .. BLOCKS,
   free_inodes : 0 .. MAX_COUNT]

TypeOK ==
  /\ mem \in Metadata
  /\ disk \in Metadata
  /\ data \in [Blocks -> [Cells -> [inode : Inodes \cup Values, name : Names \cup {"", "data"}]]]
  /\ op.ino \in Inodes
  /\ failed \in 0 .. 2
  /\ written \in [Inodes -> [Slots -> Values \cup {0}]]

\* The (inode, slot) pairs that hold block b.
Owners(m, b) == {o \in Inodes \X Slots : m.type[o[1]] # "free" /\ m.blocks[o[1]][o[2]] = b}

\* No block has two owners, or one while the bitmap gives it away: alloc_block could
\* then hand one file's block to another.
Safe(m) ==
  \A b \in Blocks : /\ Cardinality(Owners(m, b)) <= 1
                    /\ Owners(m, b) # {} => m.bitmap[b] = 1

\* The moments at which the disk is not safe: pafs_delete has saved the bitmap and not
\* yet the inode that goes, and pafs_format saves a new bitmap over the old inodes.
Exposed == op.kind = "format" \/ (op.kind = "delete" /\ Len(pending) = 1)

\* The blocks are safe in memory, and on the disk at every moment at which the power
\* may fail, so that pafs_init starts from a safe disk, but for the moments that
\* Exposed names (and what follows a power failure in delete or format).
BlocksSafe ==
  /\ TypeOK
  /\ Followed => Safe(mem)
  /\ Followed /\ ~Exposed => Safe(disk)

\* Unless the power failed inside an operation nothing leaks either, and a format
\* gives back what leaked: the bitmap marks exactly the blocks in use, free_blocks
\* counts the others, and free_inodes never refuses a create that an inode is left
\* for.
Accounted == failed = 0 =>
  /\ \A b \in Blocks : mem.bitmap[b] = Cardinality(Owners(mem, b))
  /\ mem.free_blocks = Cardinality(FreeBlocks(mem))
  /\ mem.free_inodes >= Cardinality(FreeInodes(mem))

\* When an operation has returned, the disk has its inodes, its bitmap and its count of
\* free blocks.  The count of free inodes is saved only with a new directory block:
\* a restart may find a larger one, never one that refuses a create.
DiskCurrent ==
  Idle => /\ disk.type = mem.type /\ disk.size = mem.size /\ disk.blocks = mem.blocks
          /\ disk.bitmap = mem.bitmap /\ disk.free_blocks = mem.free_blocks
          /\ disk.free_inodes >= mem.free_inodes

\* What a completed write reported is read back until the file is overwritten or
\* deleted, whatever is created, deleted, written or restarted around it.
FilesKeepData ==
  Idle => \A i \in Inodes, k \in Slots : written[i][k] # 0 =>
            pafs_vfs_read(i, k - 1, 1) = <<FileBlock(written[i][k])>>

\* Unless the power failed inside an operation, the entries of a directory are the
\* first "size" ones, without a gap: ls, which
\* stops at the first index without an entry, lists them all, and the last entry is
\* where pafs_remove_entry computes it from the size.
ListComplete ==
  Idle /\ failed = 0 => \A dir \in Inodes : mem.type[dir] = "dir" /\ mem.size[dir] # 0 =>
            /\ ls(dir) = {EntryAt(dir, p) : p \in Places} \ {Empty}
            /\ \A i \in 0 .. SLOTS * PER_BLOCK - 1 :
                 i < mem.size[dir] <=> pafs_vfs_readdir(dir, i).inode # 0

\* Unless the power failed inside an operation, every file and directory but the root is
\* named by exactly one directory entry, and every entry names one that exists.
NamesResolve ==
  Idle /\ failed = 0 =>
    LET Entries == {e \in Inodes \X Places :
                      mem.type[e[1]] = "dir" /\ EntryAt(e[1], e[2]).inode # 0}
        Named(e) == EntryAt(e[1], e[2]).inode
    IN /\ \A e \in Entries : mem.type[Named(e)] # "free"
       /\ \A i \in Inodes \ {Root} : mem.type[i] # "free" =>
            Cardinality({e \in Entries : Named(e) = i}) = 1
=============================================================================
