----------------------------- MODULE PafsProofs ------------------------------
(***************************************************************************)
(* Proofs about Pafs, for every number of inodes, blocks, slots and names, *)
(* with a power failure inside any operation.                              *)
(*                                                                         *)
(* The invariant speaks of two file systems at once: the one that the      *)
(* cached metadata describes once the pending sector writes are done (with *)
(* the blocks' contents D of that time), and the one that is on the disk   *)
(* now, from which pafs_init would start.  What is left after a power      *)
(* failure inside delete or format is not sound; of that only what the     *)
(* files hold is kept, until the next format.                              *)
(***************************************************************************)
EXTENDS Pafs, FiniteSetTheorems, SequenceTheorems, WellFoundedInduction, TLAPS

Cell == [inode : Inodes \cup Values, name : Names \cup {"", "data"}]
Contents == [Cells -> Cell]

SuperWrites == [to : {"super"}, free_blocks : 0 .. BLOCKS, free_inodes : 0 .. MAX_COUNT]
BitmapWrites == [to : {"bitmap"}, bitmap : [Blocks -> {0, 1}]]
InodeWrites == [to : {"inodes"}, sector : Nat,
                type : [Inodes -> {"free", "file", "dir"}],
                size : [Inodes -> 0 .. SLOTS * PER_BLOCK],
                blocks : [Inodes -> [Slots -> Blocks \cup {0}]]]
DataWrites == [to : {"data"}, block : Blocks, cells : Contents]
Writes == SuperWrites \cup BitmapWrites \cup InodeWrites \cup DataWrites

Typed ==
  /\ mem \in Metadata /\ disk \in Metadata
  /\ data \in [Blocks -> Contents]
  /\ pending \in Seq(Writes)
  /\ written \in [Inodes -> [Slots -> Values \cup {0}]]
  /\ failed \in 0 .. 2

\* An operation is under way exactly as long as it has writes to come.
InProgress ==
  /\ op \in [kind : {"none", "create", "delete", "write", "format"}, ino : Inodes]
  /\ op = NoOp <=> pending = <<>>
  /\ op = NoOp <=> op.kind = "none"

-----------------------------------------------------------------------------
\* A block has one place in one inode, and is marked; a free inode has none.
Exclusive(m) ==
  /\ \A i, j \in Inodes, k, l \in Slots :
       m.blocks[i][k] # 0 /\ m.blocks[i][k] = m.blocks[j][l] => i = j /\ k = l
  /\ \A i \in Inodes, k \in Slots : m.blocks[i][k] # 0 => m.bitmap[m.blocks[i][k]] = 1
  /\ \A i \in Inodes, k \in Slots : m.type[i] = "free" => m.blocks[i][k] = 0
  /\ m.type[Root] = "dir"

\* free_blocks counts every block that alloc_block can still find, and none in use.
Held(m) == {b \in Blocks : \E i \in Inodes, k \in Slots : m.blocks[i][k] = b}
Counted(m) ==
  /\ Cardinality(FreeBlocks(m)) <= m.free_blocks
  /\ m.free_blocks + Cardinality(Held(m)) <= BLOCKS

\* A directory's blocks hold entries, and the first ones, by the index readdir uses, are
\* there as far as its size says: the last of them is where pafs_remove_entry looks.
Indexes == 0 .. SLOTS * PER_BLOCK - 1
At(i) == <<(i \div PER_BLOCK) + 1, (i % PER_BLOCK) + 1>>
Entry(m, D, dir, p) ==
  IF m.blocks[dir][p[1]] = 0 THEN Empty ELSE D[m.blocks[dir][p[1]]][p[2]]
IsEntry(e) == e.inode \in Inodes /\ (e.inode = 0 => e = Empty)
DirSound(m, D, i) ==
  /\ \A k \in Slots, c \in Cells : m.blocks[i][k] # 0 => IsEntry(D[m.blocks[i][k]][c])
  /\ \A j \in Indexes : j < m.size[i] => Entry(m, D, i, At(j)).inode # 0
DirsSound(m, D) == \A i \in Inodes : m.type[i] = "dir" => DirSound(m, D, i)

\* What was written is where the inodes say.
Keeps(m, D, W) ==
  \A i \in Inodes, k \in Slots : W[i][k] # 0 =>
    /\ m.type[i] = "file" /\ k <= m.size[i] /\ m.blocks[i][k] # 0
    /\ D[m.blocks[i][k]] = FileBlock(W[i][k])

\* Without a power failure: no block is marked in vain, ...
Exact(m) ==
  /\ \A b \in Blocks : m.bitmap[b] = 1 => b \in Held(m)
  /\ m.free_blocks = Cardinality(FreeBlocks(m))

\* ... and a directory has no entries beyond its size.
Listed(m, D) ==
  \A dir \in Inodes : m.type[dir] = "dir" =>
    \A i \in Indexes : i < m.size[dir] <=> Entry(m, D, dir, At(i)).inode # 0

-----------------------------------------------------------------------------
Coming == 1 .. Len(pending)
ToBlock(n, b) == pending[n].to = "data" /\ pending[n].block = b

\* The pending writes bring the disk to what is in memory: inode sectors carry its
\* content, the last bitmap and superblock too, and what is not pending is there.
MetaArrives ==
  /\ \A n \in Coming : pending[n].to = "inodes" =>
       pending[n].type = mem.type /\ pending[n].size = mem.size /\ pending[n].blocks = mem.blocks
  /\ \A i \in Inodes :
       (\A n \in Coming : pending[n].to = "inodes" => pending[n].sector # i \div PER_SECTOR) =>
         disk.type[i] = mem.type[i] /\ disk.size[i] = mem.size[i] /\ disk.blocks[i] = mem.blocks[i]
  /\ \A n \in Coming : pending[n].to = "bitmap" =>
       pending[n].bitmap = mem.bitmap \/ \E k \in Coming : k > n /\ pending[k].to = "bitmap"
  /\ (\A n \in Coming : pending[n].to # "bitmap") => disk.bitmap = mem.bitmap
  /\ \A n \in Coming : pending[n].to = "super" =>
       pending[n].free_blocks = mem.free_blocks \/ \E k \in Coming : k > n /\ pending[k].to = "super"
  /\ (\A n \in Coming : pending[n].to # "super") => disk.free_blocks = mem.free_blocks

\* The pending writes bring the data blocks to D.
DataArrives(D) ==
  /\ \A b \in Blocks : (\A n \in Coming : ~ToBlock(n, b)) => D[b] = data[b]
  /\ \A n \in Coming : pending[n].to = "data" =>
       \/ D[pending[n].block] = pending[n].cells
       \/ \E k \in Coming : k > n /\ ToBlock(k, pending[n].block)

\* The superblock never has too few free inodes, and the one on the disk not fewer than
\* the one in memory.
InodesCounted == mem.free_inodes >= Cardinality(FreeInodes(mem))
InodesSaved ==
  /\ \A n \in Coming : pending[n].to = "super" => pending[n].free_inodes >= mem.free_inodes
  /\ (\A n \in Coming : pending[n].to # "super") => disk.free_inodes >= mem.free_inodes

\* The file system in memory, with the blocks as they will be.
MemorySound(D) ==
  /\ DataArrives(D)
  /\ DirsSound(mem, D)
  /\ Keeps(mem, D, written)
  /\ failed = 0 => Listed(mem, D)

-----------------------------------------------------------------------------
\* While an operation is under way the other files are on the disk as in memory.
FilesOnDisk ==
  \A i \in Inodes, k \in Slots : i # op.ino /\ written[i][k] # 0 =>
    /\ disk.type[i] = "file" /\ k <= disk.size[i]
    /\ disk.blocks[i][k] = mem.blocks[i][k]
    /\ \A n \in Coming : ~ToBlock(n, mem.blocks[i][k])

\* While create or write is under way the disk lags behind the memory, ...
DiskBehind == \A i \in Inodes, k \in Slots : disk.blocks[i][k] \in {0, mem.blocks[i][k]}

\* ... the inodes come last, no write takes a block away that the disk uses or counts
\* it wrong, ...
Unmarked(n) == {b \in Blocks : pending[n].bitmap[b] = 0}
CountsSafe ==
  /\ \A n, k \in Coming : n < k /\ pending[n].to = "inodes" => pending[k].to = "inodes"
  /\ \A n \in Coming : pending[n].to = "bitmap" =>
       /\ \A i \in Inodes, k \in Slots :
            disk.blocks[i][k] # 0 => pending[n].bitmap[disk.blocks[i][k]] = 1
       /\ Cardinality(Unmarked(n)) <= disk.free_blocks
       /\ \A k \in Coming : k < n /\ pending[k].to = "super" =>
            Cardinality(Unmarked(n)) <= pending[k].free_blocks
  /\ \A n \in Coming : pending[n].to = "super" =>
       /\ pending[n].free_blocks + Cardinality(Held(disk)) <= BLOCKS
       /\ IF n = 1 THEN Cardinality(FreeBlocks(disk)) <= pending[n].free_blocks
          ELSE /\ pending[n - 1].to = "bitmap"
               /\ Cardinality(Unmarked(n - 1)) <= pending[n].free_blocks

\* ... or empties cells of a directory.
CellsSafe ==
  \A n \in Coming, i \in Inodes, k \in Slots :
    disk.type[i] = "dir" /\ disk.blocks[i][k] # 0 /\ ToBlock(n, disk.blocks[i][k]) =>
      /\ \A c \in Cells : /\ IsEntry(pending[n].cells[c])
                          /\ data[disk.blocks[i][k]][c].inode # 0 =>
                               pending[n].cells[c].inode # 0
      /\ \A l \in Coming : ToBlock(l, disk.blocks[i][k]) => l = n

WritesSafe == CountsSafe /\ CellsSafe

\* What a power failure now would leave is sound.
DiskSound ==
  /\ Exclusive(disk) /\ Counted(disk) /\ DirsSound(disk, data)
  /\ DiskBehind /\ WritesSafe

\* While delete is under way the disk is ahead: it still has the blocks that go, and they
\* are marked until the last write but one.
DiskAhead ==
  /\ \A i \in Inodes, k \in Slots : mem.blocks[i][k] \in {0, disk.blocks[i][k]}
  /\ \A n \in Coming : pending[n].to = "bitmap" => n + 1 = Len(pending)
  /\ Len(pending) # 1 => Exclusive(disk)

Sound ==
  /\ Typed /\ InProgress /\ MetaArrives
  /\ Exclusive(mem) /\ Counted(mem) /\ InodesSaved
  /\ \E D \in [Blocks -> Contents] : MemorySound(D)
  /\ failed = 0 => Exact(mem) /\ InodesCounted
  /\ op # NoOp => FilesOnDisk
  /\ op.kind \in {"create", "write"} => DiskSound
  /\ op.kind = "delete" => DiskAhead

\* After a power failure inside delete or format.
Broken ==
  /\ Typed /\ InProgress
  /\ op = NoOp /\ mem = disk /\ Keeps(mem, data, written)

IInv == IF Followed THEN Sound ELSE Broken

-----------------------------------------------------------------------------
\* The sizes as the proofs use them.
LEMMA Sizes ==
  /\ INODES \in Nat /\ INODES > 0 /\ BLOCKS \in Nat /\ BLOCKS > 0
  /\ SLOTS \in Nat /\ SLOTS > 0 /\ PER_BLOCK \in Nat /\ PER_BLOCK > 0
  /\ PER_SECTOR \in Nat /\ PER_SECTOR > 0 /\ MAX_COUNT \in Nat /\ INODES <= MAX_COUNT
  /\ 0 \notin Values
BY PafsAssumption

\* A product of two of them.
LEMMA Capacity ==
  ASSUME NEW a \in Nat, NEW b \in Nat, a > 0, b > 0
  PROVE  a * b \in Nat /\ a <= a * b /\ b <= a * b
<1>1. a * b \in Nat
  BY Z3
<1>2. a * b >= a * 1
  BY Z3
<1>3. a * b >= 1 * b
  BY Z3
<1>. QED
  BY <1>1, <1>2, <1>3

\* A file of SLOTS blocks fits the bound on sizes.
LEMMA RoomForFiles == SLOTS * PER_BLOCK \in Nat /\ SLOTS <= SLOTS * PER_BLOCK
BY Sizes, Capacity

\* The loops that look for the first free inode or block stop at one.
LEMMA SmallestIn ==
  ASSUME NEW S, S \subseteq Nat, S # {}
  PROVE  Smallest(S) \in S /\ \A y \in S : Smallest(S) <= y
<1>. DEFINE Less == {ss \in Nat \X Nat : ss[1] < ss[2]}
<1>1. IsWellFoundedOn(Less, Nat)
  BY NatLessThanWellFounded, Zenon DEF OpToRel
<1>2. PICK x \in S : \A y \in S : ~ (<<y, x>> \in Less)
  BY <1>1, WFMin, Zenon
<1>3. ASSUME NEW y \in S PROVE x <= y
  <2>1. <<y, x>> \notin Less
    BY <1>2
  <2>2. <<y, x>> \in Less <=> y < x
    OBVIOUS
  <2>. QED
    BY <2>1, <2>2
<1>. QED
  BY <1>3, Zenon DEF Smallest

\* The search for a cell of a directory stops at the first that qualifies.
LEMMA FirstOfIn ==
  ASSUME NEW S, S \subseteq Places, S # {}
  PROVE  FirstOf(S) \in S /\ \A q \in S : ~Before(q, FirstOf(S))
<1>1. PICK a \in Slots : /\ \E q \in S : q[1] = a
                         /\ \A q \in S : a <= q[1]
  <2>. DEFINE R == {q[1] : q \in S}
  <2>1. R \subseteq Nat /\ R # {}
    BY DEF Places, Slots
  <2>2. Smallest(R) \in R /\ \A y \in R : Smallest(R) <= y
    BY <2>1, SmallestIn
  <2>3. PICK q \in S : q[1] = Smallest(R)
    BY <2>2
  <2>4. \A r \in S : Smallest(R) <= r[1]
    BY <2>2
  <2>5. Smallest(R) \in Slots
    BY <2>3 DEF Places
  <2>. QED
    BY <2>3, <2>4, <2>5
<1>2. PICK p \in S : p[1] = a /\ \A q \in S : q[1] = a => p[2] <= q[2]
  <2>. DEFINE R == {q[2] : q \in {r \in S : r[1] = a}}
  <2>1. R \subseteq Nat /\ R # {}
    BY <1>1 DEF Places, Cells
  <2>2. Smallest(R) \in R /\ \A y \in R : Smallest(R) <= y
    BY <2>1, SmallestIn
  <2>3. PICK q \in S : q[1] = a /\ q[2] = Smallest(R)
    BY <2>2
  <2>. QED
    BY <2>2, <2>3
<1>3. \A q \in S : ~Before(q, p)
  <2>1. SUFFICES ASSUME NEW q \in S PROVE ~Before(q, p)
    OBVIOUS
  <2>2. /\ q[1] \in Nat /\ q[2] \in Nat /\ p[1] \in Nat /\ p[2] \in Nat
    BY DEF Places, Slots, Cells
  <2>. QED
    BY <1>1, <1>2, <2>2 DEF Before
<1>. QED
  BY <1>3, Zenon DEF FirstOf

-----------------------------------------------------------------------------
\* Division with remainder, as readdir and pafs_remove_entry find a cell.
LEMMA Divided ==
  ASSUME NEW a \in Nat, NEW b \in Nat, b > 0
  PROVE  /\ a \div b \in Nat /\ a % b \in 0 .. b - 1
         /\ a = (a \div b) * b + (a % b)
BY Z3

\* ... and only one quotient and remainder fit.
LEMMA DividedOnly ==
  ASSUME NEW b \in Nat, b > 0, NEW q \in Nat, NEW r \in 0 .. b - 1
  PROVE  (q * b + r) \div b = q /\ (q * b + r) % b = r
BY Z3

\* A larger quotient outweighs any remainder.
LEMMA Outweighs ==
  ASSUME NEW b \in Nat, b > 0, NEW q \in Nat, NEW s \in Nat, q < s
  PROVE  q * b + b <= s * b /\ q * b \in Nat /\ s * b \in Nat
<1>1. PICK d \in Nat : s = q + 1 + d
  <2>1. s - q - 1 \in Nat /\ s = q + 1 + (s - q - 1)
    OBVIOUS
  <2>. QED
    BY <2>1
<1>2. s * b = q * b + b + d * b
  BY <1>1, Z3
<1>3. d * b \in Nat /\ q * b \in Nat
  BY Z3
<1>. QED
  BY <1>2, <1>3

\* The index of readdir runs through the cells of a directory in the order in which
\* the other operations visit them.
LEMMA AtPlace ==
  /\ \A i \in Indexes : At(i) \in Places
  /\ \A p \in Places : \E i \in Indexes : At(i) = p
  /\ \A i, j \in Indexes : i < j => Before(At(i), At(j)) /\ At(i) # At(j)
<1>s. /\ SLOTS \in Nat /\ SLOTS > 0 /\ PER_BLOCK \in Nat /\ PER_BLOCK > 0
      /\ SLOTS * PER_BLOCK \in Nat
  BY Sizes, RoomForFiles
<1>1. ASSUME NEW i \in Indexes
      PROVE  /\ i \in Nat /\ i \div PER_BLOCK \in Nat /\ i % PER_BLOCK \in 0 .. PER_BLOCK - 1
             /\ i = (i \div PER_BLOCK) * PER_BLOCK + (i % PER_BLOCK)
             /\ i \div PER_BLOCK < SLOTS
  <2>1. i \in Nat /\ i < SLOTS * PER_BLOCK
    BY <1>s DEF Indexes
  <2>2. /\ i \div PER_BLOCK \in Nat /\ i % PER_BLOCK \in 0 .. PER_BLOCK - 1
        /\ i = (i \div PER_BLOCK) * PER_BLOCK + (i % PER_BLOCK)
    BY <1>s, <2>1, Divided
  <2>3. PICK q \in Nat, r \in Nat : q = i \div PER_BLOCK /\ r = i % PER_BLOCK
    BY <1>s, <2>2
  <2>4. i = q * PER_BLOCK + r
    BY <2>2, <2>3
  <2>5. ASSUME ~(q < SLOTS) PROVE FALSE
    <3>1. CASE q = SLOTS
      BY <1>s, <2>1, <2>3, <2>4, <3>1
    <3>2. CASE SLOTS < q
      <4>1. SLOTS * PER_BLOCK + PER_BLOCK <= q * PER_BLOCK /\ q * PER_BLOCK \in Nat
        BY <1>s, <3>2, Outweighs
      <4>. QED
        BY <1>s, <2>1, <2>3, <2>4, <4>1
    <3>. QED
      BY <1>s, <2>5, <3>1, <3>2
  <2>. QED
    BY <2>1, <2>2, <2>3, <2>5
<1>2. ASSUME NEW i \in Indexes PROVE At(i) \in Places
  BY <1>1, <1>s DEF At, Places, Slots, Cells
<1>3. ASSUME NEW p \in Places PROVE \E i \in Indexes : At(i) = p
  <2>1. PICK q \in Nat, r \in 0 .. PER_BLOCK - 1 : p = <<q + 1, r + 1>> /\ q < SLOTS
    <3>1. PICK k \in Slots, c \in Cells : p = <<k, c>>
      BY DEF Places
    <3>2. k - 1 \in Nat /\ c - 1 \in 0 .. PER_BLOCK - 1 /\ k - 1 < SLOTS
          /\ k = (k - 1) + 1 /\ c = (c - 1) + 1
      BY <1>s DEF Slots, Cells
    <3>. QED
      BY <3>1, <3>2
  <2>2. (q * PER_BLOCK + r) \div PER_BLOCK = q /\ (q * PER_BLOCK + r) % PER_BLOCK = r
    BY <1>s, DividedOnly
  <2>3. q * PER_BLOCK + PER_BLOCK <= SLOTS * PER_BLOCK /\ q * PER_BLOCK \in Nat
    BY <1>s, <2>1, Outweighs
  <2>4. q * PER_BLOCK + r \in Indexes
    BY <1>s, <2>3 DEF Indexes
  <2>. QED
    BY <2>1, <2>2, <2>4 DEF At
<1>4. ASSUME NEW i \in Indexes, NEW j \in Indexes, i < j
      PROVE  Before(At(i), At(j)) /\ At(i) # At(j)
  <2>1. PICK q \in Nat, r \in 0 .. PER_BLOCK - 1 :
          /\ q = i \div PER_BLOCK /\ r = i % PER_BLOCK /\ i = q * PER_BLOCK + r
    BY <1>1
  <2>2. PICK s \in Nat, t \in 0 .. PER_BLOCK - 1 :
          /\ s = j \div PER_BLOCK /\ t = j % PER_BLOCK /\ j = s * PER_BLOCK + t
    BY <1>1
  <2>3. q * PER_BLOCK + r < s * PER_BLOCK + t
    BY <1>4, <2>1, <2>2
  <2>4. q < s \/ (q = s /\ r < t)
    <3>1. CASE q = s
      <4>1. q * PER_BLOCK \in Nat
        BY <1>s, Z3
      <4>. QED
        BY <1>s, <2>3, <3>1, <4>1
    <3>2. CASE s < q
      <4>1. s * PER_BLOCK + PER_BLOCK <= q * PER_BLOCK /\ s * PER_BLOCK \in Nat
            /\ q * PER_BLOCK \in Nat
        BY <1>s, <3>2, Outweighs
      <4>. QED
        BY <1>s, <2>3, <4>1
    <3>. QED
      BY <3>1, <3>2
  <2>5. At(i) = <<q + 1, r + 1>> /\ At(j) = <<s + 1, t + 1>>
    BY <2>1, <2>2 DEF At
  <2>6. Before(<<q + 1, r + 1>>, <<s + 1, t + 1>>) /\ <<q + 1, r + 1>> # <<s + 1, t + 1>>
    BY <1>s, <2>4 DEF Before
  <2>. QED
    BY <2>5, <2>6
<1>. QED
  BY <1>2, <1>3, <1>4

-----------------------------------------------------------------------------
\* What a sector write carries.
LEMMA WriteFields ==
  ASSUME NEW w \in Writes
  PROVE  /\ w.to \in {"super", "bitmap", "inodes", "data"}
         /\ w.to = "super" => w.free_blocks \in 0 .. BLOCKS /\ w.free_inodes \in 0 .. MAX_COUNT
         /\ w.to = "bitmap" => w.bitmap \in [Blocks -> {0, 1}]
         /\ w.to = "inodes" => /\ w.sector \in Nat
                               /\ w.type \in [Inodes -> {"free", "file", "dir"}]
                               /\ w.size \in [Inodes -> 0 .. SLOTS * PER_BLOCK]
                               /\ w.blocks \in [Inodes -> [Slots -> Blocks \cup {0}]]
         /\ w.to = "data" => w.block \in Blocks /\ w.cells \in Contents
BY DEF Writes, SuperWrites, BitmapWrites, InodeWrites, DataWrites

\* The fields of the metadata.
LEMMA MetaFields ==
  ASSUME NEW m \in Metadata
  PROVE  /\ m.type \in [Inodes -> {"free", "file", "dir"}]
         /\ m.size \in [Inodes -> 0 .. SLOTS * PER_BLOCK]
         /\ m.blocks \in [Inodes -> [Slots -> Blocks \cup {0}]]
         /\ m.bitmap \in [Blocks -> {0, 1}]
         /\ m.free_blocks \in 0 .. BLOCKS /\ m.free_inodes \in 0 .. MAX_COUNT
BY DEF Metadata

\* What each sector write changes on the disk.
LEMMA StoredFields ==
  ASSUME NEW d \in Metadata, NEW w \in Writes
  PROVE  /\ Stored(d, w) \in Metadata
         /\ w.to = "super" =>
              /\ Stored(d, w).free_blocks = w.free_blocks
              /\ Stored(d, w).free_inodes = w.free_inodes
         /\ w.to # "super" =>
              /\ Stored(d, w).free_blocks = d.free_blocks
              /\ Stored(d, w).free_inodes = d.free_inodes
         /\ Stored(d, w).bitmap = IF w.to = "bitmap" THEN w.bitmap ELSE d.bitmap
         /\ \A i \in Inodes :
              IF w.to = "inodes" /\ w.sector = i \div PER_SECTOR
              THEN /\ Stored(d, w).type[i] = w.type[i] /\ Stored(d, w).size[i] = w.size[i]
                   /\ Stored(d, w).blocks[i] = w.blocks[i]
              ELSE /\ Stored(d, w).type[i] = d.type[i] /\ Stored(d, w).size[i] = d.size[i]
                   /\ Stored(d, w).blocks[i] = d.blocks[i]
<1>1. CASE w.to = "super"
  <2>1. Stored(d, w) = [d EXCEPT !.free_blocks = w.free_blocks, !.free_inodes = w.free_inodes]
    BY <1>1 DEF Stored
  <2>. QED
    BY <1>1, <2>1, WriteFields DEF Metadata
<1>2. CASE w.to = "bitmap"
  <2>1. Stored(d, w) = [d EXCEPT !.bitmap = w.bitmap]
    BY <1>2 DEF Stored
  <2>. QED
    BY <1>2, <2>1, WriteFields DEF Metadata
<1>3. CASE w.to = "inodes"
  <2>. DEFINE Mix(old, new) == [i \in Inodes |-> IF i \div PER_SECTOR = w.sector
                                                 THEN new[i] ELSE old[i]]
  <2>1. Stored(d, w) = [d EXCEPT !.type = Mix(d.type, w.type), !.size = Mix(d.size, w.size),
                                 !.blocks = Mix(d.blocks, w.blocks)]
    BY <1>3 DEF Stored
  <2>2. /\ Mix(d.type, w.type) \in [Inodes -> {"free", "file", "dir"}]
        /\ Mix(d.size, w.size) \in [Inodes -> 0 .. SLOTS * PER_BLOCK]
        /\ Mix(d.blocks, w.blocks) \in [Inodes -> [Slots -> Blocks \cup {0}]]
    <3>1. ASSUME NEW i \in Inodes
          PROVE  /\ d.type[i] \in {"free", "file", "dir"} /\ w.type[i] \in {"free", "file", "dir"}
                 /\ d.size[i] \in 0 .. SLOTS * PER_BLOCK /\ w.size[i] \in 0 .. SLOTS * PER_BLOCK
                 /\ d.blocks[i] \in [Slots -> Blocks \cup {0}]
                 /\ w.blocks[i] \in [Slots -> Blocks \cup {0}]
      BY <1>3, WriteFields, MetaFields
    <3>. QED
      BY <3>1
  <2>3. \A i \in Inodes : /\ Mix(d.type, w.type)[i] =
                               IF i \div PER_SECTOR = w.sector THEN w.type[i] ELSE d.type[i]
                          /\ Mix(d.size, w.size)[i] =
                               IF i \div PER_SECTOR = w.sector THEN w.size[i] ELSE d.size[i]
                          /\ Mix(d.blocks, w.blocks)[i] =
                               IF i \div PER_SECTOR = w.sector THEN w.blocks[i] ELSE d.blocks[i]
    OBVIOUS
  <2>. HIDE DEF Mix
  <2>4. /\ Stored(d, w) \in Metadata
        /\ Stored(d, w).type = Mix(d.type, w.type) /\ Stored(d, w).size = Mix(d.size, w.size)
        /\ Stored(d, w).blocks = Mix(d.blocks, w.blocks)
        /\ Stored(d, w).bitmap = d.bitmap /\ Stored(d, w).free_blocks = d.free_blocks
        /\ Stored(d, w).free_inodes = d.free_inodes
    BY <2>1, <2>2 DEF Metadata
  <2>. QED
    BY <1>3, <2>3, <2>4
<1>4. CASE w.to = "data"
  <2>1. Stored(d, w) = d
    BY <1>4 DEF Stored
  <2>. QED
    BY <1>4, <2>1
<1>. QED
  BY <1>1, <1>2, <1>3, <1>4, WriteFields

\* The sets whose sizes the superblock counts.
LEMMA CountsTyped ==
  ASSUME NEW m
  PROVE  /\ IsFiniteSet(FreeBlocks(m)) /\ Cardinality(FreeBlocks(m)) \in Nat
         /\ IsFiniteSet(Held(m)) /\ Cardinality(Held(m)) \in Nat
         /\ IsFiniteSet(FreeInodes(m)) /\ Cardinality(FreeInodes(m)) \in Nat
         /\ IsFiniteSet(Blocks) /\ Cardinality(Blocks) = BLOCKS
<1>1. IsFiniteSet(Blocks) /\ Cardinality(Blocks) = BLOCKS
  BY Sizes, FS_Interval DEF Blocks
<1>2. IsFiniteSet(Inodes)
  BY Sizes, FS_Interval DEF Inodes
<1>3. IsFiniteSet(FreeBlocks(m)) /\ IsFiniteSet(Held(m))
  BY <1>1, FS_Subset DEF FreeBlocks, Held
<1>4. IsFiniteSet(FreeInodes(m))
  BY <1>2, FS_Subset DEF FreeInodes
<1>. QED
  BY <1>1, <1>3, <1>4, FS_CardinalityType

-----------------------------------------------------------------------------
\* A completed sector write moves the others up by one.
LEMMA FlushShifts ==
  ASSUME Typed, flush
  PROVE  /\ 1 \in Coming /\ pending[1] \in Writes /\ Len(pending) \in Nat
         /\ pending' \in Seq(Writes) /\ Len(pending') = Len(pending) - 1
         /\ \A n \in Coming' : n \in Nat /\ n + 1 \in Coming /\ pending'[n] = pending[n + 1]
         /\ \A k \in Coming : k # 1 => k - 1 \in Coming' /\ pending'[k - 1] = pending[k]
         /\ \A k \in Coming : k \in Nat
         /\ disk' = Stored(disk, pending[1])
         /\ data' = IF pending[1].to = "data"
                    THEN [data EXCEPT ![pending[1].block] = pending[1].cells] ELSE data
<1>1. pending \in Seq(Writes) /\ pending # <<>>
  BY DEF Typed, flush
<1>2. /\ Len(pending) \in Nat /\ Len(pending) > 0
      /\ Head(pending) = pending[1] /\ pending' = Tail(pending)
  BY <1>1 DEF flush
<1>3. /\ Tail(pending) \in Seq(Writes) /\ Len(Tail(pending)) = Len(pending) - 1
      /\ \A n \in 1 .. Len(pending) - 1 : Tail(pending)[n] = pending[n + 1]
  BY <1>1, <1>2, HeadTailProperties
<1>4. 1 \in Coming /\ pending[1] \in Writes
  BY <1>1, <1>2, ElementOfSeq DEF Coming
<1>5. Coming = 1 .. Len(pending) /\ Coming' = 1 .. Len(pending) - 1
  BY <1>2, <1>3 DEF Coming
<1>6. ASSUME NEW n \in Coming'
      PROVE  n \in Nat /\ n + 1 \in Coming /\ pending'[n] = pending[n + 1]
  BY <1>2, <1>3, <1>5
<1>7. ASSUME NEW k \in Coming, k # 1
      PROVE  k - 1 \in Coming' /\ pending'[k - 1] = pending[k]
  <2>1. k - 1 \in 1 .. Len(pending) - 1 /\ (k - 1) + 1 = k
    BY <1>2, <1>5, <1>7
  <2>. QED
    BY <1>2, <1>3, <1>5, <2>1
<1>8. \A k \in Coming : k \in Nat
  BY <1>2 DEF Coming
<1>9. /\ disk' = Stored(disk, pending[1])
      /\ data' = IF pending[1].to = "data"
                 THEN [data EXCEPT ![pending[1].block] = pending[1].cells] ELSE data
  BY <1>2 DEF flush
<1>. QED
  BY <1>2, <1>3, <1>4, <1>6, <1>7, <1>8, <1>9

\* flush keeps the types, and the operation ends with its last write.
LEMMA FlushTyped ==
  ASSUME Typed, InProgress, flush
  PROVE  Typed' /\ InProgress'
<1>1. disk' \in Metadata
  <2>1. disk \in Metadata /\ pending[1] \in Writes /\ disk' = Stored(disk, pending[1])
    BY FlushShifts DEF Typed
  <2>. QED
    BY <2>1, StoredFields
<1>2. data' \in [Blocks -> Contents]
  <2>1. CASE pending[1].to = "data"
    <3>1. /\ data \in [Blocks -> Contents]
          /\ pending[1].block \in Blocks /\ pending[1].cells \in Contents
      BY <2>1, FlushShifts, WriteFields DEF Typed
    <3>2. data' = [data EXCEPT ![pending[1].block] = pending[1].cells]
      BY <2>1, FlushShifts
    <3>. QED
      BY <3>1, <3>2
  <2>2. CASE pending[1].to # "data"
    BY <2>2, FlushShifts DEF Typed
  <2>. QED
    BY <2>1, <2>2
<1>3. Typed'
  BY <1>1, <1>2, FlushShifts DEF Typed, flush
<1>4. InProgress'
  <2>1. /\ Len(pending) \in Nat /\ Len(pending') = Len(pending) - 1 /\ pending' \in Seq(Writes)
        /\ pending # <<>>
    BY FlushShifts DEF flush
  <2>2. pending' = <<>> <=> Len(pending) = 1
    BY <2>1, EmptySeq
  <2>3. NoOp.kind = "none" /\ NoOp \in [kind : {"none", "create", "delete", "write", "format"},
                                       ino : Inodes]
    BY Sizes DEF NoOp, Inodes, Root
  <2>4. op # NoOp /\ op.kind # "none"
    BY <2>1 DEF InProgress
  <2>5. op' = IF Len(pending) = 1 THEN NoOp ELSE op
    BY DEF flush
  <2>. QED
    BY <2>2, <2>3, <2>4, <2>5 DEF InProgress
<1>. QED
  BY <1>3, <1>4

\* What the remaining writes bring to the disk is still what is in memory.
LEMMA FlushArrives ==
  ASSUME Typed, MetaArrives, flush
  PROVE  MetaArrives'
<1>m. UNCHANGED mem
  BY DEF flush
<1>w. /\ pending[1] \in Writes /\ 1 \in Coming
      /\ \A n \in Coming' : n \in Nat /\ n + 1 \in Coming /\ pending'[n] = pending[n + 1]
      /\ \A k \in Coming : k # 1 => k - 1 \in Coming' /\ pending'[k - 1] = pending[k]
      /\ \A k \in Coming : k \in Nat
  BY FlushShifts
<1>d. /\ disk'.free_blocks = IF pending[1].to = "super" THEN pending[1].free_blocks
                             ELSE disk.free_blocks
      /\ disk'.bitmap = IF pending[1].to = "bitmap" THEN pending[1].bitmap ELSE disk.bitmap
      /\ \A i \in Inodes :
           IF pending[1].to = "inodes" /\ pending[1].sector = i \div PER_SECTOR
           THEN /\ disk'.type[i] = pending[1].type[i] /\ disk'.size[i] = pending[1].size[i]
                /\ disk'.blocks[i] = pending[1].blocks[i]
           ELSE /\ disk'.type[i] = disk.type[i] /\ disk'.size[i] = disk.size[i]
                /\ disk'.blocks[i] = disk.blocks[i]
  <2>1. disk \in Metadata /\ disk' = Stored(disk, pending[1])
    BY FlushShifts DEF Typed
  <2>. QED
    BY <1>w, <2>1, StoredFields
<1>1. \A n \in Coming' : pending'[n].to = "inodes" =>
        pending'[n].type = mem.type /\ pending'[n].size = mem.size /\ pending'[n].blocks = mem.blocks
  BY <1>w DEF MetaArrives
<1>2. ASSUME NEW i \in Inodes,
             \A n \in Coming' : pending'[n].to = "inodes" => pending'[n].sector # i \div PER_SECTOR
      PROVE  /\ disk'.type[i] = mem.type[i] /\ disk'.size[i] = mem.size[i]
             /\ disk'.blocks[i] = mem.blocks[i]
  <2>1. CASE pending[1].to = "inodes" /\ pending[1].sector = i \div PER_SECTOR
    BY <1>w, <1>d, <2>1 DEF MetaArrives
  <2>2. CASE ~(pending[1].to = "inodes" /\ pending[1].sector = i \div PER_SECTOR)
    <3>1. \A k \in Coming : pending[k].to = "inodes" => pending[k].sector # i \div PER_SECTOR
      BY <1>w, <1>2, <2>2
    <3>. QED
      BY <1>d, <2>2, <3>1 DEF MetaArrives
  <2>. QED
    BY <2>1, <2>2
<1>3. ASSUME NEW n \in Coming', pending'[n].to = "bitmap"
      PROVE  pending'[n].bitmap = mem.bitmap \/ \E k \in Coming' : k > n /\ pending'[k].to = "bitmap"
  <2>1. CASE \E k \in Coming : k > n + 1 /\ pending[k].to = "bitmap"
    <3>1. PICK k \in Coming : k > n + 1 /\ pending[k].to = "bitmap"
      BY <2>1
    <3>2. k \in Nat /\ n \in Nat
      BY <1>w
    <3>3. k # 1 /\ k - 1 > n
      BY <3>1, <3>2
    <3>. QED
      BY <1>w, <3>1, <3>3
  <2>2. CASE pending[n + 1].bitmap = mem.bitmap
    BY <1>w, <2>2
  <2>. QED
    BY <1>w, <1>3, <2>1, <2>2 DEF MetaArrives
<1>4. ASSUME \A n \in Coming' : pending'[n].to # "bitmap"
      PROVE  disk'.bitmap = mem.bitmap
  <2>1. \A k \in Coming : k # 1 => pending[k].to # "bitmap"
    BY <1>w, <1>4
  <2>2. CASE pending[1].to = "bitmap"
    <3>1. ~ \E k \in Coming : k > 1 /\ pending[k].to = "bitmap"
      BY <1>w, <2>1
    <3>. QED
      BY <1>w, <1>d, <2>2, <3>1 DEF MetaArrives
  <2>3. CASE pending[1].to # "bitmap"
    BY <1>d, <2>1, <2>3 DEF MetaArrives
  <2>. QED
    BY <2>2, <2>3
<1>5. ASSUME NEW n \in Coming', pending'[n].to = "super"
      PROVE  \/ pending'[n].free_blocks = mem.free_blocks
             \/ \E k \in Coming' : k > n /\ pending'[k].to = "super"
  <2>1. CASE \E k \in Coming : k > n + 1 /\ pending[k].to = "super"
    <3>1. PICK k \in Coming : k > n + 1 /\ pending[k].to = "super"
      BY <2>1
    <3>2. k \in Nat /\ n \in Nat
      BY <1>w
    <3>3. k # 1 /\ k - 1 > n
      BY <3>1, <3>2
    <3>. QED
      BY <1>w, <3>1, <3>3
  <2>2. CASE pending[n + 1].free_blocks = mem.free_blocks
    BY <1>w, <2>2
  <2>. QED
    BY <1>w, <1>5, <2>1, <2>2 DEF MetaArrives
<1>6. ASSUME \A n \in Coming' : pending'[n].to # "super"
      PROVE  disk'.free_blocks = mem.free_blocks
  <2>1. \A k \in Coming : k # 1 => pending[k].to # "super"
    BY <1>w, <1>6
  <2>2. CASE pending[1].to = "super"
    <3>1. ~ \E k \in Coming : k > 1 /\ pending[k].to = "super"
      BY <1>w, <2>1
    <3>. QED
      BY <1>w, <1>d, <2>2, <3>1 DEF MetaArrives
  <2>3. CASE pending[1].to # "super"
    BY <1>d, <2>1, <2>3 DEF MetaArrives
  <2>. QED
    BY <2>2, <2>3
<1>. QED
  BY <1>m, <1>1, <1>2, <1>3, <1>4, <1>5, <1>6 DEF MetaArrives

\* The data blocks still come to D.
LEMMA FlushData ==
  ASSUME Typed, flush, NEW D, DataArrives(D)
  PROVE  DataArrives(D)'
<1>w. /\ pending[1] \in Writes /\ 1 \in Coming
      /\ \A n \in Coming' : n \in Nat /\ n + 1 \in Coming /\ pending'[n] = pending[n + 1]
      /\ \A k \in Coming : k # 1 => k - 1 \in Coming' /\ pending'[k - 1] = pending[k]
      /\ \A k \in Coming : k \in Nat
  BY FlushShifts
<1>d. \A b \in Blocks : data'[b] = IF ToBlock(1, b) THEN pending[1].cells ELSE data[b]
  <2>1. data \in [Blocks -> Contents]
    BY DEF Typed
  <2>2. CASE pending[1].to = "data"
    <3>1. data' = [data EXCEPT ![pending[1].block] = pending[1].cells]
      BY <2>2, FlushShifts
    <3>. QED
      BY <2>1, <2>2, <3>1 DEF ToBlock
  <2>3. CASE pending[1].to # "data"
    BY <2>3, FlushShifts DEF ToBlock
  <2>. QED
    BY <2>2, <2>3
<1>1. ASSUME NEW b \in Blocks, \A n \in Coming' : ~ToBlock(n, b)'
      PROVE  D[b] = data'[b]
  <2>1. \A k \in Coming : k # 1 => ~ToBlock(k, b)
    BY <1>w, <1>1 DEF ToBlock
  <2>2. CASE ToBlock(1, b)
    <3>1. ~ \E k \in Coming : k > 1 /\ ToBlock(k, pending[1].block)
      BY <1>w, <2>1, <2>2 DEF ToBlock
    <3>2. D[pending[1].block] = pending[1].cells
      BY <1>w, <2>2, <3>1 DEF DataArrives, ToBlock
    <3>. QED
      BY <1>d, <2>2, <3>2 DEF ToBlock
  <2>3. CASE ~ToBlock(1, b)
    BY <1>d, <2>1, <2>3 DEF DataArrives
  <2>. QED
    BY <2>2, <2>3
<1>2. ASSUME NEW n \in Coming', pending'[n].to = "data"
      PROVE  \/ D[pending'[n].block] = pending'[n].cells
             \/ \E k \in Coming' : k > n /\ ToBlock(k, pending[n].block)'
  <2>1. CASE \E k \in Coming : k > n + 1 /\ ToBlock(k, pending[n + 1].block)
    <3>1. PICK k \in Coming : k > n + 1 /\ ToBlock(k, pending[n + 1].block)
      BY <2>1
    <3>2. k \in Nat /\ n \in Nat
      BY <1>w
    <3>3. k # 1 /\ k - 1 > n
      BY <3>1, <3>2
    <3>4. pending'[k - 1] = pending[k] /\ pending'[n] = pending[n + 1] /\ k - 1 \in Coming'
      BY <1>w, <3>3
    <3>. QED
      BY <3>1, <3>3, <3>4 DEF ToBlock
  <2>2. CASE D[pending[n + 1].block] = pending[n + 1].cells
    BY <1>w, <2>2
  <2>. QED
    BY <1>w, <1>2, <2>1, <2>2 DEF DataArrives
<1>. QED
  BY <1>1, <1>2 DEF DataArrives

\* The superblock that arrives has no fewer free inodes.
LEMMA FlushSaved ==
  ASSUME Typed, flush, InodesSaved
  PROVE  InodesSaved'
<1>m. UNCHANGED mem
  BY DEF flush
<1>w. /\ pending[1] \in Writes /\ 1 \in Coming
      /\ \A n \in Coming' : n + 1 \in Coming /\ pending'[n] = pending[n + 1]
      /\ \A k \in Coming : k # 1 => k - 1 \in Coming' /\ pending'[k - 1] = pending[k]
  BY FlushShifts
<1>d. disk'.free_inodes = IF pending[1].to = "super" THEN pending[1].free_inodes
                          ELSE disk.free_inodes
  <2>1. disk \in Metadata /\ disk' = Stored(disk, pending[1])
    BY FlushShifts DEF Typed
  <2>. QED
    BY <1>w, <2>1, StoredFields
<1>1. ASSUME \A n \in Coming' : pending'[n].to # "super"
      PROVE  disk'.free_inodes >= mem.free_inodes
  <2>1. \A k \in Coming : k # 1 => pending[k].to # "super"
    BY <1>w, <1>1
  <2>2. CASE pending[1].to = "super"
    BY <1>w, <1>d, <2>2 DEF InodesSaved
  <2>3. CASE pending[1].to # "super"
    BY <1>d, <2>1, <2>3 DEF InodesSaved
  <2>. QED
    BY <2>2, <2>3
<1>2. \A n \in Coming' : pending'[n].to = "super" => pending'[n].free_inodes >= mem.free_inodes
  BY <1>w DEF InodesSaved
<1>. QED
  BY <1>m, <1>1, <1>2 DEF InodesSaved

-----------------------------------------------------------------------------
\* A directory whose inode and blocks stay the same stays sound.
LEMMA SameDir ==
  ASSUME NEW m, NEW e, NEW D, NEW F, NEW i,
         m.size[i] = e.size[i], m.blocks[i] = e.blocks[i],
         \A k \in Slots : m.blocks[i][k] # 0 => D[m.blocks[i][k]] = F[m.blocks[i][k]]
  PROVE  /\ \A p \in Places : Entry(e, F, i, p) = Entry(m, D, i, p)
         /\ DirSound(m, D, i) => DirSound(e, F, i)
<1>1. ASSUME NEW p \in Places PROVE Entry(e, F, i, p) = Entry(m, D, i, p)
  <2>1. p[1] \in Slots
    BY DEF Places
  <2>. QED
    BY <2>1 DEF Entry
<1>2. \A j \in Indexes : Entry(e, F, i, At(j)) = Entry(m, D, i, At(j))
  BY <1>1, AtPlace, Zenon
<1>3. DirSound(m, D, i) => DirSound(e, F, i)
  BY <1>2 DEF DirSound
<1>. QED
  BY <1>1, <1>3

\* A directory that only gets entries stays sound.
LEMMA FullerDir ==
  ASSUME NEW m, NEW D, NEW F, NEW i, DirSound(m, D, i),
         \A k \in Slots, c \in Cells : m.blocks[i][k] # 0 =>
           /\ IsEntry(F[m.blocks[i][k]][c])
           /\ D[m.blocks[i][k]][c].inode # 0 => F[m.blocks[i][k]][c].inode # 0
  PROVE  DirSound(m, F, i)
<1>1. ASSUME NEW j \in Indexes, j < m.size[i]
      PROVE  Entry(m, F, i, At(j)).inode # 0
  <2>1. PICK p \in Places : p = At(j) /\ p[1] \in Slots /\ p[2] \in Cells
    BY AtPlace DEF Places
  <2>2. Entry(m, D, i, p).inode # 0
    BY <1>1, <2>1 DEF DirSound
  <2>3. m.blocks[i][p[1]] # 0
    BY <2>2 DEF Entry, Empty
  <2>4. Entry(m, F, i, p).inode # 0
    BY <2>1, <2>2, <2>3 DEF Entry
  <2>. QED
    BY <2>1, <2>4
<1>. QED
  BY <1>1 DEF DirSound

\* Fewer blocks in use are no more in number.
LEMMA HeldLess ==
  ASSUME NEW m, NEW e, Held(e) \subseteq Held(m)
  PROVE  Cardinality(Held(e)) <= Cardinality(Held(m))
BY CountsTyped, FS_Subset

\* The inodes that a completed sector write leaves on the disk are those of before or
\* those in memory.
LEMMA InodesFlushed ==
  ASSUME Sound, flush
  PROVE  /\ \A i \in Inodes :
              \/ /\ disk'.type[i] = disk.type[i] /\ disk'.size[i] = disk.size[i]
                 /\ disk'.blocks[i] = disk.blocks[i]
              \/ /\ pending[1].to = "inodes"
                 /\ disk'.type[i] = mem.type[i] /\ disk'.size[i] = mem.size[i]
                 /\ disk'.blocks[i] = mem.blocks[i]
         /\ disk'.bitmap = IF pending[1].to = "bitmap" THEN pending[1].bitmap ELSE disk.bitmap
         /\ disk'.free_blocks = IF pending[1].to = "super" THEN pending[1].free_blocks
                                ELSE disk.free_blocks
<1>1. /\ disk \in Metadata /\ disk' = Stored(disk, pending[1])
      /\ pending[1] \in Writes /\ 1 \in Coming
  BY FlushShifts DEF Sound, Typed
<1>2. pending[1].to = "inodes" => /\ pending[1].type = mem.type /\ pending[1].size = mem.size
                                  /\ pending[1].blocks = mem.blocks
  BY <1>1 DEF Sound, MetaArrives
<1>. QED
  BY <1>1, <1>2, StoredFields

\* The last sectors: the inodes.
LEMMA FlushInodes ==
  ASSUME Sound, DiskSound, flush, op' = op, pending[1].to = "inodes"
  PROVE  DiskSound'
<1>w. /\ 1 \in Coming /\ Len(pending) \in Nat
      /\ \A n \in Coming' : n \in Nat /\ n + 1 \in Coming /\ pending'[n] = pending[n + 1]
      /\ \A k \in Coming : k \in Nat
      /\ data' = data
  BY FlushShifts DEF Sound
<1>u. UNCHANGED <<mem, written>>
  BY DEF flush
<1>f. /\ \A i \in Inodes :
           \/ /\ disk'.type[i] = disk.type[i] /\ disk'.size[i] = disk.size[i]
              /\ disk'.blocks[i] = disk.blocks[i]
           \/ /\ disk'.type[i] = mem.type[i] /\ disk'.size[i] = mem.size[i]
              /\ disk'.blocks[i] = mem.blocks[i]
      /\ disk'.bitmap = disk.bitmap /\ disk'.free_blocks = disk.free_blocks
  BY InodesFlushed
<1>1. \A k \in Coming : pending[k].to = "inodes"
  <2>1. ASSUME NEW k \in Coming PROVE pending[k].to = "inodes"
    <3>1. k = 1 \/ 1 < k
      BY <1>w DEF Coming
    <3>. QED
      BY <1>w, <3>1 DEF DiskSound, WritesSafe, CountsSafe, CellsSafe
  <2>. QED
    BY <2>1
<1>2. disk.bitmap = mem.bitmap /\ disk.free_blocks = mem.free_blocks
  BY <1>1 DEF Sound, MetaArrives
<1>3. PICK D \in [Blocks -> Contents] : MemorySound(D)
  BY DEF Sound
<1>4. \A b \in Blocks : D[b] = data[b]
  BY <1>1, <1>3 DEF MemorySound, DataArrives, ToBlock
<1>b. /\ \A i \in Inodes, k \in Slots : mem.blocks[i][k] \in Blocks \cup {0}
      /\ \A i \in Inodes, k \in Slots : disk.blocks[i][k] \in {0, mem.blocks[i][k]}
      /\ \A i \in Inodes, k \in Slots : disk'.blocks[i][k] \in {0, mem.blocks[i][k]}
      /\ 0 \notin Blocks
  <2>1. \A i \in Inodes, k \in Slots : mem.blocks[i][k] \in Blocks \cup {0}
    BY MetaFields DEF Sound, Typed
  <2>2. \A i \in Inodes, k \in Slots : disk.blocks[i][k] \in {0, mem.blocks[i][k]}
    BY DEF DiskSound, DiskBehind
  <2>3. 0 \notin Blocks
    BY Sizes DEF Blocks
  <2>. QED
    BY <1>f, <2>1, <2>2, <2>3
<1>5. Exclusive(disk')
  <2>0. Exclusive(mem) /\ Exclusive(disk)
    BY DEF Sound, DiskSound
  <2>1. ASSUME NEW i \in Inodes, NEW j \in Inodes, NEW k \in Slots, NEW l \in Slots,
               disk'.blocks[i][k] # 0, disk'.blocks[i][k] = disk'.blocks[j][l]
        PROVE  i = j /\ k = l
    <3>1. disk'.blocks[i][k] = mem.blocks[i][k] /\ disk'.blocks[j][l] = mem.blocks[j][l]
      BY <1>b, <2>1
    <3>2. mem.blocks[i][k] # 0 /\ mem.blocks[i][k] = mem.blocks[j][l]
      BY <2>1, <3>1
    <3>. QED
      BY <2>0, <3>2, Zenon DEF Exclusive
  <2>2. ASSUME NEW i \in Inodes, NEW k \in Slots, disk'.blocks[i][k] # 0
        PROVE  disk'.bitmap[disk'.blocks[i][k]] = 1
    <3>1. disk'.blocks[i][k] = mem.blocks[i][k]
      BY <1>b, <2>2
    <3>. QED
      BY <1>f, <1>2, <2>2, <2>0, <3>1 DEF Exclusive
  <2>3. ASSUME NEW i \in Inodes, NEW k \in Slots, disk'.type[i] = "free"
        PROVE  disk'.blocks[i][k] = 0
    BY <1>f, <2>0, <2>3 DEF Exclusive
  <2>4. disk'.type[Root] = "dir"
    <3>1. Root \in Inodes
      BY Sizes DEF Root, Inodes
    <3>. QED
      BY <1>f, <2>0, <3>1 DEF Exclusive
  <2>. QED
    BY <2>1, <2>2, <2>3, <2>4 DEF Exclusive
<1>6. Counted(disk')
  <2>1. FreeBlocks(disk') = FreeBlocks(disk)
    BY <1>f DEF FreeBlocks
  <2>2. Held(disk') \subseteq Held(mem)
    BY <1>b DEF Held
  <2>3. /\ Cardinality(Held(disk')) <= Cardinality(Held(mem))
        /\ Cardinality(Held(disk')) \in Nat /\ Cardinality(Held(mem)) \in Nat
    BY <2>2, HeldLess, CountsTyped
  <2>4. mem.free_blocks \in Nat /\ BLOCKS \in Nat
    BY MetaFields, Sizes DEF Sound, Typed
  <2>5. disk'.free_blocks = mem.free_blocks
        /\ mem.free_blocks + Cardinality(Held(mem)) <= BLOCKS
    BY <1>f, <1>2 DEF Sound, Counted
  <2>6. disk'.free_blocks + Cardinality(Held(disk')) <= BLOCKS
    BY <2>3, <2>4, <2>5
  <2>7. Cardinality(FreeBlocks(disk')) <= disk'.free_blocks
    BY <1>f, <2>1 DEF DiskSound, Counted
  <2>. QED
    BY <2>6, <2>7 DEF Counted
<1>7. DirsSound(disk', data)
  <2>1. ASSUME NEW i \in Inodes, disk'.type[i] = "dir" PROVE DirSound(disk', data, i)
    <3>1. CASE /\ disk'.type[i] = disk.type[i] /\ disk'.size[i] = disk.size[i]
               /\ disk'.blocks[i] = disk.blocks[i]
      <4>1. DirSound(disk, data, i)
        BY <2>1, <3>1 DEF DiskSound, DirsSound
      <4>. QED
        BY <3>1, <4>1, SameDir
    <3>2. CASE /\ disk'.type[i] = mem.type[i] /\ disk'.size[i] = mem.size[i]
               /\ disk'.blocks[i] = mem.blocks[i]
      <4>1. DirSound(mem, D, i)
        BY <1>3, <2>1, <3>2 DEF MemorySound, DirsSound
      <4>2. \A k \in Slots : mem.blocks[i][k] # 0 => D[mem.blocks[i][k]] = data[mem.blocks[i][k]]
        BY <1>4, <1>b
      <4>. QED
        BY <3>2, <4>1, <4>2, SameDir
    <3>. QED
      BY <1>f, <3>1, <3>2
  <2>. QED
    BY <2>1 DEF DirsSound
<1>8. DiskBehind'
  BY <1>b, <1>u DEF DiskBehind
<1>9. WritesSafe'
  <2>1. \A n \in Coming' : pending'[n].to = "inodes"
    BY <1>w, <1>1
  <2>. QED
    BY <2>1 DEF WritesSafe, CountsSafe, CellsSafe, ToBlock
<1>. QED
  BY <1>5, <1>6, <1>7, <1>8, <1>9, <1>w DEF DiskSound

\* A bitmap or a superblock: the other writes of the operation stay safe.
LEMMA FlushCounts ==
  ASSUME Sound, DiskSound, flush, op' = op, pending[1].to \in {"bitmap", "super"}
  PROVE  DiskSound'
<1>w. /\ 1 \in Coming /\ Len(pending) \in Nat
      /\ \A n \in Coming' : n \in Nat /\ n + 1 \in Coming /\ pending'[n] = pending[n + 1]
      /\ \A k \in Coming : k # 1 => k - 1 \in Coming' /\ pending'[k - 1] = pending[k]
      /\ \A k \in Coming : k \in Nat
      /\ data' = data
  BY FlushShifts DEF Sound
<1>u. UNCHANGED <<mem, written, op>>
  BY DEF flush
<1>f. /\ disk'.bitmap = IF pending[1].to = "bitmap" THEN pending[1].bitmap ELSE disk.bitmap
      /\ disk'.free_blocks = IF pending[1].to = "super" THEN pending[1].free_blocks
                             ELSE disk.free_blocks
      /\ \A i \in Inodes : /\ disk'.type[i] = disk.type[i] /\ disk'.size[i] = disk.size[i]
                           /\ disk'.blocks[i] = disk.blocks[i]
  BY InodesFlushed
<1>s. WritesSafe /\ DiskBehind /\ Exclusive(disk) /\ Counted(disk) /\ DirsSound(disk, data)
  BY DEF DiskSound
<1>h. Held(disk') = Held(disk)
  BY <1>f DEF Held
<1>n. /\ pending[1].to = "bitmap" => FreeBlocks(disk') = Unmarked(1)
      /\ pending[1].to # "bitmap" => FreeBlocks(disk') = FreeBlocks(disk)
      /\ \A n \in Coming' : Unmarked(n)' = Unmarked(n + 1)
  BY <1>f, <1>w DEF FreeBlocks, Unmarked
<1>1. Exclusive(disk')
  <2>1. \A i \in Inodes, k \in Slots : disk.blocks[i][k] # 0 => disk'.bitmap[disk.blocks[i][k]] = 1
    <3>1. CASE pending[1].to = "bitmap"
      BY <1>f, <1>s, <1>w, <3>1 DEF WritesSafe, CountsSafe, CellsSafe
    <3>2. CASE pending[1].to # "bitmap"
      BY <1>f, <1>s, <3>2 DEF Exclusive
    <3>. QED
      BY <3>1, <3>2
  <2>2. Root \in Inodes
    BY Sizes DEF Root, Inodes
  <2>. QED
    BY <1>f, <1>s, <2>1, <2>2 DEF Exclusive
<1>2. Counted(disk')
  <2>1. CASE pending[1].to = "bitmap"
    <3>1. Cardinality(Unmarked(1)) <= disk.free_blocks
      BY <1>s, <1>w, <2>1 DEF WritesSafe, CountsSafe, CellsSafe
    <3>. QED
      BY <1>f, <1>h, <1>n, <1>s, <2>1, <3>1 DEF Counted
  <2>2. CASE pending[1].to = "super"
    <3>1. /\ pending[1].free_blocks + Cardinality(Held(disk)) <= BLOCKS
          /\ Cardinality(FreeBlocks(disk)) <= pending[1].free_blocks
      BY <1>s, <1>w, <2>2 DEF WritesSafe, CountsSafe, CellsSafe
    <3>. QED
      BY <1>f, <1>h, <1>n, <2>2, <3>1 DEF Counted
  <2>. QED
    BY <2>1, <2>2
<1>3. DirsSound(disk', data)
  <2>1. ASSUME NEW i \in Inodes, disk'.type[i] = "dir" PROVE DirSound(disk', data, i)
    <3>1. DirSound(disk, data, i)
      BY <1>f, <1>s, <2>1 DEF DirsSound
    <3>. QED
      BY <1>f, <3>1, SameDir
  <2>. QED
    BY <2>1 DEF DirsSound
<1>4. DiskBehind'
  BY <1>f, <1>s, <1>u DEF DiskBehind
<1>5. WritesSafe'
  <2>1. ASSUME NEW n \in Coming', NEW k \in Coming', n < k, pending'[n].to = "inodes"
        PROVE  pending'[k].to = "inodes"
    <3>1. n + 1 \in Coming /\ k + 1 \in Coming /\ n + 1 < k + 1
      BY <1>w, <2>1
    <3>2. pending[n + 1].to = "inodes" /\ pending'[k] = pending[k + 1]
      BY <1>w, <2>1
    <3>3. pending[k + 1].to = "inodes"
      BY <1>s, <3>1, <3>2, Zenon DEF WritesSafe, CountsSafe, CellsSafe
    <3>. QED
      BY <3>2, <3>3
  <2>2. ASSUME NEW n \in Coming', pending'[n].to = "bitmap"
        PROVE  /\ \A i \in Inodes, k \in Slots :
                    disk'.blocks[i][k] # 0 => pending'[n].bitmap[disk'.blocks[i][k]] = 1
               /\ Cardinality(Unmarked(n)') <= disk'.free_blocks
               /\ \A k \in Coming' : k < n /\ pending'[k].to = "super" =>
                    Cardinality(Unmarked(n)') <= pending'[k].free_blocks
    <3>1. n + 1 \in Coming /\ pending[n + 1].to = "bitmap" /\ pending'[n] = pending[n + 1]
      BY <1>w, <2>2
    <3>2. \A i \in Inodes, k \in Slots :
            disk'.blocks[i][k] # 0 => pending'[n].bitmap[disk'.blocks[i][k]] = 1
      BY <1>f, <1>s, <3>1 DEF WritesSafe, CountsSafe, CellsSafe
    <3>3. Cardinality(Unmarked(n + 1)) <= disk'.free_blocks
      <4>1. 1 < n + 1
        BY <1>w, <2>2 DEF Coming
      <4>. QED
        BY <1>f, <1>s, <1>w, <3>1, <4>1 DEF WritesSafe, CountsSafe, CellsSafe
    <3>4. ASSUME NEW k \in Coming', k < n, pending'[k].to = "super"
          PROVE  Cardinality(Unmarked(n + 1)) <= pending'[k].free_blocks
      <4>1. k + 1 \in Coming /\ k + 1 < n + 1 /\ pending'[k] = pending[k + 1]
        BY <1>w, <3>4
      <4>. QED
        BY <1>s, <3>1, <3>4, <4>1 DEF WritesSafe, CountsSafe, CellsSafe
    <3>. QED
      BY <1>n, <3>2, <3>3, <3>4
  <2>3. ASSUME NEW n \in Coming', pending'[n].to = "super"
        PROVE  /\ pending'[n].free_blocks + Cardinality(Held(disk')) <= BLOCKS
               /\ IF n = 1 THEN Cardinality(FreeBlocks(disk')) <= pending'[n].free_blocks
                  ELSE /\ pending'[n - 1].to = "bitmap"
                       /\ Cardinality(Unmarked(n - 1)') <= pending'[n].free_blocks
    <3>1. /\ n + 1 \in Coming /\ pending[n + 1].to = "super" /\ pending'[n] = pending[n + 1]
          /\ n \in Nat /\ n + 1 # 1 /\ (n + 1) - 1 = n /\ n >= 1
      BY <1>w, <2>3 DEF Coming
    <3>2. /\ pending[n + 1].free_blocks + Cardinality(Held(disk)) <= BLOCKS
          /\ pending[n].to = "bitmap"
          /\ Cardinality(Unmarked(n)) <= pending[n + 1].free_blocks
      BY <1>s, <3>1 DEF WritesSafe, CountsSafe, CellsSafe
    <3>3. CASE n = 1
      BY <1>h, <1>n, <3>1, <3>2, <3>3
    <3>4. CASE n # 1
      <4>1. n \in Coming
        BY <1>w, <3>1 DEF Coming
      <4>2. n - 1 \in Coming' /\ pending'[n - 1] = pending[n] /\ (n - 1) + 1 = n
        BY <1>w, <3>1, <3>4, <4>1
      <4>3. Unmarked(n - 1)' = Unmarked(n)
        BY <1>n, <4>2
      <4>. QED
        BY <1>h, <3>1, <3>2, <3>4, <4>2, <4>3
    <3>. QED
      BY <3>3, <3>4
  <2>4. ASSUME NEW n \in Coming', NEW i \in Inodes, NEW k \in Slots,
               disk'.type[i] = "dir", disk'.blocks[i][k] # 0, ToBlock(n, disk.blocks[i][k])'
        PROVE  /\ \A c \in Cells : /\ IsEntry(pending'[n].cells[c])
                                   /\ data[disk'.blocks[i][k]][c].inode # 0 =>
                                        pending'[n].cells[c].inode # 0
               /\ \A l \in Coming' : ToBlock(l, disk.blocks[i][k])' => l = n
    <3>1. /\ n + 1 \in Coming /\ pending'[n] = pending[n + 1]
          /\ disk.type[i] = "dir" /\ disk.blocks[i][k] # 0 /\ disk'.blocks[i][k] = disk.blocks[i][k]
          /\ ToBlock(n + 1, disk.blocks[i][k])
      BY <1>f, <1>w, <2>4 DEF ToBlock
    <3>2. /\ \A c \in Cells : /\ IsEntry(pending[n + 1].cells[c])
                              /\ data[disk.blocks[i][k]][c].inode # 0 =>
                                   pending[n + 1].cells[c].inode # 0
          /\ \A l \in Coming : ToBlock(l, disk.blocks[i][k]) => l = n + 1
      BY <1>s, <3>1 DEF WritesSafe, CountsSafe, CellsSafe
    <3>3. ASSUME NEW l \in Coming', ToBlock(l, disk.blocks[i][k])' PROVE l = n
      <4>1. l + 1 \in Coming /\ ToBlock(l + 1, disk.blocks[i][k]) /\ l \in Nat /\ n \in Nat
        BY <1>w, <3>1, <3>3 DEF ToBlock
      <4>2. l + 1 = n + 1
        BY <3>2, <4>1
      <4>. QED
        BY <4>1, <4>2
    <3>. QED
      BY <3>1, <3>2, <3>3
  <2>. QED
    BY <1>w, <2>1, <2>2, <2>3, <2>4 DEF WritesSafe, CountsSafe, CellsSafe
<1>. QED
  BY <1>w, <1>1, <1>2, <1>3, <1>4, <1>5 DEF DiskSound

\* A data block: a directory on the disk that has it only gets entries.
LEMMA FlushBlock ==
  ASSUME Sound, DiskSound, flush, op' = op, pending[1].to = "data"
  PROVE  DiskSound'
<1>w. /\ 1 \in Coming /\ Len(pending) \in Nat /\ pending[1] \in Writes
      /\ \A n \in Coming' : n \in Nat /\ n + 1 \in Coming /\ pending'[n] = pending[n + 1]
      /\ \A k \in Coming : k # 1 => k - 1 \in Coming' /\ pending'[k - 1] = pending[k]
      /\ \A k \in Coming : k \in Nat
      /\ data' = [data EXCEPT ![pending[1].block] = pending[1].cells]
      /\ disk' = Stored(disk, pending[1])
  BY FlushShifts DEF Sound
<1>u. UNCHANGED <<mem, written, op, disk>>
  BY <1>w DEF flush, Stored
<1>d. \A b \in Blocks : data'[b] = IF ToBlock(1, b) THEN pending[1].cells ELSE data[b]
  BY <1>w DEF Sound, Typed, ToBlock
<1>s. WritesSafe /\ DiskBehind /\ Exclusive(disk) /\ Counted(disk) /\ DirsSound(disk, data)
  BY DEF DiskSound
<1>t. \A i \in Inodes, k \in Slots : disk.blocks[i][k] \in Blocks \cup {0}
  BY MetaFields DEF Sound, Typed
<1>n. \A n \in Coming' : Unmarked(n)' = Unmarked(n + 1)
  BY <1>w DEF Unmarked
<1>3. DirsSound(disk, data')
  <2>1. ASSUME NEW i \in Inodes, disk.type[i] = "dir" PROVE DirSound(disk, data', i)
    <3>1. DirSound(disk, data, i)
      BY <1>s, <2>1 DEF DirsSound
    <3>2. ASSUME NEW k \in Slots, NEW c \in Cells, disk.blocks[i][k] # 0
          PROVE  /\ IsEntry(data'[disk.blocks[i][k]][c])
                 /\ data[disk.blocks[i][k]][c].inode # 0 => data'[disk.blocks[i][k]][c].inode # 0
      <4>1. CASE ToBlock(1, disk.blocks[i][k])
        <5>1. /\ IsEntry(pending[1].cells[c])
              /\ data[disk.blocks[i][k]][c].inode # 0 => pending[1].cells[c].inode # 0
          BY <1>s, <1>w, <2>1, <3>2, <4>1 DEF WritesSafe, CountsSafe, CellsSafe
        <5>2. data'[disk.blocks[i][k]] = pending[1].cells
          BY <1>d, <1>t, <3>2, <4>1
        <5>. QED
          BY <5>1, <5>2
      <4>2. CASE ~ToBlock(1, disk.blocks[i][k])
        <5>1. data'[disk.blocks[i][k]] = data[disk.blocks[i][k]]
          BY <1>d, <1>t, <3>2, <4>2
        <5>. QED
          BY <3>1, <3>2, <5>1 DEF DirSound
      <4>. QED
        BY <4>1, <4>2
    <3>. QED
      BY <3>1, <3>2, FullerDir
  <2>. QED
    BY <2>1 DEF DirsSound
<1>4. DiskBehind'
  BY <1>s, <1>u DEF DiskBehind
<1>5. WritesSafe'
  <2>1. ASSUME NEW n \in Coming', NEW k \in Coming', n < k, pending'[n].to = "inodes"
        PROVE  pending'[k].to = "inodes"
    <3>1. n + 1 \in Coming /\ k + 1 \in Coming /\ n + 1 < k + 1
      BY <1>w, <2>1
    <3>2. pending[n + 1].to = "inodes" /\ pending'[k] = pending[k + 1]
      BY <1>w, <2>1
    <3>3. pending[k + 1].to = "inodes"
      BY <1>s, <3>1, <3>2, Zenon DEF WritesSafe, CountsSafe, CellsSafe
    <3>. QED
      BY <3>2, <3>3
  <2>2. ASSUME NEW n \in Coming', pending'[n].to = "bitmap"
        PROVE  /\ \A i \in Inodes, k \in Slots :
                    disk.blocks[i][k] # 0 => pending'[n].bitmap[disk.blocks[i][k]] = 1
               /\ Cardinality(Unmarked(n)') <= disk.free_blocks
               /\ \A k \in Coming' : k < n /\ pending'[k].to = "super" =>
                    Cardinality(Unmarked(n)') <= pending'[k].free_blocks
    <3>1. n + 1 \in Coming /\ pending[n + 1].to = "bitmap" /\ pending'[n] = pending[n + 1]
      BY <1>w, <2>2
    <3>2. /\ \A i \in Inodes, k \in Slots :
               disk.blocks[i][k] # 0 => pending'[n].bitmap[disk.blocks[i][k]] = 1
          /\ Cardinality(Unmarked(n + 1)) <= disk.free_blocks
      BY <1>s, <3>1 DEF WritesSafe, CountsSafe, CellsSafe
    <3>4. ASSUME NEW k \in Coming', k < n, pending'[k].to = "super"
          PROVE  Cardinality(Unmarked(n + 1)) <= pending'[k].free_blocks
      <4>1. k + 1 \in Coming /\ k + 1 < n + 1 /\ pending'[k] = pending[k + 1]
        BY <1>w, <3>4
      <4>. QED
        BY <1>s, <3>1, <3>4, <4>1 DEF WritesSafe, CountsSafe, CellsSafe
    <3>. QED
      BY <1>n, <3>2, <3>4
  <2>3. ASSUME NEW n \in Coming', pending'[n].to = "super"
        PROVE  /\ pending'[n].free_blocks + Cardinality(Held(disk)) <= BLOCKS
               /\ n # 1 /\ pending'[n - 1].to = "bitmap"
               /\ Cardinality(Unmarked(n - 1)') <= pending'[n].free_blocks
    <3>1. /\ n + 1 \in Coming /\ pending[n + 1].to = "super" /\ pending'[n] = pending[n + 1]
          /\ n \in Nat /\ n + 1 # 1 /\ (n + 1) - 1 = n /\ n >= 1
      BY <1>w, <2>3 DEF Coming
    <3>2. /\ pending[n + 1].free_blocks + Cardinality(Held(disk)) <= BLOCKS
          /\ pending[n].to = "bitmap"
          /\ Cardinality(Unmarked(n)) <= pending[n + 1].free_blocks
      BY <1>s, <3>1 DEF WritesSafe, CountsSafe, CellsSafe
    <3>3. n # 1
      BY <3>2
    <3>4. n \in Coming
      BY <1>w, <3>1 DEF Coming
    <3>5. n - 1 \in Coming' /\ pending'[n - 1] = pending[n] /\ (n - 1) + 1 = n
      BY <1>w, <3>1, <3>3, <3>4
    <3>6. Unmarked(n - 1)' = Unmarked(n)
      BY <1>n, <3>5
    <3>. QED
      BY <3>1, <3>2, <3>3, <3>5, <3>6
  <2>4. ASSUME NEW n \in Coming', NEW i \in Inodes, NEW k \in Slots,
               disk.type[i] = "dir", disk.blocks[i][k] # 0, ToBlock(n, disk.blocks[i][k])'
        PROVE  /\ \A c \in Cells : /\ IsEntry(pending'[n].cells[c])
                                   /\ data'[disk.blocks[i][k]][c].inode # 0 =>
                                        pending'[n].cells[c].inode # 0
               /\ \A l \in Coming' : ToBlock(l, disk.blocks[i][k])' => l = n
    <3>1. /\ n + 1 \in Coming /\ pending'[n] = pending[n + 1] /\ n \in Nat /\ n >= 1
          /\ ToBlock(n + 1, disk.blocks[i][k])
      BY <1>u, <1>w, <2>4 DEF ToBlock, Coming
    <3>2. /\ \A c \in Cells : /\ IsEntry(pending[n + 1].cells[c])
                              /\ data[disk.blocks[i][k]][c].inode # 0 =>
                                   pending[n + 1].cells[c].inode # 0
          /\ \A l \in Coming : ToBlock(l, disk.blocks[i][k]) => l = n + 1
      BY <1>s, <2>4, <3>1 DEF WritesSafe, CountsSafe, CellsSafe
    <3>3. ASSUME NEW l \in Coming', ToBlock(l, disk.blocks[i][k])' PROVE l = n
      <4>1. l + 1 \in Coming /\ ToBlock(l + 1, disk.blocks[i][k]) /\ l \in Nat /\ n \in Nat
        BY <1>u, <1>w, <3>1, <3>3 DEF ToBlock
      <4>2. l + 1 = n + 1
        BY <3>2, <4>1
      <4>. QED
        BY <4>1, <4>2
    <3>4. ~ToBlock(1, disk.blocks[i][k])
      BY <1>w, <3>1, <3>2
    <3>5. data'[disk.blocks[i][k]] = data[disk.blocks[i][k]]
      BY <1>d, <1>t, <2>4, <3>4
    <3>. QED
      BY <3>1, <3>2, <3>3, <3>5
  <2>. QED
    BY <1>u, <2>1, <2>2, <2>3, <2>4 DEF WritesSafe, CountsSafe, CellsSafe
<1>. QED
  BY <1>s, <1>u, <1>3, <1>4, <1>5 DEF DiskSound

\* The files that the operation leaves alone stay on the disk.
LEMMA FlushFiles ==
  ASSUME Sound, FilesOnDisk, flush, op' = op
  PROVE  FilesOnDisk'
<1>w. \A n \in Coming' : n + 1 \in Coming /\ pending'[n] = pending[n + 1]
  BY FlushShifts DEF Sound
<1>u. UNCHANGED <<mem, written, op>>
  BY DEF flush
<1>d. PICK D \in [Blocks -> Contents] : MemorySound(D)
  BY DEF Sound
<1>1. ASSUME NEW i \in Inodes, NEW k \in Slots, i # op.ino, written[i][k] # 0
      PROVE  /\ disk'.type[i] = "file" /\ k <= disk'.size[i]
             /\ disk'.blocks[i][k] = mem.blocks[i][k]
             /\ \A n \in Coming' : ~ToBlock(n, mem.blocks[i][k])'
  <2>1. /\ disk.type[i] = "file" /\ k <= disk.size[i]
        /\ disk.blocks[i][k] = mem.blocks[i][k]
        /\ \A n \in Coming : ~ToBlock(n, mem.blocks[i][k])
    BY <1>1 DEF FilesOnDisk
  <2>2. mem.type[i] = "file" /\ k <= mem.size[i]
    BY <1>1, <1>d DEF MemorySound, Keeps
  <2>3. /\ disk'.type[i] = "file" /\ k <= disk'.size[i]
        /\ disk'.blocks[i][k] = mem.blocks[i][k]
    BY <2>1, <2>2, InodesFlushed
  <2>4. \A n \in Coming' : ~ToBlock(n, mem.blocks[i][k])'
    BY <1>u, <1>w, <2>1 DEF ToBlock
  <2>. QED
    BY <2>3, <2>4
<1>. QED
  BY <1>1, <1>u DEF FilesOnDisk

\* A sector write of pafs_delete before the bitmap leaves no block in use unmarked.
LEMMA FlushAhead ==
  ASSUME Sound, DiskAhead, flush, op' = op, Len(pending) # 1
  PROVE  DiskAhead'
<1>w. /\ Len(pending) \in Nat /\ Len(pending') = Len(pending) - 1 /\ 1 \in Coming
      /\ \A n \in Coming' : n \in Nat /\ n + 1 \in Coming /\ pending'[n] = pending[n + 1]
  BY FlushShifts DEF Sound
<1>u. UNCHANGED mem
  BY DEF flush
<1>f. /\ \A i \in Inodes :
           \/ disk'.type[i] = disk.type[i] /\ disk'.blocks[i] = disk.blocks[i]
           \/ disk'.type[i] = mem.type[i] /\ disk'.blocks[i] = mem.blocks[i]
      /\ pending[1].to # "bitmap" => disk'.bitmap = disk.bitmap
  BY InodesFlushed
<1>a. /\ \A i \in Inodes, k \in Slots : mem.blocks[i][k] \in {0, disk.blocks[i][k]}
      /\ \A n \in Coming : pending[n].to = "bitmap" => n + 1 = Len(pending)
      /\ Exclusive(disk) /\ Exclusive(mem)
  BY DEF DiskAhead, Sound
<1>1. \A i \in Inodes, k \in Slots : mem.blocks[i][k] \in {0, disk'.blocks[i][k]}
  BY <1>a, <1>f
<1>2. \A n \in Coming' : pending'[n].to = "bitmap" => n + 1 = Len(pending')
  <2>1. ASSUME NEW n \in Coming', pending'[n].to = "bitmap" PROVE n + 1 = Len(pending) - 1
    <3>1. n \in Nat /\ (n + 1) + 1 = Len(pending)
      BY <1>a, <1>w, <2>1
    <3>. QED
      BY <1>w, <3>1
  <2>. QED
    BY <1>w, <2>1
<1>3. ASSUME Len(pending') # 1 PROVE Exclusive(disk')
  <2>1. disk'.bitmap = disk.bitmap
    <3>1. pending[1].to # "bitmap"
      BY <1>3, <1>a, <1>w
    <3>. QED
      BY <1>f, <3>1
  <2>2. \A i \in Inodes, k \in Slots : disk'.blocks[i][k] \in {0, disk.blocks[i][k]}
    BY <1>a, <1>f
  <2>3. ASSUME NEW i \in Inodes, NEW j \in Inodes, NEW k \in Slots, NEW l \in Slots,
               disk'.blocks[i][k] # 0, disk'.blocks[i][k] = disk'.blocks[j][l]
        PROVE  i = j /\ k = l
    <3>1. disk.blocks[i][k] # 0 /\ disk.blocks[i][k] = disk.blocks[j][l]
      BY <2>2, <2>3
    <3>2. Exclusive(disk)
      BY <1>a
    <3>. QED
      BY <3>1, <3>2, Zenon DEF Exclusive
  <2>4. \A i \in Inodes, k \in Slots :
          disk'.blocks[i][k] # 0 => disk'.bitmap[disk'.blocks[i][k]] = 1
    BY <1>a, <2>1, <2>2 DEF Exclusive
  <2>5. \A i \in Inodes, k \in Slots : disk'.type[i] = "free" => disk'.blocks[i][k] = 0
    BY <1>a, <1>f DEF Exclusive
  <2>6. disk'.type[Root] = "dir"
    <3>1. Root \in Inodes
      BY Sizes DEF Root, Inodes
    <3>. QED
      BY <1>a, <1>f, <3>1 DEF Exclusive
  <2>. QED
    BY <2>3, <2>4, <2>5, <2>6 DEF Exclusive
<1>. QED
  BY <1>u, <1>1, <1>2, <1>3 DEF DiskAhead

\* flush preserves the invariant.
LEMMA FlushInv == Sound /\ flush => Sound'
<1>. SUFFICES ASSUME Sound, flush PROVE Sound'
  OBVIOUS
<1>i. /\ Typed /\ InProgress /\ MetaArrives /\ Exclusive(mem) /\ Counted(mem) /\ InodesSaved
      /\ failed = 0 => Exact(mem) /\ InodesCounted
      /\ op # NoOp => FilesOnDisk
      /\ op.kind \in {"create", "write"} => DiskSound
      /\ op.kind = "delete" => DiskAhead
  BY DEF Sound
<1>u. UNCHANGED <<mem, written, failed>>
  BY DEF flush
<1>1. Typed' /\ InProgress' /\ MetaArrives' /\ InodesSaved'
  BY <1>i, FlushTyped, FlushArrives, FlushSaved
<1>2. PICK D \in [Blocks -> Contents] : MemorySound(D)
  BY DEF Sound
<1>3. MemorySound(D)'
  <2>1. DataArrives(D)'
    BY <1>i, <1>2, FlushData DEF MemorySound
  <2>. QED
    BY <1>2, <1>u, <2>1 DEF MemorySound
<1>4. failed' = 0 => Exact(mem') /\ InodesCounted'
  BY <1>i, <1>u DEF InodesCounted
<1>o. /\ op' # NoOp => op' = op /\ Len(pending) # 1
      /\ op'.kind \in {"create", "write", "delete"} => op' # NoOp
  BY DEF flush, NoOp
<1>5. op'.kind \in {"create", "write"} => DiskSound'
  <2>1. SUFFICES ASSUME op'.kind \in {"create", "write"} PROVE DiskSound'
    OBVIOUS
  <2>2. op' = op
    BY <1>o, <2>1
  <2>3. DiskSound
    BY <1>i, <2>1, <2>2
  <2>4. pending[1].to \in {"super", "bitmap", "inodes", "data"}
    BY <1>i, FlushShifts, WriteFields
  <2>. QED
    BY <2>2, <2>3, <2>4, FlushInodes, FlushCounts, FlushBlock
<1>6. op'.kind = "delete" => DiskAhead'
  BY <1>i, <1>o, FlushAhead
<1>7. op' # NoOp => FilesOnDisk'
  BY <1>i, <1>o, FlushFiles
<1>. QED
  BY <1>i, <1>u, <1>1, <1>2, <1>3, <1>4, <1>5, <1>6, <1>7 DEF Sound

-----------------------------------------------------------------------------
\* When an operation has returned, the disk is as the memory.
LEMMA IdleFacts ==
  ASSUME Sound, Idle
  PROVE  /\ pending = <<>>
         /\ mem \in Metadata /\ disk \in Metadata /\ data \in [Blocks -> Contents]
         /\ disk.type = mem.type /\ disk.size = mem.size /\ disk.blocks = mem.blocks
         /\ disk.bitmap = mem.bitmap /\ disk.free_blocks = mem.free_blocks
         /\ DirsSound(mem, data) /\ Keeps(mem, data, written)
         /\ disk.free_inodes >= mem.free_inodes
         /\ failed = 0 => Listed(mem, data)
<1>1. pending = <<>> /\ Coming = {}
  BY DEF Sound, InProgress, Idle, Coming
<1>2. mem \in Metadata /\ disk \in Metadata /\ data \in [Blocks -> Contents]
  BY DEF Sound, Typed
<1>3. /\ \A i \in Inodes : /\ disk.type[i] = mem.type[i] /\ disk.size[i] = mem.size[i]
                           /\ disk.blocks[i] = mem.blocks[i]
      /\ disk.bitmap = mem.bitmap /\ disk.free_blocks = mem.free_blocks
  BY <1>1 DEF Sound, MetaArrives
<1>4. disk.type = mem.type /\ disk.size = mem.size /\ disk.blocks = mem.blocks
  <2>1. /\ disk.type \in [Inodes -> {"free", "file", "dir"}]
        /\ mem.type \in [Inodes -> {"free", "file", "dir"}]
        /\ disk.size \in [Inodes -> 0 .. SLOTS * PER_BLOCK]
        /\ mem.size \in [Inodes -> 0 .. SLOTS * PER_BLOCK]
        /\ disk.blocks \in [Inodes -> [Slots -> Blocks \cup {0}]]
        /\ mem.blocks \in [Inodes -> [Slots -> Blocks \cup {0}]]
    BY <1>2, MetaFields
  <2>. QED
    BY <1>3, <2>1
<1>5. PICK D \in [Blocks -> Contents] : MemorySound(D)
  BY DEF Sound
<1>6. D = data
  <2>1. \A b \in Blocks : D[b] = data[b]
    BY <1>1, <1>5 DEF MemorySound, DataArrives
  <2>. QED
    BY <1>2, <2>1
<1>7. disk.free_inodes >= mem.free_inodes
  BY <1>1 DEF Sound, InodesSaved
<1>. QED
  BY <1>1, <1>2, <1>3, <1>4, <1>5, <1>6, <1>7 DEF MemorySound

\* What a format leaves in memory.
LEMMA FormattedSound ==
  ASSUME NEW D \in [Blocks -> Contents], D[1] = Zeroed
  PROVE  /\ Formatted \in Metadata
         /\ Exclusive(Formatted) /\ Counted(Formatted) /\ Exact(Formatted)
         /\ DirsSound(Formatted, D) /\ Listed(Formatted, D)
         /\ Keeps(Formatted, D, [i \in Inodes |-> NoBlocks])
         /\ Formatted.free_inodes = Cardinality(FreeInodes(Formatted))
         /\ Formatted.free_inodes = INODES - 1 /\ Formatted.free_blocks = BLOCKS - 1
<1>s. /\ INODES \in Nat /\ INODES > 0 /\ BLOCKS \in Nat /\ BLOCKS > 0
      /\ SLOTS \in Nat /\ SLOTS > 0 /\ INODES <= MAX_COUNT /\ MAX_COUNT \in Nat
      /\ 1 \in Blocks /\ 1 \in Slots /\ Root \in Inodes /\ Root = 0 /\ 0 \notin Blocks
      /\ SLOTS * PER_BLOCK \in Nat
  BY Sizes, RoomForFiles DEF Blocks, Slots, Root, Inodes
<1>f. /\ \A i \in Inodes : /\ Formatted.type[i] = IF i = Root THEN "dir" ELSE "free"
                           /\ Formatted.size[i] = 0
      /\ \A i \in Inodes, k \in Slots :
           Formatted.blocks[i][k] = IF i = Root /\ k = 1 THEN 1 ELSE 0
      /\ \A b \in Blocks : Formatted.bitmap[b] = IF b = 1 THEN 1 ELSE 0
      /\ Formatted.free_blocks = BLOCKS - 1 /\ Formatted.free_inodes = INODES - 1
  BY <1>s DEF Formatted, NoBlocks
<1>e. Empty.inode = 0
  BY DEF Empty
<1>1. Formatted \in Metadata
  <2>1. /\ Formatted.type \in [Inodes -> {"free", "file", "dir"}]
        /\ Formatted.size \in [Inodes -> 0 .. SLOTS * PER_BLOCK]
        /\ Formatted.bitmap \in [Blocks -> {0, 1}]
        /\ Formatted.free_blocks \in 0 .. BLOCKS /\ Formatted.free_inodes \in 0 .. MAX_COUNT
    BY <1>s DEF Formatted
  <2>2. Formatted.blocks \in [Inodes -> [Slots -> Blocks \cup {0}]]
    BY <1>s DEF Formatted, NoBlocks
  <2>. QED
    BY <2>1, <2>2 DEF Metadata, Formatted
<1>2. Exclusive(Formatted)
  <2>1. ASSUME NEW i \in Inodes, NEW j \in Inodes, NEW k \in Slots, NEW l \in Slots,
               Formatted.blocks[i][k] # 0, Formatted.blocks[i][k] = Formatted.blocks[j][l]
        PROVE  i = j /\ k = l
    BY <1>f, <2>1
  <2>2. /\ \A i \in Inodes, k \in Slots : Formatted.blocks[i][k] # 0 =>
             Formatted.bitmap[Formatted.blocks[i][k]] = 1
        /\ \A i \in Inodes, k \in Slots : Formatted.type[i] = "free" => Formatted.blocks[i][k] = 0
        /\ Formatted.type[Root] = "dir"
    BY <1>s, <1>f
  <2>. QED
    BY <2>1, <2>2 DEF Exclusive
<1>3. Held(Formatted) = {1} /\ FreeBlocks(Formatted) = Blocks \ {1}
  BY <1>s, <1>f DEF Held, FreeBlocks
<1>4. Cardinality(Held(Formatted)) = 1 /\ Cardinality(FreeBlocks(Formatted)) = BLOCKS - 1
  <2>1. Cardinality({1}) = 1
    BY FS_Singleton
  <2>2. Cardinality(Blocks \ {1}) = BLOCKS - 1
    BY <1>s, CountsTyped, FS_RemoveElement
  <2>. QED
    BY <1>3, <2>1, <2>2
<1>5. Counted(Formatted) /\ Exact(Formatted)
  BY <1>s, <1>f, <1>3, <1>4 DEF Counted, Exact
<1>6. \A p \in Places : Entry(Formatted, D, Root, p) = Empty
  <2>1. ASSUME NEW p \in Places PROVE Entry(Formatted, D, Root, p) = Empty
    <3>1. p[1] \in Slots /\ p[2] \in Cells
      BY DEF Places
    <3>. QED
      BY <1>s, <1>f, <3>1 DEF Entry, Zeroed
  <2>. QED
    BY <2>1
<1>7. DirsSound(Formatted, D)
  <2>1. \A j \in Indexes : ~(j < Formatted.size[Root])
    BY <1>s, <1>f DEF Indexes
  <2>2. ASSUME NEW c \in Cells PROVE IsEntry(D[1][c])
    <3>1. D[1][c] = Empty
      BY DEF Zeroed
    <3>. QED
      BY <1>s, <1>e, <3>1 DEF IsEntry
  <2>3. DirSound(Formatted, D, Root)
    BY <1>s, <1>f, <2>1, <2>2 DEF DirSound
  <2>. QED
    BY <1>f, <2>3 DEF DirsSound
<1>8. Listed(Formatted, D)
  <2>1. ASSUME NEW dir \in Inodes, Formatted.type[dir] = "dir", NEW i \in Indexes
        PROVE  i < Formatted.size[dir] <=> Entry(Formatted, D, dir, At(i)).inode # 0
    <3>1. dir = Root /\ Formatted.size[dir] = 0
      BY <1>f, <2>1
    <3>2. ~(i < 0)
      BY <1>s DEF Indexes
    <3>3. Entry(Formatted, D, Root, At(i)) = Empty
      BY <1>6, AtPlace, Zenon
    <3>4. Entry(Formatted, D, Root, At(i)).inode = 0
      BY <1>e, <3>3
    <3>. QED
      BY <3>1, <3>2, <3>4
  <2>. QED
    BY <2>1 DEF Listed
<1>9. Keeps(Formatted, D, [i \in Inodes |-> NoBlocks])
  BY DEF Keeps, NoBlocks
<1>10. Cardinality(FreeInodes(Formatted)) = INODES - 1
  <2>1. FreeInodes(Formatted) = Inodes \ {Root}
    BY <1>s, <1>f DEF FreeInodes
  <2>2. IsFiniteSet(Inodes) /\ Cardinality(Inodes) = INODES
    <3>1. INODES - 1 \in Int /\ ~(0 > INODES - 1) /\ ((INODES - 1) - 0) + 1 = INODES
      BY <1>s
    <3>2. /\ IsFiniteSet(0 .. INODES - 1)
          /\ Cardinality(0 .. INODES - 1) =
               IF 0 > INODES - 1 THEN 0 ELSE ((INODES - 1) - 0) + 1
      BY <3>1, FS_Interval
    <3>. QED
      BY <3>1, <3>2 DEF Inodes
  <2>. QED
    BY <1>s, <2>1, <2>2, FS_RemoveElement
<1>. QED
  BY <1>f, <1>1, <1>2, <1>5, <1>7, <1>8, <1>9, <1>10

\* A freshly formatted disk satisfies the invariant.
LEMMA InitInv == Init => Sound
<1>. SUFFICES ASSUME Init PROVE Sound
  OBVIOUS
<1>1. data \in [Blocks -> Contents] /\ data[1] = Zeroed
  <2>1. Zeroed \in Contents
    BY Sizes DEF Zeroed, Contents, Cell, Empty, Inodes
  <2>2. 1 \in Blocks
    BY Sizes DEF Blocks
  <2>. QED
    BY <2>1, <2>2 DEF Init
<1>2. /\ mem = Formatted /\ disk = Formatted /\ pending = <<>> /\ Coming = {} /\ failed = 0
      /\ op = NoOp /\ written = [i \in Inodes |-> NoBlocks]
  BY DEF Init, Coming
<1>3. Typed
  <2>1. written \in [Inodes -> [Slots -> Values \cup {0}]]
    BY <1>2 DEF NoBlocks
  <2>2. pending \in Seq(Writes)
    BY <1>2
  <2>. QED
    BY <1>1, <1>2, <2>1, <2>2, FormattedSound DEF Typed
<1>4. InProgress
  BY <1>2, Sizes DEF InProgress, NoOp, Root, Inodes
<1>5. MetaArrives
  BY <1>2 DEF MetaArrives
<1>6. MemorySound(data)
  BY <1>1, <1>2, FormattedSound DEF MemorySound, DataArrives
<1>7. InodesCounted /\ InodesSaved
  <2>1. Formatted.free_inodes \in Nat
    BY Sizes, FormattedSound, <1>1
  <2>. QED
    BY <1>1, <1>2, <2>1, FormattedSound DEF InodesCounted, InodesSaved
<1>. QED
  BY <1>1, <1>2, <1>3, <1>4, <1>5, <1>6, <1>7, FormattedSound DEF Sound, NoOp

\* What a restart leaves alone: the types, and the data.
LEMMA RebootTyped ==
  ASSUME Typed, InProgress, reboot
  PROVE  /\ Typed' /\ InProgress' /\ op' = NoOp /\ mem' = disk /\ disk' = disk /\ data' = data
         /\ Coming' = {}
<1>u. /\ mem' = disk /\ disk' = disk /\ data' = data /\ pending' = <<>> /\ op' = NoOp
      /\ Coming' = {}
  BY DEF reboot, Coming
<1>t. /\ mem \in Metadata /\ disk \in Metadata /\ data \in [Blocks -> Contents]
      /\ written \in [Inodes -> [Slots -> Values \cup {0}]] /\ failed \in 0 .. 2
      /\ op.ino \in Inodes
  BY DEF Typed, InProgress
<1>1. written' \in [Inodes -> [Slots -> Values \cup {0}]]
  BY <1>t DEF reboot, NoBlocks
<1>2. failed' \in 0 .. 2
  BY <1>t DEF reboot
<1>3. pending' \in Seq(Writes)
  BY <1>u
<1>4. Typed'
  BY <1>t, <1>u, <1>1, <1>2, <1>3 DEF Typed
<1>5. InProgress'
  BY <1>u, Sizes DEF InProgress, NoOp, Root, Inodes
<1>. QED
  BY <1>u, <1>4, <1>5

\* A restart between operations preserves the invariant.
LEMMA RestartInv ==
  ASSUME Sound, reboot, Idle
  PROVE  Sound'
<1>u. /\ Typed' /\ InProgress' /\ op' = NoOp /\ mem' = disk /\ disk' = disk /\ data' = data
      /\ Coming' = {} /\ disk \in Metadata /\ data \in [Blocks -> Contents]
  BY RebootTyped DEF Sound, Typed
<1>3. MetaArrives' /\ DataArrives(data)'
  BY <1>u DEF MetaArrives, DataArrives
<1>5. op'.kind \notin {"create", "write", "delete"}
  BY <1>u DEF NoOp
<1>6. InodesSaved'
  <2>1. disk.free_inodes \in Nat
    BY <1>u, MetaFields, Sizes
  <2>. QED
    BY <1>u, <2>1 DEF InodesSaved
<1>11. /\ disk.type = mem.type /\ disk.size = mem.size /\ disk.blocks = mem.blocks
      /\ disk.bitmap = mem.bitmap /\ disk.free_blocks = mem.free_blocks
  BY IdleFacts
<1>10. /\ DirsSound(mem, data) /\ Keeps(mem, data, written)
       /\ failed = 0 => Listed(mem, data)
  BY IdleFacts
<1>9. disk.free_inodes >= mem.free_inodes
  BY IdleFacts
<1>12. Exclusive(disk) /\ Counted(disk) /\ (failed = 0 => Exact(disk))
  <2>1. Held(disk) = Held(mem) /\ FreeBlocks(disk) = FreeBlocks(mem)
    BY <1>11 DEF Held, FreeBlocks
  <2>2. Exclusive(mem) /\ Counted(mem) /\ (failed = 0 => Exact(mem))
    BY DEF Sound
  <2>. QED
    BY <1>11, <2>1, <2>2 DEF Exclusive, Counted, Exact
<1>13. DirsSound(disk, data) /\ (failed = 0 => Listed(disk, data))
  BY <1>10, <1>11, ZenonT(40) DEF DirsSound, DirSound, Listed, Entry
<1>14. Keeps(disk, data, written)
  BY <1>10, <1>11 DEF Keeps
<1>15. failed' = failed /\ written' = written
  BY DEF reboot
<1>16. MemorySound(data)'
  BY <1>3, <1>u, <1>13, <1>14, <1>15 DEF MemorySound
<1>17. failed = 0 => InodesCounted'
  <2>1. FreeInodes(disk) = FreeInodes(mem)
    BY <1>11 DEF FreeInodes
  <2>2. PICK c \in Nat : c = Cardinality(FreeInodes(mem))
    BY CountsTyped
  <2>3. mem.free_inodes \in Nat /\ disk.free_inodes \in Nat
    BY MetaFields, Sizes DEF Sound, Typed
  <2>. QED
    BY <1>u, <1>9, <2>1, <2>2, <2>3 DEF InodesCounted, Sound
<1>. QED
  BY <1>u, <1>3, <1>5, <1>6, <1>12, <1>15, <1>16, <1>17 DEF Sound

\* After a power failure inside an operation what was written to the other files is read.
LEMMA CrashKeeps ==
  ASSUME Sound, reboot, ~Idle
  PROVE  Keeps(mem, data, written)'
<1>t. /\ mem \in Metadata /\ written \in [Inodes -> [Slots -> Values \cup {0}]]
      /\ op.ino \in Inodes /\ FilesOnDisk
  BY DEF Sound, Typed, InProgress, Idle
<1>u. /\ mem' = disk /\ data' = data
      /\ written' = [written EXCEPT ![op.ino] = NoBlocks]
  BY DEF reboot
<1>1. PICK D \in [Blocks -> Contents] : MemorySound(D)
  BY DEF Sound
<1>2. SUFFICES ASSUME NEW i \in Inodes, NEW k \in Slots, written'[i][k] # 0
               PROVE  /\ disk.type[i] = "file" /\ k <= disk.size[i] /\ disk.blocks[i][k] # 0
                      /\ data[disk.blocks[i][k]] = FileBlock(written'[i][k])
  BY <1>u DEF Keeps
<1>3. i # op.ino
  BY <1>t, <1>u, <1>2 DEF NoBlocks
<1>4. written'[i][k] = written[i][k]
  BY <1>t, <1>u, <1>3
<1>5. /\ disk.type[i] = "file" /\ k <= disk.size[i] /\ disk.blocks[i][k] = mem.blocks[i][k]
      /\ \A n \in Coming : ~ToBlock(n, mem.blocks[i][k])
  BY <1>t, <1>2, <1>3, <1>4 DEF FilesOnDisk
<1>6. mem.blocks[i][k] # 0 /\ D[mem.blocks[i][k]] = FileBlock(written[i][k])
  BY <1>1, <1>2, <1>4 DEF MemorySound, Keeps
<1>7. mem.blocks[i][k] \in Blocks
  BY <1>t, <1>6, MetaFields
<1>8. D[mem.blocks[i][k]] = data[mem.blocks[i][k]]
  BY <1>1, <1>5, <1>7 DEF MemorySound, DataArrives
<1>. QED
  BY <1>4, <1>5, <1>6, <1>8

\* A restart preserves the invariant, wherever the power failed.
LEMMA RebootInv ==
  ASSUME IInv, reboot
  PROVE  IInv'
<1>1. CASE ~Followed
  <2>1. Broken /\ Idle
    BY <1>1 DEF IInv, Broken, Idle
  <2>2. /\ Typed' /\ InProgress' /\ op' = NoOp /\ mem' = disk /\ disk' = disk /\ data' = data
    BY <2>1, RebootTyped DEF Broken
  <2>3. failed' = failed /\ written' = written
    BY <2>1 DEF reboot
  <2>. QED
    BY <1>1, <2>1, <2>2, <2>3 DEF IInv, Broken, Followed, Keeps
<1>2. CASE Followed /\ Idle
  <2>1. Sound'
    BY <1>2, RestartInv DEF IInv
  <2>2. failed' = failed
    BY <1>2 DEF reboot
  <2>. QED
    BY <1>2, <2>1, <2>2 DEF IInv, Followed
<1>3. CASE Followed /\ ~Idle
  <2>1. Sound
    BY <1>3 DEF IInv
  <2>2. /\ Typed' /\ InProgress' /\ op' = NoOp /\ mem' = disk /\ disk' = disk /\ data' = data
        /\ Coming' = {} /\ disk \in Metadata /\ data \in [Blocks -> Contents]
    BY <2>1, RebootTyped DEF Sound, Typed
  <2>3. Keeps(disk, data, written')
    BY <1>3, <2>1, <2>2, CrashKeeps DEF Keeps
  <2>4. CASE op.kind \in {"create", "write"}
    <3>1. failed' = 1 /\ DiskSound
      BY <1>3, <2>1, <2>4 DEF reboot, Sound
    <3>2. MetaArrives' /\ DataArrives(data)'
      BY <2>2 DEF MetaArrives, DataArrives
    <3>3. MemorySound(data)'
      <4>1. DirsSound(disk, data)
        BY <3>1 DEF DiskSound
      <4>. QED
        BY <2>2, <2>3, <3>1, <3>2, <4>1 DEF MemorySound
    <3>4. Exclusive(disk) /\ Counted(disk)
      BY <3>1 DEF DiskSound
    <3>5. InodesSaved'
      <4>1. disk.free_inodes \in Nat
        BY <2>2, MetaFields, Sizes
      <4>. QED
        BY <2>2, <4>1 DEF InodesSaved
    <3>6. op'.kind \notin {"create", "write", "delete"}
      BY <2>2 DEF NoOp
    <3>7. Sound'
      BY <2>2, <3>1, <3>2, <3>3, <3>4, <3>5, <3>6 DEF Sound
    <3>. QED
      BY <3>1, <3>7 DEF IInv, Followed
  <2>5. CASE op.kind \notin {"create", "write"}
    <3>1. failed' = 2
      BY <1>3, <2>5 DEF reboot
    <3>2. Broken'
      BY <2>2, <2>3 DEF Broken
    <3>. QED
      BY <3>1, <3>2 DEF IInv, Followed
  <2>. QED
    BY <2>4, <2>5
<1>. QED
  BY <1>1, <1>2, <1>3

-----------------------------------------------------------------------------
\* The sector writes are of the four kinds.
LEMMA WriteTypes ==
  /\ \A m \in Metadata : /\ WriteSuper(m) \in Writes /\ WriteSuper(m).to = "super"
                         /\ WriteBitmap(m) \in Writes /\ WriteBitmap(m).to = "bitmap"
  /\ \A m \in Metadata, ino \in Nat :
       WriteInode(m, ino) \in Writes /\ WriteInode(m, ino).to = "inodes"
  /\ \A b \in Blocks, c \in Contents :
       /\ WriteData(b, c) \in Writes /\ WriteData(b, c).to = "data"
       /\ WriteData(b, c).block = b
<1>1. ASSUME NEW m \in Metadata PROVE WriteSuper(m) \in Writes /\ WriteSuper(m).to = "super"
  <2>1. WriteSuper(m) \in SuperWrites
    BY MetaFields DEF WriteSuper, SuperWrites
  <2>. QED
    BY <2>1 DEF Writes, WriteSuper
<1>2. ASSUME NEW m \in Metadata PROVE WriteBitmap(m) \in Writes /\ WriteBitmap(m).to = "bitmap"
  <2>1. WriteBitmap(m) \in BitmapWrites
    BY MetaFields DEF WriteBitmap, BitmapWrites
  <2>. QED
    BY <2>1 DEF Writes, WriteBitmap
<1>3. ASSUME NEW m \in Metadata, NEW ino \in Nat
      PROVE  WriteInode(m, ino) \in Writes /\ WriteInode(m, ino).to = "inodes"
  <2>1. ino \div PER_SECTOR \in Nat
    BY Sizes, Divided
  <2>2. WriteInode(m, ino) \in InodeWrites
    BY <2>1, MetaFields DEF WriteInode, InodeWrites
  <2>. QED
    BY <2>2 DEF Writes, WriteInode
<1>4. ASSUME NEW b \in Blocks, NEW c \in Contents
      PROVE  /\ WriteData(b, c) \in Writes /\ WriteData(b, c).to = "data"
             /\ WriteData(b, c).block = b
  <2>1. WriteData(b, c) \in DataWrites
    BY DEF WriteData, DataWrites
  <2>. QED
    BY <2>1 DEF Writes, WriteData
<1>. QED
  BY <1>1, <1>2, <1>3, <1>4

\* Writes after other writes.
LEMMA Joined ==
  ASSUME NEW s \in Seq(Writes), NEW t \in Seq(Writes)
  PROVE  /\ Len(s) \in Nat /\ Len(t) \in Nat
         /\ s \o t \in Seq(Writes) /\ Len(s \o t) = Len(s) + Len(t)
         /\ \A n \in 1 .. Len(s) : n \in 1 .. Len(s \o t) /\ (s \o t)[n] = s[n]
         /\ \A n \in 1 .. Len(t) : Len(s) + n \in 1 .. Len(s \o t) /\ (s \o t)[Len(s) + n] = t[n]
         /\ \A n \in 1 .. Len(s \o t) :
              \/ n \in 1 .. Len(s)
              \/ \E k \in 1 .. Len(t) : n = Len(s) + k
<1>1. /\ s \o t \in Seq(Writes) /\ Len(s \o t) = Len(s) + Len(t)
      /\ \A i \in 1 .. Len(s) + Len(t) : (s \o t)[i] = IF i <= Len(s) THEN s[i] ELSE t[i - Len(s)]
      /\ Len(s) \in Nat /\ Len(t) \in Nat
  BY ConcatProperties, LenProperties
<1>2. PICK a \in Nat, b \in Nat : a = Len(s) /\ b = Len(t)
  BY <1>1
<1>3. \A n \in 1 .. a : (s \o t)[n] = s[n]
  BY <1>1, <1>2
<1>4. \A n \in 1 .. b : (s \o t)[a + n] = t[n]
  BY <1>1, <1>2
<1>5. \A n \in 1 .. a + b : n \in 1 .. a \/ \E k \in 1 .. b : n = a + k
  <2>1. ASSUME NEW n \in 1 .. a + b, n \notin 1 .. a PROVE n - a \in 1 .. b /\ n = a + (n - a)
    BY <2>1
  <2>. QED
    BY <2>1
<1>. QED
  BY <1>1, <1>2, <1>3, <1>4, <1>5

\* The sector writes of a format, in their order.
LEMMA FormatWrites ==
  ASSUME pafs_format
  PROVE  \E L \in Nat :
           /\ L = ((INODES - 1) \div PER_SECTOR) + 1
           /\ pending' \in Seq(Writes) /\ Len(pending') = L + 5
           /\ pending'[1].to = "bitmap" /\ pending'[1].bitmap = Formatted.bitmap
           /\ pending'[2].to = "super" /\ pending'[2].free_blocks = Formatted.free_blocks
           /\ pending'[2].free_inodes = INODES
           /\ pending'[3].to = "data" /\ pending'[3].block = 1 /\ pending'[3].cells = Zeroed
           /\ pending'[4].to = "super" /\ pending'[4].free_blocks = Formatted.free_blocks
           /\ pending'[4].free_inodes = INODES - 1
           /\ \A s \in 1 .. L :
                /\ pending'[s + 4].to = "inodes" /\ pending'[s + 4].sector = s - 1
                /\ pending'[s + 4].type = Formatted.type /\ pending'[s + 4].size = Formatted.size
                /\ pending'[s + 4].blocks = Formatted.blocks
           /\ pending'[L + 5].to = "bitmap" /\ pending'[L + 5].bitmap = Formatted.bitmap
<1>. DEFINE m == [Formatted EXCEPT !.free_inodes = INODES]
            L == ((INODES - 1) \div PER_SECTOR) + 1
            y == <<WriteData(1, Zeroed), WriteSuper(Formatted)>>
            a == AllocWrites(m) \o y
            t == [s \in 1 .. L |-> WriteInode(Formatted, (s - 1) * PER_SECTOR)]
            z == <<WriteBitmap(Formatted)>>
<1>s. /\ INODES \in Nat /\ INODES > 0 /\ PER_SECTOR \in Nat /\ PER_SECTOR > 0
      /\ INODES <= MAX_COUNT /\ MAX_COUNT \in Nat
  BY Sizes
<1>1. L \in Nat
  BY <1>s, Divided
<1>z. Zeroed \in Contents /\ 1 \in Blocks
  BY Sizes DEF Zeroed, Contents, Cell, Empty, Inodes, Blocks
<1>2. Formatted \in Metadata
  <2>1. [b \in Blocks |-> Zeroed] \in [Blocks -> Contents] /\ [b \in Blocks |-> Zeroed][1] = Zeroed
    BY <1>z
  <2>. QED
    BY <2>1, FormattedSound
<1>3. /\ m \in Metadata /\ m.bitmap = Formatted.bitmap /\ m.free_inodes = INODES
      /\ m.free_blocks = Formatted.free_blocks /\ Formatted.free_inodes = INODES - 1
  <2>1. ASSUME NEW d \in Metadata, NEW x \in 0 .. MAX_COUNT
        PROVE  /\ [d EXCEPT !.free_inodes = x] \in Metadata
               /\ [d EXCEPT !.free_inodes = x].bitmap = d.bitmap
               /\ [d EXCEPT !.free_inodes = x].free_blocks = d.free_blocks
               /\ [d EXCEPT !.free_inodes = x].free_inodes = x
    BY DEF Metadata
  <2>2. Formatted.free_inodes = INODES - 1
    BY DEF Formatted
  <2>. QED
    BY <1>s, <1>2, <2>1, <2>2
<1>4. /\ a \in Seq(Writes) /\ z \in Seq(Writes) /\ Len(a) = 4 /\ Len(z) = 1
      /\ a[1] = WriteBitmap(m) /\ a[2] = WriteSuper(m)
      /\ a[3] = WriteData(1, Zeroed) /\ a[4] = WriteSuper(Formatted)
  <2>. HIDE DEF m
  <2>1. /\ AllocWrites(m) \in Seq(Writes) /\ Len(AllocWrites(m)) = 2
        /\ AllocWrites(m)[1] = WriteBitmap(m) /\ AllocWrites(m)[2] = WriteSuper(m)
    BY <1>3, WriteTypes DEF AllocWrites
  <2>2. /\ y \in Seq(Writes) /\ Len(y) = 2
        /\ y[1] = WriteData(1, Zeroed) /\ y[2] = WriteSuper(Formatted)
    BY <1>z, <1>2, WriteTypes
  <2>3. z \in Seq(Writes) /\ Len(z) = 1
    BY <1>2, WriteTypes
  <2>. HIDE DEF y
  <2>4. /\ a \in Seq(Writes) /\ Len(a) = Len(AllocWrites(m)) + Len(y)
        /\ \A n \in 1 .. Len(AllocWrites(m)) : a[n] = AllocWrites(m)[n]
        /\ \A n \in 1 .. Len(y) : a[Len(AllocWrites(m)) + n] = y[n]
    BY <2>1, <2>2, Joined, ZenonT(40)
  <2>. QED
    BY <2>1, <2>2, <2>3, <2>4
<1>5. ASSUME NEW s \in 1 .. L
      PROVE  /\ t[s] \in Writes /\ t[s].to = "inodes" /\ t[s].sector = s - 1
             /\ t[s].type = Formatted.type /\ t[s].size = Formatted.size
             /\ t[s].blocks = Formatted.blocks
  <2>1. PICK q \in Nat : q = s - 1
    BY <1>1
  <2>2. q * PER_SECTOR \in Nat /\ (q * PER_SECTOR) \div PER_SECTOR = q
    <3>1. q * PER_SECTOR \in Nat
      BY <1>s, Z3
    <3>2. (q * PER_SECTOR + 0) \div PER_SECTOR = q
      BY <1>s, DividedOnly
    <3>. QED
      BY <3>1, <3>2
  <2>3. t[s] = WriteInode(Formatted, q * PER_SECTOR)
    BY <2>1
  <2>. QED
    BY <1>2, <2>1, <2>2, <2>3, WriteTypes DEF WriteInode
<1>6. t \in Seq(Writes) /\ Len(t) = L
  <2>1. \A s \in 1 .. L : t[s] \in Writes
    BY <1>5
  <2>. HIDE DEF L
  <2>. QED
    BY <1>1, <2>1
<1>7. pending' = (a \o t) \o z
  BY DEF pafs_format, Begin
<1>. HIDE DEF L, t
<1>8. /\ pending' \in Seq(Writes) /\ Len(pending') = L + 5
      /\ \A n \in 1 .. 4 : pending'[n] = a[n]
      /\ \A s \in 1 .. L : pending'[s + 4] = t[s]
      /\ pending'[L + 5] = z[1]
  <2>. HIDE DEF a, z
  <2>1. /\ a \o t \in Seq(Writes) /\ Len(a \o t) = Len(a) + Len(t)
        /\ \A n \in 1 .. Len(a) : n \in 1 .. Len(a \o t) /\ (a \o t)[n] = a[n]
        /\ \A n \in 1 .. Len(t) : Len(a) + n \in 1 .. Len(a \o t) /\ (a \o t)[Len(a) + n] = t[n]
    BY <1>4, <1>6, Joined
  <2>2. /\ pending' \in Seq(Writes) /\ Len(pending') = Len(a \o t) + Len(z)
        /\ \A n \in 1 .. Len(a \o t) : pending'[n] = (a \o t)[n]
        /\ \A n \in 1 .. Len(z) : pending'[Len(a \o t) + n] = z[n]
    <3>1. PICK c \in Seq(Writes) : c = a \o t
      BY <2>1
    <3>2. PICK e \in Seq(Writes) : e = z
      BY <1>4
    <3>3. /\ c \o e \in Seq(Writes) /\ Len(c \o e) = Len(c) + Len(e)
          /\ \A n \in 1 .. Len(c) : (c \o e)[n] = c[n]
          /\ \A n \in 1 .. Len(e) : (c \o e)[Len(c) + n] = e[n]
      BY Joined
    <3>4. pending' = c \o e
      BY <1>7, <3>1, <3>2
    <3>. QED
      BY <3>1, <3>2, <3>3, <3>4
  <2>3. Len(a) = 4 /\ Len(t) = L /\ Len(z) = 1 /\ Len(a \o t) = 4 + L
    BY <1>4, <1>6, <2>1
  <2>4. ASSUME NEW s \in 1 .. L PROVE pending'[s + 4] = t[s]
    <3>1. s + 4 = 4 + s
      BY <1>1
    <3>. QED
      BY <2>1, <2>2, <2>3, <3>1
  <2>5. pending'[L + 5] = z[1]
    <3>1. (4 + L) + 1 = L + 5 /\ 1 \in 1 .. 1
      BY <1>1
    <3>. QED
      BY <2>2, <2>3, <3>1
  <2>. QED
    BY <1>1, <2>1, <2>2, <2>3, <2>4, <2>5
<1>9. /\ pending'[1] = WriteBitmap(m) /\ pending'[2] = WriteSuper(m)
      /\ pending'[3] = WriteData(1, Zeroed) /\ pending'[4] = WriteSuper(Formatted)
      /\ pending'[L + 5] = WriteBitmap(Formatted)
  BY <1>4, <1>8
<1>10. /\ pending'[1].to = "bitmap" /\ pending'[1].bitmap = m.bitmap
       /\ pending'[2].to = "super" /\ pending'[2].free_blocks = m.free_blocks
       /\ pending'[2].free_inodes = m.free_inodes
       /\ pending'[3].to = "data" /\ pending'[3].block = 1 /\ pending'[3].cells = Zeroed
       /\ pending'[4].to = "super" /\ pending'[4].free_blocks = Formatted.free_blocks
       /\ pending'[4].free_inodes = Formatted.free_inodes
       /\ pending'[L + 5].to = "bitmap" /\ pending'[L + 5].bitmap = Formatted.bitmap
  <2>. HIDE DEF m
  <2>. QED
    BY <1>9 DEF WriteBitmap, WriteSuper, WriteData
<1>. HIDE DEF m
<1>11. \A s \in 1 .. L :
         /\ pending'[s + 4].to = "inodes" /\ pending'[s + 4].sector = s - 1
         /\ pending'[s + 4].type = Formatted.type /\ pending'[s + 4].size = Formatted.size
         /\ pending'[s + 4].blocks = Formatted.blocks
  BY <1>5, <1>8
<1>12. L = ((INODES - 1) \div PER_SECTOR) + 1
  BY DEF L
<1>. QED
  BY <1>1, <1>3, <1>8, <1>10, <1>11, <1>12, ZenonT(40)

\* An inode's sector is one of those that pafs_format writes.
LEMMA SectorInRange ==
  ASSUME NEW i \in Inodes
  PROVE  /\ i \div PER_SECTOR \in Nat
         /\ (i \div PER_SECTOR) + 1 \in 1 .. ((INODES - 1) \div PER_SECTOR) + 1
<1>1. /\ INODES - 1 \in Nat /\ i \in Nat /\ i <= INODES - 1
      /\ PER_SECTOR \in Nat /\ PER_SECTOR > 0
  BY Sizes DEF Inodes
<1>2. /\ i \div PER_SECTOR \in Nat /\ i % PER_SECTOR \in 0 .. PER_SECTOR - 1
      /\ i = (i \div PER_SECTOR) * PER_SECTOR + (i % PER_SECTOR)
      /\ (INODES - 1) \div PER_SECTOR \in Nat /\ (INODES - 1) % PER_SECTOR \in 0 .. PER_SECTOR - 1
      /\ INODES - 1 = ((INODES - 1) \div PER_SECTOR) * PER_SECTOR + ((INODES - 1) % PER_SECTOR)
  BY <1>1, Divided
<1>3. PICK q \in Nat, r \in 0 .. PER_SECTOR - 1, s \in Nat, t \in 0 .. PER_SECTOR - 1 :
        /\ q = i \div PER_SECTOR /\ i = q * PER_SECTOR + r
        /\ s = (INODES - 1) \div PER_SECTOR /\ INODES - 1 = s * PER_SECTOR + t
  BY <1>2
<1>4. q <= s
  <2>1. ASSUME s < q PROVE FALSE
    <3>1. s * PER_SECTOR + PER_SECTOR <= q * PER_SECTOR /\ s * PER_SECTOR \in Nat
          /\ q * PER_SECTOR \in Nat
      BY <1>1, <2>1, Outweighs
    <3>. QED
      BY <1>1, <1>3, <3>1
  <2>. QED
    BY <2>1
<1>. QED
  BY <1>3, <1>4

\* The shell's format command preserves the invariant.
LEMMA FormatInv == Typed /\ pafs_format => Sound'
<1>. SUFFICES ASSUME Typed, pafs_format PROVE Sound'
  OBVIOUS
<1>u. /\ mem' = Formatted /\ disk' = disk /\ data' = data /\ failed' = 0
      /\ op' = [kind |-> "format", ino |-> Root] /\ written' = [i \in Inodes |-> NoBlocks]
  BY DEF pafs_format, Begin
<1>t. disk \in Metadata /\ data \in [Blocks -> Contents]
  BY DEF Typed
<1>z. Zeroed \in Contents /\ 1 \in Blocks /\ Root \in Inodes
  BY Sizes DEF Zeroed, Contents, Cell, Empty, Inodes, Blocks, Root
<1>1. PICK D \in [Blocks -> Contents] : D = [data EXCEPT ![1] = Zeroed]
  BY <1>t, <1>z
<1>2. D[1] = Zeroed /\ \A b \in Blocks : b # 1 => D[b] = data[b]
  BY <1>t, <1>z, <1>1
<1>3. /\ Formatted \in Metadata
      /\ Exclusive(Formatted) /\ Counted(Formatted) /\ Exact(Formatted)
      /\ DirsSound(Formatted, D) /\ Listed(Formatted, D)
      /\ Keeps(Formatted, D, [i \in Inodes |-> NoBlocks])
      /\ Formatted.free_inodes = Cardinality(FreeInodes(Formatted))
      /\ Formatted.free_inodes = INODES - 1
  BY <1>2, FormattedSound
<1>4. PICK L \in Nat :
        /\ L = ((INODES - 1) \div PER_SECTOR) + 1
        /\ pending' \in Seq(Writes) /\ Len(pending') = L + 5
        /\ pending'[1].to = "bitmap" /\ pending'[1].bitmap = Formatted.bitmap
        /\ pending'[2].to = "super" /\ pending'[2].free_blocks = Formatted.free_blocks
        /\ pending'[2].free_inodes = INODES
        /\ pending'[3].to = "data" /\ pending'[3].block = 1 /\ pending'[3].cells = Zeroed
        /\ pending'[4].to = "super" /\ pending'[4].free_blocks = Formatted.free_blocks
        /\ pending'[4].free_inodes = INODES - 1
        /\ \A s \in 1 .. L :
             /\ pending'[s + 4].to = "inodes" /\ pending'[s + 4].sector = s - 1
             /\ pending'[s + 4].type = Formatted.type /\ pending'[s + 4].size = Formatted.size
             /\ pending'[s + 4].blocks = Formatted.blocks
        /\ pending'[L + 5].to = "bitmap" /\ pending'[L + 5].bitmap = Formatted.bitmap
  BY FormatWrites
<1>5. /\ Coming' = 1 .. L + 5
      /\ \A n \in Coming' : \/ n \in {1, 2, 3, 4, L + 5}
                            \/ \E s \in 1 .. L : n = s + 4
  <2>1. Coming' = 1 .. L + 5
    BY <1>4 DEF Coming
  <2>2. ASSUME NEW n \in 1 .. L + 5, n \notin {1, 2, 3, 4, L + 5}
        PROVE  n - 4 \in 1 .. L /\ n = (n - 4) + 4
    BY <2>2
  <2>. QED
    BY <2>1, <2>2
<1>6. /\ \A n \in Coming' : pending'[n].to = "inodes" =>
           /\ pending'[n].type = Formatted.type /\ pending'[n].size = Formatted.size
           /\ pending'[n].blocks = Formatted.blocks
      /\ \A n \in Coming' : pending'[n].to = "bitmap" => pending'[n].bitmap = Formatted.bitmap
      /\ \A n \in Coming' : pending'[n].to = "super" =>
           /\ pending'[n].free_blocks = Formatted.free_blocks
           /\ pending'[n].free_inodes \in {INODES, INODES - 1}
      /\ \A n \in Coming' : pending'[n].to = "data" =>
           pending'[n].block = 1 /\ pending'[n].cells = Zeroed
  <2>1. ASSUME NEW n \in Coming'
        PROVE  /\ pending'[n].to = "inodes" =>
                    /\ pending'[n].type = Formatted.type /\ pending'[n].size = Formatted.size
                    /\ pending'[n].blocks = Formatted.blocks
               /\ pending'[n].to = "bitmap" => pending'[n].bitmap = Formatted.bitmap
               /\ pending'[n].to = "super" =>
                    /\ pending'[n].free_blocks = Formatted.free_blocks
                    /\ pending'[n].free_inodes \in {INODES, INODES - 1}
               /\ pending'[n].to = "data" => pending'[n].block = 1 /\ pending'[n].cells = Zeroed
    <3>1. CASE \E s \in 1 .. L : n = s + 4
      BY <1>4, <3>1
    <3>2. CASE n \in {1, 2, 3, 4, L + 5}
      BY <1>4, <3>2
    <3>. QED
      BY <1>5, <3>1, <3>2
  <2>. QED
    BY <2>1
<1>7. 1 \in Coming' /\ 2 \in Coming' /\ 3 \in Coming'
  BY <1>5
<1>8. MetaArrives'
  <2>1. ASSUME NEW i \in Inodes
        PROVE  ~ \A n \in Coming' : pending'[n].to = "inodes" =>
                    pending'[n].sector # i \div PER_SECTOR
    <3>1. PICK s \in 1 .. L : s = (i \div PER_SECTOR) + 1 /\ i \div PER_SECTOR = s - 1
      BY <1>4, SectorInRange
    <3>2. s + 4 \in Coming'
      BY <1>5
    <3>. QED
      BY <1>4, <3>1, <3>2
  <2>. QED
    BY <1>u, <1>4, <1>6, <1>7, <2>1 DEF MetaArrives
<1>9. DataArrives(D)'
  <2>1. ASSUME NEW b \in Blocks, \A n \in Coming' : ~ToBlock(n, b)' PROVE D[b] = data'[b]
    <3>1. b # 1
      BY <1>4, <1>7, <2>1 DEF ToBlock
    <3>. QED
      BY <1>2, <1>u, <3>1
  <2>2. \A n \in Coming' : pending'[n].to = "data" => D[pending'[n].block] = pending'[n].cells
    BY <1>2, <1>6
  <2>. QED
    BY <2>1, <2>2 DEF DataArrives
<1>10. InodesCounted' /\ InodesSaved'
  <2>1. INODES \in Nat
    BY Sizes
  <2>2. Cardinality(FreeInodes(mem')) = INODES - 1 /\ mem'.free_inodes = INODES - 1
    BY <1>u, <1>3
  <2>3. \A n \in Coming' : pending'[n].to = "super" => pending'[n].free_inodes >= INODES - 1
    BY <1>6, <2>1
  <2>4. ~ \A n \in Coming' : pending'[n].to # "super"
    BY <1>4, <1>7
  <2>. QED
    BY <2>1, <2>2, <2>3, <2>4 DEF InodesCounted, InodesSaved
<1>11. MemorySound(D)'
  BY <1>u, <1>3, <1>9 DEF MemorySound
<1>12. Typed'
  BY <1>u, <1>t, <1>3, <1>4 DEF Typed, NoBlocks
<1>13. InProgress'
  <2>1. pending' # <<>>
    BY <1>4
  <2>2. op'.kind = "format" /\ op' # NoOp
    BY <1>u DEF NoOp
  <2>. QED
    BY <1>u, <1>z, <2>1, <2>2 DEF InProgress
<1>14. FilesOnDisk' /\ op'.kind \notin {"create", "write", "delete"}
  BY <1>u DEF FilesOnDisk, NoBlocks
<1>. QED
  BY <1>u, <1>3, <1>8, <1>10, <1>11, <1>12, <1>13, <1>14 DEF Sound

-----------------------------------------------------------------------------
\* The writes w that create or write has made so far, out of the metadata mem and the
\* blocks data it started with: they bring the bitmap and the superblock to what m has
\* and the blocks to D, and touch no block in use but those of T.
Clear(bitmap) == {b \in Blocks : bitmap[b] = 0}
In(w) == 1 .. Len(w)
BitmapsSafe(m, w) ==
  /\ \A n \in In(w) : w[n].to = "bitmap" =>
       /\ Clear(w[n].bitmap) \subseteq FreeBlocks(mem)
       /\ w[n].bitmap = m.bitmap \/ \E k \in In(w) : k > n /\ w[k].to = "bitmap"
       /\ \A k \in In(w) : k < n /\ w[k].to = "super" =>
            Cardinality(Clear(w[n].bitmap)) <= w[k].free_blocks
  /\ (\A n \in In(w) : w[n].to # "bitmap") => m.bitmap = mem.bitmap
SupersSafe(m, w) ==
  /\ \A n \in In(w) : w[n].to = "super" =>
       /\ w[n].free_blocks <= mem.free_blocks /\ w[n].free_inodes = m.free_inodes
       /\ Cardinality(FreeBlocks(m)) <= w[n].free_blocks
       /\ n # 1 /\ w[n - 1].to = "bitmap"
       /\ Cardinality(Clear(w[n - 1].bitmap)) <= w[n].free_blocks
       /\ w[n].free_blocks = m.free_blocks \/ \E k \in In(w) : k > n /\ w[k].to = "super"
  /\ (\A n \in In(w) : w[n].to # "super") => m.free_blocks = mem.free_blocks
BlocksReach(w, D, T) ==
  /\ \A b \in Blocks : (\A n \in In(w) : ~(w[n].to = "data" /\ w[n].block = b)) => D[b] = data[b]
  /\ \A n \in In(w) : w[n].to = "data" =>
       /\ w[n].block \in FreeBlocks(mem) \cup T
       /\ \/ D[w[n].block] = w[n].cells
          \/ \E k \in In(w) : k > n /\ w[k].to = "data" /\ w[k].block = w[n].block
Saves(m, w, D, T) ==
  /\ m \in Metadata /\ w \in Seq(Writes) /\ D \in [Blocks -> Contents]
  /\ \A n \in In(w) : w[n].to # "inodes"
  /\ FreeBlocks(m) \subseteq FreeBlocks(mem) /\ m.free_blocks <= mem.free_blocks
  /\ BitmapsSafe(m, w) /\ SupersSafe(m, w) /\ BlocksReach(w, D, T)

\* An operation starts without writes.
LEMMA NoSaves ==
  ASSUME NEW m \in Metadata, NEW T, data \in [Blocks -> Contents], mem \in Metadata,
         m.bitmap = mem.bitmap, m.free_blocks = mem.free_blocks
  PROVE  Saves(m, <<>>, data, T)
<1>1. In(<<>>) = {}
  BY DEF In
<1>2. m.free_blocks \in Nat /\ <<>> \in Seq(Writes)
  BY MetaFields
<1>3. FreeBlocks(m) = FreeBlocks(mem)
  BY DEF FreeBlocks
<1>. QED
  BY <1>1, <1>2, <1>3 DEF Saves, BitmapsSafe, SupersSafe, BlocksReach

\* Marking a block in the bitmap.
LEMMA AllocatedFields ==
  ASSUME NEW m \in Metadata, NEW b \in FreeBlocks(m),
         Cardinality(FreeBlocks(m)) <= m.free_blocks
  PROVE  /\ Allocated(m, b) \in Metadata
         /\ Allocated(m, b).type = m.type /\ Allocated(m, b).size = m.size
         /\ Allocated(m, b).blocks = m.blocks /\ Allocated(m, b).free_inodes = m.free_inodes
         /\ Allocated(m, b).bitmap = [m.bitmap EXCEPT ![b] = 1]
         /\ Allocated(m, b).free_blocks = m.free_blocks - 1
         /\ FreeBlocks(Allocated(m, b)) = FreeBlocks(m) \ {b}
         /\ Cardinality(FreeBlocks(Allocated(m, b))) = Cardinality(FreeBlocks(m)) - 1
<1>1. b \in Blocks /\ m.bitmap \in [Blocks -> {0, 1}] /\ m.free_blocks \in 0 .. BLOCKS
      /\ BLOCKS \in Nat
  BY MetaFields, Sizes DEF FreeBlocks
<1>2. Cardinality(FreeBlocks(m)) \in Nat /\ Cardinality(FreeBlocks(m)) # 0
  BY CountsTyped, FS_EmptySet
<1>3. m.free_blocks - 1 \in 0 .. BLOCKS /\ [m.bitmap EXCEPT ![b] = 1] \in [Blocks -> {0, 1}]
  BY <1>1, <1>2
<1>4. /\ Allocated(m, b) \in Metadata
      /\ Allocated(m, b).type = m.type /\ Allocated(m, b).size = m.size
      /\ Allocated(m, b).blocks = m.blocks /\ Allocated(m, b).free_inodes = m.free_inodes
      /\ Allocated(m, b).bitmap = [m.bitmap EXCEPT ![b] = 1]
      /\ Allocated(m, b).free_blocks = m.free_blocks - 1
  BY <1>3 DEF Allocated, Metadata
<1>5. FreeBlocks(Allocated(m, b)) = FreeBlocks(m) \ {b}
  BY <1>1, <1>4 DEF FreeBlocks
<1>6. Cardinality(FreeBlocks(m) \ {b}) = Cardinality(FreeBlocks(m)) - 1
  BY CountsTyped, FS_RemoveElement
<1>. QED
  BY <1>4, <1>5, <1>6

\* alloc_block saves the bitmap and then the superblock.
LEMMA AllocSaves ==
  ASSUME NEW m, NEW w, NEW D, NEW T, Saves(m, w, D, T), mem \in Metadata,
         NEW b \in FreeBlocks(m), Cardinality(FreeBlocks(m)) <= m.free_blocks
  PROVE  Saves(Allocated(m, b), w \o AllocWrites(Allocated(m, b)), D, T)
<1>. DEFINE e == Allocated(m, b)
            x == AllocWrites(e)
            v == w \o x
<1>m. m \in Metadata /\ w \in Seq(Writes)
  BY DEF Saves
<1>1. /\ e \in Metadata /\ e.free_inodes = m.free_inodes
      /\ e.free_blocks = m.free_blocks - 1
      /\ FreeBlocks(e) = FreeBlocks(m) \ {b}
      /\ Cardinality(FreeBlocks(e)) = Cardinality(FreeBlocks(m)) - 1
      /\ Cardinality(FreeBlocks(m)) \in Nat /\ m.free_blocks \in Nat /\ mem.free_blocks \in Nat
  <2>1. m.free_blocks \in 0 .. BLOCKS /\ mem.free_blocks \in 0 .. BLOCKS
    BY <1>m, MetaFields
  <2>2. Cardinality(FreeBlocks(m)) \in Nat
    BY CountsTyped
  <2>3. /\ e \in Metadata /\ e.free_inodes = m.free_inodes
        /\ e.free_blocks = m.free_blocks - 1
        /\ FreeBlocks(e) = FreeBlocks(m) \ {b}
        /\ Cardinality(FreeBlocks(e)) = Cardinality(FreeBlocks(m)) - 1
    BY <1>m, AllocatedFields, Zenon
  <2>. QED
    BY <2>1, <2>2, <2>3
<1>. HIDE DEF e
<1>2. /\ x \in Seq(Writes) /\ Len(x) = 2
      /\ x[1] = WriteBitmap(e) /\ x[2] = WriteSuper(e)
  BY <1>1, WriteTypes DEF AllocWrites
<1>3. /\ x[1].to = "bitmap" /\ x[1].bitmap = e.bitmap
      /\ x[2].to = "super" /\ x[2].free_blocks = e.free_blocks
      /\ x[2].free_inodes = e.free_inodes
  BY <1>2 DEF WriteBitmap, WriteSuper
<1>. HIDE DEF x
<1>4. PICK L \in Nat : L = Len(w) /\ In(w) = 1 .. L
  BY <1>m, LenProperties DEF In
<1>5. /\ v \in Seq(Writes) /\ Len(v) = L + 2 /\ In(v) = 1 .. L + 2
      /\ \A n \in 1 .. L : v[n] = w[n]
      /\ v[L + 1] = x[1] /\ v[L + 2] = x[2]
      /\ \A n \in In(v) : n \in In(w) \/ n = L + 1 \/ n = L + 2
      /\ In(w) \subseteq In(v) /\ L + 1 \in In(v) /\ L + 2 \in In(v)
  <2>1. /\ v \in Seq(Writes) /\ Len(v) = L + 2 /\ In(v) = 1 .. L + 2
        /\ \A n \in 1 .. L : v[n] = w[n]
        /\ \A n \in 1 .. 2 : v[L + n] = x[n]
    <3>1. /\ v \in Seq(Writes) /\ Len(v) = Len(w) + Len(x)
          /\ \A n \in 1 .. Len(w) : v[n] = w[n]
          /\ \A n \in 1 .. Len(x) : v[Len(w) + n] = x[n]
      BY <1>m, <1>2, Joined
    <3>. QED
      BY <1>2, <1>4, <3>1 DEF In
  <2>. HIDE DEF v
  <2>. QED
    BY <1>4, <2>1
<1>. HIDE DEF v
<1>6. Clear(e.bitmap) = FreeBlocks(e) /\ FreeBlocks(e) \subseteq FreeBlocks(mem)
  BY <1>1 DEF Clear, FreeBlocks, Saves
<1>7. /\ BitmapsSafe(m, w) /\ SupersSafe(m, w) /\ BlocksReach(w, D, T)
      /\ m.free_blocks <= mem.free_blocks /\ D \in [Blocks -> Contents]
  BY DEF Saves
<1>8. BitmapsSafe(e, v)
  <2>1. ASSUME NEW n \in In(v), v[n].to = "bitmap"
        PROVE  /\ Clear(v[n].bitmap) \subseteq FreeBlocks(mem)
               /\ v[n].bitmap = e.bitmap \/ \E k \in In(v) : k > n /\ v[k].to = "bitmap"
               /\ \A k \in In(v) : k < n /\ v[k].to = "super" =>
                    Cardinality(Clear(v[n].bitmap)) <= v[k].free_blocks
    <3>1. CASE n \in In(w)
      <4>1. v[n] = w[n] /\ n < L + 1 /\ n \in Nat
        BY <1>4, <1>5, <3>1
      <4>2. /\ Clear(w[n].bitmap) \subseteq FreeBlocks(mem)
            /\ \A k \in In(w) : k < n /\ w[k].to = "super" =>
                 Cardinality(Clear(w[n].bitmap)) <= w[k].free_blocks
        BY <1>7, <2>1, <3>1, <4>1 DEF BitmapsSafe
      <4>3. ASSUME NEW k \in In(v), k < n, v[k].to = "super"
            PROVE  k \in In(w) /\ w[k].to = "super" /\ v[k] = w[k]
        BY <1>4, <1>5, <4>1, <4>3
      <4>. QED
        BY <1>3, <1>5, <4>1, <4>2, <4>3
    <3>2. CASE n = L + 1
      <4>1. v[n].bitmap = e.bitmap
        BY <1>3, <1>5, <3>2
      <4>2. ASSUME NEW k \in In(v), k < n, v[k].to = "super"
            PROVE  Cardinality(FreeBlocks(e)) <= v[k].free_blocks
        <5>1. k \in In(w) /\ v[k] = w[k] /\ w[k].to = "super"
          BY <1>4, <1>5, <3>2, <4>2
        <5>2. Cardinality(FreeBlocks(m)) <= w[k].free_blocks /\ w[k].free_blocks \in Nat
          <6>1. w[k] \in Writes
            BY <1>m, <1>4, <5>1, ElementOfSeq
          <6>2. w[k].free_blocks \in Nat
            BY <5>1, <6>1, WriteFields
          <6>. QED
            BY <1>7, <5>1, <6>2 DEF SupersSafe
        <5>. QED
          BY <1>1, <5>1, <5>2
      <4>. QED
        BY <1>6, <4>1, <4>2
    <3>3. n # L + 2
      BY <1>3, <1>5, <2>1
    <3>. QED
      BY <1>5, <3>1, <3>2, <3>3
  <2>2. ~ \A n \in In(v) : v[n].to # "bitmap"
    BY <1>3, <1>5
  <2>. QED
    BY <2>1, <2>2 DEF BitmapsSafe
<1>9. SupersSafe(e, v)
  <2>1. ASSUME NEW n \in In(v), v[n].to = "super"
        PROVE  /\ v[n].free_blocks <= mem.free_blocks /\ v[n].free_inodes = e.free_inodes
               /\ Cardinality(FreeBlocks(e)) <= v[n].free_blocks
               /\ n # 1 /\ v[n - 1].to = "bitmap"
               /\ Cardinality(Clear(v[n - 1].bitmap)) <= v[n].free_blocks
               /\ v[n].free_blocks = e.free_blocks \/ \E k \in In(v) : k > n /\ v[k].to = "super"
    <3>1. CASE n \in In(w)
      <4>1. v[n] = w[n] /\ L + 2 > n
        BY <1>4, <1>5, <3>1
      <4>2. /\ w[n].free_blocks <= mem.free_blocks /\ w[n].free_inodes = m.free_inodes
            /\ Cardinality(FreeBlocks(m)) <= w[n].free_blocks
            /\ n # 1 /\ w[n - 1].to = "bitmap"
            /\ Cardinality(Clear(w[n - 1].bitmap)) <= w[n].free_blocks
        BY <1>7, <2>1, <3>1, <4>1 DEF SupersSafe
      <4>3. v[n - 1] = w[n - 1]
        BY <1>4, <1>5, <3>1, <4>2
      <4>4. w[n].free_blocks \in Nat
        <5>1. w[n] \in Writes
          BY <1>m, <1>4, <3>1, ElementOfSeq
        <5>. QED
          BY <2>1, <4>1, <5>1, WriteFields
      <4>5. Cardinality(FreeBlocks(e)) <= w[n].free_blocks
        BY <1>1, <4>2, <4>4
      <4>. QED
        BY <1>1, <1>3, <1>5, <4>1, <4>2, <4>3, <4>5
    <3>2. CASE n = L + 2
      <4>1. v[n].free_blocks = e.free_blocks /\ v[n].free_inodes = e.free_inodes
        BY <1>3, <1>5, <3>2
      <4>2. n # 1 /\ v[n - 1].to = "bitmap" /\ v[n - 1].bitmap = e.bitmap
        <5>1. n - 1 = L + 1 /\ n # 1
          BY <3>2
        <5>. QED
          BY <1>3, <1>5, <5>1
      <4>3. Cardinality(FreeBlocks(e)) <= e.free_blocks /\ e.free_blocks <= mem.free_blocks
        BY <1>1, <1>7
      <4>. QED
        BY <1>6, <4>1, <4>2, <4>3
    <3>3. n # L + 1
      BY <1>3, <1>5, <2>1
    <3>. QED
      BY <1>5, <3>1, <3>2, <3>3
  <2>2. ~ \A n \in In(v) : v[n].to # "super"
    BY <1>3, <1>5
  <2>. QED
    BY <2>1, <2>2 DEF SupersSafe
<1>10. BlocksReach(v, D, T)
  <2>1. \A n \in In(v) : v[n].to = "data" => n \in In(w) /\ v[n] = w[n]
    BY <1>3, <1>4, <1>5
  <2>2. \A n \in In(w) : n \in In(v) /\ v[n] = w[n]
    BY <1>4, <1>5
  <2>. QED
    BY <1>7, <2>1, <2>2 DEF BlocksReach
<1>11. \A n \in In(v) : v[n].to # "inodes"
  BY <1>3, <1>4, <1>5 DEF Saves
<1>12. e.free_blocks <= mem.free_blocks
  BY <1>1, <1>7
<1>13. Saves(e, v, D, T)
  BY <1>1, <1>5, <1>6, <1>7, <1>8, <1>9, <1>10, <1>11, <1>12 DEF Saves
<1>. QED
  BY <1>13 DEF v, x, e

\* A data block is written after the others.
LEMMA DataSaves ==
  ASSUME NEW m, NEW w, NEW D, NEW T, Saves(m, w, D, T),
         NEW b \in Blocks, b \in FreeBlocks(mem) \cup T, NEW c \in Contents
  PROVE  Saves(m, w \o <<WriteData(b, c)>>, [D EXCEPT ![b] = c], T)
<1>. DEFINE x == <<WriteData(b, c)>>
            v == w \o x
            F == [D EXCEPT ![b] = c]
<1>m. /\ m \in Metadata /\ w \in Seq(Writes) /\ D \in [Blocks -> Contents]
      /\ BitmapsSafe(m, w) /\ SupersSafe(m, w) /\ BlocksReach(w, D, T)
      /\ \A n \in In(w) : w[n].to # "inodes"
      /\ FreeBlocks(m) \subseteq FreeBlocks(mem) /\ m.free_blocks <= mem.free_blocks
  BY DEF Saves
<1>1. /\ F \in [Blocks -> Contents] /\ F[b] = c
      /\ \A d \in Blocks : d # b => F[d] = D[d]
  BY <1>m
<1>2. /\ x \in Seq(Writes) /\ Len(x) = 1
      /\ x[1].to = "data" /\ x[1].block = b /\ x[1].cells = c
  BY WriteTypes DEF WriteData
<1>. HIDE DEF x, F
<1>3. PICK L \in Nat : L = Len(w) /\ In(w) = 1 .. L
  BY <1>m, LenProperties DEF In
<1>4. /\ v \in Seq(Writes) /\ In(v) = 1 .. L + 1
      /\ \A n \in 1 .. L : v[n] = w[n]
      /\ v[L + 1] = x[1]
  <2>1. /\ v \in Seq(Writes) /\ Len(v) = Len(w) + Len(x)
        /\ \A n \in 1 .. Len(w) : v[n] = w[n]
        /\ \A n \in 1 .. Len(x) : v[Len(w) + n] = x[n]
    BY <1>m, <1>2, Joined
  <2>. QED
    BY <1>2, <1>3, <2>1 DEF In
<1>. HIDE DEF v
<1>5. /\ \A n \in In(v) : n \in In(w) \/ n = L + 1
      /\ \A n \in In(w) : n \in In(v) /\ v[n] = w[n] /\ n < L + 1 /\ n \in Nat
      /\ L + 1 \in In(v)
      /\ \A n \in In(v) : v[n].to # "data" => n \in In(w) /\ v[n] = w[n]
  BY <1>2, <1>3, <1>4
<1>6. BitmapsSafe(m, v)
  <2>1. ASSUME NEW n \in In(v), v[n].to = "bitmap"
        PROVE  /\ Clear(v[n].bitmap) \subseteq FreeBlocks(mem)
               /\ v[n].bitmap = m.bitmap \/ \E k \in In(v) : k > n /\ v[k].to = "bitmap"
               /\ \A k \in In(v) : k < n /\ v[k].to = "super" =>
                    Cardinality(Clear(v[n].bitmap)) <= v[k].free_blocks
    <3>1. n \in In(w) /\ v[n] = w[n] /\ w[n].to = "bitmap"
      BY <1>5, <2>1
    <3>2. /\ Clear(w[n].bitmap) \subseteq FreeBlocks(mem)
          /\ w[n].bitmap = m.bitmap \/ \E k \in In(w) : k > n /\ w[k].to = "bitmap"
          /\ \A k \in In(w) : k < n /\ w[k].to = "super" =>
               Cardinality(Clear(w[n].bitmap)) <= w[k].free_blocks
      BY <1>m, <3>1, Zenon DEF BitmapsSafe
    <3>3. \A k \in In(v) : v[k].to = "super" => k \in In(w) /\ v[k] = w[k]
      BY <1>5
    <3>4. v[n].bitmap = m.bitmap \/ \E k \in In(v) : k > n /\ v[k].to = "bitmap"
      BY <1>5, <3>1, <3>2
    <3>. QED
      BY <3>1, <3>2, <3>3, <3>4
  <2>2. (\A n \in In(v) : v[n].to # "bitmap") => m.bitmap = mem.bitmap
    BY <1>m, <1>5 DEF BitmapsSafe
  <2>. QED
    BY <2>1, <2>2 DEF BitmapsSafe
<1>7. SupersSafe(m, v)
  <2>1. ASSUME NEW n \in In(v), v[n].to = "super"
        PROVE  /\ v[n].free_blocks <= mem.free_blocks /\ v[n].free_inodes = m.free_inodes
               /\ Cardinality(FreeBlocks(m)) <= v[n].free_blocks
               /\ n # 1 /\ v[n - 1].to = "bitmap"
               /\ Cardinality(Clear(v[n - 1].bitmap)) <= v[n].free_blocks
               /\ v[n].free_blocks = m.free_blocks \/ \E k \in In(v) : k > n /\ v[k].to = "super"
    <3>1. n \in In(w) /\ v[n] = w[n] /\ w[n].to = "super"
      BY <1>5, <2>1
    <3>2. /\ w[n].free_blocks <= mem.free_blocks /\ w[n].free_inodes = m.free_inodes
          /\ Cardinality(FreeBlocks(m)) <= w[n].free_blocks
          /\ n # 1 /\ w[n - 1].to = "bitmap"
          /\ Cardinality(Clear(w[n - 1].bitmap)) <= w[n].free_blocks
          /\ w[n].free_blocks = m.free_blocks \/ \E k \in In(w) : k > n /\ w[k].to = "super"
      BY <1>m, <3>1, Zenon DEF SupersSafe
    <3>3. v[n - 1] = w[n - 1]
      <4>1. n - 1 \in In(w)
        BY <1>3, <3>1, <3>2
      <4>. QED
        BY <1>5, <4>1
    <3>4. v[n].free_blocks = m.free_blocks \/ \E k \in In(v) : k > n /\ v[k].to = "super"
      BY <1>5, <3>1, <3>2
    <3>. QED
      BY <3>1, <3>2, <3>3, <3>4
  <2>2. (\A n \in In(v) : v[n].to # "super") => m.free_blocks = mem.free_blocks
    BY <1>m, <1>5 DEF SupersSafe
  <2>. QED
    BY <2>1, <2>2 DEF SupersSafe
<1>8. BlocksReach(v, F, T)
  <2>1. ASSUME NEW d \in Blocks, \A n \in In(v) : ~(v[n].to = "data" /\ v[n].block = d)
        PROVE  F[d] = data[d]
    <3>1. d # b
      BY <1>2, <1>4, <1>5, <2>1
    <3>2. D[d] = data[d]
      BY <1>m, <1>5, <2>1 DEF BlocksReach
    <3>. QED
      BY <1>1, <3>1, <3>2
  <2>2. ASSUME NEW n \in In(v), v[n].to = "data"
        PROVE  /\ v[n].block \in FreeBlocks(mem) \cup T
               /\ \/ F[v[n].block] = v[n].cells
                  \/ \E k \in In(v) : k > n /\ v[k].to = "data" /\ v[k].block = v[n].block
    <3>1. CASE n = L + 1
      BY <1>1, <1>2, <1>4, <3>1
    <3>2. CASE n \in In(w)
      <4>1. v[n] = w[n] /\ L + 1 > n /\ w[n].to = "data"
        BY <1>5, <2>2, <3>2
      <4>2. /\ w[n].block \in FreeBlocks(mem) \cup T
            /\ \/ D[w[n].block] = w[n].cells
               \/ \E k \in In(w) : k > n /\ w[k].to = "data" /\ w[k].block = w[n].block
        BY <1>m, <3>2, <4>1 DEF BlocksReach
      <4>3. CASE w[n].block = b
        BY <1>2, <1>4, <1>5, <4>1, <4>2, <4>3
      <4>4. CASE w[n].block # b
        <5>1. w[n].block \in Blocks
          <6>1. w[n] \in Writes
            BY <1>m, <1>3, <3>2, ElementOfSeq
          <6>. QED
            BY <4>1, <6>1, WriteFields
        <5>2. F[w[n].block] = D[w[n].block]
          BY <1>1, <4>4, <5>1
        <5>3. CASE \E k \in In(w) : k > n /\ w[k].to = "data" /\ w[k].block = w[n].block
          BY <1>5, <4>1, <4>2, <5>3
        <5>. QED
          BY <4>1, <4>2, <5>2, <5>3
      <4>. QED
        BY <4>3, <4>4
    <3>. QED
      BY <1>5, <3>1, <3>2
  <2>. QED
    BY <2>1, <2>2 DEF BlocksReach
<1>9. \A n \in In(v) : v[n].to # "inodes"
  BY <1>m, <1>2, <1>4, <1>5
<1>10. Saves(m, v, F, T)
  BY <1>m, <1>1, <1>4, <1>6, <1>7, <1>8, <1>9 DEF Saves
<1>. QED
  BY <1>10 DEF v, x, F

\* The inode saves t that end an operation cover every inode that it changed.
InodeSaves(m, t) ==
  /\ t \in Seq(Writes) /\ Len(t) > 0
  /\ \A n \in In(t) : /\ t[n].to = "inodes" /\ t[n].type = m.type /\ t[n].size = m.size
                      /\ t[n].blocks = m.blocks
  /\ \A i \in Inodes : (\A n \in In(t) : t[n].sector # i \div PER_SECTOR) =>
       /\ m.type[i] = mem.type[i] /\ m.size[i] = mem.size[i] /\ m.blocks[i] = mem.blocks[i]

\* The writes s are those of w and then those of t.
Parts(s, w, t) ==
  /\ s \in Seq(Writes) /\ Len(w) \in Nat /\ Len(t) \in Nat
  /\ In(s) = 1 .. Len(w) + Len(t)
  /\ \A n \in In(w) : n \in In(s) /\ s[n] = w[n]
  /\ \A n \in In(t) : Len(w) + n \in In(s) /\ s[Len(w) + n] = t[n]
  /\ \A n \in In(s) : n \in In(w) \/ \E k \in In(t) : n = Len(w) + k

\* Their concatenation is.
LEMMA JoinedParts ==
  ASSUME NEW w \in Seq(Writes), NEW t \in Seq(Writes)
  PROVE  Parts(w \o t, w, t)
<1>1. /\ Len(w) \in Nat /\ Len(t) \in Nat
      /\ w \o t \in Seq(Writes) /\ Len(w \o t) = Len(w) + Len(t)
      /\ \A n \in 1 .. Len(w) : n \in 1 .. Len(w \o t) /\ (w \o t)[n] = w[n]
      /\ \A n \in 1 .. Len(t) : Len(w) + n \in 1 .. Len(w \o t) /\ (w \o t)[Len(w) + n] = t[n]
      /\ \A n \in 1 .. Len(w \o t) :
           \/ n \in 1 .. Len(w)
           \/ \E k \in 1 .. Len(t) : n = Len(w) + k
  BY Joined
<1>. QED
  BY <1>1, Zenon DEF Parts, In

\* The operation's last saves, those of the inodes, make the writes complete: what is
\* pending is safe at every point, and brings the disk to the memory.
LEMMA BeginSaves ==
  ASSUME Sound, Idle, NEW m, NEW w, NEW D, NEW T, Saves(m, w, D, T),
         NEW t, InodeSaves(m, t), Parts(pending', w, t),
         mem' = m, disk' = disk, data' = data
  PROVE  /\ pending' \in Seq(Writes) /\ pending' # <<>>
         /\ MetaArrives' /\ DataArrives(D)' /\ CountsSafe'
         /\ \A n \in Coming' : pending'[n].to = "data" =>
              /\ pending'[n].block \in FreeBlocks(mem) \cup T
              /\ n \in In(w) /\ pending'[n] = w[n]
         /\ disk.free_inodes >= m.free_inodes => InodesSaved'
<1>m. /\ m \in Metadata /\ w \in Seq(Writes) /\ D \in [Blocks -> Contents]
      /\ BitmapsSafe(m, w) /\ SupersSafe(m, w) /\ BlocksReach(w, D, T)
      /\ \A n \in In(w) : w[n].to # "inodes"
      /\ FreeBlocks(m) \subseteq FreeBlocks(mem) /\ m.free_blocks <= mem.free_blocks
  BY DEF Saves
<1>d. /\ mem \in Metadata /\ disk \in Metadata
      /\ disk.type = mem.type /\ disk.size = mem.size /\ disk.blocks = mem.blocks
      /\ disk.bitmap = mem.bitmap /\ disk.free_blocks = mem.free_blocks
  BY IdleFacts
<1>t. /\ \A n \in In(t) : /\ t[n].to = "inodes" /\ t[n].type = m.type /\ t[n].size = m.size
                          /\ t[n].blocks = m.blocks
      /\ \A i \in Inodes : (\A n \in In(t) : t[n].sector # i \div PER_SECTOR) =>
           /\ m.type[i] = mem.type[i] /\ m.size[i] = mem.size[i] /\ m.blocks[i] = mem.blocks[i]
  BY DEF InodeSaves
<1>1. Coming' = In(pending') /\ pending' \in Seq(Writes)
  BY DEF Coming, In, Parts
<1>2. /\ \A n \in In(w) : n \in Coming' /\ pending'[n] = w[n]
      /\ \A n \in In(t) : \E k \in Coming' : pending'[k] = t[n]
      /\ \A n \in Coming' :
           \/ n \in In(w) /\ pending'[n] = w[n]
           \/ \E k \in In(t) : n = Len(w) + k /\ pending'[n] = t[k]
  BY <1>1, Zenon DEF Parts
<1>3. /\ \A n \in Coming' : pending'[n].to # "inodes" => n \in In(w) /\ pending'[n] = w[n]
      /\ \A n \in Coming' : pending'[n].to = "inodes" =>
           \E k \in In(t) : n = Len(w) + k /\ pending'[n] = t[k]
  <2>1. ASSUME NEW n \in Coming', pending'[n].to # "inodes"
        PROVE  n \in In(w) /\ pending'[n] = w[n]
    BY <1>t, <1>2, <2>1
  <2>2. ASSUME NEW n \in Coming', pending'[n].to = "inodes"
        PROVE  \E k \in In(t) : n = Len(w) + k /\ pending'[n] = t[k]
    BY <1>m, <1>2, <2>2
  <2>. QED
    BY <2>1, <2>2
<1>4. pending' # <<>>
  <2>1. Len(t) > 0 /\ Len(t) \in Nat /\ Len(w) \in Nat
    BY DEF InodeSaves, Parts
  <2>2. 1 \in Coming'
    BY <1>1, <2>1 DEF Parts
  <2>. QED
    BY <2>2 DEF Coming
<1>5. MetaArrives'
  <2>1. \A n \in Coming' : pending'[n].to = "inodes" =>
          pending'[n].type = m.type /\ pending'[n].size = m.size /\ pending'[n].blocks = m.blocks
    BY <1>t, <1>3
  <2>2. ASSUME NEW i \in Inodes,
               \A n \in Coming' : pending'[n].to = "inodes" =>
                 pending'[n].sector # i \div PER_SECTOR
        PROVE  /\ disk.type[i] = m.type[i] /\ disk.size[i] = m.size[i]
               /\ disk.blocks[i] = m.blocks[i]
    <3>1. \A n \in In(t) : t[n].sector # i \div PER_SECTOR
      BY <1>t, <1>2, <2>2
    <3>. QED
      BY <1>d, <1>t, <3>1
  <2>3. \A n \in Coming' : pending'[n].to = "bitmap" =>
          pending'[n].bitmap = m.bitmap \/ \E k \in Coming' : k > n /\ pending'[k].to = "bitmap"
    BY <1>m, <1>2, <1>3 DEF BitmapsSafe
  <2>4. (\A n \in Coming' : pending'[n].to # "bitmap") => disk.bitmap = m.bitmap
    BY <1>m, <1>d, <1>2 DEF BitmapsSafe
  <2>5. \A n \in Coming' : pending'[n].to = "super" =>
          \/ pending'[n].free_blocks = m.free_blocks
          \/ \E k \in Coming' : k > n /\ pending'[k].to = "super"
    BY <1>m, <1>2, <1>3 DEF SupersSafe
  <2>6. (\A n \in Coming' : pending'[n].to # "super") => disk.free_blocks = m.free_blocks
    BY <1>m, <1>d, <1>2 DEF SupersSafe
  <2>. QED
    BY <2>1, <2>2, <2>3, <2>4, <2>5, <2>6 DEF MetaArrives
<1>6. DataArrives(D)'
  <2>1. ASSUME NEW b \in Blocks, \A n \in Coming' : ~ToBlock(n, b)' PROVE D[b] = data[b]
    BY <1>m, <1>2, <2>1 DEF BlocksReach, ToBlock
  <2>2. ASSUME NEW n \in Coming', pending'[n].to = "data"
        PROVE  \/ D[pending'[n].block] = pending'[n].cells
               \/ \E k \in Coming' : k > n /\ ToBlock(k, pending[n].block)'
    <3>1. n \in In(w) /\ pending'[n] = w[n]
      BY <1>3, <2>2
    <3>2. \/ D[w[n].block] = w[n].cells
          \/ \E k \in In(w) : k > n /\ w[k].to = "data" /\ w[k].block = w[n].block
      BY <1>m, <2>2, <3>1 DEF BlocksReach
    <3>. QED
      BY <1>2, <3>1, <3>2 DEF ToBlock
  <2>. QED
    BY <2>1, <2>2 DEF DataArrives
<1>7. \A n \in Coming' : pending'[n].to = "data" =>
        /\ pending'[n].block \in FreeBlocks(mem) \cup T
        /\ n \in In(w) /\ pending'[n] = w[n]
  BY <1>m, <1>3 DEF BlocksReach
<1>8. CountsSafe'
  <2>c. /\ Cardinality(FreeBlocks(mem)) <= mem.free_blocks
        /\ mem.free_blocks + Cardinality(Held(mem)) <= BLOCKS
        /\ mem.free_blocks \in Nat /\ BLOCKS \in Nat
        /\ Cardinality(FreeBlocks(mem)) \in Nat /\ Cardinality(Held(mem)) \in Nat
        /\ IsFiniteSet(FreeBlocks(mem))
    BY <1>d, MetaFields, CountsTyped, Sizes DEF Sound, Counted
  <2>h. Held(disk) = Held(mem) /\ FreeBlocks(disk) = FreeBlocks(mem)
    BY <1>d DEF Held, FreeBlocks
  <2>u. \A n \in Coming' : pending'[n].to = "bitmap" => Unmarked(n)' = Clear(w[n].bitmap)
    BY <1>3 DEF Unmarked, Clear
  <2>1. ASSUME NEW n \in Coming', NEW k \in Coming', n < k, pending'[n].to = "inodes"
        PROVE  pending'[k].to = "inodes"
    <3>1. PICK a \in In(t) : n = Len(w) + a
      BY <1>3, <2>1
    <3>2. Len(w) \in Nat /\ Len(t) \in Nat /\ In(w) = 1 .. Len(w) /\ In(t) = 1 .. Len(t)
      BY DEF Parts, In
    <3>3. k \notin In(w)
      BY <2>1, <3>1, <3>2
    <3>. QED
      BY <1>t, <1>2, <3>3
  <2>2. ASSUME NEW n \in Coming', pending'[n].to = "bitmap"
        PROVE  /\ \A i \in Inodes, k \in Slots :
                    disk.blocks[i][k] # 0 => pending'[n].bitmap[disk.blocks[i][k]] = 1
               /\ Cardinality(Unmarked(n)') <= disk.free_blocks
               /\ \A k \in Coming' : k < n /\ pending'[k].to = "super" =>
                    Cardinality(Unmarked(n)') <= pending'[k].free_blocks
    <3>1. n \in In(w) /\ pending'[n] = w[n] /\ w[n].to = "bitmap"
      BY <1>3, <2>2
    <3>2. /\ Clear(w[n].bitmap) \subseteq FreeBlocks(mem)
          /\ \A k \in In(w) : k < n /\ w[k].to = "super" =>
               Cardinality(Clear(w[n].bitmap)) <= w[k].free_blocks
      BY <1>m, <3>1 DEF BitmapsSafe
    <3>3. ASSUME NEW i \in Inodes, NEW k \in Slots, disk.blocks[i][k] # 0
          PROVE  pending'[n].bitmap[disk.blocks[i][k]] = 1
      <4>1. mem.bitmap[mem.blocks[i][k]] = 1 /\ mem.blocks[i][k] \in Blocks
        BY <1>d, <3>3, MetaFields DEF Sound, Exclusive
      <4>2. mem.blocks[i][k] \notin Clear(w[n].bitmap)
        BY <3>2, <4>1 DEF FreeBlocks
      <4>3. w[n].bitmap \in [Blocks -> {0, 1}]
        <5>1. w[n] \in Writes
          BY <1>m, <3>1, ElementOfSeq DEF In
        <5>. QED
          BY <3>1, <5>1, WriteFields
      <4>. QED
        BY <1>d, <3>1, <4>1, <4>2, <4>3 DEF Clear
    <3>4. /\ Cardinality(Clear(w[n].bitmap)) <= Cardinality(FreeBlocks(mem))
          /\ Cardinality(Clear(w[n].bitmap)) \in Nat
      BY <2>c, <3>2, FS_Subset, FS_CardinalityType
    <3>5. Cardinality(Clear(w[n].bitmap)) <= disk.free_blocks
      BY <1>d, <2>c, <3>4
    <3>6. \A k \in Coming' : k < n /\ pending'[k].to = "super" =>
            Cardinality(Clear(w[n].bitmap)) <= pending'[k].free_blocks
      BY <1>3, <3>2
    <3>. QED
      BY <2>u, <2>2, <3>3, <3>5, <3>6
  <2>3. ASSUME NEW n \in Coming', pending'[n].to = "super"
        PROVE  /\ pending'[n].free_blocks + Cardinality(Held(disk)) <= BLOCKS
               /\ n # 1 /\ pending'[n - 1].to = "bitmap"
               /\ Cardinality(Unmarked(n - 1)') <= pending'[n].free_blocks
    <3>1. n \in In(w) /\ pending'[n] = w[n] /\ w[n].to = "super"
      BY <1>3, <2>3
    <3>2. /\ w[n].free_blocks <= mem.free_blocks
          /\ n # 1 /\ w[n - 1].to = "bitmap"
          /\ Cardinality(Clear(w[n - 1].bitmap)) <= w[n].free_blocks
      BY <1>m, <3>1, Zenon DEF SupersSafe
    <3>3. w[n].free_blocks \in Nat
      <4>1. w[n] \in Writes
        BY <1>m, <3>1, ElementOfSeq DEF In
      <4>. QED
        BY <3>1, <4>1, WriteFields
    <3>4. n - 1 \in In(w)
      <4>1. Len(w) \in Nat
        BY DEF Parts
      <4>. QED
        BY <3>1, <3>2, <4>1 DEF In
    <3>5. pending'[n - 1] = w[n - 1] /\ n - 1 \in Coming'
      BY <1>2, <3>4
    <3>6. pending'[n].free_blocks + Cardinality(Held(disk)) <= BLOCKS
      BY <2>c, <2>h, <3>1, <3>2, <3>3
    <3>. QED
      BY <2>u, <3>1, <3>2, <3>5, <3>6
  <2>. QED
    BY <2>1, <2>2, <2>3 DEF CountsSafe
<1>9. ASSUME disk.free_inodes >= m.free_inodes PROVE InodesSaved'
  <2>1. m.free_inodes \in Nat
    BY <1>m, MetaFields, Sizes
  <2>2. \A n \in Coming' : pending'[n].to = "super" => pending'[n].free_inodes = m.free_inodes
    BY <1>m, <1>3 DEF SupersSafe
  <2>. QED
    BY <1>9, <2>1, <2>2 DEF InodesSaved
<1>. QED
  BY <1>1, <1>4, <1>5, <1>6, <1>7, <1>8, <1>9

-----------------------------------------------------------------------------
\* A free block is nobody's.
LEMMA FreeUnheld ==
  ASSUME NEW m, Exclusive(m), NEW b \in FreeBlocks(m), NEW i \in Inodes, NEW k \in Slots
  PROVE  m.blocks[i][k] # b
<1>1. b # 0 /\ m.bitmap[b] = 0
  BY Sizes DEF FreeBlocks, Blocks
<1>. QED
  BY <1>1 DEF Exclusive

\* Who has which block is a matter of these fields alone.
LEMMA SameExclusive ==
  ASSUME NEW m, NEW e, Exclusive(m), e.type = m.type, e.bitmap = m.bitmap,
         \A i \in Inodes, k \in Slots : e.blocks[i][k] = m.blocks[i][k]
  PROVE  Exclusive(e)
<1>1. ASSUME NEW i \in Inodes, NEW j \in Inodes, NEW k \in Slots, NEW l \in Slots,
             e.blocks[i][k] # 0, e.blocks[i][k] = e.blocks[j][l]
      PROVE  i = j /\ k = l
  <2>1. m.blocks[i][k] # 0 /\ m.blocks[i][k] = m.blocks[j][l]
    BY <1>1
  <2>. QED
    BY <2>1, Zenon DEF Exclusive
<1>2. /\ \A i \in Inodes, k \in Slots : e.blocks[i][k] # 0 => e.bitmap[e.blocks[i][k]] = 1
      /\ \A i \in Inodes, k \in Slots : e.type[i] = "free" => e.blocks[i][k] = 0
      /\ e.type[Root] = "dir"
  BY DEF Exclusive
<1>. QED
  BY <1>1, <1>2 DEF Exclusive

\* A free block, marked and put in an empty slot of an inode in use.
LEMMA Taken ==
  ASSUME NEW m \in Metadata, Exclusive(m), Counted(m), NEW e, NEW b \in FreeBlocks(m),
         NEW ino \in Inodes, NEW k \in Slots, m.blocks[ino][k] = 0, m.type[ino] # "free",
         e.type = m.type, e.free_blocks = m.free_blocks - 1,
         \A i \in Inodes, l \in Slots :
           e.blocks[i][l] = IF i = ino /\ l = k THEN b ELSE m.blocks[i][l],
         \A c \in Blocks : e.bitmap[c] = IF c = b THEN 1 ELSE m.bitmap[c]
  PROVE  Exclusive(e) /\ Counted(e) /\ (Exact(m) => Exact(e))
<1>b. b \in Blocks /\ b # 0 /\ \A i \in Inodes, l \in Slots : m.blocks[i][l] # b
  BY FreeUnheld, Sizes DEF FreeBlocks, Blocks
<1>t. /\ \A i \in Inodes, l \in Slots : m.blocks[i][l] \in Blocks \cup {0}
      /\ m.free_blocks \in Nat /\ BLOCKS \in Nat
  BY MetaFields, Sizes
<1>1. Exclusive(e)
  <2>1. ASSUME NEW i \in Inodes, NEW j \in Inodes, NEW l \in Slots, NEW n \in Slots,
               e.blocks[i][l] # 0, e.blocks[i][l] = e.blocks[j][n]
        PROVE  i = j /\ l = n
    <3>1. CASE e.blocks[i][l] = b
      <4>1. i = ino /\ l = k
        BY <1>b, <3>1
      <4>2. e.blocks[j][n] = b
        BY <2>1, <3>1
      <4>3. j = ino /\ n = k
        BY <1>b, <4>2
      <4>. QED
        BY <4>1, <4>3
    <3>2. CASE e.blocks[i][l] # b
      <4>1. m.blocks[i][l] # 0 /\ m.blocks[i][l] = m.blocks[j][n]
        BY <2>1, <3>2
      <4>. QED
        BY <4>1, Zenon DEF Exclusive
    <3>. QED
      BY <3>1, <3>2
  <2>2. ASSUME NEW i \in Inodes, NEW l \in Slots, e.blocks[i][l] # 0
        PROVE  e.bitmap[e.blocks[i][l]] = 1
    BY <1>b, <1>t, <2>2 DEF Exclusive
  <2>3. ASSUME NEW i \in Inodes, NEW l \in Slots, e.type[i] = "free"
        PROVE  e.blocks[i][l] = 0
    BY <2>3 DEF Exclusive
  <2>. QED
    BY <2>1, <2>2, <2>3 DEF Exclusive
<1>2. Held(e) = Held(m) \cup {b} /\ b \notin Held(m)
  <2>1. b \notin Held(m)
    BY <1>b DEF Held
  <2>2. ASSUME NEW c \in Held(m) PROVE c \in Held(e)
    <3>1. PICK i \in Inodes, l \in Slots : m.blocks[i][l] = c /\ c \in Blocks
      BY DEF Held
    <3>2. c # 0
      BY <3>1, Sizes DEF Blocks
    <3>3. e.blocks[i][l] = c
      BY <3>1, <3>2
    <3>. QED
      BY <3>1, <3>3 DEF Held
  <2>3. b \in Held(e)
    <3>1. e.blocks[ino][k] = b
      OBVIOUS
    <3>. QED
      BY <1>b, <3>1 DEF Held
  <2>4. ASSUME NEW c \in Held(e), c # b PROVE c \in Held(m)
    BY <2>4 DEF Held
  <2>. QED
    BY <2>1, <2>2, <2>3, <2>4
<1>3. FreeBlocks(e) = FreeBlocks(m) \ {b}
  BY <1>b DEF FreeBlocks
<1>4. /\ Cardinality(Held(e)) = Cardinality(Held(m)) + 1
      /\ Cardinality(FreeBlocks(e)) = Cardinality(FreeBlocks(m)) - 1
      /\ Cardinality(Held(m)) \in Nat /\ Cardinality(FreeBlocks(m)) \in Nat
  <2>1. /\ IsFiniteSet(Held(m)) /\ IsFiniteSet(FreeBlocks(m))
        /\ Cardinality(Held(m)) \in Nat /\ Cardinality(FreeBlocks(m)) \in Nat
    BY CountsTyped
  <2>2. Cardinality(Held(m) \cup {b}) = Cardinality(Held(m)) + 1
    BY <1>2, <2>1, FS_AddElement
  <2>3. Cardinality(FreeBlocks(m) \ {b}) = Cardinality(FreeBlocks(m)) - 1
    BY <2>1, FS_RemoveElement
  <2>. QED
    BY <1>2, <1>3, <2>1, <2>2, <2>3
<1>5. Counted(e)
  BY <1>t, <1>4 DEF Counted
<1>6. Exact(m) => Exact(e)
  BY <1>2, <1>4 DEF Exact
<1>. QED
  BY <1>1, <1>5, <1>6

-----------------------------------------------------------------------------
\* The loop of pafs_vfs_write turns once or twice.
LEMMA LoopTurns ==
  ASSUME NEW ino, NEW offset \in Nat, NEW count \in 1 .. 2, NEW v
  PROVE  LET start == [m |-> mem, w |-> <<>>, done |-> {}, on |-> TRUE]
             once == WriteBlock(start, ino, offset + 1, v)
         IN  WriteLoop(ino, offset, count, v) =
               IF count = 1 THEN once ELSE WriteBlock(once, ino, offset + 2, v)
<1>. DEFINE start == [m |-> mem, w |-> <<>>, done |-> {}, on |-> TRUE]
            once == WriteBlock(start, ino, offset + 1, v)
            twice == WriteBlock(once, ino, offset + 2, v)
            X == offset .. offset + count
            E(f) == [k \in X |-> IF k = offset THEN start ELSE WriteBlock(f[k - 1], ino, k, v)]
            g == [k \in X |-> IF k = offset THEN start
                              ELSE IF k = offset + 1 THEN once ELSE twice]
            S == CHOOSE f : f = E(f)
<1>0. WriteLoop(ino, offset, count, v) = S[offset + count]
  BY Zenon DEF WriteLoop
<1>. HIDE DEF start, once, twice
<1>1. g = E(g)
  <2>1. ASSUME NEW k \in X
        PROVE  g[k] = IF k = offset THEN start ELSE WriteBlock(g[k - 1], ino, k, v)
    <3>1. k = offset \/ k = offset + 1 \/ k = offset + 2
      OBVIOUS
    <3>2. CASE k = offset
      BY <3>2
    <3>3. CASE k = offset + 1
      <4>1. k - 1 = offset /\ k - 1 \in X /\ k # offset
        BY <3>3
      <4>2. g[k - 1] = start /\ g[k] = once
        BY <3>3, <4>1
      <4>. QED
        BY <3>3, <4>1, <4>2 DEF once
    <3>4. CASE k = offset + 2
      <4>1. k - 1 = offset + 1 /\ k - 1 \in X /\ k # offset /\ k - 1 # offset
        BY <3>4
      <4>2. g[k - 1] = once /\ g[k] = twice
        BY <3>4, <4>1
      <4>. QED
        BY <3>4, <4>1, <4>2 DEF twice
    <3>. QED
      BY <3>1, <3>2, <3>3, <3>4
  <2>. QED
    BY <2>1
<1>. HIDE DEF g, E
<1>2. S = E(S)
  BY <1>1, Zenon
<1>. HIDE DEF S
<1>3. \A k \in X : S[k] = IF k = offset THEN start ELSE WriteBlock(S[k - 1], ino, k, v)
  BY <1>2 DEF E
<1>4. S[offset] = start
  BY <1>3
<1>5. S[offset + 1] = once
  <2>1. offset + 1 \in X /\ offset + 1 # offset /\ (offset + 1) - 1 = offset
    OBVIOUS
  <2>. QED
    BY <1>3, <1>4, <2>1 DEF once
<1>6. count = 2 => S[offset + 2] = twice
  <2>1. count = 2 => offset + 2 \in X /\ offset + 2 # offset /\ (offset + 2) - 1 = offset + 1
    OBVIOUS
  <2>. QED
    BY <1>3, <1>5, <2>1 DEF twice
<1>7. WriteLoop(ino, offset, count, v) = IF count = 1 THEN once ELSE twice
  BY <1>0, <1>5, <1>6
<1>. QED
  BY <1>7 DEF start, once, twice

\* The inode fields that create and write set together: block b in slot k of inode
\* ino, and its size n.
Placing(e, m, ino, k, b, n) ==
  /\ e \in Metadata /\ e.type = m.type
  /\ e.bitmap = m.bitmap /\ e.free_blocks = m.free_blocks /\ e.free_inodes = m.free_inodes
  /\ \A i \in Inodes, l \in Slots :
       e.blocks[i][l] = IF i = ino /\ l = k THEN b ELSE m.blocks[i][l]
  /\ \A i \in Inodes : /\ e.size[i] = IF i = ino THEN n ELSE m.size[i]
                       /\ i # ino => e.blocks[i] = m.blocks[i]

\* That is what their assignments do.
LEMMA Placed ==
  ASSUME NEW m \in Metadata, NEW ino \in Inodes, NEW k \in Slots, NEW b \in Blocks \cup {0},
         NEW n \in 0 .. SLOTS * PER_BLOCK
  PROVE  Placing([m EXCEPT !.blocks[ino][k] = b, !.size[ino] = n], m, ino, k, b, n)
<1>. DEFINE e == [m EXCEPT !.blocks[ino][k] = b, !.size[ino] = n]
<1>1. /\ m.blocks \in [Inodes -> [Slots -> Blocks \cup {0}]]
      /\ m.size \in [Inodes -> 0 .. SLOTS * PER_BLOCK]
  BY MetaFields
<1>2. /\ [m.blocks EXCEPT ![ino][k] = b] \in [Inodes -> [Slots -> Blocks \cup {0}]]
      /\ [m.size EXCEPT ![ino] = n] \in [Inodes -> 0 .. SLOTS * PER_BLOCK]
  BY <1>1
<1>3. /\ e \in Metadata /\ e.type = m.type
      /\ e.bitmap = m.bitmap /\ e.free_blocks = m.free_blocks /\ e.free_inodes = m.free_inodes
      /\ e.blocks = [m.blocks EXCEPT ![ino][k] = b] /\ e.size = [m.size EXCEPT ![ino] = n]
  BY <1>2 DEF Metadata
<1>. HIDE DEF e
<1>4. \A i \in Inodes, l \in Slots :
        [m.blocks EXCEPT ![ino][k] = b][i][l] = IF i = ino /\ l = k THEN b ELSE m.blocks[i][l]
  BY <1>1
<1>5. \A i \in Inodes : /\ [m.size EXCEPT ![ino] = n][i] = IF i = ino THEN n ELSE m.size[i]
                        /\ i # ino => [m.blocks EXCEPT ![ino][k] = b][i] = m.blocks[i]
  BY <1>1
<1>6. Placing(e, m, ino, k, b, n)
  BY <1>3, <1>4, <1>5 DEF Placing
<1>. QED
  BY <1>6 DEF e

\* The inodes do not matter to the other sectors.
LEMMA SavesSame ==
  ASSUME NEW m, NEW e \in Metadata, NEW w, NEW D, NEW T, Saves(m, w, D, T),
         e.bitmap = m.bitmap, e.free_blocks = m.free_blocks, e.free_inodes = m.free_inodes
  PROVE  Saves(e, w, D, T)
<1>1. FreeBlocks(e) = FreeBlocks(m)
  BY DEF FreeBlocks
<1>. QED
  BY <1>1 DEF Saves, BitmapsSafe, SupersSafe

\* What the turns of the loop keep, with the blocks' contents D that they lead to.
OwnBlocks(ino) == {mem.blocks[ino][k] : k \in Slots}
LoopStates == [m : Metadata, w : Seq(Writes), done : SUBSET Slots, on : BOOLEAN]
LoopSound(s, D, ino, v) ==
  /\ s \in LoopStates
  /\ Saves(s.m, s.w, D, OwnBlocks(ino))
  /\ Exclusive(s.m) /\ Counted(s.m) /\ (failed = 0 => Exact(s.m))
  /\ s.m.type = mem.type /\ s.m.free_inodes = mem.free_inodes
  /\ \A i \in Inodes : i # ino => s.m.size[i] = mem.size[i] /\ s.m.blocks[i] = mem.blocks[i]
  /\ s.m.size[ino] >= mem.size[ino]
  /\ \A k \in Slots :
       /\ mem.blocks[ino][k] # 0 => s.m.blocks[ino][k] = mem.blocks[ino][k]
       /\ s.m.blocks[ino][k] \in FreeBlocks(mem) \cup {mem.blocks[ino][k]}
       /\ k \in s.done => /\ k <= s.m.size[ino] /\ s.m.blocks[ino][k] # 0
                          /\ D[s.m.blocks[ino][k]] = FileBlock(v)
       /\ k \notin s.done /\ mem.blocks[ino][k] # 0 =>
            D[mem.blocks[ino][k]] = data[mem.blocks[ino][k]]

\* A turn that writes: slot k has block b, new or not, in the metadata e.
LEMMA TurnSound ==
  ASSUME NEW s, NEW D, NEW ino \in Inodes, NEW v \in Values, LoopSound(s, D, ino, v),
         mem \in Metadata, NEW k \in Slots, NEW b \in Blocks, NEW e, NEW x, NEW m,
         b \in FreeBlocks(mem) \cup OwnBlocks(ino),
         Saves(m, x, D, OwnBlocks(ino)),
         Placing(e, m, ino, k, b, SizeAfter(m.size[ino], k)),
         m.type = s.m.type, m.size = s.m.size, m.blocks = s.m.blocks,
         m.free_inodes = s.m.free_inodes,
         s.m.blocks[ino][k] = b \/ (s.m.blocks[ino][k] = 0 /\ b \in FreeBlocks(mem)),
         Exclusive(e), Counted(e), failed = 0 => Exact(e)
  PROVE  \E F : LoopSound([m |-> e, w |-> x \o <<WriteData(b, FileBlock(v))>>,
                           done |-> s.done \cup {k}, on |-> TRUE], F, ino, v)
<1>. DEFINE F == [D EXCEPT ![b] = FileBlock(v)]
            y == x \o <<WriteData(b, FileBlock(v))>>
            r == [m |-> e, w |-> y, done |-> s.done \cup {k}, on |-> TRUE]
<1>m. m \in Metadata /\ D \in [Blocks -> Contents] /\ s.m \in Metadata /\ s.done \subseteq Slots
  BY DEF Saves, LoopSound, LoopStates
<1>f. FileBlock(v) \in Contents
  BY DEF FileBlock, Contents, Cell
<1>1. Saves(m, y, F, OwnBlocks(ino))
  BY <1>f, DataSaves
<1>2. PICK n \in 0 .. SLOTS * PER_BLOCK :
        n = SizeAfter(m.size[ino], k) /\ n >= m.size[ino] /\ n >= k
  <2>1. m.size[ino] \in 0 .. SLOTS * PER_BLOCK /\ k \in 1 .. SLOTS
    BY <1>m, MetaFields DEF Slots
  <2>2. SLOTS \in Nat /\ SLOTS * PER_BLOCK \in Nat /\ SLOTS <= SLOTS * PER_BLOCK
    BY Sizes, RoomForFiles
  <2>. QED
    BY <2>1, <2>2 DEF SizeAfter
<1>4. /\ e \in Metadata /\ e.type = m.type
      /\ e.bitmap = m.bitmap /\ e.free_blocks = m.free_blocks /\ e.free_inodes = m.free_inodes
      /\ \A i \in Inodes, l \in Slots :
           e.blocks[i][l] = IF i = ino /\ l = k THEN b ELSE m.blocks[i][l]
      /\ \A i \in Inodes : /\ e.size[i] = IF i = ino THEN n ELSE m.size[i]
                           /\ i # ino => e.blocks[i] = m.blocks[i]
  BY <1>2, Zenon DEF Placing
<1>5. Saves(e, y, F, OwnBlocks(ino))
  BY <1>1, <1>4, SavesSame
<1>6. r \in LoopStates /\ r.m = e /\ r.w = y /\ r.done = s.done \cup {k}
  BY <1>m, <1>4, <1>5 DEF LoopStates, Saves
<1>d. F[b] = FileBlock(v) /\ \A c \in Blocks : c # b => F[c] = D[c]
  BY <1>m, <1>f
<1>b. b # 0 /\ \A i \in Inodes, l \in Slots : mem.blocks[i][l] \in Blocks \cup {0}
  BY MetaFields, Sizes DEF Blocks
<1>z. s.m.size[ino] \in Nat /\ mem.size[ino] \in Nat
  BY <1>m, MetaFields
<1>. HIDE DEF F, y, r
<1>l. /\ s.m.type = mem.type /\ s.m.free_inodes = mem.free_inodes
      /\ \A i \in Inodes : i # ino => s.m.size[i] = mem.size[i] /\ s.m.blocks[i] = mem.blocks[i]
      /\ s.m.size[ino] >= mem.size[ino]
      /\ \A l \in Slots :
           /\ mem.blocks[ino][l] # 0 => s.m.blocks[ino][l] = mem.blocks[ino][l]
           /\ s.m.blocks[ino][l] \in FreeBlocks(mem) \cup {mem.blocks[ino][l]}
           /\ l \in s.done => /\ l <= s.m.size[ino] /\ s.m.blocks[ino][l] # 0
                              /\ D[s.m.blocks[ino][l]] = FileBlock(v)
           /\ l \notin s.done /\ mem.blocks[ino][l] # 0 =>
                D[mem.blocks[ino][l]] = data[mem.blocks[ino][l]]
  BY DEF LoopSound
<1>7. /\ e.type = mem.type /\ e.free_inodes = mem.free_inodes
      /\ \A i \in Inodes : i # ino => e.size[i] = mem.size[i] /\ e.blocks[i] = mem.blocks[i]
      /\ e.size[ino] >= mem.size[ino]
  BY <1>l, <1>z, <1>2, <1>4
<1>8. ASSUME NEW l \in Slots
      PROVE  /\ mem.blocks[ino][l] # 0 => e.blocks[ino][l] = mem.blocks[ino][l]
             /\ e.blocks[ino][l] \in FreeBlocks(mem) \cup {mem.blocks[ino][l]}
             /\ l \in r.done => /\ l <= e.size[ino] /\ e.blocks[ino][l] # 0
                                /\ F[e.blocks[ino][l]] = FileBlock(v)
             /\ l \notin r.done /\ mem.blocks[ino][l] # 0 =>
                  F[mem.blocks[ino][l]] = data[mem.blocks[ino][l]]
  <2>1. mem.blocks[ino][l] # 0 => e.blocks[ino][l] = mem.blocks[ino][l]
    BY <1>l, <1>4
  <2>4. e.blocks[ino][l] \in FreeBlocks(mem) \cup {mem.blocks[ino][l]}
    BY <1>l, <1>4
  <2>2. ASSUME l \in r.done
        PROVE  /\ l <= e.size[ino] /\ e.blocks[ino][l] # 0
               /\ F[e.blocks[ino][l]] = FileBlock(v)
    <3>1. CASE l = k
      <4>1. e.blocks[ino][l] = b /\ e.size[ino] = n
        BY <1>4, <3>1
      <4>. QED
        BY <1>2, <1>b, <1>d, <3>1, <4>1
    <3>2. CASE l # k
      <4>1. l \in s.done
        BY <1>6, <2>2, <3>2
      <4>2. e.blocks[ino][l] = s.m.blocks[ino][l] /\ e.size[ino] = n
        BY <1>4, <3>2
      <4>3. l <= s.m.size[ino] /\ s.m.blocks[ino][l] # 0 /\ D[s.m.blocks[ino][l]] = FileBlock(v)
        BY <1>l, <4>1
      <4>4. s.m.blocks[ino][l] \in Blocks
        BY <1>m, <4>3, MetaFields
      <4>5. F[s.m.blocks[ino][l]] = FileBlock(v)
        BY <1>d, <4>3, <4>4
      <4>6. l <= n
        BY <1>2, <1>z, <4>3 DEF Slots
      <4>. QED
        BY <4>2, <4>3, <4>5, <4>6
    <3>. QED
      BY <3>1, <3>2
  <2>3. ASSUME l \notin r.done, mem.blocks[ino][l] # 0
        PROVE  F[mem.blocks[ino][l]] = data[mem.blocks[ino][l]]
    <3>1. l # k /\ l \notin s.done
      BY <1>6, <2>3
    <3>2. e.blocks[ino][l] = mem.blocks[ino][l] /\ e.blocks[ino][k] = b
      BY <1>4, <2>1, <2>3
    <3>3. ASSUME mem.blocks[ino][l] = b PROVE FALSE
      <4>1. e.blocks[ino][l] # 0 /\ e.blocks[ino][l] = e.blocks[ino][k]
        BY <1>b, <3>2, <3>3
      <4>2. l = k
        BY <4>1, Zenon DEF Exclusive
      <4>. QED
        BY <3>1, <4>2
    <3>4. mem.blocks[ino][l] \in Blocks
      BY <1>b, <2>3
    <3>. QED
      BY <1>d, <1>l, <2>3, <3>1, <3>3, <3>4
  <2>. QED
    BY <2>1, <2>2, <2>3, <2>4
<1>9. LoopSound(r, F, ino, v)
  BY <1>5, <1>6, <1>7, <1>8 DEF LoopSound
<1>. QED
  BY <1>9 DEF r, y

\* Every turn of the loop keeps it.
LEMMA TurnInv ==
  ASSUME NEW s, NEW D, NEW ino \in Inodes, NEW v \in Values, LoopSound(s, D, ino, v),
         mem \in Metadata, mem.type[ino] = "file", NEW k \in Nat, k >= 1
  PROVE  \E F : LoopSound(WriteBlock(s, ino, k, v), F, ino, v)
<1>l. /\ s \in LoopStates /\ s.m \in Metadata /\ s.w \in Seq(Writes)
      /\ Saves(s.m, s.w, D, OwnBlocks(ino))
      /\ Exclusive(s.m) /\ Counted(s.m) /\ (failed = 0 => Exact(s.m))
      /\ s.m.type = mem.type
  BY DEF LoopSound, LoopStates
<1>1. CASE k > SLOTS \/ ~s.on \/ (s.m.blocks[ino][k] = 0 /\ FreeBlocks(s.m) = {})
  <2>1. WriteBlock(s, ino, k, v) = [s EXCEPT !.on = FALSE]
    BY <1>1 DEF WriteBlock
  <2>2. PICK r : r = WriteBlock(s, ino, k, v)
    OBVIOUS
  <2>3. r \in LoopStates /\ r.m = s.m /\ r.w = s.w /\ r.done = s.done
    BY <1>l, <2>1, <2>2 DEF LoopStates
  <2>4. LoopSound(r, D, ino, v)
    BY <2>3 DEF LoopSound
  <2>. QED
    BY <2>2, <2>4
<1>2. CASE ~(k > SLOTS \/ ~s.on \/ (s.m.blocks[ino][k] = 0 /\ FreeBlocks(s.m) = {}))
  <2>k. k \in Slots /\ s.m.blocks[ino][k] \in Blocks \cup {0}
    <3>1. k \in Slots
      BY <1>2, Sizes DEF Slots
    <3>. QED
      BY <1>l, <3>1, MetaFields
  <2>n. SizeAfter(s.m.size[ino], k) \in 0 .. SLOTS * PER_BLOCK
    <3>1. s.m.size[ino] \in 0 .. SLOTS * PER_BLOCK /\ k \in 1 .. SLOTS
      BY <1>l, <2>k, MetaFields DEF Slots
    <3>2. SLOTS \in Nat /\ SLOTS * PER_BLOCK \in Nat /\ SLOTS <= SLOTS * PER_BLOCK
      BY Sizes, RoomForFiles
    <3>. QED
      BY <3>1, <3>2 DEF SizeAfter
  <2>1. CASE s.m.blocks[ino][k] = 0
    <3>1. PICK b : b = Smallest(FreeBlocks(s.m))
      OBVIOUS
    <3>2. b \in FreeBlocks(s.m) /\ b \in Blocks
      <4>1. FreeBlocks(s.m) \subseteq Nat /\ FreeBlocks(s.m) # {}
        BY <1>2, <2>1 DEF FreeBlocks, Blocks
      <4>. QED
        BY <3>1, <4>1, SmallestIn DEF FreeBlocks
    <3>3. Cardinality(FreeBlocks(s.m)) <= s.m.free_blocks
      BY <1>l DEF Counted
    <3>4. PICK m : m = Allocated(s.m, b)
      OBVIOUS
    <3>5. /\ m \in Metadata /\ m.type = s.m.type /\ m.size = s.m.size /\ m.blocks = s.m.blocks
          /\ m.free_inodes = s.m.free_inodes
          /\ m.bitmap = [s.m.bitmap EXCEPT ![b] = 1] /\ m.free_blocks = s.m.free_blocks - 1
      BY <1>l, <3>2, <3>3, <3>4, AllocatedFields
    <3>6. Saves(m, s.w \o AllocWrites(m), D, OwnBlocks(ino))
      BY <1>l, <3>2, <3>3, <3>4, AllocSaves
    <3>7. b \in FreeBlocks(mem) \cup OwnBlocks(ino)
      BY <1>l, <3>2 DEF Saves
    <3>8. PICK e : e = [m EXCEPT !.blocks[ino][k] = b, !.size[ino] = SizeAfter(@, k)]
      OBVIOUS
    <3>9. Placing(e, m, ino, k, b, SizeAfter(m.size[ino], k))
      <4>1. PICK n \in 0 .. SLOTS * PER_BLOCK : n = SizeAfter(m.size[ino], k)
        BY <2>n, <3>5
      <4>2. e = [m EXCEPT !.blocks[ino][k] = b, !.size[ino] = n]
        BY <3>8, <4>1
      <4>3. Placing([m EXCEPT !.blocks[ino][k] = b, !.size[ino] = n], m, ino, k, b, n)
        BY <2>k, <3>2, <3>5, Placed
      <4>. QED
        BY <4>1, <4>2, <4>3
    <3>10. Exclusive(e) /\ Counted(e) /\ (failed = 0 => Exact(e))
      <4>1. /\ e.type = s.m.type /\ e.free_blocks = s.m.free_blocks - 1
            /\ \A i \in Inodes, l \in Slots :
                 e.blocks[i][l] = IF i = ino /\ l = k THEN b ELSE s.m.blocks[i][l]
            /\ e.bitmap = [s.m.bitmap EXCEPT ![b] = 1]
        BY <3>5, <3>9 DEF Placing
      <4>2. \A c \in Blocks : e.bitmap[c] = IF c = b THEN 1 ELSE s.m.bitmap[c]
        BY <1>l, <4>1, MetaFields
      <4>3. s.m.type[ino] # "free"
        BY <1>l
      <4>4. PICK q \in Metadata : q = s.m
        BY <1>l
      <4>5. Exclusive(e) /\ Counted(e) /\ (Exact(q) => Exact(e))
        <5>1. /\ Exclusive(q) /\ Counted(q) /\ b \in FreeBlocks(q) /\ q.blocks[ino][k] = 0
              /\ q.type[ino] # "free" /\ e.type = q.type /\ e.free_blocks = q.free_blocks - 1
              /\ \A i \in Inodes, l \in Slots :
                   e.blocks[i][l] = IF i = ino /\ l = k THEN b ELSE q.blocks[i][l]
              /\ \A c \in Blocks : e.bitmap[c] = IF c = b THEN 1 ELSE q.bitmap[c]
          BY <1>l, <2>1, <3>2, <4>1, <4>2, <4>3, <4>4
        <5>. QED
          BY <2>k, <5>1, Taken
      <4>. QED
        BY <1>l, <4>4, <4>5
    <3>11. \E F : LoopSound([m |-> e, w |-> (s.w \o AllocWrites(m)) \o <<WriteData(b, FileBlock(v))>>,
                             done |-> s.done \cup {k}, on |-> TRUE], F, ino, v)
      <4>1. s.m.blocks[ino][k] = b \/ (s.m.blocks[ino][k] = 0 /\ b \in FreeBlocks(mem))
        BY <1>l, <2>1, <3>2 DEF Saves
      <4>2. PICK x : x = s.w \o AllocWrites(m)
        OBVIOUS
      <4>3. Saves(m, x, D, OwnBlocks(ino))
        BY <3>6, <4>2
      <4>4. \E F : LoopSound([m |-> e, w |-> x \o <<WriteData(b, FileBlock(v))>>,
                              done |-> s.done \cup {k}, on |-> TRUE], F, ino, v)
        BY <2>k, <3>2, <3>5, <3>7, <3>9, <3>10, <4>1, <4>3, TurnSound
      <4>. QED
        BY <4>2, <4>4
    <3>12. WriteBlock(s, ino, k, v) =
             [m |-> e, w |-> (s.w \o AllocWrites(m)) \o <<WriteData(b, FileBlock(v))>>,
              done |-> s.done \cup {k}, on |-> TRUE]
      BY <1>2, <2>1, <3>1, <3>4, <3>8, Zenon DEF WriteBlock
    <3>. QED
      BY <3>11, <3>12
  <2>2. CASE s.m.blocks[ino][k] # 0
    <3>1. PICK b \in Blocks : b = s.m.blocks[ino][k]
      BY <2>k, <2>2
    <3>2. b \in FreeBlocks(mem) \cup OwnBlocks(ino)
      <4>1. b \in FreeBlocks(mem) \cup {mem.blocks[ino][k]}
        BY <2>k, <3>1 DEF LoopSound
      <4>. QED
        BY <2>k, <4>1 DEF OwnBlocks
    <3>3. PICK m \in Metadata : m = s.m
      BY <1>l
    <3>4. PICK e : e = [m EXCEPT !.blocks[ino][k] = b, !.size[ino] = SizeAfter(@, k)]
      OBVIOUS
    <3>5. Placing(e, m, ino, k, b, SizeAfter(m.size[ino], k))
      <4>1. PICK n \in 0 .. SLOTS * PER_BLOCK : n = SizeAfter(m.size[ino], k)
        BY <2>n, <3>3
      <4>2. e = [m EXCEPT !.blocks[ino][k] = b, !.size[ino] = n]
        BY <3>4, <4>1
      <4>3. Placing([m EXCEPT !.blocks[ino][k] = b, !.size[ino] = n], m, ino, k, b, n)
        BY <2>k, Placed
      <4>. QED
        BY <4>1, <4>2, <4>3
    <3>6. /\ e.type = m.type /\ e.bitmap = m.bitmap /\ e.free_blocks = m.free_blocks
          /\ \A i \in Inodes, l \in Slots : e.blocks[i][l] = m.blocks[i][l]
      BY <3>1, <3>3, <3>5 DEF Placing
    <3>7. Exclusive(e) /\ Counted(e) /\ (failed = 0 => Exact(e))
      <4>1. Held(e) = Held(m) /\ FreeBlocks(e) = FreeBlocks(m)
        BY <3>6 DEF Held, FreeBlocks
      <4>2. Exclusive(m) /\ Counted(m) /\ (failed = 0 => Exact(m))
        BY <1>l, <3>3
      <4>3. Exclusive(e)
        BY <3>6, <4>2, SameExclusive
      <4>. QED
        BY <3>6, <4>1, <4>2, <4>3 DEF Counted, Exact
    <3>8. \E F : LoopSound([m |-> e, w |-> s.w \o <<WriteData(b, FileBlock(v))>>,
                            done |-> s.done \cup {k}, on |-> TRUE], F, ino, v)
      <4>1. PICK x : x = s.w
        OBVIOUS
      <4>2. Saves(m, x, D, OwnBlocks(ino))
        BY <1>l, <3>3, <4>1
      <4>3. \E F : LoopSound([m |-> e, w |-> x \o <<WriteData(b, FileBlock(v))>>,
                              done |-> s.done \cup {k}, on |-> TRUE], F, ino, v)
        BY <2>k, <3>1, <3>2, <3>3, <3>5, <3>7, <4>2, TurnSound
      <4>. QED
        BY <4>1, <4>3
    <3>9. WriteBlock(s, ino, k, v) =
            [m |-> e, w |-> s.w \o <<WriteData(b, FileBlock(v))>>,
             done |-> s.done \cup {k}, on |-> TRUE]
      <4>1. s.w \o <<>> = s.w
        BY <1>l, ConcatEmptySeq
      <4>2. WriteBlock(s, ino, k, v) =
              [m |-> e, w |-> (s.w \o <<>>) \o <<WriteData(b, FileBlock(v))>>,
               done |-> s.done \cup {k}, on |-> TRUE]
        BY <1>2, <2>2, <3>1, <3>3, <3>4, Zenon DEF WriteBlock
      <4>. QED
        BY <4>1, <4>2
    <3>. QED
      BY <3>8, <3>9
  <2>. QED
    BY <2>1, <2>2
<1>. QED
  BY <1>1, <1>2

\* The blocks of the other inodes are not written.
LEMMA Untouched ==
  ASSUME mem \in Metadata, Exclusive(mem), NEW m, NEW w, NEW D, NEW ino \in Inodes,
         Saves(m, w, D, OwnBlocks(ino)),
         NEW i \in Inodes, i # ino, NEW k \in Slots, mem.blocks[i][k] # 0
  PROVE  /\ mem.blocks[i][k] \notin FreeBlocks(mem) \cup OwnBlocks(ino)
         /\ D[mem.blocks[i][k]] = data[mem.blocks[i][k]]
<1>1. mem.blocks[i][k] \in Blocks
  BY MetaFields
<1>2. mem.blocks[i][k] \notin FreeBlocks(mem)
  BY FreeUnheld
<1>3. mem.blocks[i][k] \notin OwnBlocks(ino)
  <2>1. ASSUME NEW l \in Slots, mem.blocks[i][k] = mem.blocks[ino][l] PROVE FALSE
    <3>1. i = ino
      BY <2>1, Zenon DEF Exclusive
    <3>. QED
      BY <3>1
  <2>. QED
    BY <2>1 DEF OwnBlocks
<1>4. \A n \in In(w) : ~(w[n].to = "data" /\ w[n].block = mem.blocks[i][k])
  BY <1>2, <1>3 DEF Saves, BlocksReach
<1>5. D[mem.blocks[i][k]] = data[mem.blocks[i][k]]
  BY <1>1, <1>4 DEF Saves, BlocksReach
<1>. QED
  BY <1>2, <1>3, <1>5

\* Between operations the disk is as sound as the memory.
LEMMA IdleDisk ==
  ASSUME Sound, Idle
  PROVE  Exclusive(disk) /\ Counted(disk) /\ DirsSound(disk, data)
<1>1. /\ disk.type = mem.type /\ disk.size = mem.size /\ disk.blocks = mem.blocks
      /\ disk.bitmap = mem.bitmap /\ disk.free_blocks = mem.free_blocks
      /\ DirsSound(mem, data)
  BY IdleFacts
<1>2. Exclusive(mem) /\ Counted(mem)
  BY DEF Sound
<1>3. Held(disk) = Held(mem) /\ FreeBlocks(disk) = FreeBlocks(mem)
  BY <1>1 DEF Held, FreeBlocks
<1>4. Exclusive(disk)
  BY <1>1, <1>2, SameExclusive
<1>5. Counted(disk)
  BY <1>1, <1>2, <1>3 DEF Counted
<1>6. DirsSound(disk, data)
  BY <1>1 DEF DirsSound, DirSound, Entry
<1>. QED
  BY <1>4, <1>5, <1>6

\* The loop as a whole.
LEMMA LoopInv ==
  ASSUME Sound, Idle, NEW ino \in Inodes, NEW offset \in Nat, NEW count \in 1 .. 2,
         NEW v \in Values, mem.type[ino] = "file"
  PROVE  \E F : LoopSound(WriteLoop(ino, offset, count, v), F, ino, v)
<1>t. mem \in Metadata /\ data \in [Blocks -> Contents]
  BY IdleFacts
<1>. DEFINE start == [m |-> mem, w |-> <<>>, done |-> {}, on |-> TRUE]
            once == WriteBlock(start, ino, offset + 1, v)
            twice == WriteBlock(once, ino, offset + 2, v)
<1>1. LoopSound(start, data, ino, v)
  <2>1. Saves(mem, <<>>, data, OwnBlocks(ino))
    BY <1>t, NoSaves
  <2>2. /\ start \in LoopStates /\ start.m = mem /\ start.w = <<>> /\ start.done = {}
    BY <1>t DEF LoopStates
  <2>. HIDE DEF start
  <2>3. Exclusive(mem) /\ Counted(mem) /\ (failed = 0 => Exact(mem)) /\ mem.size[ino] \in Nat
    BY <1>t, MetaFields DEF Sound
  <2>. QED
    BY <2>1, <2>2, <2>3 DEF LoopSound
<1>. HIDE DEF start
<1>2. offset + 1 \in Nat /\ offset + 1 >= 1 /\ offset + 2 \in Nat /\ offset + 2 >= 1
  OBVIOUS
<1>3. \E F : LoopSound(once, F, ino, v)
  BY <1>t, <1>1, <1>2, TurnInv
<1>. HIDE DEF once
<1>4. \E F : LoopSound(twice, F, ino, v)
  BY <1>t, <1>3, <1>2, TurnInv
<1>5. WriteLoop(ino, offset, count, v) = IF count = 1 THEN once ELSE twice
  BY LoopTurns DEF start, once, twice
<1>. HIDE DEF twice
<1>. QED
  BY <1>3, <1>4, <1>5

\* pafs_vfs_write preserves the invariant.
LEMMA WriteInv ==
  ASSUME Sound, NEW ino \in Inodes, NEW offset \in 0 .. SLOTS, NEW count \in 1 .. 2,
         NEW v \in Values, pafs_vfs_write(ino, offset, count, v)
  PROVE  Sound'
<1>i. Idle /\ mem.type[ino] = "file" /\ offset \in Nat
  BY DEF pafs_vfs_write
<1>f. /\ mem \in Metadata /\ disk \in Metadata /\ data \in [Blocks -> Contents]
      /\ disk.type = mem.type /\ disk.size = mem.size /\ disk.blocks = mem.blocks
      /\ DirsSound(mem, data) /\ Keeps(mem, data, written)
      /\ disk.free_inodes >= mem.free_inodes
      /\ failed = 0 => Listed(mem, data)
  BY <1>i, IdleFacts
<1>e. /\ Exclusive(mem) /\ written \in [Inodes -> [Slots -> Values \cup {0}]]
      /\ failed \in 0 .. 2 /\ (failed = 0 => mem.free_inodes >= Cardinality(FreeInodes(mem)))
  BY DEF Sound, Typed, InodesCounted
<1>1. PICK s : s = WriteLoop(ino, offset, count, v)
  OBVIOUS
<1>2. PICK F : LoopSound(s, F, ino, v)
  BY <1>i, <1>1, LoopInv
<1>l. /\ s.m \in Metadata /\ s.w \in Seq(Writes) /\ s.done \subseteq Slots
      /\ F \in [Blocks -> Contents]
      /\ Saves(s.m, s.w, F, OwnBlocks(ino))
      /\ Exclusive(s.m) /\ Counted(s.m) /\ (failed = 0 => Exact(s.m))
      /\ s.m.type = mem.type /\ s.m.free_inodes = mem.free_inodes
      /\ \A i \in Inodes : i # ino => s.m.size[i] = mem.size[i] /\ s.m.blocks[i] = mem.blocks[i]
      /\ s.m.size[ino] >= mem.size[ino]
      /\ \A k \in Slots :
           /\ mem.blocks[ino][k] # 0 => s.m.blocks[ino][k] = mem.blocks[ino][k]
           /\ k \in s.done => /\ k <= s.m.size[ino] /\ s.m.blocks[ino][k] # 0
                              /\ F[s.m.blocks[ino][k]] = FileBlock(v)
           /\ k \notin s.done /\ mem.blocks[ino][k] # 0 =>
                F[mem.blocks[ino][k]] = data[mem.blocks[ino][k]]
  BY <1>2 DEF LoopSound, LoopStates, Saves
<1>u. /\ mem' = s.m /\ disk' = disk /\ data' = data /\ failed' = failed
      /\ op' = [kind |-> "write", ino |-> ino]
      /\ pending' = s.w \o WriteEnd(s.m, ino)
      /\ written' = [written EXCEPT ![ino] =
                       [k \in Slots |-> IF k \in s.done THEN v ELSE written[ino][k]]]
  BY <1>1, <1>e DEF pafs_vfs_write, Begin
<1>3. PICK t : t = WriteEnd(s.m, ino)
  OBVIOUS
<1>4. InodeSaves(s.m, t)
  <2>1. ino \in Nat
    BY Sizes DEF Inodes
  <2>2. t = <<WriteInode(s.m, ino)>> /\ WriteInode(s.m, ino) \in Writes
    BY <1>3, <1>l, <2>1, WriteTypes DEF WriteEnd
  <2>3. t \in Seq(Writes) /\ Len(t) > 0 /\ In(t) = {1} /\ t[1] = WriteInode(s.m, ino)
    BY <2>2 DEF In
  <2>4. /\ t[1].to = "inodes" /\ t[1].type = s.m.type /\ t[1].size = s.m.size
        /\ t[1].blocks = s.m.blocks /\ t[1].sector = ino \div PER_SECTOR
    BY <2>3 DEF WriteInode
  <2>5. ASSUME NEW i \in Inodes, \A n \in In(t) : t[n].sector # i \div PER_SECTOR
        PROVE  /\ s.m.type[i] = mem.type[i] /\ s.m.size[i] = mem.size[i]
               /\ s.m.blocks[i] = mem.blocks[i]
    <3>1. i # ino
      BY <2>3, <2>4, <2>5
    <3>. QED
      BY <1>l, <3>1
  <2>. QED
    BY <2>3, <2>4, <2>5 DEF InodeSaves
<1>5. Parts(pending', s.w, t)
  BY <1>l, <1>u, <1>3, <1>4, JoinedParts DEF InodeSaves
<1>6. /\ pending' \in Seq(Writes) /\ pending' # <<>>
      /\ MetaArrives' /\ DataArrives(F)' /\ CountsSafe'
      /\ \A n \in Coming' : pending'[n].to = "data" =>
           pending'[n].block \in FreeBlocks(mem) \cup OwnBlocks(ino)
      /\ InodesSaved'
  BY <1>f, <1>i, <1>l, <1>u, <1>4, <1>5, BeginSaves
<1>7. ASSUME NEW i \in Inodes, i # ino, NEW k \in Slots, mem.blocks[i][k] # 0
      PROVE  /\ \A n \in Coming' :
                  ~(pending'[n].to = "data" /\ pending'[n].block = mem.blocks[i][k])
             /\ F[mem.blocks[i][k]] = data[mem.blocks[i][k]]
  <2>1. /\ mem.blocks[i][k] \notin FreeBlocks(mem) \cup OwnBlocks(ino)
        /\ F[mem.blocks[i][k]] = data[mem.blocks[i][k]]
    BY <1>e, <1>f, <1>l, <1>7, Untouched
  <2>. QED
    BY <1>6, <2>1
<1>w. \A i \in Inodes, k \in Slots :
        written'[i][k] = IF i = ino /\ k \in s.done THEN v ELSE written[i][k]
  BY <1>e, <1>u
<1>8. Typed'
  <2>1. written' \in [Inodes -> [Slots -> Values \cup {0}]]
    <3>1. [k \in Slots |-> IF k \in s.done THEN v ELSE written[ino][k]]
            \in [Slots -> Values \cup {0}]
      BY <1>e
    <3>. QED
      BY <1>e, <1>u, <3>1
  <2>. QED
    BY <1>e, <1>f, <1>l, <1>u, <1>6, <2>1 DEF Typed
<1>9. InProgress'
  <2>1. op'.kind = "write" /\ op' # NoOp
    BY <1>u DEF NoOp
  <2>. QED
    BY <1>u, <1>6, <2>1 DEF InProgress
<1>10. DirsSound(s.m, F) /\ (failed = 0 => Listed(s.m, F))
  <2>1. ASSUME NEW i \in Inodes, s.m.type[i] = "dir"
        PROVE  /\ i # ino /\ mem.type[i] = "dir"
               /\ s.m.size[i] = mem.size[i]
               /\ \A p \in Places : Entry(s.m, F, i, p) = Entry(mem, data, i, p)
               /\ DirSound(s.m, F, i)
    <3>1. i # ino /\ mem.type[i] = "dir"
      BY <1>i, <1>l, <2>1
    <3>2. mem.size[i] = s.m.size[i] /\ mem.blocks[i] = s.m.blocks[i]
      BY <1>l, <3>1
    <3>3. \A k \in Slots : mem.blocks[i][k] # 0 => data[mem.blocks[i][k]] = F[mem.blocks[i][k]]
      BY <1>7, <3>1
    <3>4. DirSound(mem, data, i)
      BY <1>f, <3>1 DEF DirsSound
    <3>. QED
      BY <3>1, <3>2, <3>3, <3>4, SameDir
  <2>2. ASSUME failed = 0, NEW dir \in Inodes, s.m.type[dir] = "dir", NEW i \in Indexes
        PROVE  i < s.m.size[dir] <=> Entry(s.m, F, dir, At(i)).inode # 0
    <3>1. i < mem.size[dir] <=> Entry(mem, data, dir, At(i)).inode # 0
      BY <1>f, <2>1, <2>2 DEF Listed
    <3>2. Entry(s.m, F, dir, At(i)) = Entry(mem, data, dir, At(i))
      BY <2>1, <2>2, AtPlace
    <3>. QED
      BY <2>1, <2>2, <3>1, <3>2
  <2>. QED
    BY <2>1, <2>2 DEF DirsSound, Listed
<1>11. Keeps(s.m, F, written')
  <2>1. SUFFICES ASSUME NEW i \in Inodes, NEW k \in Slots, written'[i][k] # 0
                 PROVE  /\ s.m.type[i] = "file" /\ k <= s.m.size[i] /\ s.m.blocks[i][k] # 0
                        /\ F[s.m.blocks[i][k]] = FileBlock(written'[i][k])
    BY DEF Keeps
  <2>2. CASE i = ino /\ k \in s.done
    BY <1>i, <1>l, <1>w, <2>2
  <2>3. CASE ~(i = ino /\ k \in s.done)
    <3>1. written'[i][k] = written[i][k]
      BY <1>w, <2>3
    <3>2. /\ mem.type[i] = "file" /\ k <= mem.size[i] /\ mem.blocks[i][k] # 0
          /\ data[mem.blocks[i][k]] = FileBlock(written[i][k])
      BY <1>f, <2>1, <3>1 DEF Keeps
    <3>3. CASE i # ino
      BY <1>l, <1>7, <3>1, <3>2, <3>3
    <3>4. CASE i = ino /\ k \notin s.done
      <4>1. s.m.blocks[i][k] = mem.blocks[i][k]
            /\ F[mem.blocks[i][k]] = data[mem.blocks[i][k]]
        BY <1>l, <3>2, <3>4
      <4>2. s.m.size[i] \in Nat /\ mem.size[i] \in Nat /\ k \in Nat
        BY <1>f, <1>l, MetaFields DEF Slots
      <4>3. k <= s.m.size[i]
        BY <1>l, <3>2, <3>4, <4>2
      <4>. QED
        BY <1>l, <3>1, <3>2, <4>1, <4>3
    <3>. QED
      BY <2>3, <3>3, <3>4
  <2>. QED
    BY <2>2, <2>3
<1>12. MemorySound(F)'
  BY <1>u, <1>6, <1>10, <1>11 DEF MemorySound
<1>13. failed' = 0 => Exact(mem') /\ InodesCounted'
  <2>1. FreeInodes(s.m) = FreeInodes(mem)
    BY <1>l DEF FreeInodes
  <2>. QED
    BY <1>e, <1>l, <1>u, <2>1 DEF InodesCounted
<1>14. DiskSound'
  <2>1. Exclusive(disk) /\ Counted(disk) /\ DirsSound(disk, data)
    BY <1>i, IdleDisk
  <2>2. DiskBehind'
    <3>1. ASSUME NEW i \in Inodes, NEW k \in Slots
          PROVE  disk.blocks[i][k] \in {0, s.m.blocks[i][k]}
      BY <1>f, <1>l
    <3>. QED
      BY <1>u, <3>1 DEF DiskBehind
  <2>3. CellsSafe'
    <3>1. ASSUME NEW n \in Coming', NEW i \in Inodes, NEW k \in Slots,
                 disk.type[i] = "dir", disk.blocks[i][k] # 0,
                 pending'[n].to = "data", pending'[n].block = disk.blocks[i][k]
          PROVE  FALSE
      <4>1. i # ino
        BY <1>f, <1>i, <3>1
      <4>. QED
        BY <1>f, <1>7, <3>1, <4>1
    <3>. QED
      BY <1>u, <3>1 DEF CellsSafe, ToBlock
  <2>. QED
    BY <1>u, <1>6, <2>1, <2>2, <2>3 DEF DiskSound, WritesSafe
<1>15. FilesOnDisk'
  <2>1. ASSUME NEW i \in Inodes, NEW k \in Slots, i # ino, written'[i][k] # 0
        PROVE  /\ disk.type[i] = "file" /\ k <= disk.size[i]
               /\ disk.blocks[i][k] = s.m.blocks[i][k]
               /\ \A n \in Coming' : ~ToBlock(n, mem.blocks[i][k])'
    <3>1. written[i][k] # 0
      BY <1>w, <2>1
    <3>2. mem.type[i] = "file" /\ k <= mem.size[i] /\ mem.blocks[i][k] # 0
      BY <1>f, <3>1 DEF Keeps
    <3>3. mem'.blocks[i][k] = mem.blocks[i][k]
      BY <1>l, <1>u, <2>1
    <3>4. \A n \in Coming' :
            ~(pending'[n].to = "data" /\ pending'[n].block = mem.blocks[i][k])
      BY <1>7, <2>1, <3>2
    <3>5. \A n \in Coming' : ~ToBlock(n, mem.blocks[i][k])'
      BY <3>3, <3>4 DEF ToBlock
    <3>. QED
      BY <1>f, <1>u, <3>2, <3>3, <3>5
  <2>2. op'.ino = ino
    BY <1>u
  <2>. QED
    BY <1>u, <2>1, <2>2 DEF FilesOnDisk
<1>16. op'.kind # "delete"
  BY <1>u
<1>. QED
  BY <1>l, <1>u, <1>6, <1>8, <1>9, <1>12, <1>13, <1>14, <1>15, <1>16 DEF Sound

-----------------------------------------------------------------------------
\* What create leaves: inode new of type kind, named in cell p of directory dir, which
\* is in block b.
Created(e, D, dir, p, b, new, name, kind) ==
  /\ e \in Metadata /\ D \in [Blocks -> Contents] /\ b \in Blocks
  /\ e.free_inodes = mem.free_inodes - 1
  /\ \A i \in Inodes : /\ e.type[i] = IF i = new THEN kind ELSE mem.type[i]
                       /\ e.size[i] = IF i = dir THEN mem.size[dir] + 1
                                      ELSE IF i = new THEN 0 ELSE mem.size[i]
                       /\ i # dir => e.blocks[i] = mem.blocks[i]
  /\ \A i \in Inodes, k \in Slots :
       e.blocks[i][k] = IF i = dir /\ k = p[1] THEN b ELSE mem.blocks[i][k]
  /\ \A c \in Blocks : c # b => D[c] = data[c]
  /\ \A c \in Cells : D[b][c] = IF c = p[2] THEN [inode |-> new, name |-> name]
                                ELSE IF mem.blocks[dir][p[1]] = 0 THEN Empty ELSE data[b][c]
  /\ \/ mem.blocks[dir][p[1]] = b
     \/ mem.blocks[dir][p[1]] = 0 /\ b \in FreeBlocks(mem)
  /\ dir \in Inodes /\ mem.type[dir] = "dir"
  /\ new \in FreeInodes(mem)
  /\ p \in FreePlaces(dir) /\ \A q \in FreePlaces(dir) : ~Before(q, p)

\* Block b is nobody else's.
LEMMA CreatedBlock ==
  ASSUME Sound, NEW e, NEW D, NEW dir, NEW p, NEW b, NEW new, NEW name, NEW kind,
         Created(e, D, dir, p, b, new, name, kind),
         NEW i \in Inodes, NEW k \in Slots, ~(i = dir /\ k = p[1])
  PROVE  mem.blocks[i][k] # b
<1>1. /\ mem.blocks[dir][p[1]] = b \/ b \in FreeBlocks(mem)
      /\ dir \in Inodes /\ p[1] \in Slots /\ b # 0 /\ Exclusive(mem)
  BY Sizes DEF Created, Sound, FreePlaces, Places, Blocks
<1>2. CASE b \in FreeBlocks(mem)
  BY <1>1, <1>2, FreeUnheld
<1>3. CASE mem.blocks[dir][p[1]] = b
  <2>1. ASSUME mem.blocks[i][k] = b PROVE FALSE
    <3>1. mem.blocks[i][k] # 0 /\ mem.blocks[i][k] = mem.blocks[dir][p[1]]
      BY <1>1, <1>3, <2>1
    <3>2. i = dir /\ k = p[1]
      BY <1>1, <3>1, ZenonT(40) DEF Exclusive
    <3>. QED
      BY <3>2
  <2>. QED
    BY <2>1
<1>. QED
  BY <1>1, <1>2, <1>3

\* The directory gets that entry and keeps the others; so do the other directories.
LEMMA CreatedEntries ==
  ASSUME Sound, NEW e, NEW D, NEW dir, NEW p, NEW b, NEW new, NEW name, NEW kind,
         Created(e, D, dir, p, b, new, name, kind)
  PROVE  /\ \A q \in Places : Entry(e, D, dir, q) =
              IF q = p THEN [inode |-> new, name |-> name] ELSE Entry(mem, data, dir, q)
         /\ \A i \in Inodes \ {dir}, q \in Places : Entry(e, D, i, q) = Entry(mem, data, i, q)
         /\ p \in Places /\ Entry(mem, data, dir, p).inode = 0
<1>t. mem \in Metadata /\ \A i \in Inodes, k \in Slots : mem.blocks[i][k] \in Blocks \cup {0}
  BY MetaFields DEF Sound, Typed
<1>c. /\ b \in Blocks /\ dir \in Inodes /\ p \in Places
      /\ \A i \in Inodes, k \in Slots :
           e.blocks[i][k] = IF i = dir /\ k = p[1] THEN b ELSE mem.blocks[i][k]
      /\ \A c \in Blocks : c # b => D[c] = data[c]
      /\ \A c \in Cells : D[b][c] = IF c = p[2] THEN [inode |-> new, name |-> name]
                                    ELSE IF mem.blocks[dir][p[1]] = 0 THEN Empty ELSE data[b][c]
      /\ mem.blocks[dir][p[1]] = b \/ mem.blocks[dir][p[1]] = 0
      /\ EntryAt(dir, p).inode = 0
  BY DEF Created, FreePlaces
<1>b. b # 0
  BY <1>c, Sizes DEF Blocks
<1>1. ASSUME NEW i \in Inodes, NEW k \in Slots, NEW c \in Cells, ~(i = dir /\ k = p[1])
      PROVE  Entry(e, D, i, <<k, c>>) = Entry(mem, data, i, <<k, c>>)
  <2>1. e.blocks[i][k] = mem.blocks[i][k]
    BY <1>c, <1>1
  <2>2. mem.blocks[i][k] # b
    BY <1>1, CreatedBlock
  <2>3. mem.blocks[i][k] # 0 => D[mem.blocks[i][k]] = data[mem.blocks[i][k]]
    BY <1>c, <1>t, <2>2
  <2>. QED
    BY <2>1, <2>3 DEF Entry
<1>2. ASSUME NEW q \in Places, q # p
      PROVE  Entry(e, D, dir, q) = Entry(mem, data, dir, q)
  <2>1. PICK k \in Slots, c \in Cells : q = <<k, c>>
    BY DEF Places
  <2>2. CASE k # p[1]
    BY <1>1, <1>c, <2>1, <2>2
  <2>3. CASE k = p[1]
    <3>1. c # p[2]
      <4>1. PICK k1 \in Slots, c1 \in Cells : p = <<k1, c1>>
        BY <1>c DEF Places
      <4>. QED
        BY <1>2, <2>1, <2>3, <4>1
    <3>2. e.blocks[dir][k] = b /\ D[b][c] = IF mem.blocks[dir][k] = 0 THEN Empty ELSE data[b][c]
      BY <1>c, <2>3, <3>1
    <3>. QED
      BY <1>b, <1>c, <2>1, <2>3, <3>2 DEF Entry
  <2>. QED
    BY <2>2, <2>3
<1>3. Entry(e, D, dir, p) = [inode |-> new, name |-> name]
  <2>1. p[1] \in Slots /\ p[2] \in Cells
    BY <1>c DEF Places
  <2>2. e.blocks[dir][p[1]] = b /\ D[b][p[2]] = [inode |-> new, name |-> name]
    BY <1>c, <2>1
  <2>. QED
    BY <1>b, <2>2 DEF Entry
<1>4. ASSUME NEW i \in Inodes \ {dir}, NEW q \in Places
      PROVE  Entry(e, D, i, q) = Entry(mem, data, i, q)
  <2>1. PICK k \in Slots, c \in Cells : q = <<k, c>>
    BY DEF Places
  <2>. QED
    BY <1>1, <2>1
<1>5. Entry(mem, data, dir, p).inode = 0
  BY <1>c DEF Entry, EntryAt
<1>. QED
  BY <1>c, <1>2, <1>3, <1>4, <1>5

\* The directories stay sound.
LEMMA CreatedDirs ==
  ASSUME Sound, Idle, NEW e, NEW D, NEW dir, NEW p, NEW b, NEW new, NEW name, NEW kind,
         Created(e, D, dir, p, b, new, name, kind)
  PROVE  DirsSound(e, D)
<1>c. /\ dir \in Inodes /\ mem.type[dir] = "dir" /\ new \in Inodes /\ mem.type[new] = "free"
      /\ e \in Metadata /\ mem \in Metadata
      /\ \A i \in Inodes : /\ e.type[i] = IF i = new THEN kind ELSE mem.type[i]
                           /\ e.size[i] = IF i = dir THEN mem.size[dir] + 1
                                          ELSE IF i = new THEN 0 ELSE mem.size[i]
                           /\ i # dir => e.blocks[i] = mem.blocks[i]
  BY IdleFacts DEF Created, FreeInodes
<1>d. DirsSound(mem, data) /\ Exclusive(mem)
  BY IdleFacts DEF Sound
<1>n. new # dir /\ new # 0 /\ \A k \in Slots : e.blocks[new][k] = 0
  <2>1. new # dir /\ new # Root
    BY <1>c, <1>d DEF Exclusive
  <2>. QED
    BY <1>c, <1>d, <2>1 DEF Exclusive, Root
<1>e. /\ \A q \in Places : Entry(e, D, dir, q) =
           IF q = p THEN [inode |-> new, name |-> name] ELSE Entry(mem, data, dir, q)
      /\ \A i \in Inodes \ {dir}, q \in Places : Entry(e, D, i, q) = Entry(mem, data, i, q)
      /\ p \in Places /\ Entry(mem, data, dir, p).inode = 0
  BY CreatedEntries
<1>1. DirSound(e, D, dir)
  <2>1. ASSUME NEW k \in Slots, NEW c \in Cells, e.blocks[dir][k] # 0
        PROVE  IsEntry(D[e.blocks[dir][k]][c])
    <3>0. <<k, c>> \in Places /\ <<k, c>>[1] = k /\ <<k, c>>[2] = c
      BY DEF Places
    <3>1. PICK q \in Places : q = <<k, c>> /\ q[1] = k /\ q[2] = c
      BY <3>0
    <3>2. D[e.blocks[dir][k]][c] = Entry(e, D, dir, q)
      BY <2>1, <3>1 DEF Entry
    <3>3. CASE q = p
      <4>1. D[e.blocks[dir][k]][c] = [inode |-> new, name |-> name]
        BY <1>e, <3>2, <3>3
      <4>. QED
        BY <1>c, <1>n, <4>1 DEF IsEntry
    <3>4. CASE q # p
      <4>1. D[e.blocks[dir][k]][c] = Entry(mem, data, dir, q)
        BY <1>e, <3>2, <3>4
      <4>2. CASE mem.blocks[dir][k] = 0
        <5>1. D[e.blocks[dir][k]][c] = Empty
          BY <3>1, <4>1, <4>2 DEF Entry
        <5>2. Empty.inode = 0 /\ 0 \in Inodes
          BY Sizes DEF Empty, Inodes
        <5>. QED
          BY <5>1, <5>2 DEF IsEntry
      <4>3. CASE mem.blocks[dir][k] # 0
        <5>1. D[e.blocks[dir][k]][c] = data[mem.blocks[dir][k]][c]
          BY <3>1, <4>1, <4>3 DEF Entry
        <5>2. IsEntry(data[mem.blocks[dir][k]][c])
          BY <1>c, <1>d, <4>3 DEF DirsSound, DirSound
        <5>. QED
          BY <5>1, <5>2
      <4>. QED
        BY <4>2, <4>3
    <3>. QED
      BY <3>3, <3>4
  <2>2. mem.size[dir] \in Nat /\ SLOTS * PER_BLOCK \in Nat
    BY <1>c, MetaFields, RoomForFiles
  <2>3. \A j \in Indexes : j < mem.size[dir] => Entry(mem, data, dir, At(j)).inode # 0
    BY <1>c, <1>d DEF DirsSound, DirSound
  <2>4. ASSUME NEW j \in Indexes, j < e.size[dir] PROVE Entry(e, D, dir, At(j)).inode # 0
    <3>1. At(j) \in Places /\ j \in Nat /\ j <= mem.size[dir]
      BY <1>c, <2>2, <2>4, AtPlace DEF Indexes
    <3>2. CASE At(j) = p
      <4>1. Entry(e, D, dir, At(j)) = [inode |-> new, name |-> name]
        BY <1>e, <3>2
      <4>. QED
        BY <1>n, <4>1
    <3>3. CASE At(j) # p
      <4>1. Entry(e, D, dir, At(j)) = Entry(mem, data, dir, At(j))
        BY <1>e, <3>1, <3>3
      <4>2. CASE j < mem.size[dir]
        BY <2>3, <4>1, <4>2
      <4>3. CASE j = mem.size[dir]
        <5>1. PICK x \in Indexes : At(x) = p
          BY <1>e, AtPlace
        <5>2. x \in Nat /\ ~(x < mem.size[dir]) /\ x # j
          BY <1>e, <2>2, <2>3, <3>3, <5>1 DEF Indexes
        <5>3. Before(At(j), p)
          BY <2>2, <3>1, <4>3, <5>1, <5>2, AtPlace
        <5>4. At(j) \notin FreePlaces(dir)
          BY <5>3 DEF Created
        <5>. QED
          BY <3>1, <4>1, <5>4 DEF FreePlaces, EntryAt, Entry
      <4>. QED
        BY <2>2, <3>1, <4>2, <4>3
    <3>. QED
      BY <3>2, <3>3
  <2>. QED
    BY <2>1, <2>4 DEF DirSound
<1>2. ASSUME NEW i \in Inodes, e.type[i] = "dir", i # dir PROVE DirSound(e, D, i)
  <2>1. CASE i = new
    <3>1. e.size[i] = 0
      BY <1>c, <1>n, <2>1
    <3>2. \A j \in Indexes : ~(j < 0)
      BY RoomForFiles DEF Indexes
    <3>. QED
      BY <1>n, <2>1, <3>1, <3>2 DEF DirSound
  <2>2. CASE i # new
    <3>1. DirSound(mem, data, i) /\ e.size[i] = mem.size[i] /\ e.blocks[i] = mem.blocks[i]
      BY <1>c, <1>d, <1>2, <2>2 DEF DirsSound
    <3>2. \A j \in Indexes : Entry(e, D, i, At(j)) = Entry(mem, data, i, At(j))
      BY <1>2, <1>e, AtPlace
    <3>3. ASSUME NEW k \in Slots, NEW c \in Cells, e.blocks[i][k] # 0
          PROVE  IsEntry(D[e.blocks[i][k]][c])
      <4>0. <<k, c>> \in Places /\ <<k, c>>[1] = k /\ <<k, c>>[2] = c
        BY DEF Places
      <4>1. PICK q \in Places : q = <<k, c>> /\ q[1] = k /\ q[2] = c
        BY <4>0
      <4>2. Entry(e, D, i, q) = Entry(mem, data, i, q)
        BY <1>2, <1>e
      <4>3. D[e.blocks[i][k]][c] = data[mem.blocks[i][k]][c]
        BY <3>1, <3>3, <4>1, <4>2 DEF Entry
      <4>. QED
        BY <3>1, <3>3, <4>3 DEF DirSound
    <3>. QED
      BY <3>1, <3>2, <3>3 DEF DirSound
  <2>. QED
    BY <2>1, <2>2
<1>. QED
  BY <1>1, <1>2 DEF DirsSound

\* Without a power failure before, the entry goes right behind the others.
LEMMA CreatedListed ==
  ASSUME Sound, Idle, failed = 0,
         NEW e, NEW D, NEW dir, NEW p, NEW b, NEW new, NEW name, NEW kind,
         Created(e, D, dir, p, b, new, name, kind)
  PROVE  Listed(e, D)
<1>c. /\ dir \in Inodes /\ mem.type[dir] = "dir" /\ new \in Inodes /\ mem.type[new] = "free"
      /\ e \in Metadata /\ mem \in Metadata
      /\ p \in FreePlaces(dir) /\ \A q \in FreePlaces(dir) : ~Before(q, p)
      /\ \A i \in Inodes : /\ e.type[i] = IF i = new THEN kind ELSE mem.type[i]
                           /\ e.size[i] = IF i = dir THEN mem.size[dir] + 1
                                          ELSE IF i = new THEN 0 ELSE mem.size[i]
                           /\ i # dir => e.blocks[i] = mem.blocks[i]
  BY IdleFacts DEF Created, FreeInodes
<1>d. Listed(mem, data) /\ Exclusive(mem)
  BY IdleFacts DEF Sound
<1>n. new # dir /\ new # 0 /\ \A k \in Slots : e.blocks[new][k] = 0
  <2>1. new # dir /\ new # Root
    BY <1>c, <1>d DEF Exclusive
  <2>. QED
    BY <1>c, <1>d, <2>1 DEF Exclusive, Root
<1>e. /\ \A q \in Places : Entry(e, D, dir, q) =
           IF q = p THEN [inode |-> new, name |-> name] ELSE Entry(mem, data, dir, q)
      /\ \A i \in Inodes \ {dir}, q \in Places : Entry(e, D, i, q) = Entry(mem, data, i, q)
      /\ p \in Places /\ Entry(mem, data, dir, p).inode = 0
  BY CreatedEntries
<1>s. mem.size[dir] \in Nat /\ SLOTS * PER_BLOCK \in Nat
  BY <1>c, MetaFields, RoomForFiles
<1>x. \A i \in Indexes : i \in Nat /\ i < SLOTS * PER_BLOCK
  BY <1>s DEF Indexes
<1>1. PICK j \in Indexes : At(j) = p
  BY <1>e, AtPlace
<1>2. \A i \in Indexes : i < mem.size[dir] <=> Entry(mem, data, dir, At(i)).inode # 0
  BY <1>c, <1>d DEF Listed
<1>3. ~(j < mem.size[dir])
  BY <1>1, <1>2, <1>e
<1>4. j = mem.size[dir]
  <2>1. ASSUME mem.size[dir] < j PROVE FALSE
    <3>1. PICK z \in Indexes : z = mem.size[dir]
      BY <1>s, <1>x, <2>1 DEF Indexes
    <3>2. Entry(mem, data, dir, At(z)).inode = 0
      BY <1>2, <1>x, <3>1
    <3>3. At(z) \in Places /\ Before(At(z), p)
      BY <1>1, <2>1, <3>1, AtPlace
    <3>4. At(z) \in FreePlaces(dir)
      BY <3>2, <3>3 DEF FreePlaces, EntryAt, Entry
    <3>. QED
      BY <1>c, <3>3, <3>4
  <2>. QED
    BY <1>3, <1>s, <1>x, <2>1
<1>5. ASSUME NEW i \in Indexes
      PROVE  i < e.size[dir] <=> Entry(e, D, dir, At(i)).inode # 0
  <2>1. At(i) \in Places /\ (At(i) = p <=> i = j)
    <3>1. At(i) \in Places
      BY AtPlace
    <3>2. i < j => At(i) # At(j)
      BY AtPlace
    <3>3. j < i => At(j) # At(i)
      BY AtPlace
    <3>. QED
      BY <1>1, <1>x, <3>1, <3>2, <3>3
  <2>2. e.size[dir] = mem.size[dir] + 1
    BY <1>c
  <2>3. CASE i = j
    <3>1. Entry(e, D, dir, At(i)) = [inode |-> new, name |-> name]
      BY <1>e, <2>1, <2>3
    <3>2. Entry(e, D, dir, At(i)).inode = new
      BY <3>1
    <3>. QED
      BY <1>4, <1>n, <1>s, <2>2, <2>3, <3>2
  <2>4. CASE i # j
    <3>1. Entry(e, D, dir, At(i)) = Entry(mem, data, dir, At(i))
      BY <1>e, <2>1, <2>4
    <3>2. i < mem.size[dir] <=> i < e.size[dir]
      BY <1>4, <1>s, <1>x, <2>2, <2>4
    <3>. QED
      BY <1>2, <3>1, <3>2
  <2>. QED
    BY <2>3, <2>4
<1>6. ASSUME NEW d \in Inodes, e.type[d] = "dir", d # dir, NEW i \in Indexes
      PROVE  i < e.size[d] <=> Entry(e, D, d, At(i)).inode # 0
  <2>1. CASE d = new
    <3>1. e.size[d] = 0 /\ At(i) \in Places
      BY <1>c, <1>n, <2>1, AtPlace
    <3>2. At(i)[1] \in Slots
      BY <3>1 DEF Places
    <3>3. Entry(e, D, d, At(i)) = Empty
      BY <1>n, <2>1, <3>2 DEF Entry
    <3>4. Empty.inode = 0
      BY DEF Empty
    <3>. QED
      BY <1>x, <3>1, <3>3, <3>4
  <2>2. CASE d # new
    <3>1. mem.type[d] = "dir" /\ e.size[d] = mem.size[d] /\ At(i) \in Places
      BY <1>c, <1>6, <2>2, AtPlace
    <3>2. Entry(e, D, d, At(i)) = Entry(mem, data, d, At(i))
      BY <1>6, <1>e, <3>1
    <3>3. i < mem.size[d] <=> Entry(mem, data, d, At(i)).inode # 0
      BY <1>d, <3>1 DEF Listed
    <3>. QED
      BY <3>1, <3>2, <3>3
  <2>. QED
    BY <2>1, <2>2
<1>. QED
  BY <1>5, <1>6 DEF Listed

\* What was written stays; the new inode starts without anything.
LEMMA CreatedKeeps ==
  ASSUME Sound, Idle, NEW e, NEW D, NEW dir, NEW p, NEW b, NEW new, NEW name, NEW kind,
         Created(e, D, dir, p, b, new, name, kind)
  PROVE  Keeps(e, D, [written EXCEPT ![new] = NoBlocks])
<1>c. /\ dir \in Inodes /\ mem.type[dir] = "dir" /\ new \in Inodes /\ mem.type[new] = "free"
      /\ \A i \in Inodes : /\ e.type[i] = IF i = new THEN kind ELSE mem.type[i]
                           /\ e.size[i] = IF i = dir THEN mem.size[dir] + 1
                                          ELSE IF i = new THEN 0 ELSE mem.size[i]
                           /\ i # dir => e.blocks[i] = mem.blocks[i]
      /\ \A c \in Blocks : c # b => D[c] = data[c]
  BY DEF Created, FreeInodes
<1>d. Keeps(mem, data, written) /\ mem \in Metadata
  BY IdleFacts
<1>w. written \in [Inodes -> [Slots -> Values \cup {0}]]
  BY DEF Sound, Typed
<1>1. SUFFICES ASSUME NEW i \in Inodes, NEW k \in Slots,
                      [written EXCEPT ![new] = NoBlocks][i][k] # 0
               PROVE  /\ e.type[i] = "file" /\ k <= e.size[i] /\ e.blocks[i][k] # 0
                      /\ D[e.blocks[i][k]] =
                           FileBlock([written EXCEPT ![new] = NoBlocks][i][k])
  BY DEF Keeps
<1>2. i # new /\ [written EXCEPT ![new] = NoBlocks][i][k] = written[i][k]
  BY <1>1, <1>c, <1>w DEF NoBlocks
<1>3. /\ mem.type[i] = "file" /\ k <= mem.size[i] /\ mem.blocks[i][k] # 0
      /\ data[mem.blocks[i][k]] = FileBlock(written[i][k])
  BY <1>1, <1>2, <1>d DEF Keeps
<1>4. i # dir
  BY <1>3, <1>c
<1>5. mem.blocks[i][k] # b /\ mem.blocks[i][k] \in Blocks
  BY <1>3, <1>4, <1>d, CreatedBlock, MetaFields
<1>. QED
  BY <1>2, <1>3, <1>4, <1>5, <1>c

-----------------------------------------------------------------------------
\* Metadata q in which inode new has been set up.
Fresh(q, new, kind) ==
  /\ q \in Metadata
  /\ q.free_inodes = mem.free_inodes - 1
  /\ \A i \in Inodes : /\ q.type[i] = IF i = new THEN kind ELSE mem.type[i]
                       /\ q.size[i] = IF i = new THEN 0 ELSE mem.size[i]
                       /\ q.blocks[i] = mem.blocks[i]

\* pafs_create takes a free inode, which has no blocks.
LEMMA NewInodeFields ==
  ASSUME mem \in Metadata, Exclusive(mem), mem.free_inodes # 0,
         NEW new \in FreeInodes(mem), NEW is_dir \in BOOLEAN
  PROVE  /\ Fresh(NewInode(new, is_dir), new, IF is_dir THEN "dir" ELSE "file")
         /\ NewInode(new, is_dir).bitmap = mem.bitmap
         /\ NewInode(new, is_dir).free_blocks = mem.free_blocks
<1>t. /\ mem.type \in [Inodes -> {"free", "file", "dir"}]
      /\ mem.size \in [Inodes -> 0 .. SLOTS * PER_BLOCK]
      /\ mem.blocks \in [Inodes -> [Slots -> Blocks \cup {0}]]
      /\ mem.bitmap \in [Blocks -> {0, 1}]
      /\ mem.free_blocks \in 0 .. BLOCKS /\ mem.free_inodes \in 0 .. MAX_COUNT
  BY MetaFields
<1>n. new \in Inodes /\ mem.type[new] = "free"
  BY DEF FreeInodes
<1>b. mem.blocks[new] = NoBlocks
  <2>1. \A k \in Slots : mem.blocks[new][k] = 0
    BY <1>n DEF Exclusive
  <2>. QED
    BY <1>n, <1>t, <2>1 DEF NoBlocks
<1>a. mem.free_inodes - 1 \in 0 .. MAX_COUNT /\ 0 \in 0 .. SLOTS * PER_BLOCK
  <2>1. PICK f \in 0 .. MAX_COUNT : f = mem.free_inodes
    BY <1>t
  <2>2. f # 0 /\ MAX_COUNT \in Nat
    BY <2>1, Sizes
  <2>3. f - 1 \in 0 .. MAX_COUNT
    BY <2>2
  <2>4. \A n \in Nat : 0 \in 0 .. n
    OBVIOUS
  <2>. QED
    BY <2>1, <2>3, <2>4, RoomForFiles
<1>k. PICK kind \in {"file", "dir"} : kind = IF is_dir THEN "dir" ELSE "file"
  OBVIOUS
<1>z. NoBlocks \in [Slots -> Blocks \cup {0}]
  BY DEF NoBlocks
<1>1. /\ [mem.type EXCEPT ![new] = kind] \in [Inodes -> {"free", "file", "dir"}]
      /\ [mem.size EXCEPT ![new] = 0] \in [Inodes -> 0 .. SLOTS * PER_BLOCK]
      /\ [mem.blocks EXCEPT ![new] = NoBlocks] \in [Inodes -> [Slots -> Blocks \cup {0}]]
  BY <1>a, <1>n, <1>t, <1>z
<1>. DEFINE q == [mem EXCEPT !.type[new] = kind, !.size[new] = 0, !.blocks[new] = NoBlocks,
                             !.free_inodes = mem.free_inodes - 1]
<1>2. /\ q \in Metadata /\ q.bitmap = mem.bitmap /\ q.free_blocks = mem.free_blocks
      /\ q.free_inodes = mem.free_inodes - 1
      /\ q.type = [mem.type EXCEPT ![new] = kind] /\ q.size = [mem.size EXCEPT ![new] = 0]
      /\ q.blocks = [mem.blocks EXCEPT ![new] = NoBlocks]
  BY <1>1, <1>a DEF Metadata
<1>3. NewInode(new, is_dir) = q
  BY <1>k DEF NewInode
<1>. HIDE DEF q
<1>4. \A i \in Inodes : /\ q.type[i] = IF i = new THEN kind ELSE mem.type[i]
                        /\ q.size[i] = IF i = new THEN 0 ELSE mem.size[i]
                        /\ q.blocks[i] = mem.blocks[i]
  BY <1>2, <1>b, <1>n, <1>t
<1>5. Fresh(q, new, kind)
  BY <1>2, <1>4 DEF Fresh
<1>. QED
  BY <1>2, <1>3, <1>5, <1>k

\* Taking an inode moves no block.
LEMMA FreshSound ==
  ASSUME mem \in Metadata, Exclusive(mem), Counted(mem), NEW new \in FreeInodes(mem),
         NEW kind, NEW q, Fresh(q, new, kind),
         q.bitmap = mem.bitmap, q.free_blocks = mem.free_blocks
  PROVE  /\ Exclusive(q) /\ Counted(q) /\ (Exact(mem) => Exact(q))
         /\ FreeBlocks(q) = FreeBlocks(mem)
<1>f. /\ \A i \in Inodes : /\ q.type[i] = IF i = new THEN kind ELSE mem.type[i]
                           /\ q.blocks[i] = mem.blocks[i]
      /\ new \in Inodes /\ mem.type[new] = "free" /\ Root \in Inodes
  BY Sizes DEF Fresh, FreeInodes, Root, Inodes
<1>1. FreeBlocks(q) = FreeBlocks(mem) /\ Held(q) = Held(mem)
  BY <1>f DEF FreeBlocks, Held
<1>2. q.type[Root] = "dir"
  BY <1>f DEF Exclusive
<1>3. ASSUME NEW i \in Inodes, NEW k \in Slots, q.type[i] = "free" PROVE q.blocks[i][k] = 0
  BY <1>3, <1>f DEF Exclusive
<1>4. ASSUME NEW i \in Inodes, NEW j \in Inodes, NEW k \in Slots, NEW l \in Slots,
             q.blocks[i][k] # 0, q.blocks[i][k] = q.blocks[j][l]
      PROVE  i = j /\ k = l
  <2>1. mem.blocks[i][k] # 0 /\ mem.blocks[i][k] = mem.blocks[j][l]
    BY <1>4, <1>f
  <2>. QED
    BY <2>1, Zenon DEF Exclusive
<1>5. \A i \in Inodes, k \in Slots : q.blocks[i][k] # 0 => q.bitmap[q.blocks[i][k]] = 1
  BY <1>f DEF Exclusive
<1>6. Exclusive(q)
  BY <1>2, <1>3, <1>4, <1>5 DEF Exclusive
<1>. QED
  BY <1>1, <1>6 DEF Counted, Exact

\* With a place for its entry, that is what pafs_create leaves.
LEMMA CreatedHolds ==
  ASSUME NEW new \in FreeInodes(mem), NEW kind, NEW q, Fresh(q, new, kind),
         NEW dir \in Inodes, mem.type[dir] = "dir", NEW p \in FreePlaces(dir),
         \A r \in FreePlaces(dir) : ~Before(r, p), NEW name, NEW b \in Blocks,
         mem.blocks[dir][p[1]] = b \/ (mem.blocks[dir][p[1]] = 0 /\ b \in FreeBlocks(mem)),
         NEW e, Placing(e, q, dir, p[1], b, mem.size[dir] + 1),
         NEW D \in [Blocks -> Contents], \A c \in Blocks : c # b => D[c] = data[c],
         \A c \in Cells : D[b][c] = IF c = p[2] THEN [inode |-> new, name |-> name]
                                    ELSE IF mem.blocks[dir][p[1]] = 0 THEN Empty ELSE data[b][c]
  PROVE  Created(e, D, dir, p, b, new, name, kind)
<1>1. /\ e \in Metadata /\ e.free_inodes = mem.free_inodes - 1
  BY DEF Placing, Fresh
<1>2. \A i \in Inodes : /\ e.type[i] = IF i = new THEN kind ELSE mem.type[i]
                        /\ e.size[i] = IF i = dir THEN mem.size[dir] + 1
                                       ELSE IF i = new THEN 0 ELSE mem.size[i]
                        /\ i # dir => e.blocks[i] = mem.blocks[i]
  BY DEF Placing, Fresh
<1>3. \A i \in Inodes, k \in Slots :
        e.blocks[i][k] = IF i = dir /\ k = p[1] THEN b ELSE mem.blocks[i][k]
  BY DEF Placing, Fresh
<1>. QED
  BY <1>1, <1>2, <1>3 DEF Created

\* A directory with a free cell has room for one more in its size.
LEMMA SizeFits ==
  ASSUME Sound, Idle, NEW dir \in Inodes, mem.type[dir] = "dir", NEW p \in FreePlaces(dir)
  PROVE  mem.size[dir] + 1 \in 0 .. SLOTS * PER_BLOCK
<1>1. mem \in Metadata /\ DirsSound(mem, data)
  BY IdleFacts
<1>2. PICK j \in Indexes : At(j) = p
  BY AtPlace DEF FreePlaces
<1>3. Entry(mem, data, dir, At(j)).inode = 0
  BY <1>2 DEF FreePlaces, Entry, EntryAt
<1>4. ~(j < mem.size[dir])
  BY <1>1, <1>3 DEF DirsSound, DirSound
<1>5. mem.size[dir] \in Nat /\ SLOTS * PER_BLOCK \in Nat
  BY <1>1, MetaFields, RoomForFiles
<1>6. j \in Nat /\ j < SLOTS * PER_BLOCK
  BY <1>5 DEF Indexes
<1>. QED
  BY <1>4, <1>5, <1>6

\* The saves of the directory's inode and of the new one cover what changed.
LEMMA CreateInodes ==
  ASSUME mem \in Metadata, NEW e \in Metadata, NEW dir \in Inodes, NEW new \in Inodes,
         NEW after \in {0, 1},
         \A i \in Inodes \ {dir, new} : /\ e.type[i] = mem.type[i] /\ e.size[i] = mem.size[i]
                                        /\ e.blocks[i] = mem.blocks[i]
  PROVE  InodeSaves(e, <<WriteInode(e, dir)>> \o [i \in 1 .. 1 + after |-> WriteInode(e, new)])
<1>1. dir \in Nat /\ new \in Nat
  BY Sizes DEF Inodes
<1>2. PICK x \in Writes : /\ x = WriteInode(e, dir) /\ x.to = "inodes"
                          /\ x.sector = dir \div PER_SECTOR
                          /\ x.type = e.type /\ x.size = e.size /\ x.blocks = e.blocks
  BY <1>1, WriteTypes DEF WriteInode
<1>3. PICK y \in Writes : /\ y = WriteInode(e, new) /\ y.to = "inodes"
                          /\ y.sector = new \div PER_SECTOR
                          /\ y.type = e.type /\ y.size = e.size /\ y.blocks = e.blocks
  BY <1>1, WriteTypes DEF WriteInode
<1>4. PICK F \in Seq(Writes) : /\ F = [i \in 1 .. 1 + after |-> y]
                               /\ Len(F) = 1 + after /\ \A n \in 1 .. Len(F) : F[n] = y
  <2>1. 1 + after \in Nat
    OBVIOUS
  <2>. DEFINE G == [i \in 1 .. 1 + after |-> y]
  <2>2. G \in Seq(Writes) /\ Len(G) = 1 + after /\ \A n \in 1 .. 1 + after : G[n] = y
    BY <2>1
  <2>3. G = [i \in 1 .. 1 + after |-> y]
    OBVIOUS
  <2>. HIDE DEF G
  <2>. QED
    BY <2>2, <2>3
<1>5. PICK X \in Seq(Writes) : X = <<x>> /\ Len(X) = 1 /\ X[1] = x
  <2>1. <<x>> \in Seq(Writes) /\ Len(<<x>>) = 1 /\ <<x>>[1] = x
    OBVIOUS
  <2>. QED
    BY <2>1
<1>6. /\ X \o F \in Seq(Writes) /\ Len(X \o F) = Len(X) + Len(F)
      /\ \A n \in 1 .. Len(X) : n \in 1 .. Len(X \o F) /\ (X \o F)[n] = X[n]
      /\ \A n \in 1 .. Len(F) : Len(X) + n \in 1 .. Len(X \o F) /\ (X \o F)[Len(X) + n] = F[n]
      /\ \A n \in 1 .. Len(X \o F) :
           \/ n \in 1 .. Len(X)
           \/ \E k \in 1 .. Len(F) : n = Len(X) + k
  BY Joined
<1>7. PICK t \in Seq(Writes) : t = X \o F
  BY <1>6
<1>8. /\ Len(t) > 0 /\ 1 \in In(t) /\ 2 \in In(t) /\ t[1] = x /\ t[2] = y
      /\ \A n \in In(t) : t[n] = x \/ t[n] = y
  <2>1. Len(t) = 2 + after /\ 1 \in In(t) /\ 2 \in In(t)
    BY <1>4, <1>5, <1>6, <1>7 DEF In
  <2>2. t[1] = x
    BY <1>5, <1>6, <1>7
  <2>3. 1 \in 1 .. Len(F) /\ Len(X) + 1 = 2
    BY <1>4, <1>5
  <2>4. (X \o F)[Len(X) + 1] = F[1] /\ F[1] = y
    BY <1>4, <1>6, <2>3
  <2>5. t[2] = y
    BY <1>7, <2>3, <2>4
  <2>6. ASSUME NEW n \in In(t) PROVE t[n] = x \/ t[n] = y
    <3>1. CASE n \in 1 .. Len(X)
      <4>1. n = 1
        BY <1>5, <3>1
      <4>. QED
        BY <2>2, <4>1
    <3>2. CASE \E k \in 1 .. Len(F) : n = Len(X) + k
      BY <1>4, <1>6, <1>7, <3>2
    <3>. QED
      BY <1>6, <1>7, <3>1, <3>2 DEF In
  <2>. QED
    BY <2>1, <2>2, <2>5, <2>6
<1>9. ASSUME NEW i \in Inodes, \A n \in In(t) : t[n].sector # i \div PER_SECTOR
      PROVE  e.type[i] = mem.type[i] /\ e.size[i] = mem.size[i] /\ e.blocks[i] = mem.blocks[i]
  <2>1. i # dir /\ i # new
    BY <1>2, <1>3, <1>8, <1>9
  <2>. QED
    BY <2>1
<1>10. InodeSaves(e, t)
  BY <1>2, <1>3, <1>8, <1>9 DEF InodeSaves
<1>11. t = <<WriteInode(e, dir)>> \o [i \in 1 .. 1 + after |-> WriteInode(e, new)]
  BY <1>2, <1>3, <1>4, <1>5, <1>7
<1>. QED
  BY <1>10, <1>11

\* The choices of a create: the inode, the cell of the directory, and the metadata q with
\* the inode set up; and the block with the entry put in.
Chosen(dir, new, p, name, kind, q) ==
  /\ dir \in Inodes /\ mem.type[dir] = "dir" /\ new \in FreeInodes(mem)
  /\ p \in FreePlaces(dir) /\ \A r \in FreePlaces(dir) : ~Before(r, p)
  /\ name \in Names /\ kind \in {"file", "dir"}
  /\ Fresh(q, new, kind) /\ q.bitmap = mem.bitmap /\ q.free_blocks = mem.free_blocks
InBlock(dir, p, b) == b \in Blocks /\ mem.blocks[dir][p[1]] = b
Put(cells, old, p, new, name) ==
  /\ cells \in Contents
  /\ \A c \in Cells : cells[c] = IF c = p[2] THEN [inode |-> new, name |-> name] ELSE old[c]

\* The file system that create leaves where the directory has a block with a free cell.
LEMMA CreateFits ==
  ASSUME Sound, Idle, NEW dir, NEW new, NEW p, NEW name, NEW kind, NEW q,
         Chosen(dir, new, p, name, kind, q), NEW b, InBlock(dir, p, b),
         NEW e, Placing(e, q, dir, p[1], b, mem.size[dir] + 1),
         NEW cells, Put(cells, data[b], p, new, name)
  PROVE  /\ \E D : /\ Created(e, D, dir, p, b, new, name, kind)
                   /\ Saves(e, <<WriteData(b, cells)>>, D, {b}) /\ D[b] = cells
         /\ Exclusive(e) /\ Counted(e) /\ (Exact(mem) => Exact(e))
<1>h. /\ dir \in Inodes /\ mem.type[dir] = "dir" /\ new \in FreeInodes(mem)
      /\ p \in FreePlaces(dir) /\ \A r \in FreePlaces(dir) : ~Before(r, p)
      /\ name \in Names /\ kind \in {"file", "dir"}
      /\ Fresh(q, new, kind) /\ q.bitmap = mem.bitmap /\ q.free_blocks = mem.free_blocks
  BY DEF Chosen
<1>v. cells \in Contents /\ \A c \in Cells :
        cells[c] = IF c = p[2] THEN [inode |-> new, name |-> name] ELSE data[b][c]
  BY DEF Put
<1>w. b \in Blocks /\ mem.blocks[dir][p[1]] = b
  BY DEF InBlock
<1>. USE <1>h, <1>v, <1>w
<1>t. mem \in Metadata /\ data \in [Blocks -> Contents] /\ Exclusive(mem) /\ Counted(mem)
  BY IdleFacts DEF Sound
<1>b. b # 0
  BY Sizes DEF Blocks
<1>1. q \in Metadata /\ \A i \in Inodes : q.blocks[i] = mem.blocks[i]
  BY DEF Fresh
<1>2. Exclusive(q) /\ Counted(q) /\ (Exact(mem) => Exact(q)) /\ FreeBlocks(q) = FreeBlocks(mem)
  BY <1>t, FreshSound
<1>3. Saves(q, <<>>, data, {b})
  BY <1>1, <1>t, NoSaves
<1>4. Saves(q, <<>> \o <<WriteData(b, cells)>>, [data EXCEPT ![b] = cells], {b})
  BY <1>3, DataSaves
<1>5. <<>> \o <<WriteData(b, cells)>> = <<WriteData(b, cells)>>
  <2>1. WriteData(b, cells) \in Writes
    BY WriteTypes
  <2>2. <<WriteData(b, cells)>> \in Seq(Writes)
    BY <2>1
  <2>. QED
    BY <2>2, ConcatEmptySeq
<1>6. PICK D : D = [data EXCEPT ![b] = cells]
  OBVIOUS
<1>7. /\ D \in [Blocks -> Contents] /\ D[b] = cells
      /\ \A c \in Blocks : c # b => D[c] = data[c]
  BY <1>6, <1>t
<1>8. /\ e \in Metadata /\ e.bitmap = q.bitmap /\ e.free_blocks = q.free_blocks
      /\ e.free_inodes = q.free_inodes /\ e.type = q.type
      /\ \A i \in Inodes, k \in Slots : e.blocks[i][k] = q.blocks[i][k]
  <2>1. /\ e \in Metadata /\ e.bitmap = q.bitmap /\ e.free_blocks = q.free_blocks
        /\ e.free_inodes = q.free_inodes /\ e.type = q.type
        /\ \A i \in Inodes, k \in Slots :
             e.blocks[i][k] = IF i = dir /\ k = p[1] THEN b ELSE q.blocks[i][k]
    BY DEF Placing
  <2>. QED
    BY <1>1, <2>1
<1>9. Saves(q, <<WriteData(b, cells)>>, D, {b})
  BY <1>4, <1>5, <1>6
<1>10. Saves(e, <<WriteData(b, cells)>>, D, {b})
  BY <1>8, <1>9, SavesSame
<1>11. Exclusive(e)
  BY <1>2, <1>8, SameExclusive
<1>12. Counted(e) /\ (Exact(mem) => Exact(e))
  <2>1. Held(e) = Held(q) /\ FreeBlocks(e) = FreeBlocks(q)
    BY <1>8 DEF Held, FreeBlocks
  <2>. QED
    BY <1>2, <1>8, <2>1 DEF Counted, Exact
<1>13. Created(e, D, dir, p, b, new, name, kind)
  <2>1. \A c \in Cells : D[b][c] = IF c = p[2] THEN [inode |-> new, name |-> name]
                                   ELSE IF mem.blocks[dir][p[1]] = 0 THEN Empty ELSE data[b][c]
    BY <1>7, <1>b
  <2>. QED
    BY <1>7, <2>1, CreatedHolds
<1>. QED
  BY <1>7, <1>10, <1>11, <1>12, <1>13

\* ... and where the directory gets a new block, which is cleared first.
LEMMA CreateGrows ==
  ASSUME Sound, Idle, NEW dir, NEW new, NEW p, NEW name, NEW kind, NEW q,
         Chosen(dir, new, p, name, kind, q), NEW b \in FreeBlocks(mem),
         mem.blocks[dir][p[1]] = 0, NEW m, m = Allocated(q, b),
         NEW e, Placing(e, m, dir, p[1], b, mem.size[dir] + 1),
         NEW cells, Put(cells, Zeroed, p, new, name)
  PROVE  /\ m \in Metadata /\ Zeroed \in Contents
         /\ \E D : /\ Created(e, D, dir, p, b, new, name, kind)
                   /\ Saves(e, ((<<>> \o AllocWrites(m)) \o <<WriteData(b, Zeroed)>>)
                               \o <<WriteData(b, cells)>>, D, {})
         /\ Exclusive(e) /\ Counted(e) /\ (Exact(mem) => Exact(e))
<1>h. /\ dir \in Inodes /\ mem.type[dir] = "dir" /\ new \in FreeInodes(mem)
      /\ p \in FreePlaces(dir) /\ \A r \in FreePlaces(dir) : ~Before(r, p)
      /\ name \in Names /\ kind \in {"file", "dir"}
      /\ Fresh(q, new, kind) /\ q.bitmap = mem.bitmap /\ q.free_blocks = mem.free_blocks
  BY DEF Chosen
<1>v. cells \in Contents /\ \A c \in Cells :
        cells[c] = IF c = p[2] THEN [inode |-> new, name |-> name] ELSE Empty
  BY DEF Put, Zeroed
<1>. USE <1>h, <1>v
<1>t. /\ mem \in Metadata /\ data \in [Blocks -> Contents] /\ Exclusive(mem) /\ Counted(mem)
      /\ b \in Blocks
  BY IdleFacts DEF Sound, FreeBlocks
<1>p. p[1] \in Slots /\ p[2] \in Cells /\ new \in Inodes /\ mem.type[new] = "free"
  BY DEF FreePlaces, Places, FreeInodes
<1>1. q \in Metadata /\ \A i \in Inodes : q.blocks[i] = mem.blocks[i]
  BY DEF Fresh
<1>2. Exclusive(q) /\ Counted(q) /\ (Exact(mem) => Exact(q)) /\ FreeBlocks(q) = FreeBlocks(mem)
  BY <1>t, FreshSound
<1>3. b \in FreeBlocks(q) /\ Cardinality(FreeBlocks(q)) <= q.free_blocks
  BY <1>2 DEF Counted
<1>4. /\ m \in Metadata /\ m.type = q.type /\ m.size = q.size
      /\ m.blocks = q.blocks /\ m.free_inodes = q.free_inodes
      /\ m.bitmap = [q.bitmap EXCEPT ![b] = 1] /\ m.free_blocks = q.free_blocks - 1
  BY <1>1, <1>3, AllocatedFields
<1>5. Fresh(m, new, kind)
  BY <1>4 DEF Fresh
<1>6. Saves(q, <<>>, data, {})
  BY <1>1, <1>t, NoSaves
<1>7. Saves(m, <<>> \o AllocWrites(m), data, {})
  BY <1>3, <1>6, <1>t, AllocSaves
<1>8. Zeroed \in Contents
  <2>1. 0 \in Inodes
    BY Sizes DEF Inodes
  <2>2. Empty \in Cell
    BY <2>1 DEF Cell, Empty
  <2>. QED
    BY <2>2 DEF Zeroed, Contents
<1>9. Saves(m, (<<>> \o AllocWrites(m)) \o <<WriteData(b, Zeroed)>>,
            [data EXCEPT ![b] = Zeroed], {})
  BY <1>7, <1>8, <1>t, DataSaves
<1>10. PICK D : D = [[data EXCEPT ![b] = Zeroed] EXCEPT ![b] = cells]
  OBVIOUS
<1>11. /\ D \in [Blocks -> Contents] /\ D[b] = cells
       /\ \A c \in Blocks : c # b => D[c] = data[c]
  BY <1>8, <1>10, <1>t
<1>12. Saves(m, ((<<>> \o AllocWrites(m)) \o <<WriteData(b, Zeroed)>>)
                \o <<WriteData(b, cells)>>, D, {})
  BY <1>9, <1>10, <1>t, DataSaves
<1>13. /\ e \in Metadata /\ e.bitmap = m.bitmap /\ e.free_blocks = m.free_blocks
       /\ e.free_inodes = m.free_inodes /\ e.type = m.type
       /\ \A i \in Inodes, k \in Slots :
            e.blocks[i][k] = IF i = dir /\ k = p[1] THEN b ELSE m.blocks[i][k]
  BY DEF Placing
<1>14. Saves(e, ((<<>> \o AllocWrites(m)) \o <<WriteData(b, Zeroed)>>)
                \o <<WriteData(b, cells)>>, D, {})
  BY <1>12, <1>13, SavesSame
<1>15. Exclusive(e) /\ Counted(e) /\ (Exact(mem) => Exact(e))
  <2>1. q.blocks[dir][p[1]] = 0 /\ q.type[dir] # "free"
    BY <1>1, <1>p DEF Fresh
  <2>2. \A c \in Blocks : e.bitmap[c] = IF c = b THEN 1 ELSE q.bitmap[c]
    <3>1. q.bitmap \in [Blocks -> {0, 1}]
      BY <1>1, MetaFields
    <3>. QED
      BY <1>4, <1>13, <1>t, <3>1
  <2>3. \A i \in Inodes, l \in Slots :
          e.blocks[i][l] = IF i = dir /\ l = p[1] THEN b ELSE q.blocks[i][l]
    BY <1>4, <1>13
  <2>4. e.type = q.type /\ e.free_blocks = q.free_blocks - 1
    BY <1>4, <1>13
  <2>5. PICK k \in Slots : k = p[1]
    BY <1>p
  <2>6. \A i \in Inodes, l \in Slots :
          e.blocks[i][l] = IF i = dir /\ l = k THEN b ELSE q.blocks[i][l]
    BY <2>3, <2>5
  <2>7. q.blocks[dir][k] = 0
    BY <2>1, <2>5
  <2>8. Exclusive(e) /\ Counted(e) /\ (Exact(q) => Exact(e))
    BY <1>1, <1>2, <1>3, <2>1, <2>2, <2>4, <2>6, <2>7, Taken
  <2>. QED
    BY <1>2, <2>8
<1>16. Created(e, D, dir, p, b, new, name, kind)
  <2>1. \A c \in Cells : D[b][c] = IF c = p[2] THEN [inode |-> new, name |-> name]
                                   ELSE IF mem.blocks[dir][p[1]] = 0 THEN Empty ELSE data[b][c]
    BY <1>11
  <2>. QED
    BY <1>5, <1>11, <1>t, <2>1, CreatedHolds
<1>. QED
  BY <1>4, <1>8, <1>14, <1>15, <1>16

\* What a create step does, in those terms.
CreateBegun(dir, p, name, kind) ==
  \E e, D, b, new, w, t :
    /\ Created(e, D, dir, p, b, new, name, kind)
    /\ Saves(e, w, D, IF mem.blocks[dir][p[1]] = 0 THEN {} ELSE {b})
    /\ mem.blocks[dir][p[1]] # 0 => In(w) = {1} /\ w[1].cells = D[b]
    /\ InodeSaves(e, t) /\ Parts(pending', w, t)
    /\ Exclusive(e) /\ Counted(e) /\ (Exact(mem) => Exact(e))
    /\ mem' = e /\ disk' = disk /\ data' = data /\ failed' = failed
    /\ op' = [kind |-> "create", ino |-> new]
    /\ written' = [written EXCEPT ![new] = NoBlocks]

\* The writes of a create in two parts: up to the entry, and the inodes.
LEMMA Rebracketed ==
  ASSUME NEW x \in Writes, NEW y \in Writes, NEW F \in Seq(Writes), NEW w \in Seq(Writes)
  PROVE  /\ (w \o <<x, y>>) \o F = (w \o <<x>>) \o (<<y>> \o F)
         /\ Append(w, x) = w \o <<x>>
         /\ <<>> \o w = w
<1>1. PICK X \in Seq(Writes) : X = <<x>>
  <2>1. <<x>> \in Seq(Writes)
    OBVIOUS
  <2>. QED
    BY <2>1
<1>2. PICK Y \in Seq(Writes) : Y = <<y>>
  <2>1. <<y>> \in Seq(Writes)
    OBVIOUS
  <2>. QED
    BY <2>1
<1>3. <<x, y>> = X \o Y
  <2>1. <<x, y>> = Append(<<x>>, y)
    OBVIOUS
  <2>2. Append(X, y) = X \o <<y>>
    BY <1>1, AppendIsConcat
  <2>. QED
    BY <1>1, <1>2, <2>1, <2>2
<1>4. (w \o (X \o Y)) \o F = (w \o X) \o (Y \o F)
  <2>1. w \o (X \o Y) = (w \o X) \o Y
    BY ConcatAssociative, SMTT(30)
  <2>2. w \o X \in Seq(Writes)
    BY Joined
  <2>3. ((w \o X) \o Y) \o F = (w \o X) \o (Y \o F)
    BY <2>2, ConcatAssociative, SMTT(30)
  <2>. QED
    BY <2>1, <2>3
<1>5. Append(w, x) = w \o <<x>>
  BY AppendIsConcat
<1>6. <<>> \o w = w
  BY ConcatEmptySeq
<1>. QED
  BY <1>1, <1>2, <1>3, <1>4, <1>5, <1>6

\* The new inode's saves.
LEMMA InodeTail ==
  ASSUME NEW e \in Metadata, NEW ino \in Inodes, NEW after \in {0, 1}
  PROVE  [i \in 1 .. 1 + after |-> WriteInode(e, ino)] \in Seq(Writes)
<1>1. ino \in Nat /\ 1 + after \in Nat
  BY Sizes DEF Inodes
<1>2. WriteInode(e, ino) \in Writes
  BY <1>1, WriteTypes
<1>. QED
  BY <1>1, <1>2

\* The step with its choices made: the inode, the cell and the block.
EntryPut(m, dir, p, b) ==
  [m EXCEPT !.blocks[dir][p[1]] = b, !.size[dir] = Grown(mem.size[dir])]
CreateStep(dir, name, new, p, b, m, first, old, after) ==
  /\ Begin("create", new, EntryPut(m, dir, p, b),
           first \o <<WriteData(b, [old EXCEPT ![p[2]] = [inode |-> new, name |-> name]]),
                      WriteInode(EntryPut(m, dir, p, b), dir)>>
           \o [i \in 1 .. 1 + after |-> WriteInode(EntryPut(m, dir, p, b), new)])
  /\ written' = [written EXCEPT ![new] = NoBlocks]
  /\ UNCHANGED failed

CreateChoice(dir, name, is_dir, after, new, p) ==
  /\ mem.blocks[dir][p[1]] = 0 =>
       /\ FreeBlocks(mem) # {}
       /\ \E b, m : /\ b = Smallest(FreeBlocks(mem)) /\ m = Allocated(NewInode(new, is_dir), b)
                   /\ CreateStep(dir, name, new, p, b, m,
                                 Append(AllocWrites(m), WriteData(b, Zeroed)), Zeroed, after)
  /\ mem.blocks[dir][p[1]] # 0 =>
       CreateStep(dir, name, new, p, mem.blocks[dir][p[1]], NewInode(new, is_dir),
                  <<>>, data[mem.blocks[dir][p[1]]], after)

\* What pafs_create leads to is one of these cases.
LEMMA CreateCases ==
  ASSUME NEW dir, NEW name, NEW is_dir, NEW after, Create(dir, name, is_dir, after)
  PROVE  CreateChoice(dir, name, is_dir, after,
                      Smallest(FreeInodes(mem)), FirstOf(FreePlaces(dir)))
<1>. DEFINE new == Smallest(FreeInodes(mem))
            p == FirstOf(FreePlaces(dir))
            G == mem.blocks[dir][p[1]] = 0
            B == IF G THEN Smallest(FreeBlocks(mem)) ELSE mem.blocks[dir][p[1]]
            M == IF G THEN Allocated(NewInode(new, is_dir), B) ELSE NewInode(new, is_dir)
            F == IF G THEN Append(AllocWrites(M), WriteData(B, Zeroed)) ELSE <<>>
            O == IF G THEN Zeroed ELSE data[B]
<1>1. (G => FreeBlocks(mem) # {}) /\ CreateStep(dir, name, new, p, B, M, F, O, after)
  BY Zenon DEF Create, CreateStep, EntryPut
<1>. HIDE DEF new, p
<1>2. ASSUME G PROVE /\ B = Smallest(FreeBlocks(mem)) /\ M = Allocated(NewInode(new, is_dir), B)
                     /\ F = Append(AllocWrites(M), WriteData(B, Zeroed)) /\ O = Zeroed
  BY <1>2, Zenon
<1>3. ASSUME ~G PROVE /\ B = mem.blocks[dir][p[1]] /\ M = NewInode(new, is_dir)
                      /\ F = <<>> /\ O = data[mem.blocks[dir][p[1]]]
  BY <1>3, Zenon
<1>4. G <=> mem.blocks[dir][p[1]] = 0
  OBVIOUS
<1>. HIDE DEF G, B, M, F, O
<1>5. CreateChoice(dir, name, is_dir, after, new, p)
  BY <1>1, <1>2, <1>3, <1>4, Zenon DEF CreateChoice
<1>. QED
  BY <1>5 DEF new, p

\* What pafs_create has decided when it starts to save.
LEMMA CreateBegins ==
  ASSUME Sound, NEW dir \in Inodes, NEW name \in Names, NEW is_dir \in BOOLEAN,
         NEW after \in {0, 1}, Create(dir, name, is_dir, after)
  PROVE  \E p \in Places : CreateBegun(dir, p, name, IF is_dir THEN "dir" ELSE "file")
<1>g. /\ Idle /\ mem.type[dir] = "dir" /\ mem.free_inodes # 0
      /\ FreeInodes(mem) # {} /\ FreePlaces(dir) # {}
  BY DEF Create
<1>t. /\ mem \in Metadata /\ data \in [Blocks -> Contents] /\ Exclusive(mem) /\ Counted(mem)
      /\ \A i \in Inodes, k \in Slots : mem.blocks[i][k] \in Blocks \cup {0}
  BY <1>g, IdleFacts, MetaFields DEF Sound
<1>1. PICK new \in FreeInodes(mem) : new = Smallest(FreeInodes(mem))
  <2>1. FreeInodes(mem) \subseteq Nat
    BY Sizes DEF FreeInodes, Inodes
  <2>. QED
    BY <1>g, <2>1, SmallestIn
<1>2. PICK p \in FreePlaces(dir) : /\ p = FirstOf(FreePlaces(dir))
                                   /\ \A r \in FreePlaces(dir) : ~Before(r, p)
  <2>1. FreePlaces(dir) \subseteq Places
    BY DEF FreePlaces
  <2>. QED
    BY <1>g, <2>1, FirstOfIn
<1>c. CreateChoice(dir, name, is_dir, after, new, p)
  BY <1>1, <1>2, CreateCases
<1>k. PICK kind \in {"file", "dir"} : kind = IF is_dir THEN "dir" ELSE "file"
  OBVIOUS
<1>3. PICK q : /\ q = NewInode(new, is_dir) /\ Fresh(q, new, kind)
               /\ q.bitmap = mem.bitmap /\ q.free_blocks = mem.free_blocks
  BY <1>g, <1>t, <1>k, NewInodeFields
<1>p. p \in Places /\ p[1] \in Slots /\ p[2] \in Cells /\ new \in Inodes /\ q \in Metadata
  BY <1>3 DEF FreePlaces, Places, FreeInodes, Fresh
<1>s. PICK n \in 0 .. SLOTS * PER_BLOCK : n = mem.size[dir] + 1
  BY <1>g, SizeFits
<1>a. PICK entry \in Cell : entry = [inode |-> new, name |-> name]
  <2>1. [inode |-> new, name |-> name] \in Cell
    BY <1>p DEF Cell
  <2>. QED
    BY <2>1
<1>4. CASE mem.blocks[dir][p[1]] # 0
  <2>1. PICK b \in Blocks : b = mem.blocks[dir][p[1]]
    BY <1>4, <1>p, <1>t
  <2>2. PICK e : /\ e = [q EXCEPT !.blocks[dir][p[1]] = b, !.size[dir] = n]
                 /\ Placing(e, q, dir, p[1], b, n)
    BY <1>p, Placed
  <2>3. PICK cells \in Contents :
          /\ cells = [data[b] EXCEPT ![p[2]] = entry]
          /\ \A c \in Cells : cells[c] = IF c = p[2] THEN entry ELSE data[b][c]
    <3>1. data[b] \in [Cells -> Cell]
      BY <1>t DEF Contents
    <3>2. /\ [data[b] EXCEPT ![p[2]] = entry] \in [Cells -> Cell]
          /\ \A c \in Cells : [data[b] EXCEPT ![p[2]] = entry][c] =
                                IF c = p[2] THEN entry ELSE data[b][c]
      BY <1>p, <3>1
    <3>. QED
      BY <3>2 DEF Contents
  <2>4. /\ \E D : /\ Created(e, D, dir, p, b, new, name, kind)
                  /\ Saves(e, <<WriteData(b, cells)>>, D, {b}) /\ D[b] = cells
        /\ Exclusive(e) /\ Counted(e) /\ (Exact(mem) => Exact(e))
    <3>1. Placing(e, q, dir, p[1], b, mem.size[dir] + 1)
      BY <1>s, <2>2
    <3>2. Put(cells, data[b], p, new, name)
      BY <1>a, <2>3 DEF Put
    <3>3. Chosen(dir, new, p, name, kind, q)
      BY <1>2, <1>3, <1>g, Zenon DEF Chosen
    <3>4. InBlock(dir, p, b)
      BY <2>1 DEF InBlock
    <3>. QED
      BY <1>g, <3>1, <3>2, <3>3, <3>4, CreateFits, Zenon
  <2>5. PICK D : /\ Created(e, D, dir, p, b, new, name, kind)
                 /\ Saves(e, <<WriteData(b, cells)>>, D, {b}) /\ D[b] = cells
    BY <2>4
  <2>6. PICK F \in Seq(Writes) : F = [i \in 1 .. 1 + after |-> WriteInode(e, new)]
    <3>1. e \in Metadata
      BY <2>2 DEF Placing
    <3>. QED
      BY <1>p, <3>1, InodeTail
  <2>7. /\ mem' = e /\ disk' = disk /\ data' = data /\ failed' = failed
        /\ op' = [kind |-> "create", ino |-> new]
        /\ written' = [written EXCEPT ![new] = NoBlocks]
        /\ pending' = (<<>> \o <<WriteData(b, cells), WriteInode(e, dir)>>) \o F
    <3>1. CreateStep(dir, name, new, p, b, q, <<>>, data[b], after)
      BY <1>3, <1>4, <1>c, <2>1, Zenon DEF CreateChoice
    <3>2. EntryPut(q, dir, p, b) = e
      BY <1>s, <2>2, Zenon DEF EntryPut, Grown
    <3>3. [data[b] EXCEPT ![p[2]] = [inode |-> new, name |-> name]] = cells
      BY <1>a, <2>3
    <3>. QED
      BY <2>6, <3>1, <3>2, <3>3, Zenon DEF CreateStep, Begin
  <2>8. PICK w \in Seq(Writes), t \in Seq(Writes) :
          /\ w = <<WriteData(b, cells)>> /\ Len(w) = 1 /\ w[1] = WriteData(b, cells)
          /\ t = <<WriteInode(e, dir)>> \o F /\ InodeSaves(e, t)
          /\ pending' = w \o t
    <3>1. WriteData(b, cells) \in Writes /\ WriteInode(e, dir) \in Writes
      <4>1. e \in Metadata /\ dir \in Nat
        BY <2>2, Sizes DEF Placing, Inodes
      <4>. QED
        BY <4>1, WriteTypes
    <3>2. <<WriteData(b, cells)>> \in Seq(Writes) /\ Len(<<WriteData(b, cells)>>) = 1
          /\ <<WriteData(b, cells)>>[1] = WriteData(b, cells)
      BY <3>1
    <3>3. InodeSaves(e, <<WriteInode(e, dir)>> \o F)
      <4>1. /\ e \in Metadata
            /\ \A i \in Inodes \ {dir, new} : /\ e.type[i] = mem.type[i]
                                              /\ e.size[i] = mem.size[i]
                                              /\ e.blocks[i] = mem.blocks[i]
        BY <2>5 DEF Created
      <4>. QED
        BY <1>p, <1>t, <2>6, <4>1, CreateInodes, ZenonT(40)
    <3>4. pending' = <<WriteData(b, cells)>> \o (<<WriteInode(e, dir)>> \o F)
      <4>0. <<>> \in Seq(Writes)
        OBVIOUS
      <4>1. PICK N \in Seq(Writes) : N = <<>>
        BY <4>0
      <4>2. (N \o <<WriteData(b, cells), WriteInode(e, dir)>>) \o F
              = (N \o <<WriteData(b, cells)>>) \o (<<WriteInode(e, dir)>> \o F)
        BY <3>1, Rebracketed, SMTT(40)
      <4>3. N \o <<WriteData(b, cells)>> = <<WriteData(b, cells)>>
        BY <3>1, <3>2, <4>1, Rebracketed
      <4>. QED
        BY <2>7, <4>1, <4>2, <4>3
    <3>. QED
      BY <3>2, <3>3, <3>4, Zenon DEF InodeSaves
  <2>9. Parts(pending', w, t)
    BY <2>8, JoinedParts
  <2>10. In(w) = {1} /\ w[1].cells = D[b]
    BY <2>5, <2>8 DEF In, WriteData
  <2>11. Saves(e, w, D, IF mem.blocks[dir][p[1]] = 0 THEN {} ELSE {b})
    BY <1>4, <2>5, <2>8, Zenon
  <2>12. CreateBegun(dir, p, name, kind)
    BY <2>4, <2>5, <2>7, <2>8, <2>9, <2>10, <2>11, Zenon DEF CreateBegun
  <2>. QED
    BY <1>k, <1>p, <2>12
<1>5. CASE mem.blocks[dir][p[1]] = 0
  <2>1. PICK b, m :
          /\ b \in FreeBlocks(mem)
          /\ m = Allocated(q, b)
          /\ CreateStep(dir, name, new, p, b, m,
                        Append(AllocWrites(m), WriteData(b, Zeroed)), Zeroed, after)
    <3>1. FreeBlocks(mem) # {} /\ FreeBlocks(mem) \subseteq Nat
      BY <1>5, <1>c, Sizes DEF CreateChoice, FreeBlocks, Blocks
    <3>2. Smallest(FreeBlocks(mem)) \in FreeBlocks(mem)
      BY <3>1, SmallestIn
    <3>. QED
      BY <1>3, <1>5, <1>c, <3>2, Zenon DEF CreateChoice
  <2>2. b \in Blocks /\ m \in Metadata
    <3>1. b \in Blocks
      BY <2>1 DEF FreeBlocks
    <3>2. FreeBlocks(q) = FreeBlocks(mem) /\ Counted(q)
      BY <1>3, <1>t, FreshSound
    <3>3. b \in FreeBlocks(q) /\ Cardinality(FreeBlocks(q)) <= q.free_blocks
      BY <2>1, <3>2 DEF Counted
    <3>. QED
      BY <1>p, <2>1, <3>1, <3>3, AllocatedFields
  <2>3. PICK e : /\ e = [m EXCEPT !.blocks[dir][p[1]] = b, !.size[dir] = n]
                 /\ Placing(e, m, dir, p[1], b, n)
    BY <1>p, <2>2, Placed
  <2>4. PICK cells \in Contents :
          /\ cells = [Zeroed EXCEPT ![p[2]] = entry]
          /\ \A c \in Cells : cells[c] = IF c = p[2] THEN entry ELSE Empty
    <3>1. 0 \in Inodes
      BY Sizes DEF Inodes
    <3>2. Empty \in Cell
      BY <3>1 DEF Cell, Empty
    <3>3. Zeroed \in [Cells -> Cell] /\ \A c \in Cells : Zeroed[c] = Empty
      BY <3>2 DEF Zeroed
    <3>4. /\ [Zeroed EXCEPT ![p[2]] = entry] \in [Cells -> Cell]
          /\ \A c \in Cells : [Zeroed EXCEPT ![p[2]] = entry][c] =
                                IF c = p[2] THEN entry ELSE Empty
      BY <1>p, <3>3
    <3>. QED
      BY <3>4 DEF Contents
  <2>5. /\ Zeroed \in Contents
        /\ \E D : /\ Created(e, D, dir, p, b, new, name, kind)
                  /\ Saves(e, ((<<>> \o AllocWrites(m)) \o <<WriteData(b, Zeroed)>>)
                              \o <<WriteData(b, cells)>>, D, {})
        /\ Exclusive(e) /\ Counted(e) /\ (Exact(mem) => Exact(e))
    <3>1. Placing(e, m, dir, p[1], b, mem.size[dir] + 1)
      BY <1>s, <2>3
    <3>2. Put(cells, Zeroed, p, new, name)
      BY <1>a, <2>4 DEF Put, Zeroed
    <3>3. Chosen(dir, new, p, name, kind, q)
      BY <1>2, <1>3, <1>g, Zenon DEF Chosen
    <3>4. b \in FreeBlocks(mem) /\ m = Allocated(q, b)
      BY <2>1
    <3>. QED
      BY <1>5, <1>g, <3>1, <3>2, <3>3, <3>4, CreateGrows, Zenon
  <2>6. PICK D : /\ Created(e, D, dir, p, b, new, name, kind)
                 /\ Saves(e, ((<<>> \o AllocWrites(m)) \o <<WriteData(b, Zeroed)>>)
                             \o <<WriteData(b, cells)>>, D, {})
    BY <2>5
  <2>7. PICK F \in Seq(Writes) : F = [i \in 1 .. 1 + after |-> WriteInode(e, new)]
    <3>1. e \in Metadata
      BY <2>3 DEF Placing
    <3>. QED
      BY <1>p, <3>1, InodeTail
  <2>8. /\ mem' = e /\ disk' = disk /\ data' = data /\ failed' = failed
        /\ op' = [kind |-> "create", ino |-> new]
        /\ written' = [written EXCEPT ![new] = NoBlocks]
        /\ pending' = (Append(AllocWrites(m), WriteData(b, Zeroed))
                       \o <<WriteData(b, cells), WriteInode(e, dir)>>) \o F
    <3>1. EntryPut(m, dir, p, b) = e
      BY <1>s, <2>3, Zenon DEF EntryPut, Grown
    <3>2. [Zeroed EXCEPT ![p[2]] = [inode |-> new, name |-> name]] = cells
      BY <1>a, <2>4
    <3>. QED
      BY <2>1, <2>7, <3>1, <3>2, Zenon DEF CreateStep, Begin
  <2>9. PICK w \in Seq(Writes), t \in Seq(Writes) :
          /\ w = ((<<>> \o AllocWrites(m)) \o <<WriteData(b, Zeroed)>>) \o <<WriteData(b, cells)>>
          /\ t = <<WriteInode(e, dir)>> \o F /\ InodeSaves(e, t)
          /\ pending' = w \o t
    <3>1. WriteData(b, cells) \in Writes /\ WriteInode(e, dir) \in Writes
          /\ WriteData(b, Zeroed) \in Writes
      <4>1. e \in Metadata /\ dir \in Nat
        BY <2>3, Sizes DEF Placing, Inodes
      <4>. QED
        BY <2>2, <2>5, <4>1, WriteTypes
    <3>2. PICK A \in Seq(Writes) : A = AllocWrites(m)
      <4>1. WriteBitmap(m) \in Writes /\ WriteSuper(m) \in Writes
        BY <2>2, WriteTypes
      <4>2. <<WriteBitmap(m), WriteSuper(m)>> \in Seq(Writes)
        BY <4>1
      <4>. QED
        BY <4>2 DEF AllocWrites
    <3>3. InodeSaves(e, <<WriteInode(e, dir)>> \o F)
      <4>1. /\ e \in Metadata
            /\ \A i \in Inodes \ {dir, new} : /\ e.type[i] = mem.type[i]
                                              /\ e.size[i] = mem.size[i]
                                              /\ e.blocks[i] = mem.blocks[i]
        BY <2>6 DEF Created
      <4>. QED
        BY <1>p, <1>t, <2>7, <4>1, CreateInodes, ZenonT(40)
    <3>4. Append(A, WriteData(b, Zeroed)) = A \o <<WriteData(b, Zeroed)>>
      BY <3>1, Rebracketed
    <3>5. <<>> \o A = A
      BY ConcatEmptySeq
    <3>6. PICK Z \in Seq(Writes) : Z = A \o <<WriteData(b, Zeroed)>>
      <4>1. <<WriteData(b, Zeroed)>> \in Seq(Writes)
        BY <3>1
      <4>. QED
        BY <4>1, Joined
    <3>7. (Z \o <<WriteData(b, cells), WriteInode(e, dir)>>) \o F
            = (Z \o <<WriteData(b, cells)>>) \o (<<WriteInode(e, dir)>> \o F)
      <4>1. PICK x \in Writes, y \in Writes : x = WriteData(b, cells) /\ y = WriteInode(e, dir)
        BY <3>1
      <4>2. (Z \o <<x, y>>) \o F = (Z \o <<x>>) \o (<<y>> \o F)
        BY Rebracketed, ZenonT(40)
      <4>. QED
        BY <4>1, <4>2
    <3>8. Z \o <<WriteData(b, cells)>> \in Seq(Writes)
      <4>1. <<WriteData(b, cells)>> \in Seq(Writes)
        BY <3>1
      <4>. QED
        BY <4>1, Joined
    <3>9. pending' = (Z \o <<WriteData(b, cells)>>) \o (<<WriteInode(e, dir)>> \o F)
      BY <2>8, <3>2, <3>4, <3>6, <3>7, Zenon
    <3>10. Z \o <<WriteData(b, cells)>>
             = ((<<>> \o AllocWrites(m)) \o <<WriteData(b, Zeroed)>>) \o <<WriteData(b, cells)>>
      BY <3>2, <3>5, <3>6, Zenon
    <3>. QED
      BY <3>3, <3>8, <3>9, <3>10, Zenon DEF InodeSaves
  <2>10. Parts(pending', w, t)
    BY <2>9, JoinedParts
  <2>11. Saves(e, w, D, IF mem.blocks[dir][p[1]] = 0 THEN {} ELSE {b})
    BY <1>5, <2>6, <2>9, Zenon
  <2>12. CreateBegun(dir, p, name, kind)
    BY <1>5, <2>5, <2>6, <2>8, <2>9, <2>10, <2>11, Zenon DEF CreateBegun
  <2>. QED
    BY <1>k, <1>p, <2>12
<1>. QED
  BY <1>4, <1>5

\* pafs_create and pafs_add_entry keep the invariant, and the disk stays sound until the
\* inodes are saved.
LEMMA CreateInv ==
  ASSUME Sound, NEW dir \in Inodes, NEW name \in Names, NEW is_dir \in BOOLEAN,
         NEW after \in {0, 1}, Create(dir, name, is_dir, after)
  PROVE  Sound'
<1>i. Idle
  BY DEF Create
<1>f. /\ mem \in Metadata /\ disk \in Metadata /\ data \in [Blocks -> Contents]
      /\ disk.type = mem.type /\ disk.size = mem.size /\ disk.blocks = mem.blocks
      /\ Keeps(mem, data, written)
      /\ disk.free_inodes >= mem.free_inodes
  BY <1>i, IdleFacts
<1>e. /\ Exclusive(mem) /\ written \in [Inodes -> [Slots -> Values \cup {0}]]
      /\ failed \in 0 .. 2
      /\ failed = 0 => mem.free_inodes >= Cardinality(FreeInodes(mem)) /\ Exact(mem)
  BY DEF Sound, Typed, InodesCounted
<1>k. PICK kind \in {"file", "dir"} : kind = IF is_dir THEN "dir" ELSE "file"
  OBVIOUS
<1>1. PICK p \in Places : CreateBegun(dir, p, name, kind)
  BY <1>k, CreateBegins
<1>2. PICK e, D, b, new, w, t :
    /\ Created(e, D, dir, p, b, new, name, kind)
    /\ Saves(e, w, D, IF mem.blocks[dir][p[1]] = 0 THEN {} ELSE {b})
    /\ mem.blocks[dir][p[1]] # 0 => In(w) = {1} /\ w[1].cells = D[b]
    /\ InodeSaves(e, t) /\ Parts(pending', w, t)
    /\ Exclusive(e) /\ Counted(e) /\ (Exact(mem) => Exact(e))
    /\ mem' = e /\ disk' = disk /\ data' = data /\ failed' = failed
    /\ op' = [kind |-> "create", ino |-> new]
    /\ written' = [written EXCEPT ![new] = NoBlocks]
  BY <1>1, Zenon DEF CreateBegun
<1>u. /\ mem' = e /\ disk' = disk /\ data' = data /\ failed' = failed
      /\ op' = [kind |-> "create", ino |-> new]
      /\ written' = [written EXCEPT ![new] = NoBlocks]
  BY <1>2
<1>s. Exclusive(e) /\ Counted(e) /\ (failed = 0 => Exact(e))
  BY <1>2, <1>e
<1>c. /\ e \in Metadata /\ D \in [Blocks -> Contents] /\ b \in Blocks
      /\ e.free_inodes = mem.free_inodes - 1
      /\ \A i \in Inodes : /\ e.type[i] = IF i = new THEN kind ELSE mem.type[i]
                           /\ i # dir => e.blocks[i] = mem.blocks[i]
      /\ \A i \in Inodes, k \in Slots :
           e.blocks[i][k] = IF i = dir /\ k = p[1] THEN b ELSE mem.blocks[i][k]
      /\ \A c \in Cells : D[b][c] = IF c = p[2] THEN [inode |-> new, name |-> name]
                                    ELSE IF mem.blocks[dir][p[1]] = 0 THEN Empty ELSE data[b][c]
      /\ mem.blocks[dir][p[1]] = b \/ mem.blocks[dir][p[1]] = 0
      /\ mem.type[dir] = "dir" /\ new \in Inodes /\ mem.type[new] = "free"
  BY <1>2 DEF Created, FreeInodes
<1>n. new # dir /\ new # 0 /\ b # 0 /\ p[1] \in Slots
  <2>1. new # dir /\ new # Root
    BY <1>c, <1>e DEF Exclusive
  <2>. QED
    BY <1>c, <2>1, Sizes DEF Root, Blocks, Places
<1>3. /\ pending' \in Seq(Writes) /\ pending' # <<>>
      /\ MetaArrives' /\ DataArrives(D)' /\ CountsSafe'
      /\ \A n \in Coming' : pending'[n].to = "data" =>
           /\ pending'[n].block \in FreeBlocks(mem)
                                    \cup (IF mem.blocks[dir][p[1]] = 0 THEN {} ELSE {b})
           /\ n \in In(w) /\ pending'[n] = w[n]
      /\ disk.free_inodes >= e.free_inodes => InodesSaved'
  BY <1>2, <1>i, BeginSaves, ZenonT(40)
<1>4. ASSUME NEW n \in Coming', NEW i \in Inodes, NEW k \in Slots,
             pending'[n].to = "data", pending'[n].block = mem.blocks[i][k]
      PROVE  /\ i = dir /\ k = p[1] /\ mem.blocks[dir][p[1]] = b
             /\ n = 1 /\ pending'[n].cells = D[b]
  <2>1. mem.blocks[i][k] \notin FreeBlocks(mem)
    BY <1>e, FreeUnheld
  <2>2. mem.blocks[dir][p[1]] # 0 /\ mem.blocks[i][k] = b
    BY <1>3, <1>4, <2>1
  <2>3. i = dir /\ k = p[1]
    BY <1>2, <2>2, CreatedBlock
  <2>4. In(w) = {1} /\ w[1].cells = D[b]
    BY <1>2, <2>2
  <2>5. n \in In(w) /\ pending'[n] = w[n]
    BY <1>3, <1>4
  <2>. QED
    BY <1>c, <2>2, <2>3, <2>4, <2>5
<1>5. Typed'
  <2>1. NoBlocks \in [Slots -> Values \cup {0}]
    BY DEF NoBlocks
  <2>2. written' \in [Inodes -> [Slots -> Values \cup {0}]]
    BY <1>e, <1>u, <2>1
  <2>. QED
    BY <1>c, <1>e, <1>f, <1>u, <1>3, <2>2 DEF Typed
<1>6. InProgress'
  <2>1. op'.kind = "create" /\ op' # NoOp
    BY <1>u DEF NoOp
  <2>. QED
    BY <1>c, <1>u, <1>3, <2>1 DEF InProgress
<1>7. DirsSound(e, D)
  BY <1>2, <1>i, CreatedDirs
<1>8. MemorySound(D)'
  <2>1. failed = 0 => Listed(e, D)
    BY <1>2, <1>i, CreatedListed
  <2>2. Keeps(e, D, [written EXCEPT ![new] = NoBlocks])
    BY <1>2, <1>i, CreatedKeeps
  <2>3. Keeps(e, D, written')
    BY <1>u, <2>2
  <2>. QED
    BY <1>3, <1>7, <1>u, <2>1, <2>3 DEF MemorySound
<1>9. failed' = 0 => Exact(mem') /\ InodesCounted'
  <2>1. SUFFICES ASSUME failed = 0 PROVE Exact(e) /\ InodesCounted'
    BY <1>u
  <2>2. new \in FreeInodes(mem) /\ FreeInodes(e) = FreeInodes(mem) \ {new}
    BY <1>c, <1>k DEF FreeInodes
  <2>3. IsFiniteSet(FreeInodes(mem)) /\ Cardinality(FreeInodes(mem)) \in Nat
    BY CountsTyped
  <2>4. Cardinality(FreeInodes(e)) = Cardinality(FreeInodes(mem)) - 1
    BY <2>2, <2>3, FS_RemoveElement
  <2>5. mem.free_inodes \in Nat
    BY <1>f, MetaFields
  <2>6. e.free_inodes >= Cardinality(FreeInodes(e))
    BY <1>c, <1>e, <2>1, <2>3, <2>4, <2>5
  <2>. QED
    BY <1>s, <1>u, <2>1, <2>6 DEF InodesCounted
<1>14. InodesSaved'
  <2>1. mem.free_inodes \in Nat /\ disk.free_inodes \in Nat
    BY <1>f, MetaFields
  <2>. QED
    BY <1>3, <1>c, <1>f, <2>1
<1>10. DiskSound'
  <2>1. Exclusive(disk) /\ Counted(disk) /\ DirsSound(disk, data)
    BY <1>i, IdleDisk
  <2>2. DiskBehind'
    <3>1. ASSUME NEW i \in Inodes, NEW k \in Slots
          PROVE  disk.blocks[i][k] \in {0, e.blocks[i][k]}
      BY <1>c, <1>f
    <3>. QED
      BY <1>u, <3>1 DEF DiskBehind
  <2>3. CellsSafe'
    <3>1. ASSUME NEW n \in Coming', NEW i \in Inodes, NEW k \in Slots,
                 disk.type[i] = "dir", disk.blocks[i][k] # 0,
                 pending'[n].to = "data", pending'[n].block = disk.blocks[i][k]
          PROVE  /\ \A c \in Cells : /\ IsEntry(pending'[n].cells[c])
                                     /\ data[disk.blocks[i][k]][c].inode # 0 =>
                                          pending'[n].cells[c].inode # 0
                 /\ \A l \in Coming' :
                      pending'[l].to = "data" /\ pending'[l].block = disk.blocks[i][k] => l = n
      <4>1. /\ i = dir /\ k = p[1] /\ mem.blocks[dir][p[1]] = b
            /\ n = 1 /\ pending'[n].cells = D[b]
        BY <1>4, <1>f, <3>1
      <4>2. \A l \in Coming' :
              pending'[l].to = "data" /\ pending'[l].block = disk.blocks[i][k] => l = n
        BY <1>4, <1>f, <4>1
      <4>3. ASSUME NEW c \in Cells PROVE IsEntry(D[b][c])
        <5>1. e.type[dir] = "dir" /\ e.blocks[dir][p[1]] = b
          BY <1>c, <1>n
        <5>2. DirSound(e, D, dir)
          BY <1>7, <5>1 DEF DirsSound
        <5>. QED
          BY <1>n, <5>1, <5>2 DEF DirSound
      <4>4. ASSUME NEW c \in Cells, data[b][c].inode # 0 PROVE D[b][c].inode # 0
        <5>1. CASE c = p[2]
          <6>1. D[b][c] = [inode |-> new, name |-> name]
            BY <1>c, <5>1
          <6>. QED
            BY <1>n, <6>1
        <5>2. CASE c # p[2]
          BY <1>c, <1>n, <4>1, <4>4, <5>2
        <5>. QED
          BY <5>1, <5>2
      <4>. QED
        BY <1>f, <4>1, <4>2, <4>3, <4>4
    <3>. QED
      BY <1>u, <3>1 DEF CellsSafe, ToBlock
  <2>. QED
    BY <1>u, <1>3, <2>1, <2>2, <2>3 DEF DiskSound, WritesSafe
<1>11. FilesOnDisk'
  <2>1. ASSUME NEW i \in Inodes, NEW k \in Slots, i # new, written'[i][k] # 0
        PROVE  /\ disk.type[i] = "file" /\ k <= disk.size[i]
               /\ disk.blocks[i][k] = e.blocks[i][k]
               /\ \A n \in Coming' :
                    ~(pending'[n].to = "data" /\ pending'[n].block = e.blocks[i][k])
    <3>1. written[i][k] # 0
      BY <1>e, <1>u, <2>1
    <3>2. mem.type[i] = "file" /\ k <= mem.size[i]
      BY <1>f, <3>1 DEF Keeps
    <3>3. i # dir
      BY <1>c, <3>2
    <3>4. e.blocks[i][k] = mem.blocks[i][k]
      BY <1>c, <3>3
    <3>5. \A n \in Coming' :
            ~(pending'[n].to = "data" /\ pending'[n].block = mem.blocks[i][k])
      BY <1>4, <3>3
    <3>. QED
      BY <1>f, <3>2, <3>4, <3>5
  <2>2. op'.ino = new
    BY <1>u
  <2>3. \A i \in Inodes, k \in Slots : i # new /\ written'[i][k] # 0 =>
          /\ disk'.type[i] = "file" /\ k <= disk'.size[i]
          /\ disk'.blocks[i][k] = mem'.blocks[i][k]
          /\ \A n \in Coming' : ~ToBlock(n, mem.blocks[i][k])'
    BY <1>u, <2>1 DEF ToBlock
  <2>. QED
    BY <2>2, <2>3 DEF FilesOnDisk
<1>12. op'.kind # "delete"
  BY <1>u
<1>. QED
  BY <1>c, <1>s, <1>u, <1>3, <1>5, <1>6, <1>8, <1>9, <1>10, <1>11, <1>12, <1>14 DEF Sound

-----------------------------------------------------------------------------
\* An inode has as many blocks as slots in use, and they are held and marked.
LEMMA OwnCounted ==
  ASSUME mem \in Metadata, Exclusive(mem), NEW ino \in Inodes
  PROVE  LET own == OwnBlocks(ino) \ {0}
             used == {k \in Slots : mem.blocks[ino][k] # 0}
         IN  /\ IsFiniteSet(own) /\ Cardinality(own) = Cardinality(used)
             /\ own \subseteq Held(mem) /\ own \cap FreeBlocks(mem) = {} /\ own \subseteq Blocks
<1>. DEFINE own == OwnBlocks(ino) \ {0}
            used == {k \in Slots : mem.blocks[ino][k] # 0}
<1>t. \A k \in Slots : mem.blocks[ino][k] \in Blocks \cup {0}
  BY MetaFields
<1>1. own \subseteq Blocks /\ own \subseteq Held(mem)
  BY <1>t DEF OwnBlocks, Held
<1>2. own \cap FreeBlocks(mem) = {}
  BY <1>t, FreeUnheld DEF OwnBlocks
<1>3. IsFiniteSet(used)
  <2>1. IsFiniteSet(Slots)
    <3>1. IsFiniteSet(1 .. SLOTS)
      BY Sizes, FS_Interval
    <3>. QED
      BY <3>1 DEF Slots
  <2>2. used \subseteq Slots
    OBVIOUS
  <2>. QED
    BY <2>1, <2>2, FS_Subset
<1>4. ExistsBijection(used, own)
  <2>. DEFINE f == [k \in used |-> mem.blocks[ino][k]]
  <2>1. f \in [used -> own]
    BY <1>t DEF OwnBlocks
  <2>2. \A j, k \in used : f[j] = f[k] => j = k
    <3>1. SUFFICES ASSUME NEW j \in used, NEW k \in used, f[j] = f[k] PROVE j = k
      BY Zenon
    <3>2. /\ j \in Slots /\ k \in Slots /\ mem.blocks[ino][j] # 0
          /\ mem.blocks[ino][j] = mem.blocks[ino][k]
      BY <3>1
    <3>. QED
      BY <3>2, Zenon DEF Exclusive
  <2>3. \A b \in own : \E k \in used : f[k] = b
    BY <1>t DEF OwnBlocks
  <2>. HIDE DEF f, used, own
  <2>4. f \in Bijection(used, own)
    BY <2>1, <2>2, <2>3 DEF Bijection, Injection, IsInjective, Surjection
  <2>. QED
    BY <2>4 DEF ExistsBijection
<1>5. IsFiniteSet(own) /\ Cardinality(own) = Cardinality(used)
  <2>. HIDE DEF own, used
  <2>. QED
    BY <1>3, <1>4, FS_Bijection
<1>. QED
  BY <1>1, <1>2, <1>5

\* What delete leaves: inode ino free, and its entry, in cell p of directory dir,
\* overwritten with the one in cell last, unless the two share a block.
Deleted(e, D, dir, p, last, ino) ==
  /\ e \in Metadata /\ D \in [Blocks -> Contents]
  /\ dir \in Inodes /\ ino \in Inodes /\ ino # dir /\ ino # Root
  /\ p \in Places /\ last \in Places /\ last = At(mem.size[dir] - 1)
  /\ mem.type[dir] = "dir" /\ mem.size[dir] # 0 /\ Entry(mem, data, dir, p).inode # 0
  /\ mem.blocks[dir][p[1]] # 0 /\ mem.blocks[dir][last[1]] # 0
  /\ e.free_inodes = mem.free_inodes + 1
  /\ \A i \in Inodes : /\ e.type[i] = IF i = ino THEN "free" ELSE mem.type[i]
                       /\ e.size[i] = IF i = dir THEN mem.size[dir] - 1
                                      ELSE IF i = ino THEN 0 ELSE mem.size[i]
                       /\ i # ino => e.blocks[i] = mem.blocks[i]
  /\ \A k \in Slots : e.blocks[ino][k] = 0
  /\ \A b \in Blocks : D[b] # data[b] =>
       b = mem.blocks[dir][p[1]] \/ b = mem.blocks[dir][last[1]]
  /\ \A c \in Cells : D[mem.blocks[dir][last[1]]][c] =
       IF c = last[2] THEN Empty ELSE data[mem.blocks[dir][last[1]]][c]
  /\ mem.blocks[dir][p[1]] # mem.blocks[dir][last[1]] =>
       \A c \in Cells : D[mem.blocks[dir][p[1]]][c] =
         IF c = p[2] THEN Entry(mem, data, dir, last) ELSE data[mem.blocks[dir][p[1]]][c]

\* Its blocks are given back, and no other.
GivenBack(e, ino) ==
  /\ \A b \in Blocks : e.bitmap[b] = IF b \in OwnBlocks(ino) THEN 0 ELSE mem.bitmap[b]
  /\ e.free_blocks = mem.free_blocks + Cardinality(OwnBlocks(ino) \ {0})

\* Freeing an inode gives back its blocks and no others, and counts them.
LEMMA DeletedCounts ==
  ASSUME mem \in Metadata, Exclusive(mem), Counted(mem), NEW e, NEW D, NEW dir, NEW p,
         NEW last, NEW ino, Deleted(e, D, dir, p, last, ino), GivenBack(e, ino)
  PROVE  Exclusive(e) /\ Counted(e) /\ (Exact(mem) => Exact(e))
<1>c. /\ ino \in Inodes /\ ino # Root /\ Root \in Inodes
      /\ \A i \in Inodes : /\ e.type[i] = IF i = ino THEN "free" ELSE mem.type[i]
                           /\ i # ino => e.blocks[i] = mem.blocks[i]
      /\ \A k \in Slots : e.blocks[ino][k] = 0
      /\ \A b \in Blocks : e.bitmap[b] = IF b \in OwnBlocks(ino) THEN 0 ELSE mem.bitmap[b]
      /\ e.free_blocks = mem.free_blocks + Cardinality(OwnBlocks(ino) \ {0})
  <2>1. /\ ino \in Inodes /\ ino # Root
        /\ \A i \in Inodes : /\ e.type[i] = IF i = ino THEN "free" ELSE mem.type[i]
                             /\ e.size[i] = IF i = dir THEN mem.size[dir] - 1
                                            ELSE IF i = ino THEN 0 ELSE mem.size[i]
                             /\ i # ino => e.blocks[i] = mem.blocks[i]
        /\ \A k \in Slots : e.blocks[ino][k] = 0
    BY Zenon DEF Deleted
  <2>2. Root \in Inodes
    BY Sizes DEF Root, Inodes
  <2>. QED
    BY <2>1, <2>2, Zenon DEF GivenBack
<1>t. \A i \in Inodes, k \in Slots : mem.blocks[i][k] \in Blocks \cup {0}
  BY MetaFields
<1>z. 0 \notin Blocks
  BY Sizes DEF Blocks
<1>1. PICK own : own = OwnBlocks(ino) \ {0}
  OBVIOUS
<1>2. /\ IsFiniteSet(own) /\ own \subseteq Held(mem) /\ own \cap FreeBlocks(mem) = {}
      /\ own \subseteq Blocks
  BY <1>1, <1>c, OwnCounted
<1>3. ASSUME NEW i \in Inodes, NEW k \in Slots, i # ino, mem.blocks[i][k] # 0
      PROVE  mem.blocks[i][k] \notin own
  <2>1. SUFFICES ASSUME NEW l \in Slots, mem.blocks[i][k] = mem.blocks[ino][l] PROVE FALSE
    BY <1>1 DEF OwnBlocks
  <2>2. mem.blocks[i][k] # 0 /\ mem.blocks[i][k] = mem.blocks[ino][l]
    BY <1>3, <2>1
  <2>3. i = ino
    BY <1>c, <2>2, Zenon DEF Exclusive
  <2>. QED
    BY <1>3, <2>3
<1>b. \A b \in Blocks : e.bitmap[b] = IF b \in own THEN 0 ELSE mem.bitmap[b]
  BY <1>1, <1>c, <1>z
<1>4. Exclusive(e)
  <2>1. ASSUME NEW i \in Inodes, NEW j \in Inodes, NEW k \in Slots, NEW l \in Slots,
               e.blocks[i][k] # 0, e.blocks[i][k] = e.blocks[j][l]
        PROVE  i = j /\ k = l
    <3>1. i # ino /\ j # ino
      BY <1>c, <2>1
    <3>2. mem.blocks[i][k] # 0 /\ mem.blocks[i][k] = mem.blocks[j][l]
      BY <1>c, <2>1, <3>1
    <3>. QED
      BY <3>2, Zenon DEF Exclusive
  <2>2. ASSUME NEW i \in Inodes, NEW k \in Slots, e.blocks[i][k] # 0
        PROVE  e.bitmap[e.blocks[i][k]] = 1
    <3>1. i # ino /\ e.blocks[i][k] = mem.blocks[i][k]
      BY <1>c, <2>2
    <3>2. mem.blocks[i][k] \notin own /\ mem.blocks[i][k] \in Blocks
      BY <1>3, <1>t, <2>2, <3>1
    <3>3. mem.bitmap[mem.blocks[i][k]] = 1
      BY <2>2, <3>1 DEF Exclusive
    <3>. QED
      BY <1>b, <3>1, <3>2, <3>3
  <2>3. /\ \A i \in Inodes, k \in Slots : e.type[i] = "free" => e.blocks[i][k] = 0
        /\ e.type[Root] = "dir"
    BY <1>c DEF Exclusive
  <2>. QED
    BY <2>1, <2>2, <2>3 DEF Exclusive
<1>5. FreeBlocks(e) = FreeBlocks(mem) \cup own
  BY <1>2, <1>b DEF FreeBlocks
<1>6. Held(e) = Held(mem) \ own
  <2>1. ASSUME NEW b \in Held(e) PROVE b \in Held(mem) \ own
    <3>1. PICK i \in Inodes, k \in Slots : e.blocks[i][k] = b
      BY DEF Held
    <3>2. b \in Blocks /\ b # 0
      BY <1>z DEF Held
    <3>3. i # ino /\ mem.blocks[i][k] = b
      BY <1>c, <3>1, <3>2
    <3>. QED
      BY <1>3, <3>2, <3>3 DEF Held
  <2>2. ASSUME NEW b \in Held(mem), b \notin own PROVE b \in Held(e)
    <3>1. PICK i \in Inodes, k \in Slots : mem.blocks[i][k] = b
      BY DEF Held
    <3>2. b \in Blocks /\ b # 0
      BY <1>z DEF Held
    <3>3. i # ino
      BY <1>1, <2>2, <3>1, <3>2 DEF OwnBlocks
    <3>4. e.blocks[i][k] = b
      BY <1>c, <3>1, <3>3
    <3>. QED
      BY <3>2, <3>4 DEF Held
  <2>. QED
    BY <2>1, <2>2
<1>7. /\ Cardinality(FreeBlocks(e)) = Cardinality(FreeBlocks(mem)) + Cardinality(own)
      /\ Cardinality(Held(e)) = Cardinality(Held(mem)) - Cardinality(own)
  <2>1. /\ IsFiniteSet(FreeBlocks(mem)) /\ Cardinality(FreeBlocks(mem)) \in Nat
        /\ IsFiniteSet(Held(mem)) /\ Cardinality(Held(mem)) \in Nat /\ Cardinality(own) \in Nat
    BY <1>2, CountsTyped, FS_CardinalityType
  <2>2. FreeBlocks(mem) \cap own = {} /\ Held(mem) \cap own = own
    BY <1>2
  <2>3. Cardinality(FreeBlocks(mem) \cup own) =
          Cardinality(FreeBlocks(mem)) + Cardinality(own) - Cardinality({})
    BY <1>2, <2>1, <2>2, FS_Union
  <2>4. Cardinality(Held(mem) \ own) = Cardinality(Held(mem)) - Cardinality(own)
    BY <2>1, <2>2, FS_Difference
  <2>. QED
    BY <1>5, <1>6, <2>1, <2>3, <2>4, FS_EmptySet
<1>8. /\ Cardinality(FreeBlocks(mem)) \in Nat /\ Cardinality(Held(mem)) \in Nat
      /\ Cardinality(own) \in Nat /\ mem.free_blocks \in Nat /\ BLOCKS \in Nat
  BY <1>2, CountsTyped, FS_CardinalityType, MetaFields, Sizes
<1>9. e.free_blocks = mem.free_blocks + Cardinality(own)
  BY <1>1, <1>c
<1>10. Counted(e)
  BY <1>7, <1>8, <1>9 DEF Counted
<1>11. ASSUME Exact(mem) PROVE Exact(e)
  <2>1. \A b \in Blocks : e.bitmap[b] = 1 => b \in Held(e)
    BY <1>11, <1>6, <1>b DEF Exact
  <2>2. e.free_blocks = Cardinality(FreeBlocks(e))
    BY <1>11, <1>7, <1>8, <1>9 DEF Exact
  <2>. QED
    BY <2>1, <2>2 DEF Exact
<1>. QED
  BY <1>4, <1>10, <1>11

\* The last cell becomes empty, the entry's cell gets the last entry or keeps its own,
\* and nothing else changes.
LEMMA DeletedEntries ==
  ASSUME mem \in Metadata, Exclusive(mem), NEW e, NEW D, NEW dir, NEW p, NEW last, NEW ino,
         Deleted(e, D, dir, p, last, ino)
  PROVE  /\ Entry(e, D, dir, last) = Empty
         /\ \A q \in Places \ {p, last} : Entry(e, D, dir, q) = Entry(mem, data, dir, q)
         /\ p # last => \/ Entry(e, D, dir, p) = Entry(mem, data, dir, p)
                        \/ Entry(e, D, dir, p) = Entry(mem, data, dir, last)
         /\ \A i \in Inodes \ {dir}, k \in Slots :
              mem.blocks[i][k] # 0 => D[mem.blocks[i][k]] = data[mem.blocks[i][k]]
<1>t. \A i \in Inodes, k \in Slots : mem.blocks[i][k] \in Blocks \cup {0}
  BY MetaFields
<1>d. /\ p \in Places /\ last \in Places /\ dir \in Inodes
      /\ mem.blocks[dir][p[1]] # 0 /\ mem.blocks[dir][last[1]] # 0
  BY Zenon DEF Deleted
<1>1. PICK pk \in Slots, pc \in Cells : p = <<pk, pc>> /\ p[1] = pk /\ p[2] = pc
  BY <1>d DEF Places
<1>2. PICK lk \in Slots, lc \in Cells : last = <<lk, lc>> /\ last[1] = lk /\ last[2] = lc
  BY <1>d DEF Places
<1>3. PICK tb \in Blocks, lb \in Blocks : tb = mem.blocks[dir][pk] /\ lb = mem.blocks[dir][lk]
  <2>1. mem.blocks[dir][pk] # 0 /\ mem.blocks[dir][lk] # 0
    BY <1>d, <1>1, <1>2
  <2>. QED
    BY <2>1, <1>d, <1>t
<1>c. /\ dir \in Inodes /\ ino # dir /\ tb # 0 /\ lb # 0
      /\ e.blocks[dir] = mem.blocks[dir]
      /\ \A b \in Blocks : D[b] # data[b] => b = tb \/ b = lb
      /\ \A c \in Cells : D[lb][c] = IF c = lc THEN Empty ELSE data[lb][c]
      /\ tb # lb => \A c \in Cells :
           D[tb][c] = IF c = pc THEN Entry(mem, data, dir, last) ELSE data[tb][c]
  BY <1>1, <1>2, <1>3, Sizes DEF Deleted, Blocks
<1>4. ASSUME NEW i \in Inodes, NEW k \in Slots, mem.blocks[i][k] # 0
      PROVE  /\ mem.blocks[i][k] = tb => i = dir /\ k = pk
             /\ mem.blocks[i][k] = lb => i = dir /\ k = lk
             /\ mem.blocks[i][k] # tb /\ mem.blocks[i][k] # lb =>
                  D[mem.blocks[i][k]] = data[mem.blocks[i][k]]
  <2>1. ASSUME NEW l \in Slots, mem.blocks[i][k] = mem.blocks[dir][l] PROVE i = dir /\ k = l
    <3>1. mem.blocks[i][k] # 0 /\ mem.blocks[i][k] = mem.blocks[dir][l]
      BY <1>4, <2>1
    <3>. QED
      BY <1>c, <3>1, ZenonT(40) DEF Exclusive
  <2>. QED
    BY <1>3, <1>4, <1>c, <1>t, <2>1
<1>5. Entry(e, D, dir, last) = Empty
  BY <1>2, <1>3, <1>c DEF Entry
<1>6. ASSUME NEW q \in Places \ {p, last}
      PROVE  Entry(e, D, dir, q) = Entry(mem, data, dir, q)
  <2>1. PICK k \in Slots, c \in Cells : q = <<k, c>> /\ q[1] = k /\ q[2] = c
    BY DEF Places
  <2>2. CASE mem.blocks[dir][k] = 0
    BY <1>c, <2>1, <2>2 DEF Entry
  <2>3. CASE mem.blocks[dir][k] # 0 /\ mem.blocks[dir][k] = lb
    <3>1. c # lc
      BY <1>2, <1>4, <1>c, <1>6, <2>1, <2>3
    <3>. QED
      BY <1>c, <2>1, <2>3, <3>1 DEF Entry
  <2>4. CASE mem.blocks[dir][k] # 0 /\ mem.blocks[dir][k] = tb /\ tb # lb
    <3>1. c # pc
      BY <1>1, <1>4, <1>c, <1>6, <2>1, <2>4
    <3>. QED
      BY <1>c, <2>1, <2>4, <3>1 DEF Entry
  <2>5. CASE mem.blocks[dir][k] # 0 /\ mem.blocks[dir][k] # tb /\ mem.blocks[dir][k] # lb
    BY <1>4, <1>c, <2>1, <2>5 DEF Entry
  <2>. QED
    BY <2>2, <2>3, <2>4, <2>5
<1>7. ASSUME p # last
      PROVE  \/ Entry(e, D, dir, p) = Entry(mem, data, dir, p)
             \/ Entry(e, D, dir, p) = Entry(mem, data, dir, last)
  <2>1. CASE tb = lb
    <3>1. pk = lk
      BY <1>3, <1>4, <1>c, <2>1
    <3>2. pc # lc
      BY <1>1, <1>2, <1>7, <3>1
    <3>3. Entry(e, D, dir, p) = D[tb][pc] /\ Entry(mem, data, dir, p) = data[tb][pc]
      BY <1>1, <1>3, <1>c DEF Entry
    <3>4. D[lb][pc] = data[lb][pc]
      BY <1>c, <3>2
    <3>. QED
      BY <2>1, <3>3, <3>4
  <2>2. CASE tb # lb
    <3>1. Entry(e, D, dir, p) = D[tb][pc]
      BY <1>1, <1>3, <1>c DEF Entry
    <3>2. D[tb][pc] = Entry(mem, data, dir, last)
      BY <1>c, <2>2
    <3>. QED
      BY <3>1, <3>2
  <2>. QED
    BY <2>1, <2>2
<1>8. ASSUME NEW i \in Inodes \ {dir}, NEW k \in Slots, mem.blocks[i][k] # 0
      PROVE  D[mem.blocks[i][k]] = data[mem.blocks[i][k]]
  BY <1>4, <1>8
<1>. QED
  BY <1>5, <1>6, <1>7, <1>8

\* The directories stay sound: one entry goes, and the size goes down by one.
LEMMA DeletedDirs ==
  ASSUME Sound, Idle, NEW e, NEW D, NEW dir, NEW p, NEW last, NEW ino,
         Deleted(e, D, dir, p, last, ino)
  PROVE  DirsSound(e, D)
<1>c. /\ dir \in Inodes /\ ino \in Inodes /\ ino # dir /\ mem.type[dir] = "dir"
      /\ mem.size[dir] # 0 /\ p \in Places /\ last \in Places
      /\ Entry(mem, data, dir, p).inode # 0
      /\ \A i \in Inodes : /\ e.type[i] = IF i = ino THEN "free" ELSE mem.type[i]
                           /\ e.size[i] = IF i = dir THEN mem.size[dir] - 1
                                          ELSE IF i = ino THEN 0 ELSE mem.size[i]
                           /\ i # ino => e.blocks[i] = mem.blocks[i]
  BY DEF Deleted
<1>d. mem \in Metadata /\ DirsSound(mem, data) /\ Exclusive(mem)
  BY IdleFacts DEF Sound
<1>e. /\ Entry(e, D, dir, last) = Empty
      /\ \A q \in Places \ {p, last} : Entry(e, D, dir, q) = Entry(mem, data, dir, q)
      /\ p # last => \/ Entry(e, D, dir, p) = Entry(mem, data, dir, p)
                     \/ Entry(e, D, dir, p) = Entry(mem, data, dir, last)
      /\ \A i \in Inodes \ {dir}, k \in Slots :
           mem.blocks[i][k] # 0 => D[mem.blocks[i][k]] = data[mem.blocks[i][k]]
  BY <1>d, DeletedEntries
<1>z. Empty.inode = 0 /\ IsEntry(Empty)
  <2>1. Empty.inode = 0 /\ 0 \in Inodes
    BY Sizes DEF Empty, Inodes
  <2>. QED
    BY <2>1 DEF IsEntry
<1>1. DirSound(e, D, dir)
  <2>1. DirSound(mem, data, dir)
    BY <1>c, <1>d DEF DirsSound
  <2>2. ASSUME NEW q \in Places PROVE IsEntry(Entry(mem, data, dir, q))
    <3>1. q[1] \in Slots /\ q[2] \in Cells
      BY DEF Places
    <3>. QED
      BY <1>z, <2>1, <3>1 DEF DirSound, Entry
  <2>3. ASSUME NEW q \in Places PROVE IsEntry(Entry(e, D, dir, q))
    <3>1. CASE q = last
      BY <1>e, <1>z, <3>1
    <3>2. CASE q # last /\ q = p
      BY <1>c, <1>e, <2>2, <3>2
    <3>3. CASE q # last /\ q # p
      BY <1>e, <2>2, <3>3
    <3>. QED
      BY <3>1, <3>2, <3>3
  <2>4. ASSUME NEW k \in Slots, NEW c \in Cells, e.blocks[dir][k] # 0
        PROVE  IsEntry(D[e.blocks[dir][k]][c])
    <3>0. <<k, c>> \in Places /\ <<k, c>>[1] = k /\ <<k, c>>[2] = c
      BY DEF Places
    <3>1. PICK q \in Places : q[1] = k /\ q[2] = c
      BY <3>0
    <3>2. Entry(e, D, dir, q) = D[e.blocks[dir][k]][c]
      BY <2>4, <3>1 DEF Entry
    <3>. QED
      BY <2>3, <3>2
  <2>5. mem.size[dir] \in 0 .. SLOTS * PER_BLOCK /\ SLOTS * PER_BLOCK \in Nat
    BY <1>c, <1>d, MetaFields, RoomForFiles
  <2>6. PICK z \in Indexes : z = mem.size[dir] - 1 /\ last = At(z) /\ z < mem.size[dir]
    BY <1>c, <2>5 DEF Indexes, Deleted
  <2>7. \A j \in Indexes : j < mem.size[dir] => Entry(mem, data, dir, At(j)).inode # 0
    BY <2>1 DEF DirSound
  <2>8. ASSUME NEW j \in Indexes, j < e.size[dir] PROVE Entry(e, D, dir, At(j)).inode # 0
    <3>1. j \in Nat /\ j < z /\ j < mem.size[dir]
      BY <1>c, <2>5, <2>6, <2>8 DEF Indexes
    <3>2. At(j) \in Places /\ At(j) # last
      BY <2>6, <3>1, AtPlace
    <3>3. Entry(mem, data, dir, At(j)).inode # 0 /\ Entry(mem, data, dir, last).inode # 0
      BY <2>6, <2>7, <3>1
    <3>4. CASE At(j) = p
      BY <1>e, <3>2, <3>3, <3>4
    <3>5. CASE At(j) # p
      BY <1>e, <3>2, <3>3, <3>5
    <3>. QED
      BY <3>4, <3>5
  <2>. QED
    BY <2>4, <2>8 DEF DirSound
<1>2. ASSUME NEW i \in Inodes, e.type[i] = "dir", i # dir PROVE DirSound(e, D, i)
  <2>1. /\ i # ino /\ mem.type[i] = "dir" /\ mem.size[i] = e.size[i]
        /\ mem.blocks[i] = e.blocks[i]
    BY <1>2, <1>c
  <2>2. DirSound(mem, data, i)
    BY <1>d, <2>1 DEF DirsSound
  <2>3. \A k \in Slots : mem.blocks[i][k] # 0 => data[mem.blocks[i][k]] = D[mem.blocks[i][k]]
    BY <1>2, <1>e
  <2>. QED
    BY <2>1, <2>2, <2>3, SameDir
<1>. QED
  BY <1>1, <1>2 DEF DirsSound

\* Without a power failure the entries stay the first ones.
LEMMA DeletedListed ==
  ASSUME Sound, Idle, failed = 0, NEW e, NEW D, NEW dir, NEW p, NEW last, NEW ino,
         Deleted(e, D, dir, p, last, ino)
  PROVE  Listed(e, D)
<1>c. /\ dir \in Inodes /\ ino \in Inodes /\ ino # dir /\ mem.type[dir] = "dir"
      /\ mem.size[dir] # 0 /\ p \in Places /\ last \in Places /\ last = At(mem.size[dir] - 1)
      /\ Entry(mem, data, dir, p).inode # 0
      /\ \A i \in Inodes : /\ e.type[i] = IF i = ino THEN "free" ELSE mem.type[i]
                           /\ e.size[i] = IF i = dir THEN mem.size[dir] - 1
                                          ELSE IF i = ino THEN 0 ELSE mem.size[i]
                           /\ i # ino => e.blocks[i] = mem.blocks[i]
  BY DEF Deleted
<1>d. mem \in Metadata /\ Listed(mem, data) /\ Exclusive(mem)
  BY IdleFacts DEF Sound
<1>e. /\ Entry(e, D, dir, last) = Empty
      /\ \A q \in Places \ {p, last} : Entry(e, D, dir, q) = Entry(mem, data, dir, q)
      /\ p # last => \/ Entry(e, D, dir, p) = Entry(mem, data, dir, p)
                     \/ Entry(e, D, dir, p) = Entry(mem, data, dir, last)
      /\ \A i \in Inodes \ {dir}, k \in Slots :
           mem.blocks[i][k] # 0 => D[mem.blocks[i][k]] = data[mem.blocks[i][k]]
  BY <1>d, DeletedEntries
<1>z. Empty.inode = 0
  BY DEF Empty
<1>s. /\ mem.size[dir] \in 0 .. SLOTS * PER_BLOCK /\ SLOTS * PER_BLOCK \in Nat
  BY <1>c, <1>d, MetaFields, RoomForFiles
<1>x. \A i \in Indexes : i \in Nat /\ i < SLOTS * PER_BLOCK
  BY <1>s DEF Indexes
<1>1. PICK z \in Indexes : z = mem.size[dir] - 1
  BY <1>c, <1>s DEF Indexes
<1>2. \A i \in Indexes : i < mem.size[dir] <=> Entry(mem, data, dir, At(i)).inode # 0
  BY <1>c, <1>d DEF Listed
<1>3. Entry(mem, data, dir, last).inode # 0
  BY <1>1, <1>2, <1>c, <1>s
<1>4. ASSUME NEW i \in Indexes
      PROVE  i < e.size[dir] <=> Entry(e, D, dir, At(i)).inode # 0
  <2>1. At(i) \in Places /\ (At(i) = last <=> i = z)
    <3>1. At(i) \in Places
      BY AtPlace
    <3>2. i < z => At(i) # At(z)
      BY AtPlace
    <3>3. z < i => At(z) # At(i)
      BY AtPlace
    <3>. QED
      BY <1>1, <1>c, <1>x, <3>1, <3>2, <3>3
  <2>2. e.size[dir] = z
    BY <1>1, <1>c
  <2>3. CASE i = z
    BY <1>e, <1>x, <1>z, <2>1, <2>2, <2>3
  <2>4. CASE i # z
    <3>1. Entry(e, D, dir, At(i)).inode # 0 <=> Entry(mem, data, dir, At(i)).inode # 0
      <4>1. CASE At(i) = p
        BY <1>3, <1>c, <1>e, <2>1, <2>4, <4>1
      <4>2. CASE At(i) # p
        BY <1>e, <2>1, <2>4, <4>2
      <4>. QED
        BY <4>1, <4>2
    <3>2. i < mem.size[dir] <=> i < e.size[dir]
      BY <1>1, <1>s, <1>x, <2>2, <2>4
    <3>. QED
      BY <1>2, <3>1, <3>2
  <2>. QED
    BY <2>3, <2>4
<1>5. ASSUME NEW d \in Inodes, e.type[d] = "dir", d # dir, NEW i \in Indexes
      PROVE  i < e.size[d] <=> Entry(e, D, d, At(i)).inode # 0
  <2>1. /\ mem.type[d] = "dir" /\ mem.size[d] = e.size[d] /\ mem.blocks[d] = e.blocks[d]
    BY <1>5, <1>c
  <2>2. \A k \in Slots : mem.blocks[d][k] # 0 => data[mem.blocks[d][k]] = D[mem.blocks[d][k]]
    BY <1>5, <1>e
  <2>3. \A q \in Places : Entry(e, D, d, q) = Entry(mem, data, d, q)
    BY <2>1, <2>2, SameDir
  <2>4. i < mem.size[d] <=> Entry(mem, data, d, At(i)).inode # 0
    BY <1>d, <2>1 DEF Listed
  <2>. QED
    BY <2>1, <2>3, <2>4, AtPlace
<1>. QED
  BY <1>4, <1>5 DEF Listed

\* What was written to the other files stays.
LEMMA DeletedKeeps ==
  ASSUME Sound, Idle, NEW e, NEW D, NEW dir, NEW p, NEW last, NEW ino,
         Deleted(e, D, dir, p, last, ino)
  PROVE  Keeps(e, D, [written EXCEPT ![ino] = NoBlocks])
<1>c. /\ dir \in Inodes /\ ino \in Inodes /\ mem.type[dir] = "dir"
      /\ \A i \in Inodes : /\ e.type[i] = IF i = ino THEN "free" ELSE mem.type[i]
                           /\ e.size[i] = IF i = dir THEN mem.size[dir] - 1
                                          ELSE IF i = ino THEN 0 ELSE mem.size[i]
                           /\ i # ino => e.blocks[i] = mem.blocks[i]
  BY DEF Deleted
<1>d. Keeps(mem, data, written) /\ mem \in Metadata /\ Exclusive(mem)
  BY IdleFacts DEF Sound
<1>w. written \in [Inodes -> [Slots -> Values \cup {0}]]
  BY DEF Sound, Typed
<1>1. SUFFICES ASSUME NEW i \in Inodes, NEW k \in Slots,
                      [written EXCEPT ![ino] = NoBlocks][i][k] # 0
               PROVE  /\ e.type[i] = "file" /\ k <= e.size[i] /\ e.blocks[i][k] # 0
                      /\ D[e.blocks[i][k]] =
                           FileBlock([written EXCEPT ![ino] = NoBlocks][i][k])
  BY DEF Keeps
<1>2. i # ino /\ [written EXCEPT ![ino] = NoBlocks][i][k] = written[i][k]
  BY <1>1, <1>c, <1>w DEF NoBlocks
<1>3. /\ mem.type[i] = "file" /\ k <= mem.size[i] /\ mem.blocks[i][k] # 0
      /\ data[mem.blocks[i][k]] = FileBlock(written[i][k])
  BY <1>1, <1>2, <1>d DEF Keeps
<1>4. i # dir
  BY <1>3, <1>c
<1>5. D[mem.blocks[i][k]] = data[mem.blocks[i][k]]
  BY <1>3, <1>4, <1>d, DeletedEntries
<1>. QED
  BY <1>2, <1>3, <1>4, <1>5, <1>c

\* The metadata after pafs_delete.
DeleteMeta(dir, ino) == [Freed(ino) EXCEPT !.size[dir] = Shrunk(mem.size[dir])]

\* The fields after an inode is freed, one by one.
LEMMA FreedFields ==
  ASSUME mem \in Metadata, Exclusive(mem), Counted(mem), NEW dir \in Inodes,
         NEW ino \in Inodes, dir # ino, mem.size[dir] # 0, mem.free_inodes < MAX_COUNT,
         NEW e, e = DeleteMeta(dir, ino)
  PROVE  /\ e \in Metadata /\ e.free_inodes = mem.free_inodes + 1
         /\ \A i \in Inodes : /\ e.type[i] = IF i = ino THEN "free" ELSE mem.type[i]
                              /\ e.size[i] = IF i = dir THEN mem.size[dir] - 1
                                             ELSE IF i = ino THEN 0 ELSE mem.size[i]
                              /\ i # ino => e.blocks[i] = mem.blocks[i]
         /\ \A k \in Slots : e.blocks[ino][k] = 0
         /\ GivenBack(e, ino)
<1>t. /\ mem.type \in [Inodes -> {"free", "file", "dir"}]
      /\ mem.size \in [Inodes -> 0 .. SLOTS * PER_BLOCK]
      /\ mem.blocks \in [Inodes -> [Slots -> Blocks \cup {0}]]
      /\ mem.bitmap \in [Blocks -> {0, 1}]
      /\ mem.free_blocks \in 0 .. BLOCKS /\ mem.free_inodes \in 0 .. MAX_COUNT
  BY MetaFields
<1>1. PICK own : own = OwnBlocks(ino) \ {0}
  OBVIOUS
<1>2. PICK x \in Nat : /\ x = Cardinality({k \in Slots : mem.blocks[ino][k] # 0})
                       /\ x = Cardinality(own) /\ mem.free_blocks + x \in 0 .. BLOCKS
  <2>1. /\ IsFiniteSet(own) /\ own \subseteq Held(mem)
        /\ Cardinality(own) = Cardinality({k \in Slots : mem.blocks[ino][k] # 0})
    BY <1>1, OwnCounted
  <2>2. /\ Cardinality(own) \in Nat /\ Cardinality(Held(mem)) \in Nat
        /\ Cardinality(own) <= Cardinality(Held(mem))
    BY <2>1, CountsTyped, FS_CardinalityType, FS_Subset
  <2>3. mem.free_blocks + Cardinality(Held(mem)) <= BLOCKS
    BY DEF Counted
  <2>4. BLOCKS \in Nat
    BY Sizes
  <2>5. PICK y \in Nat : y = mem.free_blocks
    BY <1>t
  <2>6. y + Cardinality(own) \in 0 .. BLOCKS
    BY <2>2, <2>3, <2>4, <2>5
  <2>. QED
    BY <2>1, <2>2, <2>5, <2>6
<1>3. PICK n \in 0 .. SLOTS * PER_BLOCK : n = mem.size[dir] - 1
  <2>1. PICK y \in 0 .. SLOTS * PER_BLOCK : y = mem.size[dir]
    BY <1>t
  <2>2. y # 0 /\ SLOTS * PER_BLOCK \in Nat
    BY <2>1, RoomForFiles
  <2>3. y - 1 \in 0 .. SLOTS * PER_BLOCK
    BY <2>2
  <2>. QED
    BY <2>1, <2>3
<1>4. PICK f \in 0 .. MAX_COUNT : f = mem.free_inodes + 1
  <2>1. PICK y \in 0 .. MAX_COUNT : y = mem.free_inodes
    BY <1>t
  <2>2. y + 1 \in 0 .. MAX_COUNT
    BY <2>1, Sizes
  <2>. QED
    BY <2>1, <2>2
<1>5. PICK B \in [Blocks -> {0, 1}] :
        /\ B = Bitmap(own)
        /\ \A b \in Blocks : B[b] = IF b \in own THEN 0 ELSE mem.bitmap[b]
  <2>1. /\ Bitmap(own) \in [Blocks -> {0, 1}]
        /\ \A b \in Blocks : Bitmap(own)[b] = IF b \in own THEN 0 ELSE mem.bitmap[b]
    BY <1>t DEF Bitmap
  <2>. QED
    BY <2>1
<1>6. 0 \in 0 .. SLOTS * PER_BLOCK /\ NoBlocks \in [Slots -> Blocks \cup {0}]
  <2>1. \A a \in Nat : 0 \in 0 .. a
    OBVIOUS
  <2>. QED
    BY <2>1, RoomForFiles DEF NoBlocks
<1>7. /\ [mem.type EXCEPT ![ino] = "free"] \in [Inodes -> {"free", "file", "dir"}]
      /\ [[mem.size EXCEPT ![ino] = 0] EXCEPT ![dir] = n] \in [Inodes -> 0 .. SLOTS * PER_BLOCK]
      /\ [mem.blocks EXCEPT ![ino] = NoBlocks] \in [Inodes -> [Slots -> Blocks \cup {0}]]
  BY <1>6, <1>t
<1>. DEFINE q == [mem EXCEPT !.type[ino] = "free", !.size[ino] = 0, !.blocks[ino] = NoBlocks,
                             !.bitmap = B, !.free_blocks = mem.free_blocks + x,
                             !.free_inodes = f]
            r == [q EXCEPT !.size[dir] = n]
<1>8. /\ r \in Metadata /\ r.bitmap = B /\ r.free_blocks = mem.free_blocks + x
      /\ r.free_inodes = f /\ r.type = [mem.type EXCEPT ![ino] = "free"]
      /\ r.size = [[mem.size EXCEPT ![ino] = 0] EXCEPT ![dir] = n]
      /\ r.blocks = [mem.blocks EXCEPT ![ino] = NoBlocks]
  BY <1>2, <1>7 DEF Metadata
<1>9. e = r
  <2>1. Freed(ino) = q
    BY <1>1, <1>2, <1>4, <1>5, Zenon DEF Freed, OwnBlocks
  <2>. HIDE DEF q
  <2>. QED
    BY <1>3, <2>1, Zenon DEF DeleteMeta, Shrunk
<1>. HIDE DEF q, r
<1>10. \A i \in Inodes :
         /\ r.type[i] = IF i = ino THEN "free" ELSE mem.type[i]
         /\ r.size[i] = IF i = dir THEN n ELSE IF i = ino THEN 0 ELSE mem.size[i]
         /\ i # ino => r.blocks[i] = mem.blocks[i]
  BY <1>8, <1>t
<1>11. \A k \in Slots : r.blocks[ino][k] = 0
  BY <1>8, <1>t DEF NoBlocks
<1>12. GivenBack(r, ino)
  <2>1. 0 \notin Blocks
    BY Sizes DEF Blocks
  <2>. QED
    BY <1>1, <1>2, <1>5, <1>8, <2>1 DEF GivenBack
<1>. QED
  BY <1>3, <1>4, <1>8, <1>9, <1>10, <1>11, <1>12

\* What pafs_remove_entry writes, and the blocks D it leaves.
Removed(R, D, dir, p, last) ==
  /\ R \in Seq(Writes) /\ D \in [Blocks -> Contents]
  /\ \A n \in In(R) : /\ R[n].to = "data"
                       /\ \/ R[n].block = mem.blocks[dir][p[1]]
                          \/ R[n].block = mem.blocks[dir][last[1]]
  /\ BlocksReach(R, D, Blocks)
  /\ \A b \in Blocks : D[b] # data[b] =>
       b = mem.blocks[dir][p[1]] \/ b = mem.blocks[dir][last[1]]
  /\ \A c \in Cells : D[mem.blocks[dir][last[1]]][c] =
       IF c = last[2] THEN Empty ELSE data[mem.blocks[dir][last[1]]][c]
  /\ mem.blocks[dir][p[1]] # mem.blocks[dir][last[1]] =>
       \A c \in Cells : D[mem.blocks[dir][p[1]]][c] =
         IF c = p[2] THEN Entry(mem, data, dir, last) ELSE data[mem.blocks[dir][p[1]]][c]

\* pafs_remove_entry only changes cells of the blocks of its two entries.
LEMMA RemoveSaves ==
  ASSUME mem \in Metadata, data \in [Blocks -> Contents], NEW dir \in Inodes,
         NEW p \in Places, NEW last, last \in Places, last = LastPlace(dir),
         mem.blocks[dir][p[1]] # 0, mem.blocks[dir][last[1]] # 0
  PROVE  \E D : Removed(RemoveWrites(dir, p), D, dir, p, last)
<1>p. p[1] \in Slots /\ p[2] \in Cells /\ last[1] \in Slots /\ last[2] \in Cells
  BY DEF Places
<1>1. PICK tb \in Blocks, lb \in Blocks :
        tb = mem.blocks[dir][p[1]] /\ lb = mem.blocks[dir][last[1]]
  BY <1>p, MetaFields
<1>2. PICK moved \in Cell : moved = data[lb][last[2]] /\ moved = Entry(mem, data, dir, last)
  <2>1. data[lb][last[2]] \in Cell
    BY <1>p DEF Contents
  <2>2. data[lb][last[2]] = Entry(mem, data, dir, last)
    BY <1>1 DEF Entry
  <2>. QED
    BY <2>1, <2>2
<1>3. PICK xc \in Contents : /\ xc = [data[tb] EXCEPT ![p[2]] = moved]
                             /\ \A c \in Cells : xc[c] = IF c = p[2] THEN moved ELSE data[tb][c]
  <2>1. data[tb] \in [Cells -> Cell]
    BY DEF Contents
  <2>2. /\ [data[tb] EXCEPT ![p[2]] = moved] \in [Cells -> Cell]
        /\ \A c \in Cells : [data[tb] EXCEPT ![p[2]] = moved][c] =
                              IF c = p[2] THEN moved ELSE data[tb][c]
    BY <1>p, <2>1
  <2>. QED
    BY <2>2 DEF Contents
<1>4. PICK yc \in Contents : /\ yc = [data[lb] EXCEPT ![last[2]] = Empty]
                             /\ \A c \in Cells : yc[c] = IF c = last[2] THEN Empty ELSE data[lb][c]
  <2>0. 0 \in Inodes
    BY Sizes DEF Inodes
  <2>1. data[lb] \in [Cells -> Cell] /\ Empty \in Cell
    BY <2>0 DEF Contents, Cell, Empty
  <2>2. /\ [data[lb] EXCEPT ![last[2]] = Empty] \in [Cells -> Cell]
        /\ \A c \in Cells : [data[lb] EXCEPT ![last[2]] = Empty][c] =
                              IF c = last[2] THEN Empty ELSE data[lb][c]
    BY <1>p, <2>1
  <2>. QED
    BY <2>2 DEF Contents
<1>5. PICK x \in Writes, y \in Writes :
        /\ x = WriteData(tb, xc) /\ y = WriteData(lb, yc) /\ x.to = "data" /\ y.to = "data"
        /\ x.block = tb /\ y.block = lb
  BY WriteTypes
<1>6. /\ p = last => RemoveWrites(dir, p) = <<>> \o <<y>>
      /\ p # last => RemoveWrites(dir, p) = <<x>> \o <<y>>
  <2>1. RemoveWrites(dir, p) =
          (IF p # last THEN <<WriteData(tb, [data[tb] EXCEPT ![p[2]] = data[lb][last[2]]])>>
                       ELSE <<>>)
          \o <<WriteData(lb, [data[lb] EXCEPT ![last[2]] = Empty])>>
    BY <1>1, Zenon DEF RemoveWrites
  <2>. QED
    BY <1>2, <1>3, <1>4, <1>5, <2>1
<1>7. Saves(mem, <<>>, data, Blocks)
  BY NoSaves
<1>8. CASE p = last
  <2>1. PICK D : D = [data EXCEPT ![lb] = yc]
    OBVIOUS
  <2>2. Saves(mem, <<>> \o <<y>>, D, Blocks)
    BY <1>5, <1>7, <2>1, DataSaves
  <2>3. D \in [Blocks -> Contents] /\ D[lb] = yc /\ \A b \in Blocks : b # lb => D[b] = data[b]
    BY <2>1
  <2>4. tb = lb
    BY <1>1, <1>8
  <2>5. PICK R \in Seq(Writes) :
          R = <<>> \o <<y>> /\ \A n \in In(R) : R[n].to = "data" /\ R[n].block = lb
    <3>1. <<>> \o <<y>> = <<y>>
      <4>1. <<y>> \in Seq(Writes)
        OBVIOUS
      <4>. QED
        BY <4>1, ConcatEmptySeq
    <3>2. <<y>> \in Seq(Writes) /\ In(<<y>>) = {1} /\ <<y>>[1] = y
      BY DEF In
    <3>. QED
      BY <1>5, <3>1, <3>2
  <2>6. BlocksReach(R, D, Blocks)
    BY <2>2, <2>5 DEF Saves
  <2>7. Removed(R, D, dir, p, last)
    <3>1. \A c \in Cells : D[lb][c] = IF c = last[2] THEN Empty ELSE data[lb][c]
      BY <1>4, <2>3
    <3>2. \A b \in Blocks : D[b] # data[b] => b = tb \/ b = lb
      BY <2>3
    <3>3. R \in Seq(Writes) /\ \A n \in In(R) : R[n].to = "data" /\ R[n].block = lb
      BY <2>5
    <3>. QED
      BY <1>1, <2>3, <2>4, <2>6, <3>1, <3>2, <3>3 DEF Removed
  <2>. QED
    BY <1>6, <1>8, <2>5, <2>7
<1>9. CASE p # last
  <2>1. PICK E : E = [data EXCEPT ![tb] = xc]
    OBVIOUS
  <2>2. Saves(mem, <<>> \o <<x>>, E, Blocks)
    BY <1>5, <1>7, <2>1, DataSaves
  <2>3. <<>> \o <<x>> = <<x>>
    <3>1. <<x>> \in Seq(Writes)
      OBVIOUS
    <3>. QED
      BY <3>1, ConcatEmptySeq
  <2>4. PICK D : D = [E EXCEPT ![lb] = yc]
    OBVIOUS
  <2>5. Saves(mem, <<x>> \o <<y>>, D, Blocks)
    <3>1. Saves(mem, <<x>>, E, Blocks)
      BY <2>2, <2>3
    <3>. QED
      BY <1>5, <2>4, <3>1, DataSaves
  <2>6. /\ D \in [Blocks -> Contents] /\ D[lb] = yc
        /\ \A b \in Blocks : b # lb /\ b # tb => D[b] = data[b]
        /\ tb # lb => D[tb] = xc
    BY <2>1, <2>4
  <2>7. PICK R \in Seq(Writes) :
          /\ R = <<x>> \o <<y>>
          /\ \A n \in In(R) : R[n].to = "data" /\ (R[n].block = tb \/ R[n].block = lb)
    <3>1. PICK X \in Seq(Writes), Y \in Seq(Writes) :
            X = <<x>> /\ Y = <<y>> /\ Len(X) = 1 /\ Len(Y) = 1 /\ X[1] = x /\ Y[1] = y
      <4>1. /\ <<x>> \in Seq(Writes) /\ <<y>> \in Seq(Writes) /\ Len(<<x>>) = 1
            /\ Len(<<y>>) = 1 /\ <<x>>[1] = x /\ <<y>>[1] = y
        OBVIOUS
      <4>. QED
        BY <4>1
    <3>2. /\ X \o Y \in Seq(Writes)
          /\ \A n \in 1 .. Len(X) : n \in 1 .. Len(X \o Y) /\ (X \o Y)[n] = X[n]
          /\ \A n \in 1 .. Len(Y) : Len(X) + n \in 1 .. Len(X \o Y) /\ (X \o Y)[Len(X) + n] = Y[n]
          /\ \A n \in 1 .. Len(X \o Y) :
               \/ n \in 1 .. Len(X)
               \/ \E k \in 1 .. Len(Y) : n = Len(X) + k
      BY Joined
    <3>3. ASSUME NEW n \in In(X \o Y)
          PROVE  /\ (X \o Y)[n].to = "data"
                 /\ (X \o Y)[n].block = tb \/ (X \o Y)[n].block = lb
      <4>1. CASE n \in 1 .. Len(X)
        <5>1. (X \o Y)[n] = X[n] /\ n = 1
          BY <3>1, <3>2, <4>1
        <5>. QED
          BY <1>5, <3>1, <5>1
      <4>2. CASE \E k \in 1 .. Len(Y) : n = Len(X) + k
        <5>1. PICK k \in 1 .. Len(Y) : n = Len(X) + k
          BY <4>2
        <5>2. (X \o Y)[n] = Y[k] /\ k = 1
          BY <3>1, <3>2, <5>1
        <5>. QED
          BY <1>5, <3>1, <5>2
      <4>. QED
        BY <3>2, <4>1, <4>2 DEF In
    <3>. QED
      BY <3>1, <3>2, <3>3
  <2>8. BlocksReach(R, D, Blocks)
    BY <2>5, <2>7 DEF Saves
  <2>9. Removed(R, D, dir, p, last)
    <3>1. tb # lb => \A c \in Cells :
            D[tb][c] = IF c = p[2] THEN Entry(mem, data, dir, last) ELSE data[tb][c]
      BY <1>2, <1>3, <2>6
    <3>2. \A c \in Cells : D[lb][c] = IF c = last[2] THEN Empty ELSE data[lb][c]
      BY <1>4, <2>6
    <3>3. \A b \in Blocks : D[b] # data[b] => b = tb \/ b = lb
      BY <2>6
    <3>. QED
      BY <1>1, <2>6, <2>7, <2>8, <3>1, <3>2, <3>3 DEF Removed
  <2>. QED
    BY <1>6, <1>9, <2>7, <2>9
<1>. QED
  BY <1>8, <1>9

\* The saves that end pafs_delete.
DeleteSaves(t, e, dir, ino) ==
  /\ t \in Seq(Writes) /\ Len(t) = 4
  /\ t[1] = WriteInode(e, dir) /\ t[2] = WriteSuper(e)
  /\ t[3] = WriteBitmap(e) /\ t[4] = WriteInode(e, ino)

\* A step of pafs_delete that leaves memory as e, with the writes R and t to come.
DeleteStep(e, D, dir, p, last, ino, R, t) ==
  /\ Deleted(e, D, dir, p, last, ino) /\ Removed(R, D, dir, p, last)
  /\ DeleteSaves(t, e, dir, ino) /\ Parts(pending', R, t)
  /\ mem' = e /\ disk' = disk /\ data' = data

\* With them everything that delete changed reaches the disk.
LEMMA DeleteArrives ==
  ASSUME Sound, Idle, NEW e, NEW D, NEW dir, NEW p, NEW last, NEW ino, NEW R, NEW t,
         DeleteStep(e, D, dir, p, last, ino, R, t)
  PROVE  /\ pending' \in Seq(Writes) /\ pending' # <<>>
         /\ MetaArrives' /\ DataArrives(D)'
         /\ InodesSaved'
         /\ \A n \in Coming' : pending'[n].to = "bitmap" => n + 1 = Len(pending')
         /\ \A n \in Coming' : pending'[n].to = "data" => n \in In(R) /\ pending'[n] = R[n]
<1>s. /\ Deleted(e, D, dir, p, last, ino) /\ Removed(R, D, dir, p, last)
      /\ DeleteSaves(t, e, dir, ino) /\ Parts(pending', R, t)
  BY DEF DeleteStep
<1>v. mem' = e /\ disk' = disk /\ data' = data
  BY DEF DeleteStep
<1>f. /\ mem \in Metadata /\ disk \in Metadata
      /\ disk.type = mem.type /\ disk.size = mem.size /\ disk.blocks = mem.blocks
  BY IdleFacts
<1>c. /\ e \in Metadata /\ dir \in Inodes /\ ino \in Inodes
      /\ \A i \in Inodes \ {dir, ino} : /\ e.type[i] = mem.type[i] /\ e.size[i] = mem.size[i]
                                        /\ e.blocks[i] = mem.blocks[i]
  BY <1>s DEF Deleted
<1>1. /\ In(t) = {1, 2, 3, 4}
      /\ t[1].to = "inodes" /\ t[1].type = e.type /\ t[1].size = e.size /\ t[1].blocks = e.blocks
      /\ t[1].sector = dir \div PER_SECTOR
      /\ t[2].to = "super" /\ t[2].free_blocks = e.free_blocks /\ t[2].free_inodes = e.free_inodes
      /\ t[3].to = "bitmap" /\ t[3].bitmap = e.bitmap
      /\ t[4].to = "inodes" /\ t[4].type = e.type /\ t[4].size = e.size /\ t[4].blocks = e.blocks
      /\ t[4].sector = ino \div PER_SECTOR
  BY <1>s DEF DeleteSaves, In, WriteInode, WriteSuper, WriteBitmap
<1>2. /\ pending' \in Seq(Writes) /\ Len(R) \in Nat
      /\ \A n \in In(R) : n \in Coming' /\ pending'[n] = R[n] /\ pending'[n].to = "data"
      /\ \A n \in In(t) : Len(R) + n \in Coming' /\ pending'[Len(R) + n] = t[n]
      /\ \A n \in Coming' : n \in In(R) \/ \E k \in In(t) : n = Len(R) + k
      /\ \A n \in Coming' : n \in Nat
  BY <1>s DEF Parts, Coming, In, Removed
<1>3. \A n \in Coming' :
        /\ pending'[n].to = "inodes" =>
             /\ pending'[n].type = e.type /\ pending'[n].size = e.size
             /\ pending'[n].blocks = e.blocks
        /\ pending'[n].to = "super" =>
             pending'[n].free_blocks = e.free_blocks /\ pending'[n].free_inodes = e.free_inodes
        /\ pending'[n].to = "bitmap" => pending'[n].bitmap = e.bitmap
        /\ pending'[n].to = "data" => n \in In(R)
  <2>1. SUFFICES ASSUME NEW n \in Coming'
                 PROVE  /\ pending'[n].to = "inodes" =>
                             /\ pending'[n].type = e.type /\ pending'[n].size = e.size
                             /\ pending'[n].blocks = e.blocks
                        /\ pending'[n].to = "super" =>
                             /\ pending'[n].free_blocks = e.free_blocks
                             /\ pending'[n].free_inodes = e.free_inodes
                        /\ pending'[n].to = "bitmap" => pending'[n].bitmap = e.bitmap
                        /\ pending'[n].to = "data" => n \in In(R)
    OBVIOUS
  <2>2. CASE n \in In(R)
    BY <1>2, <2>2
  <2>3. CASE \E k \in In(t) : n = Len(R) + k
    <3>1. PICK k \in In(t) : n = Len(R) + k
      BY <2>3
    <3>2. pending'[n] = t[k] /\ k \in {1, 2, 3, 4}
      BY <1>1, <1>2, <3>1
    <3>. QED
      BY <1>1, <3>2
  <2>. QED
    BY <1>2, <2>2, <2>3
<1>4. PICK a \in Coming', b \in Coming', c \in Coming', d \in Coming' :
        /\ pending'[a].to = "inodes" /\ pending'[a].sector = dir \div PER_SECTOR
        /\ pending'[b].to = "super" /\ pending'[c].to = "bitmap"
        /\ pending'[d].to = "inodes" /\ pending'[d].sector = ino \div PER_SECTOR
  <2>1. /\ Len(R) + 1 \in Coming' /\ pending'[Len(R) + 1] = t[1]
        /\ Len(R) + 2 \in Coming' /\ pending'[Len(R) + 2] = t[2]
        /\ Len(R) + 3 \in Coming' /\ pending'[Len(R) + 3] = t[3]
        /\ Len(R) + 4 \in Coming' /\ pending'[Len(R) + 4] = t[4]
    BY <1>1, <1>2
  <2>. QED
    BY <1>1, <2>1
<1>5. MetaArrives'
  <2>1. ASSUME NEW i \in Inodes, \A n \in Coming' :
                 pending'[n].to = "inodes" => pending'[n].sector # i \div PER_SECTOR
        PROVE  disk.type[i] = e.type[i] /\ disk.size[i] = e.size[i] /\ disk.blocks[i] = e.blocks[i]
    <3>1. i # dir /\ i # ino
      BY <1>4, <2>1
    <3>. QED
      BY <1>c, <1>f, <3>1
  <2>. QED
    BY <1>3, <1>4, <1>v, <2>1 DEF MetaArrives
<1>6. DataArrives(D)'
  <2>1. ASSUME NEW x \in Blocks,
               \A n \in Coming' : ~(pending'[n].to = "data" /\ pending'[n].block = x)
        PROVE  D[x] = data[x]
    <3>1. \A n \in In(R) : ~(R[n].to = "data" /\ R[n].block = x)
      BY <1>2, <2>1
    <3>. QED
      BY <1>s, <3>1 DEF Removed, BlocksReach
  <2>2. ASSUME NEW n \in Coming', pending'[n].to = "data"
        PROVE  \/ D[pending'[n].block] = pending'[n].cells
               \/ \E k \in Coming' : /\ k > n /\ pending'[k].to = "data"
                                     /\ pending'[k].block = pending'[n].block
    <3>1. n \in In(R) /\ pending'[n] = R[n] /\ R[n].to = "data"
      BY <1>2, <1>3, <2>2
    <3>2. \/ D[R[n].block] = R[n].cells
          \/ \E k \in In(R) : k > n /\ R[k].to = "data" /\ R[k].block = R[n].block
      BY <1>s, <3>1 DEF Removed, BlocksReach
    <3>. QED
      BY <1>2, <3>1, <3>2
  <2>. QED
    BY <1>v, <2>1, <2>2 DEF DataArrives, ToBlock
<1>7. InodesSaved'
  <2>1. e.free_inodes \in Nat
    BY <1>c, MetaFields, Sizes
  <2>2. \A n \in Coming' : pending'[n].to = "super" => pending'[n].free_inodes >= mem'.free_inodes
    BY <1>3, <1>v, <2>1
  <2>. QED
    BY <1>4, <2>2 DEF InodesSaved
<1>9. ASSUME NEW n \in Coming', pending'[n].to = "bitmap" PROVE n + 1 = Len(pending')
  <2>1. n \notin In(R)
    BY <1>2, <1>9
  <2>2. PICK k \in In(t) : n = Len(R) + k
    BY <1>2, <2>1
  <2>3. k = 3
    <3>1. pending'[n] = t[k] /\ k \in {1, 2, 3, 4}
      BY <1>1, <1>2, <2>2
    <3>. QED
      BY <1>1, <1>9, <3>1
  <2>4. Len(pending') = Len(R) + 4
    <3>1. Len(pending') \in Nat /\ 1 .. Len(pending') = 1 .. Len(R) + Len(t) /\ Len(t) = 4
      BY <1>s DEF Parts, DeleteSaves, In
    <3>2. Len(R) + 4 \in Nat /\ 1 .. Len(pending') = 1 .. Len(R) + 4
      BY <1>2, <3>1
    <3>3. \A x, y \in Nat : 1 .. x = 1 .. y => x = y
      <4>1. SUFFICES ASSUME NEW x \in Nat, NEW y \in Nat, 1 .. x = 1 .. y PROVE x = y
        OBVIOUS
      <4>2. \A n1 \in Nat : n1 \in 1 .. x <=> n1 \in 1 .. y
        BY <4>1
      <4>3. x # 0 => x <= y
        BY <4>2
      <4>4. y # 0 => y <= x
        BY <4>2
      <4>. QED
        BY <4>3, <4>4
    <3>. QED
      BY <3>1, <3>2, <3>3
  <2>. QED
    BY <1>2, <2>2, <2>3, <2>4
<1>8. pending' # <<>>
  BY <1>4 DEF Coming
<1>. QED
  BY <1>2, <1>3, <1>5, <1>6, <1>7, <1>8, <1>9

\* pafs_delete keeps the invariant.
LEMMA DeleteInv ==
  ASSUME Sound, NEW dir \in Inodes, NEW name \in Names, pafs_delete(dir, name)
  PROVE  Sound'
<1>g. /\ Idle /\ Matches(dir, name) # {} /\ mem.free_inodes < MAX_COUNT
  BY DEF pafs_delete
<1>f. /\ mem \in Metadata /\ disk \in Metadata /\ data \in [Blocks -> Contents]
      /\ DirsSound(mem, data) /\ Keeps(mem, data, written)
      /\ disk.type = mem.type /\ disk.size = mem.size /\ disk.blocks = mem.blocks
  BY <1>g, IdleFacts
<1>e. /\ Exclusive(mem) /\ Counted(mem) /\ written \in [Inodes -> [Slots -> Values \cup {0}]]
      /\ failed \in 0 .. 2
      /\ failed = 0 => mem.free_inodes >= Cardinality(FreeInodes(mem)) /\ Exact(mem)
  BY DEF Sound, Typed, InodesCounted
<1>1. PICK p \in Matches(dir, name) : p = FirstOf(Matches(dir, name))
  <2>1. Matches(dir, name) \subseteq Places
    BY DEF Matches
  <2>. QED
    BY <1>g, <2>1, FirstOfIn
<1>2. /\ p \in Places /\ p[1] \in Slots /\ p[2] \in Cells
      /\ mem.type[dir] = "dir" /\ mem.size[dir] # 0
      /\ EntryAt(dir, p).inode # 0 /\ mem.blocks[dir][p[1]] # 0
  <2>1. /\ p \in Places /\ mem.type[dir] = "dir" /\ mem.size[dir] # 0
        /\ EntryAt(dir, p).inode # 0 /\ \A k \in 1 .. p[1] : mem.blocks[dir][k] # 0
    BY DEF Matches
  <2>2. p[1] \in Slots /\ p[2] \in Cells
    BY <2>1 DEF Places
  <2>3. p[1] \in 1 .. p[1]
    BY <2>2, Sizes DEF Slots
  <2>. QED
    BY <2>1, <2>2, <2>3
<1>3. PICK last \in Places : /\ last = LastPlace(dir) /\ last = At(mem.size[dir] - 1)
                             /\ mem.blocks[dir][last[1]] # 0
  <2>1. mem.size[dir] \in 0 .. SLOTS * PER_BLOCK /\ SLOTS * PER_BLOCK \in Nat
    BY <1>f, MetaFields, RoomForFiles
  <2>2. PICK z \in Indexes : z = mem.size[dir] - 1 /\ z < mem.size[dir]
    <3>1. mem.size[dir] # 0
      BY <1>2
    <3>2. mem.size[dir] - 1 \in Indexes /\ mem.size[dir] - 1 < mem.size[dir]
      BY <2>1, <3>1, Sizes DEF Indexes
    <3>. QED
      BY <3>2
  <2>3. At(z) \in Places /\ At(z) = LastPlace(dir)
    BY <2>2, AtPlace DEF At, LastPlace
  <2>4. Entry(mem, data, dir, At(z)).inode # 0
    BY <1>2, <1>f, <2>2 DEF DirsSound, DirSound
  <2>5. mem.blocks[dir][At(z)[1]] # 0
    BY <2>4 DEF Entry, Empty
  <2>. QED
    BY <2>2, <2>3, <2>5
<1>4. PICK ino \in Inodes : ino = EntryAt(dir, p).inode
  <2>1. EntryAt(dir, p) = data[mem.blocks[dir][p[1]]][p[2]]
    BY <1>2 DEF EntryAt
  <2>2. IsEntry(data[mem.blocks[dir][p[1]]][p[2]])
    BY <1>2, <1>f DEF DirsSound, DirSound
  <2>. QED
    BY <2>1, <2>2 DEF IsEntry
<1>5. ino # dir /\ ino # Root
  <2>1. Deletable(ino)
    BY <1>1, <1>4 DEF pafs_delete
  <2>2. ino # dir
    BY <1>2, <2>1 DEF Deletable
  <2>. QED
    BY <1>2, <1>4, <2>2 DEF Root
<1>6. PICK e : e = DeleteMeta(dir, ino)
  OBVIOUS
<1>7. /\ e \in Metadata /\ e.free_inodes = mem.free_inodes + 1
      /\ \A i \in Inodes : /\ e.type[i] = IF i = ino THEN "free" ELSE mem.type[i]
                           /\ e.size[i] = IF i = dir THEN mem.size[dir] - 1
                                          ELSE IF i = ino THEN 0 ELSE mem.size[i]
                           /\ i # ino => e.blocks[i] = mem.blocks[i]
      /\ \A k \in Slots : e.blocks[ino][k] = 0
      /\ GivenBack(e, ino)
  BY <1>2, <1>5, <1>6, <1>e, <1>f, <1>g, FreedFields
<1>8. PICK R, t : /\ R = RemoveWrites(dir, p)
                  /\ t = <<WriteInode(e, dir), WriteSuper(e), WriteBitmap(e), WriteInode(e, ino)>>
  OBVIOUS
<1>u. /\ mem' = e /\ disk' = disk /\ data' = data /\ failed' = failed
      /\ op' = [kind |-> "delete", ino |-> ino]
      /\ pending' = R \o t
      /\ written' = [written EXCEPT ![ino] = NoBlocks]
  <2>1. /\ Begin("delete", ino, e, R \o <<WriteInode(e, dir), WriteSuper(e), WriteBitmap(e),
                                         WriteInode(e, ino)>>)
        /\ written' = [written EXCEPT ![ino] = NoBlocks]
        /\ UNCHANGED failed
    BY <1>1, <1>4, <1>6, <1>8, Zenon DEF pafs_delete, DeleteMeta
  <2>. QED
    BY <1>8, <2>1, Zenon DEF Begin
<1>9. PICK D : Removed(R, D, dir, p, last)
  BY <1>2, <1>3, <1>8, <1>f, RemoveSaves
<1>10. Deleted(e, D, dir, p, last, ino)
  <2>1. Entry(mem, data, dir, p).inode # 0
    BY <1>2 DEF Entry, EntryAt
  <2>. QED
    BY <1>2, <1>3, <1>5, <1>7, <1>9, <2>1 DEF Deleted, Removed
<1>11. DeleteSaves(t, e, dir, ino)
  <2>1. dir \in Nat /\ ino \in Nat
    BY Sizes DEF Inodes
  <2>2. /\ WriteInode(e, dir) \in Writes /\ WriteSuper(e) \in Writes
        /\ WriteBitmap(e) \in Writes /\ WriteInode(e, ino) \in Writes
    BY <1>7, <2>1, WriteTypes
  <2>3. \A x, y, z, u \in Writes : LET s == <<x, y, z, u>> IN
          s \in Seq(Writes) /\ Len(s) = 4 /\ s[1] = x /\ s[2] = y /\ s[3] = z /\ s[4] = u
    OBVIOUS
  <2>. QED
    BY <1>8, <2>2, <2>3 DEF DeleteSaves
<1>12. Parts(pending', R, t)
  BY <1>9, <1>11, <1>u, JoinedParts DEF Removed, DeleteSaves
<1>13. /\ pending' \in Seq(Writes) /\ pending' # <<>>
       /\ MetaArrives' /\ DataArrives(D)'
       /\ InodesSaved'
       /\ \A n \in Coming' : pending'[n].to = "bitmap" => n + 1 = Len(pending')
       /\ \A n \in Coming' : pending'[n].to = "data" => n \in In(R) /\ pending'[n] = R[n]
  <2>1. DeleteStep(e, D, dir, p, last, ino, R, t)
    BY <1>9, <1>10, <1>11, <1>12, <1>u DEF DeleteStep
  <2>. QED
    BY <1>g, <2>1, DeleteArrives
<1>14. Exclusive(e) /\ Counted(e) /\ (Exact(mem) => Exact(e))
  BY <1>7, <1>10, <1>e, <1>f, DeletedCounts
<1>15. D \in [Blocks -> Contents]
  BY <1>10 DEF Deleted
<1>16. Typed'
  <2>1. NoBlocks \in [Slots -> Values \cup {0}]
    BY DEF NoBlocks
  <2>2. written' \in [Inodes -> [Slots -> Values \cup {0}]]
    BY <1>e, <1>u, <2>1
  <2>. QED
    BY <1>7, <1>e, <1>f, <1>u, <1>13, <2>2 DEF Typed
<1>17. InProgress' /\ op'.kind \notin {"create", "write"}
  <2>1. op'.kind = "delete" /\ op' # NoOp
    BY <1>u DEF NoOp
  <2>. QED
    BY <1>u, <1>13, <2>1 DEF InProgress
<1>18. MemorySound(D)'
  <2>1. DirsSound(e, D)
    BY <1>10, <1>g, DeletedDirs
  <2>2. failed = 0 => Listed(e, D)
    BY <1>10, <1>g, DeletedListed
  <2>3. Keeps(e, D, [written EXCEPT ![ino] = NoBlocks])
    BY <1>10, <1>g, DeletedKeeps
  <2>4. Keeps(e, D, written')
    BY <1>u, <2>3
  <2>. QED
    BY <1>13, <1>u, <2>1, <2>2, <2>4 DEF MemorySound
<1>19. failed' = 0 => Exact(mem') /\ InodesCounted'
  <2>1. SUFFICES ASSUME failed = 0 PROVE Exact(e) /\ InodesCounted'
    BY <1>u
  <2>2. FreeInodes(e) = FreeInodes(mem) \cup {ino}
    BY <1>7 DEF FreeInodes
  <2>3. IsFiniteSet(FreeInodes(mem)) /\ Cardinality(FreeInodes(mem)) \in Nat
    BY CountsTyped
  <2>4. Cardinality(FreeInodes(e)) <= Cardinality(FreeInodes(mem)) + 1
    <3>1. CASE ino \in FreeInodes(mem)
      <4>1. FreeInodes(e) = FreeInodes(mem)
        BY <2>2, <3>1
      <4>. QED
        BY <2>3, <4>1
    <3>2. CASE ino \notin FreeInodes(mem)
      <4>1. Cardinality(FreeInodes(e)) = Cardinality(FreeInodes(mem)) + 1
        BY <2>2, <2>3, <3>2, FS_AddElement
      <4>. QED
        BY <2>3, <4>1
    <3>. QED
      BY <3>1, <3>2
  <2>5. mem.free_inodes \in Nat /\ Cardinality(FreeInodes(e)) \in Nat
    BY <1>f, CountsTyped, MetaFields
  <2>6. e.free_inodes >= Cardinality(FreeInodes(e))
    BY <1>7, <1>e, <2>1, <2>3, <2>4, <2>5
  <2>. QED
    BY <1>14, <1>e, <1>u, <2>1, <2>6 DEF InodesCounted
<1>20. DiskAhead'
  <2>1. Exclusive(disk)
    BY <1>g, IdleDisk
  <2>2. \A i \in Inodes, k \in Slots : e.blocks[i][k] \in {0, disk.blocks[i][k]}
    BY <1>7, <1>f
  <2>. QED
    BY <1>13, <1>u, <2>1, <2>2 DEF DiskAhead
<1>21. FilesOnDisk'
  <2>1. ASSUME NEW i \in Inodes, NEW k \in Slots, i # ino, written'[i][k] # 0
        PROVE  /\ disk.type[i] = "file" /\ k <= disk.size[i]
               /\ disk.blocks[i][k] = e.blocks[i][k]
               /\ \A n \in Coming' :
                    ~(pending'[n].to = "data" /\ pending'[n].block = e.blocks[i][k])
    <3>1. written[i][k] # 0
      BY <1>e, <1>u, <2>1
    <3>2. mem.type[i] = "file" /\ k <= mem.size[i] /\ mem.blocks[i][k] # 0
      BY <1>f, <3>1 DEF Keeps
    <3>3. i # dir
      BY <1>2, <3>2
    <3>4. e.blocks[i][k] = mem.blocks[i][k]
      BY <1>7, <2>1
    <3>5. ASSUME NEW l \in Slots PROVE mem.blocks[dir][l] # mem.blocks[i][k]
      BY <1>e, <3>2, <3>3, ZenonT(40) DEF Exclusive
    <3>6. p[1] \in Slots /\ last[1] \in Slots
      BY <1>2, <1>3 DEF Places
    <3>7. \A n \in Coming' : pending'[n].to = "data" =>
            \/ pending'[n].block = mem.blocks[dir][p[1]]
            \/ pending'[n].block = mem.blocks[dir][last[1]]
      BY <1>9, <1>13 DEF Removed
    <3>. QED
      BY <1>f, <3>2, <3>4, <3>5, <3>6, <3>7
  <2>2. op'.ino = ino
    BY <1>u
  <2>3. \A i \in Inodes, k \in Slots : i # ino /\ written'[i][k] # 0 =>
          /\ disk'.type[i] = "file" /\ k <= disk'.size[i]
          /\ disk'.blocks[i][k] = mem'.blocks[i][k]
          /\ \A n \in Coming' : ~ToBlock(n, mem.blocks[i][k])'
    BY <1>u, <2>1 DEF ToBlock
  <2>. QED
    BY <2>2, <2>3 DEF FilesOnDisk
<1>. QED
  BY <1>13, <1>14, <1>15, <1>16, <1>17, <1>18, <1>19, <1>20, <1>21, <1>u DEF Sound

-----------------------------------------------------------------------------
\* Nothing else touches the file system.
LEMMA NextInv == IInv /\ [Next]_vars => IInv'
<1>. SUFFICES ASSUME IInv, [Next]_vars PROVE IInv'
  OBVIOUS
<1>f. /\ Followed => Sound
      /\ ~Followed => Broken
      /\ Typed
      /\ Followed' /\ Sound' => IInv'
  BY DEF IInv, Sound, Broken
<1>1. CASE Next
  <2>1. ASSUME NEW dir \in Inodes, NEW name \in Names, NEW is_dir \in BOOLEAN,
               pafs_create(dir, name, is_dir)
        PROVE  IInv'
    <3>1. Followed /\ failed' = failed
      BY <2>1 DEF pafs_create, Create
    <3>2. Sound'
      BY <1>f, <2>1, <3>1, CreateInv DEF pafs_create
    <3>. QED
      BY <1>f, <3>1, <3>2 DEF Followed
  <2>2. ASSUME NEW name \in Names, pafs_write(name) PROVE IInv'
    <3>1. Root \in Inodes
      BY Sizes DEF Root, Inodes
    <3>2. Create(Root, name, FALSE, 1)
      BY <2>2 DEF pafs_write
    <3>3. Followed /\ failed' = failed
      BY <3>2 DEF Create
    <3>4. Sound'
      BY <1>f, <3>1, <3>2, <3>3, CreateInv
    <3>. QED
      BY <1>f, <3>3, <3>4 DEF Followed
  <2>3. ASSUME NEW dir \in Inodes, NEW name \in Names, pafs_delete(dir, name) PROVE IInv'
    <3>1. Followed /\ failed' = failed
      BY <2>3 DEF pafs_delete
    <3>2. Sound'
      BY <1>f, <2>3, <3>1, DeleteInv
    <3>. QED
      BY <1>f, <3>1, <3>2 DEF Followed
  <2>4. ASSUME NEW ino \in Inodes, NEW offset \in 0 .. SLOTS, NEW count \in 1 .. 2,
               NEW v \in Values, pafs_vfs_write(ino, offset, count, v)
        PROVE  IInv'
    <3>1. Followed /\ failed' = failed
      BY <2>4 DEF pafs_vfs_write
    <3>2. Sound'
      BY <1>f, <2>4, <3>1, WriteInv
    <3>. QED
      BY <1>f, <3>1, <3>2 DEF Followed
  <2>5. CASE pafs_format
    <3>1. failed' = 0
      BY <2>5 DEF pafs_format
    <3>2. Sound'
      BY <1>f, <2>5, FormatInv
    <3>. QED
      BY <1>f, <3>1, <3>2 DEF Followed
  <2>6. CASE flush
    <3>1. Followed
      <4>1. ~Broken
        BY <2>6 DEF flush, Broken, InProgress
      <4>. QED
        BY <1>f, <4>1
    <3>2. Sound'
      BY <1>f, <2>6, <3>1, FlushInv
    <3>3. failed' = failed
      BY <2>6 DEF flush
    <3>. QED
      BY <1>f, <3>1, <3>2, <3>3 DEF Followed
  <2>7. CASE reboot
    BY <2>7, RebootInv
  <2>. QED
    BY <1>1, <2>1, <2>2, <2>3, <2>4, <2>5, <2>6, <2>7 DEF Next
<1>2. CASE UNCHANGED vars
  <2>1. /\ mem' = mem /\ disk' = disk /\ data' = data /\ op' = op /\ pending' = pending
        /\ written' = written /\ failed' = failed
    BY <1>2 DEF vars
  <2>2. Coming' = Coming
    BY <2>1 DEF Coming
  <2>3. CASE Followed
    <3>0. Sound
      BY <1>f, <2>3
    <3>1. Typed' /\ InProgress' /\ MetaArrives' /\ InodesSaved'
      BY <2>1, <2>2, <3>0 DEF Sound, Typed, InProgress, MetaArrives, InodesSaved
    <3>2. Exclusive(mem') /\ Counted(mem') /\ (failed' = 0 => Exact(mem') /\ InodesCounted')
      BY <2>1, <3>0 DEF Sound, InodesCounted
    <3>3. \A D \in [Blocks -> Contents] : MemorySound(D) => MemorySound(D)'
      BY <2>1, <2>2 DEF MemorySound, DataArrives, ToBlock
    <3>4. op'.kind \in {"create", "write"} => DiskSound'
      BY <2>1, <2>2, <3>0
         DEF Sound, DiskSound, DiskBehind, WritesSafe, CountsSafe, CellsSafe, Unmarked, ToBlock
    <3>5. op'.kind = "delete" => DiskAhead'
      BY <2>1, <2>2, <3>0 DEF Sound, DiskAhead
    <3>6. op' # NoOp => FilesOnDisk'
      BY <2>1, <2>2, <3>0 DEF Sound, FilesOnDisk, ToBlock
    <3>7. Sound'
      BY <3>0, <3>1, <3>2, <3>3, <3>4, <3>5, <3>6 DEF Sound
    <3>. QED
      BY <1>f, <2>1, <2>3, <3>7 DEF Followed
  <2>4. CASE ~Followed
    <3>1. Broken
      BY <1>f, <2>4
    <3>2. Broken'
      BY <2>1, <3>1 DEF Broken, Typed, InProgress, Keeps
    <3>. QED
      BY <2>1, <2>4, <3>2 DEF IInv, Followed
  <2>. QED
    BY <2>3, <2>4
<1>. QED
  BY <1>1, <1>2

-----------------------------------------------------------------------------
\* The inductive invariant holds in every reachable state, wherever the power fails: what
\* is in memory is sound with the blocks as the pending sector writes will leave them, and
\* so is the disk as it is while create and write are under way; after a failure inside
\* delete or format the files are where the inodes say.
THEOREM FileSystemSound == Spec => []IInv
<1>1. Init => IInv
  BY InitInv DEF IInv, Followed, Init
<1>2. IInv /\ [Next]_vars => IInv'
  BY NextInv
<1>. QED
  BY <1>1, <1>2, PTL DEF Spec

\* A block has at most one owner, and one only if it is marked.
LEMMA OneOwner ==
  ASSUME NEW m, Exclusive(m), NEW b \in Blocks
  PROVE  /\ Owners(m, b) = {} \/ \E o : Owners(m, b) = {o}
         /\ Owners(m, b) # {} => m.bitmap[b] = 1
         /\ b \in Held(m) => Owners(m, b) # {}
<1>e. b # 0
  BY Sizes DEF Blocks
<1>1. ASSUME NEW o \in Owners(m, b), NEW u \in Owners(m, b) PROVE o = u
  <2>1. PICK i \in Inodes, k \in Slots : o = <<i, k>> /\ m.blocks[i][k] = b
    BY DEF Owners
  <2>2. PICK j \in Inodes, l \in Slots : u = <<j, l>> /\ m.blocks[j][l] = b
    BY DEF Owners
  <2>3. m.blocks[i][k] # 0 /\ m.blocks[i][k] = m.blocks[j][l]
    BY <1>e, <2>1, <2>2
  <2>4. i = j /\ k = l
    BY <2>3, Zenon DEF Exclusive
  <2>. QED
    BY <2>1, <2>2, <2>4
<1>2. ASSUME NEW o \in Owners(m, b) PROVE m.bitmap[b] = 1
  <2>1. PICK i \in Inodes, k \in Slots : m.blocks[i][k] = b
    BY DEF Owners
  <2>. QED
    BY <1>e, <2>1 DEF Exclusive
<1>3. ASSUME b \in Held(m) PROVE Owners(m, b) # {}
  <2>1. PICK i \in Inodes, k \in Slots : m.blocks[i][k] = b
    BY <1>3 DEF Held
  <2>2. m.type[i] # "free"
    BY <1>e, <2>1 DEF Exclusive
  <2>3. <<i, k>> \in Inodes \X Slots /\ <<i, k>>[1] = i /\ <<i, k>>[2] = k
    OBVIOUS
  <2>4. <<i, k>> \in Owners(m, b)
    BY <2>1, <2>2, <2>3 DEF Owners
  <2>. QED
    BY <2>4
<1>. QED
  BY <1>1, <1>2, <1>3

\* The same, as BlocksSafe states it.
LEMMA ExclusiveIsSafe ==
  ASSUME NEW m, Exclusive(m)
  PROVE  Safe(m)
<1>1. ASSUME NEW b \in Blocks
      PROVE  /\ Cardinality(Owners(m, b)) <= 1
             /\ Owners(m, b) # {} => m.bitmap[b] = 1
  <2>1. /\ Owners(m, b) = {} \/ \E o : Owners(m, b) = {o}
        /\ Owners(m, b) # {} => m.bitmap[b] = 1
    BY OneOwner
  <2>2. CASE Owners(m, b) = {}
    BY <2>1, <2>2, FS_EmptySet
  <2>3. CASE \E o : Owners(m, b) = {o}
    <3>1. PICK o : Owners(m, b) = {o}
      BY <2>3
    <3>2. Cardinality({o}) = 1
      BY FS_Singleton
    <3>. QED
      BY <2>1, <3>1, <3>2
  <2>. QED
    BY <2>1, <2>2, <2>3
<1>. QED
  BY <1>1 DEF Safe

\* No block has two owners, and none is in use while the bitmap gives it away: in memory,
\* and on the disk at every moment at which the power may fail, but for the last write of
\* pafs_delete and the whole of pafs_format.
THEOREM BlocksNeverShared == Spec => []BlocksSafe
<1>1. IInv => BlocksSafe
  <2>1. SUFFICES ASSUME IInv PROVE BlocksSafe
    OBVIOUS
  <2>2. TypeOK
    <3>1. Typed /\ InProgress
      BY <2>1 DEF IInv, Sound, Broken
    <3>. QED
      BY <3>1 DEF Typed, InProgress, TypeOK, Contents, Cell
  <2>3. ASSUME Followed PROVE Safe(mem)
    BY <2>1, <2>3, ExclusiveIsSafe DEF IInv, Sound
  <2>4. ASSUME Followed, ~Exposed PROVE Safe(disk)
    <3>1. Sound
      BY <2>1, <2>4 DEF IInv
    <3>2. CASE op = NoOp
      <4>1. Exclusive(disk)
        BY <3>1, <3>2, IdleDisk DEF Idle
      <4>. QED
        BY <4>1, ExclusiveIsSafe
    <3>3. CASE op # NoOp
      <4>1. op.kind \in {"create", "write"} \/ (op.kind = "delete" /\ Len(pending) # 1)
        BY <2>4, <3>1, <3>3 DEF Sound, InProgress, Exposed
      <4>2. Exclusive(disk)
        BY <3>1, <4>1 DEF Sound, DiskSound, DiskAhead
      <4>. QED
        BY <4>2, ExclusiveIsSafe
    <3>. QED
      BY <3>2, <3>3
  <2>. QED
    BY <2>2, <2>3, <2>4 DEF BlocksSafe
<1>. QED
  BY <1>1, FileSystemSound, PTL

\* As long as no power failure interrupted an operation since the last format, nothing
\* leaks: the bitmap marks exactly the blocks in use and free_blocks counts the others.
THEOREM BlocksAccounted == Spec => []Accounted
<1>1. IInv => Accounted
  <2>1. SUFFICES ASSUME IInv, failed = 0
                 PROVE  /\ \A b \in Blocks : mem.bitmap[b] = Cardinality(Owners(mem, b))
                        /\ mem.free_blocks = Cardinality(FreeBlocks(mem))
                        /\ mem.free_inodes >= Cardinality(FreeInodes(mem))
    BY DEF Accounted
  <2>2. /\ mem \in Metadata /\ mem.free_inodes >= Cardinality(FreeInodes(mem))
        /\ Exclusive(mem)
        /\ \A b \in Blocks : mem.bitmap[b] = 1 => b \in Held(mem)
        /\ mem.free_blocks = Cardinality(FreeBlocks(mem))
    BY <2>1 DEF IInv, Followed, Sound, Typed, Exact, InodesCounted
  <2>3. ASSUME NEW b \in Blocks PROVE mem.bitmap[b] = Cardinality(Owners(mem, b))
    <3>1. /\ Owners(mem, b) = {} \/ \E o : Owners(mem, b) = {o}
          /\ Owners(mem, b) # {} => mem.bitmap[b] = 1
          /\ b \in Held(mem) => Owners(mem, b) # {}
      BY <2>2, OneOwner
    <3>2. mem.bitmap[b] \in {0, 1}
      BY <2>2, MetaFields
    <3>3. CASE Owners(mem, b) = {}
      <4>1. mem.bitmap[b] = 0
        BY <2>2, <3>1, <3>2, <3>3
      <4>. QED
        BY <3>3, <4>1, FS_EmptySet
    <3>4. CASE \E o : Owners(mem, b) = {o}
      <4>1. PICK o : Owners(mem, b) = {o}
        BY <3>4
      <4>2. Cardinality({o}) = 1
        BY FS_Singleton
      <4>. QED
        BY <3>1, <4>1, <4>2
    <3>. QED
      BY <3>1, <3>3, <3>4
  <2>. QED
    BY <2>2, <2>3
<1>. QED
  BY <1>1, FileSystemSound, PTL

\* When an operation has returned, the disk has its inodes, its bitmap and its count of
\* free blocks: the sectors it saved, in the order it saved them, cover them.  The count of
\* free inodes there, which only a growing directory saves, is not smaller.
THEOREM NothingUnsaved == Spec => []DiskCurrent
<1>1. IInv => DiskCurrent
  <2>1. SUFFICES ASSUME IInv, Idle PROVE DiskCurrent
    BY DEF DiskCurrent
  <2>2. CASE Followed
    BY <2>1, <2>2, IdleFacts DEF IInv, DiskCurrent
  <2>3. CASE ~Followed
    <3>1. mem = disk /\ mem \in Metadata
      BY <2>1, <2>3 DEF IInv, Broken, Typed
    <3>2. mem.free_inodes \in Nat
      BY <3>1, MetaFields, Sizes
    <3>. QED
      BY <3>1, <3>2 DEF DiskCurrent
  <2>. QED
    BY <2>2, <2>3
<1>. QED
  BY <1>1, FileSystemSound, PTL

\* What a completed write reported is read back by pafs_vfs_read until the file is
\* overwritten or deleted, whatever else is created, deleted, written or restarted, and
\* wherever the power fails.
THEOREM WrittenIsRead == Spec => []FilesKeepData
<1>1. IInv => FilesKeepData
  <2>1. SUFFICES ASSUME IInv, Idle, NEW i \in Inodes, NEW k \in Slots, written[i][k] # 0
                 PROVE  pafs_vfs_read(i, k - 1, 1) = <<FileBlock(written[i][k])>>
    BY DEF FilesKeepData
  <2>2. mem \in Metadata /\ Keeps(mem, data, written)
    <3>1. CASE Followed
      BY <2>1, <3>1, IdleFacts DEF IInv
    <3>2. CASE ~Followed
      BY <2>1, <3>2 DEF IInv, Broken, Typed
    <3>. QED
      BY <3>1, <3>2
  <2>3. /\ mem.type[i] = "file" /\ k <= mem.size[i] /\ mem.blocks[i][k] # 0
        /\ data[mem.blocks[i][k]] = FileBlock(written[i][k])
    BY <2>1, <2>2 DEF Keeps
  <2>4. PICK z \in Nat : z = mem.size[i]
    BY <2>2, MetaFields
  <2>5. k \in Nat /\ k >= 1 /\ k <= SLOTS /\ SLOTS \in Nat /\ k <= z
    BY <2>3, <2>4, Sizes DEF Slots
  <2>6. Smallest({k, z, SLOTS}) = k
    <3>1. {k, z, SLOTS} \subseteq Nat /\ {k, z, SLOTS} # {}
      BY <2>5
    <3>2. /\ Smallest({k, z, SLOTS}) \in {k, z, SLOTS}
          /\ \A y \in {k, z, SLOTS} : Smallest({k, z, SLOTS}) <= y
      BY <3>1, SmallestIn
    <3>3. PICK s \in {k, z, SLOTS} : s = Smallest({k, z, SLOTS})
      BY <3>2
    <3>4. s <= k
      BY <3>2, <3>3
    <3>. QED
      BY <2>5, <3>3, <3>4
  <2>7. (k - 1) + 1 = k /\ k - (k - 1) = 1 /\ ~(k - 1 >= z)
    BY <2>5
  <2>8. pafs_vfs_read(i, k - 1, 1) =
          [n \in 1 .. 1 |-> IF mem.blocks[i][(k - 1) + n] = 0 THEN Zeroed
                            ELSE data[mem.blocks[i][(k - 1) + n]]]
    BY <2>3, <2>4, <2>6, <2>7 DEF pafs_vfs_read
  <2>9. \A n \in 1 .. 1 : (k - 1) + n = k
    BY <2>5
  <2>10. [n \in 1 .. 1 |-> IF mem.blocks[i][(k - 1) + n] = 0 THEN Zeroed
                           ELSE data[mem.blocks[i][(k - 1) + n]]]
           = [n \in 1 .. 1 |-> FileBlock(written[i][k])]
    BY <2>3, <2>9
  <2>11. \A x : [n \in 1 .. 1 |-> x] = <<x>>
    OBVIOUS
  <2>. QED
    BY <2>8, <2>10, <2>11
<1>. QED
  BY <1>1, FileSystemSound, PTL

\* As long as no power failure interrupted an operation since the last format, ls, which
\* stops at the first index without an entry, lists every entry of a directory, and the
\* entries are as many as the size from which pafs_remove_entry finds the last one.
THEOREM ListingComplete == Spec => []ListComplete
<1>1. IInv => ListComplete
  <2>1. SUFFICES ASSUME IInv, Idle, failed = 0, NEW dir \in Inodes,
                        mem.type[dir] = "dir", mem.size[dir] # 0
                 PROVE  /\ ls(dir) = {EntryAt(dir, p) : p \in Places} \ {Empty}
                        /\ \A i \in 0 .. SLOTS * PER_BLOCK - 1 :
                             i < mem.size[dir] <=> pafs_vfs_readdir(dir, i).inode # 0
    BY DEF ListComplete
  <2>2. mem \in Metadata /\ DirsSound(mem, data) /\ Listed(mem, data)
    BY <2>1, IdleFacts DEF IInv, Followed
  <2>3. mem.size[dir] \in Nat /\ SLOTS * PER_BLOCK \in Nat
    BY <2>1, <2>2, MetaFields, RoomForFiles
  <2>4. ASSUME NEW i \in Indexes
        PROVE  pafs_vfs_readdir(dir, i) = EntryAt(dir, At(i))
    <3>1. At(i) \in Places
      BY AtPlace
    <3>. QED
      BY <2>1, <3>1 DEF pafs_vfs_readdir, At
  <2>5. ASSUME NEW i \in Indexes
        PROVE  i < mem.size[dir] <=> pafs_vfs_readdir(dir, i).inode # 0
    <3>1. i < mem.size[dir] <=> Entry(mem, data, dir, At(i)).inode # 0
      BY <2>1, <2>2 DEF Listed
    <3>2. Entry(mem, data, dir, At(i)) = EntryAt(dir, At(i))
      BY DEF Entry, EntryAt
    <3>. QED
      BY <2>4, <3>1, <3>2
  <2>6. Empty.inode = 0
    BY DEF Empty
  <2>7. ASSUME NEW x \in ls(dir) PROVE x \in {EntryAt(dir, p) : p \in Places} \ {Empty}
    <3>1. PICK i \in Indexes : /\ x = pafs_vfs_readdir(dir, i)
                               /\ \A j \in 0 .. i : pafs_vfs_readdir(dir, j).inode # 0
      BY <2>7 DEF ls, Indexes
    <3>2. i \in 0 .. i
      BY <2>3 DEF Indexes
    <3>3. x.inode # 0
      BY <3>1, <3>2
    <3>4. x = EntryAt(dir, At(i)) /\ At(i) \in Places
      BY <2>4, <3>1, AtPlace
    <3>. QED
      BY <2>6, <3>3, <3>4
  <2>8. ASSUME NEW p \in Places, EntryAt(dir, p) # Empty PROVE EntryAt(dir, p) \in ls(dir)
    <3>1. PICK i \in Indexes : At(i) = p
      BY AtPlace
    <3>2. EntryAt(dir, p).inode # 0
      <4>1. p[1] \in Slots /\ p[2] \in Cells
        BY DEF Places
      <4>2. mem.blocks[dir][p[1]] # 0 /\ EntryAt(dir, p) = data[mem.blocks[dir][p[1]]][p[2]]
        BY <2>8 DEF EntryAt
      <4>3. IsEntry(EntryAt(dir, p))
        BY <2>1, <2>2, <4>1, <4>2 DEF DirsSound, DirSound
      <4>. QED
        BY <2>8, <4>3 DEF IsEntry
    <3>3. pafs_vfs_readdir(dir, i) = EntryAt(dir, p)
      BY <2>4, <3>1
    <3>4. i < mem.size[dir]
      BY <2>5, <3>2, <3>3
    <3>5. ASSUME NEW j \in 0 .. i PROVE pafs_vfs_readdir(dir, j).inode # 0
      <4>1. j \in Indexes /\ j < mem.size[dir]
        BY <2>3, <3>4 DEF Indexes
      <4>. QED
        BY <2>5, <4>1
    <3>6. i \in 0 .. SLOTS * PER_BLOCK - 1
      BY DEF Indexes
    <3>. QED
      BY <3>3, <3>5, <3>6 DEF ls
  <2>9. ls(dir) = {EntryAt(dir, p) : p \in Places} \ {Empty}
    BY <2>7, <2>8
  <2>. QED
    BY <2>5, <2>9 DEF Indexes
<1>. QED
  BY <1>1, FileSystemSound, PTL
=============================================================================
