-------------------------------- MODULE KHeap --------------------------------
(***************************************************************************)
(* The kernel heap of kernel/mm/kheap.c: a first-fit allocator over one    *)
(* static area, whose blocks carry an in-band header                       *)
(* {size, is_free, next, prev} and are split by kmalloc and coalesced by   *)
(* kfree.  Addresses are offsets into heap_space.  Every operation runs    *)
(* between irq_save and irq_restore, so each is one atomic action.         *)
(*                                                                         *)
(* A header stays in memory after its block was absorbed by a neighbour,   *)
(* which is what kfree reads when a pointer is freed a second time; the    *)
(* header fields are therefore functions on all addresses, and "blocks"    *)
(* says which addresses are headers on the list starting at heap_first.    *)
(***************************************************************************)
EXTENDS Integers

CONSTANTS
  HEAP_SIZE,  \* bytes of heap_space
  Header,     \* sizeof(struct heap_header)
  Align,      \* alignment of a request
  Requests    \* the sizes callers ask for

\* The 32-bit sums of kmalloc do not wrap: a request, its padding, two headers
\* and the split slack stay below 2^32 for every size the kernel asks for, so
\* sizes are plain naturals here.
ASSUME HeapAssumption ==
  /\ Align \in Nat \ {0}
  /\ Header \in Nat \ {0}
  /\ HEAP_SIZE \in Nat
  /\ HEAP_SIZE > Header + Align
  /\ Requests \subseteq Nat

VARIABLES
  blocks,   \* addresses of the headers linked from heap_first
  size,     \* header field: header + payload bytes
  is_free,  \* header field
  next,     \* header field
  prev,     \* header field
  live,     \* payload pointers handed out by kmalloc and not yet freed
  want,     \* the size each live pointer was requested with
  stale     \* headers of freed pointers whose bytes nobody overwrote since

vars == <<blocks, size, is_free, next, prev, live, want, stale>>

heap_first == 0
NULL == -1
Addr == 0 .. HEAP_SIZE - 1
End(b) == b + size[b]
Payload(b) == b + Header

-----------------------------------------------------------------------------
\* init_kheap: the whole area is one free block; the rest of .bss is zero.
Init ==
  /\ blocks = {heap_first}
  /\ size = [a \in Addr |-> IF a = heap_first THEN HEAP_SIZE ELSE 0]
  /\ is_free = [a \in Addr |-> IF a = heap_first THEN 1 ELSE 0]
  /\ next = [a \in Addr |-> NULL]
  /\ prev = [a \in Addr |-> NULL]
  /\ live = {}
  /\ want = [a \in Addr |-> 0]
  /\ stale = {}

\* Seeded mistake: rounds a request down.
AlignedSizeDown(n) == n - (n % Align)

AlignedSize(n) == IF n % Align = 0 THEN n ELSE n + (Align - (n % Align))
TotalSize(n) == AlignedSize(n) + Header

\* Seeded mistake: does not look whether the block is free.
FitsUsed(b, total) == b \in blocks /\ size[b] >= total

Fits(b, total) == b \in blocks /\ is_free[b] = 1 /\ size[b] >= total

\* The list is in address order (ListInOrder), so the walk from heap_first stops
\* at the lowest block that fits.
FirstFit(b, total) ==
  /\ Fits(b, total)
  /\ \A c \in blocks : c < b => ~Fits(c, total)

\* Stale headers whose bytes lie in lo .. hi-1 are overwritten.
StaleOutside(lo, hi) == {s \in stale : s + Header <= lo \/ hi <= s}

\* Seeded mistakes: the first block keeps its size; the block behind the new one
\* still points back to the first.
SplitKeepsSize(b, total) ==
  LET new == b + total IN
  /\ blocks' = blocks \union {new}
  /\ size' = [size EXCEPT ![new] = size[b] - total]
  /\ is_free' = [is_free EXCEPT ![new] = 1, ![b] = 0]
  /\ next' = [next EXCEPT ![new] = next[b], ![b] = new]
  /\ prev' = [a \in Addr |-> IF a = new THEN b
                             ELSE IF a = next[b] THEN new ELSE prev[a]]
  /\ stale' = StaleOutside(b, new + Header)

SplitNoBackLink(b, total) ==
  LET new == b + total IN
  /\ blocks' = blocks \union {new}
  /\ size' = [size EXCEPT ![new] = size[b] - total, ![b] = total]
  /\ is_free' = [is_free EXCEPT ![new] = 1, ![b] = 0]
  /\ next' = [next EXCEPT ![new] = next[b], ![b] = new]
  /\ prev' = [prev EXCEPT ![new] = b]
  /\ stale' = StaleOutside(b, new + Header)

\* The block is much larger than needed: its tail becomes a block of its own.
Split(b, total) ==
  LET new == b + total IN
  /\ blocks' = blocks \union {new}
  /\ size' = [size EXCEPT ![new] = size[b] - total, ![b] = total]
  /\ is_free' = [is_free EXCEPT ![new] = 1, ![b] = 0]
  /\ next' = [next EXCEPT ![new] = next[b], ![b] = new]
  /\ prev' = [a \in Addr |-> IF a = new THEN b
                             ELSE IF a = next[b] THEN new ELSE prev[a]]
  /\ stale' = StaleOutside(b, new + Header)

TakeWhole(b, total) ==
  /\ is_free' = [is_free EXCEPT ![b] = 0]
  /\ stale' = StaleOutside(b, b + total)
  /\ UNCHANGED <<blocks, size, next, prev>>

SplitSlack == Header + Align

\* kmalloc that finds a block.
kmalloc(n) ==
  \E b \in blocks :
    /\ n # 0
    /\ FirstFit(b, TotalSize(n))
    /\ IF size[b] > TotalSize(n) + SplitSlack
         THEN Split(b, TotalSize(n))
         ELSE TakeWhole(b, TotalSize(n))
    /\ live' = live \union {Payload(b)}
    /\ want' = [want EXCEPT ![Payload(b)] = n]

\* kmalloc that returns 0: a request for nothing, or no block fits.
kmallocFail(n) ==
  /\ n = 0 \/ \A b \in blocks : ~Fits(b, TotalSize(n))
  /\ UNCHANGED vars

\* Seeded mistake: one of the merges is missing.
MergeLeftNever(b) == FALSE

\* Merge Right, then Merge Left.  The two writes to size, next and prev are
\* composed: after the first, the block reaches to the end of its successor.
MergeRight(b) == next[b] # NULL /\ is_free[next[b]] = 1
MergeLeft(b) == prev[b] # NULL /\ is_free[prev[b]] = 1

Coalesce(b) ==
  LET right == MergeRight(b)
      left  == MergeLeft(b)
      bsize == IF right THEN size[b] + size[next[b]] ELSE size[b]
      bnext == IF right THEN next[next[b]] ELSE next[b]
      keep  == IF left THEN prev[b] ELSE b
  IN
  /\ blocks' = blocks \ ((IF right THEN {next[b]} ELSE {}) \union
                         (IF left THEN {b} ELSE {}))
  /\ size' = [a \in Addr |->
                IF a = b THEN bsize
                ELSE IF left /\ a = prev[b] THEN size[a] + bsize ELSE size[a]]
  /\ next' = [a \in Addr |->
                IF a = b \/ (left /\ a = prev[b]) THEN bnext ELSE next[a]]
  /\ prev' = [a \in Addr |->
                IF a = bnext /\ (right \/ left) THEN keep ELSE prev[a]]

\* Seeded mistake: marks only the block that survives the merge.
kfreeMarksSurvivor(p) ==
  LET b == p - Header IN
  /\ p \in live \/ b \in stale
  /\ IF is_free[b] = 1
       THEN UNCHANGED vars
       ELSE /\ is_free' = IF MergeLeft(b) THEN is_free ELSE [is_free EXCEPT ![b] = 1]
            /\ Coalesce(b)
            /\ live' = live \ {p}
            /\ stale' = stale \union {b}
            /\ want' = [want EXCEPT ![p] = 0]

\* kfree(ptr) for a pointer that is live, or that was freed before and whose
\* header bytes are still there.
kfree(p) ==
  LET b == p - Header IN
  /\ p \in live \/ b \in stale
  /\ IF is_free[b] = 1
       THEN UNCHANGED vars
       ELSE /\ is_free' = [is_free EXCEPT ![b] = 1]
            /\ Coalesce(b)
            /\ live' = live \ {p}
            /\ stale' = stale \union {b}
            /\ want' = [want EXCEPT ![p] = 0]

Pointers == {a + Header : a \in Addr}

Next ==
  \/ \E n \in Requests : kmalloc(n)
  \/ \E n \in Requests : kmallocFail(n)
  \/ \E p \in Pointers : kfree(p)

Spec == Init /\ [][Next]_vars

-----------------------------------------------------------------------------
\* Header fields, links and pointers stay inside heap_space whatever kmalloc and
\* kfree do: no split puts a header past its end.
TypeOK ==
  /\ blocks \subseteq Addr
  /\ size \in [Addr -> Nat]
  /\ is_free \in [Addr -> {0, 1}]
  /\ next \in [Addr -> Addr \union {NULL}]
  /\ prev \in [Addr -> Addr \union {NULL}]
  /\ live \subseteq Addr
  /\ want \in [Addr -> Nat]
  /\ stale \subseteq Addr

\* Splitting and merging lose no byte and give none out twice: the blocks on the
\* list tile heap_space, each starting where its predecessor ends.
Tiled ==
  /\ heap_first \in blocks
  /\ \A b \in blocks : size[b] > Header /\ End(b) <= HEAP_SIZE
  /\ \A b \in blocks : End(b) = HEAP_SIZE \/ End(b) \in blocks
  /\ \A b, c \in blocks : b < c => End(b) <= c

\* The doubly linked list agrees with the tiling in both directions, whatever
\* order blocks were split and coalesced in.
ListInOrder ==
  /\ \A b \in blocks : next[b] = IF End(b) = HEAP_SIZE THEN NULL ELSE End(b)
  /\ prev[heap_first] = NULL
  /\ \A b \in blocks \ {heap_first} : prev[b] \in blocks /\ End(prev[b]) = b

\* kfree coalesces with both neighbours, so free space is never fragmented into
\* adjacent blocks: a request that fits into contiguous free bytes is served.
Coalesced ==
  \A b \in blocks : is_free[b] = 1 /\ next[b] # NULL => is_free[next[b]] = 0

\* The pointers callers hold are exactly the payloads of the blocks in use, and
\* each block is large enough for what was asked of kmalloc.
LiveOwned ==
  /\ \A b \in blocks : is_free[b] = 0 => Payload(b) \in live
  /\ \A p \in live : p - Header \in blocks /\ is_free[p - Header] = 0
  /\ \A p \in live : want[p] + Header <= size[p - Header]

\* Two callers never hold overlapping memory, and what a caller may write never
\* reaches a header on the list nor the end of heap_space.
NoOverlap ==
  /\ \A p, q \in live : p < q => p + want[p] + Header <= q
  /\ \A p \in live : p + want[p] <= HEAP_SIZE
  /\ \A p \in live, b \in blocks : b + Header <= p \/ p + want[p] <= b

\* A pointer that is freed twice is recognised ("Zaten bos olan bir bellek...",
\* kheap.c:81) as long as its header bytes survive, even when its block was
\* absorbed by a neighbour: the stale header still says free, and no header on
\* the list overlaps it.
DoubleFreeSeen ==
  \A s \in stale :
    /\ is_free[s] = 1
    /\ \A b \in blocks : b = s \/ b + Header <= s \/ s + Header <= b

\* When every pointer has been freed the heap is again the one block that
\* init_kheap made.
FullyRecovered ==
  live = {} => blocks = {heap_first} /\ size[heap_first] = HEAP_SIZE

\* Seen from its callers, the heap is the contract of HeapContract: kmalloc hands
\* out memory inside the heap that nobody else owns, kfree takes it back, and
\* nothing else changes what a caller owns.
Contract == INSTANCE HeapContract
              WITH owned <- {<<p, want[p]>> : p \in live}

ImplementsContract == Contract!Spec
=============================================================================
