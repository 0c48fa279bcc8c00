---------------------------- MODULE PagingProofs -----------------------------
(***************************************************************************)
(* Proofs about Paging: which frames the directory, the tables and the     *)
(* pages occupy, for every machine, every set of programs and every size   *)
(* of tables, as long as physical memory ends below the pages that the     *)
(* drivers map (256 MB in the code) and no program has asked for pages of  *)
(* the higher half.  The last part is about the frame allocator Pmm by     *)
(* itself: its count, its bitmap and the loop of alloc_contiguous_frames.  *)
(***************************************************************************)
EXTENDS Paging, FiniteSetTheorems, SequenceTheorems, WellFoundedInduction, TLAPS

Entries == 0 .. DIRECTORY - 1
Rows == 0 .. TABLE - 1
Pages == UserPages \union Window

\* Where a page's entry is.
Dir(v) == v \div TABLE
Ent(v) == v % TABLE

\* Memory ends below the drivers' pages.
Small == KERNEL_PDE * TABLE + total_frames <= RX_PAGE

\* The invariant of Pmm without the count, which nothing here looks at.
FramesTyped ==
  /\ total_frames \in 0 .. MAX_FRAMES
  /\ available \subseteq 0 .. total_frames - 1
  /\ bitmap \in [Frames -> {0, 1}]
  /\ owned \subseteq Frames

PmmInv == FramesTyped /\ Accounted /\ OwnedUsable

\* What the loops have in hand in each phase.
Steady ==
  /\ total_frames \in Totals
  /\ work = "boot" => oom = 0
  /\ work \in {"boot", "idle", "lost"} => todo = <<>> /\ frame = NONE
  /\ work \in {"rx", "tx"} => frame \in Nat /\ frame + Len(todo) <= MAX_FRAMES
  /\ work \in {"exec", "sbrk"} =>
       frame \in Frames \union {NONE} /\ (todo = <<>> => frame = NONE)

\* The directory and the tables lie in frames of their own, but for frame 0, which
\* stands for a failed allocation.
TablesOwned ==
  /\ kernel_directory # NONE => kernel_directory \in owned
  /\ work \notin {"boot", "lost"} => kernel_directory # NONE
  /\ \A d \in Entries : directory[d] # NONE =>
       /\ directory[d] # kernel_directory
       /\ directory[d] \in owned \/ (directory[d] = 0 /\ oom = 1)
  /\ \A d, e \in Entries :
       directory[d] = directory[e] /\ directory[d] \notin {0, NONE} => d = e

\* The first n tables of the higher half are there.
Made(n) ==
  \A d \in Entries :
    /\ directory[d] # NONE <=> d \in KERNEL_PDE .. KERNEL_PDE + n - 1
    /\ directory[d] # NONE => tables[directory[d]] = DirectTable(d - KERNEL_PDE)

BootMap == work = "boot" => \E n \in 0 .. DIRECTORY - KERNEL_PDE : Made(n)

\* The kernel sees every frame where it looks for it, through tables of its own.
DirectMap ==
  work \notin {"boot", "lost"} /\ Small =>
    \A f \in 0 .. total_frames - 1 :
      directory[Dir(Direct(f))] \in owned /\ Translated(Direct(f)) = f

Structure(f) == f = kernel_directory \/ \E d \in Entries : directory[d] = f

\* Frames taken for pages that are not mapped yet.
Pending ==
  IF work \in {"rx", "tx"} THEN {f \in Frames : frame <= f /\ f < frame + Len(todo)}
  ELSE {frame} \ {NONE}

\* f is the frame of a page.
InPage(f) == \E u \in Pages : Present(u) /\ Translated(u) = f

\* Frames of pages and frames about to become pages are owned, are no structures, and
\* belong to one page.
PagesApart ==
  /\ \A u \in Pages : Present(u) => Translated(u) \in owned /\ ~Structure(Translated(u))
  /\ \A u, v \in Pages : Present(u) /\ Present(v) /\ Translated(u) = Translated(v) => u = v
  /\ \A f \in Pending : f \in owned /\ ~Structure(f) /\ ~InPage(f)

PagesOwned == Small /\ oom = 0 => PagesApart

IInv == TypeOK /\ PmmInv /\ Steady /\ TablesOwned /\ BootMap /\ DirectMap /\ PagesOwned

USE DEF Frames, NONE, Entries, Rows

-----------------------------------------------------------------------------
(* Arithmetic of page numbers.                                             *)

\* The sizes, as numbers.
LEMMA Sizes ==
  /\ TABLE \in Nat \ {0} /\ PAGE \in Nat \ {0} /\ MAX_FRAMES \in Nat
  /\ DIRECTORY \in Nat /\ KERNEL_PDE \in Nat /\ KERNEL_PDE >= 1 /\ KERNEL_PDE < DIRECTORY
  /\ RX_PAGE \in Nat /\ TX_PAGE \in Nat /\ RX_PAGE <= TX_PAGE
  /\ RX_FRAMES \in Counts /\ TX_FRAMES \in Counts
  /\ RX_FRAMES \in 1 .. MAX_FRAMES /\ TX_FRAMES \in 1 .. MAX_FRAMES
  /\ LOW_FRAMES \in Nat \ {0} /\ SEARCH_LIMIT \in Nat
  /\ Counts \subseteq Nat \ {0}
  /\ KERNEL_PDE * TABLE \in Nat /\ DIRECTORY * TABLE \in Nat
  /\ KERNEL_PDE * TABLE <= DIRECTORY * TABLE
<1>1. /\ TABLE \in Nat \ {0} /\ DIRECTORY \in Nat /\ KERNEL_PDE \in Nat
      /\ KERNEL_PDE < DIRECTORY /\ KERNEL_PDE >= 1
  BY PagingAssumption, PmmAssumption
<1>2. /\ KERNEL_PDE * TABLE \in Nat /\ DIRECTORY * TABLE \in Nat
      /\ KERNEL_PDE * TABLE <= DIRECTORY * TABLE
  BY <1>1, Z3
<1>. QED
  BY <1>1, <1>2, PagingAssumption, PmmAssumption

\* Quotient and remainder.
LEMMA Division ==
  ASSUME NEW m \in Nat \ {0}, NEW a \in Nat
  PROVE  a \div m \in Nat /\ a % m \in 0 .. m - 1 /\ a = (a \div m) * m + (a % m)
<1>1. a \div m \in Int /\ a % m \in 0 .. m - 1
  BY Z3
<1>2. a = (a \div m) * m + (a % m)
  BY Z3
<1>3. a \div m >= 0
  BY Z3
<1>. QED
  BY <1>1, <1>2, <1>3

\* They are determined by the number.
LEMMA DivisionUnique ==
  ASSUME NEW m \in Nat \ {0}, NEW q \in Int, NEW p \in Int,
         NEW r \in 0 .. m - 1, NEW s \in 0 .. m - 1,
         q * m + r = p * m + s
  PROVE  q = p /\ r = s
<1>1. (q - p) * m = s - r
  BY Z3
<1>2. s - r < m /\ r - s < m
  OBVIOUS
<1>3. ~(q - p >= 1)
  <2>. SUFFICES ASSUME q - p >= 1 PROVE FALSE
    OBVIOUS
  <2>1. (q - p) * m >= m
    BY Z3
  <2>. QED
    BY <2>1, <1>1, <1>2
<1>4. ~(q - p <= -1)
  <2>. SUFFICES ASSUME q - p <= -1 PROVE FALSE
    OBVIOUS
  <2>1. (q - p) * m <= -m
    BY Z3
  <2>. QED
    BY <2>1, <1>1, <1>2
<1>5. q = p
  BY <1>3, <1>4
<1>. QED
  BY <1>1, <1>5

\* Whole tables in front change the quotient only.
LEMMA DivisionShift ==
  ASSUME NEW m \in Nat \ {0}, NEW k \in Nat, NEW a \in Nat
  PROVE  (k * m + a) \div m = k + (a \div m) /\ (k * m + a) % m = a % m
<1>. DEFINE b == k * m + a
            q == a \div m
            r == a % m
            p == b \div m
            s == b % m
<1>1. b \in Nat
  BY Z3
<1>2. q \in Nat /\ r \in 0 .. m - 1 /\ a = q * m + r
  BY Division
<1>3. p \in Nat /\ s \in 0 .. m - 1 /\ b = p * m + s
  <2>. HIDE DEF b
  <2>. QED
    BY <1>1, Division
<1>4. b = k * m + a
  OBVIOUS
<1>. HIDE DEF b, q, r, p, s
<1>5. (k + q) * m + r = p * m + s
  BY <1>1, <1>2, <1>3, <1>4, Z3
<1>6. k + q = p /\ r = s
  BY <1>2, <1>3, <1>5, DivisionUnique
<1>. QED
  BY <1>6 DEF b, q, r, p, s

\* A smaller number of tables' worth has a smaller quotient.
LEMMA DivisionBound ==
  ASSUME NEW m \in Nat \ {0}, NEW k \in Nat, NEW a \in Nat
  PROVE  a < k * m <=> a \div m < k
<1>. DEFINE q == a \div m
            r == a % m
<1>1. q \in Nat /\ r \in 0 .. m - 1 /\ a = q * m + r
  BY Division
<1>. HIDE DEF q, r
<1>2. ASSUME q < k PROVE a < k * m
  <2>1. (q + 1) * m <= k * m
    BY <1>1, <1>2, Z3
  <2>2. (q + 1) * m = q * m + m
    BY <1>1, Z3
  <2>. QED
    BY <2>1, <2>2, <1>1, Z3
<1>3. ASSUME ~(q < k) PROVE ~(a < k * m)
  <2>1. k * m <= q * m
    BY <1>1, <1>3, Z3
  <2>. QED
    BY <2>1, <1>1, Z3
<1>. QED
  BY <1>2, <1>3 DEF q

\* A page's entry lies in the directory and in a table, and no two pages share it.
LEMMA Index ==
  /\ \A v \in Pages : v \in Nat /\ Dir(v) \in Entries /\ Ent(v) \in Rows
  /\ \A u, v \in Nat : Dir(u) = Dir(v) /\ Ent(u) = Ent(v) => u = v
  /\ \A v \in UserPages : Dir(v) < KERNEL_PDE
  /\ \A v \in Window : v >= RX_PAGE
<1>1. Pages \subseteq Virtual
  BY Sizes, PagingAssumption DEF Pages, UserPages, Virtual
<1>2. ASSUME NEW v \in Pages PROVE v \in Nat /\ Dir(v) \in Entries /\ Ent(v) \in Rows
  <2>1. v \in Nat /\ v < DIRECTORY * TABLE
    BY <1>1, Sizes DEF Virtual
  <2>2. v \div TABLE \in Nat /\ v % TABLE \in 0 .. TABLE - 1
    BY <2>1, Sizes, Division
  <2>3. v \div TABLE < DIRECTORY
    BY <2>1, Sizes, DivisionBound
  <2>. QED
    BY <2>1, <2>2, <2>3, Sizes DEF Dir, Ent
<1>3. ASSUME NEW u \in Nat, NEW v \in Nat, Dir(u) = Dir(v), Ent(u) = Ent(v)
      PROVE  u = v
  <2>1. u = (u \div TABLE) * TABLE + (u % TABLE)
    BY Sizes, Division
  <2>2. v = (v \div TABLE) * TABLE + (v % TABLE)
    BY Sizes, Division
  <2>. QED
    BY <2>1, <2>2, <1>3, Zenon DEF Dir, Ent
<1>4. ASSUME NEW v \in UserPages PROVE Dir(v) < KERNEL_PDE
  <2>1. v \in Nat /\ v < KERNEL_PDE * TABLE
    BY Sizes DEF UserPages
  <2>. QED
    BY <2>1, Sizes, DivisionBound DEF Dir
<1>5. ASSUME NEW v \in Window PROVE v >= RX_PAGE
  BY Sizes DEF Window
<1>. QED
  BY <1>2, <1>3, <1>4, <1>5

\* The entry of the page through which the kernel sees a frame.
LEMMA DirectIndex ==
  ASSUME NEW f \in Nat
  PROVE  /\ Direct(f) \in Nat
         /\ Dir(Direct(f)) = KERNEL_PDE + (f \div TABLE)
         /\ Ent(Direct(f)) = f % TABLE
         /\ f \div TABLE \in Nat /\ f % TABLE \in Rows
         /\ (f \div TABLE) * TABLE + (f % TABLE) = f
<1>1. Direct(f) \in Nat
  BY Sizes DEF Direct
<1>2. Dir(Direct(f)) = KERNEL_PDE + (f \div TABLE) /\ Ent(Direct(f)) = f % TABLE
  BY Sizes, DivisionShift DEF Direct, Dir, Ent
<1>3. /\ f \div TABLE \in Nat /\ f % TABLE \in Rows
      /\ (f \div TABLE) * TABLE + (f % TABLE) = f
  BY Sizes, Division
<1>. QED
  BY <1>1, <1>2, <1>3

\* The pages through which frames are seen have their entries in the directory, and
\* are no pages of programs or drivers.
LEMMA DirectSmall ==
  ASSUME Small, total_frames \in Nat, NEW f \in 0 .. total_frames - 1
  PROVE  /\ Dir(Direct(f)) \in Entries /\ Ent(Direct(f)) \in Rows
         /\ Direct(f) \in Nat /\ Direct(f) \notin Pages
<1>1. f \in Nat /\ Direct(f) = KERNEL_PDE * TABLE + f
  BY DEF Direct
<1>2. Direct(f) < RX_PAGE /\ Direct(f) >= KERNEL_PDE * TABLE
  BY <1>1, Sizes DEF Small
<1>3. RX_PAGE \in Window
  BY Sizes DEF Window
<1>4. RX_PAGE < DIRECTORY * TABLE
  BY <1>3, Sizes, PagingAssumption DEF Virtual
<1>5. Dir(Direct(f)) \in Nat /\ Ent(Direct(f)) \in Rows
  <2>1. /\ Dir(Direct(f)) = KERNEL_PDE + (f \div TABLE) /\ Ent(Direct(f)) = f % TABLE
        /\ f \div TABLE \in Nat /\ f % TABLE \in Rows
    BY <1>1, DirectIndex
  <2>2. \A q \in Nat : KERNEL_PDE + q \in Nat
    BY Sizes
  <2>. QED
    BY <2>1, <2>2, Zenon
<1>6. Direct(f) \in Nat /\ Direct(f) < DIRECTORY * TABLE
  BY <1>2, <1>4, <1>1, Sizes
<1>7. Dir(Direct(f)) < DIRECTORY
  BY <1>6, Sizes, DivisionBound DEF Dir
<1>8. Direct(f) \notin Pages
  <2>1. Direct(f) \notin UserPages
    BY <1>2, Sizes DEF UserPages
  <2>2. Direct(f) \notin Window
    BY <1>2, <1>6, Index, Sizes
  <2>. QED
    BY <2>1, <2>2 DEF Pages
<1>. QED
  BY <1>5, <1>6, <1>7, <1>8, Sizes

-----------------------------------------------------------------------------
(* What the allocator gives.                                               *)

\* Handed-out frames exist and are not frame 0.
LEMMA OwnedBelow ==
  ASSUME PmmInv
  PROVE  /\ owned \subseteq 1 .. total_frames - 1
         /\ total_frames \in Nat /\ total_frames <= MAX_FRAMES
<1>1. total_frames \in 0 .. MAX_FRAMES /\ available \subseteq 0 .. total_frames - 1
  BY DEF PmmInv, FramesTyped
<1>2. \A f \in owned : f \in available /\ ~(f < LOW_FRAMES)
  BY DEF PmmInv, OwnedUsable, Reserved
<1>3. LOW_FRAMES \in Nat /\ LOW_FRAMES >= 1 /\ MAX_FRAMES \in Nat
  BY Sizes
<1>4. ASSUME NEW f \in owned PROVE f \in 1 .. total_frames - 1
  <2>1. f \in 0 .. total_frames - 1
    BY <1>1, <1>2, Zenon
  <2>3. total_frames \in Nat
    BY <1>1, <1>3
  <2>2. ~(f < LOW_FRAMES)
    BY <1>2
  <2>. QED
    BY <2>1, <2>2, <2>3, <1>3
<1>. QED
  BY <1>1, <1>3, <1>4

\* alloc_frame: one frame that nobody had.
LEMMA AllocFrame ==
  ASSUME PmmInv, alloc_frame
  PROVE  /\ PmmInv' /\ total_frames' = total_frames
         /\ \E f \in 1 .. total_frames - 1 : f \notin owned /\ owned' = owned \union {f}
<1>t. /\ total_frames \in 0 .. MAX_FRAMES
      /\ bitmap \in [Frames -> {0, 1}]
      /\ owned \subseteq Frames
      /\ available \subseteq 0 .. total_frames - 1
      /\ MAX_FRAMES \in Nat
  BY Sizes DEF PmmInv, FramesTyped
<1>1. PICK f \in 0 .. search_limit - 1 :
        /\ bitmap[f] = 0
        /\ bitmap' = [bitmap EXCEPT ![f] = 1]
        /\ owned' = owned \union {f}
        /\ UNCHANGED <<total_frames, available>>
  BY DEF alloc_frame, Below
<1>2. f \in 0 .. total_frames - 1 /\ f \in Frames
  BY <1>t, Sizes DEF search_limit
<1>3. FramesTyped'
  <2>1. bitmap' \in [Frames -> {0, 1}]
    BY <1>1, <1>2, <1>t
  <2>2. owned' \subseteq Frames
    BY <1>1, <1>2, <1>t
  <2>. QED
    BY <1>1, <1>t, <2>1, <2>2 DEF FramesTyped
<1>4. f \in available /\ ~Reserved(f) /\ f \notin owned
  BY <1>1, <1>2 DEF PmmInv, Accounted, Frames
<1>5. Accounted'
  BY <1>1, <1>2, <1>4, <1>t DEF PmmInv, Accounted, Reserved, Frames
<1>6. OwnedUsable'
  BY <1>1, <1>4 DEF PmmInv, OwnedUsable, Reserved
<1>7. f \in 1 .. total_frames - 1
  BY <1>2, <1>4, Sizes DEF Reserved
<1>. QED
  BY <1>1, <1>3, <1>4, <1>5, <1>6, <1>7 DEF PmmInv

\* alloc_contiguous_frames: a run of frames that nobody had.
LEMMA AllocRun ==
  ASSUME NEW count \in Counts, PmmInv, alloc_contiguous_frames(count)
  PROVE  /\ PmmInv' /\ total_frames' = total_frames
         /\ \E s \in 1 .. total_frames - 1 :
              /\ s + count <= total_frames
              /\ \A f \in s .. s + count - 1 : f \notin owned
              /\ owned' = owned \union (s .. s + count - 1)
<1>t. /\ total_frames \in 0 .. MAX_FRAMES
      /\ bitmap \in [Frames -> {0, 1}]
      /\ owned \subseteq Frames
      /\ available \subseteq 0 .. total_frames - 1
      /\ MAX_FRAMES \in Nat /\ count \in Nat /\ count >= 1
  BY Sizes DEF PmmInv, FramesTyped
<1>1. PICK s \in 0 .. total_frames - 1 :
        /\ s + count <= total_frames
        /\ \A f \in s .. s + count - 1 : bitmap[f] = 0
        /\ bitmap' = [f \in Frames |-> IF f \in s .. s + count - 1 THEN 1 ELSE bitmap[f]]
        /\ owned' = owned \union (s .. s + count - 1)
        /\ UNCHANGED <<total_frames, available>>
  BY DEF alloc_contiguous_frames, Below, FreeRun, Run, Frames
<1>2. \A f \in s .. s + count - 1 : f \in 0 .. total_frames - 1 /\ f \in Frames
  BY <1>1, <1>t
<1>3. FramesTyped'
  <2>1. bitmap' \in [Frames -> {0, 1}]
    BY <1>1, <1>t
  <2>2. owned' \subseteq Frames
    BY <1>1, <1>2, <1>t
  <2>. QED
    BY <1>1, <1>t, <2>1, <2>2 DEF FramesTyped
<1>4. \A f \in s .. s + count - 1 : f \in available /\ ~Reserved(f) /\ f \notin owned
  BY <1>1, <1>2 DEF PmmInv, Accounted, Frames
<1>5. Accounted'
  BY <1>1, <1>2, <1>4, <1>t DEF PmmInv, Accounted, Reserved, Frames
<1>6. OwnedUsable'
  BY <1>1, <1>4 DEF PmmInv, OwnedUsable, Reserved
<1>7. s \in 1 .. total_frames - 1
  <2>1. s \in s .. s + count - 1
    BY <1>t
  <2>. QED
    BY <2>1, <1>4, <1>t, Sizes DEF Reserved
<1>. QED
  BY <1>1, <1>3, <1>4, <1>5, <1>6, <1>7 DEF PmmInv

\* A call that leaves the allocator alone.
LEMMA PmmAlone == PmmInv /\ UNCHANGED pmmVars => PmmInv'
BY DEF pmmVars, PmmInv, FramesTyped, Accounted, OwnedUsable, Reserved

\* alloc_frame as its callers use it.
LEMMA GetsFrame ==
  ASSUME PmmInv, oom \in {0, 1}, NEW f, Gets(f)
  PROVE  /\ PmmInv' /\ total_frames' = total_frames /\ owned \subseteq owned'
         /\ \/ /\ f \in 1 .. total_frames - 1 /\ f \notin owned
               /\ owned' = owned \union {f} /\ oom' = oom
            \/ f = 0 /\ owned' = owned /\ oom' = 1
<1>1. CASE alloc_frame /\ f \in owned' \ owned /\ UNCHANGED oom
  <2>1. PmmInv' /\ total_frames' = total_frames
    BY <1>1, AllocFrame
  <2>2. PICK g \in 1 .. total_frames - 1 : g \notin owned /\ owned' = owned \union {g}
    BY <1>1, AllocFrame
  <2>3. f = g
    BY <1>1, <2>2
  <2>. QED
    BY <1>1, <2>1, <2>2, <2>3
<1>2. CASE alloc_frame_fails /\ f = 0 /\ oom' = 1
  <2>1. UNCHANGED pmmVars
    BY <1>2 DEF alloc_frame_fails, pmmVars
  <2>2. PmmInv'
    BY <2>1, PmmAlone
  <2>. QED
    BY <1>2, <2>1, <2>2 DEF pmmVars
<1>. QED
  BY <1>1, <1>2 DEF Gets

-----------------------------------------------------------------------------
(* Steps that leave the directory and the tables alone.                    *)

\* Types of the parts of the state that the steps below use.
LEMMA Types ==
  ASSUME IInv
  PROVE  /\ directory \in [Entries -> Frames \union {NONE}]
         /\ tables \in [Frames -> [Rows -> Frames \union {NONE}]]
         /\ kernel_directory \in Frames \union {NONE}
         /\ oom \in {0, 1}
         /\ total_frames \in Nat /\ total_frames <= MAX_FRAMES
         /\ owned \subseteq 1 .. total_frames - 1
         /\ owned \subseteq Frames
<1>1. owned \subseteq 1 .. total_frames - 1 /\ total_frames \in Nat /\ total_frames <= MAX_FRAMES
  BY OwnedBelow DEF IInv
<1>2. owned \subseteq Frames
  BY <1>1, Sizes
<1>. QED
  BY <1>1, <1>2 DEF IInv, TypeOK

\* Frames may be taken for pages: what is mapped stays owned and apart.
LEMMA Grown ==
  ASSUME IInv, UNCHANGED pageVars, total_frames' = total_frames,
         owned \subseteq owned', oom' \in {oom, 1},
         work \notin {"boot", "lost"} \/ kernel_directory # NONE,
         oom' = 0 => \A f \in Pending' : f \in owned' /\ (f \in Pending \/ f \notin owned)
  PROVE  TablesOwned' /\ PagesOwned'
<1>t. oom \in {0, 1}
  BY Types
<1>1. UNCHANGED <<kernel_directory, directory, tables>>
  BY DEF pageVars
<1>2. TablesOwned'
  BY <1>1, <1>t DEF IInv, TablesOwned
<1>3. ASSUME Small', oom' = 0 PROVE PagesApart'
  <2>1. Small /\ oom = 0
    BY <1>3, <1>t DEF Small
  <2>2. /\ \A u \in Pages : Present(u)' <=> Present(u)
        /\ \A u \in Pages : Translated(u)' = Translated(u)
        /\ \A f : Structure(f)' <=> Structure(f)
    BY <1>1 DEF Present, Translated, Structure
  <2>3. \A f : InPage(f)' <=> InPage(f)
    BY <2>2 DEF InPage
  <2>4. ASSUME NEW f \in Pending' PROVE f \in owned' /\ ~Structure(f) /\ ~InPage(f)
    <3>1. f \in owned' /\ (f \in Pending \/ f \notin owned)
      BY <1>3
    <3>2. CASE f \in Pending
      BY <2>1, <3>1, <3>2 DEF IInv, PagesOwned, PagesApart
    <3>3. CASE f \notin owned
      <4>1. f # NONE
        BY Sizes DEF Pending
      <4>2. ~Structure(f)
        BY <3>3, <4>1, <2>1 DEF IInv, TablesOwned, Structure
      <4>3. ~InPage(f)
        BY <3>3, <2>1 DEF IInv, PagesOwned, PagesApart, InPage
      <4>. QED
        BY <3>1, <4>2, <4>3
    <3>. QED
      BY <3>1, <3>2, <3>3
  <2>5. /\ \A u \in Pages : Present(u) => Translated(u) \in owned /\ ~Structure(Translated(u))
        /\ \A u, v \in Pages :
             Present(u) /\ Present(v) /\ Translated(u) = Translated(v) => u = v
    BY <2>1 DEF IInv, PagesOwned, PagesApart
  <2>. QED
    BY <2>2, <2>3, <2>4, <2>5 DEF PagesApart
<1>. QED
  BY <1>2, <1>3 DEF PagesOwned

\* The direct map stays, too.
LEMMA GrownDirect ==
  ASSUME IInv, UNCHANGED pageVars, total_frames' = total_frames,
         owned \subseteq owned', work \notin {"boot", "lost"}
  PROVE  DirectMap'
BY DEF pageVars, IInv, DirectMap, Small, Direct, Dir, Translated

\* The pages of a loop in their order.
LEMMA InOrderPages ==
  ASSUME NEW from \in Nat, NEW to \in Nat
  PROVE  /\ InOrder(from, to) \in Seq(Nat)
         /\ Len(InOrder(from, to)) = IF from < to THEN to - from ELSE 0
         /\ \A i \in 1 .. Len(InOrder(from, to)) :
              InOrder(from, to)[i] = from + i - 1 /\ InOrder(from, to)[i] \in from .. to - 1
<1>1. CASE from < to
  <2>. DEFINE n == to - from
              pages == [i \in 1 .. n |-> from + i - 1]
  <2>1. n \in Nat /\ \A i \in 1 .. n : from + i - 1 \in Nat
    BY <1>1
  <2>. HIDE DEF n
  <2>2. pages \in Seq(Nat) /\ Len(pages) = n /\ \A i \in 1 .. n : pages[i] = from + i - 1
    BY <2>1
  <2>3. InOrder(from, to) = pages
    BY <1>1 DEF InOrder, n
  <2>. HIDE DEF pages
  <2>. QED
    BY <1>1, <2>1, <2>2, <2>3 DEF n
<1>2. CASE ~(from < to)
  BY <1>2 DEF InOrder
<1>. QED
  BY <1>1, <1>2

\* A sequence with its elements in a set.
LEMMA SeqOf ==
  ASSUME NEW A, NEW B, NEW s \in Seq(A), \A i \in 1 .. Len(s) : s[i] \in B
  PROVE  s \in Seq(B)
<1>1. s \in [1 .. Len(s) -> A] /\ Len(s) \in Nat
  OBVIOUS
<1>2. s \in [1 .. Len(s) -> B]
  BY <1>1
<1>. QED
  BY <1>1, <1>2

\* init_pmm, and nothing mapped.
LEMMA InitInv == Init => IInv
<1>. SUFFICES ASSUME Init PROVE IInv
  OBVIOUS
<1>t. /\ total_frames \in Totals /\ total_frames \in 0 .. MAX_FRAMES /\ total_frames \in Nat
      /\ available \in SUBSET (0 .. total_frames - 1)
      /\ bitmap = [f \in Frames |-> IF f \in available /\ ~Reserved(f) THEN 0 ELSE 1]
      /\ owned = {}
  <2>1. total_frames \in Totals /\ init_pmm
    BY DEF Init
  <2>2. total_frames \in 0 .. MAX_FRAMES /\ total_frames \in Nat
    BY <2>1, Sizes DEF init_pmm
  <2>4. bitmap = [f \in Frames |-> IF f \in available /\ ~Reserved(f) THEN 0 ELSE 1]
    BY <2>1 DEF init_pmm, Frames, Reserved
  <2>5. available \in SUBSET (0 .. total_frames - 1)
    BY <2>1 DEF init_pmm, Below
  <2>3. owned = {}
    BY <2>1 DEF init_pmm
  <2>. QED
    BY <2>1, <2>2, <2>3, <2>4, <2>5
<1>0. /\ kernel_directory = NONE /\ work = "boot" /\ todo = <<>> /\ frame = NONE
      /\ new_end = HEAP_START /\ program = <<>> /\ heap_end = HEAP_START /\ oom = 0
      /\ directory = [d \in Entries |-> NONE]
      /\ tables = [f \in Frames |-> NoTable]
  BY DEF Init
<1>1. PmmInv
  <2>2. bitmap \in [Frames -> {0, 1}]
    BY <1>t
  <2>3. FramesTyped
    BY <2>2, <1>t DEF FramesTyped
  <2>4. Accounted
    BY <1>t DEF Accounted, Frames
  <2>5. OwnedUsable
    BY <1>t DEF OwnedUsable
  <2>. QED
    BY <2>3, <2>4, <2>5 DEF PmmInv
<1>2. TypeOK
  <2>1. directory \in [Entries -> Frames \union {NONE}]
    BY <1>0
  <2>2. tables \in [Frames -> [Rows -> Frames \union {NONE}]]
    BY <1>0 DEF NoTable
  <2>3. HEAP_START \in 0 .. UserEnd
    BY PagingAssumption, PmmAssumption
  <2>. QED
    BY <1>0, <2>1, <2>2, <2>3 DEF TypeOK
<1>3. Steady
  BY <1>0, <1>t DEF Steady
<1>4. TablesOwned
  BY <1>0 DEF TablesOwned
<1>5. BootMap
  <2>1. 0 \in 0 .. DIRECTORY - KERNEL_PDE
    BY Sizes
  <2>2. Made(0)
    BY <1>0, Sizes DEF Made
  <2>. QED
    BY <2>1, <2>2 DEF BootMap
<1>6. DirectMap
  BY <1>0 DEF DirectMap
<1>7. PagesOwned
  <2>1. \A u \in Pages : ~Present(u)
    BY <1>0, Index DEF Present, Dir
  <2>2. Pending = {}
    BY <1>0 DEF Pending
  <2>. QED
    BY <2>1, <2>2 DEF PagesOwned, PagesApart
<1>. QED
  BY <1>1, <1>2, <1>3, <1>4, <1>5, <1>6, <1>7 DEF IInv

\* A step after which nothing more is followed.
LEMMA LostInv ==
  ASSUME IInv, Lost, work \in {"boot", "idle"}, PmmInv', total_frames' = total_frames,
         owned' = owned, oom' \in {oom, 1}
  PROVE  IInv'
<1>1. /\ work' = "lost" /\ todo = <<>> /\ frame = NONE /\ oom \in {0, 1}
      /\ UNCHANGED <<pageVars, todo, frame, new_end, program, heap_end>>
  BY DEF Lost, IInv, Steady, TypeOK
<1>2. TypeOK'
  BY <1>1 DEF IInv, TypeOK, pageVars
<1>3. Steady'
  BY <1>1 DEF IInv, Steady
<1>4. TablesOwned'
  BY <1>1 DEF IInv, TablesOwned, pageVars
<1>5. BootMap' /\ DirectMap'
  BY <1>1 DEF BootMap, DirectMap
<1>6. PagesOwned'
  <2>1. Pending' = {}
    BY <1>1 DEF Pending
  <2>2. ASSUME Small', oom' = 0 PROVE PagesApart'
    <3>1. PagesApart
      BY <1>1, <2>2 DEF IInv, PagesOwned, Small
    <3>2. /\ \A u \in Pages : Present(u)' <=> Present(u)
          /\ \A u \in Pages : Translated(u)' = Translated(u)
          /\ \A f : Structure(f)' <=> Structure(f)
      BY <1>1 DEF Present, Translated, Structure, pageVars
    <3>. QED
      BY <2>1, <3>1, <3>2 DEF PagesApart
  <2>. QED
    BY <2>2 DEF PagesOwned
<1>. QED
  BY <1>2, <1>3, <1>4, <1>5, <1>6 DEF IInv

\* init_paging takes a frame for the directory.
LEMMA DirectoryInv == IInv /\ init_directory => IInv'
<1>. SUFFICES ASSUME IInv, init_directory PROVE IInv'
  OBVIOUS
<1>t. /\ directory \in [Entries -> Frames \union {NONE}] /\ oom = 0
      /\ owned \subseteq 1 .. total_frames - 1
  BY Types DEF init_directory, IInv, Steady
<1>0. PICK g \in Frames :
        /\ Gets(g)
        /\ \/ g = 0 /\ Lost
           \/ /\ g # 0 /\ kernel_directory' = g
              /\ UNCHANGED <<directory, tables, work, todo, frame, new_end, program, heap_end>>
  BY DEF init_directory
<1>g. /\ PmmInv' /\ total_frames' = total_frames
      /\ \/ /\ g \in 1 .. total_frames - 1 /\ g \notin owned
            /\ owned' = owned \union {g} /\ oom' = oom
         \/ g = 0 /\ owned' = owned /\ oom' = 1
  BY <1>0, Types, GetsFrame DEF IInv
<1>c. CASE g = 0
  <2>1. Lost /\ owned' = owned /\ oom' = 1 /\ work = "boot"
    <3>1. 0 \notin 1 .. total_frames - 1
      BY Types
    <3>. QED
      BY <1>0, <1>c, <1>g, <3>1 DEF init_directory
  <2>. QED
    BY <1>g, <2>1, LostInv
<1>. SUFFICES ASSUME g # 0 PROVE IInv'
  BY <1>c
<1>1. PmmInv' /\ total_frames' = total_frames
  BY <1>g
<1>2. PICK f \in 1 .. total_frames - 1 : f = g /\ f \notin owned /\ owned' = owned \union {f}
  BY <1>g
<1>3. /\ kernel_directory' = f /\ work = "boot" /\ frame = NONE
      /\ UNCHANGED <<directory, tables, work, todo, frame, new_end, program, heap_end, oom>>
  BY <1>0, <1>2, <1>g DEF init_directory, IInv, Steady
<1>4. f \in Frames /\ f # NONE
  BY Types, Sizes
<1>5. TypeOK'
  BY <1>3, <1>4 DEF IInv, TypeOK
<1>6. Steady'
  BY <1>1, <1>3 DEF IInv, Steady
<1>7. TablesOwned'
  <2>1. \A d \in Entries : directory[d] # NONE => directory[d] \in owned
    BY <1>t DEF IInv, TablesOwned
  <2>2. \A d \in Entries : directory[d] # NONE => directory[d] # f
    BY <2>1, <1>2
  <2>. QED
    BY <1>2, <1>3, <2>1, <2>2 DEF IInv, TablesOwned
<1>8. BootMap'
  <2>1. \A i : DirectTable(i)' = DirectTable(i)
    BY <1>1 DEF DirectTable
  <2>. QED
    BY <1>3, <2>1 DEF IInv, BootMap, Made
<1>9. DirectMap'
  BY <1>3 DEF DirectMap
<1>10. PagesOwned'
  <2>1. ASSUME Small' PROVE PagesApart'
    <3>1. PagesApart
      BY <2>1, <1>1, <1>t DEF IInv, PagesOwned, Small
    <3>2. /\ \A u \in Pages : Present(u)' <=> Present(u)
          /\ \A u \in Pages : Translated(u)' = Translated(u)
      BY <1>3 DEF Present, Translated
    <3>3. \A h \in owned : Structure(h)' => Structure(h)
      BY <1>2, <1>3 DEF Structure
    <3>4. Pending' = {}
      BY <1>3 DEF Pending
    <3>. QED
      BY <1>2, <3>1, <3>2, <3>3, <3>4 DEF PagesApart
  <2>. QED
    BY <2>1 DEF PagesOwned
<1>. QED
  BY <1>1, <1>5, <1>6, <1>7, <1>8, <1>9, <1>10 DEF IInv

\* The loop of init_paging counts the tables it has made.
LEMMA MadeCount ==
  ASSUME NEW n \in 0 .. DIRECTORY - KERNEL_PDE, Made(n)
  PROVE  TablesMade = n
<1>1. {d \in Entries : directory[d] # NONE} = KERNEL_PDE .. KERNEL_PDE + n - 1
  BY Sizes DEF Made
<1>2. Cardinality(KERNEL_PDE .. KERNEL_PDE + n - 1) = n
  <2>1. KERNEL_PDE \in Int /\ KERNEL_PDE + n - 1 \in Int /\ n \in Nat
    BY Sizes
  <2>2. Cardinality(KERNEL_PDE .. KERNEL_PDE + n - 1) =
          IF KERNEL_PDE > KERNEL_PDE + n - 1 THEN 0 ELSE (KERNEL_PDE + n - 1) - KERNEL_PDE + 1
    BY <2>1, FS_Interval
  <2>. QED
    BY <2>1, <2>2
<1>. QED
  BY <1>1, <1>2 DEF TablesMade

\* ... and a frame for each table of the higher half.
LEMMA TableInv == IInv /\ init_table => IInv'
<1>. SUFFICES ASSUME IInv, init_table PROVE IInv'
  OBVIOUS
<1>t. /\ directory \in [Entries -> Frames \union {NONE}]
      /\ tables \in [Frames -> [Rows -> Frames \union {NONE}]]
      /\ oom = 0 /\ total_frames \in Nat /\ total_frames <= MAX_FRAMES
      /\ owned \subseteq 1 .. total_frames - 1
  BY Types DEF init_table, IInv, Steady
<1>0. PICK g \in Frames :
        /\ Gets(g)
        /\ \/ g = 0 /\ Lost
           \/ /\ g # 0
              /\ directory' = [directory EXCEPT ![KERNEL_PDE + TablesMade] = g]
              /\ tables' = [tables EXCEPT ![g] = DirectTable(TablesMade)]
              /\ UNCHANGED <<kernel_directory, work, todo, frame, new_end, program, heap_end>>
  BY DEF init_table
<1>g. /\ PmmInv' /\ total_frames' = total_frames
      /\ \/ /\ g \in 1 .. total_frames - 1 /\ g \notin owned
            /\ owned' = owned \union {g} /\ oom' = oom
         \/ g = 0 /\ owned' = owned /\ oom' = 1
  BY <1>0, Types, GetsFrame DEF IInv
<1>c. CASE g = 0
  <2>1. Lost /\ owned' = owned /\ oom' = 1 /\ work = "boot"
    <3>1. 0 \notin 1 .. total_frames - 1
      BY <1>t
    <3>. QED
      BY <1>0, <1>c, <1>g, <3>1 DEF init_table
  <2>. QED
    BY <1>g, <2>1, LostInv
<1>. SUFFICES ASSUME g # 0 PROVE IInv'
  BY <1>c
<1>1. PmmInv' /\ total_frames' = total_frames
  BY <1>g
<1>2. PICK f \in 1 .. total_frames - 1 : f = g /\ f \notin owned /\ owned' = owned \union {f}
  BY <1>g
<1>3. PICK n \in 0 .. DIRECTORY - KERNEL_PDE : Made(n)
  BY DEF init_table, IInv, BootMap
<1>4. TablesMade = n
  BY <1>3, MadeCount
<1>5. /\ work = "boot" /\ frame = NONE /\ kernel_directory # NONE
      /\ directory' = [directory EXCEPT ![KERNEL_PDE + n] = f]
      /\ tables' = [tables EXCEPT ![f] = DirectTable(n)]
      /\ UNCHANGED <<kernel_directory, work, todo, frame, new_end, program, heap_end, oom>>
  BY <1>0, <1>2, <1>4, <1>g DEF init_table, IInv, Steady
<1>6. n < DIRECTORY - KERNEL_PDE /\ n \in Nat /\ KERNEL_PDE + n \in Entries
  BY <1>4, Sizes DEF init_table, Booted
<1>7. f \in Frames /\ f # NONE
  BY <1>t, Sizes
<1>8. DirectTable(n) \in [Rows -> Frames \union {NONE}]
  <2>. SUFFICES ASSUME NEW j \in Rows, n * TABLE + j < total_frames
                PROVE  n * TABLE + j \in Frames
    BY DEF DirectTable
  <2>1. n * TABLE + j \in Nat
    BY <1>6, Sizes, Z3
  <2>. DEFINE x == n * TABLE + j
  <2>2. x \in Nat /\ x < total_frames
    BY <2>1
  <2>. HIDE DEF x
  <2>3. x \in Frames
    BY <2>2, <1>t, Sizes
  <2>. QED
    BY <2>3 DEF x
<1>9. directory' \in [Entries -> Frames \union {NONE}]
  BY <1>t, <1>5, <1>7
<1>10. tables' \in [Frames -> [Rows -> Frames \union {NONE}]]
  BY <1>t, <1>5, <1>7, <1>8
<1>11. TypeOK'
  BY <1>5, <1>9, <1>10 DEF IInv, TypeOK
<1>12. Steady'
  BY <1>1, <1>5 DEF IInv, Steady
<1>13. /\ \A d \in Entries : d # KERNEL_PDE + n => directory'[d] = directory[d]
       /\ directory'[KERNEL_PDE + n] = f
       /\ \A d \in Entries : directory[d] # NONE => directory[d] \in owned /\ directory[d] # f
  <2>1. \A d \in Entries : directory[d] # NONE => directory[d] \in owned
    BY <1>t DEF IInv, TablesOwned
  <2>. QED
    BY <2>1, <1>t, <1>5, <1>6, <1>2
<1>14. kernel_directory \in owned /\ kernel_directory # f
  BY <1>2, <1>5 DEF IInv, TablesOwned
<1>15. TablesOwned'
  <2>1. kernel_directory' # NONE /\ kernel_directory' \in owned'
    BY <1>14, <1>2, <1>5
  <2>2. \A d \in Entries : directory'[d] # NONE =>
          directory'[d] # kernel_directory' /\ directory'[d] \in owned'
    BY <1>13, <1>14, <1>2, <1>5 DEF IInv, TablesOwned
  <2>3. \A d, e \in Entries :
          directory'[d] = directory'[e] /\ directory'[d] \notin {0, NONE} => d = e
    BY <1>13, <1>7 DEF IInv, TablesOwned
  <2>. QED
    BY <2>1, <2>2, <2>3 DEF TablesOwned
<1>16. BootMap'
  <2>1. \A i : DirectTable(i)' = DirectTable(i)
    BY <1>1 DEF DirectTable
  <2>2. Made(n + 1)'
    <3>. SUFFICES ASSUME NEW d \in Entries
                  PROVE  /\ directory'[d] # NONE
                              <=> d \in KERNEL_PDE .. KERNEL_PDE + (n + 1) - 1
                         /\ directory'[d] # NONE =>
                              tables'[directory'[d]] = DirectTable(d - KERNEL_PDE)
      BY <2>1 DEF Made
    <3>1. CASE d = KERNEL_PDE + n
      <4>1. d - KERNEL_PDE = n
        BY <3>1, <1>6, Sizes
      <4>2. d \in KERNEL_PDE .. KERNEL_PDE + (n + 1) - 1
        BY <3>1, <1>6, Sizes
      <4>3. tables'[f] = DirectTable(n)
        BY <1>5, <1>7, <1>t
      <4>. QED
        BY <3>1, <4>1, <4>2, <4>3, <1>13, <1>7
    <3>2. CASE d # KERNEL_PDE + n
      <4>1. d \in KERNEL_PDE .. KERNEL_PDE + (n + 1) - 1 <=> d \in KERNEL_PDE .. KERNEL_PDE + n - 1
        BY <3>2, <1>6, Sizes
      <4>2. directory'[d] = directory[d]
        BY <3>2, <1>13
      <4>3. ASSUME directory[d] # NONE PROVE tables'[directory[d]] = tables[directory[d]]
        <5>1. directory[d] # f
          BY <4>3, <1>13
        <5>. QED
          BY <5>1, <1>5, <1>t
      <4>. QED
        BY <4>1, <4>2, <4>3, <1>3 DEF Made
    <3>. QED
      BY <3>1, <3>2
  <2>3. n + 1 \in 0 .. DIRECTORY - KERNEL_PDE
    BY <1>6, Sizes
  <2>. QED
    BY <2>2, <2>3 DEF BootMap
<1>17. DirectMap'
  BY <1>5 DEF DirectMap
<1>18. PagesOwned'
  <2>1. ASSUME Small' PROVE PagesApart'
    <3>1. PagesApart /\ Small
      BY <2>1, <1>1, <1>t DEF IInv, PagesOwned, Small
    <3>2. ASSUME NEW u \in Pages, Dir(u) = KERNEL_PDE + n PROVE ~Present(u)'
      <4>1. u \in Nat /\ Ent(u) \in Rows /\ Dir(u) \in Entries
        BY Index
      <4>2. u = (u \div TABLE) * TABLE + (u % TABLE)
        BY <4>1, Sizes, Division
      <4>3. u = (KERNEL_PDE + n) * TABLE + Ent(u)
        BY <4>2, <3>2, Zenon DEF Dir, Ent
      <4>4. u \in Window
        BY <3>2, <1>6, Index, Sizes DEF Pages
      <4>5. u >= RX_PAGE
        BY <4>4, Index
      <4>6. ~(n * TABLE + Ent(u) < total_frames)
        <5>. DEFINE e == Ent(u)
                    a == KERNEL_PDE * TABLE
                    b == n * TABLE
        <5>1. e \in Nat /\ a \in Nat /\ b \in Nat
          BY <4>1, <1>6, Sizes, Z3
        <5>2. (KERNEL_PDE + n) * TABLE = a + b
          BY <1>6, Sizes, Z3
        <5>3. a + total_frames <= RX_PAGE
          BY <3>1 DEF Small
        <5>. HIDE DEF e, a, b
        <5>4. u = a + b + e
          BY <4>3, <5>2 DEF e
        <5>5. ~(b + e < total_frames)
          BY <5>1, <5>3, <5>4, <4>5, <1>t, Sizes
        <5>. QED
          BY <5>5 DEF b, e
      <4>7. DirectTable(n)[Ent(u)] = NONE
        BY <4>1, <4>6 DEF DirectTable
      <4>8. tables'[directory'[Dir(u)]] = DirectTable(n)
        BY <3>2, <1>13, <1>5, <1>7, <1>t
      <4>. QED
        BY <4>7, <4>8 DEF Present, Dir, Ent
    <3>3. ASSUME NEW u \in Pages, Dir(u) # KERNEL_PDE + n
          PROVE  (Present(u)' <=> Present(u)) /\ (Present(u) => Translated(u)' = Translated(u))
      <4>1. Dir(u) \in Entries
        BY Index
      <4>2. directory'[Dir(u)] = directory[Dir(u)]
        BY <4>1, <3>3, <1>13
      <4>3. directory[Dir(u)] # NONE => tables'[directory[Dir(u)]] = tables[directory[Dir(u)]]
        BY <4>1, <1>13, <1>5, <1>t
      <4>. QED
        BY <4>2, <4>3 DEF Present, Translated, Dir
    <3>4. \A h \in owned : Structure(h)' => Structure(h)
      BY <1>2, <1>5, <1>13 DEF Structure
    <3>5. Pending' = {}
      BY <1>5 DEF Pending
    <3>6. \A u \in Pages : Present(u)' => Present(u) /\ Translated(u)' = Translated(u)
      BY <3>2, <3>3
    <3>. QED
      BY <1>2, <3>1, <3>4, <3>5, <3>6 DEF PagesApart
  <2>. QED
    BY <2>1 DEF PagesOwned
<1>. QED
  BY <1>1, <1>11, <1>12, <1>15, <1>16, <1>17, <1>18 DEF IInv

\* When the loop ends, every frame can be seen.
LEMMA BootedDirect ==
  ASSUME IInv, work = "boot", Booted, Small, NEW f \in 0 .. total_frames - 1
  PROVE  directory[Dir(Direct(f))] \in owned /\ Translated(Direct(f)) = f
<1>t. total_frames \in Nat /\ f \in Nat /\ oom = 0
  BY Types DEF IInv, Steady
<1>1. PICK n \in 0 .. DIRECTORY - KERNEL_PDE : Made(n)
  BY DEF IInv, BootMap
<1>2. n = num_tables \/ KERNEL_PDE + n = DIRECTORY
  BY <1>1, MadeCount DEF Booted
<1>. DEFINE i == f \div TABLE
            j == f % TABLE
<1>3. /\ Dir(Direct(f)) = KERNEL_PDE + i /\ Ent(Direct(f)) = j
      /\ i \in Nat /\ j \in Rows /\ i * TABLE + j = f
  BY <1>t, DirectIndex
<1>4. Dir(Direct(f)) \in Entries
  BY <1>t, DirectSmall
<1>5. i < num_tables
  <2>. DEFINE x == total_frames + TABLE - 1
  <2>1. x \in Nat /\ x \div TABLE \in Nat
    <3>1. x \in Nat
      BY <1>t, Sizes
    <3>. HIDE DEF x
    <3>. QED
      BY <3>1, Sizes, Division
  <2>2. ~(x < (i + 1) * TABLE)
    <3>1. (i + 1) * TABLE = i * TABLE + TABLE
      BY <1>3, Sizes, Z3
    <3>2. i * TABLE <= f /\ i * TABLE \in Int
      BY <1>3, Sizes, Z3
    <3>. HIDE DEF i
    <3>. QED
      BY <3>1, <3>2, <1>t, Sizes
  <2>. HIDE DEF x, i
  <2>3. i + 1 \in Nat
    BY <1>3
  <2>4. ~(x \div TABLE < i + 1)
    BY <2>1, <2>2, <2>3, Sizes, DivisionBound
  <2>5. x \div TABLE = num_tables
    BY DEF x, num_tables
  <2>. QED
    BY <2>1, <2>3, <2>4, <2>5, <1>3
<1>. HIDE DEF i, j
<1>6. KERNEL_PDE + i \in KERNEL_PDE .. KERNEL_PDE + n - 1
  <2>1. i < n
    BY <1>2, <1>3, <1>4, <1>5, Sizes
  <2>. QED
    BY <2>1, <1>3, Sizes
<1>7. /\ directory[KERNEL_PDE + i] # NONE
      /\ tables[directory[KERNEL_PDE + i]] = DirectTable((KERNEL_PDE + i) - KERNEL_PDE)
  BY <1>1, <1>3, <1>4, <1>6 DEF Made
<1>8. (KERNEL_PDE + i) - KERNEL_PDE = i
  BY <1>3, Sizes
<1>9. DirectTable(i)[j] = f
  BY <1>3, <1>t DEF DirectTable
<1>10. directory[KERNEL_PDE + i] \in owned
  BY <1>3, <1>4, <1>7, <1>t DEF IInv, TablesOwned
<1>. QED
  BY <1>3, <1>7, <1>8, <1>9, <1>10 DEF Translated, Dir, Ent

\* init_rtl8139 takes the frames of a buffer.
LEMMA BufferInv ==
  ASSUME IInv, NEW count \in Counts, NEW page \in Nat,
         count <= MAX_FRAMES, page .. page + count - 1 \subseteq Window,
         Buffer(count, page), work' \in {"rx", "tx"},
         work \notin {"boot", "lost"} \/ kernel_directory # NONE, todo = <<>>
  PROVE  TypeOK' /\ PmmInv' /\ Steady' /\ TablesOwned' /\ PagesOwned'
<1>t. /\ oom \in {0, 1} /\ count \in Nat /\ count >= 1 /\ MAX_FRAMES \in Nat
      /\ total_frames \in Nat /\ total_frames <= MAX_FRAMES /\ PmmInv
  BY Types, Sizes DEF IInv
<1>1. /\ todo' = InOrder(page, page + count)
      /\ UNCHANGED <<pageVars, new_end, program, heap_end>>
  BY DEF Buffer
<1>2. todo' \in Seq(Window) /\ Len(todo') = count
  <2>1. /\ InOrder(page, page + count) \in Seq(Nat)
        /\ Len(InOrder(page, page + count)) = count
        /\ \A i \in 1 .. Len(InOrder(page, page + count)) :
             InOrder(page, page + count)[i] \in page .. (page + count) - 1
    <3>. DEFINE to == page + count
    <3>1. to \in Nat /\ page < to /\ to - page = count
      BY <1>t
    <3>. HIDE DEF to
    <3>2. /\ InOrder(page, to) \in Seq(Nat) /\ Len(InOrder(page, to)) = count
          /\ \A i \in 1 .. Len(InOrder(page, to)) : InOrder(page, to)[i] \in page .. to - 1
      BY <3>1, InOrderPages
    <3>. QED
      BY <3>2 DEF to
  <2>2. InOrder(page, page + count) \in Seq(Window)
    BY <2>1, SeqOf
  <2>. QED
    BY <1>1, <2>1, <2>2
<1>3. /\ PmmInv' /\ total_frames' = total_frames /\ owned \subseteq owned'
      /\ oom' \in {oom, 1} /\ frame' \in Nat /\ frame' + count <= MAX_FRAMES
      /\ oom' = 0 => \A f \in frame' .. frame' + count - 1 : f \in owned' /\ f \notin owned
  <2>1. CASE /\ alloc_contiguous_frames(count)
             /\ frame' \in owned' \ owned /\ \A f \in owned' \ owned : frame' <= f
             /\ UNCHANGED oom
    <3>1. PmmInv' /\ total_frames' = total_frames
      BY <2>1, <1>t, AllocRun
    <3>2. PICK s \in 1 .. total_frames - 1 :
              /\ s + count <= total_frames
              /\ \A f \in s .. s + count - 1 : f \notin owned
              /\ owned' = owned \union (s .. s + count - 1)
      BY <2>1, <1>t, AllocRun
    <3>3. owned' \ owned = s .. s + count - 1
      BY <3>2
    <3>4. frame' = s
      <4>1. s \in s .. s + count - 1
        BY <1>t
      <4>2. frame' \in s .. s + count - 1 /\ frame' <= s
        BY <2>1, <3>3, <4>1
      <4>. QED
        BY <4>2
    <3>. QED
      BY <1>t, <2>1, <3>1, <3>2, <3>3, <3>4
  <2>2. CASE alloc_contiguous_fails(count) /\ frame' = 0 /\ oom' = 1
    <3>1. UNCHANGED pmmVars
      BY <2>2 DEF alloc_contiguous_fails, pmmVars
    <3>2. PmmInv'
      BY <3>1, <1>t, PmmAlone
    <3>. QED
      BY <1>t, <2>2, <3>1, <3>2 DEF pmmVars
  <2>. QED
    BY <2>1, <2>2 DEF Buffer
<1>4. Pending' \subseteq frame' .. frame' + count - 1
  BY <1>2, <1>3, <1>t DEF Pending
<1>5. TablesOwned' /\ PagesOwned'
  <2>1. UNCHANGED pageVars
    BY <1>1
  <2>2. oom' = 0 => \A f \in Pending' : f \in owned' /\ (f \in Pending \/ f \notin owned)
    BY <1>3, <1>4
  <2>. QED
    BY <2>1, <2>2, <1>3, Grown
<1>6. Steady'
  <2>1. frame' + Len(todo') <= MAX_FRAMES
    BY <1>2, <1>3
  <2>. QED
    BY <2>1, <1>3 DEF IInv, Steady
<1>7. TypeOK'
  <2>1. /\ kernel_directory' \in Frames \union {NONE}
        /\ directory' \in [Entries -> Frames \union {NONE}]
        /\ tables' \in [Frames -> [Rows -> Frames \union {NONE}]]
        /\ {new_end', heap_end'} \subseteq 0 .. UserEnd
        /\ program' \in (Programs \intersect Seq(UserPages)) \union {<<>>}
    BY <1>1 DEF IInv, TypeOK, pageVars
  <2>2. frame' \in 0 .. MAX_FRAMES
    <3>1. frame' \in Nat /\ frame' + count <= MAX_FRAMES
      BY <1>3
    <3>2. count \in Nat /\ MAX_FRAMES \in Nat
      BY <1>t
    <3>3. \A a, b \in Nat : a + b <= MAX_FRAMES => a \in 0 .. MAX_FRAMES
      BY <3>2
    <3>. QED
      BY <3>1, <3>2, <3>3
  <2>3. oom' \in {0, 1}
    BY <1>3, <1>t
  <2>. QED
    BY <2>1, <2>2, <2>3, <1>2 DEF TypeOK
<1>. QED
  BY <1>3, <1>5, <1>6, <1>7

\* The buffers' pages.
LEMMA BufferPages ==
  /\ RX_PAGE .. RX_PAGE + RX_FRAMES - 1 \subseteq Window
  /\ TX_PAGE .. TX_PAGE + TX_FRAMES - 1 \subseteq Window
BY DEF Window

\* init_paging is done and the receive buffer's frames are taken, ...
LEMMA RxInv == IInv /\ init_rx => IInv'
<1>. SUFFICES ASSUME IInv, init_rx PROVE IInv'
  OBVIOUS
<1>1. /\ work = "boot" /\ kernel_directory # NONE /\ Booted /\ todo = <<>>
      /\ Buffer(RX_FRAMES, RX_PAGE) /\ work' = "rx"
  BY DEF init_rx, IInv, Steady
<1>2. TypeOK' /\ PmmInv' /\ Steady' /\ TablesOwned' /\ PagesOwned'
  BY <1>1, Sizes, BufferPages, BufferInv
<1>3. BootMap'
  BY <1>1 DEF BootMap
<1>4. DirectMap'
  <2>1. UNCHANGED pageVars
    BY <1>1 DEF Buffer
  <2>2. total_frames' = total_frames /\ owned \subseteq owned'
    <3>1. CASE alloc_contiguous_frames(RX_FRAMES)
      BY <3>1, AllocRun, Sizes DEF IInv
    <3>2. CASE alloc_contiguous_fails(RX_FRAMES)
      BY <3>2 DEF alloc_contiguous_fails, pmmVars
    <3>. QED
      BY <1>1, <3>1, <3>2 DEF Buffer
  <2>3. ASSUME Small', NEW f \in 0 .. total_frames - 1
        PROVE  directory[Dir(Direct(f))] \in owned /\ Translated(Direct(f)) = f
    <3>1. Small
      BY <2>2, <2>3 DEF Small
    <3>. QED
      BY <3>1, <1>1, BootedDirect
  <2>. QED
    BY <2>1, <2>2, <2>3 DEF DirectMap, pageVars, Translated, Dir, Direct
<1>. QED
  BY <1>2, <1>3, <1>4 DEF IInv

\* ... then the transmit buffer's.
LEMMA TxInv == IInv /\ init_tx => IInv'
<1>. SUFFICES ASSUME IInv, init_tx PROVE IInv'
  OBVIOUS
<1>1. /\ work = "rx" /\ todo = <<>>
      /\ Buffer(TX_FRAMES, TX_PAGE) /\ work' = "tx"
  BY DEF init_tx, Finished
<1>2. TypeOK' /\ PmmInv' /\ Steady' /\ TablesOwned' /\ PagesOwned'
  BY <1>1, Sizes, BufferPages, BufferInv
<1>3. BootMap'
  BY <1>1 DEF BootMap
<1>4. DirectMap'
  <2>1. UNCHANGED pageVars
    BY <1>1 DEF Buffer
  <2>2. total_frames' = total_frames /\ owned \subseteq owned'
    <3>1. CASE alloc_contiguous_frames(TX_FRAMES)
      BY <3>1, AllocRun, Sizes DEF IInv
    <3>2. CASE alloc_contiguous_fails(TX_FRAMES)
      BY <3>2 DEF alloc_contiguous_fails, pmmVars
    <3>. QED
      BY <1>1, <3>1, <3>2 DEF Buffer
  <2>. QED
    BY <2>1, <2>2, <1>1, GrownDirect
<1>. QED
  BY <1>2, <1>3, <1>4 DEF IInv

\* A step that only moves from one phase to the next.
LEMMA PhaseInv ==
  ASSUME IInv, UNCHANGED <<pmmVars, pageVars, oom>>,
         work \notin {"boot", "lost"}, work' # "boot",
         Pending' \subseteq Pending, TypeOK', Steady'
  PROVE  IInv'
<1>1. UNCHANGED pmmVars /\ UNCHANGED pageVars /\ oom' = oom
  OBVIOUS
<1>2. total_frames' = total_frames /\ owned' = owned
  BY <1>1 DEF pmmVars
<1>3. PmmInv'
  BY <1>1, PmmAlone DEF IInv
<1>4. \A f \in Pending' : f \in Pending
  OBVIOUS
<1>5. oom = 0 => \A f \in Pending : f \in owned \/ ~Small
  BY DEF IInv, PagesOwned, PagesApart
<1>6. TablesOwned' /\ PagesOwned'
  <2>1. CASE Small
    <3>1. oom' = 0 => \A f \in Pending' : f \in owned' /\ (f \in Pending \/ f \notin owned)
      BY <1>1, <1>2, <1>4, <1>5, <2>1
    <3>. QED
      BY <3>1, <1>1, <1>2, Grown
  <2>2. CASE ~Small
    <3>1. ~Small'
      BY <2>2, <1>2 DEF Small
    <3>2. PagesOwned'
      BY <3>1 DEF PagesOwned
    <3>3. TablesOwned'
      BY <1>1, <1>2 DEF IInv, TablesOwned, pageVars
    <3>. QED
      BY <3>2, <3>3
  <2>. QED
    BY <2>1, <2>2
<1>7. DirectMap'
  BY <1>1, <1>2, GrownDirect
<1>8. BootMap'
  BY DEF BootMap
<1>. QED
  BY <1>3, <1>6, <1>7, <1>8 DEF IInv

\* The driver is done.
LEMMA InitDoneInv == IInv /\ init_done => IInv'
<1>. SUFFICES ASSUME IInv, init_done PROVE IInv'
  OBVIOUS
<1>1. /\ work = "tx" /\ todo = <<>> /\ work' = "idle" /\ frame' = NONE
      /\ UNCHANGED <<pmmVars, pageVars, todo, new_end, program, heap_end, oom>>
  BY DEF init_done, Finished
<1>2. Pending' = {}
  BY <1>1 DEF Pending
<1>3. TypeOK'
  BY <1>1 DEF IInv, TypeOK, pageVars
<1>4. Steady'
  BY <1>1 DEF IInv, Steady, pmmVars
<1>. QED
  BY <1>1, <1>2, <1>3, <1>4, PhaseInv

\* elf_load begins.
LEMMA ElfInv == ASSUME IInv, NEW pages \in Programs, elf_load(pages) PROVE IInv'
<1>p. work = "idle" /\ UNCHANGED pmmVars /\ oom' = oom
  BY DEF elf_load
<1>c. CASE Lost
  <2>1. PmmInv' /\ total_frames' = total_frames /\ owned' = owned
    BY <1>p, PmmAlone DEF IInv, pmmVars
  <2>. QED
    BY <1>c, <1>p, <2>1, LostInv
<1>d. CASE ~Lost
  <2>1. /\ work = "idle" /\ work' = "exec" /\ todo' = pages /\ program' = pages /\ frame = NONE
        /\ pages \in Seq(UserPages)
        /\ UNCHANGED <<pmmVars, pageVars, frame, new_end, heap_end, oom>>
    BY <1>d DEF elf_load, IInv, Steady
  <2>2. Pending' = {}
    BY <2>1 DEF Pending
  <2>3. TypeOK'
    BY <2>1 DEF IInv, TypeOK, pageVars
  <2>4. Steady'
    BY <2>1 DEF IInv, Steady, pmmVars
  <2>. QED
    BY <2>1, <2>2, <2>3, <2>4, PhaseInv
<1>. QED
  BY <1>c, <1>d

\* create_task, task_exit and the end of sbrk.
LEMMA TaskInv == IInv /\ (create_task \/ task_exit \/ sbrk_done) => IInv'
<1>. SUFFICES ASSUME IInv, create_task \/ task_exit \/ sbrk_done PROVE IInv'
  OBVIOUS
<1>1. /\ work \in {"exec", "sbrk", "idle"} /\ work' = "idle"
      /\ todo = <<>> /\ frame = NONE
      /\ UNCHANGED <<pmmVars, pageVars, todo, frame, oom>>
  BY DEF create_task, task_exit, sbrk_done, Finished, IInv, Steady
<1>2. /\ {new_end', heap_end'} \subseteq {new_end, heap_end, HEAP_START}
      /\ program' \in {program, <<>>}
  BY DEF create_task, task_exit, sbrk_done
<1>3. Pending' = {}
  BY <1>1 DEF Pending
<1>4. TypeOK'
  <2>1. {new_end', heap_end'} \subseteq 0 .. UserEnd
    BY <1>2, PagingAssumption DEF IInv, TypeOK
  <2>2. program' \in (Programs \intersect Seq(UserPages)) \union {<<>>}
    BY <1>2 DEF IInv, TypeOK
  <2>. QED
    BY <1>1, <2>1, <2>2 DEF IInv, TypeOK, pageVars
<1>5. Steady'
  BY <1>1 DEF IInv, Steady, pmmVars
<1>. QED
  BY <1>1, <1>3, <1>4, <1>5, PhaseInv

\* Rounding up to pages: the pages that begin below an address.
LEMMA RoundUp ==
  ASSUME NEW a \in Nat
  PROVE  /\ (a + PAGE - 1) \div PAGE \in Nat
         /\ \A v \in Nat : v < (a + PAGE - 1) \div PAGE <=> v * PAGE < a
<1>. DEFINE x == a + PAGE - 1
            q == x \div PAGE
<1>1. PAGE \in Nat \ {0} /\ x \in Nat
  BY Sizes
<1>2. q \in Nat
  <2>. HIDE DEF x
  <2>. QED
    BY <1>1, Division
<1>3. ASSUME NEW v \in Nat PROVE v < q <=> v * PAGE < a
  <2>1. v + 1 \in Nat
    OBVIOUS
  <2>2. x < (v + 1) * PAGE <=> q < v + 1
    <3>. HIDE DEF x
    <3>. QED
      BY <1>1, <2>1, DivisionBound
  <2>3. (v + 1) * PAGE = v * PAGE + PAGE /\ v * PAGE \in Nat
    BY <1>1, Z3
  <2>. DEFINE b == v * PAGE
  <2>. HIDE DEF q, b
  <2>4. x < b + PAGE <=> q < v + 1
    BY <2>2, <2>3 DEF b
  <2>5. b \in Nat
    BY <2>3 DEF b
  <2>6. v < q <=> b < a
    BY <2>4, <2>5, <1>1, <1>2
  <2>. QED
    BY <2>6 DEF b
<1>. QED
  BY <1>2, <1>3

\* The address space has room for the user half.
LEMMA SpaceSizes == Space \in Nat \ {0} /\ UserEnd \in Nat
<1>1. /\ KERNEL_PDE * TABLE \in Nat /\ DIRECTORY * TABLE \in Nat /\ PAGE \in Nat \ {0}
      /\ DIRECTORY \in Nat \ {0} /\ TABLE \in Nat \ {0}
  BY Sizes
<1>2. DIRECTORY * TABLE # 0
  BY <1>1, Z3
<1>. DEFINE k == KERNEL_PDE * TABLE
            d == DIRECTORY * TABLE
<1>3. k \in Nat /\ d \in Nat \ {0}
  BY <1>1, <1>2
<1>. HIDE DEF k, d
<1>4. k * PAGE \in Nat /\ d * PAGE \in Nat /\ d * PAGE # 0
  BY <1>1, <1>3, Z3
<1>. QED
  BY <1>4 DEF Space, UserEnd, k, d

\* The pages of sbrk's loop.
LEMMA SbrkPages ==
  ASSUME IInv, NEW increment \in Increments, sys_sbrk(increment), ~Lost
  PROVE  /\ heap_end \in Nat /\ new_end' \in 0 .. UserEnd
         /\ todo' \in Seq(UserPages)
         /\ \A i \in 1 .. Len(todo') : ~(todo'[i] * PAGE < heap_end)
         /\ \A v \in Nat : v * PAGE < new_end' =>
              v * PAGE < heap_end \/ \E i \in 1 .. Len(todo') : todo'[i] = v
<1>0. PICK end : /\ end = (heap_end + increment) % Space /\ end <= UserEnd
                 /\ new_end' = end /\ todo' = InOrder(old_page, new_page(end))
  BY DEF sys_sbrk
<1>. DEFINE from == old_page
            to == new_page(end)
<1>1. Space \in Nat \ {0} /\ UserEnd \in Nat /\ UserEnd = KERNEL_PDE * TABLE * PAGE
  BY SpaceSizes DEF UserEnd
<1>2. heap_end \in Nat /\ end \in Nat /\ end <= UserEnd
  <2>1. heap_end \in 0 .. UserEnd
    BY DEF IInv, TypeOK
  <2>2. heap_end + increment \in Int
    BY <1>1, <2>1, PagingAssumption
  <2>3. \A a \in Int, b \in Nat \ {0} : a % b \in Nat
    BY Z3
  <2>4. end \in Nat
    BY <1>0, <1>1, <2>2, <2>3
  <2>. QED
    BY <1>0, <1>1, <2>1, <2>4
<1>3. todo' = InOrder(from, to)
  BY <1>0
<1>4. /\ from \in Nat /\ to \in Nat
      /\ \A v \in Nat : v < from <=> v * PAGE < heap_end
      /\ \A v \in Nat : v < to <=> v * PAGE < end
  BY <1>2, RoundUp DEF old_page, new_page
<1>. HIDE DEF from, to
<1>5. /\ todo' \in Seq(Nat) /\ Len(todo') = IF from < to THEN to - from ELSE 0
      /\ \A i \in 1 .. Len(todo') : todo'[i] = from + i - 1 /\ todo'[i] \in from .. to - 1
  BY <1>3, <1>4, InOrderPages
<1>6. ASSUME NEW i \in 1 .. Len(todo')
      PROVE  todo'[i] \in UserPages /\ ~(todo'[i] * PAGE < heap_end)
  <2>. DEFINE v == todo'[i]
  <2>1. v \in from .. to - 1
    BY <1>5
  <2>. HIDE DEF v
  <2>2. v \in Nat /\ v < to /\ ~(v < from)
    BY <2>1, <1>4
  <2>3. v * PAGE < end /\ ~(v * PAGE < heap_end)
    BY <2>2, <1>4
  <2>4. v < KERNEL_PDE * TABLE
    <3>. DEFINE k == KERNEL_PDE * TABLE
    <3>1. k \in Nat /\ PAGE \in Nat \ {0}
      BY Sizes
    <3>. HIDE DEF k
    <3>2. UserEnd = k * PAGE
      BY <1>1 DEF k
    <3>3. ASSUME ~(v < k) PROVE FALSE
      <4>1. k * PAGE <= v * PAGE /\ k * PAGE \in Int /\ v * PAGE \in Int
        BY <3>1, <3>3, <2>2, Z3
      <4>. DEFINE y == k * PAGE
                  z == v * PAGE
      <4>2. y <= z /\ y \in Int /\ z \in Int /\ UserEnd = y /\ z < end
        BY <4>1, <3>2, <2>3
      <4>. HIDE DEF y, z
      <4>. QED
        BY <4>2, <1>2, <1>1
    <3>4. v < k
      BY <3>3
    <3>. QED
      BY <3>4 DEF k
  <2>5. v \in UserPages
    BY <2>2, <2>4, Sizes DEF UserPages
  <2>. QED
    BY <2>3, <2>5 DEF v
<1>7. todo' \in Seq(UserPages)
  BY <1>5, <1>6, SeqOf
<1>8. ASSUME NEW v \in Nat, v * PAGE < end, ~(v * PAGE < heap_end)
      PROVE  \E i \in 1 .. Len(todo') : todo'[i] = v
  <2>1. v < to /\ ~(v < from)
    BY <1>8, <1>4
  <2>2. v - from + 1 \in 1 .. Len(todo') /\ from + (v - from + 1) - 1 = v
    BY <2>1, <1>4, <1>5
  <2>. QED
    BY <2>2, <1>5
<1>. QED
  BY <1>0, <1>1, <1>2, <1>6, <1>7, <1>8

\* sbrk begins.
LEMMA SbrkInv ==
  ASSUME IInv, NEW increment \in Increments, sys_sbrk(increment)
  PROVE  IInv'
<1>p. work = "idle" /\ UNCHANGED pmmVars /\ oom' = oom
  BY DEF sys_sbrk
<1>c. CASE Lost
  <2>1. PmmInv' /\ total_frames' = total_frames /\ owned' = owned
    BY <1>p, PmmAlone DEF IInv, pmmVars
  <2>. QED
    BY <1>c, <1>p, <2>1, LostInv
<1>d. CASE ~Lost
  <2>1. /\ work = "idle" /\ work' = "sbrk" /\ frame = NONE
        /\ UNCHANGED <<pmmVars, pageVars, frame, program, heap_end, oom>>
    BY <1>d DEF sys_sbrk, IInv, Steady
  <2>2. Pending' = {}
    BY <2>1 DEF Pending
  <2>3. TypeOK'
    <3>1. todo' \in Seq(UserPages) /\ new_end' \in 0 .. UserEnd
      BY <1>d, SbrkPages
    <3>. QED
      BY <2>1, <3>1 DEF IInv, TypeOK, pageVars
  <2>4. Steady'
    BY <2>1 DEF IInv, Steady, pmmVars
  <2>. QED
    BY <2>1, <2>2, <2>3, <2>4, PhaseInv
<1>. QED
  BY <1>c, <1>d

\* The frame for the next page.
LEMMA TakeInv == IInv /\ take_frame => IInv'
<1>. SUFFICES ASSUME IInv, take_frame PROVE IInv'
  OBVIOUS
<1>1. /\ todo # <<>> /\ frame = NONE
      /\ UNCHANGED <<pageVars, work, todo, new_end, program, heap_end>>
  BY DEF take_frame
<1>2. PICK f \in Frames : Gets(f) /\ frame' = f
  BY DEF take_frame
<1>3. work \in {"exec", "sbrk"}
  BY <1>1 DEF IInv, TypeOK, Steady
<1>4. /\ PmmInv' /\ total_frames' = total_frames /\ owned \subseteq owned'
      /\ \/ f \notin owned /\ f \in owned' /\ oom' = oom
         \/ oom' = 1
  BY <1>2, Types, GetsFrame DEF IInv
<1>5. TypeOK'
  <2>1. frame' \in 0 .. MAX_FRAMES
    BY <1>2, Sizes
  <2>2. oom' \in {0, 1}
    BY <1>4, Types
  <2>. QED
    BY <1>1, <2>1, <2>2 DEF IInv, TypeOK, pageVars
<1>6. Steady'
  BY <1>1, <1>2, <1>3, <1>4 DEF IInv, Steady
<1>7. Pending' \subseteq {f}
  BY <1>1, <1>2, <1>3 DEF Pending
<1>8. TablesOwned' /\ PagesOwned'
  <2>1. oom' \in {oom, 1} /\ UNCHANGED pageVars /\ work \notin {"boot", "lost"}
    BY <1>1, <1>3, <1>4
  <2>2. oom' = 0 => \A g \in Pending' : g \in owned' /\ (g \in Pending \/ g \notin owned)
    BY <1>4, <1>7
  <2>. QED
    BY <2>1, <2>2, <1>4, Grown
<1>9. DirectMap' /\ BootMap'
  <2>1. DirectMap'
    BY <1>1, <1>3, <1>4, GrownDirect
  <2>2. BootMap'
    BY <1>1, <1>3 DEF BootMap
  <2>. QED
    BY <2>1, <2>2
<1>. QED
  BY <1>4, <1>5, <1>6, <1>8, <1>9 DEF IInv

-----------------------------------------------------------------------------
(* paging_map_memory.                                                      *)

\* What a turn of its loop works on: a page and a frame that is its own.
LEMMA MapPage ==
  ASSUME IInv, paging_map_memory
  PROVE  /\ work \in {"rx", "tx", "exec", "sbrk"} /\ work' = work
         /\ Head(todo) \in Pages
         /\ Dir(Head(todo)) \in Entries /\ Ent(Head(todo)) \in Rows /\ Head(todo) \in Nat
         /\ frame \in Frames /\ frame \in Pending
         /\ \A f \in Pending' : f \in Pending /\ f # frame
         /\ todo' \in Seq(IF work \in {"rx", "tx"} THEN Window ELSE UserPages)
         /\ frame' \in (0 .. MAX_FRAMES) \union {NONE}
         /\ Len(todo') \in Nat
         /\ work \in {"rx", "tx"} => frame' \in Nat /\ frame' + Len(todo') <= MAX_FRAMES
         /\ work \in {"exec", "sbrk"} => frame' = NONE
<1>1. /\ todo # <<>> /\ frame # NONE /\ todo' = Tail(todo) /\ frame' = NextFrame
      /\ UNCHANGED <<kernel_directory, work, new_end, program, heap_end>>
  BY DEF paging_map_memory
<1>2. work \in {"rx", "tx", "exec", "sbrk"} /\ work' = work
  BY <1>1 DEF IInv, TypeOK, Steady
<1>. DEFINE A == IF work \in {"rx", "tx"} THEN Window ELSE UserPages
<1>3. todo \in Seq(A)
  BY DEF IInv, TypeOK
<1>4. A \subseteq Pages
  BY DEF Pages
<1>. HIDE DEF A
<1>5. /\ Head(todo) \in A /\ Tail(todo) \in Seq(A)
      /\ Len(todo) \in Nat /\ Len(todo) >= 1 /\ Len(Tail(todo)) = Len(todo) - 1
  BY <1>1, <1>3
<1>6. /\ Head(todo) \in Pages
      /\ Dir(Head(todo)) \in Entries /\ Ent(Head(todo)) \in Rows /\ Head(todo) \in Nat
  BY <1>4, <1>5, Index
<1>7. CASE work \in {"rx", "tx"}
  <2>1. frame \in Nat /\ frame + Len(todo) <= MAX_FRAMES /\ frame' = frame + 1
    BY <1>1, <1>7 DEF IInv, Steady, NextFrame
  <2>2. frame \in Frames /\ frame' \in 0 .. MAX_FRAMES
    BY <2>1, <1>5, Sizes
  <2>3. frame' \in Nat /\ frame' + Len(todo') <= MAX_FRAMES
    BY <2>1, <1>1, <1>5, Sizes
  <2>4. frame \in Pending
    BY <2>1, <2>2, <1>5, <1>7 DEF Pending
  <2>5. \A f \in Pending' : f \in Pending /\ f # frame
    BY <2>1, <1>1, <1>2, <1>5, <1>7, Sizes DEF Pending
  <2>. QED
    BY <1>1, <1>2, <1>5, <1>6, <1>7, <2>2, <2>3, <2>4, <2>5 DEF A
<1>8. CASE work \in {"exec", "sbrk"}
  <2>1. frame \in Frames /\ frame' = NONE
    BY <1>1, <1>8 DEF IInv, Steady, NextFrame
  <2>2. frame \in Pending /\ Pending' = {}
    BY <2>1, <1>1, <1>2, <1>8 DEF Pending
  <2>. QED
    BY <1>1, <1>2, <1>5, <1>6, <1>8, <2>1, <2>2 DEF A
<1>. QED
  BY <1>2, <1>7, <1>8

\* The kernel finds a frame below the end of memory where it looks for it.
LEMMA ReachedSame ==
  ASSUME IInv, work \notin {"boot", "lost"}, Small, NEW f \in owned \union {0}
  PROVE  Reached(f) = f
<1>1. owned \subseteq 1 .. total_frames - 1 /\ total_frames \in Nat
  BY Types
<1>2. kernel_directory \in owned
  BY DEF IInv, TablesOwned
<1>3. \A x \in owned \union {0} : x \in 0 .. total_frames - 1
  BY <1>1, <1>2
<1>. QED
  BY <1>3 DEF IInv, DirectMap, Reached

\* Page v gets the frame, and no other page of a program or a driver changes; tables
\* and directory stay off the frames that others have.
Effect(v) ==
  /\ Present(v)' /\ Translated(v)' = frame
  /\ \A w \in Pages : w # v =>
       (Present(w)' <=> Present(w)) /\ (Present(w) => Translated(w)' = Translated(w))
  /\ \A g \in owned : ~Structure(g) => ~Structure(g)'

\* A turn that finds the table.
LEMMA MapOld ==
  ASSUME IInv, paging_map_memory, Small, NEW v, v = Head(todo),
         directory[Dir(v)] # NONE,
         UNCHANGED <<pmmVars, directory, oom>>,
         tables' = [tables EXCEPT ![Reached(directory[Dir(v)])][Ent(v)] = frame]
  PROVE  DirectMap' /\ (oom' = 0 => Effect(v))
<1>r. PICK r : r = directory[Dir(v)]
  OBVIOUS
<1>t. /\ directory \in [Entries -> Frames \union {NONE}]
      /\ tables \in [Frames -> [Rows -> Frames \union {NONE}]]
      /\ oom \in {0, 1} /\ total_frames \in Nat
      /\ owned \subseteq 1 .. total_frames - 1 /\ owned \subseteq Frames
  BY Types
<1>m. /\ v \in Pages /\ Dir(v) \in Entries /\ Ent(v) \in Rows /\ v \in Nat
      /\ frame \in Frames /\ frame \in Pending
      /\ work \notin {"boot", "lost"} /\ work' = work
      /\ \A f \in Pending' : f \in Pending /\ f # frame
  BY MapPage
<1>n. \A x \in Frames : x # NONE
  BY Sizes
<1>u. /\ kernel_directory' = kernel_directory /\ directory' = directory /\ oom' = oom
      /\ owned' = owned /\ total_frames' = total_frames
  BY DEF paging_map_memory, pmmVars
<1>1. r # NONE /\ (r \in owned \/ (r = 0 /\ oom = 1))
  BY <1>r, <1>m DEF IInv, TablesOwned
<1>2. Reached(r) = r
  BY <1>1, <1>m, ReachedSame
<1>3. r \in Frames
  BY <1>t, <1>m, <1>r, <1>1
<1>4. tables' = [tables EXCEPT ![r][Ent(v)] = frame]
  BY <1>2, <1>r
<1>5. /\ tables'[r][Ent(v)] = frame
      /\ \A t \in Frames, e \in Rows : ~(t = r /\ e = Ent(v)) => tables'[t][e] = tables[t][e]
  <2>1. PICK i \in Rows : i = Ent(v)
    BY <1>m
  <2>2. tables' = [tables EXCEPT ![r] = [tables[r] EXCEPT ![i] = frame]]
    BY <1>4, <2>1
  <2>3. tables[r] \in [Rows -> Frames \union {NONE}]
    BY <1>t, <1>3
  <2>4. \A t \in Frames : tables'[t] = IF t = r THEN [tables[r] EXCEPT ![i] = frame] ELSE tables[t]
    BY <2>2, <1>3, <1>t
  <2>5. tables'[r][i] = frame /\ \A e \in Rows : e # i => tables'[r][e] = tables[r][e]
    <3>1. tables'[r] = [tables[r] EXCEPT ![i] = frame]
      BY <2>4, <1>3
    <3>. QED
      BY <3>1, <2>3
  <2>6. \A t \in Frames : t # r => tables'[t] = tables[t]
    BY <2>4
  <2>. QED
    BY <2>1, <2>5, <2>6, Zenon
\* In which pages the entry is seen.
<1>6. ASSUME NEW w \in Nat, Dir(w) \in Entries, Ent(w) \in Rows,
             directory[Dir(w)] # NONE, r # 0, w # v
      PROVE  tables'[directory[Dir(w)]][Ent(w)] = tables[directory[Dir(w)]][Ent(w)]
  <2>1. ~(directory[Dir(w)] = r /\ Ent(w) = Ent(v))
    <3>. SUFFICES ASSUME directory[Dir(w)] = r, Ent(w) = Ent(v) PROVE FALSE
      OBVIOUS
    <3>1. Dir(w) = Dir(v)
      BY <1>6, <1>m, <1>r DEF IInv, TablesOwned
    <3>. QED
      BY <3>1, <1>6, <1>m, Index
  <2>2. directory[Dir(w)] \in Frames
    BY <1>6, <1>t
  <2>. QED
    BY <2>1, <2>2, <1>5, <1>6
<1>7. DirectMap'
  <2>1. ASSUME NEW f \in 0 .. total_frames - 1
        PROVE  directory'[Dir(Direct(f))] \in owned' /\ Translated(Direct(f))' = f
    <3>1. directory[Dir(Direct(f))] \in owned /\ Translated(Direct(f)) = f
      BY <1>m DEF IInv, DirectMap
    <3>2. /\ Dir(Direct(f)) \in Entries /\ Ent(Direct(f)) \in Rows
          /\ Direct(f) \in Nat /\ Direct(f) # v
      BY <1>t, <1>m, DirectSmall
    <3>3. directory[Dir(Direct(f))] # NONE /\ directory[Dir(Direct(f))] \in Frames
      BY <3>1, <1>t, <1>n
    <3>4. tables'[directory[Dir(Direct(f))]][Ent(Direct(f))] =
            tables[directory[Dir(Direct(f))]][Ent(Direct(f))]
      <4>1. CASE r # 0
        BY <4>1, <3>2, <3>3, <1>6
      <4>2. CASE r = 0
        <5>1. directory[Dir(Direct(f))] # r
          BY <4>2, <3>1, <1>t
        <5>. QED
          BY <5>1, <3>2, <3>3, <1>5
      <4>. QED
        BY <4>1, <4>2
    <3>5. Translated(Direct(f)) = tables[directory[Dir(Direct(f))]][Ent(Direct(f))]
      BY DEF Translated, Dir, Ent
    <3>6. Translated(Direct(f))' = tables'[directory'[Dir(Direct(f))]][Ent(Direct(f))]
      BY DEF Translated, Dir, Ent, Direct
    <3>. QED
      BY <3>1, <3>4, <3>5, <3>6, <1>u
  <2>2. \A f : Dir(Direct(f))' = Dir(Direct(f))
    BY DEF Dir, Direct
  <2>. QED
    BY <2>1, <2>2, <1>u DEF DirectMap
<1>8. ASSUME oom' = 0 PROVE Effect(v)
  <2>1. r \in owned /\ r # 0
    BY <1>1, <1>8, <1>t, <1>u
  <2>2. Present(v)' /\ Translated(v)' = frame
    BY <1>1, <1>5, <1>u, <1>m, <1>n, <1>r DEF Present, Translated, Dir, Ent
  <2>3. ASSUME NEW w \in Pages, w # v
        PROVE  (Present(w)' <=> Present(w)) /\ (Present(w) => Translated(w)' = Translated(w))
    <3>1. w \in Nat /\ Dir(w) \in Entries /\ Ent(w) \in Rows
      BY Index
    <3>2. directory[Dir(w)] # NONE =>
            tables'[directory[Dir(w)]][Ent(w)] = tables[directory[Dir(w)]][Ent(w)]
      BY <3>1, <2>1, <2>3, <1>6
    <3>. QED
      BY <3>2, <1>u DEF Present, Translated, Dir, Ent
  <2>4. \A g \in owned : ~Structure(g) => ~Structure(g)'
    BY <1>u DEF Structure
  <2>. QED
    BY <2>2, <2>3, <2>4 DEF Effect
<1>. QED
  BY <1>7, <1>8

\* A turn that makes the table.
LEMMA MapNew ==
  ASSUME IInv, paging_map_memory, Small, NEW v, v = Head(todo),
         directory[Dir(v)] = NONE, NEW f \in Frames, Gets(f),
         directory' = [directory EXCEPT ![Dir(v)] = f],
         tables' = [tables EXCEPT ![Reached(f)] = [NoTable EXCEPT ![Ent(v)] = frame]]
  PROVE  DirectMap' /\ (oom' = 0 => Effect(v))
<1>t. /\ directory \in [Entries -> Frames \union {NONE}]
      /\ tables \in [Frames -> [Rows -> Frames \union {NONE}]]
      /\ oom \in {0, 1} /\ total_frames \in Nat
      /\ owned \subseteq 1 .. total_frames - 1 /\ owned \subseteq Frames
  BY Types
<1>m. /\ v \in Pages /\ Dir(v) \in Entries /\ Ent(v) \in Rows /\ v \in Nat
      /\ frame \in Frames /\ frame \in Pending
      /\ work \notin {"boot", "lost"} /\ work' = work
      /\ \A g \in Pending' : g \in Pending /\ g # frame
  BY MapPage
<1>n. \A x \in Frames : x # NONE
  BY Sizes
<1>g. /\ total_frames' = total_frames /\ owned \subseteq owned'
      /\ f \notin owned
      /\ f \in owned' \/ oom' = 1
      /\ oom' \in {oom, 1}
  BY <1>t, GetsFrame DEF IInv
<1>u. kernel_directory' = kernel_directory
  BY DEF paging_map_memory
<1>2. Reached(f) = f
  <2>1. CASE f = 0
    BY <2>1, <1>m, ReachedSame
  <2>2. CASE f \in 1 .. total_frames - 1
    BY <2>2, <1>m DEF IInv, DirectMap, Reached
  <2>. QED
    BY <2>1, <2>2, <1>t, GetsFrame DEF IInv
<1>3. /\ directory'[Dir(v)] = f
      /\ \A d \in Entries : d # Dir(v) => directory'[d] = directory[d]
  BY <1>m, <1>t
<1>4. /\ tables'[f][Ent(v)] = frame
      /\ \A e \in Rows : e # Ent(v) => tables'[f][e] = NONE
      /\ \A t \in Frames : t # f => tables'[t] = tables[t]
  <2>1. PICK i \in Rows : i = Ent(v)
    BY <1>m
  <2>2. tables' = [tables EXCEPT ![f] = [NoTable EXCEPT ![i] = frame]]
    BY <1>2, <2>1
  <2>3. tables'[f] = [NoTable EXCEPT ![i] = frame] /\ \A t \in Frames : t # f => tables'[t] = tables[t]
    BY <2>2, <1>t
  <2>4. tables'[f][i] = frame /\ \A e \in Rows : e # i => tables'[f][e] = NONE
    BY <2>3 DEF NoTable
  <2>. QED
    BY <2>1, <2>3, <2>4, Zenon
<1>5. directory[Dir(v)] = NONE
  OBVIOUS
<1>7. DirectMap'
  <2>1. ASSUME NEW x \in 0 .. total_frames - 1
        PROVE  directory'[Dir(Direct(x))] \in owned' /\ Translated(Direct(x))' = x
    <3>1. directory[Dir(Direct(x))] \in owned /\ Translated(Direct(x)) = x
      BY <1>m DEF IInv, DirectMap
    <3>2. /\ Dir(Direct(x)) \in Entries /\ Ent(Direct(x)) \in Rows
      BY <1>t, DirectSmall
    <3>3. directory[Dir(Direct(x))] \in Frames /\ directory[Dir(Direct(x))] # NONE
      BY <3>1, <1>t, <1>n
    <3>4. directory'[Dir(Direct(x))] = directory[Dir(Direct(x))]
      BY <3>2, <3>3, <1>3, <1>5
    <3>5. tables'[directory[Dir(Direct(x))]] = tables[directory[Dir(Direct(x))]]
      BY <3>1, <3>3, <1>4, <1>g
    <3>6. Translated(Direct(x)) = tables[directory[Dir(Direct(x))]][Ent(Direct(x))]
      BY DEF Translated, Dir, Ent
    <3>7. Translated(Direct(x))' = tables'[directory'[Dir(Direct(x))]][Ent(Direct(x))]
      BY DEF Translated, Dir, Ent, Direct
    <3>. QED
      BY <3>1, <3>4, <3>5, <3>6, <3>7, <1>g
  <2>2. \A x : Dir(Direct(x))' = Dir(Direct(x))
    BY DEF Dir, Direct
  <2>. QED
    BY <2>1, <2>2, <1>g DEF DirectMap
<1>8. ASSUME oom' = 0 PROVE Effect(v)
  <2>1. oom = 0
    BY <1>8, <1>g, <1>t
  <2>2. Present(v)' /\ Translated(v)' = frame
    BY <1>3, <1>4, <1>m, <1>n DEF Present, Translated, Dir, Ent
  <2>3. ASSUME NEW w \in Pages, w # v
        PROVE  (Present(w)' <=> Present(w)) /\ (Present(w) => Translated(w)' = Translated(w))
    <3>1. w \in Nat /\ Dir(w) \in Entries /\ Ent(w) \in Rows
      BY Index
    <3>2. CASE Dir(w) = Dir(v)
      <4>1. Ent(w) # Ent(v)
        BY <3>1, <3>2, <2>3, <1>m, Index
      <4>2. tables'[directory'[Dir(w)]][Ent(w)] = NONE
        BY <4>1, <3>1, <3>2, <1>3, <1>4
      <4>3. ~Present(w)'
        BY <4>2 DEF Present, Dir, Ent
      <4>4. ~Present(w)
        BY <3>2, <1>5 DEF Present, Dir
      <4>. QED
        BY <4>3, <4>4
    <3>3. CASE Dir(w) # Dir(v)
      <4>1. directory'[Dir(w)] = directory[Dir(w)]
        BY <3>1, <3>3, <1>3
      <4>2. directory[Dir(w)] # NONE => directory[Dir(w)] \in owned
        BY <3>1, <2>1 DEF IInv, TablesOwned
      <4>3. directory[Dir(w)] # NONE => tables'[directory[Dir(w)]] = tables[directory[Dir(w)]]
        BY <4>2, <1>4, <1>g, <1>t
      <4>. QED
        BY <4>1, <4>3 DEF Present, Translated, Dir, Ent
    <3>. QED
      BY <3>2, <3>3
  <2>4. \A g \in owned : ~Structure(g) => ~Structure(g)'
    BY <1>3, <1>u, <1>g DEF Structure
  <2>. QED
    BY <2>2, <2>3, <2>4 DEF Effect
<1>. QED
  BY <1>7, <1>8

\* Either way the pages' frames stay apart.
LEMMA MapApart ==
  ASSUME IInv, paging_map_memory, NEW v, v = Head(todo), Small, oom = 0, Effect(v),
         owned \subseteq owned'
  PROVE  PagesApart'
<1>m. /\ v \in Pages /\ frame \in Pending
      /\ \A f \in Pending' : f \in Pending /\ f # frame
  BY MapPage
<1>1. PagesApart
  BY DEF IInv, PagesOwned
<1>2. /\ Present(v)' /\ Translated(v)' = frame
      /\ \A w \in Pages : w # v =>
           (Present(w)' <=> Present(w)) /\ (Present(w) => Translated(w)' = Translated(w))
      /\ \A g \in owned : ~Structure(g) => ~Structure(g)'
  BY DEF Effect
<1>3. frame \in owned /\ ~Structure(frame) /\ ~InPage(frame)
  BY <1>1, <1>m DEF PagesApart
<1>4. ASSUME NEW u \in Pages, Present(u)'
      PROVE  Translated(u)' \in owned' /\ ~Structure(Translated(u))'
  <2>1. PICK g : g = Translated(u)'
    OBVIOUS
  <2>2. g \in owned /\ ~Structure(g)
    <3>1. CASE u = v
      BY <2>1, <3>1, <1>2, <1>3
    <3>2. CASE u # v
      BY <2>1, <3>2, <1>1, <1>2, <1>4 DEF PagesApart
    <3>. QED
      BY <3>1, <3>2
  <2>3. Structure(Translated(u))' <=> Structure(g)'
    BY <2>1 DEF Structure
  <2>. QED
    BY <2>1, <2>2, <2>3, <1>2
<1>5. \A u, w \in Pages :
        Present(u)' /\ Present(w)' /\ Translated(u)' = Translated(w)' => u = w
  <2>. SUFFICES ASSUME NEW u \in Pages, NEW w \in Pages, Present(u)', Present(w)',
                       Translated(u)' = Translated(w)'
                PROVE  u = w
    OBVIOUS
  <2>1. ASSUME NEW x \in Pages, x # v, Present(x)' PROVE Translated(x)' # frame
    BY <2>1, <1>2, <1>3 DEF InPage
  <2>2. CASE u = v \/ w = v
    BY <2>1, <2>2, <1>2
  <2>3. CASE u # v /\ w # v
    BY <2>3, <1>1, <1>2 DEF PagesApart
  <2>. QED
    BY <2>2, <2>3
<1>6. ASSUME NEW g \in Pending' PROVE g \in owned' /\ ~Structure(g)' /\ ~InPage(g)'
  <2>1. g \in owned /\ ~Structure(g) /\ ~InPage(g) /\ g # frame
    BY <1>m, <1>1 DEF PagesApart
  <2>2. ~InPage(g)'
    BY <2>1, <1>2 DEF InPage
  <2>. QED
    BY <2>1, <2>2, <1>2
<1>. QED
  BY <1>4, <1>5, <1>6 DEF PagesApart

\* What a turn of the loop does.
LEMMA MapEffect ==
  ASSUME IInv, paging_map_memory, NEW v, v = Head(todo), Small
  PROVE  DirectMap' /\ (oom' = 0 => Effect(v))
<1>1. CASE /\ directory[Dir(v)] # NONE
           /\ tables' = [tables EXCEPT ![Reached(directory[Dir(v)])][Ent(v)] = frame]
           /\ UNCHANGED <<pmmVars, directory, oom>>
  BY <1>1, MapOld
<1>2. ASSUME NEW f \in Frames, directory[Dir(v)] = NONE, Gets(f),
             directory' = [directory EXCEPT ![Dir(v)] = f],
             tables' = [tables EXCEPT ![Reached(f)] = [NoTable EXCEPT ![Ent(v)] = frame]]
      PROVE  DirectMap' /\ (oom' = 0 => Effect(v))
  BY <1>2, MapNew
<1>. QED
  BY <1>1, <1>2 DEF paging_map_memory, Dir, Ent

\* A turn of paging_map_memory keeps the invariant.
LEMMA MapInv == IInv /\ paging_map_memory => IInv'
<1>. SUFFICES ASSUME IInv, paging_map_memory PROVE IInv'
  OBVIOUS
<1>v. PICK v : v = Head(todo)
  OBVIOUS
<1>t. /\ directory \in [Entries -> Frames \union {NONE}]
      /\ tables \in [Frames -> [Rows -> Frames \union {NONE}]]
      /\ oom \in {0, 1}
  BY Types
<1>m. /\ work \in {"rx", "tx", "exec", "sbrk"} /\ work' = work
      /\ Dir(v) \in Entries /\ Ent(v) \in Rows
      /\ frame \in Frames
      /\ todo' \in Seq(IF work \in {"rx", "tx"} THEN Window ELSE UserPages)
      /\ frame' \in (0 .. MAX_FRAMES) \union {NONE}
      /\ work \in {"rx", "tx"} => frame' \in Nat /\ frame' + Len(todo') <= MAX_FRAMES
      /\ work \in {"exec", "sbrk"} => frame' = NONE
  BY <1>v, MapPage
<1>n. \A x \in Frames : x # NONE
  BY Sizes
<1>u. UNCHANGED <<kernel_directory, new_end, program, heap_end>>
  BY DEF paging_map_memory
<1>1. BootMap'
  BY <1>m DEF BootMap
<1>. DEFINE Old == /\ directory[Dir(v)] # NONE
                   /\ tables' = [tables EXCEPT ![Reached(directory[Dir(v)])][Ent(v)] = frame]
                   /\ UNCHANGED <<pmmVars, directory, oom>>
            New(f) == /\ directory[Dir(v)] = NONE /\ Gets(f)
                      /\ directory' = [directory EXCEPT ![Dir(v)] = f]
                      /\ tables' = [tables EXCEPT ![Reached(f)] = [NoTable EXCEPT ![Ent(v)] = frame]]
<1>2. Old \/ \E f \in Frames : New(f)
  BY <1>v DEF paging_map_memory, Dir, Ent
<1>3. /\ PmmInv' /\ total_frames' = total_frames /\ oom' \in {0, 1}
      /\ owned \subseteq owned' /\ (oom' = 0 => oom = 0)
      /\ directory' \in [Entries -> Frames \union {NONE}]
      /\ tables' \in [Frames -> [Rows -> Frames \union {NONE}]]
      /\ TablesOwned'
  <2>1. CASE Old
    <3>1. UNCHANGED pmmVars /\ directory' = directory /\ oom' = oom
      BY <2>1
    <3>2. PmmInv'
      BY <3>1, PmmAlone DEF IInv
    <3>3. total_frames' = total_frames /\ owned' = owned
      BY <3>1 DEF pmmVars
    <3>4. tables' \in [Frames -> [Rows -> Frames \union {NONE}]]
      <4>1. PICK r : tables' = [tables EXCEPT ![r][Ent(v)] = frame]
        BY <2>1
      <4>2. PICK i \in Rows : i = Ent(v)
        BY <1>m
      <4>3. tables' = [tables EXCEPT ![r] = [tables[r] EXCEPT ![i] = frame]]
        BY <4>1, <4>2
      <4>4. CASE r \in Frames
        <5>1. tables[r] \in [Rows -> Frames \union {NONE}]
          BY <4>4, <1>t
        <5>2. [tables[r] EXCEPT ![i] = frame] \in [Rows -> Frames \union {NONE}]
          BY <5>1, <1>m
        <5>. QED
          BY <4>3, <4>4, <5>2, <1>t
      <4>5. CASE r \notin Frames
        BY <4>3, <4>5, <1>t
      <4>. QED
        BY <4>4, <4>5
    <3>5. TablesOwned'
      BY <3>1, <3>3, <1>u, <1>m DEF IInv, TablesOwned
    <3>. QED
      BY <3>1, <3>2, <3>3, <3>4, <3>5, <1>t
  <2>2. ASSUME NEW f \in Frames, New(f) 
        PROVE  /\ PmmInv' /\ total_frames' = total_frames /\ oom' \in {0, 1}
               /\ owned \subseteq owned' /\ (oom' = 0 => oom = 0)
               /\ directory' \in [Entries -> Frames \union {NONE}]
               /\ tables' \in [Frames -> [Rows -> Frames \union {NONE}]]
               /\ TablesOwned'
    <3>1. /\ PmmInv' /\ total_frames' = total_frames /\ owned \subseteq owned'
          /\ f \notin owned
          /\ f \in owned' \/ (f = 0 /\ oom' = 1)
          /\ oom' \in {oom, 1}
      <4>1. 0 \notin owned
        BY Types
      <4>. QED
        BY <4>1, <2>2, <1>t, GetsFrame DEF IInv
    <3>2. directory' \in [Entries -> Frames \union {NONE}]
      BY <2>2, <1>t, <1>m
    <3>3. tables' \in [Frames -> [Rows -> Frames \union {NONE}]]
      <4>1. PICK r : tables' = [tables EXCEPT ![r] = [NoTable EXCEPT ![Ent(v)] = frame]]
        BY <2>2
      <4>2. PICK i \in Rows : i = Ent(v)
        BY <1>m
      <4>3. [NoTable EXCEPT ![i] = frame] \in [Rows -> Frames \union {NONE}]
        BY <1>m DEF NoTable
      <4>. QED
        BY <4>1, <4>2, <4>3, <1>t
    <3>4. /\ directory'[Dir(v)] = f
          /\ \A d \in Entries : d # Dir(v) => directory'[d] = directory[d]
      BY <2>2, <1>t, <1>m
    <3>5. kernel_directory \in owned /\ kernel_directory # NONE /\ kernel_directory' = kernel_directory
      BY <1>m, <1>u DEF IInv, TablesOwned
    <3>6. \A d \in Entries : directory'[d] # NONE =>
            /\ directory'[d] # kernel_directory'
            /\ directory'[d] \in owned' \/ (directory'[d] = 0 /\ oom' = 1)
      <4>. SUFFICES ASSUME NEW d \in Entries, directory'[d] # NONE
                    PROVE  /\ directory'[d] # kernel_directory'
                           /\ directory'[d] \in owned' \/ (directory'[d] = 0 /\ oom' = 1)
        OBVIOUS
      <4>1. CASE d = Dir(v)
        BY <4>1, <3>1, <3>4, <3>5
      <4>2. CASE d # Dir(v)
        <5>1. /\ directory[d] # kernel_directory
              /\ directory[d] \in owned \/ (directory[d] = 0 /\ oom = 1)
          BY <4>2, <3>4 DEF IInv, TablesOwned
        <5>. QED
          BY <4>2, <5>1, <3>1, <3>4, <3>5
      <4>. QED
        BY <4>1, <4>2
    <3>7. \A d, e \in Entries :
            directory'[d] = directory'[e] /\ directory'[d] \notin {0, NONE} => d = e
      <4>1. \A d \in Entries : directory[d] \notin {0, NONE} => directory[d] # f
        BY <3>1 DEF IInv, TablesOwned
      <4>2. \A d, e \in Entries :
              directory[d] = directory[e] /\ directory[d] \notin {0, NONE} => d = e
        BY DEF IInv, TablesOwned
      <4>. QED
        BY <4>1, <4>2, <3>4
    <3>8. TablesOwned'
      BY <3>1, <3>5, <3>6, <3>7 DEF TablesOwned
    <3>. QED
      BY <3>1, <3>2, <3>3, <3>8, <1>t
  <2>. QED
    BY <1>2, <2>1, <2>2
<1>4. TypeOK'
  BY <1>3, <1>m, <1>u DEF IInv, TypeOK
<1>5. Steady'
  BY <1>3, <1>m DEF IInv, Steady
<1>6. DirectMap' /\ PagesOwned'
  <2>1. CASE Small
    <3>1. DirectMap' /\ (oom' = 0 => Effect(v))
      BY <2>1, <1>v, MapEffect
    <3>2. oom' = 0 => PagesApart'
      BY <2>1, <3>1, <1>v, <1>3, MapApart
    <3>. QED
      BY <3>1, <3>2 DEF PagesOwned
  <2>2. CASE ~Small
    BY <2>2, <1>3 DEF Small, DirectMap, PagesOwned
  <2>. QED
    BY <2>1, <2>2
<1>. QED
  BY <1>1, <1>3, <1>4, <1>5, <1>6 DEF IInv

\* Every step keeps it.
LEMMA NextInv == IInv /\ [Next]_vars => IInv'
<1>. SUFFICES ASSUME IInv, [Next]_vars PROVE IInv'
  OBVIOUS
<1>1. CASE UNCHANGED vars
  <2>1. UNCHANGED <<pmmVars, pageVars, work, todo, frame, new_end, program, heap_end, oom>>
    BY <1>1 DEF vars
  <2>2. TypeOK' /\ Steady' /\ TablesOwned'
    BY <2>1 DEF IInv, TypeOK, Steady, TablesOwned, pmmVars, pageVars
  <2>3. PmmInv'
    BY <2>1, PmmAlone DEF IInv
  <2>4. BootMap' /\ DirectMap'
    BY <2>1 DEF IInv, BootMap, DirectMap, Made, DirectTable, Small, Dir, Direct, Translated,
       pmmVars, pageVars
  <2>5. PagesOwned'
    BY <2>1 DEF IInv, PagesOwned, PagesApart, Pending, InPage, Structure, Small, Present,
       Translated, pmmVars, pageVars
  <2>. QED
    BY <2>2, <2>3, <2>4, <2>5 DEF IInv
<1>. QED
  BY <1>1, DirectoryInv, TableInv, RxInv, TxInv, InitDoneInv, TakeInv, MapInv, ElfInv, TaskInv,
     SbrkInv DEF Next, lost

\* The invariant holds in every state.
THEOREM PagingInvariant == Spec => []IInv
BY InitInv, NextInv, PTL DEF Spec

-----------------------------------------------------------------------------
(* The properties.                                                         *)

\* init_paging, paging_map_memory and their callers: the kernel finds the directory
\* and every table where it looks for them, on every machine whose memory ends below the
\* drivers' pages, as long as memory lasts and no program asks for pages of the higher half.
THEOREM TablesStayReachable == Spec => []TablesReachable
<1>1. IInv => TablesReachable
  <2>. SUFFICES ASSUME IInv PROVE TablesReachable
    OBVIOUS
  <2>1. TypeOK
    BY DEF IInv
  <2>2. ASSUME work \notin {"boot", "lost"}, KERNEL_PDE * TABLE + total_frames <= RX_PAGE,
               NEW f \in Structures
        PROVE  Present(Direct(f)) /\ Reached(f) = f
    <3>1. Small
      BY <2>2 DEF Small
    <3>2. owned \subseteq 1 .. total_frames - 1 /\ total_frames \in Nat
      BY Types
    <3>3. kernel_directory \in owned
      BY <2>2 DEF IInv, TablesOwned
    <3>4. f \in owned \union {0}
      BY <3>3 DEF Structures, IInv, TablesOwned
    <3>5. Reached(f) = f
      BY <2>2, <3>1, <3>4, ReachedSame
    <3>6. f \in 0 .. total_frames - 1
      BY <3>2, <3>3, <3>4
    <3>7. directory[Dir(Direct(f))] \in owned
      BY <2>2, <3>1, <3>6 DEF IInv, DirectMap
    <3>8. Present(Direct(f))
      <4>1. directory[Dir(Direct(f))] # NONE
        BY <3>2, <3>7
      <4>2. Translated(Direct(f)) # NONE
        BY <3>5, <3>6 DEF Reached
      <4>. QED
        BY <4>1, <4>2 DEF Present, Translated, Dir
    <3>. QED
      BY <3>5, <3>8
  <2>. QED
    BY <2>1, <2>2 DEF TablesReachable
<1>. QED
  BY <1>1, PagingInvariant, PTL

\* Every machine considered has less memory than reaches up to the drivers' pages.
BelowDrivers == \A t \in Totals : KERNEL_PDE * TABLE + t <= RX_PAGE

\* A set without two different elements.
LEMMA AtMostOne ==
  ASSUME NEW A, \A x, y \in A : x = y
  PROVE  Cardinality(A) <= 1
<1>1. CASE A = {}
  BY <1>1, FS_EmptySet
<1>2. CASE A # {}
  <2>1. PICK x : x \in A
    BY <1>2
  <2>2. A = {x}
    BY <2>1
  <2>3. Cardinality({x}) = 1
    BY FS_Singleton
  <2>. QED
    BY <2>2, <2>3
<1>. QED
  BY <1>1, <1>2

\* alloc_frame, alloc_contiguous_frames and those who use their frames: as long as
\* memory lasts a frame serves one purpose at a time, over all programs that are
\* loaded over each other and all breaks that move, and nobody uses a frame that the
\* allocator has not handed out.
THEOREM FramesStayExclusive == ASSUME BelowDrivers PROVE Spec => []FramesExclusive
<1>1. IInv => FramesExclusive
  <2>. SUFFICES ASSUME IInv, oom = 0, NEW f \in Frames
                PROVE  Cardinality(Uses(f)) <= 1 /\ (Uses(f) # {} => f \in owned)
    BY DEF FramesExclusive
  <2>1. Small
    BY DEF BelowDrivers, Small, IInv, Steady
  <2>2. PagesApart
    BY <2>1 DEF IInv, PagesOwned
  <2>3. f # NONE
    BY Sizes
  <2>4. todo # <<>> /\ frame = f => f \in Pending
    <3>. SUFFICES ASSUME todo # <<>>, frame = f PROVE f \in Pending
      OBVIOUS
    <3>1. Len(todo) \in Nat /\ Len(todo) >= 1
      BY DEF IInv, TypeOK
    <3>2. frame <= frame /\ frame < frame + Len(todo)
      BY <3>1, Sizes
    <3>. QED
      BY <3>2, <2>3 DEF Pending
  <2>5. f = kernel_directory =>
          f \in owned /\ (\A d \in Entries : directory[d] # f) /\ ~InPage(f) /\ f \notin Pending
    BY <2>2, <2>3 DEF IInv, TablesOwned, PagesApart, InPage, Structure
  <2>6. \A d \in Entries : directory[d] = f =>
          f \in owned /\ (\A e \in Entries : directory[e] = f => d = e)
            /\ ~InPage(f) /\ f \notin Pending
    <3>1. \A d \in Entries : directory[d] = f =>
            f \in owned /\ (\A e \in Entries : directory[e] = f => d = e)
      <4>1. 0 \notin owned
        BY Types
      <4>. QED
        BY <4>1, <2>3 DEF IInv, TablesOwned
    <3>2. \A d \in Entries : directory[d] = f => ~InPage(f) /\ f \notin Pending
      BY <2>2 DEF PagesApart, InPage, Structure
    <3>. QED
      BY <3>1, <3>2
  <2>7. InPage(f) => f \in owned /\ f \notin Pending
    BY <2>2 DEF PagesApart, InPage
  <2>8. \A u, v \in Pages : Present(u) /\ Translated(u) = f /\ Present(v) /\ Translated(v) = f => u = v
    BY <2>2 DEF PagesApart
  <2>9. f \in Pending => f \in owned
    BY <2>2 DEF PagesApart
  <2>10. \A x : x \in Uses(f) <=>
           \/ x = <<"directory", 0>> /\ f = kernel_directory
           \/ \E d \in Entries : x = <<"table", d>> /\ directory[d] = f
           \/ \E v \in Pages : x = <<"page", v>> /\ Present(v) /\ Translated(v) = f
           \/ x = <<"next", 0>> /\ todo # <<>> /\ frame = f
    BY DEF Uses, Pages
  <2>11. \A x, y \in Uses(f) : x = y
    <3>. SUFFICES ASSUME NEW x \in Uses(f), NEW y \in Uses(f) PROVE x = y
      OBVIOUS
    <3>1. CASE f = kernel_directory
      <4>1. \A z \in Uses(f) : z = <<"directory", 0>>
        BY <3>1, <2>4, <2>5, <2>10 DEF InPage
      <4>. QED
        BY <4>1
    <3>2. CASE \E d \in Entries : directory[d] = f
      <4>1. PICK d \in Entries : directory[d] = f
        BY <3>2
      <4>2. \A z \in Uses(f) : z = <<"table", d>>
        BY <4>1, <2>4, <2>5, <2>6, <2>10 DEF InPage
      <4>. QED
        BY <4>2
    <3>3. CASE InPage(f)
      <4>1. PICK v \in Pages : Present(v) /\ Translated(v) = f
        BY <3>3 DEF InPage
      <4>2. \A z \in Uses(f) : z = <<"page", v>>
        BY <3>3, <4>1, <2>4, <2>5, <2>6, <2>7, <2>8, <2>10
      <4>. QED
        BY <4>2
    <3>4. CASE f # kernel_directory /\ ~(\E d \in Entries : directory[d] = f) /\ ~InPage(f)
      <4>1. \A z \in Uses(f) : z = <<"next", 0>>
        BY <3>4, <2>10 DEF InPage
      <4>. QED
        BY <4>1
    <3>. QED
      BY <3>1, <3>2, <3>3, <3>4
  <2>12. Uses(f) # {} => f \in owned
    <3>1. ASSUME NEW x \in Uses(f) PROVE f \in owned
      BY <3>1, <2>4, <2>5, <2>6, <2>7, <2>9, <2>10 DEF InPage
    <3>. QED
      BY <3>1
  <2>. QED
    BY <2>11, <2>12, AtMostOne
<1>. QED
  BY <1>1, PagingInvariant, PTL

-----------------------------------------------------------------------------
(* What a running program keeps.                                           *)

InTodo(v) == \E k \in 1 .. Len(todo) : todo[k] = v
HeapPage(v, end) == HEAP_START \div PAGE <= v /\ v * PAGE < end

\* Programs are loaded and move their breaks once the kernel is up, and sbrk maps no
\* page that begins below the old break.
Calls ==
  /\ work \in {"boot", "rx", "tx"} => program = <<>>
  /\ work \in {"exec", "sbrk"} => program # <<>>
  /\ (program = <<>> \/ work = "exec") => heap_end = HEAP_START
  /\ work = "sbrk" => \A k \in 1 .. Len(todo) : ~(todo[k] * PAGE < heap_end)

\* While memory lasts, a program's segments and its heap are mapped, but for the pages
\* that the loop in progress still has to map.
ProgramMapped ==
  Small /\ oom = 0 /\ program # <<>> =>
    /\ \A i \in 1 .. Len(program) : Present(program[i]) \/ (work = "exec" /\ InTodo(program[i]))
    /\ \A v \in UserPages : HeapPage(v, heap_end) => Present(v)
    /\ work = "sbrk" => \A v \in UserPages : HeapPage(v, new_end) => Present(v) \/ InTodo(v)

HInv == IInv /\ Calls /\ ProgramMapped

\* The heap begins on a page boundary, above the segments of every program in the user
\* half (0x10000000 in create_task; user.ld links programs at 0x08048000).
HeapAbove ==
  /\ HEAP_START % PAGE = 0
  /\ \A p \in Programs \intersect Seq(UserPages) :
       \A i \in 1 .. Len(p) : p[i] < HEAP_START \div PAGE

\* Pages below the heap's first page begin below the heap.
LEMMA BelowHeap ==
  ASSUME HeapAbove
  PROVE  /\ HEAP_START \in Nat
         /\ \A v \in Nat : v < HEAP_START \div PAGE <=> v * PAGE < HEAP_START
<1>1. HEAP_START \in Nat /\ PAGE \in Nat \ {0}
  BY SpaceSizes, PagingAssumption, PmmAssumption
<1>. DEFINE q == HEAP_START \div PAGE
<1>2. q \in Nat /\ HEAP_START = q * PAGE
  <2>1. HEAP_START = q * PAGE + (HEAP_START % PAGE) /\ q \in Nat
    BY <1>1, Division
  <2>2. HEAP_START % PAGE = 0
    BY DEF HeapAbove
  <2>3. q * PAGE + 0 = q * PAGE
    BY <1>1, <2>1, Z3
  <2>. QED
    BY <2>1, <2>2, <2>3
<1>. HIDE DEF q
<1>3. ASSUME NEW v \in Nat PROVE v < q <=> v * PAGE < q * PAGE
  <2>1. ASSUME v < q PROVE v * PAGE < q * PAGE
    BY <2>1, <1>1, <1>2, Z3
  <2>2. ASSUME ~(v < q) PROVE ~(v * PAGE < q * PAGE)
    BY <2>2, <1>1, <1>2, Z3
  <2>. QED
    BY <2>1, <2>2
<1>. QED
  BY <1>1, <1>2, <1>3 DEF q

\* Memory that has run out stays run out.
LEMMA OomStays == IInv /\ [Next]_vars => (oom' = 0 => oom = 0)
<1>. SUFFICES ASSUME IInv, [Next]_vars, oom' = 0 PROVE oom = 0
  OBVIOUS
<1>1. CASE UNCHANGED vars
  BY <1>1 DEF vars
<1>2. CASE init_rx \/ init_tx
  BY <1>2 DEF init_rx, init_tx, Buffer
<1>3. CASE take_frame \/ paging_map_memory \/ init_directory \/ init_table
  BY <1>3 DEF take_frame, paging_map_memory, init_directory, init_table, Gets
<1>4. CASE \/ init_done
           \/ \E pages \in Programs : elf_load(pages)
           \/ create_task \/ task_exit
           \/ \E increment \in Increments : sys_sbrk(increment)
           \/ sbrk_done \/ lost
  BY <1>4 DEF init_done, elf_load, create_task, task_exit, sys_sbrk, sbrk_done, lost, vars
<1>. QED
  BY <1>1, <1>2, <1>3, <1>4 DEF Next

\* A turn of the loop takes the first page off the list.
LEMMA OneLess ==
  ASSUME IInv, paging_map_memory
  PROVE  /\ todo # <<>> /\ Head(todo) = todo[1] /\ Len(todo) \in Nat /\ Len(todo) >= 1
         /\ \A k \in 1 .. Len(todo') : k + 1 \in 1 .. Len(todo) /\ todo'[k] = todo[k + 1]
         /\ \A v : InTodo(v) => v = Head(todo) \/ InTodo(v)'
<1>1. todo # <<>> /\ todo' = Tail(todo)
  BY DEF paging_map_memory
<1>2. PICK A : todo \in Seq(A)
  BY DEF IInv, TypeOK
<1>3. /\ Head(todo) = todo[1] /\ Len(todo) \in Nat /\ Len(todo) >= 1
      /\ Len(todo') = Len(todo) - 1
      /\ \A k \in 1 .. Len(todo') : todo'[k] = todo[k + 1]
  BY <1>1, <1>2
<1>4. \A k \in 1 .. Len(todo') : k + 1 \in 1 .. Len(todo)
  BY <1>3
<1>5. ASSUME NEW v, InTodo(v), v # Head(todo) PROVE InTodo(v)'
  <2>1. PICK k \in 1 .. Len(todo) : todo[k] = v
    BY <1>5 DEF InTodo
  <2>2. k # 1
    BY <2>1, <1>5, <1>3
  <2>3. k - 1 \in 1 .. Len(todo') /\ (k - 1) + 1 = k
    BY <2>2, <1>3
  <2>4. todo'[k - 1] = v
    BY <2>1, <2>3, <1>3
  <2>. QED
    BY <2>3, <2>4 DEF InTodo
<1>. QED
  BY <1>1, <1>3, <1>4, <1>5

\* Every step keeps the order of the calls.
LEMMA CallsInv == IInv /\ Calls /\ [Next]_vars => Calls'
<1>. SUFFICES ASSUME IInv, Calls, [Next]_vars PROVE Calls'
  OBVIOUS
<1>1. CASE UNCHANGED vars
  BY <1>1 DEF vars, Calls
<1>2. CASE init_directory \/ init_table \/ init_rx \/ init_tx \/ init_done \/ Lost
  BY <1>2 DEF init_directory, init_table, init_rx, init_tx, init_done, Finished, Buffer, Lost,
     Calls
<1>3. CASE take_frame
  BY <1>3 DEF take_frame, Calls
<1>4. CASE paging_map_memory
  <2>1. UNCHANGED <<work, program, heap_end>>
    BY <1>4 DEF paging_map_memory
  <2>2. \A k \in 1 .. Len(todo') : k + 1 \in 1 .. Len(todo) /\ todo'[k] = todo[k + 1]
    BY <1>4, OneLess
  <2>. QED
    BY <2>1, <2>2 DEF Calls
<1>5. CASE \E pages \in Programs : elf_load(pages)
  <2>1. PICK pages \in Programs : elf_load(pages)
    BY <1>5
  <2>2. pages # <<>>
    BY PagingAssumption, PmmAssumption
  <2>. QED
    BY <1>2, <2>1, <2>2 DEF elf_load, Calls
<1>6. CASE create_task \/ task_exit \/ sbrk_done
  BY <1>6 DEF create_task, task_exit, sbrk_done, Finished, Calls
<1>7. CASE \E increment \in Increments : sys_sbrk(increment)
  <2>1. PICK increment \in Increments : sys_sbrk(increment)
    BY <1>7
  <2>2. ~Lost => \A i \in 1 .. Len(todo') : ~(todo'[i] * PAGE < heap_end)
    BY <2>1, SbrkPages
  <2>. QED
    BY <1>2, <2>1, <2>2 DEF sys_sbrk, Calls
<1>. QED
  BY <1>1, <1>2, <1>3, <1>4, <1>5, <1>6, <1>7 DEF Next, lost

\* A turn of the loop does not change the size of memory.
LEMMA MapFrames == IInv /\ paging_map_memory => total_frames' = total_frames
<1>. SUFFICES ASSUME IInv, paging_map_memory PROVE total_frames' = total_frames
  OBVIOUS
<1>1. UNCHANGED pmmVars \/ \E f \in Frames : Gets(f)
  BY DEF paging_map_memory
<1>. QED
  BY <1>1, Types, GetsFrame DEF pmmVars, IInv

\* What is present after a turn of the loop: the page it maps, and what was present
\* before, where it was.
LEMMA MapKeeps ==
  ASSUME IInv, paging_map_memory, Small, oom' = 0, NEW u \in Pages
  PROVE  /\ u = Head(todo) \/ Present(u) => Present(u)'
         /\ u # Head(todo) /\ Present(u) => Translated(u)' = Translated(u)
<1>1. PICK v : v = Head(todo)
  OBVIOUS
<1>2. Effect(v)
  BY <1>1, MapEffect
<1>. QED
  BY <1>1, <1>2 DEF Effect

\* The pages of a program are user pages below the heap.
LEMMA Segments ==
  ASSUME IInv, HeapAbove, NEW i \in 1 .. Len(program)
  PROVE  program[i] \in UserPages /\ program[i] \in Nat /\ program[i] * PAGE < HEAP_START
<1>1. program \in Programs \intersect Seq(UserPages)
  <2>1. program # <<>>
    OBVIOUS
  <2>. QED
    BY <2>1 DEF IInv, TypeOK
<1>2. program[i] \in UserPages
  <2>1. program \in Seq(UserPages)
    BY <1>1
  <2>. QED
    BY <2>1
<1>3. program[i] \in Nat
  BY <1>2, Index DEF Pages
<1>4. program[i] < HEAP_START \div PAGE
  BY <1>1 DEF HeapAbove
<1>. QED
  BY <1>2, <1>3, <1>4, BelowHeap

\* An empty heap has no pages.
LEMMA NoHeap ==
  ASSUME HeapAbove, NEW v \in UserPages
  PROVE  ~HeapPage(v, HEAP_START)
<1>1. v \in Nat
  BY Index DEF Pages
<1>2. HEAP_START \div PAGE \in Nat /\ HEAP_START \in Nat
  BY BelowHeap, Division, Sizes
<1>3. v < HEAP_START \div PAGE <=> v * PAGE < HEAP_START
  BY <1>1, BelowHeap
<1>. DEFINE q == HEAP_START \div PAGE
<1>4. ASSUME q <= v, v < q PROVE FALSE
  <2>1. q \in Nat
    BY <1>2
  <2>. HIDE DEF q
  <2>. QED
    BY <1>4, <2>1, <1>1
<1>. QED
  BY <1>3, <1>4 DEF HeapPage

\* Every step keeps what a program has mapped.
LEMMA MappedInv == ASSUME HInv, HeapAbove, [Next]_vars PROVE ProgramMapped'
<1>. SUFFICES ASSUME Small', oom' = 0, program' # <<>>
              PROVE  /\ \A i \in 1 .. Len(program') :
                          \/ Present(program[i])'
                          \/ work' = "exec" /\ InTodo(program[i])'
                     /\ \A v \in UserPages : HeapPage(v, heap_end') => Present(v)'
                     /\ work' = "sbrk" =>
                          \A v \in UserPages : HeapPage(v, new_end') => Present(v)' \/ InTodo(v)'
  BY DEF ProgramMapped, HeapPage
<1>o. oom = 0
  BY OomStays DEF HInv
<1>m. Small /\ program # <<>> =>
        /\ \A i \in 1 .. Len(program) : Present(program[i]) \/ (work = "exec" /\ InTodo(program[i]))
        /\ \A v \in UserPages : HeapPage(v, heap_end) => Present(v)
        /\ work = "sbrk" => \A v \in UserPages : HeapPage(v, new_end) => Present(v) \/ InTodo(v)
  BY <1>o DEF HInv, ProgramMapped
<1>c. Calls /\ IInv
  BY DEF HInv
<1>e. todo = <<>> => \A v : ~InTodo(v)
  BY DEF InTodo
<1>l. CASE Lost /\ UNCHANGED pmmVars /\ work = "idle"
  <2>1. UNCHANGED <<pageVars, todo, new_end, program, heap_end>> /\ work' = "lost"
    BY <1>l DEF Lost
  <2>2. Small
    BY <1>l DEF Small, pmmVars
  <2>3. /\ \A v : (Present(v)' <=> Present(v))
        /\ \A i : (Present(program[i])' <=> Present(program[i]))
    BY <2>1 DEF Present, pageVars
  <2>. QED
    BY <1>l, <1>m, <2>1, <2>2, <2>3
<1>1. CASE UNCHANGED vars \/ take_frame \/ lost
  <2>1. UNCHANGED <<pageVars, work, todo, new_end, program, heap_end>>
    BY <1>1 DEF vars, take_frame, lost
  <2>2. Small
    <3>1. CASE UNCHANGED vars \/ lost
      BY <3>1 DEF Small, vars, pmmVars, lost
    <3>2. CASE take_frame
      <4>1. PICK f \in Frames : Gets(f)
        BY <3>2 DEF take_frame
      <4>2. total_frames' = total_frames
        BY <4>1, Types, GetsFrame, <1>c DEF IInv
      <4>. QED
        BY <4>2 DEF Small
    <3>. QED
      BY <1>1, <3>1, <3>2
  <2>3. /\ \A v : (Present(v)' <=> Present(v)) /\ (InTodo(v)' <=> InTodo(v))
        /\ \A i : (Present(program[i])' <=> Present(program[i]))
                  /\ (InTodo(program[i])' <=> InTodo(program[i]))
    BY <2>1 DEF Present, InTodo, pageVars
  <2>. QED
    BY <1>m, <2>1, <2>2, <2>3
<1>2. CASE init_directory \/ init_table \/ init_rx \/ init_tx \/ init_done
  BY <1>2, <1>c DEF init_directory, init_table, init_rx, init_tx, init_done, Finished, Buffer,
     Lost, Calls
<1>3. CASE paging_map_memory
  <2>1. UNCHANGED <<work, program, heap_end, new_end>>
    BY <1>3 DEF paging_map_memory
  <2>2. Small
    BY <1>3, <1>c, MapFrames DEF Small
  <2>3. \A u \in UserPages : u = Head(todo) \/ Present(u) => Present(u)'
    BY <1>3, <1>c, <2>2, MapKeeps DEF Pages
  <2>4. \A u : InTodo(u) => u = Head(todo) \/ InTodo(u)'
    BY <1>3, <1>c, OneLess
  <2>5. ASSUME NEW i \in 1 .. Len(program')
        PROVE  Present(program[i])' \/ (work' = "exec" /\ InTodo(program[i])')
    <3>1. PICK u : u = program[i]
      OBVIOUS
    <3>2. (Present(program[i])' <=> Present(u)') /\ (InTodo(program[i])' <=> InTodo(u)')
      BY <3>1, <2>1 DEF Present, InTodo
    <3>3. u \in UserPages
      BY <3>1, <2>1, <1>c, Segments
    <3>4. Present(u) \/ (work = "exec" /\ InTodo(u))
      BY <3>1, <2>1, <2>2, <1>m
    <3>. QED
      BY <3>2, <3>3, <3>4, <2>1, <2>3, <2>4
  <2>. QED
    BY <1>m, <2>1, <2>2, <2>3, <2>4, <2>5
<1>4. CASE \E pages \in Programs : elf_load(pages)
  <2>1. PICK pages \in Programs : elf_load(pages)
    BY <1>4
  <2>2. work' = "exec" /\ program' = pages /\ todo' = pages /\ heap_end' = heap_end /\ program = <<>>
    BY <2>1 DEF elf_load, Lost
  <2>3. heap_end' = HEAP_START
    BY <2>2, <1>c DEF Calls
  <2>4. \A i \in 1 .. Len(program') : InTodo(program[i])'
    BY <2>2 DEF InTodo
  <2>. QED
    BY <2>2, <2>3, <2>4, NoHeap
<1>5. CASE create_task \/ task_exit \/ sbrk_done
  <2>1. /\ UNCHANGED <<pmmVars, pageVars>> /\ program' = program /\ todo = <<>> /\ work' = "idle"
        /\ \/ heap_end' = HEAP_START
           \/ heap_end' = new_end /\ work = "sbrk"
    BY <1>5 DEF create_task, task_exit, sbrk_done, Finished
  <2>2. Small
    BY <2>1 DEF Small, pmmVars
  <2>3. /\ \A v : (Present(v)' <=> Present(v))
        /\ \A i : (Present(program[i])' <=> Present(program[i]))
    BY <2>1 DEF Present, pageVars
  <2>. QED
    BY <1>m, <1>e, <2>1, <2>2, <2>3, NoHeap
<1>6. CASE \E increment \in Increments : sys_sbrk(increment)
  <2>1. PICK increment \in Increments : sys_sbrk(increment)
    BY <1>6
  <2>0. CASE Lost
    BY <1>l, <2>0, <2>1 DEF sys_sbrk
  <2>. SUFFICES ASSUME ~Lost
                PROVE  /\ \A i \in 1 .. Len(program') :
                            \/ Present(program[i])'
                            \/ work' = "exec" /\ InTodo(program[i])'
                       /\ \A v \in UserPages : HeapPage(v, heap_end') => Present(v)'
                       /\ work' = "sbrk" =>
                            \A v \in UserPages : HeapPage(v, new_end') => Present(v)' \/ InTodo(v)'
    BY <2>0
  <2>2. /\ UNCHANGED <<pmmVars, pageVars, program, heap_end>> /\ work = "idle" /\ work' = "sbrk"
    BY <2>1 DEF sys_sbrk
  <2>3. Small
    BY <2>2 DEF Small, pmmVars
  <2>4. /\ \A v : (Present(v)' <=> Present(v))
        /\ \A i : (Present(program[i])' <=> Present(program[i]))
    BY <2>2 DEF Present, pageVars
  <2>5. \A v \in Nat : v * PAGE < new_end' => v * PAGE < heap_end \/ InTodo(v)'
    BY <2>1, <2>2, <1>c, SbrkPages DEF InTodo
  <2>6. \A v \in UserPages : HeapPage(v, new_end') => HeapPage(v, heap_end) \/ InTodo(v)'
    BY <2>5, Index DEF HeapPage, Pages
  <2>. QED
    BY <1>m, <2>2, <2>3, <2>4, <2>6
<1>. QED
  BY <1>1, <1>2, <1>3, <1>4, <1>5, <1>6 DEF Next

\* Nothing is loaded at first, and every step keeps the rest.
LEMMA HeapInvariant == ASSUME HeapAbove PROVE Spec => []HInv
<1>1. Init => HInv
  <2>1. Init => Calls /\ ProgramMapped
    BY DEF Init, Calls, ProgramMapped
  <2>. QED
    BY <2>1, InitInv DEF HInv
<1>2. HInv /\ [Next]_vars => HInv'
  BY NextInv, CallsInv, MappedInv DEF HInv
<1>. QED
  BY <1>1, <1>2, PTL DEF Spec

\* elf_load and sys_sbrk: a page that a running program has, of a segment or of its
\* heap, is there and stays on its frame as long as memory lasts and its break is not
\* below the heap's start, for every program, break and size of page.
THEOREM HeapStaysKept == ASSUME BelowDrivers, HeapAbove PROVE Spec => HeapKept
<1>1. ASSUME HInv, [Next]_vars, program # <<>>, work # "exec", program' = program, oom' = 0,
             heap_end >= HEAP_START, NEW v \in ProgramPages
      PROVE  Present(v) /\ Present(v)' /\ Translated(v)' = Translated(v)
  <2>1. IInv /\ Calls /\ ProgramMapped
    BY <1>1 DEF HInv
  <2>2. Small
    BY <2>1 DEF BelowDrivers, Small, IInv, Steady
  <2>3. oom = 0
    BY <1>1, <2>1, OomStays
  <2>4. heap_end \in Nat /\ HEAP_START \in Nat
    <3>1. UserEnd \in Nat
      BY SpaceSizes
    <3>2. heap_end \in 0 .. UserEnd
      BY <2>1 DEF IInv, TypeOK
    <3>. QED
      BY <3>1, <3>2, BelowHeap
  <2>5. v \in UserPages /\ v * PAGE < heap_end /\ Present(v)
    <3>1. CASE \E i \in DOMAIN program : v = program[i]
      <4>1. PICK i \in DOMAIN program : v = program[i]
        BY <3>1
      <4>2. i \in 1 .. Len(program)
        <5>1. \E A : program \in Seq(A)
          BY <1>1, <2>1, PagingAssumption DEF IInv, TypeOK
        <5>. QED
          BY <5>1
      <4>3. v \in UserPages /\ v \in Nat /\ v * PAGE < HEAP_START
        BY <4>1, <4>2, <2>1, Segments
      <4>4. Present(v)
        BY <1>1, <2>1, <2>2, <2>3, <4>1, <4>2 DEF ProgramMapped
      <4>5. v * PAGE < heap_end
        <5>1. v * PAGE \in Int
          BY <4>3, Sizes
        <5>. DEFINE a == v * PAGE
        <5>2. a \in Int /\ a < HEAP_START
          BY <5>1, <4>3
        <5>. HIDE DEF a
        <5>3. a < heap_end
          BY <5>2, <2>4, <1>1
        <5>. QED
          BY <5>3 DEF a
      <4>. QED
        BY <4>3, <4>4, <4>5
    <3>2. CASE v \in UserPages /\ HeapPage(v, heap_end)
      BY <3>2, <1>1, <2>1, <2>2, <2>3 DEF ProgramMapped, HeapPage
    <3>. QED
      BY <1>1, <3>1, <3>2 DEF ProgramPages, HeapPage
  <2>6. CASE paging_map_memory
    <3>1. v # Head(todo)
      <4>1. work = "sbrk"
        BY <2>6, <2>1, <1>1, MapPage DEF Calls
      <4>2. /\ Head(todo) = todo[1] /\ 1 \in 1 .. Len(todo)
        BY <2>6, <2>1, OneLess
      <4>. QED
        BY <4>1, <4>2, <2>1, <2>5 DEF Calls
    <3>. QED
      BY <3>1, <2>6, <2>1, <2>2, <2>5, <1>1, MapKeeps DEF Pages
  <2>7. CASE ~paging_map_memory
    <3>1. UNCHANGED <<directory, tables>>
      BY <1>1, <2>7, <2>1 DEF Next, vars, pageVars, init_directory, init_table, init_rx, init_tx,
         init_done, take_frame, elf_load, create_task, task_exit, sys_sbrk, sbrk_done, Finished,
         Buffer, Lost, lost, Calls
    <3>. QED
      BY <3>1, <2>5 DEF Present, Translated
  <2>. QED
    BY <2>6, <2>7
<1>2. HInv /\ [Next]_vars =>
        [(program # <<>> /\ work # "exec" /\ program' = program /\ work' # "lost"
            /\ oom' = 0 /\ heap_end >= HEAP_START) =>
           \A v \in ProgramPages :
             Present(v) /\ Present(v)' /\ Translated(v)' = Translated(v)]_vars
  BY <1>1
<1>. QED
  BY <1>2, HeapInvariant, PTL DEF Spec, HeapKept

-----------------------------------------------------------------------------
(* The allocator by itself: Pmm's own specification, frees included.        *)

USE PmmAssumption DEF Below

FrameInv == FramesOK /\ CountExact /\ Accounted /\ OwnedUsable

\* The frames in use below a bound can be counted.
LEMMA UsedFinite ==
  ASSUME NEW bits, NEW n \in Nat
  PROVE  IsFiniteSet(Used(bits, n)) /\ Cardinality(Used(bits, n)) \in Nat
<1>1. IsFiniteSet(0 .. n - 1)
  BY FS_Interval
<1>2. Used(bits, n) \subseteq 0 .. n - 1
  BY DEF Used
<1>3. IsFiniteSet(Used(bits, n))
  BY <1>1, <1>2, FS_Subset
<1>. QED
  BY <1>3, FS_CardinalityType

\* init_pmm establishes the invariant.
LEMMA FrameInitInv == init_pmm => FrameInv
<1>. SUFFICES ASSUME init_pmm PROVE FrameInv
  OBVIOUS
<1>1. total_frames \in Nat
  BY DEF init_pmm
<1>2. CountExact
  BY DEF init_pmm, CountExact
<1>3. FramesOK
  <2>1. used_frames_count \in Int
    BY <1>1, <1>2, UsedFinite DEF CountExact
  <2>2. bitmap \in [Frames -> {0, 1}]
    BY DEF init_pmm
  <2>. QED
    BY <2>1, <2>2 DEF init_pmm, FramesOK
<1>4. Accounted
  BY DEF init_pmm, Accounted
<1>5. OwnedUsable
  BY DEF init_pmm, OwnedUsable
<1>. QED
  BY <1>2, <1>3, <1>4, <1>5 DEF FrameInv

\* alloc_frame preserves it.
LEMMA AllocFrameInv == FrameInv /\ alloc_frame => FrameInv'
<1>. SUFFICES ASSUME FrameInv, alloc_frame PROVE FrameInv'
  OBVIOUS
<1>t. /\ total_frames \in 0 .. MAX_FRAMES
      /\ bitmap \in [Frames -> {0, 1}]
      /\ owned \subseteq Frames
      /\ available \subseteq Below(total_frames)
      /\ used_frames_count \in Int
  BY DEF FrameInv, FramesOK
<1>1. PICK f \in Below(search_limit) :
        /\ bitmap[f] = 0
        /\ bitmap' = [bitmap EXCEPT ![f] = 1]
        /\ used_frames_count' = used_frames_count + 1
        /\ owned' = owned \union {f}
        /\ UNCHANGED <<total_frames, available>>
  BY DEF alloc_frame
<1>2. f \in Below(total_frames) /\ f \in Frames
  BY <1>t DEF search_limit
<1>3. FramesOK'
  <2>1. bitmap' \in [Frames -> {0, 1}]
    BY <1>1, <1>2, <1>t
  <2>2. owned' \subseteq Frames
    BY <1>1, <1>2, <1>t
  <2>. QED
    BY <1>1, <1>t, <2>1, <2>2 DEF FramesOK
<1>4. CountExact'
  <2>1. Used(bitmap', total_frames') = Used(bitmap, total_frames) \union {f}
    BY <1>1, <1>2, <1>t DEF Used
  <2>2. f \notin Used(bitmap, total_frames)
    BY <1>1 DEF Used
  <2>3. IsFiniteSet(Used(bitmap, total_frames))
    BY <1>t, UsedFinite
  <2>4. Cardinality(Used(bitmap, total_frames) \union {f})
          = Cardinality(Used(bitmap, total_frames)) + 1
    BY <2>2, <2>3, FS_AddElement
  <2>. QED
    BY <1>1, <2>1, <2>4 DEF FrameInv, CountExact
<1>5. f \in available /\ ~Reserved(f) /\ f \notin owned
  BY <1>1, <1>2 DEF FrameInv, Accounted
<1>6. Accounted'
  BY <1>1, <1>2, <1>5, <1>t DEF FrameInv, Accounted, Reserved
<1>7. OwnedUsable'
  BY <1>1, <1>5 DEF FrameInv, OwnedUsable, Reserved
<1>. QED
  BY <1>3, <1>4, <1>6, <1>7 DEF FrameInv

\* alloc_contiguous_frames preserves it.
LEMMA AllocContiguousInv ==
  ASSUME NEW count \in Counts, FrameInv, alloc_contiguous_frames(count)
  PROVE  FrameInv'
<1>t. /\ total_frames \in 0 .. MAX_FRAMES
      /\ bitmap \in [Frames -> {0, 1}]
      /\ owned \subseteq Frames
      /\ available \subseteq Below(total_frames)
      /\ used_frames_count \in Int
  BY DEF FrameInv, FramesOK
<1>1. PICK s \in Below(total_frames) :
        /\ FreeRun(s, count)
        /\ bitmap' = [f \in Frames |-> IF f \in Run(s, count) THEN 1 ELSE bitmap[f]]
        /\ used_frames_count' = used_frames_count + count
        /\ owned' = owned \union Run(s, count)
        /\ UNCHANGED <<total_frames, available>>
  BY DEF alloc_contiguous_frames
<1>2. \A f \in Run(s, count) : f \in Below(total_frames) /\ f \in Frames /\ bitmap[f] = 0
  BY <1>1, <1>t DEF FreeRun, Run
<1>3. FramesOK'
  <2>1. bitmap' \in [Frames -> {0, 1}]
    BY <1>1, <1>t
  <2>2. owned' \subseteq Frames
    BY <1>1, <1>2, <1>t
  <2>3. used_frames_count' \in Int
    BY <1>1, <1>t
  <2>. QED
    BY <1>1, <1>t, <2>1, <2>2, <2>3 DEF FramesOK
<1>4. CountExact'
  <2>1. Used(bitmap', total_frames') = Used(bitmap, total_frames) \union Run(s, count)
    BY <1>1, <1>2, <1>t DEF Used
  <2>2. Used(bitmap, total_frames) \cap Run(s, count) = {}
    BY <1>2 DEF Used
  <2>3. /\ IsFiniteSet(Used(bitmap, total_frames))
        /\ Cardinality(Used(bitmap, total_frames)) \in Nat
    BY <1>t, UsedFinite
  <2>4. IsFiniteSet(Run(s, count)) /\ Cardinality(Run(s, count)) = count
    <3>1. s \in Int /\ s + count - 1 \in Int /\ count \in Nat /\ count > 0
      BY <1>t
    <3>2. /\ IsFiniteSet(s .. s + count - 1)
          /\ Cardinality(s .. s + count - 1) =
               IF s > s + count - 1 THEN 0 ELSE (s + count - 1) - s + 1
      BY <3>1, FS_Interval
    <3>. QED
      BY <3>1, <3>2 DEF Run
  <2>5. Cardinality(Used(bitmap, total_frames) \union Run(s, count))
          = Cardinality(Used(bitmap, total_frames)) + count
    <3>1. Cardinality(Used(bitmap, total_frames) \union Run(s, count))
            = Cardinality(Used(bitmap, total_frames)) + Cardinality(Run(s, count))
              - Cardinality(Used(bitmap, total_frames) \cap Run(s, count))
      BY <2>3, <2>4, FS_Union
    <3>2. Cardinality(Used(bitmap, total_frames) \cap Run(s, count)) = 0
      BY <2>2, FS_EmptySet
    <3>. QED
      BY <3>1, <3>2, <2>3, <2>4
  <2>. QED
    BY <1>1, <2>1, <2>5 DEF FrameInv, CountExact
<1>5. \A f \in Run(s, count) : f \in available /\ ~Reserved(f) /\ f \notin owned
  BY <1>2 DEF FrameInv, Accounted
<1>6. Accounted'
  BY <1>1, <1>2, <1>5, <1>t DEF FrameInv, Accounted, Reserved
<1>7. OwnedUsable'
  BY <1>1, <1>5 DEF FrameInv, OwnedUsable, Reserved
<1>. QED
  BY <1>3, <1>4, <1>6, <1>7 DEF FrameInv

\* free_frame preserves it.
LEMMA FreeFrameInv ==
  ASSUME NEW f \in Frames, FrameInv, free_frame(f)
  PROVE  FrameInv'
<1>t. /\ total_frames \in 0 .. MAX_FRAMES
      /\ bitmap \in [Frames -> {0, 1}]
      /\ owned \subseteq Frames
      /\ available \subseteq Below(total_frames)
      /\ used_frames_count \in Int
  BY DEF FrameInv, FramesOK
<1>1. f \in owned /\ f \in available /\ ~Reserved(f) /\ bitmap[f] = 1
  BY DEF free_frame, FrameInv, OwnedUsable, Accounted
<1>2. f \in Below(total_frames) /\ f < total_frames
  BY <1>1, <1>t
<1>3. /\ bitmap' = [bitmap EXCEPT ![f] = 0]
      /\ used_frames_count' = used_frames_count - 1
      /\ owned' = owned \ {f}
      /\ UNCHANGED <<total_frames, available>>
  BY <1>1, <1>2 DEF free_frame
<1>4. FramesOK'
  <2>1. bitmap' \in [Frames -> {0, 1}]
    BY <1>3, <1>t
  <2>. QED
    BY <1>3, <1>t, <2>1 DEF FramesOK
<1>5. CountExact'
  <2>1. Used(bitmap', total_frames') = Used(bitmap, total_frames) \ {f}
    BY <1>3, <1>2, <1>t DEF Used
  <2>2. f \in Used(bitmap, total_frames)
    BY <1>1, <1>2 DEF Used
  <2>3. IsFiniteSet(Used(bitmap, total_frames))
    BY <1>t, UsedFinite
  <2>4. Cardinality(Used(bitmap, total_frames) \ {f})
          = Cardinality(Used(bitmap, total_frames)) - 1
    BY <2>2, <2>3, FS_RemoveElement
  <2>. QED
    BY <1>3, <2>1, <2>4 DEF FrameInv, CountExact
<1>6. Accounted'
  BY <1>1, <1>3, <1>t DEF FrameInv, Accounted, Reserved
<1>7. OwnedUsable'
  BY <1>3 DEF FrameInv, OwnedUsable, Reserved
<1>. QED
  BY <1>4, <1>5, <1>6, <1>7 DEF FrameInv

\* Every operation preserves it.
LEMMA FrameNextInv == FrameInv /\ [PmmNext]_pmmVars => FrameInv'
<1>. SUFFICES ASSUME FrameInv, [PmmNext]_pmmVars PROVE FrameInv'
  OBVIOUS
<1>1. CASE UNCHANGED pmmVars
  BY <1>1 DEF pmmVars, FrameInv, FramesOK, CountExact, Accounted,
                 OwnedUsable, Used, Reserved
<1>2. CASE alloc_frame
  BY <1>2, AllocFrameInv
<1>3. CASE alloc_frame_fails
  BY <1>3, <1>1 DEF alloc_frame_fails
<1>4. CASE \E count \in Counts : alloc_contiguous_frames(count)
  BY <1>4, AllocContiguousInv
<1>5. CASE \E count \in Counts : alloc_contiguous_fails(count)
  BY <1>5, <1>1 DEF alloc_contiguous_fails
<1>6. CASE \E f \in Frames : free_frame(f)
  BY <1>6, FreeFrameInv
<1>. QED
  BY <1>1, <1>2, <1>3, <1>4, <1>5, <1>6 DEF PmmNext

\* The four invariants hold together in every state of every run.
THEOREM FrameInvariant == PmmSpec => []FrameInv
BY FrameInitInv, FrameNextInv, PTL DEF PmmSpec

\* The count of used frames is always the number of bits set below total_frames.
THEOREM FrameCountExact == PmmSpec => []CountExact
<1>1. FrameInv => CountExact
  BY DEF FrameInv
<1>. QED
  BY <1>1, FrameInvariant, PTL

\* Every bit always has its reason: no frame leaks and none is handed out twice.
THEOREM FramesAccounted == PmmSpec => []Accounted
<1>1. FrameInv => Accounted
  BY DEF FrameInv
<1>. QED
  BY <1>1, FrameInvariant, PTL

\* Reserved memory and frame 0 are never handed out.
THEOREM FramesUsable == PmmSpec => []OwnedUsable
<1>1. FrameInv => OwnedUsable
  BY DEF FrameInv
<1>. QED
  BY <1>1, FrameInvariant, PTL

-----------------------------------------------------------------------------
(* Loops.                                                                    *)

\* A set of numbers has a least one.
LEMMA Least ==
  ASSUME NEW A, A \subseteq Nat, A # {}
  PROVE  \E m \in A : \A y \in A : m <= y
<1>. DEFINE Less == {ss \in Nat \X Nat : ss[1] < ss[2]}
<1>1. IsWellFoundedOn(Less, Nat)
  BY NatLessThanWellFounded, Zenon DEF OpToRel
<1>2. PICK x \in A : \A y \in A : ~ (<<y, x>> \in Less)
  BY <1>1, WFMin, Zenon
<1>3. ASSUME NEW y \in A PROVE x <= y
  <2>1. <<y, x>> \notin Less
    BY <1>2
  <2>2. <<y, x>> \in Less <=> y < x
    OBVIOUS
  <2>. QED
    BY <2>1, <2>2
<1>. QED
  BY <1>3

\* A set of numbers that has 0 and, with a number below n, the next one.
LEMMA Counting ==
  ASSUME NEW n \in Nat, NEW A, 0 \in A, \A k \in 1 .. n : k - 1 \in A => k \in A
  PROVE  0 .. n \subseteq A
<1>. SUFFICES ASSUME ~(0 .. n \subseteq A) PROVE FALSE
  OBVIOUS
<1>. DEFINE out == (0 .. n) \ A
<1>1. out \subseteq Nat /\ out # {}
  OBVIOUS
<1>2. PICK m \in out : \A y \in out : m <= y
  BY <1>1, Least
<1>3. m \in 1 .. n /\ m - 1 \in 0 .. n
  BY <1>2
<1>4. m - 1 \in A
  BY <1>2, <1>3
<1>. QED
  BY <1>2, <1>3, <1>4

\* A loop of n turns, F[<<x, k>>] being what turn k makes of x, and a course of it.
Closed(F, X, n) == \A x \in X, k \in 1 .. n : F[<<x, k>>] \in X
Follows(f, F, x0, n) == f[0] = x0 /\ \A k \in 1 .. n : f[k] = F[<<f[k - 1], k>>]

\* A loop has a course.
LEMMA Course ==
  ASSUME NEW X, NEW x0, x0 \in X, NEW n, n \in Nat, NEW F, Closed(F, X, n)
  PROVE  \E f \in [0 .. n -> X] : Follows(f, F, x0, n)
<1>. USE DEF Closed
<1>. DEFINE Runs(m) == \E f \in [0 .. m -> X] :
                         f[0] = x0 /\ \A k \in 1 .. m : f[k] = F[<<f[k - 1], k>>]
            A == {m \in Nat : Runs(m)}
<1>1. 0 \in A
  <2>. DEFINE g == [i \in 0 .. 0 |-> x0]
  <2>1. g \in [0 .. 0 -> X] /\ g[0] = x0 /\ \A k \in 1 .. 0 : FALSE
    OBVIOUS
  <2>. HIDE DEF g
  <2>2. Runs(0)
    BY <2>1
  <2>. QED
    BY <2>2
<1>2. ASSUME NEW k \in 1 .. n, k - 1 \in A PROVE k \in A
  <2>1. PICK f \in [0 .. k - 1 -> X] :
          f[0] = x0 /\ \A j \in 1 .. k - 1 : f[j] = F[<<f[j - 1], j>>]
    BY <1>2
  <2>. DEFINE g == [i \in 0 .. k |-> IF i = k THEN F[<<f[k - 1], k>>] ELSE f[i]]
  <2>2. f[k - 1] \in X
    BY <2>1
  <2>3. F[<<f[k - 1], k>>] \in X
    BY <2>2
  <2>4. g \in [0 .. k -> X]
    BY <2>1, <2>3
  <2>5. g[0] = x0
    BY <2>1
  <2>6. ASSUME NEW j \in 1 .. k PROVE g[j] = F[<<g[j - 1], j>>]
    <3>1. g[j - 1] = f[j - 1]
      OBVIOUS
    <3>2. CASE j = k
      <4>1. g[j] = F[<<f[j - 1], j>>]
        BY <3>2
      <4>. HIDE DEF g
      <4>. QED
        BY <3>1, <4>1
    <3>3. CASE j # k
      <4>1. j \in 1 .. k - 1 /\ j \in 0 .. k
        BY <3>3
      <4>2. g[j] = f[j]
        BY <4>1, <3>3
      <4>3. f[j] = F[<<f[j - 1], j>>]
        BY <4>1, <2>1
      <4>. QED
        BY <3>1, <4>2, <4>3
    <3>. QED
      BY <3>2, <3>3
  <2>7. k \in Nat
    OBVIOUS
  <2>. HIDE DEF g
  <2>. QED
    BY <2>4, <2>5, <2>6, <2>7
<1>. HIDE DEF A
<1>3. n \in A
  BY <1>1, <1>2, Counting
<1>. QED
  BY <1>3 DEF A, Follows

-----------------------------------------------------------------------------
(* The loop of alloc_contiguous_frames.                                      *)

\* n[f] is current_count and s[f] start_frame after the turn at frame f; -1 is before the
\* first one.  T frames are looked at.
Scanned(bm, T, n, s) ==
  /\ n[-1] = 0
  /\ \A f \in 0 .. T - 1 : n[f] = IF bm[f] = 0 THEN n[f - 1] + 1 ELSE 0
  /\ \A f \in 0 .. T - 1 : s[f] = IF bm[f] = 0 /\ n[f - 1] = 0 THEN f ELSE s[f - 1]

\* The n[f] frames up to f are free, the one before them is not, and s[f] is the first.
Tailed(bm, n, s, f) ==
  /\ n[f] \in 0 .. f + 1
  /\ \A g \in f - n[f] + 1 .. f : bm[g] = 0
  /\ n[f] <= f => bm[f - n[f]] = 1
  /\ n[f] > 0 => s[f] = f - n[f] + 1

Bitmaps == [Frames -> {0, 1}]

\* current_count is always the length of the run of free frames that ends here.
LEMMA ScanTail ==
  ASSUME NEW bm \in Bitmaps, NEW T \in 0 .. MAX_FRAMES, NEW n, NEW s, Scanned(bm, T, n, s),
         NEW f \in -1 .. T - 1
  PROVE  Tailed(bm, n, s, f)
<1>. DEFINE A == {k \in 0 .. T : Tailed(bm, n, s, k - 1)}
<1>1. 0 \in A
  <2>1. 0 - 1 = -1 /\ 0 \in 0 .. T
    OBVIOUS
  <2>2. Tailed(bm, n, s, -1)
    BY DEF Scanned, Tailed
  <2>. QED
    BY <2>1, <2>2
<1>2. ASSUME NEW k \in 1 .. T, k - 1 \in A PROVE k \in A
  <2>1. PICK g \in 0 .. T - 1 : g = k - 1 /\ g \in Frames /\ k \in 0 .. T
    OBVIOUS
  <2>2. Tailed(bm, n, s, g - 1)
    BY <1>2, <2>1
  <2>3. PICK a \in Nat : /\ a = n[g - 1] /\ a <= g
                         /\ \A h \in (g - 1) - a + 1 .. g - 1 : bm[h] = 0
                         /\ a <= g - 1 => bm[(g - 1) - a] = 1
                         /\ a > 0 => s[g - 1] = (g - 1) - a + 1
    BY <2>2 DEF Tailed
  <2>4. /\ n[g] = IF bm[g] = 0 THEN a + 1 ELSE 0
        /\ s[g] = IF bm[g] = 0 /\ a = 0 THEN g ELSE s[g - 1]
    BY <2>3 DEF Scanned
  <2>5. CASE bm[g] = 0
    <3>1. n[g] = a + 1 /\ g - n[g] = (g - 1) - a
      BY <2>4, <2>5
    <3>2. ASSUME NEW h \in g - n[g] + 1 .. g PROVE bm[h] = 0
      <4>1. CASE h = g
        BY <2>5, <4>1
      <4>2. CASE h # g
        <5>1. h \in (g - 1) - a + 1 .. g - 1
          BY <3>1, <4>2
        <5>. QED
          BY <2>3, <5>1
      <4>. QED
        BY <4>1, <4>2
    <3>3. n[g] <= g => bm[g - n[g]] = 1
      BY <2>3, <3>1
    <3>4. s[g] = g - n[g] + 1
      <4>1. CASE a = 0
        BY <2>4, <2>5, <3>1, <4>1
      <4>2. CASE a # 0
        BY <2>3, <2>4, <2>5, <3>1, <4>2
      <4>. QED
        BY <4>1, <4>2
    <3>5. n[g] \in 0 .. g + 1
      BY <2>3, <3>1
    <3>6. Tailed(bm, n, s, g)
      BY <3>2, <3>3, <3>4, <3>5 DEF Tailed
    <3>. QED
      BY <2>1, <3>6
  <2>6. CASE bm[g] # 0
    <3>1. bm[g] = 1
      BY <2>1, <2>6 DEF Bitmaps
    <3>2. n[g] = 0
      BY <2>4, <2>6
    <3>3. Tailed(bm, n, s, g)
      BY <3>1, <3>2 DEF Tailed
    <3>. QED
      BY <2>1, <3>3
  <2>. QED
    BY <2>5, <2>6
<1>. HIDE DEF A
<1>3. 0 .. T \subseteq A
  <2>1. T \in Nat
    OBVIOUS
  <2>. QED
    BY <1>1, <1>2, <2>1, Counting, Zenon
<1>4. f + 1 \in A /\ (f + 1) - 1 = f
  <2>1. f + 1 \in 0 .. T
    OBVIOUS
  <2>. QED
    BY <1>3, <2>1
<1>. QED
  BY <1>4 DEF A

\* A run of c free frames from r on.
Lies(bm, T, r, c) == r + c <= T /\ \A f \in r .. r + c - 1 : bm[f] = 0

\* Where the count is reached, a run ends, and start_frame is its first frame.
LEMMA HitIsRun ==
  ASSUME NEW bm \in Bitmaps, NEW T \in 0 .. MAX_FRAMES, NEW n, NEW s, Scanned(bm, T, n, s),
         NEW c \in Nat \ {0}, NEW f \in 0 .. T - 1, n[f] = c
  PROVE  s[f] = f - c + 1 /\ s[f] \in 0 .. T - 1 /\ Lies(bm, T, s[f], c)
<1>1. Tailed(bm, n, s, f)
  BY ScanTail
<1>2. /\ c <= f + 1 /\ s[f] = f - c + 1
      /\ \A g \in f - c + 1 .. f : bm[g] = 0
  BY <1>1 DEF Tailed
<1>3. s[f] \in 0 .. T - 1 /\ s[f] + c <= T /\ s[f] + c - 1 = f
  BY <1>2
<1>4. ASSUME NEW g \in s[f] .. s[f] + c - 1 PROVE bm[g] = 0
  BY <1>2, <1>3
<1>. QED
  BY <1>2, <1>3, <1>4 DEF Lies

\* Where a run lies, the count is reached at its end or before.
LEMMA RunIsHit ==
  ASSUME NEW bm \in Bitmaps, NEW T \in 0 .. MAX_FRAMES, NEW n, NEW s, Scanned(bm, T, n, s),
         NEW c \in Nat \ {0}, NEW r \in 0 .. T - 1, Lies(bm, T, r, c)
  PROVE  \E f \in 0 .. T - 1 : f <= r + c - 1 /\ n[f] = c
<1>1. PICK e \in 0 .. T - 1 : e = r + c - 1
  BY DEF Lies
<1>2. \A f \in r .. e : bm[f] = 0
  BY <1>1 DEF Lies
<1>3. PICK a \in Nat : /\ a = n[e] /\ a <= e + 1
                       /\ \A g \in e - a + 1 .. e : bm[g] = 0
                       /\ a <= e => bm[e - a] = 1
  <2>1. Tailed(bm, n, s, e)
    BY ScanTail
  <2>. QED
    BY <2>1 DEF Tailed
<1>4. a >= c
  <2>1. SUFFICES ASSUME a < c PROVE FALSE
    OBVIOUS
  <2>2. a <= e /\ e - a \in r .. e
    BY <1>1, <2>1
  <2>. QED
    BY <1>2, <1>3, <2>2
<1>5. PICK h \in 0 .. T - 1 : h = e - a + c /\ h <= e
  BY <1>3, <1>4
<1>6. PICK b \in Nat : /\ b = n[h] /\ b <= h + 1
                       /\ \A g \in h - b + 1 .. h : bm[g] = 0
                       /\ b <= h => bm[h - b] = 1
  <2>1. Tailed(bm, n, s, h)
    BY ScanTail
  <2>. QED
    BY <2>1 DEF Tailed
<1>7. ~(b < c)
  <2>. SUFFICES ASSUME b < c PROVE FALSE
    OBVIOUS
  <2>1. b <= h /\ h - b \in e - a + 1 .. e
    BY <1>3, <1>5
  <2>. QED
    BY <1>3, <1>6, <2>1
<1>8. ~(b > c)
  <2>. SUFFICES ASSUME b > c PROVE FALSE
    OBVIOUS
  <2>1. a <= e /\ e - a \in h - b + 1 .. h
    BY <1>3, <1>5, <1>6
  <2>. QED
    BY <1>3, <1>6, <2>1
<1>9. b = c
  BY <1>7, <1>8
<1>. QED
  BY <1>1, <1>5, <1>6, <1>9

\* What the loop computes, as the model writes it.
LEMMA ScanIs ==
  ASSUME FramesOK
  PROVE  \E a : /\ Scanned(bitmap, total_frames, [f \in -1 .. total_frames - 1 |-> a[f][1]],
                           [f \in -1 .. total_frames - 1 |-> a[f][2]])
                /\ \A c \in Counts : Scan(c) =
                     LET hits == {f \in 0 .. total_frames - 1 : a[f][1] = c}
                         first == CHOOSE f \in hits : \A g \in hits : f <= g
                     IN  IF hits = {} THEN MAX_FRAMES ELSE a[first][2]
<1>1. PICK T \in Nat : T = total_frames
  BY DEF FramesOK
<1>. DEFINE X == Nat \X Int
            F == [xk \in X \X (1 .. T) |-> ScanStep(xk[2] - 1, xk[1])]
            Turn(a) == [f \in -1 .. total_frames - 1 |->
                          IF f = -1 THEN <<0, 0>> ELSE ScanStep(f, a[f - 1])]
<1>2. ASSUME NEW x \in X, NEW k \in 1 .. T
      PROVE  F[<<x, k>>] = ScanStep(k - 1, x) /\ F[<<x, k>>] \in X
  <2>1. ScanStep(k - 1, x) \in X
    BY DEF ScanStep
  <2>. QED
    BY <2>1
<1>. HIDE DEF F
<1>3. PICK h \in [0 .. T -> X] : Follows(h, F, <<0, 0>>, T)
  <2>1. Closed(F, X, T)
    BY <1>2 DEF Closed
  <2>2. <<0, 0>> \in X
    OBVIOUS
  <2>. HIDE DEF X
  <2>. QED
    BY <2>1, <2>2, Course, Zenon
<1>4. PICK w : w = [f \in -1 .. total_frames - 1 |-> h[f + 1]]
  OBVIOUS
<1>5. w = Turn(w)
  <2>1. ASSUME NEW f \in -1 .. total_frames - 1 PROVE w[f] = Turn(w)[f]
    <3>1. CASE f = -1
      <4>1. w[f] = h[0] /\ Turn(w)[f] = <<0, 0>>
        BY <1>1, <1>4, <3>1
      <4>. QED
        BY <1>3, <4>1 DEF Follows
    <3>2. CASE f # -1
      <4>1. PICK k \in 1 .. T : k = f + 1 /\ k - 1 = f /\ f - 1 \in -1 .. total_frames - 1
        BY <1>1, <3>2
      <4>2. h[k] = F[<<h[k - 1], k>>] /\ h[k - 1] \in X
        BY <1>3 DEF Follows
      <4>3. h[k] = ScanStep(k - 1, h[k - 1])
        BY <1>2, <4>2
      <4>4. w[f] = h[k] /\ w[f - 1] = h[k - 1]
        <5>1. (f - 1) + 1 = k - 1
          BY <4>1
        <5>. QED
          BY <1>4, <4>1, <5>1
      <4>5. Turn(w)[f] = ScanStep(f, w[f - 1])
        BY <3>2
      <4>. QED
        BY <4>1, <4>3, <4>4, <4>5
    <3>. QED
      BY <3>1, <3>2
  <2>2. w = [f \in -1 .. total_frames - 1 |-> w[f]]
    BY <1>4
  <2>3. Turn(w) = [f \in -1 .. total_frames - 1 |-> Turn(w)[f]]
    OBVIOUS
  <2>. HIDE DEF Turn
  <2>. QED
    BY <2>1, <2>2, <2>3
<1>. DEFINE a == CHOOSE g : g = Turn(g)
<1>6. a = Turn(a)
  BY <1>5
<1>7. ASSUME NEW c \in Counts
      PROVE  Scan(c) =
               LET hits == {f \in 0 .. total_frames - 1 : a[f][1] = c}
                   first == CHOOSE f \in hits : \A g \in hits : f <= g
               IN  IF hits = {} THEN MAX_FRAMES ELSE a[first][2]
  BY DEF Scan
<1>. HIDE DEF a
<1>8. a[-1] = <<0, 0>>
  <2>1. -1 \in -1 .. total_frames - 1
    BY <1>1
  <2>. QED
    BY <1>6, <2>1
<1>9. ASSUME NEW f \in 0 .. total_frames - 1
      PROVE  /\ f \in -1 .. total_frames - 1 /\ f - 1 \in -1 .. total_frames - 1
             /\ a[f][1] = IF bitmap[f] = 0 THEN a[f - 1][1] + 1 ELSE 0
             /\ a[f][2] = IF bitmap[f] = 0 /\ a[f - 1][1] = 0 THEN f ELSE a[f - 1][2]
  <2>1. f \in -1 .. total_frames - 1 /\ f - 1 \in -1 .. total_frames - 1 /\ f # -1
    BY <1>1
  <2>2. a[f] = ScanStep(f, a[f - 1])
    BY <1>6, <2>1
  <2>. QED
    BY <2>1, <2>2 DEF ScanStep
<1>. DEFINE n == [f \in -1 .. total_frames - 1 |-> a[f][1]]
            s == [f \in -1 .. total_frames - 1 |-> a[f][2]]
<1>10. n[-1] = 0
  BY <1>1, <1>8
<1>11. ASSUME NEW f \in 0 .. total_frames - 1
       PROVE  /\ n[f] = IF bitmap[f] = 0 THEN n[f - 1] + 1 ELSE 0
              /\ s[f] = IF bitmap[f] = 0 /\ n[f - 1] = 0 THEN f ELSE s[f - 1]
  BY <1>9
<1>. HIDE DEF n, s
<1>12. Scanned(bitmap, total_frames, n, s)
  BY <1>10, <1>11 DEF Scanned
<1>. QED
  BY <1>7, <1>12 DEF n, s

\* The loop finds the lowest run, in every state.
LEMMA ScanLowest == FramesOK => ScanFindsLowest
<1>. SUFFICES ASSUME FramesOK, NEW c \in Counts
              PROVE  LET runs == {r \in Below(total_frames) : FreeRun(r, c)} IN
                     IF runs = {} THEN Scan(c) = MAX_FRAMES
                     ELSE Scan(c) = CHOOSE r \in runs : \A q \in runs : r <= q
  BY DEF ScanFindsLowest
<1>1. PICK bm \in Bitmaps, T \in 0 .. MAX_FRAMES : bm = bitmap /\ T = total_frames
  BY DEF FramesOK, Bitmaps
<1>2. PICK a : /\ Scanned(bitmap, total_frames, [f \in -1 .. total_frames - 1 |-> a[f][1]],
                          [f \in -1 .. total_frames - 1 |-> a[f][2]])
               /\ Scan(c) =
                    LET hits == {f \in 0 .. total_frames - 1 : a[f][1] = c}
                        first == CHOOSE f \in hits : \A g \in hits : f <= g
                    IN  IF hits = {} THEN MAX_FRAMES ELSE a[first][2]
  BY ScanIs
<1>3. PICK n, s : /\ n = [f \in -1 .. T - 1 |-> a[f][1]] /\ s = [f \in -1 .. T - 1 |-> a[f][2]]
                  /\ Scanned(bm, T, n, s)
  BY <1>1, <1>2
<1>4. \A f \in 0 .. T - 1 : n[f] = a[f][1] /\ s[f] = a[f][2]
  BY <1>3
<1>5. c \in Nat \ {0} /\ Scanned(bm, T, n, s)
  BY <1>3
<1>. DEFINE runs == {r \in Below(total_frames) : FreeRun(r, c)}
            hits == {f \in 0 .. T - 1 : n[f] = c}
            lowest == CHOOSE r \in runs : \A q \in runs : r <= q
            first == CHOOSE f \in hits : \A g \in hits : f <= g
<1>6. Scan(c) = IF hits = {} THEN MAX_FRAMES ELSE a[first][2]
  <2>1. hits = {f \in 0 .. total_frames - 1 : a[f][1] = c}
    BY <1>1, <1>4
  <2>. HIDE DEF hits
  <2>. QED
    BY <1>2, <2>1
<1>7. \A r : r \in runs <=> r \in 0 .. T - 1 /\ Lies(bm, T, r, c)
  BY <1>1 DEF FreeRun, Run, Lies
<1>8. \A f \in hits : f \in 0 .. T - 1 /\ s[f] = f - c + 1 /\ s[f] \in runs
  <2>. SUFFICES ASSUME NEW f \in hits
                PROVE  f \in 0 .. T - 1 /\ s[f] = f - c + 1 /\ s[f] \in runs
    OBVIOUS
  <2>1. f \in 0 .. T - 1 /\ n[f] = c
    OBVIOUS
  <2>2. s[f] = f - c + 1 /\ s[f] \in 0 .. T - 1 /\ Lies(bm, T, s[f], c)
    BY <1>5, <2>1, HitIsRun
  <2>. HIDE DEF runs
  <2>. QED
    BY <1>7, <2>1, <2>2
<1>9. \A r \in runs : r \in 0 .. T - 1 /\ \E f \in hits : f <= r + c - 1
  <2>. SUFFICES ASSUME NEW r \in runs
                PROVE  r \in 0 .. T - 1 /\ \E f \in hits : f <= r + c - 1
    OBVIOUS
  <2>1. r \in 0 .. T - 1 /\ Lies(bm, T, r, c)
    BY <1>7
  <2>2. \E f \in 0 .. T - 1 : f <= r + c - 1 /\ n[f] = c
    BY <1>5, <2>1, RunIsHit
  <2>. QED
    BY <2>1, <2>2
<1>10. hits \subseteq Nat
  OBVIOUS
<1>. HIDE DEF runs, hits
<1>11. CASE runs = {}
  <2>1. hits = {}
    BY <1>8, <1>11
  <2>. QED
    BY <1>6, <1>11, <2>1 DEF runs
<1>12. CASE runs # {}
  <2>1. hits # {}
    BY <1>9, <1>12
  <2>2. first \in hits /\ \A g \in hits : first <= g
    <3>1. \E f \in hits : \A g \in hits : f <= g
      BY <1>10, <2>1, Least
    <3>. QED
      BY <3>1
  <2>. HIDE DEF first
  <2>3. PICK z \in runs : z = s[first] /\ z = first - c + 1 /\ z \in 0 .. T - 1
    BY <1>8, <1>9, <2>2
  <2>4. ASSUME NEW q \in runs PROVE z <= q
    <3>1. PICK f \in hits : f <= q + c - 1
      BY <1>9
    <3>2. first <= f /\ first \in Nat /\ f \in Nat /\ q \in Nat
      BY <1>9, <1>10, <2>2
    <3>. QED
      BY <1>5, <2>3, <3>1, <3>2
  <2>5. lowest \in runs /\ \A q \in runs : lowest <= q
    BY <2>4
  <2>. HIDE DEF lowest
  <2>6. lowest = z
    <3>1. lowest <= z /\ z <= lowest /\ lowest \in 0 .. T - 1
      BY <1>9, <2>3, <2>4, <2>5
    <3>. QED
      BY <2>3, <3>1
  <2>7. Scan(c) = z
    <3>1. first \in 0 .. T - 1
      BY <1>8, <2>2
    <3>. QED
      BY <1>4, <1>6, <2>1, <2>3, <3>1
  <2>. QED
    BY <1>12, <2>6, <2>7 DEF runs, lowest
<1>. QED
  BY <1>11, <1>12 DEF runs

\* alloc_contiguous_frames takes the lowest run of free frames that is long enough, and
\* reports no memory exactly when there is none.
THEOREM ScanStaysLowest == PmmSpec => []ScanFindsLowest
<1>1. FrameInv => ScanFindsLowest
  BY ScanLowest DEF FrameInv
<1>. QED
  BY <1>1, FrameInvariant, PTL
=============================================================================
