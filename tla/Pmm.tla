--------------------------------- MODULE Pmm ---------------------------------
(***************************************************************************)
(* The physical frame allocator of kernel/mm/pmm.c: a bitmap with one bit  *)
(* per 4 KB frame and a running count of the frames in use.  Addresses are *)
(* frame numbers (address / FRAME_SIZE), so address 0 is frame 0, which    *)
(* the callers of alloc_frame read as "no memory".                         *)
(*                                                                         *)
(* The operations take no lock: they are atomic because every caller (boot *)
(* code, system calls, the shell inside IRQ 1) runs with interrupts off.   *)
(***************************************************************************)
EXTENDS Integers, FiniteSets

CONSTANTS
  MAX_FRAMES,    \* bits in frame_bitmap
  LOW_FRAMES,    \* frames of the first megabyte
  SEARCH_LIMIT,  \* frames alloc_frame may hand out (first GB)
  KernelStart,   \* first frame of the kernel image
  KernelEnd,     \* frame after the kernel image
  Counts         \* the sizes asked of alloc_contiguous_frames

ASSUME PmmAssumption ==
  /\ MAX_FRAMES \in Nat
  /\ LOW_FRAMES \in Nat \ {0}
  /\ LOW_FRAMES <= MAX_FRAMES
  /\ SEARCH_LIMIT \in Nat
  /\ KernelStart \in Nat
  /\ KernelEnd \in Nat
  /\ Counts \subseteq Nat \ {0}

VARIABLES
  bitmap,             \* frame_bitmap: 1 = in use
  total_frames,
  used_frames_count,
  available,          \* the frames the boot loader's map calls available RAM
  owned               \* frames handed out and not given back

pmmVars == <<bitmap, total_frames, used_frames_count, available, owned>>

Frames == 0 .. MAX_FRAMES - 1
Below(n) == 0 .. n - 1
Used(bits, n) == {f \in Below(n) : bits[f] = 1}
Reserved(f) == f < LOW_FRAMES \/ (KernelStart <= f /\ f < KernelEnd)

-----------------------------------------------------------------------------

\* Seeded mistake: the kernel image is not set again.
InitKernelFree ==
  /\ total_frames \in 0 .. MAX_FRAMES
  /\ available \in SUBSET Below(total_frames)
  /\ bitmap = [f \in Frames |->
                 IF f \in available /\ f >= LOW_FRAMES THEN 0 ELSE 1]
  /\ used_frames_count = Cardinality(Used(bitmap, total_frames))
  /\ owned = {}

\* init_pmm: everything in use, then the available regions of the memory map are
\* cleared up to total_frames, then the first megabyte and the kernel are set
\* again, and what is set is counted.  Any total and any map may be found.
init_pmm ==
  /\ total_frames \in 0 .. MAX_FRAMES
  /\ available \in SUBSET Below(total_frames)
  /\ bitmap = [f \in Frames |->
                 IF f \in available /\ ~Reserved(f) THEN 0 ELSE 1]
  /\ used_frames_count = Cardinality(Used(bitmap, total_frames))
  /\ owned = {}

search_limit == IF total_frames > SEARCH_LIMIT THEN SEARCH_LIMIT ELSE total_frames

\* alloc_frame: the lowest free frame below the limit.
alloc_frame ==
  \E f \in Below(search_limit) :
    /\ bitmap[f] = 0
    /\ \A g \in Below(f) : bitmap[g] = 1
    /\ bitmap' = [bitmap EXCEPT ![f] = 1]
    /\ used_frames_count' = used_frames_count + 1
    /\ owned' = owned \union {f}
    /\ UNCHANGED <<total_frames, available>>

\* alloc_frame that returns 0.
alloc_frame_fails ==
  /\ \A f \in Below(search_limit) : bitmap[f] = 1
  /\ UNCHANGED pmmVars

Run(s, count) == s .. s + count - 1

FreeRun(s, count) ==
  /\ s + count <= total_frames
  /\ \A f \in Run(s, count) : bitmap[f] = 0

\* alloc_contiguous_frames: the scan of the code stops at the lowest run of free
\* frames that is long enough (ScanFindsLowest).
alloc_contiguous_frames(count) ==
  \E s \in Below(total_frames) :
    /\ FreeRun(s, count)
    /\ \A r \in Below(s) : ~FreeRun(r, count)
    /\ bitmap' = [f \in Frames |-> IF f \in Run(s, count) THEN 1 ELSE bitmap[f]]
    /\ used_frames_count' = used_frames_count + count
    /\ owned' = owned \union Run(s, count)
    /\ UNCHANGED <<total_frames, available>>

alloc_contiguous_fails(count) ==
  /\ \A s \in Below(total_frames) : ~FreeRun(s, count)
  /\ UNCHANGED pmmVars

\* Seeded mistakes: the count is not reduced; the test of the bit is inverted.
free_frame_uncounted(f) ==
  /\ f \in owned
  /\ IF f < total_frames /\ bitmap[f] = 1
       THEN bitmap' = [bitmap EXCEPT ![f] = 0]
       ELSE UNCHANGED bitmap
  /\ owned' = owned \ {f}
  /\ UNCHANGED <<total_frames, used_frames_count, available>>

free_frame_inverted(f) ==
  /\ f \in owned
  /\ IF f < total_frames /\ bitmap[f] = 0
       THEN /\ bitmap' = [bitmap EXCEPT ![f] = 0]
            /\ used_frames_count' = used_frames_count - 1
       ELSE UNCHANGED <<bitmap, used_frames_count>>
  /\ owned' = owned \ {f}
  /\ UNCHANGED <<total_frames, available>>

\* free_frame of a frame its caller owns.
free_frame(f) ==
  /\ f \in owned
  /\ IF f < total_frames /\ bitmap[f] = 1
       THEN /\ bitmap' = [bitmap EXCEPT ![f] = 0]
            /\ used_frames_count' = used_frames_count - 1
       ELSE UNCHANGED <<bitmap, used_frames_count>>
  /\ owned' = owned \ {f}
  /\ UNCHANGED <<total_frames, available>>

PmmNext ==
  \/ alloc_frame
  \/ alloc_frame_fails
  \/ \E count \in Counts : alloc_contiguous_frames(count)
  \/ \E count \in Counts : alloc_contiguous_fails(count)
  \/ \E f \in Frames : free_frame(f)

PmmSpec == init_pmm /\ [][PmmNext]_pmmVars

-----------------------------------------------------------------------------
(* The loop of alloc_contiguous_frames.                                      *)

\* Seeded mistake: a used frame does not end the run.
ScanStepKeeps(f, st) ==
  IF bitmap[f] = 0
    THEN <<st[1] + 1, IF st[1] = 0 THEN f ELSE st[2]>>
    ELSE st

\* One iteration of the loop at frame f: <<current_count, start_frame>>.
ScanStep(f, st) ==
  IF bitmap[f] = 0
    THEN <<st[1] + 1, IF st[1] = 0 THEN f ELSE st[2]>>
    ELSE <<0, st[2]>>

\* The loop of alloc_contiguous_frames: the frame it returns, MAX_FRAMES for none.
Scan(count) ==
  LET after[f \in -1 .. total_frames - 1] ==
        IF f = -1 THEN <<0, 0>> ELSE ScanStep(f, after[f - 1])
      hits == {f \in Below(total_frames) : after[f][1] = count}
      first == CHOOSE f \in hits : \A g \in hits : f <= g
  IN IF hits = {} THEN MAX_FRAMES ELSE after[first][2]

-----------------------------------------------------------------------------
\* total_frames never exceeds the bitmap and every frame the bitmap or a caller
\* names lies inside it.
FramesOK ==
  /\ total_frames \in 0 .. MAX_FRAMES
  /\ available \subseteq Below(total_frames)
  /\ bitmap \in [Frames -> {0, 1}]
  /\ used_frames_count \in Int
  /\ owned \subseteq Frames

\* The running count never drifts from the bitmap through any sequence of
\* allocations and frees: pmm_free_frames (the shell's memory report) is exact and
\* never wraps below zero.
CountExact == used_frames_count = Cardinality(Used(bitmap, total_frames))

\* The bitmap never forgets who owns what: a frame is in use exactly when it is
\* not available RAM, is reserved at boot, or is owned by a caller.  So nothing is
\* handed out twice and nothing leaks.
Accounted ==
  \A f \in Frames :
    bitmap[f] = 1 <=> f \notin available \/ Reserved(f) \/ f \in owned

\* No caller ever gets a frame of the first megabyte, of the kernel image, or
\* outside the memory map; in particular frame 0 is never handed out, so the
\* address 0 that alloc_frame returns always means failure.
OwnedUsable == \A f \in owned : f \in available /\ ~Reserved(f)

\* The loop of alloc_contiguous_frames returns the lowest run of free frames that
\* is long enough, and nothing exactly when there is none, on every bitmap that
\* can arise.
ScanFindsLowest ==
  \A count \in Counts :
    LET runs == {s \in Below(total_frames) : FreeRun(s, count)} IN
    IF runs = {} THEN Scan(count) = MAX_FRAMES
    ELSE Scan(count) = CHOOSE s \in runs : \A r \in runs : s <= r
=============================================================================
