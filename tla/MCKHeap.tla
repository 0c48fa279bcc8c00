------------------------------- MODULE MCKHeap -------------------------------
(***************************************************************************)
(* KHeap on a heap of a few blocks.  With Header 4 and Align 2 a request   *)
(* of 1 takes 6 bytes and a block is split when more than 6 remain, so     *)
(* that 40 bytes hold up to six blocks and every case of split,            *)
(* whole-block allocation and left, right and double merge occurs.         *)
(***************************************************************************)
EXTENDS KHeap

\* Two states are the same to kheap.c when they agree on the headers on the list,
\* on what callers hold and on the stale headers: size, next and prev of a header
\* that is not on the list are never read.
HeapView ==
  <<blocks, live, want, stale,
    [a \in Addr |-> IF a \in blocks THEN <<size[a], is_free[a], next[a], prev[a]>>
                    ELSE IF a \in stale THEN <<is_free[a]>> ELSE <<>>]>>
=============================================================================
