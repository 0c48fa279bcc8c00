----------------------------- MODULE HeapContract -----------------------------
(***************************************************************************)
(* What kernel/mm/kheap.h promises its callers, without headers or lists:  *)
(* a set of owned extents <<start, length>> inside the heap.               *)
(***************************************************************************)
EXTENDS Integers

CONSTANTS HEAP_SIZE, Requests

VARIABLE owned

Init == owned = {}

Apart(p, n, q, m) == p + n <= q \/ q + m <= p

\* kmalloc: any place in the heap that no owned extent touches.
Malloc(n) ==
  \E p \in 0 .. HEAP_SIZE - 1 :
    /\ p + n <= HEAP_SIZE
    /\ \A e \in owned : Apart(p, n, e[1], e[2])
    /\ owned' = owned \union {<<p, n>>}

\* kfree: exactly one extent is given back.
Free(e) == owned' = owned \ {e}

Next ==
  \/ \E n \in Requests : Malloc(n)
  \/ \E e \in owned : Free(e)

Spec == Init /\ [][Next]_owned
=============================================================================
