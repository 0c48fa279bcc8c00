------------------------------ MODULE MCSockets ------------------------------
(***************************************************************************)
(* Sockets with fewer descriptors, slots and PCBs than programs ask for.   *)
(* Heap blocks are interchangeable: kmalloc may return any free one.       *)
(***************************************************************************)
EXTENDS Sockets, TLC

HeapSymmetry == Permutations(Nodes) \union Permutations(Blocks) \union Permutations(Hosts)
=============================================================================
