-------------------------------- MODULE MCPafs --------------------------------
(***************************************************************************)
(* Pafs with the root, two more inodes and three data blocks, two inodes   *)
(* to a sector: a subdirectory with an entry, or two files that compete    *)
(* for the blocks and run out of them.                                     *)
(***************************************************************************)
EXTENDS Pafs, TLC

\* Names and written values are only compared with each other.
Interchangeable == Permutations(Names) \union Permutations(Values)
=============================================================================
