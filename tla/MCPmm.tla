-------------------------------- MODULE MCPmm --------------------------------
(***************************************************************************)
(* Pmm on every memory map of a machine with nine frames: two of low       *)
(* memory, one of the kernel, and two that alloc_frame may not hand out.   *)
(***************************************************************************)
EXTENDS Pmm
=============================================================================
