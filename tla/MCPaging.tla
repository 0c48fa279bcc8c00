------------------------------ MODULE MCPaging -------------------------------
(***************************************************************************)
(* Paging with 8 entries to a table, 2 tables' worth of user pages and 15  *)
(* or 16 frames, or so few that init_paging runs out of them.  In one      *)
(* memory map the free frames are scattered, so that the driver finds no   *)
(* two in a row.  One program has a segment in the higher half.            *)
(***************************************************************************)
EXTENDS Paging

MCPrograms == {<<0>>, <<1, 12>>, <<1, 20>>}
MCIncrements == {1, 3, -2, -30}
MCBreaks == 21 .. 32
MCHoles == {{}, {5, 7, 9, 11, 13, 15}}
=============================================================================
