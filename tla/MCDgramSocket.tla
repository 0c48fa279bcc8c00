---------------------------- MODULE MCDgramSocket ----------------------------
(***************************************************************************)
(* DgramSocket with three packets, one of them empty, and a ring that two  *)
(* or three of them fill.                                                  *)
(***************************************************************************)
EXTENDS DgramSocket

MCPackets == {[src |-> 1, data |-> <<>>],
              [src |-> 2, data |-> <<5>>],
              [src |-> 1, data |-> <<6, 7, 5>>]}
=============================================================================
