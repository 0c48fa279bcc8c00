-------------------------------- MODULE MCUi ---------------------------------
(***************************************************************************)
(* Ui with lines of two characters, a history of two lines, a ring of      *)
(* three keys, a tree of three inodes and three windows.                   *)
(***************************************************************************)
EXTENDS Ui, TLC

\* The parts are explored together, but not every state of one with every state of the
\* others: of a used tree, a used ring, windows and long lines there is one at a time.
Short ==
  /\ history_count <= 1
  /\ \A line \in ToSet(history_buffer) \union {input_buffer} : Len(line) <= 1

Focus ==
  LET uses == <<cwdVars # <<EmptyDisk, <<>>, Root, FALSE>>, recent # <<>>,
                vbe_active, ~Short>>
  IN \A i, j \in DOMAIN uses : uses[i] /\ uses[j] => i = j

BlockSymmetry == Permutations(WindowBlocks)
=============================================================================
