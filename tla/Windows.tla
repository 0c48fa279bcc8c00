------------------------------- MODULE Windows -------------------------------
(***************************************************************************)
(* The graphical mode: the mouse interrupt (kernel/drivers/mouse.c) edits  *)
(* the list of windows (kernel/ui/gui.c) while graphics_task walks it to   *)
(* draw them (gui_render, graphics_task in kernel/core/kernel.c).          *)
(*                                                                         *)
(* Where a window is matters only for which windows lie under the mouse:   *)
(* any set of them may, windows being dragged about.  The list is kept     *)
(* with its pointers; a window block is freed by kfree and may be given    *)
(* out again, to another window.                                           *)
(***************************************************************************)
EXTENDS Integers, SequencesExt, FiniteSets

CONSTANT WindowBlocks  \* bound on the windows that exist at once

ASSUME WindowsAssumption == IsFiniteSet(WindowBlocks) /\ "none" \notin WindowBlocks

VARIABLES
  vbe_active,
  window,            \* block -> next and prev
  window_list_head, window_list_tail,
  last_buttons,      \* the left button as the GUI saw it last
  dragged_window,
  mouse_cycle, mouse_byte,  \* the packet being received; its first byte
  curr,              \* the window graphics_task is drawing
  \* history
  live,              \* allocated blocks
  drawn,             \* windows drawn in this frame, while the list stays
  changed,           \* the list changed since the frame began
  torn               \* the window being drawn was closed under it

listVars == <<window, window_list_head, window_list_tail, live>>
mouseVars == <<mouse_cycle, mouse_byte>>
frameVars == <<curr, drawn, changed, torn>>
windowVars == <<vbe_active, listVars, last_buttons, dragged_window, mouseVars, frameVars>>

NoWindow == "none"
NoBlock == [next |-> NoWindow, prev |-> NoWindow]
NoByte == [sync |-> FALSE, left |-> FALSE, overflow |-> FALSE]

WindowsInit ==
  /\ vbe_active = FALSE
  /\ window = [w \in WindowBlocks |-> NoBlock] /\ live = {}
  /\ window_list_head = NoWindow /\ window_list_tail = NoWindow
  /\ last_buttons = FALSE /\ dragged_window = NoWindow
  /\ mouse_cycle = 0 /\ mouse_byte = NoByte
  /\ curr = NoWindow /\ drawn = 0 /\ changed = FALSE /\ torn = FALSE

-----------------------------------------------------------------------------
\* The list as a value: its pointers, ends and blocks.
List == [win |-> window, head |-> window_list_head, tail |-> window_list_tail,
         live |-> live]

\* gui_create_window appends the new window w, at the front of the screen.
Opened(l, w) ==
  LET blank == [l.win EXCEPT ![w] = NoBlock] IN
  IF l.head = NoWindow
  THEN [win |-> blank, head |-> w, tail |-> w, live |-> l.live \union {w}]
  ELSE [win |-> [blank EXCEPT ![l.tail].next = w, ![w].prev = l.tail],
        head |-> l.head, tail |-> w, live |-> l.live \union {w}]

\* The neighbours of w are linked to each other; the head moves on.
Unlinked(l, w) ==
  LET next == l.win[w].next
      prev == l.win[w].prev
      forward == IF prev = NoWindow THEN l.win ELSE [l.win EXCEPT ![prev].next = next]
      both == IF next = NoWindow THEN forward ELSE [forward EXCEPT ![next].prev = prev]
  IN [l EXCEPT !.win = both, !.head = IF @ = w THEN next ELSE @]

\* gui_destroy_window.
Destroyed(l, w) ==
  LET u == Unlinked(l, w) IN
  [u EXCEPT !.tail = IF @ = w THEN l.win[w].prev ELSE @,
            !.live = @ \ {w}, !.win[w] = NoBlock]

\* Seeded mistake: the raised window keeps its next pointer.
RaisedKeepsNext(l, w) ==
  LET u == Unlinked(l, w) IN
  [u EXCEPT !.win[w].prev = u.tail, !.win[u.tail].next = w, !.tail = w]

\* gui_bring_to_front of a window that is not in front.
Raised(l, w) ==
  LET u == Unlinked(l, w) IN
  [u EXCEPT !.win[w].next = NoWindow, !.win[w].prev = u.tail,
            !.win[u.tail].next = w, !.tail = w,
            !.head = IF @ = NoWindow THEN w ELSE @]

BringToFront(l, w) == IF w = l.tail THEN l ELSE Raised(l, w)

\* The windows from the front to the back, as the search for a click goes.
FrontToBack(l) ==
  LET walk[n \in 0 .. Cardinality(WindowBlocks)] ==
        IF n = 0 THEN IF l.tail = NoWindow THEN <<>> ELSE <<l.tail>>
        ELSE LET seen == walk[n - 1] IN
             IF seen = <<>> \/ l.win[Last(seen)].prev = NoWindow THEN seen
             ELSE Append(seen, l.win[Last(seen)].prev)
  IN walk[Cardinality(WindowBlocks)]

BackToFront == Reverse(FrontToBack(List))

\* What a click hits: the front-most of the windows under it.
Hit(l, under) ==
  LET order == FrontToBack(l) IN order[Min({k \in DOMAIN order : order[k] \in under})]

-----------------------------------------------------------------------------
\* start_graphics: three windows, the mouse, the graphics task.
start_graphics ==
  /\ ~vbe_active
  /\ \E a, b, c \in WindowBlocks :
       /\ a # b /\ b # c /\ a # c
       /\ LET empty == [win |-> window, head |-> NoWindow, tail |-> NoWindow, live |-> {}]
              l == Opened(Opened(Opened(empty, a), b), c)
          IN  /\ window' = l.win /\ live' = l.live
              /\ window_list_head' = l.head /\ window_list_tail' = l.tail
  /\ vbe_active' = TRUE
  /\ UNCHANGED <<last_buttons, dragged_window, mouseVars, frameVars>>

\* The list becomes l; a window that graphics_task is drawing may go with it.
Becomes(l) ==
  /\ window' = l.win /\ live' = l.live
  /\ window_list_head' = l.head /\ window_list_tail' = l.tail
  /\ changed' = (changed \/ FrontToBack(l) # FrontToBack(List))
  /\ torn' = (torn \/ (curr # NoWindow /\ curr \notin l.live))
  /\ drawn' = IF changed' THEN 0 ELSE drawn
  /\ UNCHANGED curr

\* A click first looks for an icon at its point, each of which opens a window; there
\* may be none.
Icon(l) == {l} \union {Opened(l, w) : w \in WindowBlocks \ l.live}

\* Then it goes to the front-most of the windows under it.
left_click ==
  \E l \in Icon(List), under \in SUBSET live :
    IF under = {}
    THEN Becomes(l) /\ UNCHANGED dragged_window
    ELSE LET w == Hit(l, under)
             front == BringToFront(l, w)
         IN  \* the close button
             \/ Becomes(Destroyed(l, w)) /\ UNCHANGED dragged_window
             \* the title bar
             \/ Becomes(front) /\ dragged_window' = w
             \* the window, its label or its button
             \/ Becomes(front) /\ UNCHANGED dragged_window

\* gui_on_mouse_event with the left button down or up; a drag only moves its window.
gui_on_mouse_event(left) ==
  /\ last_buttons' = left
  /\ \/ left /\ ~last_buttons /\ left_click
     \/ /\ ~left /\ last_buttons
        /\ dragged_window' = NoWindow
        /\ UNCHANGED <<listVars, frameVars>>
     \/ /\ left = last_buttons
        /\ UNCHANGED <<dragged_window, listVars, frameVars>>

\* mouse_handler: one byte of a packet.  Bytes get lost, so that any byte may be taken
\* for any other; a packet with an overflow bit moves nothing and is not reported.
mouse_handler(byte) ==
  /\ vbe_active /\ UNCHANGED vbe_active
  /\ \/ /\ mouse_cycle = 0 /\ byte.sync
        /\ mouse_byte' = byte /\ mouse_cycle' = 1
        /\ UNCHANGED <<listVars, frameVars, last_buttons, dragged_window>>
     \/ /\ mouse_cycle = 1 /\ mouse_cycle' = 2
        /\ UNCHANGED <<mouse_byte, listVars, frameVars, last_buttons, dragged_window>>
     \/ /\ mouse_cycle = 2 /\ mouse_cycle' = 0 /\ mouse_byte' = NoByte
        /\ IF mouse_byte.overflow
             THEN UNCHANGED <<listVars, frameVars, last_buttons, dragged_window>>
             ELSE gui_on_mouse_event(mouse_byte.left)

Bytes == [sync : BOOLEAN, left : BOOLEAN, overflow : BOOLEAN]

\* gui_render, interrupted between any two windows: it starts at the back, ...
render_begin ==
  /\ vbe_active /\ curr = NoWindow
  /\ curr' = window_list_head
  /\ drawn' = 0 /\ changed' = FALSE /\ torn' = FALSE
  /\ UNCHANGED <<vbe_active, listVars, last_buttons, dragged_window, mouseVars>>

\* ... and reads the next window from the one it has drawn, or from what the heap made
\* of its block since it was closed.
render_next ==
  /\ vbe_active /\ curr # NoWindow
  /\ IF torn THEN curr' \in WindowBlocks \union {NoWindow}
     ELSE curr' = window[curr].next
  /\ drawn' = IF changed THEN 0 ELSE drawn + 1
  /\ UNCHANGED <<vbe_active, listVars, last_buttons, dragged_window, mouseVars,
                 changed, torn>>

-----------------------------------------------------------------------------
\* The list of windows read forwards is the list read backwards, it has every window
\* that exists, and the window being dragged is one of them.
WindowsLinked ==
  /\ ToSet(BackToFront) = live
  /\ Len(BackToFront) = Cardinality(live)
  /\ \A w \in live :
       /\ window[w].next # NoWindow => window[window[w].next].prev = w
       /\ window[w].prev = NoWindow <=> window_list_head = w
       /\ window[w].next = NoWindow <=> window_list_tail = w
  /\ dragged_window # NoWindow => dragged_window \in live /\ last_buttons

\* graphics_task draws the windows in order and each once while the list stays as it
\* is, and is on a window that exists unless the one it was drawing has been closed.
FrameSound ==
  /\ ~changed /\ curr # NoWindow => BackToFront[drawn + 1] = curr
  /\ ~torn /\ curr # NoWindow => curr \in live

\* The window list is sound for the mouse interrupt that edits it, and for the task
\* that walks it with interrupts on.
WindowsSound == WindowsLinked /\ FrameSound
=============================================================================
