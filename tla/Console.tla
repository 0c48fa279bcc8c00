------------------------------- MODULE Console -------------------------------
(***************************************************************************)
(* The text console: the keyboard driver with its ring                     *)
(* (kernel/drivers/keyboard.c), the shell's line editor and history        *)
(* (kernel/ui/shell.c) and the terminal they write to (put_char in         *)
(* kernel/core/kernel.c).                                                  *)
(*                                                                         *)
(* A key is handled within its interrupt, in one step.  Scan codes and the *)
(* shift key decide which character arrives and are left out.  Of the      *)
(* screen only what stands behind the last prompt is kept, not the rows    *)
(* above nor their scrolling; the prompt is one cell wide.                 *)
(***************************************************************************)
EXTENDS Integers, SequencesExt

CONSTANTS
  Chars,        \* printable characters
  BUFFER_SIZE,  \* of a line
  HISTORY_MAX,
  KBD_BUF_SIZE,
  WIDTH         \* columns of the terminal

ASSUME ConsoleAssumption ==
  /\ {BUFFER_SIZE, HISTORY_MAX, KBD_BUF_SIZE, WIDTH} \subseteq Nat \ {0, 1}
  /\ Chars \intersect {"enter", "back", "prompt"} = {}

VARIABLES
  input_buffer,     \* the line up to buffer_idx
  history_buffer,   \* the lines up to history_count
  history_nav_idx,
  shell_active,
  kbd_buffer, kbd_buf_head, kbd_buf_tail,
  term,             \* the text behind the last prompt, the column, a cell left behind
  \* history
  recent,           \* the keys last stored in the ring
  mixed             \* the line or the screen changed behind the prompt's back

lineVars == <<input_buffer, history_buffer, history_nav_idx>>
ringVars == <<kbd_buffer, kbd_buf_head, kbd_buf_tail, recent>>
consoleVars == <<lineVars, ringVars, shell_active, term, mixed>>

Cells == 0 .. KBD_BUF_SIZE - 1
history_count == Len(history_buffer)

-----------------------------------------------------------------------------
\* put_char of a printable character: at the last column the row ends.
put_char(t, c) == [t EXCEPT !.text = Append(@, c), !.col = (@ + 1) % WIDTH]

\* put_char of a backspace goes back within the row only.
put_back(t) ==
  IF t.col = 0 THEN [t EXCEPT !.left = TRUE]
  ELSE [t EXCEPT !.text = Front(@), !.col = @ - 1]

put_str(t, s) ==
  LET at[k \in 0 .. Len(s)] == IF k = 0 THEN t ELSE put_char(at[k - 1], s[k])
  IN at[Len(s)]

\* Seeded mistake: one character of the old line stays on the screen.
EraseLess(t, n) ==
  LET at[k \in 0 .. n] == IF k <= 1 THEN t ELSE put_back(at[k - 1]) IN at[n]

\* A backspace for each of n characters.
Erase(t, n) ==
  LET at[k \in 0 .. n] == IF k = 0 THEN t ELSE put_back(at[k - 1]) IN at[n]

\* The cursor in a column, nothing of interest before it.
Cursor(col) == [text |-> <<>>, col |-> col, left |-> FALSE]

print_prompt(col) == put_char(Cursor(col), "prompt")

ConsoleInit ==
  /\ input_buffer = <<>> /\ history_buffer = <<>> /\ history_nav_idx = 0
  /\ shell_active = TRUE
  /\ kbd_buffer = [i \in Cells |-> "none"] /\ kbd_buf_head = 0 /\ kbd_buf_tail = 0
  /\ term = print_prompt(0)
  /\ recent = <<>> /\ mixed = FALSE

ConsoleBoot ==
  /\ input_buffer' = <<>> /\ history_buffer' = <<>> /\ history_nav_idx' = 0
  /\ shell_active' = TRUE
  /\ kbd_buffer' = [i \in Cells |-> "none"] /\ kbd_buf_head' = 0 /\ kbd_buf_tail' = 0
  /\ term' = print_prompt(0)
  /\ recent' = <<>> /\ mixed' = FALSE

-----------------------------------------------------------------------------
\* The history after a line: a line like the last one is not stored, and the oldest
\* one makes room.
Remembered(line) ==
  IF line = <<>> \/ (history_count > 0 /\ Last(history_buffer) = line)
  THEN history_buffer
  ELSE Append(IF history_count < HISTORY_MAX THEN history_buffer ELSE Tail(history_buffer),
              line)

\* Enter: execute_command runs between storing the line and emptying it.  It ends its
\* output with a new line; active is what it leaves in shell_active, and only an
\* active shell prints its prompt.
enter(active) ==
  /\ history_buffer' = Remembered(input_buffer)
  /\ history_nav_idx' = Len(history_buffer')
  /\ input_buffer' = <<>>
  /\ shell_active' = active
  /\ term' = IF active THEN print_prompt(0) ELSE Cursor(0)
  /\ mixed' = FALSE
  /\ UNCHANGED ringVars

\* The line and the terminal after an edit.  The terminal is no longer followed once
\* it shows something else: a row that backspaces cannot leave, or the line edited
\* while a program owns the screen.
Edit(line, t) ==
  /\ input_buffer' = line
  /\ mixed' = (mixed \/ ~shell_active \/ t.left)
  /\ term' = IF mixed' THEN Cursor(0) ELSE t

\* A line of the history in place of the one being typed.
Recall(line) == Edit(line, put_str(Erase(term, Len(input_buffer)), line))

\* The arrow keys reach shell_input whoever owns the keyboard.
up ==
  /\ history_count > 0 /\ history_nav_idx > 0
  /\ history_nav_idx' = history_nav_idx - 1
  /\ Recall(history_buffer[history_nav_idx])
  /\ UNCHANGED <<history_buffer, shell_active, ringVars>>

down ==
  /\ history_nav_idx < history_count
  /\ history_nav_idx' = history_nav_idx + 1
  /\ Recall(IF history_nav_idx' = history_count THEN <<>>
            ELSE history_buffer[history_nav_idx' + 1])
  /\ UNCHANGED <<history_buffer, shell_active, ringVars>>

backspace ==
  /\ shell_active /\ input_buffer # <<>>
  /\ Edit(Front(input_buffer), put_back(term))
  /\ UNCHANGED <<history_buffer, history_nav_idx, shell_active, ringVars>>

character(c) ==
  /\ shell_active /\ Len(input_buffer) < BUFFER_SIZE - 1
  /\ Edit(Append(input_buffer, c), put_char(term, c))
  /\ UNCHANGED <<history_buffer, history_nav_idx, shell_active, ringVars>>

\* Seeded mistake: the head moves before the key is stored.
StoredAhead(c) == [kbd_buffer EXCEPT ![(kbd_buf_head + 1) % KBD_BUF_SIZE] = c]

Stored(c) == [kbd_buffer EXCEPT ![kbd_buf_head] = c]

\* keyboard_put while a program owns the keyboard: nothing stops the head at the tail.
keyboard_put(c) ==
  /\ ~shell_active
  /\ kbd_buffer' = Stored(c)
  /\ kbd_buf_head' = (kbd_buf_head + 1) % KBD_BUF_SIZE
  /\ recent' = IF Len(recent) < KBD_BUF_SIZE - 1 THEN Append(recent, c)
               ELSE Append(Tail(recent), c)
  /\ UNCHANGED <<lineVars, kbd_buf_tail, shell_active, term, mixed>>

\* sys_getchar of the program; an empty ring gives 0 and changes nothing.
keyboard_get ==
  /\ ~shell_active /\ kbd_buf_head # kbd_buf_tail
  /\ kbd_buf_tail' = (kbd_buf_tail + 1) % KBD_BUF_SIZE
  /\ UNCHANGED <<lineVars, kbd_buffer, kbd_buf_head, recent, shell_active, term, mixed>>

\* task_exit of the program, which has left the cursor in any column.  The line is
\* not emptied, and keys that were not read stay in the ring.
task_exit ==
  /\ ~shell_active
  /\ shell_active' = TRUE
  /\ \E col \in 0 .. WIDTH - 1 : term' = IF mixed THEN Cursor(0) ELSE print_prompt(col)
  /\ UNCHANGED <<lineVars, ringVars, mixed>>

\* An interrupt handler prints a message while a line is being typed.
kernel_message ==
  /\ shell_active
  /\ mixed' = TRUE /\ term' = Cursor(0)
  /\ UNCHANGED <<lineVars, ringVars, shell_active>>

-----------------------------------------------------------------------------
\* What stands behind the prompt is the line that Enter will execute, over editing,
\* recalls from the history and programs that come and go in between; unless a kernel
\* message, a backspace at the left edge or an arrow key pressed while a program ran
\* came in between, which the code does not repair before the next Enter.
PromptShowsLine ==
  shell_active /\ ~mixed => term.text = <<"prompt">> \o input_buffer

\* A program reads keys in the order they were typed: the ring, however often its head
\* has passed its tail, holds the newest ones.  A full ring loses a round of old keys,
\* never one in the middle.
KeysInOrder ==
  LET n == (kbd_buf_head - kbd_buf_tail) % KBD_BUF_SIZE
  IN  [k \in 1 .. n |-> kbd_buffer[(kbd_buf_tail + k - 1) % KBD_BUF_SIZE]]
        = SubSeq(recent, Len(recent) - n + 1, Len(recent))
=============================================================================
