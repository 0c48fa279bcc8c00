--------------------------------- MODULE Ui ----------------------------------
(***************************************************************************)
(* The user interface composed: keys go to the shell, to the program it    *)
(* started or, in graphical mode, nowhere; a line may run a program, work  *)
(* on the tree, start the graphical mode or restart the machine.           *)
(***************************************************************************)
EXTENDS Console, Cwd, Windows

vars == <<consoleVars, cwdVars, windowVars>>

Init == ConsoleInit /\ CwdInit /\ WindowsInit

\* A line of text, nothing typed, or a command without effect on what is kept here.
command_other == enter(TRUE) /\ UNCHANGED <<cwdVars, windowVars>>

command_tree == input_buffer # <<>> /\ enter(TRUE) /\ TreeCommand /\ UNCHANGED windowVars

\* exec of a file that elf_load accepts.
command_exec == input_buffer # <<>> /\ enter(FALSE) /\ UNCHANGED <<cwdVars, windowVars>>

command_vinit == input_buffer # <<>> /\ enter(TRUE) /\ start_graphics /\ UNCHANGED cwdVars

command_reboot == input_buffer # <<>> /\ ConsoleBoot /\ CwdBoot /\ UNCHANGED windowVars

execute_command ==
  command_other \/ command_tree \/ command_exec \/ command_vinit \/ command_reboot

\* shell_input, which the graphical mode turns off.
shell_key ==
  /\ ~vbe_active
  /\ \/ shell_active /\ execute_command
     \/ (up \/ down \/ backspace \/ \E c \in Chars : character(c))
          /\ UNCHANGED <<cwdVars, windowVars>>

\* What else happens in text mode: keys for the program and what it does with them,
\* messages of interrupt handlers.
text_mode ==
  \/ (\/ \E c \in Chars \union {"enter"} : keyboard_put(c)
      \/ keyboard_get \/ task_exit
      \/ ~vbe_active /\ kernel_message) /\ UNCHANGED <<cwdVars, windowVars>>
  \/ ~shell_active /\ sys_open_creat /\ UNCHANGED <<consoleVars, windowVars>>

\* The mouse interrupt and the graphics task.
graphical_mode ==
  /\ (\E byte \in Bytes : mouse_handler(byte)) \/ render_begin \/ render_next
  /\ UNCHANGED <<consoleVars, cwdVars>>

Next == shell_key \/ text_mode \/ graphical_mode

Spec == Init /\ [][Next]_vars
=============================================================================
