--------------------------- MODULE SchedulerProofs ---------------------------
(***************************************************************************)
(* Proofs about Scheduler, for every number of tasks, every width of       *)
(* tick_count and every length of sleep.                                   *)
(***************************************************************************)
EXTENDS Scheduler, TLAPS

USE SchedulerAssumption DEF Pids, task_list

\* Only programs make system calls, so that a task whose code is anywhere but in its
\* main loop is one; they are on task_list, and only they wait on a socket.
ProgramsCall ==
  /\ user \subseteq task_list
  /\ \A t \in Pids : at[t] # "run" => t \in user
  /\ waiting_task # 0 => waiting_task \in user

\* DEAD is the state of tasks that have exited only.
DeadHalted == \A t \in Pids : state[t] = "DEAD" => at[t] = "halt"

\* A shell command that sleeps keeps the keyboard with the shell: no program runs until
\* it returns.
SleepsAsShell == sleeper # 0 => shell_active = 1 /\ isr1 = 1

\* Until the sleep has seen all the timer interrupts it waits for, tick_count has
\* advanced by as many as it has seen: by no software interrupt, and without a wrap
\* that the unsigned difference does not undo.
SleepCounted ==
  sleeper # 0 =>
    /\ slept <= ticks_to_wait
    /\ slept < ticks_to_wait => (tick_count - start) % TICKS = slept

IInv ==
  ShellOrProgram /\ ProgramsCall /\ DeadHalted /\ SleepsAsShell /\ SleepCounted

-----------------------------------------------------------------------------
\* Arithmetic modulo TICKS, where the provers need it: a tick more is one more, or the
\* wrap to 0, and the unsigned difference of two counts.
LEMMA TickedCount ==
  ASSUME NEW c \in 0 .. TICKS - 1
  PROVE  /\ (c + 1) % TICKS \in 0 .. TICKS - 1
         /\ (c + 1) % TICKS = IF c = TICKS - 1 THEN 0 ELSE c + 1
<1>1. CASE c = TICKS - 1
  <2>1. c + 1 = TICKS
    BY <1>1
  <2>2. TICKS % TICKS = 0
    OBVIOUS
  <2>. QED
    BY <1>1, <2>1, <2>2
<1>2. CASE c # TICKS - 1
  BY <1>2
<1>. QED
  BY <1>1, <1>2

LEMMA Difference ==
  ASSUME NEW c \in 0 .. TICKS - 1, NEW d \in 0 .. TICKS - 1
  PROVE  (c - d) % TICKS = IF c >= d THEN c - d ELSE c - d + TICKS
<1>1. CASE c >= d
  <2>1. c - d \in 0 .. TICKS - 1
    BY <1>1
  <2>. QED
    BY <1>1, <2>1
<1>2. CASE c < d
  <2>1. c - d \in -TICKS .. -1
    BY <1>2
  <2>. QED
    BY <1>2, <2>1
<1>. QED
  BY <1>1, <1>2

\* One tick later the unsigned difference is one more, unless it was at its maximum.
LEMMA DifferenceTicked ==
  ASSUME NEW c \in 0 .. TICKS - 1, NEW d \in 0 .. TICKS - 1,
         (c - d) % TICKS < TICKS - 1
  PROVE  (((c + 1) % TICKS) - d) % TICKS = ((c - d) % TICKS) + 1
<1>. DEFINE e == (c + 1) % TICKS
<1>1. e \in 0 .. TICKS - 1 /\ e = IF c = TICKS - 1 THEN 0 ELSE c + 1
  BY TickedCount
<1>. HIDE DEF e
<1>2. (e - d) % TICKS = IF e >= d THEN e - d ELSE e - d + TICKS
  BY <1>1, Difference
<1>3. (c - d) % TICKS = IF c >= d THEN c - d ELSE c - d + TICKS
  BY Difference
<1>4. (e - d) % TICKS = ((c - d) % TICKS) + 1
  BY <1>1, <1>2, <1>3
<1>. QED
  BY <1>4 DEF e

-----------------------------------------------------------------------------
\* The end of boot.
LEMMA InitInv == Init => IInv
<1>. SUFFICES ASSUME Init PROVE IInv
  OBVIOUS
<1>1. TypeOK
  BY DEF Init, TypeOK
<1>2. ShellOrProgram
  BY <1>1 DEF Init, ShellOrProgram, Alive
<1>. QED
  BY <1>2 DEF Init, IInv, ProgramsCall, DeadHalted, SleepsAsShell, SleepCounted

\* The dispatch changes no task but the one it takes, which is on the list and not DEAD.
LEMMA Dispatched ==
  ASSUME IInv, schedule_internal
  PROVE  \E t \in task_list :
           /\ state[t] # "DEAD"
           /\ current_task' = t
           /\ state' = [state EXCEPT ![t] = "RUNNING"]
           /\ if_flag' = 1
BY DEF schedule_internal, IsNext

\* timer_irq preserves the invariant: it is the one step that counts for a sleep.
LEMMA TimerInv == IInv /\ timer_irq => IInv'
<1>. SUFFICES ASSUME IInv, timer_irq PROVE IInv'
  OBVIOUS
<1>. USE DEF IInv
<1>1. PICK t \in task_list :
        /\ state[t] # "DEAD"
        /\ current_task' = t
        /\ state' = [state EXCEPT ![t] = "RUNNING"]
        /\ if_flag' = 1
  BY Dispatched DEF timer_irq
<1>2. /\ UNCHANGED <<taskVars, waiting_task, isr1, sleepVars>>
      /\ tick_count' = (tick_count + 1) % TICKS
      /\ slept' = IF sleeper = 0 \/ slept = ticks_to_wait THEN slept ELSE slept + 1
  BY DEF timer_irq, ticked
<1>3. tick_count' \in 0 .. TICKS - 1
  BY <1>2, TickedCount DEF ShellOrProgram, TypeOK
<1>4. SleepCounted'
  <2>. SUFFICES ASSUME sleeper # 0, slept' < ticks_to_wait
                PROVE  (tick_count' - start) % TICKS = slept'
    BY <1>2 DEF SleepCounted, ShellOrProgram, TypeOK, sleepVars
  <2>1. slept' = slept + 1 /\ (tick_count - start) % TICKS = slept
    BY <1>2 DEF SleepCounted, ShellOrProgram, TypeOK
  <2>2. (tick_count - start) % TICKS < TICKS - 1
    BY <2>1 DEF ShellOrProgram, TypeOK
  <2>. QED
    BY <1>2, <2>1, <2>2, DifferenceTicked DEF ShellOrProgram, TypeOK
<1>5. TypeOK'
  BY <1>1, <1>2, <1>3 DEF ShellOrProgram, TypeOK, SleepCounted, taskVars, sleepVars
<1>6. ShellOrProgram'
  BY <1>1, <1>2, <1>5 DEF ShellOrProgram, TypeOK, Alive, taskVars
<1>7. ProgramsCall' /\ SleepsAsShell'
  BY <1>2 DEF ProgramsCall, SleepsAsShell, taskVars, sleepVars
<1>8. DeadHalted'
  BY <1>1, <1>2 DEF DeadHalted, ShellOrProgram, TypeOK, taskVars
<1>. QED
  BY <1>4, <1>6, <1>7, <1>8

\* schedule() by a system call preserves it: its EOI and its tick fall into no sleep,
\* because a program runs.
LEMMA YieldInv ==
  ASSUME IInv, NEW u \in Pids, yield(u)
  PROVE  IInv'
<1>. USE DEF IInv
<1>1. PICK t \in task_list :
        /\ state[t] # "DEAD"
        /\ current_task' = t
        /\ state' = [state EXCEPT ![t] = "RUNNING"]
        /\ if_flag' = 1
  BY Dispatched DEF yield, schedule
<1>2. /\ UNCHANGED <<next_pid, user, shell_active, waiting_task, sleepVars, slept>>
      /\ tick_count' = (tick_count + 1) % TICKS
      /\ isr1' = 0
      /\ at[u] = "yield" /\ at' = [at EXCEPT ![u] = "check"]
  BY DEF yield, schedule, ticked, Own
<1>3. Alive(u) /\ shell_active = 0 /\ sleeper = 0
  BY <1>2 DEF ProgramsCall, Alive, ShellOrProgram, TypeOK, SleepsAsShell
<1>4. tick_count' \in 0 .. TICKS - 1
  BY <1>2, TickedCount DEF ShellOrProgram, TypeOK
<1>5. TypeOK'
  BY <1>1, <1>2, <1>4 DEF ShellOrProgram, TypeOK, sleepVars
<1>6. \A v \in Pids : Alive(v)' <=> Alive(v)
  BY <1>2 DEF Alive, ShellOrProgram, TypeOK
<1>7. ShellOrProgram'
  BY <1>1, <1>2, <1>3, <1>5, <1>6 DEF ShellOrProgram, TypeOK, DeadHalted, Alive
<1>8. ProgramsCall'
  BY <1>2, <1>3 DEF ProgramsCall, ShellOrProgram, TypeOK, Alive
<1>9. SleepsAsShell' /\ SleepCounted'
  BY <1>2, <1>3 DEF SleepsAsShell, SleepCounted, sleepVars
<1>10. DeadHalted'
  BY <1>1, <1>2 DEF DeadHalted, ShellOrProgram, TypeOK
<1>. QED
  BY <1>7, <1>8, <1>9, <1>10

\* The other steps of a task: system calls, and task_exit, after which no program is
\* left.
LEMMA TaskInv ==
  ASSUME IInv, NEW t \in Pids, TaskStep(t)
  PROVE  IInv'
<1>. USE DEF IInv, ShellOrProgram, TypeOK, Alive, ProgramsCall, DeadHalted,
             SleepsAsShell, SleepCounted, sleepVars, Own
<1>1. CASE syscall(t)
  BY <1>1 DEF syscall
<1>2. CASE sysret(t)
  BY <1>2 DEF sysret
<1>3. CASE set_waiting(t)
  BY <1>3 DEF set_waiting
<1>4. CASE set_sleep(t)
  BY <1>4 DEF set_sleep
<1>5. CASE yield(t)
  BY <1>5, YieldInv
<1>6. CASE task_exit(t)
  BY <1>6 DEF task_exit
<1>. QED
  BY <1>1, <1>2, <1>3, <1>4, <1>5, <1>6 DEF TaskStep

\* The network card's interrupt.
LEMMA NicInv == IInv /\ nic_irq => IInv'
BY DEF nic_irq, IInv, ShellOrProgram, TypeOK, Alive, ProgramsCall, DeadHalted,
       SleepsAsShell, SleepCounted, taskVars, sleepVars

\* sleep() waits for a tick at least, and for no more than its counter can tell.
LEMMA TicksTyped ==
  ASSUME NEW ms \in Waits
  PROVE  TicksOf(ms) \in 1 .. TICKS - 1
<1>. DEFINE x == (ms * FREQ) % TICKS
            n == x \div SECOND
<1>1. ms * FREQ \in Nat
  OBVIOUS
<1>2. x \in 0 .. TICKS - 1
  BY <1>1
<1>. HIDE DEF x
<1>3. n \in 0 .. TICKS - 1
  BY <1>2
<1>. QED
  BY <1>3 DEF TicksOf, x

\* The shell's commands; the keyboard interrupt that runs them finds no program and no
\* command that sleeps.
LEMMA ShellInv == IInv /\ ShellStep => IInv'
<1>. SUFFICES ASSUME IInv, ShellStep PROVE IInv'
  OBVIOUS
<1>. USE DEF IInv, ShellOrProgram, TypeOK, Alive, ProgramsCall, DeadHalted,
             SleepsAsShell, SleepCounted, taskVars, sleepVars
<1>1. CASE shell_exec
  BY <1>1 DEF shell_exec, create_task, ShellKey, Interruptible, KeyboardOwner
<1>2. CASE shell_graphics
  BY <1>2 DEF shell_graphics, create_task, ShellKey, Interruptible
<1>3. CASE \E ms \in Waits : shell_sleep(ms)
  BY <1>3, Difference, TicksTyped DEF shell_sleep, ShellKey, Interruptible, InService
<1>4. CASE shell_wakes
  BY <1>4 DEF shell_wakes
<1>. QED
  BY <1>1, <1>2, <1>3, <1>4 DEF ShellStep

LEMMA NextInv == IInv /\ [Next]_vars => IInv'
<1>. SUFFICES ASSUME IInv, [Next]_vars PROVE IInv'
  OBVIOUS
<1>1. CASE timer_irq
  BY <1>1, TimerInv
<1>2. CASE nic_irq
  BY <1>2, NicInv
<1>3. CASE ShellStep
  BY <1>3, ShellInv
<1>4. CASE \E t \in Pids : TaskStep(t)
  BY <1>4, TaskInv
<1>5. CASE UNCHANGED vars
  BY <1>5 DEF vars, IInv, ShellOrProgram, TypeOK, Alive, ProgramsCall, DeadHalted,
              SleepsAsShell, SleepCounted
<1>. QED
  BY <1>1, <1>2, <1>3, <1>4, <1>5 DEF Next

LEMMA Inductive == Spec => []IInv
BY InitInv, NextInv, PTL DEF Spec

-----------------------------------------------------------------------------
\* The keyboard belongs to the shell exactly when no program runs, at most one program
\* runs, and the type invariant holds: exec and task_exit hand shell_active to and fro
\* whatever the timer interleaves.
THEOREM KeyboardOwned == Spec => []ShellOrProgram
BY Inductive, PTL DEF IInv

\* IRQ1 stays in service while a shell command sleeps, although every schedule() sends
\* an EOI: no task calls it then.
THEOREM ShellSingle == Spec => []ShellNotReentered
<1>1. IInv => ShellNotReentered
  BY DEF IInv, SleepsAsShell, ShellNotReentered
<1>. QED
  BY <1>1, Inductive, PTL

\* sleep() never returns early: not by software ticks and not by the wrap of
\* tick_count.
THEOREM SleepsLongEnough == Spec => SleepLongEnough
<1>1. IInv /\ [Next]_vars => [sleeper # 0 /\ sleeper' = 0 => slept = ticks_to_wait]_vars
  <2>. SUFFICES ASSUME IInv, Next, sleeper # 0, sleeper' = 0
                PROVE  slept = ticks_to_wait
    OBVIOUS
  <2>1. shell_wakes
    <3>. USE DEF Own, sleepVars, IInv, ShellOrProgram, TypeOK
    <3>1. ~timer_irq /\ ~nic_irq
      BY DEF timer_irq, nic_irq
    <3>2. ASSUME NEW t \in Pids PROVE ~TaskStep(t)
      BY DEF TaskStep, syscall, sysret, set_waiting, set_sleep, yield, schedule, task_exit
    <3>3. ~shell_exec /\ ~shell_graphics
      BY DEF shell_exec, shell_graphics
    <3>4. ASSUME NEW ms \in Waits PROVE ~shell_sleep(ms)
      BY DEF shell_sleep
    <3>. QED
      BY <3>1, <3>2, <3>3, <3>4 DEF Next, ShellStep
  <2>. QED
    BY <2>1 DEF shell_wakes, TimeIsOver, IInv, SleepCounted, ShellOrProgram, TypeOK
<1>. QED
  BY <1>1, Inductive, PTL DEF Spec, SleepLongEnough
=============================================================================
