------------------------------ MODULE Scheduler ------------------------------
(***************************************************************************)
(* Tasks, the round-robin scheduler, and what interrupts them:             *)
(* kernel/proc/task.c, kernel/core/irq.c, kernel/drivers/timer.c, and the  *)
(* commands of kernel/ui/shell.c that start a task or sleep, which run     *)
(* inside the keyboard interrupt.                                          *)
(*                                                                         *)
(* The machine has one processor.  Code with IF clear runs to the next     *)
(* sti or iret without interruption.  A task loses the processor only at   *)
(* the timer interrupt and at schedule(), which raises the same vector in  *)
(* software, and both save a context in which IF is set.                   *)
(*                                                                         *)
(* create_task appends to task_list and gives out increasing pids, so the  *)
(* list is always 1, 2, ..., next_pid - 1 in this order.                   *)
(***************************************************************************)
EXTENDS Integers

CONSTANTS
  MAX_TASKS,   \* bound: tasks ever created, limited by the kernel heap
  BOOT_TASKS,  \* tasks that exist when interrupts are first enabled
  TICKS,       \* modulus of tick_count and of the other unsigned integers, 2^32
  FREQ,        \* ticks in a second, 100
  SECOND,      \* milliseconds in a second, 1000
  Waits        \* milliseconds the shell is asked to sleep

ASSUME SchedulerAssumption ==
  /\ MAX_TASKS \in Nat
  /\ BOOT_TASKS \in 1 .. MAX_TASKS
  /\ TICKS \in Nat \ {0, 1}
  /\ FREQ \in Nat
  /\ SECOND \in Nat \ {0}
  /\ Waits \subseteq 1 .. TICKS - 1

VARIABLES
  next_pid,
  state,         \* the TCB's state; "NONE" before create_task
  user,          \* tasks created with is_user
  current_task,
  at,            \* where the task's own code is
  if_flag,       \* interrupt flag of the running code
  shell_active,
  waiting_task,  \* the socket's waiting_task, 0 for NULL
  isr1,          \* IRQ1 is in service in the PIC: no EOI yet
  sleeper,       \* task in whose context a shell command sleeps, 0 for none
  start,         \* locals of sleep()
  ticks_to_wait,
  tick_count,
  slept          \* timer interrupts since the sleep began

vars == <<next_pid, state, user, current_task, at, if_flag, shell_active,
          waiting_task, isr1, sleeper, start, ticks_to_wait, tick_count, slept>>

taskVars == <<next_pid, user, at, shell_active>>
sleepVars == <<sleeper, start, ticks_to_wait>>

Pids == 1 .. MAX_TASKS
task_list == 1 .. next_pid - 1
Alive(t) == t \in user /\ at[t] # "halt"

-----------------------------------------------------------------------------
\* kernel main: the kernel task runs, gorev1 and gorev2 are ready, the shell has
\* the keyboard, interrupts are on.
Init ==
  /\ next_pid = BOOT_TASKS + 1
  /\ state = [t \in Pids |-> IF t = 1 THEN "RUNNING"
                             ELSE IF t <= BOOT_TASKS THEN "READY" ELSE "NONE"]
  /\ user = {}
  /\ current_task = 1
  /\ at = [t \in Pids |-> "run"]
  /\ if_flag = 1
  /\ shell_active = 1
  /\ waiting_task = 0
  /\ isr1 = 0
  /\ sleeper = 0
  /\ start = 0
  /\ ticks_to_wait = 0
  /\ tick_count = 0
  /\ slept = 0

\* How many tasks the search passes over before it comes to t.
Distance(t) ==
  LET d == t - current_task - 1
  IN  IF d >= 0 THEN d ELSE d + next_pid - 1

\* Seeded mistake: the search starts at the head of the list.
IsNextFromHead(t) ==
  /\ t \in task_list
  /\ state[t] # "DEAD"
  /\ \A u \in task_list : state[u] # "DEAD" => t <= u

\* schedule_internal's search: from the successor of the current task, round the
\* list, to the first task that is not DEAD.  A task that is asleep is taken too.
IsNext(t) ==
  /\ t \in task_list
  /\ state[t] # "DEAD"
  /\ \A u \in task_list : state[u] # "DEAD" => Distance(t) <= Distance(u)

schedule_internal ==
  \E t \in Pids :
    /\ IsNext(t)
    /\ current_task' = t
    /\ state' = [state EXCEPT ![t] = "RUNNING"]
    /\ if_flag' = 1

\* timer_handler.
ticked == (tick_count + 1) % TICKS

\* irq_handler for the PIT: timer_handler, EOI (which ends IRQ0, the interrupt of
\* highest priority), then the scheduler.
timer_irq ==
  /\ if_flag = 1
  /\ tick_count' = ticked
  /\ slept' = IF sleeper = 0 \/ slept = ticks_to_wait THEN slept ELSE slept + 1
  /\ schedule_internal
  /\ UNCHANGED <<taskVars, waiting_task, isr1, sleepVars>>

\* schedule(): "sti; int $0x20" enters the same handler without an interrupt from
\* the PIC.  tick_count advances, and the EOI ends whatever is in service, IRQ1
\* included.
schedule ==
  /\ tick_count' = ticked
  /\ isr1' = 0
  /\ schedule_internal
  /\ UNCHANGED <<next_pid, user, shell_active, waiting_task, sleepVars, slept>>

-----------------------------------------------------------------------------
\* Steps of the running task itself, while no shell command runs on top of it.
Own(t, pc) == current_task = t /\ sleeper # t /\ at[t] = pc

\* A user program enters a system call that may block (connect, accept, recv):
\* the gate clears IF.
syscall(t) ==
  /\ Own(t, "run")
  /\ Alive(t)
  /\ if_flag' = 0
  /\ at' = [at EXCEPT ![t] = "check"]
  /\ UNCHANGED <<next_pid, state, user, current_task, shell_active, waiting_task,
                 isr1, sleepVars, tick_count, slept>>

\* What the call waits for is there: it returns, and iret sets IF again.
sysret(t) ==
  /\ Own(t, "check")
  /\ if_flag' = 1
  /\ at' = [at EXCEPT ![t] = "run"]
  /\ UNCHANGED <<next_pid, state, user, current_task, shell_active, waiting_task,
                 isr1, sleepVars, tick_count, slept>>

\* It is not: s->waiting_task = current, waiting_task->state = TASK_SLEEP and
\* schedule(), three steps that interrupts separate once IF is set.
set_waiting(t) ==
  /\ Own(t, "check")
  /\ waiting_task' = t
  /\ at' = [at EXCEPT ![t] = "mark"]
  /\ UNCHANGED <<next_pid, state, user, current_task, if_flag, shell_active, isr1,
                 sleepVars, tick_count, slept>>

set_sleep(t) ==
  /\ Own(t, "mark")
  /\ state' = [state EXCEPT ![t] = "SLEEP"]
  /\ at' = [at EXCEPT ![t] = "yield"]
  /\ UNCHANGED <<next_pid, user, current_task, if_flag, shell_active, waiting_task,
                 isr1, sleepVars, tick_count, slept>>

yield(t) ==
  /\ Own(t, "yield")
  /\ at' = [at EXCEPT ![t] = "check"]
  /\ schedule

\* task_exit: the shell gets the keyboard back and the task halts with
\* interrupts on.  waiting_task of the sockets it used is left as it is.
task_exit(t) ==
  /\ Own(t, "run")
  /\ Alive(t)
  /\ state' = [state EXCEPT ![t] = "DEAD"]
  /\ at' = [at EXCEPT ![t] = "halt"]
  /\ shell_active' = 1
  /\ if_flag' = 1
  /\ UNCHANGED <<next_pid, user, current_task, waiting_task, isr1, sleepVars,
                 tick_count, slept>>

-----------------------------------------------------------------------------
\* Interrupts other than the timer.  IRQ1 in service masks itself and everything
\* of lower priority.
Interruptible == if_flag = 1 /\ isr1 = 0

\* The NIC wakes the task that waits on the socket.
nic_irq ==
  /\ Interruptible
  /\ waiting_task # 0
  /\ state' = [state EXCEPT ![waiting_task] = "READY"]
  /\ waiting_task' = 0
  /\ UNCHANGED <<taskVars, current_task, if_flag, isr1, sleepVars, tick_count, slept>>

\* Enter in the shell: keyboard_put hands keys to the shell while it is active.
ShellKey == Interruptible /\ shell_active = 1

create_task(is_user) ==
  /\ next_pid <= MAX_TASKS
  /\ state' = [state EXCEPT ![next_pid] = "READY"]
  /\ user' = IF is_user THEN user \union {next_pid} ELSE user
  /\ next_pid' = next_pid + 1

\* Seeded mistake: the shell keeps the keyboard.
KeyboardOwnerShell == 1

\* shell_active while a program runs.
KeyboardOwner == 0

\* "exec": the program gets the keyboard and becomes a task.
shell_exec ==
  /\ ShellKey
  /\ shell_active' = KeyboardOwner
  /\ create_task(TRUE)
  /\ UNCHANGED <<current_task, at, if_flag, waiting_task, isr1, sleepVars, tick_count,
                 slept>>

\* The command that calls start_graphics.
shell_graphics ==
  /\ ShellKey
  /\ create_task(FALSE)
  /\ UNCHANGED <<current_task, at, if_flag, shell_active, waiting_task, isr1,
                 sleepVars, tick_count, slept>>

\* Seeded mistake: irq_handler sends the EOI before it calls the handler.
InServiceEarlyEOI == 0

\* The EOI comes after the handler: a command that sleeps keeps IRQ1 in service.
InService == 1

\* sleep() turns milliseconds into ticks, one at least; the product wraps.
TicksOf(ms) ==
  LET n == ((ms * FREQ) % TICKS) \div SECOND IN IF n = 0 THEN 1 ELSE n

\* "sleep": sti and hlt inside the keyboard handler, on the stack of the task that
\* was interrupted.
shell_sleep(ms) ==
  /\ ShellKey
  /\ sleeper' = current_task
  /\ isr1' = InService
  /\ start' = tick_count
  /\ ticks_to_wait' = TicksOf(ms)
  /\ slept' = 0
  /\ if_flag' = 1
  /\ UNCHANGED <<taskVars, state, current_task, waiting_task, tick_count>>

\* Seeded mistakes: the loop ends one tick early; the difference is signed and does
\* not survive the wrap of tick_count.
TimeIsOverEarly == (tick_count - start) % TICKS >= ticks_to_wait - 1
TimeIsOverSigned == tick_count - start >= ticks_to_wait

\* The loop condition of sleep(), in unsigned arithmetic.
TimeIsOver == (tick_count - start) % TICKS >= ticks_to_wait

\* The loop of sleep() ends, the command returns and irq_handler sends the EOI.
shell_wakes ==
  /\ sleeper = current_task
  /\ TimeIsOver
  /\ sleeper' = 0
  /\ isr1' = 0
  /\ if_flag' = 1
  /\ UNCHANGED <<taskVars, state, current_task, waiting_task, start,
                 ticks_to_wait, tick_count, slept>>

-----------------------------------------------------------------------------
TaskStep(t) ==
  syscall(t) \/ sysret(t) \/ set_waiting(t) \/ set_sleep(t) \/ yield(t) \/ task_exit(t)

ShellStep ==
  shell_exec \/ shell_graphics \/ (\E ms \in Waits : shell_sleep(ms)) \/ shell_wakes

Next ==
  \/ timer_irq
  \/ nic_irq
  \/ ShellStep
  \/ \E t \in Pids : TaskStep(t)

Spec == Init /\ [][Next]_vars

\* The PIT keeps interrupting, and its request stays pending while IF is clear; the
\* processor keeps executing what runs with IF clear; and a time slice is far longer
\* than one test of the loop in sleep(), so a sleeper that is dispatched again and
\* again comes to see that its time is over.
Fairness ==
  /\ SF_vars(timer_irq)
  /\ \A t \in Pids : WF_vars(if_flag = 0 /\ TaskStep(t))
  /\ SF_vars(shell_wakes)

FairSpec == Spec /\ Fairness

-----------------------------------------------------------------------------
\* The running task is always on task_list and the counters of timer.c stay within
\* their width.
TypeOK ==
  /\ next_pid \in 2 .. MAX_TASKS + 1
  /\ state \in [Pids -> {"NONE", "READY", "RUNNING", "SLEEP", "DEAD"}]
  /\ user \subseteq Pids
  /\ current_task \in task_list
  /\ at \in [Pids -> {"run", "check", "mark", "yield", "halt"}]
  /\ if_flag \in {0, 1}
  /\ shell_active \in {0, 1}
  /\ waiting_task \in {0} \union Pids
  /\ isr1 \in {0, 1}
  /\ sleeper \in {0} \union Pids
  /\ start \in 0 .. TICKS - 1
  /\ ticks_to_wait \in 0 .. TICKS - 1
  /\ tick_count \in 0 .. TICKS - 1
  /\ slept \in 0 .. TICKS - 1

\* The keyboard belongs to the shell exactly when no program runs, and at most one
\* program runs: shell_active is set by task_exit and cleared by exec on behalf of
\* different tasks, and both race with the timer.
ShellOrProgram ==
  /\ TypeOK
  /\ shell_active = 1 => \A t \in Pids : ~Alive(t)
  /\ shell_active = 0 => \E t \in task_list : Alive(t) /\ state[t] # "DEAD"
  /\ \A t, u \in Pids : Alive(t) /\ Alive(u) => t = u

\* A shell command that sleeps inside the keyboard interrupt is never entered a
\* second time: IRQ1 stays in service until it returns, although every software
\* schedule() sends an EOI that would end it.
ShellNotReentered == sleeper # 0 => isr1 = 1

\* sleep() returns only after as many timer interrupts as it was asked to wait for,
\* although schedule() also advances tick_count and tick_count wraps around.
SleepLongEnough ==
  [][sleeper # 0 /\ sleeper' = 0 => slept = ticks_to_wait]_vars

\* Round robin starves nobody: every task that has not exited gets the processor
\* again and again, even one that marked itself asleep.
EveryTaskRuns ==
  \A t \in Pids : []<>(current_task = t \/ state[t] \in {"NONE", "DEAD"})

\* A sleep that began on top of a task that has not exited returns.
SleepReturns ==
  (sleeper # 0 /\ \E t \in Pids : t = sleeper /\ state[t] # "DEAD") ~> (sleeper = 0)

\* "DEAD olanlari atla" (skip the dead ones, task.c:123): the scheduler never goes
\* back to a task that has exited.
ExitedNotDispatched ==
  [][current_task' # current_task => at[current_task'] # "halt"]_vars
=============================================================================
