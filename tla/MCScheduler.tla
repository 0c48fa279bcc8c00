----------------------------- MODULE MCScheduler -----------------------------
(***************************************************************************)
(* Scheduler with the kernel task and one more kernel task at boot and     *)
(* room for two more: a program, its exit and a second program, or a       *)
(* program beside the graphics task.  tick_count wraps every TICKS ticks,  *)
(* often within one sleep, and a second has 3 milliseconds and 2 ticks:    *)
(* sleeps of 1, 3 and 4 ms are rounded up to a tick, take 2 ticks and wrap *)
(* to none.                                                                *)
(***************************************************************************)
EXTENDS Scheduler
=============================================================================
