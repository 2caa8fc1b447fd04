----------------------------- MODULE MCSemaphore -----------------------------
(***************************************************************************)
(* Small semaphores for TLC: three contending users without failures, and  *)
(* two users that the watchdog restarts and that fail, next to a task that *)
(* is always READY.                                                        *)
(***************************************************************************)
EXTENDS Semaphore

\* Bound of the runs with failures: nothing is explored after the wait queue
\* has filled up or a blocked task has gone on executing.
WhileOrderly == orderly
=============================================================================
