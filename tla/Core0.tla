-------------------------------- MODULE Core0 --------------------------------
(***************************************************************************)
(* Core 0: its tasks under the scheduler, logger_task as the writer of the *)
(* log store, and main()'s idle loop, which drains the flash queue and     *)
(* executes only while PSP is 0, that is, before the first dispatch:       *)
(* schedule() returns to an interrupted task what it returns to the idle   *)
(* loop only when current_task is still -1.                                *)
(***************************************************************************)
EXTENDS Scheduler

CONSTANTS LoggerTask, LogFrames, FlashQueueSize, FlushEvery, MaxMessages, MaxRestarts

VARIABLES frames, timer_counter, flush_counter, flash_queue, writing, file, restarts, trouble

Logs == INSTANCE LogStore

logVars == <<frames, timer_counter, flush_counter, flash_queue, writing, file, restarts, trouble>>
core0Vars == <<schedVars, logVars>>

Core0Init == Init /\ Logs!Init

Kernel == (SysTick \/ PendSV \/ \E t \in Tasks : Step(t)) /\ UNCHANGED logVars

\* Supervisor calls of logger_task.
LoggerCall == Calls(LoggerTask) /\ (Logs!LogWrite \/ Logs!LogFlush) /\ UNCHANGED schedVars

\* The idle loop has the core.
Drain == current = Idle /\ ~pendsv /\ (Logs!DrainPop \/ Logs!DrainWrite) /\ UNCHANGED schedVars

Core0Next == Kernel \/ LoggerCall \/ Drain

\* In addition to the scheduler's own fairness the idle loop goes on whenever
\* it has the core, and an append that is tried again and again succeeds.
Core0Spec ==
    /\ Core0Init /\ [][Core0Next]_core0Vars
    /\ SF_core0Vars(SysTick /\ UNCHANGED logVars)
    /\ WF_core0Vars(PendSV /\ UNCHANGED logVars)
    /\ \A t \in Prompt : SF_core0Vars(Heartbeat(t) /\ UNCHANGED logVars)
    /\ SF_core0Vars(Drain)

(***************************************************************************)
(* "En ese momento el scheduler no encuentra tareas READY y retorna a      *)
(* main(), donde el idle loop drena la flash queue" (REPORTE.md:149): when  *)
(* all tasks sleep, what is in the queue gets written.                     *)
(***************************************************************************)
AllAsleep == \A t \in Tasks : state[t] = "BLOCKED"
IdleLoopDrains == AllAsleep /\ flash_queue # <<>> ~> writing # 0
=============================================================================
