----------------------------- MODULE MCScheduler -----------------------------
(***************************************************************************)
(* Small cores for TLC.  Core 1 has a task that never sleeps, the kernel's *)
(* irrigation_update_task; on Core 0 every task sleeps and mpu_test_task   *)
(* faults and hangs on purpose.  The definitions below state what the      *)
(* project's report says of the watchdog.                                  *)
(***************************************************************************)
EXTENDS Scheduler

(***************************************************************************)
(* "HardFault, tarea marcada DORMANT, watchdog la reinicia" and "detecta   *)
(* timeout a los 5s, reinicia tarea con stack fresco" (REPORTE.md:347-348, *)
(* mpu_test_task.c:9-13): a faulted or hung task follows its program again.*)
(***************************************************************************)
WatchdogRevives == \A t \in Tasks : ctx[t] \in {"hung", "parked"} ~> ctx[t] = "live"
=============================================================================
