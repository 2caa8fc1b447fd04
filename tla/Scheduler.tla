------------------------------ MODULE Scheduler ------------------------------
(***************************************************************************)
(* One core of PicoOS: the table of task control blocks, the SysTick       *)
(* interrupt (time base, sleep queue, watchdog, quantum), the PendSV       *)
(* context switch with the round-robin search of schedule(), and the       *)
(* supervisor calls a task makes about itself (heartbeat, sleep, exit).    *)
(*                                                                         *)
(* SysTick, PendSV and SVC share exception priority 0, so each of them     *)
(* runs to completion and is one action.  When SysTick and PendSV are both *)
(* pending the core takes PendSV, the lower exception number, first.       *)
(***************************************************************************)
EXTENDS Integers, FiniteSets

CONSTANTS
    NumTasks,     \* num_tasks of this core
    Quantum,      \* ticks a task runs before it is preempted
    Timeout,      \* TASK_TIMEOUT_TICKS
    TickMod,      \* kernel_ticks counts modulo this (2^32 in the code)
    MaxUptime,    \* bound: SysTick does not fire once kernel_ticks is here
    SleepMs,      \* the durations, in ms, that tasks pass to sys_sleep
    Sleepers,     \* tasks that call sys_sleep
    Exiters,      \* tasks that call sys_exit
    Faulters,     \* tasks that may take a HardFault or loop without heartbeat
    Prompt        \* tasks whose loop reaches sys_heartbeat in every tick

Tasks == 0 .. NumTasks - 1
Idle == -1                     \* current_task before the first dispatch

ASSUME SchedulerAssumption ==
    /\ NumTasks \in Nat \ {0}
    /\ Quantum \in Nat \ {0}
    /\ Timeout \in Nat \ {0}
    /\ TickMod \in Nat /\ TickMod > Timeout + 1
    /\ MaxUptime \in Nat
    /\ SleepMs \subseteq Nat
    /\ Sleepers \subseteq Tasks /\ Exiters \subseteq Tasks
    /\ Faulters \subseteq Tasks /\ Prompt \subseteq Tasks

VARIABLES
    state,      \* tasks[t].state
    wake,       \* tasks[t].wake_tick, 0 meaning "not asleep"
    last_seen,  \* tasks[t].last_seen
    sp,         \* where tasks[t].sp leads: the entry point or a saved context
    ctx,        \* what executing t's context does
    current,    \* current_task: also the task whose stack PSP points into
    left,       \* remaining_ticks of the current task
    ticks,      \* kernel_ticks
    pendsv      \* the PendSV pending bit (ICSR bit 28)

schedVars == <<state, wake, last_seen, sp, ctx, current, left, ticks, pendsv>>

States == {"DORMANT", "READY", "RUNNING", "BLOCKED"}

\* live:   follows its program       hung:   loops without any system call
\* torn:   its stack was overwritten while it was on the CPU
\* parked: HardFault pointed its PC at secure_waitt
Contexts == {"live", "hung", "torn", "parked"}

TypeOK ==
    /\ state \in [Tasks -> States]
    /\ wake \in [Tasks -> 0 .. TickMod - 1]
    /\ last_seen \in [Tasks -> 0 .. TickMod - 1]
    /\ sp \in [Tasks -> {"entry", "resume"}]
    /\ ctx \in [Tasks -> Contexts]
    /\ current \in Tasks \cup {Idle}
    /\ left \in 1 .. Quantum
    /\ ticks \in 0 .. TickMod - 1
    /\ pendsv \in BOOLEAN

Init ==
    /\ state = [t \in Tasks |-> "READY"]
    /\ wake = [t \in Tasks |-> 0]
    /\ last_seen = [t \in Tasks |-> 0]
    /\ sp = [t \in Tasks |-> "entry"]
    /\ ctx = [t \in Tasks |-> "live"]
    /\ current = Idle
    /\ left = Quantum
    /\ ticks = 0
    /\ pendsv = FALSE

-----------------------------------------------------------------------------
(* SysTick *)

Plus(a, n) == IF a + n < TickMod THEN a + n ELSE a + n - TickMod
Minus(a, b) == IF a >= b THEN a - b ELSE a + TickMod - b

Now == Plus(ticks, 1)
AsleepWhenBlocked(t) == state[t] = "BLOCKED"             \* mutant: whatever it waits for
Asleep(t) == state[t] = "BLOCKED" /\ wake[t] # 0
ExpiredLate(t) == Asleep(t) /\ Now > wake[t]            \* mutant: > for >=
Expired(t) == Asleep(t) /\ Now >= wake[t]
Silence(t) == Minus(Now, last_seen[t])
Stalled(t) == state[t] # "DORMANT" /\ ~Asleep(t) /\ Silence(t) > Timeout

RefreshedOnRestart(t) == Stalled(t)                     \* mutant: sleepers grow silent
Refreshed(t) == Asleep(t) \/ Stalled(t)

\* task_create_on_core writes a fresh frame over the top of the stack.  Under
\* the task that is executing this overwrites what lies there: nothing the
\* context needs, a part of it, or exactly its exception frame.
OverwriteStacks ==
    IF current # Idle /\ Stalled(current)
    THEN \E c \in {ctx[current], "torn", "live"} : ctx' = [ctx EXCEPT ![current] = c]
    ELSE UNCHANGED ctx

\* Mutant: the quantum is not reloaded when it expires.
UseQuantumNoReload ==
    \/ current = Idle /\ left' = left /\ pendsv' = TRUE
    \/ current # Idle /\ left' = left - 1 /\ pendsv' = (left - 1 <= 0)

\* Mutant: without a current task the tick does not pend PendSV.
UseQuantumNoFirst == current = Idle /\ left' = left /\ pendsv' = FALSE

Remaining == (IF current # Idle /\ Stalled(current) THEN Quantum ELSE left) - 1

UseQuantum ==
    \/ current = Idle /\ left' = left /\ pendsv' = TRUE
    \/ current # Idle /\ Remaining > 0 /\ left' = Remaining /\ pendsv' = FALSE
    \/ current # Idle /\ Remaining <= 0 /\ left' = Quantum /\ pendsv' = TRUE

\* A prompt task reaches its sys_heartbeat in every tick in which it executes,
\* except perhaps the first of its turn, of which it may get only the end.
HasBeaten ==
    current \in Prompt /\ ctx[current] = "live" => last_seen[current] = ticks \/ left = Quantum

SysTick ==
    /\ ~pendsv /\ ticks < MaxUptime /\ HasBeaten
    /\ ticks' = Now
    /\ state' = [t \in Tasks |-> IF Expired(t) \/ Stalled(t) THEN "READY" ELSE state[t]]
    /\ wake' = [t \in Tasks |-> IF Expired(t) THEN 0 ELSE wake[t]]
    /\ last_seen' = [t \in Tasks |-> IF Refreshed(t) THEN Now ELSE last_seen[t]]
    /\ sp' = [t \in Tasks |-> IF Stalled(t) THEN "entry" ELSE sp[t]]
    /\ OverwriteStacks
    /\ UseQuantum
    /\ UNCHANGED current

-----------------------------------------------------------------------------
(* PendSV: save the outgoing context, search, restore the incoming one *)

ReleasedNothing == state                                \* mutant: RUNNING is kept
Released == [t \in Tasks |-> IF t = current /\ state[t] = "RUNNING" THEN "READY" ELSE state[t]]
Saved == [t \in Tasks |-> IF t = current THEN "resume" ELSE sp[t]]
\* Mutant: the search starts at the outgoing task itself.
NthFromSelf(k) == IF current = Idle THEN k - 1 ELSE (current + k - 1) % NumTasks
Nth(k) == IF current + k < NumTasks THEN current + k ELSE current + k - NumTasks

FirstReady(t) ==
    \E k \in 1 .. NumTasks :
        /\ t = Nth(k)
        /\ Released[t] = "READY"
        /\ \A j \in 1 .. k - 1 : Released[Nth(j)] # "READY"

Dispatch(t) ==
    /\ pendsv /\ FirstReady(t)
    /\ state' = [Released EXCEPT ![t] = "RUNNING"]
    /\ sp' = Saved
    /\ ctx' = [ctx EXCEPT ![t] = IF Saved[t] = "entry" THEN "live" ELSE @]
    /\ current' = t
    /\ left' = Quantum
    /\ pendsv' = FALSE
    /\ UNCHANGED <<wake, last_seen, ticks>>

\* schedule() found nothing READY: it returns current_sp, so the interrupted
\* context goes on, whatever the state of its task.
KeepContext ==
    /\ pendsv /\ \A t \in Tasks : Released[t] # "READY"
    /\ sp' = Saved
    /\ pendsv' = FALSE
    /\ UNCHANGED <<state, wake, last_seen, ctx, current, left, ticks>>

PendSV == KeepContext \/ \E t \in Tasks : Dispatch(t)

-----------------------------------------------------------------------------
(* What the executing task does.  The handlers address the task as         *)
(* current_task.                                                           *)

YieldNothing == pendsv' = pendsv                        \* mutant: no PendSV requested
YieldCore == pendsv' = TRUE

Executing(t) == current = t /\ ~pendsv
Calls(t) == Executing(t) /\ ctx[t] = "live"

Heartbeat(t) ==
    /\ Calls(t)
    /\ last_seen' = [last_seen EXCEPT ![current] = ticks]
    /\ UNCHANGED <<state, wake, sp, ctx, current, left, ticks, pendsv>>

TicksToSleep(ms) == IF ms \div 10 = 0 THEN 1 ELSE ms \div 10

Sleep(t, ms) ==
    /\ Calls(t)
    /\ wake' = [wake EXCEPT ![current] = (ticks + TicksToSleep(ms)) % TickMod]
    /\ state' = [state EXCEPT ![current] = "BLOCKED"]
    /\ YieldCore
    /\ UNCHANGED <<last_seen, sp, ctx, current, left, ticks>>

TaskExit(t) ==
    /\ Calls(t)
    /\ state' = [state EXCEPT ![current] = "DORMANT"]
    /\ YieldCore
    /\ UNCHANGED <<wake, last_seen, sp, ctx, current, left, ticks>>

HardFault(t) ==
    /\ Executing(t)
    /\ ctx[t] = "torn" \/ (t \in Faulters /\ ctx[t] = "live")
    /\ state' = [state EXCEPT ![current] = "DORMANT"]
    /\ ctx' = [ctx EXCEPT ![current] = "parked"]
    /\ YieldCore
    /\ UNCHANGED <<wake, last_seen, sp, current, left, ticks>>

Hang(t) ==
    /\ t \in Faulters /\ Calls(t)
    /\ ctx' = [ctx EXCEPT ![t] = "hung"]
    /\ UNCHANGED <<state, wake, last_seen, sp, current, left, ticks, pendsv>>

Sleeps(t) == t \in Sleepers /\ \E ms \in SleepMs : Sleep(t, ms)
Exits(t) == t \in Exiters /\ TaskExit(t)

Step(t) == Heartbeat(t) \/ Sleeps(t) \/ Exits(t) \/ HardFault(t) \/ Hang(t)

Next == SysTick \/ PendSV \/ \E t \in Tasks : Step(t)

Spec == Init /\ [][Next]_schedVars

\* The timer interrupt stays pending until it is taken, hence strong fairness;
\* PendSV is taken as soon as no handler runs; a prompt task executes its loop
\* whenever it has the core, however often it is preempted.
FairSpec ==
    /\ Spec
    /\ SF_schedVars(SysTick) /\ WF_schedVars(PendSV)
    /\ \A t \in Prompt : SF_schedVars(Heartbeat(t))

-----------------------------------------------------------------------------
(* Properties *)

Runnable == {"READY", "RUNNING"}
Healthy == Prompt \ Faulters

(***************************************************************************)
(* At most one task is RUNNING and it is the one whose context PSP holds,  *)
(* although the watchdog and sys_sleep rewrite states behind schedule().   *)
(***************************************************************************)
OneRunning == \A t \in Tasks : state[t] = "RUNNING" => t = current

(***************************************************************************)
(* A task that is asleep, has exited or has faulted does not execute:      *)
(* "Las tareas BLOCKED no consumen CPU" (REPORTE.md:147).                  *)
(***************************************************************************)
OnlyRunnableExecutes == ~pendsv /\ current # Idle => state[current] \in Runnable

(***************************************************************************)
(* The watchdog (isr_systick) never sees a healthy task silent for longer  *)
(* than the others can keep it off the core.  A turn of another task lasts *)
(* a quantum, and almost a second one if the watchdog restarts that task   *)
(* in its last tick and so resets remaining_ticks.                         *)
(***************************************************************************)
LongestTurn == 2 * Quantum - 1
SilenceBound == 2 + (NumTasks - 1) * LongestTurn
Age(t) == Minus(ticks, last_seen[t])
BoundedSilence == \A t \in Healthy : state[t] \in Runnable => Age(t) <= SilenceBound

(***************************************************************************)
(* Restarting is for hung tasks: a healthy one keeps its context.  The one *)
(* exception: a sleeper whose wake_tick came out as 0 does not count as    *)
(* asleep, so nothing but the watchdog gets it out of BLOCKED.             *)
(***************************************************************************)
Restarted(t) == sp[t] = "resume" /\ sp'[t] = "entry"
SleptIntoZero(t) == state[t] = "BLOCKED" /\ wake[t] = 0
HealthyNeverRestarted == [][\A t \in Healthy : Restarted(t) => SleptIntoZero(t)]_schedVars

(***************************************************************************)
(* k_task_sleep suspends for the time asked: whatever else happens, a      *)
(* sleeper becomes READY in the very tick stored in wake_tick.  Of the     *)
(* deadlines beyond the wrap of kernel_ticks, the one that falls on 0 is   *)
(* served by the watchdog and the others end the sleep too early.          *)
(***************************************************************************)
PastTheWrap(w) == \E ms \in SleepMs : w + TickMod <= ticks + TicksToSleep(ms)
WakesOnTime ==
    [][\A t \in Tasks : state[t] = "BLOCKED" /\ state'[t] = "READY" =>
           IF wake[t] = 0 THEN Stalled(t)
           ELSE ticks' = wake[t] \/ PastTheWrap(wake[t])]_schedVars

(***************************************************************************)
(* Round robin starves nobody: a READY task gets the core.                 *)
(***************************************************************************)
NoStarvation == \A t \in Tasks : state[t] = "READY" ~> (current = t \/ state[t] # "READY")

(***************************************************************************)
(* Who sleeps runs again, also when kernel_ticks wraps in the meantime or  *)
(* the deadline happens to be the reserved value 0.                        *)
(***************************************************************************)
EverySleepEnds == \A t \in Tasks : state[t] = "BLOCKED" ~> state[t] = "RUNNING"
=============================================================================
