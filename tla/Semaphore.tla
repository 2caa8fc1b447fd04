------------------------------ MODULE Semaphore ------------------------------
(***************************************************************************)
(* A counting semaphore of the kernel, composed with the scheduler of its  *)
(* core: waiting blocks the caller through its task state, posting makes   *)
(* the first waiter READY, and the watchdog restarts tasks that wait too   *)
(* long or fail while they hold it.  Waiting and posting are SVC handlers, *)
(* so each is one action.                                                  *)
(***************************************************************************)
EXTENDS Scheduler, Sequences

CONSTANTS
    SemMaxWaiting,   \* SEM_MAX_WAITING: size of the circular wait queue
    SemValue,        \* valor_inicial
    Users,           \* the tasks that use the semaphore
    MaxHold          \* ticks after which a holder that executes posts before the next

ASSUME SemaphoreAssumption ==
    /\ SemMaxWaiting \in Nat \ {0} /\ SemValue \in Nat
    /\ Users \subseteq Tasks /\ MaxHold \in Nat

VARIABLES
    contador_recursos,
    tareas_esperando,   \* the circular queue of waiting task ids
    pc,                 \* where each user is in its loop: see below
    held,               \* ticks since the last acquisition
    orderly             \* history: the queue never filled up, no blocked task executed

semVars == <<contador_recursos, tareas_esperando, pc, held, orderly>>
vars == <<schedVars, semVars>>

\* out: at the head of its loop   ready: has beaten, may wait
\* wait: inside sem_wait          in: between sem_wait and sem_post
Places == {"out", "ready", "wait", "in"}

Capacity == SemMaxWaiting - 1     \* one slot stays empty to tell full from empty

SemTypeOK ==
    /\ contador_recursos \in -Capacity .. SemValue
    /\ tareas_esperando \in Seq(Users) /\ Len(tareas_esperando) <= Capacity
    /\ pc \in [Users -> Places]
    /\ held \in 0 .. MaxHold
    /\ orderly \in BOOLEAN

SemInit ==
    /\ Init
    /\ contador_recursos = SemValue
    /\ tareas_esperando = <<>>
    /\ pc = [t \in Users |-> "out"]
    /\ held = 0
    /\ orderly = TRUE

Goto(t, place) == pc' = [pc EXCEPT ![t] = place]

AvailableAtZero == contador_recursos >= 0               \* mutant: off by one
Available == contador_recursos > 0
TakenByNone == contador_recursos                        \* mutant: no decrement
Taken == contador_recursos - 1

\* k_sem_wait returns at once with a unit of the resource, or without one
\* when the wait queue is full; otherwise it queues and blocks the caller.
Acquires(t) ==
    /\ Available
    /\ contador_recursos' = Taken
    /\ Goto(t, "in") /\ held' = 0
    /\ UNCHANGED <<schedVars, tareas_esperando, orderly>>

QueueFull(t) ==
    /\ ~Available /\ Len(tareas_esperando) = Capacity
    /\ Goto(t, "in") /\ held' = 0 /\ orderly' = FALSE
    /\ UNCHANGED <<schedVars, contador_recursos, tareas_esperando>>

Waits(t) ==
    /\ ~Available /\ Len(tareas_esperando) < Capacity
    /\ contador_recursos' = Taken
    /\ tareas_esperando' = Append(tareas_esperando, current)
    /\ state' = [state EXCEPT ![current] = "BLOCKED"]
    /\ YieldCore
    /\ Goto(t, "wait")
    /\ UNCHANGED <<wake, last_seen, sp, ctx, current, left, ticks, held, orderly>>

SemWait(t) == Calls(t) /\ pc[t] = "ready" /\ (Acquires(t) \/ QueueFull(t) \/ Waits(t))

\* The caller executes the instruction after its supervisor call.
SemWaitReturns(t) ==
    /\ Calls(t) /\ pc[t] = "wait"
    /\ Goto(t, "in") /\ held' = 0
    /\ UNCHANGED <<schedVars, contador_recursos, tareas_esperando, orderly>>

\* Mutant: the task woken is the last that came, not the first.
WakeLast ==
    LET n == Len(tareas_esperando) IN
    IF contador_recursos < 0 /\ n > 0
    THEN /\ tareas_esperando' = SubSeq(tareas_esperando, 1, n - 1)
         /\ state' = [state EXCEPT ![tareas_esperando[n]] = "READY"]
    ELSE UNCHANGED <<tareas_esperando, state>>

\* Mutant: the task woken stays in the queue.
WakeKeepsQueue ==
    /\ state' = IF tareas_esperando = <<>> THEN state
                ELSE [state EXCEPT ![Head(tareas_esperando)] = "READY"]
    /\ UNCHANGED tareas_esperando

WakeFirst ==
    IF contador_recursos < 0 /\ tareas_esperando # <<>>
    THEN /\ tareas_esperando' = Tail(tareas_esperando)
         /\ state' = [state EXCEPT ![Head(tareas_esperando)] = "READY"]
    ELSE UNCHANGED <<tareas_esperando, state>>

SemPost(t) ==
    /\ Calls(t) /\ pc[t] = "in"
    /\ contador_recursos' = contador_recursos + 1
    /\ WakeFirst
    /\ Goto(t, "out")
    /\ UNCHANGED <<wake, last_seen, sp, ctx, current, left, ticks, pendsv, held, orderly>>

-----------------------------------------------------------------------------
(* The scheduler's steps, and what they do to the users' programs *)

\* A user that executes inside its critical section reaches sem_post in time.
InTime(t) == t \in Users /\ Calls(t) /\ pc[t] = "in" => held < MaxHold

\* A fresh frame over the executing task's own context may restart it there.
RestartedInPlace ==
    current \in Users /\ Stalled(current) /\ ctx'[current] = "live" /\ Goto(current, "out")

SemTick ==
    /\ SysTick /\ InTime(current)
    /\ held' = IF held < MaxHold THEN held + 1 ELSE held
    /\ UNCHANGED pc \/ RestartedInPlace
    /\ UNCHANGED <<contador_recursos, tareas_esperando, orderly>>

\* Dispatched from a fresh frame, a task begins its program again.
SemPendSV ==
    /\ PendSV
    /\ IF pendsv /\ current' \in Users /\ Saved[current'] = "entry"
       THEN Goto(current', "out") ELSE UNCHANGED pc
    /\ orderly' = (orderly /\ state'[current'] \in Runnable)
    /\ UNCHANGED <<contador_recursos, tareas_esperando, held>>

\* A user beats at the head of its loop, and inside sem_wait does nothing else.
SemHeartbeat(t) ==
    /\ Heartbeat(t) /\ (t \in Users => pc[t] # "wait")
    /\ IF t \in Users /\ pc[t] = "out" THEN Goto(t, "ready") ELSE UNCHANGED pc
    /\ UNCHANGED <<contador_recursos, tareas_esperando, held, orderly>>

SemStep(t) ==
    /\ Sleeps(t) \/ Exits(t)
    /\ t \in Users => pc[t] # "wait" /\ InTime(t)
    /\ UNCHANGED semVars

SemFails(t) ==
    /\ HardFault(t) \/ Hang(t)
    /\ UNCHANGED semVars

UserStep(t) == SemWait(t) \/ SemWaitReturns(t) \/ SemPost(t)

SemNext ==
    \/ SemTick
    \/ SemPendSV
    \/ \E t \in Tasks : SemHeartbeat(t) \/ SemStep(t) \/ SemFails(t)
    \/ \E t \in Users : UserStep(t)

SemSpec == SemInit /\ [][SemNext]_vars

-----------------------------------------------------------------------------
(* Properties *)

Holders == {t \in Users : pc[t] = "in"}

(***************************************************************************)
(* "Provee exclusion mutua entre tareas del mismo core" (semaphore.h:5):   *)
(* never more tasks between sem_wait and sem_post than the initial value,  *)
(* also when users fail or are restarted, until a task comes back from     *)
(* sem_wait that nobody gave a unit: it found the wait queue full, or it   *)
(* went on executing, BLOCKED, because no task was READY.                  *)
(***************************************************************************)
MutualExclusion == orderly => Cardinality(Holders) <= SemValue

(***************************************************************************)
(* Whatever fails, the length of the wait queue stays what the counter     *)
(* says it is: a post never finds contador_recursos <= 0 and no waiter.    *)
(***************************************************************************)
CounterMatchesQueue ==
    Len(tareas_esperando) = (IF contador_recursos < 0 THEN -contador_recursos ELSE 0)

(***************************************************************************)
(* Who is queued is blocked inside sem_wait, each once, and the units      *)
(* that are out are with tasks that will give them back.                   *)
(***************************************************************************)
WaitersAccounted ==
    /\ \A i \in 1 .. Len(tareas_esperando) :
          LET t == tareas_esperando[i] IN
          state[t] = "BLOCKED" /\ wake[t] = 0 /\ pc[t] = "wait"
    /\ contador_recursos = SemValue - Cardinality({t \in Users : pc[t] \in {"wait", "in"}})

(***************************************************************************)
(* Who waits gets the semaphore before the watchdog takes it for hung:     *)
(* each user ahead of it costs the round until it executes, the tick in    *)
(* which it comes back from sem_wait, the ticks for which it holds and the *)
(* round in which it may be preempted then.  The waiter itself may be      *)
(* preempted for a round between its heartbeat and sem_wait, and for       *)
(* another once it has been woken.                                         *)
(***************************************************************************)
Round == (NumTasks - 1) * Quantum
TurnCost == 2 * Round + MaxHold + 1
WaitBound == 2 * Round + 3 + (Cardinality(Users) - 1) * TurnCost
BoundedWait == \A t \in Users : pc[t] = "wait" => Age(t) <= WaitBound
=============================================================================
