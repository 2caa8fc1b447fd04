--------------------------- MODULE SemaphoreProofs ---------------------------
(***************************************************************************)
(* The wait queue and the units of a semaphore, for any number of tasks,   *)
(* users, units and slots of the queue, and whatever fails.                *)
(***************************************************************************)
EXTENDS Semaphore, SchedulerProofs, FiniteSetTheorems

QueueInv ==
    /\ contador_recursos \in Int
    /\ tareas_esperando \in Seq(Tasks)
    /\ CounterMatchesQueue

LEMMA QueueInvInit == SemInit => QueueInv
  BY SemaphoreAssumption DEF SemInit, QueueInv, CounterMatchesQueue

LEMMA QueueInvStep == QueueInv /\ [SemNext]_vars => QueueInv'
<1> SUFFICES ASSUME QueueInv, [SemNext]_vars PROVE QueueInv'
  OBVIOUS
<1> USE DEF QueueInv, CounterMatchesQueue
<1> DEFINE Same == UNCHANGED <<contador_recursos, tareas_esperando>>
<1>1. CASE Same
  BY <1>1
<1>2. ASSUME NEW t \in Users, SemWait(t) PROVE QueueInv'
  <2>1. CASE Acquires(t)
    BY <2>1 DEF Acquires, Available, Taken
  <2>2. CASE QueueFull(t)
    BY <2>2, <1>1 DEF QueueFull
  <2>3. CASE Waits(t)
    <3>1. current \in Tasks
      BY <1>2, SemaphoreAssumption DEF SemWait, Calls, Executing
    <3>2. /\ tareas_esperando' = Append(tareas_esperando, current)
          /\ contador_recursos' = contador_recursos - 1
          /\ ~(contador_recursos > 0)
      BY <2>3 DEF Waits, Available, Taken
    <3> QED
      BY <3>1, <3>2
  <2> QED
    BY <1>2, <2>1, <2>2, <2>3 DEF SemWait
<1>3. ASSUME NEW t \in Users, SemPost(t) PROVE QueueInv'
  <2>1. contador_recursos' = contador_recursos + 1 /\ WakeFirst
    BY <1>3 DEF SemPost
  <2>2. CASE contador_recursos < 0 /\ tareas_esperando # <<>>
    <3>1. tareas_esperando' = Tail(tareas_esperando)
      BY <2>1, <2>2 DEF WakeFirst
    <3>2. /\ Tail(tareas_esperando) \in Seq(Tasks)
          /\ Len(Tail(tareas_esperando)) = Len(tareas_esperando) - 1
      BY <2>2
    <3> QED
      BY <2>1, <2>2, <3>1, <3>2
  <2>3. CASE ~(contador_recursos < 0 /\ tareas_esperando # <<>>)
    <3>1. UNCHANGED tareas_esperando
      BY <2>1, <2>3 DEF WakeFirst
    <3>2. contador_recursos >= 0
      BY <2>3
    <3> QED
      BY <2>1, <3>1, <3>2
  <2> QED
    BY <2>2, <2>3
<1>4. ASSUME NEW t \in Users, SemWaitReturns(t) PROVE Same
  BY <1>4 DEF SemWaitReturns
<1>5. ASSUME NEW t \in Tasks, SemHeartbeat(t) \/ SemStep(t) \/ SemFails(t) PROVE Same
  BY <1>5 DEF SemHeartbeat, SemStep, SemFails, semVars
<1>6. SemTick \/ SemPendSV => Same
  BY DEF SemTick, SemPendSV
<1>7. UNCHANGED vars => Same
  BY DEF vars, semVars
<1> QED
  BY <1>1, <1>2, <1>3, <1>4, <1>5, <1>6, <1>7 DEF SemNext, UserStep

(***************************************************************************)
(* k_sem_post never finds a negative counter and an empty queue, nor a     *)
(* waiter that the counter does not know of, also after the watchdog has   *)
(* restarted waiters and holders.                                          *)
(***************************************************************************)
THEOREM CounterMatchesQueueHolds == SemSpec => []CounterMatchesQueue
  BY QueueInvInit, QueueInvStep, PTL DEF SemSpec, QueueInv

-----------------------------------------------------------------------------
(***************************************************************************)
(* Mutual exclusion.  A unit is free, with a holder, or owed to a task.    *)
(* Owed is first what a task has been woken with that is still to come     *)
(* back from sem_wait.  But a post may also wake a task that was restarted *)
(* while it was queued and now sleeps elsewhere, with its wake_tick set:   *)
(* should such a task wait again, the sleep queue will let it through.  A  *)
(* task to which both happen is owed two units.                            *)
(***************************************************************************)
Returns(t) == pc[t] = "wait" /\ state[t] \in Runnable /\ (sp[t] = "resume" \/ t = current)
Stray(t) == wake[t] # 0 /\ (state[t] # "BLOCKED" \/ pc[t] = "wait")

Owed == {t \in Users : Returns(t) \/ Stray(t)}
Extra == {t \in Users : Returns(t) /\ Stray(t)}
Free == IF contador_recursos > 0 THEN contador_recursos ELSE 0

Claimed == Cardinality(Holders) + Cardinality(Owed) + Cardinality(Extra)
Units == Claimed + Free

UnitInv == orderly => OnlyRunnableExecutes /\ Units <= SemValue

DataInv == TypeOK /\ QueueInv /\ pc \in [Users -> Places] /\ orderly \in BOOLEAN

LEMMA DataInvInit == SemInit => DataInv
<1> SUFFICES ASSUME SemInit PROVE DataInv
  OBVIOUS
<1>1. TypeOK
  BY TypeInit DEF SemInit
<1> QED
  BY <1>1, QueueInvInit DEF SemInit, DataInv, Places

LEMMA DataInvStep == DataInv /\ [SemNext]_vars => DataInv'
<1> SUFFICES ASSUME DataInv, [SemNext]_vars PROVE DataInv'
  OBVIOUS
<1> USE DEF DataInv
<1>1. QueueInv'
  BY QueueInvStep
<1>2. ASSUME [Next]_schedVars PROVE TypeOK'
  BY <1>2, TypeStep
<1>3. CASE SemTick
  <2>1. TypeOK' BY <1>2, <1>3 DEF SemTick, Next
  <2>2. orderly' = orderly BY <1>3 DEF SemTick
  <2>3. pc' \in [Users -> Places] BY <1>3 DEF SemTick, RestartedInPlace, Goto, Places
  <2> QED BY <1>1, <2>1, <2>2, <2>3
<1>4. CASE SemPendSV
  <2>1. TypeOK' BY <1>2, <1>4 DEF SemPendSV, Next
  <2>2. orderly' \in BOOLEAN BY <1>4 DEF SemPendSV
  <2>3. pc' \in [Users -> Places] BY <1>4 DEF SemPendSV, Goto, Places
  <2> QED BY <1>1, <2>1, <2>2, <2>3
<1>5. ASSUME NEW t \in Tasks, SemHeartbeat(t) PROVE DataInv'
  <2>1. TypeOK' BY <1>2, <1>5 DEF SemHeartbeat, Next, Step
  <2>2. orderly' = orderly BY <1>5 DEF SemHeartbeat
  <2>3. pc' \in [Users -> Places] BY <1>5 DEF SemHeartbeat, Goto, Places
  <2> QED BY <1>1, <2>1, <2>2, <2>3
<1>6. ASSUME NEW t \in Tasks, SemStep(t) \/ SemFails(t) PROVE DataInv'
  <2>1. TypeOK' BY <1>2, <1>6 DEF SemStep, SemFails, Next, Step
  <2>2. UNCHANGED semVars BY <1>6 DEF SemStep, SemFails
  <2> QED BY <1>1, <2>1, <2>2 DEF semVars
<1>7. ASSUME NEW t \in Users, SemWait(t) PROVE DataInv'
  <2>1. CASE Acquires(t)
    <3>1. TypeOK' BY <1>2, <2>1 DEF Acquires
    <3> QED BY <1>1, <2>1, <3>1 DEF Acquires, Goto, Places
  <2>2. CASE QueueFull(t)
    <3>1. TypeOK' BY <1>2, <2>2 DEF QueueFull
    <3> QED BY <1>1, <2>2, <3>1 DEF QueueFull, Goto, Places
  <2>3. CASE Waits(t)
    <3>1. TypeOK' BY <2>3 DEF Waits, YieldCore, TypeOK, States
    <3> QED BY <1>1, <2>3, <3>1 DEF Waits, Goto, Places
  <2> QED BY <1>7, <2>1, <2>2, <2>3 DEF SemWait
<1>8. ASSUME NEW t \in Users, SemWaitReturns(t) PROVE DataInv'
  <2>1. TypeOK' BY <1>2, <1>8 DEF SemWaitReturns
  <2> QED BY <1>1, <1>8, <2>1 DEF SemWaitReturns, Goto, Places
<1>9. ASSUME NEW t \in Users, SemPost(t) PROVE DataInv'
  <2>1. state' \in [Tasks -> States] BY <1>9 DEF SemPost, WakeFirst, TypeOK, States
  <2>2. TypeOK' BY <1>9, <2>1 DEF SemPost, TypeOK
  <2> QED BY <1>1, <1>9, <2>2 DEF SemPost, Goto, Places
<1>10. CASE UNCHANGED vars
  <2>1. TypeOK' BY <1>2, <1>10 DEF vars
  <2> QED BY <1>1, <1>10, <2>1 DEF vars, semVars
<1> QED
  BY <1>3, <1>4, <1>5, <1>6, <1>7, <1>8, <1>9, <1>10 DEF SemNext, UserStep

LEMMA Counts ==
  ASSUME NEW S \in SUBSET Users, NEW T \in SUBSET Users
  PROVE  /\ Cardinality(S) \in Nat
         /\ T \subseteq S => Cardinality(T) <= Cardinality(S)
         /\ \A x : T \subseteq S \cup {x} => Cardinality(T) <= Cardinality(S) + 1
         /\ \A x \in S : T \subseteq S \ {x} => Cardinality(T) <= Cardinality(S) - 1
<1>1. IsFiniteSet(Users)
  <2>1. IsFiniteSet(Tasks)
    BY SchedulerAssumption, FS_Interval DEF Tasks
  <2> QED
    BY <2>1, SemaphoreAssumption, FS_Subset
<1>2. IsFiniteSet(S) /\ IsFiniteSet(T)
  BY <1>1, FS_Subset
<1>3. Cardinality(S) \in Nat /\ Cardinality(T) \in Nat
  BY <1>2, FS_CardinalityType
<1>4. ASSUME T \subseteq S PROVE Cardinality(T) <= Cardinality(S)
  BY <1>2, <1>4, FS_Subset
<1>5. ASSUME NEW x, T \subseteq S \cup {x} PROVE Cardinality(T) <= Cardinality(S) + 1
  <2>1. IsFiniteSet(S \cup {x}) /\ Cardinality(S \cup {x}) <= Cardinality(S) + 1
    <3>1. /\ IsFiniteSet(S \cup {x})
          /\ Cardinality(S \cup {x}) = IF x \in S THEN Cardinality(S) ELSE Cardinality(S) + 1
      BY <1>2, FS_AddElement
    <3> QED
      BY <1>3, <3>1
  <2>2. Cardinality(T) <= Cardinality(S \cup {x})
    BY <1>5, <2>1, FS_Subset
  <2>3. Cardinality(S \cup {x}) \in Nat
    BY <2>1, FS_CardinalityType
  <2> QED
    BY <1>3, <2>1, <2>2, <2>3
<1>6. ASSUME NEW x \in S, T \subseteq S \ {x} PROVE Cardinality(T) <= Cardinality(S) - 1
  <2>1. IsFiniteSet(S \ {x}) /\ Cardinality(S \ {x}) = Cardinality(S) - 1
    BY <1>2, FS_RemoveElement
  <2> QED
    BY <1>6, <2>1, FS_Subset
<1> QED
  BY <1>3, <1>4, <1>5, <1>6

(***************************************************************************)
(* A step that hands out nothing: every claim after it was one before.     *)
(***************************************************************************)
NoNewClaims ==
    /\ \A t \in Users : pc'[t] = "in" => pc[t] = "in"
    /\ \A t \in Users : Returns(t)' => Returns(t) \/ (Stray(t) /\ ~Stray(t)')
    /\ \A t \in Users : Stray(t)' => Stray(t)

LEMMA NothingHandedOut ==
  ASSUME NoNewClaims
  PROVE  Claimed' <= Claimed /\ Claimed' \in Nat /\ Claimed \in Nat
<1>1. /\ Holders' \subseteq Holders /\ Owed' \subseteq Owed /\ Extra' \subseteq Extra
      /\ Holders \subseteq Users /\ Owed \subseteq Users /\ Extra \subseteq Users
  BY DEF NoNewClaims, Holders, Owed, Extra
<1>2. /\ Cardinality(Holders') <= Cardinality(Holders)
      /\ Cardinality(Holders') \in Nat /\ Cardinality(Holders) \in Nat
  BY <1>1, Counts
<1>3. /\ Cardinality(Owed') <= Cardinality(Owed)
      /\ Cardinality(Owed') \in Nat /\ Cardinality(Owed) \in Nat
  BY <1>1, Counts
<1>4. /\ Cardinality(Extra') <= Cardinality(Extra)
      /\ Cardinality(Extra') \in Nat /\ Cardinality(Extra) \in Nat
  BY <1>1, Counts
<1> QED
  BY <1>2, <1>3, <1>4 DEF Claimed

(***************************************************************************)
(* The watchdog takes back what it restarts, and the sleep queue passes on *)
(* only what was owed to the sleeper.                                      *)
(***************************************************************************)
LEMMA TickClaims ==
  ASSUME DataInv, OnlyRunnableExecutes, SemTick
  PROVE  NoNewClaims
<1> USE SchedulerAssumption, SemaphoreAssumption
<1>1. SysTick /\ (UNCHANGED pc \/ RestartedInPlace)
  BY DEF SemTick
<1>2. ASSUME NEW t \in Users
      PROVE  (pc'[t] = "in" => pc[t] = "in") /\ (pc'[t] = "wait" => pc[t] = "wait")
  BY <1>1 DEF RestartedInPlace, Goto, DataInv
<1>3. ASSUME NEW t \in Users
      PROVE  /\ state'[t] = IF Expired(t) \/ Stalled(t) THEN "READY" ELSE state[t]
             /\ wake'[t] = IF Expired(t) THEN 0 ELSE wake[t]
             /\ sp'[t] = IF Stalled(t) THEN "entry" ELSE sp[t]
             /\ current' = current
             /\ t = current => state[t] \in Runnable
  <2>1. t \in Tasks /\ t # Idle
    BY DEF Tasks, Idle
  <2> QED
    BY <1>1, <2>1 DEF SysTick, OnlyRunnableExecutes
<1>4. ASSUME NEW t \in Users, Stray(t)' PROVE Stray(t) /\ ~Expired(t)
  BY <1>2, <1>3, <1>4 DEF Stray, Stalled, Asleep, Expired
<1>5. ASSUME NEW t \in Users, Returns(t)' PROVE Returns(t) \/ (Expired(t) /\ pc[t] = "wait")
  BY <1>2, <1>3, <1>5 DEF Returns
<1>6. ASSUME NEW t \in Users, Expired(t), pc[t] = "wait" PROVE Stray(t) /\ ~Stray(t)'
  BY <1>4, <1>6 DEF Stray, Expired, Asleep
<1> QED
  BY <1>2, <1>4, <1>5, <1>6 DEF NoNewClaims

LEMMA SwitchClaims ==
  ASSUME DataInv, SemPendSV
  PROVE  NoNewClaims
<1> USE SchedulerAssumption, SemaphoreAssumption DEF DataInv
<1>1. PendSV
  BY DEF SemPendSV
<1>2. ASSUME NEW t \in Users
      PROVE  /\ pc'[t] = "in" => pc[t] = "in"
             /\ pc'[t] = "wait" => pc[t] = "wait"
  BY DEF SemPendSV, Goto
<1>3. ASSUME NEW t \in Users, pc'[t] = "wait", t = current', t # current
      PROVE  sp[t] = "resume"
  <2>1. pendsv /\ sp[t] \in {"entry", "resume"}
    BY <1>1, SemaphoreAssumption DEF PendSV, KeepContext, Dispatch, TypeOK
  <2>2. Saved[t] = "resume"
    BY <1>2, <1>3, <2>1 DEF SemPendSV, Goto, Saved, TypeOK
  <2> QED
    BY <1>3, <2>2 DEF Saved
<1>4. ASSUME NEW t \in Users
      PROVE  /\ state'[t] \in Runnable => state[t] \in Runnable
             /\ state'[t] # "BLOCKED" => state[t] # "BLOCKED"
             /\ wake'[t] = wake[t]
             /\ sp'[t] = "resume" => sp[t] = "resume" \/ t = current
  <2>1. CASE KeepContext
    BY <2>1 DEF KeepContext, Saved
  <2>2. ASSUME NEW x \in Tasks, Dispatch(x) PROVE <1>4!2
    <3>1. state[x] \in Runnable
      BY <2>2 DEF Dispatch, FirstReady, Released, Runnable
    <3>2. state'[t] = IF t = x THEN "RUNNING" ELSE Released[t]
      BY <2>2 DEF Dispatch, Released
    <3>3. wake'[t] = wake[t] /\ sp'[t] = Saved[t]
      BY <2>2 DEF Dispatch
    <3> QED
      BY <3>1, <3>2, <3>3 DEF Released, Saved, Runnable
  <2> QED
    BY <1>1, <2>1, <2>2 DEF PendSV
<1>5. \A t \in Users : Returns(t)' => Returns(t)
  BY <1>2, <1>3, <1>4 DEF Returns
<1>6. \A t \in Users : Stray(t)' => Stray(t)
  BY <1>2, <1>4 DEF Stray
<1> QED
  BY <1>2, <1>5, <1>6 DEF NoNewClaims

LEMMA CallClaims ==
  ASSUME DataInv, OnlyRunnableExecutes,
         NEW x \in Tasks, SemHeartbeat(x) \/ SemStep(x) \/ SemFails(x)
  PROVE  NoNewClaims
<1> USE SchedulerAssumption, SemaphoreAssumption DEF DataInv
<1>1. current = x /\ x # Idle /\ ~pendsv /\ current' = x /\ sp' = sp
  <2>1. CASE SemHeartbeat(x)
    BY <2>1 DEF SemHeartbeat, Heartbeat, Calls, Executing, Tasks, Idle
  <2>2. CASE SemStep(x)
    BY <2>2 DEF SemStep, Sleeps, Sleep, Exits, TaskExit, Calls, Executing, Tasks, Idle
  <2>3. CASE SemFails(x)
    BY <2>3 DEF SemFails, HardFault, Hang, Calls, Executing, Tasks, Idle
  <2> QED
    BY <2>1, <2>2, <2>3
<1>2. state[x] \in Runnable
  BY <1>1 DEF OnlyRunnableExecutes
<1>3. ASSUME NEW t \in Users
      PROVE  (pc'[t] = "in" => pc[t] = "in") /\ (pc'[t] = "wait" => pc[t] = "wait")
  BY DEF SemHeartbeat, SemStep, SemFails, semVars, Goto
<1>4. ASSUME NEW t \in Users
      PROVE  /\ t # x => state'[t] = state[t] /\ wake'[t] = wake[t]
             /\ t = x => \/ state'[t] = state[t] /\ wake'[t] = wake[t]
                         \/ state'[t] = "BLOCKED" /\ pc'[t] # "wait"
                         \/ state'[t] = "DORMANT" /\ wake'[t] = wake[t]
  <2>1. CASE SemHeartbeat(x)
    BY <2>1 DEF SemHeartbeat, Heartbeat
  <2>2. CASE SemStep(x)
    BY <1>1, <2>2 DEF SemStep, Sleeps, Sleep, Exits, TaskExit, semVars, TypeOK
  <2>3. CASE SemFails(x)
    BY <1>1, <2>3 DEF SemFails, HardFault, Hang, TypeOK
  <2> QED
    BY <2>1, <2>2, <2>3
<1>5. \A t \in Users : Returns(t)' => Returns(t)
  BY <1>1, <1>3, <1>4 DEF Returns, Runnable
<1>6. \A t \in Users : Stray(t)' => Stray(t)
  BY <1>2, <1>3, <1>4 DEF Stray, Runnable
<1> QED
  BY <1>3, <1>5, <1>6 DEF NoNewClaims

(***************************************************************************)
(* sem_wait without failure turns a free unit into a held one, or leaves   *)
(* the caller blocked and owed nothing new.                                *)
(***************************************************************************)
LEMMA WaitUnits ==
  ASSUME DataInv, OnlyRunnableExecutes, NEW x \in Users, SemWait(x), ~QueueFull(x)
  PROVE  Units' <= Units
<1> USE SchedulerAssumption, SemaphoreAssumption DEF DataInv
<1>1. current = x /\ x \in Tasks /\ x # Idle /\ state[x] \in Runnable /\ pc[x] = "ready"
  BY DEF SemWait, Calls, Executing, Tasks, Idle, OnlyRunnableExecutes
<1>2. CASE Acquires(x)
  <2>1. /\ Holders' \subseteq Holders \cup {x}
        /\ Owed' \subseteq Owed /\ Extra' \subseteq Extra
    BY <1>2 DEF Acquires, Goto, schedVars, Holders, Owed, Extra, Returns, Stray
  <2>2. Free' = Free - 1 /\ Free \in Nat
    BY <1>2 DEF Acquires, Available, Taken, Free, QueueInv
  <2>3. /\ Holders \subseteq Users /\ Owed \subseteq Users /\ Extra \subseteq Users
        /\ Holders' \subseteq Users
    BY <2>1 DEF Holders, Owed, Extra
  <2>4. /\ Cardinality(Holders') <= Cardinality(Holders) + 1
        /\ Cardinality(Holders) \in Nat /\ Cardinality(Holders') \in Nat
    BY <2>1, <2>3, Counts
  <2>5. /\ Cardinality(Owed') <= Cardinality(Owed)
        /\ Cardinality(Owed) \in Nat /\ Cardinality(Owed') \in Nat
    BY <2>1, <2>3, Counts
  <2>6. /\ Cardinality(Extra') <= Cardinality(Extra)
        /\ Cardinality(Extra) \in Nat /\ Cardinality(Extra') \in Nat
    BY <2>1, <2>3, Counts
  <2> QED
    BY <2>2, <2>4, <2>5, <2>6 DEF Claimed, Units
<1>3. CASE Waits(x)
  <2>1. ASSUME NEW t \in Users
        PROVE  /\ t # x => pc'[t] = pc[t] /\ state'[t] = state[t]
               /\ pc'[x] = "wait" /\ state'[x] = "BLOCKED"
               /\ wake' = wake /\ sp' = sp /\ current' = current
    BY <1>1, <1>3 DEF Waits, Goto, TypeOK
  <2>2. NoNewClaims
    BY <1>1, <2>1 DEF NoNewClaims, Returns, Stray, Runnable
  <2>3. Free' = Free /\ Free \in Nat
    BY <1>3 DEF Waits, Available, Taken, Free, QueueInv
  <2> QED
    BY <2>2, <2>3, NothingHandedOut DEF Units
<1> QED
  BY <1>2, <1>3 DEF SemWait

(***************************************************************************)
(* Coming back from sem_wait, a task takes one of the units owed to it.    *)
(***************************************************************************)
LEMMA ReturnUnits ==
  ASSUME DataInv, OnlyRunnableExecutes, NEW x \in Users, SemWaitReturns(x)
  PROVE  Units' <= Units
<1> USE SchedulerAssumption, SemaphoreAssumption DEF DataInv
<1>1. Returns(x)
  BY DEF SemWaitReturns, Calls, Executing, Tasks, Idle, OnlyRunnableExecutes, Returns
<1>2. ASSUME NEW t \in Users
      PROVE  /\ pc'[t] = IF t = x THEN "in" ELSE pc[t]
             /\ t # x => (Returns(t)' <=> Returns(t)) /\ (Stray(t)' <=> Stray(t))
             /\ ~Returns(x)' /\ (Stray(x)' => Stray(x))
  BY <1>1 DEF SemWaitReturns, Goto, schedVars, Returns, Stray
<1>3. Free' = Free /\ Free \in Nat
  BY DEF SemWaitReturns, Free, QueueInv
<1>4. /\ Holders' \subseteq Holders \cup {x} /\ Holders' \subseteq Users
      /\ Owed' \subseteq Owed /\ Extra' \subseteq Extra \ {x}
      /\ Holders \subseteq Users /\ Owed \subseteq Users /\ Extra \subseteq Users
  BY <1>1, <1>2 DEF Holders, Owed, Extra
<1>5. /\ Cardinality(Holders') <= Cardinality(Holders) + 1
      /\ Cardinality(Holders) \in Nat /\ Cardinality(Holders') \in Nat
  BY <1>4, Counts
<1>6. /\ Cardinality(Owed') <= Cardinality(Owed)
      /\ Cardinality(Owed) \in Nat /\ Cardinality(Owed') \in Nat
  BY <1>4, Counts
<1>7. /\ Cardinality(Extra') <= Cardinality(Extra)
      /\ Cardinality(Extra) \in Nat /\ Cardinality(Extra') \in Nat
  BY <1>4, Counts
<1>8. CASE Stray(x)
  <2>1. x \in Extra
    BY <1>1, <1>8 DEF Extra
  <2>2. Cardinality(Extra') <= Cardinality(Extra) - 1
    BY <1>4, <2>1, Counts
  <2> QED
    BY <1>3, <1>5, <1>6, <1>7, <2>2 DEF Claimed, Units
<1>9. CASE ~Stray(x)
  <2>1. x \in Owed /\ Owed' \subseteq Owed \ {x}
    BY <1>1, <1>2, <1>9 DEF Owed
  <2>2. Cardinality(Owed') <= Cardinality(Owed) - 1
    BY <1>4, <2>1, Counts
  <2> QED
    BY <1>3, <1>5, <1>6, <1>7, <2>2 DEF Claimed, Units
<1> QED
  BY <1>8, <1>9

(***************************************************************************)
(* A post passes the poster's unit to the counter or to the first waiter.  *)
(***************************************************************************)
LEMMA PostUnits ==
  ASSUME DataInv, OnlyRunnableExecutes, NEW x \in Users, SemPost(x)
  PROVE  Units' <= Units
<1> USE SchedulerAssumption, SemaphoreAssumption DEF DataInv
<1>1. current = x /\ x \in Tasks /\ state[x] \in Runnable /\ x \in Holders
  BY DEF SemPost, Calls, Executing, Tasks, Idle, OnlyRunnableExecutes, Holders
<1>2. /\ pc' = [pc EXCEPT ![x] = "out"] /\ wake' = wake /\ sp' = sp /\ current' = current
      /\ contador_recursos' = contador_recursos + 1 /\ WakeFirst
  BY DEF SemPost, Goto
<1>3. Holders' \subseteq Holders \ {x} /\ Holders \subseteq Users
  BY <1>2 DEF Holders
<1>4. /\ Cardinality(Holders') <= Cardinality(Holders) - 1
      /\ Cardinality(Holders) \in Nat /\ Cardinality(Holders') \in Nat
  BY <1>1, <1>3, Counts
<1>5. Owed \subseteq Users /\ Extra \subseteq Users /\ Owed' \subseteq Users /\ Extra' \subseteq Users
  BY DEF Owed, Extra
<1>6. /\ Cardinality(Owed) \in Nat /\ Cardinality(Owed') \in Nat
      /\ Cardinality(Extra) \in Nat /\ Cardinality(Extra') \in Nat
  BY <1>5, Counts
<1>7. CASE contador_recursos < 0 /\ tareas_esperando # <<>>
  <2>1. PICK h \in Tasks : state' = [state EXCEPT ![h] = "READY"]
    BY <1>2, <1>7 DEF WakeFirst, QueueInv
  <2>2. ASSUME NEW t \in Users, t # h
        PROVE  (Returns(t)' => Returns(t)) /\ (Stray(t)' => Stray(t))
    <3>1. state'[t] = state[t]
      BY <2>1, <2>2 DEF TypeOK
    <3>2. pc'[t] = "wait" => pc[t] = "wait"
      BY <1>2
    <3> QED
      BY <1>2, <3>1, <3>2 DEF Returns, Stray
  <2>3. h \in Users /\ pc[h] = "wait" => (Stray(h)' => Stray(h))
    BY <1>2 DEF Stray
  <2>4. h \in Users /\ pc[h] # "wait" => ~Returns(h)' /\ ~Returns(h)
    BY <1>2 DEF Returns
  <2>5. Free' = Free /\ Free = 0
    BY <1>2, <1>7 DEF Free, QueueInv
  <2>6. Owed' \subseteq Owed \cup {h} /\ Extra' \subseteq Extra \cup {h}
    BY <2>2 DEF Owed, Extra
  <2>7. Owed' \subseteq Owed \/ Extra' \subseteq Extra
    BY <2>2, <2>3, <2>4 DEF Owed, Extra
  <2>8. /\ Cardinality(Owed') <= Cardinality(Owed) + 1
        /\ Cardinality(Extra') <= Cardinality(Extra) + 1
    BY <1>5, <2>6, Counts
  <2>9. \/ Cardinality(Owed') <= Cardinality(Owed)
        \/ Cardinality(Extra') <= Cardinality(Extra)
    BY <1>5, <2>7, Counts
  <2> QED
    BY <1>4, <1>6, <2>5, <2>8, <2>9 DEF Claimed, Units
<1>8. CASE ~(contador_recursos < 0 /\ tareas_esperando # <<>>)
  <2>1. state' = state
    BY <1>2, <1>8 DEF WakeFirst
  <2>2. Owed' \subseteq Owed /\ Extra' \subseteq Extra
    BY <1>2, <2>1 DEF Owed, Extra, Returns, Stray
  <2>3. /\ Cardinality(Owed') <= Cardinality(Owed)
        /\ Cardinality(Extra') <= Cardinality(Extra)
    BY <1>5, <2>2, Counts
  <2>4. Free \in Nat /\ Free' \in Nat /\ Free' <= Free + 1
    BY <1>2 DEF Free, QueueInv
  <2> QED
    BY <1>4, <1>6, <2>3, <2>4 DEF Claimed, Units
<1> QED
  BY <1>7, <1>8

LEMMA UnitInvInit == SemInit => UnitInv
<1> SUFFICES ASSUME SemInit PROVE UnitInv
  OBVIOUS
<1>1. OnlyRunnableExecutes
  BY DEF SemInit, Init, OnlyRunnableExecutes
<1>2. Holders = {} /\ Owed = {} /\ Extra = {}
  BY SemaphoreAssumption DEF SemInit, Init, Holders, Owed, Extra, Returns, Stray
<1>3. Cardinality({}) = 0
  BY FS_EmptySet
<1>4. Claimed = 0
  BY <1>2, <1>3 DEF Claimed
<1>5. Free = SemValue
  BY SemaphoreAssumption DEF SemInit, Free
<1> QED
  BY <1>1, <1>4, <1>5, SemaphoreAssumption DEF UnitInv, Units

(***************************************************************************)
(* Until a task executes while BLOCKED, only runnable tasks do.            *)
(***************************************************************************)
LEMMA StaysRunnable ==
  ASSUME DataInv, OnlyRunnableExecutes, [SemNext]_vars, orderly'
  PROVE  OnlyRunnableExecutes'
<1> USE SchedulerAssumption, SemaphoreAssumption DEF DataInv
<1>1. CASE SemTick
  <2>1. ~pendsv /\ current' = current
        /\ state' = [t \in Tasks |-> IF Expired(t) \/ Stalled(t) THEN "READY" ELSE state[t]]
    BY <1>1 DEF SemTick, SysTick
  <2> QED
    BY <2>1 DEF OnlyRunnableExecutes, Runnable, TypeOK
<1>2. CASE SemPendSV
  BY <1>2 DEF SemPendSV, OnlyRunnableExecutes
<1>3. ASSUME NEW x \in Tasks, SemHeartbeat(x) \/ SemStep(x) \/ SemFails(x)
      PROVE  OnlyRunnableExecutes'
  <2>1. pendsv' = TRUE \/ UNCHANGED <<state, current, pendsv>>
    BY <1>3 DEF SemHeartbeat, Heartbeat, SemStep, Sleeps, Sleep, Exits, TaskExit,
                SemFails, HardFault, Hang, YieldCore
  <2> QED
    BY <2>1 DEF OnlyRunnableExecutes
<1>4. ASSUME NEW x \in Users, SemWait(x) PROVE OnlyRunnableExecutes'
  <2>1. pendsv' = TRUE \/ UNCHANGED <<state, current, pendsv>>
    BY <1>4 DEF SemWait, Acquires, QueueFull, Waits, YieldCore, schedVars
  <2> QED
    BY <2>1 DEF OnlyRunnableExecutes
<1>5. ASSUME NEW x \in Users, SemWaitReturns(x) PROVE OnlyRunnableExecutes'
  BY <1>5 DEF SemWaitReturns, schedVars, OnlyRunnableExecutes
<1>6. ASSUME NEW x \in Users, SemPost(x) PROVE OnlyRunnableExecutes'
  BY <1>6 DEF SemPost, WakeFirst, OnlyRunnableExecutes, Runnable, TypeOK
<1>7. CASE UNCHANGED vars
  BY <1>7 DEF vars, schedVars, OnlyRunnableExecutes
<1> QED
  BY <1>1, <1>2, <1>3, <1>4, <1>5, <1>6, <1>7 DEF SemNext, UserStep

LEMMA UnitTypes == DataInv => Free \in Nat /\ Units \in Nat
<1> SUFFICES ASSUME DataInv PROVE Free \in Nat /\ Units \in Nat
  OBVIOUS
<1>1. Holders \subseteq Users /\ Owed \subseteq Users /\ Extra \subseteq Users
  BY DEF Holders, Owed, Extra
<1>2. Cardinality(Holders) \in Nat /\ Cardinality(Owed) \in Nat /\ Cardinality(Extra) \in Nat
  BY <1>1, Counts
<1>3. Free \in Nat
  BY DEF Free, DataInv, QueueInv
<1> QED
  BY <1>2, <1>3 DEF Claimed, Units

LEMMA SameUnits ==
  ASSUME DataInv, NoNewClaims, UNCHANGED contador_recursos
  PROVE  Units' <= Units
<1>1. Free' = Free /\ Free \in Nat
  BY UnitTypes DEF Free
<1> QED
  BY <1>1, NothingHandedOut DEF Units

\* Without a disorder, no step makes units.
LEMMA NoUnitsMade ==
  ASSUME DataInv, OnlyRunnableExecutes, [SemNext]_vars, orderly'
  PROVE  Units' <= Units
<1>1. CASE SemTick
  BY <1>1, SameUnits, TickClaims DEF SemTick
<1>2. CASE SemPendSV
  BY <1>2, SameUnits, SwitchClaims DEF SemPendSV
<1>3. ASSUME NEW x \in Tasks, SemHeartbeat(x) \/ SemStep(x) \/ SemFails(x)
      PROVE  Units' <= Units
  <2>1. UNCHANGED contador_recursos
    BY <1>3 DEF SemHeartbeat, SemStep, SemFails, semVars
  <2> QED
    BY <1>3, <2>1, SameUnits, CallClaims
<1>4. ASSUME NEW x \in Users, SemWait(x) PROVE Units' <= Units
  <2>1. ~QueueFull(x)
    BY DEF QueueFull
  <2> QED
    BY <1>4, <2>1, WaitUnits
<1>5. ASSUME NEW x \in Users, SemWaitReturns(x) PROVE Units' <= Units
  BY <1>5, ReturnUnits
<1>6. ASSUME NEW x \in Users, SemPost(x) PROVE Units' <= Units
  BY <1>6, PostUnits
<1>7. CASE UNCHANGED vars
  <2>1. NoNewClaims
    BY <1>7 DEF vars, schedVars, semVars, NoNewClaims, Returns, Stray
  <2> QED
    BY <1>7, <2>1, SameUnits DEF vars, semVars
<1> QED
  BY <1>1, <1>2, <1>3, <1>4, <1>5, <1>6, <1>7 DEF SemNext, UserStep

LEMMA StaysOrdered ==
  ASSUME DataInv, [SemNext]_vars, orderly'
  PROVE  orderly
<1>1. orderly \in BOOLEAN
  BY DEF DataInv
<1>2. UNCHANGED orderly \/ orderly' = FALSE \/ orderly' = (orderly /\ state'[current'] \in Runnable)
  BY DEF SemNext, SemTick, SemPendSV, SemHeartbeat, SemStep, SemFails, semVars, UserStep,
         SemWait, Acquires, QueueFull, Waits, SemWaitReturns, SemPost, vars
<1> QED
  BY <1>1, <1>2

LEMMA UnitInvStep == DataInv /\ UnitInv /\ [SemNext]_vars => UnitInv'
<1> SUFFICES ASSUME DataInv, UnitInv, [SemNext]_vars, orderly'
             PROVE  OnlyRunnableExecutes' /\ Units' <= SemValue
  BY DEF UnitInv
<1>1. OnlyRunnableExecutes /\ Units <= SemValue
  BY StaysOrdered DEF UnitInv
<1>2. Units' <= Units
  BY <1>1, NoUnitsMade
<1>3. Units \in Nat /\ SemValue \in Nat
  BY UnitTypes, SemaphoreAssumption
<1>4. Units' \in Nat
  <2>1. (DataInv => Free \in Nat /\ Units \in Nat)'
    BY UnitTypes, PTL
  <2> QED
    BY <2>1, DataInvStep
<1>5. Units' <= SemValue
  BY <1>1, <1>2, <1>3, <1>4
<1> QED
  BY <1>1, <1>5, StaysRunnable

(***************************************************************************)
(* k_sem_wait and k_sem_post let no more tasks in than the semaphore has   *)
(* units, for any number of users, units and queue slots and with restarts *)
(* and failures at every point, as long as the wait queue never fills up   *)
(* and no BLOCKED task goes on executing.                                  *)
(***************************************************************************)
THEOREM MutualExclusionHolds == SemSpec => []MutualExclusion
<1>1. DataInv /\ UnitInv => MutualExclusion
  <2> SUFFICES ASSUME DataInv, UnitInv, orderly PROVE Cardinality(Holders) <= SemValue
    BY DEF MutualExclusion
  <2>1. Units <= SemValue
    BY DEF UnitInv
  <2>2. Holders \subseteq Users /\ Owed \subseteq Users /\ Extra \subseteq Users
    BY DEF Holders, Owed, Extra
  <2>3. Cardinality(Holders) \in Nat /\ Cardinality(Owed) \in Nat /\ Cardinality(Extra) \in Nat
    BY <2>2, Counts
  <2>4. Free \in Nat /\ SemValue \in Nat
    BY SemaphoreAssumption DEF DataInv, QueueInv, Free
  <2> QED
    BY <2>1, <2>3, <2>4 DEF Claimed, Units
<1> QED
  BY <1>1, DataInvInit, DataInvStep, UnitInvInit, UnitInvStep, PTL DEF SemSpec
=============================================================================
