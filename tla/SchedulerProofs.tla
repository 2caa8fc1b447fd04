--------------------------- MODULE SchedulerProofs ---------------------------
(***************************************************************************)
(* Theorems about one core, for every number of tasks, quantum, timeout    *)
(* and width of the tick counter.                                          *)
(***************************************************************************)
EXTENDS Scheduler, TLAPS

(***************************************************************************)
(* The tick counter stays in its range.                                    *)
(***************************************************************************)
LEMMA NowType ==
    ASSUME ticks \in 0 .. TickMod - 1
    PROVE  Now \in 0 .. TickMod - 1
BY SchedulerAssumption DEF Now, Plus

(***************************************************************************)
(* sys_sleep stores a wake_tick of the counter's width for every duration. *)
(***************************************************************************)
LEMMA WakeType ==
    ASSUME NEW ms \in SleepMs, ticks \in 0 .. TickMod - 1
    PROVE  (ticks + TicksToSleep(ms)) % TickMod \in 0 .. TickMod - 1
<1>1. TicksToSleep(ms) \in Nat
  BY SchedulerAssumption DEF TicksToSleep
<1> QED
  BY <1>1, SchedulerAssumption

LEMMA TypeInit == Init => TypeOK
<1>1. 0 \in 0 .. TickMod - 1 /\ Quantum \in 1 .. Quantum
  BY SchedulerAssumption
<1>2. Init => /\ state \in [Tasks -> States]
              /\ wake \in [Tasks -> 0 .. TickMod - 1]
              /\ last_seen \in [Tasks -> 0 .. TickMod - 1]
              /\ ticks \in 0 .. TickMod - 1
  BY <1>1 DEF Init, States
<1>3. Init => /\ sp \in [Tasks -> {"entry", "resume"}]
              /\ ctx \in [Tasks -> Contexts]
              /\ current \in Tasks \cup {Idle}
              /\ left \in 1 .. Quantum
              /\ pendsv \in BOOLEAN
  BY <1>1 DEF Init, Contexts
<1> QED
  BY <1>2, <1>3 DEF TypeOK

LEMMA TypeStep == TypeOK /\ [Next]_schedVars => TypeOK'
<1> SUFFICES ASSUME TypeOK, [Next]_schedVars
             PROVE  TypeOK'
  OBVIOUS
<1> USE SchedulerAssumption
<1>1. CASE SysTick
  <2>1. Now \in 0 .. TickMod - 1
    BY NowType DEF TypeOK
  <2>2. state' \in [Tasks -> States] /\ wake' \in [Tasks -> 0 .. TickMod - 1]
    BY <1>1, <2>1 DEF SysTick, TypeOK, States
  <2>3. last_seen' \in [Tasks -> 0 .. TickMod - 1] /\ sp' \in [Tasks -> {"entry", "resume"}]
    BY <1>1, <2>1 DEF SysTick, TypeOK
  <2>4. ctx' \in [Tasks -> Contexts]
    BY <1>1 DEF SysTick, OverwriteStacks, TypeOK, Contexts
  <2>5. left' \in 1 .. Quantum
    <3>1. left \in 1 .. Quantum
      BY DEF TypeOK
    <3> QED
      BY <1>1, <3>1 DEF SysTick, UseQuantum, Remaining
  <2>6. pendsv' \in BOOLEAN
    BY <1>1 DEF SysTick, UseQuantum
  <2> QED
    BY <1>1, <2>1, <2>2, <2>3, <2>4, <2>5, <2>6 DEF SysTick, TypeOK
<1>2. CASE KeepContext
  BY <1>2 DEF KeepContext, Saved, TypeOK
<1>3. ASSUME NEW t \in Tasks, Dispatch(t)
      PROVE  TypeOK'
  <2>1. state' \in [Tasks -> States]
    BY <1>3 DEF Dispatch, Released, TypeOK, States
  <2>2. sp' \in [Tasks -> {"entry", "resume"}] /\ ctx' \in [Tasks -> Contexts]
    BY <1>3 DEF Dispatch, Saved, TypeOK, Contexts
  <2>3. left' = Quantum /\ current' = t /\ pendsv' = FALSE
    BY <1>3 DEF Dispatch
  <2>4. Quantum \in 1 .. Quantum
    OBVIOUS
  <2> QED
    BY <1>3, <2>1, <2>2, <2>3, <2>4 DEF Dispatch, TypeOK
<1>4. ASSUME NEW t \in Tasks, Heartbeat(t)
      PROVE  TypeOK'
  BY <1>4 DEF Heartbeat, TypeOK
<1>5. ASSUME NEW t \in Tasks, NEW ms \in SleepMs, Sleep(t, ms)
      PROVE  TypeOK'
  <2>1. (ticks + TicksToSleep(ms)) % TickMod \in 0 .. TickMod - 1
    BY WakeType DEF TypeOK
  <2>2. wake' \in [Tasks -> 0 .. TickMod - 1]
    BY <1>5, <2>1 DEF Sleep, TypeOK
  <2>3. state' \in [Tasks -> States]
    BY <1>5 DEF Sleep, TypeOK, States
  <2> QED
    BY <1>5, <2>2, <2>3 DEF Sleep, YieldCore, TypeOK
<1>6. ASSUME NEW t \in Tasks, TaskExit(t)
      PROVE  TypeOK'
  BY <1>6 DEF TaskExit, YieldCore, TypeOK, States
<1>7. ASSUME NEW t \in Tasks, HardFault(t)
      PROVE  TypeOK'
  BY <1>7 DEF HardFault, YieldCore, TypeOK, States, Contexts
<1>8. ASSUME NEW t \in Tasks, Hang(t)
      PROVE  TypeOK'
  BY <1>8 DEF Hang, TypeOK, Contexts
<1>9. CASE UNCHANGED schedVars
  BY <1>9 DEF schedVars, TypeOK
<1> QED
  BY <1>1, <1>2, <1>3, <1>4, <1>5, <1>6, <1>7, <1>8, <1>9
  DEF Next, PendSV, Step, Sleeps, Exits

(***************************************************************************)
(* Every handler keeps the task table well typed; in particular            *)
(* remaining_ticks is never 0 when a handler returns.                      *)
(***************************************************************************)
THEOREM TypeCorrect == Spec => []TypeOK
  BY TypeInit, TypeStep, PTL DEF Spec

(***************************************************************************)
(* On every core at most one task is RUNNING, the one PSP belongs to.      *)
(***************************************************************************)
THEOREM OneRunningHolds == Spec => []OneRunning
<1>1. Init => OneRunning
  BY DEF Init, OneRunning
<1>2. TypeOK /\ OneRunning /\ [Next]_schedVars => OneRunning'
  <2> SUFFICES ASSUME TypeOK, OneRunning, [Next]_schedVars, NEW u \in Tasks, state'[u] = "RUNNING"
               PROVE  u = current'
    BY DEF OneRunning
  <2>1. CASE SysTick
    BY <2>1 DEF SysTick, OneRunning
  <2>2. CASE KeepContext
    BY <2>2 DEF KeepContext, OneRunning
  <2>3. ASSUME NEW t \in Tasks, Dispatch(t)
        PROVE  u = current'
    BY <2>3 DEF Dispatch, Released, OneRunning, TypeOK
  <2>4. ASSUME NEW t \in Tasks, Heartbeat(t) \/ Sleeps(t) \/ Exits(t) \/ HardFault(t) \/ Hang(t)
        PROVE  u = current'
    BY <2>4 DEF Heartbeat, Sleeps, Sleep, Exits, TaskExit, HardFault, Hang, YieldCore, OneRunning, TypeOK
  <2>5. CASE UNCHANGED schedVars
    BY <2>5 DEF schedVars, OneRunning
  <2> QED
    BY <2>1, <2>2, <2>3, <2>4, <2>5 DEF Next, PendSV, Step
<1> QED
  BY <1>1, <1>2, TypeCorrect, PTL DEF Spec

-----------------------------------------------------------------------------
(* Deadlines of sleeping tasks.                                            *)

\* wake_tick lies ahead of kernel_ticks, unless the sum wrapped in k_task_sleep
Deadlines == \A t \in Tasks : Asleep(t) => (ticks < wake[t] \/ PastTheWrap(wake[t]))

(***************************************************************************)
(* The wake_tick that k_task_sleep stores lies ahead of kernel_ticks, or   *)
(* the addition wrapped.                                                   *)
(***************************************************************************)
LEMMA DeadlineAhead ==
    ASSUME TypeOK, NEW ms \in SleepMs
    PROVE  LET w == (ticks + TicksToSleep(ms)) % TickMod
           IN  ticks < w \/ PastTheWrap(w)
<1> DEFINE k == TicksToSleep(ms)
<1>1. k \in Nat /\ k >= 1 /\ ticks \in Nat /\ TickMod \in Nat /\ TickMod > 0
  BY SchedulerAssumption DEF TicksToSleep, TypeOK
<1> DEFINE w == (ticks + k) % TickMod
<1>2. CASE ticks + k < TickMod
  <2>1. w = ticks + k
    BY <1>1, <1>2
  <2> QED
    BY <1>1, <2>1
<1>3. CASE ticks + k >= TickMod
  <2>1. w + TickMod <= ticks + k
    BY <1>1, <1>3
  <2> QED
    BY <2>1 DEF PastTheWrap
<1> QED
  BY <1>1, <1>2, <1>3

(***************************************************************************)
(* Every wake_tick stays ahead of kernel_ticks while its task sleeps.      *)
(***************************************************************************)
LEMMA DeadlinesStep ==
    ASSUME TypeOK, Deadlines, [Next]_schedVars
    PROVE  Deadlines'
<1> SUFFICES ASSUME NEW t \in Tasks, state'[t] = "BLOCKED", wake'[t] # 0
             PROVE  (ticks < wake[t] \/ PastTheWrap(wake[t]))'
  BY DEF Deadlines, Asleep
<1>1. CASE SysTick
  <2>1. Asleep(t) /\ ~Expired(t) /\ wake'[t] = wake[t] /\ ticks' = Now
    BY <1>1 DEF SysTick, TypeOK, Asleep
  <2>2. Now < wake[t]
    BY <2>1, NowType DEF Expired, TypeOK
  <2> QED
    BY <2>1, <2>2
<1>2. CASE UNCHANGED <<wake, ticks>> /\ Asleep(t)
  BY <1>2 DEF Deadlines, PastTheWrap
<1>3. CASE PendSV
  <2>1. UNCHANGED <<wake, ticks>> /\ state[t] = "BLOCKED"
    BY <1>3 DEF PendSV, KeepContext, Dispatch, Released, TypeOK
  <2> QED
    BY <1>2, <2>1 DEF Asleep
<1>4. ASSUME NEW u \in Tasks, Heartbeat(u) \/ Exits(u) \/ HardFault(u) \/ Hang(u)
      PROVE  (ticks < wake[t] \/ PastTheWrap(wake[t]))'
  <2>1. UNCHANGED <<wake, ticks>> /\ state[t] = "BLOCKED"
    BY <1>4 DEF Heartbeat, Exits, TaskExit, HardFault, Hang, TypeOK
  <2> QED
    BY <1>2, <2>1 DEF Asleep
<1>5. ASSUME NEW u \in Tasks, NEW ms \in SleepMs, Sleep(u, ms)
      PROVE  (ticks < wake[t] \/ PastTheWrap(wake[t]))'
  <2>1. ticks' = ticks /\ current = u
    BY <1>5 DEF Sleep, Calls, Executing
  <2>2. CASE t = u
    <3>1. wake'[t] = (ticks + TicksToSleep(ms)) % TickMod
      BY <1>5, <2>1, <2>2 DEF Sleep, TypeOK
    <3>2. ticks < wake'[t] \/ PastTheWrap(wake'[t])
      BY <3>1, DeadlineAhead
    <3> QED
      BY <2>1, <3>2 DEF PastTheWrap
  <2>3. CASE t # u
    <3>1. wake'[t] = wake[t] /\ Asleep(t)
      BY <1>5, <2>1, <2>3 DEF Sleep, TypeOK, Asleep
    <3> QED
      BY <2>1, <3>1 DEF Deadlines, PastTheWrap
  <2> QED
    BY <2>2, <2>3
<1>6. CASE UNCHANGED schedVars
  BY <1>2, <1>6 DEF schedVars, Asleep
<1> QED
  BY <1>1, <1>3, <1>4, <1>5, <1>6 DEF Next, Step, Sleeps

(***************************************************************************)
(* isr_systick wakes a sleeper in the very tick of its wake_tick; only a   *)
(* deadline beyond the wrap of kernel_ticks ends the sleep early, and only *)
(* one that falls on the reserved 0 is left to the watchdog.               *)
(***************************************************************************)
THEOREM WakesOnTimeHolds == Spec => WakesOnTime
<1>1. Init => Deadlines
  BY DEF Init, Deadlines, Asleep
<1>2. TypeOK /\ Deadlines /\ Next =>
        \A t \in Tasks : state[t] = "BLOCKED" /\ state'[t] = "READY" =>
           IF wake[t] = 0 THEN Stalled(t)
           ELSE ticks' = wake[t] \/ PastTheWrap(wake[t])
  <2> SUFFICES ASSUME TypeOK, Deadlines, Next,
                      NEW t \in Tasks, state[t] = "BLOCKED", state'[t] = "READY"
               PROVE  IF wake[t] = 0 THEN Stalled(t)
                      ELSE ticks' = wake[t] \/ PastTheWrap(wake[t])
    OBVIOUS
  <2>1. SysTick
    <3>1. ~PendSV
      BY DEF PendSV, KeepContext, Dispatch, Released, TypeOK
    <3>2. ASSUME NEW u \in Tasks, Step(u)
          PROVE  FALSE
      BY <3>2 DEF Step, Heartbeat, Sleeps, Sleep, Exits, TaskExit, HardFault, Hang, TypeOK
    <3> QED
      BY <3>1, <3>2 DEF Next
  <2>2. Expired(t) \/ Stalled(t)
    BY <2>1 DEF SysTick
  <2>3. CASE wake[t] = 0
    BY <2>2, <2>3 DEF Expired, Asleep
  <2>4. CASE wake[t] # 0
    <3>1. Asleep(t) /\ Now >= wake[t] /\ ticks' = Now
      BY <2>1, <2>2, <2>4 DEF SysTick, Expired, Stalled, Asleep
    <3>2. ticks < wake[t] => Now = wake[t]
      BY <3>1, SchedulerAssumption DEF Now, Plus, TypeOK
    <3> QED
      BY <2>4, <3>1, <3>2 DEF Deadlines
  <2> QED
    BY <2>3, <2>4
<1> QED
  BY <1>1, <1>2, DeadlinesStep, TypeCorrect, PTL DEF Spec, WakesOnTime

-----------------------------------------------------------------------------
(* A task that beats promptly and never faults or hangs.  While it waits,  *)
(* the turns still to come before its own bound its silence; while it      *)
(* executes, whatever its state, its own heartbeats do.  So the watchdog   *)
(* restarts it only if it sleeps without counting as asleep.               *)

Patient == Quantum > 1 /\ SilenceBound <= Timeout

\* how many places after current_task the search of schedule() meets h
Distance(h) == IF h > current THEN h - current ELSE h - current + NumTasks

\* ticks the current turn may still last: a restart reloads remaining_ticks
TurnLeft ==
    IF state[current] = "DORMANT" \/ Age(current) + left <= Timeout
    THEN left ELSE left + Quantum - 1

Waiting(h) == Age(h) + (IF pendsv THEN 0 ELSE TurnLeft)
                  <= 1 + (NumTasks - Distance(h)) * LongestTurn

OnCore(h) ==
    IF pendsv /\ state[h] \in Runnable THEN Age(h) <= 1
    ELSE Age(h) < SilenceBound \/ (left < Quantum /\ Age(h) = SilenceBound)

HealthyInv(h) ==
    /\ ctx[h] = "live"
    /\ current = Idle => state[h] \in Runnable /\ Age(h) = IF pendsv THEN 1 ELSE 0
    /\ current = h => OnCore(h)
    /\ (current \notin {Idle, h} /\ state[h] \in Runnable) => Waiting(h)

AllHealthy == \A h \in Healthy : HealthyInv(h)

(***************************************************************************)
(* A tick makes every silence one longer, across the wrap of kernel_ticks. *)
(***************************************************************************)
LEMMA OneTickOlder ==
    ASSUME NEW a \in 0 .. TickMod - 1, NEW b \in 0 .. TickMod - 1, Minus(a, b) < TickMod - 1
    PROVE  Minus(Plus(a, 1), b) = Minus(a, b) + 1
BY SchedulerAssumption DEF Minus, Plus

(***************************************************************************)
(* Ages and silences are differences of the counter's width, as the        *)
(* uint32_t subtraction in isr_systick.                                    *)
(***************************************************************************)
LEMMA AgeType ==
    ASSUME TypeOK, NEW t \in Tasks
    PROVE  Age(t) \in 0 .. TickMod - 1 /\ Silence(t) \in 0 .. TickMod - 1
<1>1. ticks \in 0 .. TickMod - 1 /\ Now \in 0 .. TickMod - 1 /\ last_seen[t] \in 0 .. TickMod - 1
  BY NowType DEF TypeOK
<1> QED
  BY <1>1, SchedulerAssumption DEF Age, Silence, Minus

(***************************************************************************)
(* One turn more for each place nearer to the head of the search.          *)
(***************************************************************************)
LEMMA Turns ==
    ASSUME NEW K \in Nat, NEW a \in Nat, NEW b \in Nat, a < b
    PROVE  a * K + K <= b * K
<1>1. PICK c \in Nat : b = a + 1 + c
  <2>1. b - a - 1 \in Nat
    OBVIOUS
  <2>2. b = a + 1 + (b - a - 1)
    OBVIOUS
  <2> QED
    BY <2>1, <2>2
<1>2. b * K = a * K + K + c * K
  BY <1>1
<1>3. c * K \in Nat
  OBVIOUS
<1> QED
  BY <1>2, <1>3

(***************************************************************************)
(* The silence bound is a number of ticks and covers at least one turn's   *)
(* own two ticks.                                                          *)
(***************************************************************************)
LEMMA BoundType == LongestTurn \in Nat /\ SilenceBound \in Nat /\ SilenceBound >= 2
<1>1. LongestTurn \in Nat /\ NumTasks - 1 \in Nat
  BY SchedulerAssumption DEF LongestTurn
<1>2. (NumTasks - 1) * LongestTurn \in Nat
  BY <1>1
<1> QED
  BY <1>1, <1>2 DEF SilenceBound

(***************************************************************************)
(* schedule() moves towards a READY task: after it the task runs, or fewer *)
(* places remain before it.                                                *)
(***************************************************************************)
LEMMA Nearer ==
    ASSUME TypeOK, NEW h \in Tasks, Released[h] = "READY", NEW t \in Tasks, FirstReady(t),
           h # t, current \notin {Idle, h}
    PROVE  /\ Distance(h) \in 1 .. NumTasks - 1
           /\ (IF h > t THEN h - t ELSE h - t + NumTasks) \in 1 .. Distance(h) - 1
<1> DEFINE D == Distance(h)
<1>1. current \in 0 .. NumTasks - 1 /\ h \in 0 .. NumTasks - 1 /\ NumTasks \in Nat
  BY SchedulerAssumption DEF TypeOK, Tasks
<1>2. D \in 1 .. NumTasks - 1 /\ Nth(D) = h
  BY <1>1 DEF Distance, Nth
<1>3. PICK k \in 1 .. NumTasks : t = Nth(k) /\ \A j \in 1 .. k - 1 : Released[Nth(j)] # "READY"
  BY DEF FirstReady
<1>4. k < D
  <2>1. D \notin 1 .. k - 1
    BY <1>2, <1>3
  <2>2. D # k
    BY <1>2, <1>3
  <2> QED
    BY <1>2, <1>3, <2>1, <2>2
<1>5. (IF h > t THEN h - t ELSE h - t + NumTasks) = D - k
  BY <1>1, <1>2, <1>3, <1>4 DEF Distance, Nth
<1> HIDE DEF D
<1>6. D - k \in 1 .. D - 1
  BY <1>2, <1>3, <1>4
<1> QED
  BY <1>2, <1>5, <1>6 DEF D

(***************************************************************************)
(* The silence of a waiting task is below the bound, with the whole of the *)
(* current turn still to come.                                             *)
(***************************************************************************)
LEMMA WaitingIsShort ==
    ASSUME TypeOK, NEW h \in Tasks, current \notin {Idle, h}, Waiting(h)
    PROVE  /\ Age(h) + (IF pendsv THEN 0 ELSE TurnLeft) < SilenceBound
           /\ TurnLeft \in Nat /\ TurnLeft >= left
<1>1. NumTasks \in Nat /\ Quantum \in Nat /\ LongestTurn \in Nat
  BY SchedulerAssumption DEF LongestTurn
<1>2. Distance(h) \in 1 .. NumTasks - 1
  BY <1>1, SchedulerAssumption DEF TypeOK, Tasks, Distance
<1>3. (NumTasks - Distance(h)) * LongestTurn <= (NumTasks - 1) * LongestTurn
  <2>1. CASE NumTasks - Distance(h) = NumTasks - 1
    <3>1. (NumTasks - 1) * LongestTurn \in Int
      BY <1>1
    <3> QED
      BY <2>1, <3>1
  <2>2. CASE NumTasks - Distance(h) < NumTasks - 1
    <3> DEFINE a == NumTasks - Distance(h)  b == NumTasks - 1
    <3>1. a \in Nat /\ b \in Nat /\ a < b
      BY <1>1, <1>2, <2>2
    <3>2. a * LongestTurn \in Int /\ b * LongestTurn \in Int
      BY <1>1, <3>1
    <3> HIDE DEF a, b
    <3>3. a * LongestTurn + LongestTurn <= b * LongestTurn
      BY <1>1, <3>1, Turns
    <3>4. a * LongestTurn <= b * LongestTurn
      BY <1>1, <3>2, <3>3
    <3> QED
      BY <3>4 DEF a, b
  <2> QED
    BY <1>1, <1>2, <2>1, <2>2
<1>4. (NumTasks - Distance(h)) * LongestTurn \in Int /\ (NumTasks - 1) * LongestTurn \in Int
  BY <1>1, <1>2
<1>5. Age(h) \in Nat /\ Age(current) \in Nat /\ left \in 1 .. Quantum
  BY AgeType, SchedulerAssumption DEF TypeOK
<1>6. TurnLeft \in Nat /\ TurnLeft >= left
  BY <1>1, <1>5, SchedulerAssumption DEF TurnLeft
<1> QED
  BY <1>3, <1>4, <1>5, <1>6 DEF Waiting, SilenceBound

(***************************************************************************)
(* The watchdog never takes a healthy task for hung that executes or waits *)
(* for the core.                                                           *)
(***************************************************************************)
LEMMA HealthyNotStalled ==
    ASSUME TypeOK, Patient, NEW h \in Tasks, h \in Healthy, HealthyInv(h), ~pendsv, HasBeaten,
           current = h \/ state[h] \in Runnable
    PROVE  ~Stalled(h) /\ Silence(h) = Age(h) + 1 /\ Age(h) < SilenceBound
<1>1. SilenceBound \in Nat /\ SilenceBound >= 2 /\ SilenceBound <= Timeout
  BY BoundType DEF Patient
<1>2. Age(h) \in 0 .. TickMod - 1 /\ left \in 1 .. Quantum
  BY AgeType DEF TypeOK
<1>3. Age(h) < SilenceBound
  <2>1. CASE current = Idle
    BY <1>1, <2>1 DEF HealthyInv
  <2>2. CASE current = h
    <3>1. last_seen[h] = ticks => Age(h) = 0
      BY DEF Age, Minus, TypeOK
    <3> QED
      BY <1>1, <1>2, <2>2, <3>1 DEF HealthyInv, OnCore, HasBeaten, Healthy
  <2>3. CASE current \notin {Idle, h}
    <3>1. TurnLeft \in Nat /\ Age(h) + TurnLeft < SilenceBound
      BY <2>3, WaitingIsShort DEF HealthyInv
    <3> QED
      BY <1>1, <1>2, <3>1
  <2> QED
    BY <2>1, <2>2, <2>3
<1>4. Silence(h) = Age(h) + 1
  BY <1>1, <1>2, <1>3, OneTickOlder, SchedulerAssumption DEF Age, Silence, Now, TypeOK
<1> QED
  BY <1>1, <1>2, <1>3, <1>4, SchedulerAssumption DEF Stalled

(***************************************************************************)
(* A tick brings the end of the current turn nearer, also when it restarts *)
(* the task whose turn it is and reloads remaining_ticks.                  *)
(***************************************************************************)
LEMMA TurnGoesOn ==
    ASSUME TypeOK, TypeOK', Patient, SysTick, current # Idle, TurnLeft < Timeout
    PROVE  (IF pendsv' THEN 0 ELSE TurnLeft') + 1 <= TurnLeft /\ TurnLeft' \in Int
<1> DEFINE c == current
<1>1. c \in Tasks /\ ~pendsv /\ current' = current
  BY DEF SysTick, TypeOK
<1>2. left \in 1 .. Quantum /\ left' \in 1 .. Quantum /\ Quantum \in Nat /\ Timeout \in Nat /\ TickMod \in Nat
  BY SchedulerAssumption DEF TypeOK
<1>3. Age(c) \in 0 .. TickMod - 1 /\ Silence(c) \in Nat
  BY <1>1, AgeType
<1>4. TurnLeft' = IF state'[c] = "DORMANT" \/ Age(c)' + left' <= Timeout THEN left' ELSE left' + Quantum - 1
  BY <1>1 DEF TurnLeft
<1>5. TurnLeft >= left /\ TurnLeft \in Nat
  BY <1>2, <1>3 DEF TurnLeft
<1>6. CASE Stalled(c)
  <2>1. Age(c)' = 0 /\ left' = Quantum - 1 /\ pendsv' = FALSE
    <3>1. last_seen'[c] = Now /\ ticks' = Now
      BY <1>1, <1>6 DEF SysTick, Refreshed
    <3>2. Age(c)' = 0
      BY <1>1, <3>1, NowType DEF Age, Minus, TypeOK
    <3> QED
      BY <1>1, <1>2, <1>6, <3>2 DEF SysTick, UseQuantum, Remaining, Patient
  <2>2. Age(c) + left > Timeout /\ state[c] # "DORMANT"
    BY <1>1, <1>2, <1>3, <1>6, OneTickOlder, SchedulerAssumption
    DEF Stalled, Age, Silence, Now, TypeOK
  <2>3. TurnLeft = left + Quantum - 1
    BY <1>2, <1>3, <2>2 DEF TurnLeft
  <2>4. TurnLeft' = Quantum - 1
    BY <1>2, <1>4, <2>1, <2>3
  <2>5. (IF pendsv' THEN 0 ELSE TurnLeft') = Quantum - 1
    BY <2>1, <2>4
  <2> QED
    BY <1>2, <2>3, <2>4, <2>5
<1>7. CASE ~Stalled(c)
  <2>1. CASE left = 1
    <3>1. pendsv' = TRUE
      BY <1>1, <1>7, <2>1 DEF SysTick, UseQuantum, Remaining
    <3>2. TurnLeft' \in Int
      <4>1. Age(c)' \in Int
        BY <1>1, NowType, SchedulerAssumption DEF SysTick, Age, Minus, TypeOK
      <4> QED
        BY <1>2, <1>4, <4>1
    <3> QED
      BY <1>2, <1>5, <2>1, <3>1, <3>2
  <2>2. CASE left > 1
    <3>1. left' = left - 1 /\ pendsv' = FALSE
      BY <1>1, <1>2, <1>7, <2>2 DEF SysTick, UseQuantum, Remaining
    <3>2. TurnLeft' + 1 <= TurnLeft /\ TurnLeft' \in Int
      <4>1. CASE state[c] = "DORMANT"
        <5>1. state'[c] = "DORMANT"
          BY <1>1, <1>7, <4>1 DEF SysTick, Expired, Asleep
        <5> QED
          BY <1>2, <1>4, <3>1, <4>1, <5>1 DEF TurnLeft
      <4>2. CASE Asleep(c)
        <5>1. last_seen'[c] = Now /\ ticks' = Now
          BY <1>1, <4>2 DEF SysTick, Refreshed
        <5>2. Age(c)' = 0
          BY <1>1, <5>1, NowType DEF Age, Minus, TypeOK
        <5> QED
          BY <1>2, <1>4, <1>5, <3>1, <5>2
      <4>3. CASE state[c] # "DORMANT" /\ ~Asleep(c)
        <5>1. Age(c)' = Silence(c) /\ Silence(c) <= Timeout /\ state'[c] = state[c]
          BY <1>1, <1>2, <1>3, <1>7, <4>3 DEF SysTick, Refreshed, Expired, Age, Silence, Stalled
        <5>2. Age(c) < TickMod - 1 => Silence(c) = Age(c) + 1
          BY <1>1, OneTickOlder DEF Age, Silence, Now, TypeOK
        <5>3. TurnLeft' = IF Silence(c) + left' <= Timeout THEN left' ELSE left' + Quantum - 1
          BY <1>4, <4>3, <5>1
        <5> QED
          BY <1>2, <1>3, <3>1, <4>3, <5>1, <5>2, <5>3, SchedulerAssumption DEF TurnLeft
      <4> QED
        BY <4>1, <4>2, <4>3
    <3> QED
      BY <3>1, <3>2
  <2> QED
    BY <1>2, <2>1, <2>2
<1> QED
  BY <1>6, <1>7

(***************************************************************************)
(* No turn, whoever has it, lasts longer than the longest turn.            *)
(***************************************************************************)
LEMMA TurnIsShort ==
    ASSUME TypeOK, current # Idle
    PROVE  TurnLeft \in Nat /\ TurnLeft <= LongestTurn
<1>1. Age(current) \in Nat /\ left \in 1 .. Quantum /\ Quantum \in Nat /\ Timeout \in Nat
  BY AgeType, SchedulerAssumption DEF TypeOK
<1> QED
  BY <1>1 DEF TurnLeft, LongestTurn

(***************************************************************************)
(* One turn at least lies between a waiting task and its own.              *)
(***************************************************************************)
LEMMA FreshWaits ==
    ASSUME TypeOK, NEW h \in Tasks, current \notin {Idle, h}, Age(h) = 0
    PROVE  Waiting(h)
<1> DEFINE b == NumTasks - Distance(h)  K == LongestTurn  r == IF pendsv THEN 0 ELSE TurnLeft
<1>1. b \in Nat /\ 0 < b
  BY SchedulerAssumption DEF TypeOK, Tasks, Distance
<1>2. K \in Nat /\ r \in Nat /\ r <= K
  BY BoundType, TurnIsShort
<1> HIDE DEF b, K, r
<1>3. 0 * K + K <= b * K /\ b * K \in Int
  BY <1>1, <1>2, Turns
<1>4. 0 + r <= 1 + b * K
  BY <1>2, <1>3
<1> QED
  BY <1>4 DEF Waiting, b, K, r

(***************************************************************************)
(* A tick.                                                                 *)
(***************************************************************************)
LEMMA HealthyTick ==
    ASSUME TypeOK, TypeOK', Patient, NEW h \in Tasks, h \in Healthy, HealthyInv(h), SysTick
    PROVE  HealthyInv(h)'
<1>1. ~pendsv /\ HasBeaten /\ current' = current /\ ticks' = Now
  BY DEF SysTick
<1>2. Age(h) \in Nat /\ Age(h)' \in Nat /\ left \in 1 .. Quantum /\ left' \in 1 .. Quantum /\ Quantum \in Nat
  <2>1. Age(h) \in Nat /\ left \in 1 .. Quantum /\ left' \in 1 .. Quantum /\ Quantum \in Nat
    BY AgeType, SchedulerAssumption DEF TypeOK
  <2>2. Age(h)' \in 0 .. TickMod - 1
    BY SchedulerAssumption DEF Age, Minus, TypeOK
  <2> QED
    BY <2>1, <2>2
<1>3. h # Idle /\ ctx[h] = "live"
  BY SchedulerAssumption DEF HealthyInv, Tasks, Idle
<1>4. SilenceBound \in Nat /\ SilenceBound >= 2 /\ SilenceBound <= Timeout /\ Timeout \in Nat
  BY BoundType, SchedulerAssumption DEF Patient
<1>5. current = h \/ state[h] \in Runnable
          => /\ ~Stalled(h) /\ Silence(h) = Age(h) + 1 /\ Age(h) < SilenceBound
             /\ Age(h)' = IF Asleep(h) THEN 0 ELSE Age(h) + 1
  <2> SUFFICES ASSUME current = h \/ state[h] \in Runnable
               PROVE  /\ ~Stalled(h) /\ Silence(h) = Age(h) + 1 /\ Age(h) < SilenceBound
                      /\ Age(h)' = IF Asleep(h) THEN 0 ELSE Age(h) + 1
    OBVIOUS
  <2>1. ~Stalled(h) /\ Silence(h) = Age(h) + 1 /\ Age(h) < SilenceBound
    BY <1>1, HealthyNotStalled
  <2>2. last_seen'[h] = IF Asleep(h) THEN Now ELSE last_seen[h]
    BY <2>1 DEF SysTick, Refreshed
  <2>3. Minus(Now, Now) = 0
    BY NowType DEF Minus, TypeOK
  <2> QED
    BY <1>1, <2>1, <2>2, <2>3 DEF Age, Silence
<1>6. ctx'[h] = "live"
  BY <1>3, <1>5 DEF SysTick, OverwriteStacks, TypeOK
<1>7. CASE current = Idle
  <2>1. pendsv' = TRUE
    BY <1>7 DEF SysTick, UseQuantum
  <2>2. state[h] \in Runnable /\ Age(h) = 0
    BY <1>1, <1>7 DEF HealthyInv
  <2>3. state'[h] \in Runnable
    BY <2>2 DEF SysTick, Runnable
  <2>4. ~Asleep(h)
    BY <2>2 DEF Runnable, Asleep
  <2>5. Age(h)' = 1
    BY <1>5, <2>2, <2>4
  <2> QED
    BY <1>1, <1>3, <1>6, <1>7, <2>1, <2>3, <2>5 DEF HealthyInv
<1>8. CASE current = h
  <2>1. ~Stalled(h) /\ Age(h) < SilenceBound /\ Age(h)' = IF Asleep(h) THEN 0 ELSE Age(h) + 1
    BY <1>5, <1>8
  <2>2. Remaining = left - 1
    BY <1>8, <2>1 DEF Remaining
  <2>3. left < Quantum => Age(h) = 0
    BY <1>1, <1>2, <1>3, <1>8 DEF HasBeaten, Healthy, Age, Minus, TypeOK
  <2>4. OnCore(h)'
    <3>1. CASE left > 1
      <4>1. left' = left - 1 /\ pendsv' = FALSE
        BY <1>2, <1>3, <1>8, <2>2, <3>1 DEF SysTick, UseQuantum
      <4>2. Age(h)' < SilenceBound \/ (left' < Quantum /\ Age(h)' = SilenceBound)
        BY <1>2, <1>4, <2>1, <4>1
      <4> QED
        BY <4>1, <4>2 DEF OnCore
    <3>2. CASE left = 1
      <4>1. Age(h)' <= 1
        BY <1>2, <2>1, <2>3, <3>2 DEF Patient
      <4> QED
        BY <1>2, <1>4, <4>1 DEF OnCore
    <3> QED
      BY <1>2, <3>1, <3>2
  <2> QED
    BY <1>1, <1>3, <1>6, <1>8, <2>4 DEF HealthyInv
<1>9. ASSUME current \notin {Idle, h}, state'[h] \in Runnable
      PROVE  Waiting(h)'
  <2>1. CASE state[h] \notin Runnable
    <3>1. last_seen'[h] = Now
      BY <1>9, <2>1 DEF SysTick, Runnable, Expired, Refreshed
    <3>2. Age(h)' = 0
      BY <1>1, <3>1, NowType DEF Age, Minus, TypeOK
    <3>3. (TypeOK /\ current \notin {Idle, h} /\ Age(h) = 0 => Waiting(h))'
      BY FreshWaits, PTL
    <3> QED
      BY <1>1, <1>9, <3>2, <3>3
  <2>2. CASE state[h] \in Runnable
    <3>1. TurnLeft \in Nat /\ Age(h) + TurnLeft < SilenceBound /\ Waiting(h)
      BY <1>1, <1>9, <2>2, WaitingIsShort DEF HealthyInv
    <3>2. (IF pendsv' THEN 0 ELSE TurnLeft') + 1 <= TurnLeft /\ TurnLeft' \in Int
      <4>1. TurnLeft < Timeout
        BY <1>2, <1>4, <3>1
      <4> QED
        BY <1>9, <4>1, TurnGoesOn
    <3>3. Distance(h)' = Distance(h) /\ Age(h)' = Age(h) + 1
      BY <1>1, <1>5, <2>2 DEF Distance, Asleep, Runnable
    <3> DEFINE W == (NumTasks - Distance(h)) * LongestTurn  r == IF pendsv' THEN 0 ELSE TurnLeft'
    <3>4. W \in Int
      BY <1>9, BoundType, SchedulerAssumption DEF Distance, TypeOK, Tasks, Idle
    <3>5. W' = W
      BY <3>3
    <3>6. Age(h) + TurnLeft <= 1 + W
      BY <1>1, <3>1 DEF Waiting
    <3>7. r + 1 <= TurnLeft /\ r \in Int
      BY <3>2
    <3> HIDE DEF W, r
    <3>8. Age(h)' + r <= 1 + W
      BY <1>2, <3>1, <3>3, <3>4, <3>6, <3>7
    <3> QED
      BY <3>5, <3>8 DEF Waiting, W, r
  <2> QED
    BY <2>1, <2>2
<1> QED
  BY <1>1, <1>3, <1>6, <1>7, <1>8, <1>9 DEF HealthyInv

(***************************************************************************)
(* A context switch: while the healthy task is runnable there is a READY   *)
(* task, and it is this one or one that leaves fewer places before it.     *)
(***************************************************************************)
LEMMA HealthySwitch ==
    ASSUME TypeOK, OneRunning, Patient, NEW h \in Tasks, HealthyInv(h), PendSV
    PROVE  HealthyInv(h)'
<1>1. state[h] \in Runnable => Released[h] = "READY"
  BY DEF Released, OneRunning, Runnable
<1>2. ticks' = ticks /\ last_seen' = last_seen /\ pendsv /\ pendsv' = FALSE
  BY DEF PendSV, KeepContext, Dispatch
<1>3. Age(h)' = Age(h) /\ Age(h) \in Nat
  BY <1>2, AgeType DEF Age
<1>4. ctx'[h] = "live"
  BY DEF PendSV, KeepContext, Dispatch, HealthyInv, TypeOK
<1>5. LongestTurn \in Nat /\ SilenceBound \in Nat /\ SilenceBound >= 2 /\ Quantum \in Nat \ {0}
  BY BoundType, SchedulerAssumption
<1>6. CASE KeepContext
  <2>1. state[h] \notin Runnable /\ current' = current /\ state' = state /\ left' = left
    BY <1>1, <1>6 DEF KeepContext
  <2>2. current = h => OnCore(h)'
    BY <1>3, <2>1 DEF HealthyInv, OnCore
  <2> QED
    BY <1>4, <2>1, <2>2 DEF HealthyInv
<1>7. ASSUME NEW t \in Tasks, Dispatch(t)
      PROVE  HealthyInv(h)'
  <2>1. FirstReady(t) /\ current' = t /\ left' = Quantum /\ t # Idle /\ h # Idle
    BY <1>7, SchedulerAssumption DEF Dispatch, Tasks, Idle
  <2>2. state'[h] \in Runnable => state[h] \in Runnable
    BY <1>7 DEF Dispatch, FirstReady, Released, Runnable, TypeOK
  <2>3. state[h] \in Runnable /\ current \in {Idle, h} => Age(h) <= 1
    BY <1>2 DEF HealthyInv, OnCore
  <2>4. CASE t = h
    <3>1. state[h] \in Runnable
      BY <2>1, <2>4 DEF FirstReady, Released, Runnable
    <3>2. Age(h) < SilenceBound
      <4>1. CASE current \notin {Idle, h}
        BY <1>2, <1>3, <3>1, <4>1, WaitingIsShort DEF HealthyInv
      <4> QED
        BY <1>3, <1>5, <2>3, <3>1, <4>1
    <3>3. OnCore(h)'
      BY <1>2, <1>3, <3>2 DEF OnCore
    <3> QED
      BY <1>4, <2>1, <2>4, <3>3 DEF HealthyInv
  <2>5. ASSUME t # h, state'[h] \in Runnable
        PROVE  Waiting(h)'
    <3> DEFINE d == IF h > t THEN h - t ELSE h - t + NumTasks
    <3>1. d \in 1 .. NumTasks - 1 /\ Distance(h)' = d /\ NumTasks \in Nat
      BY <2>1, <2>5, SchedulerAssumption DEF Distance, Tasks
    <3>2. TurnLeft' <= LongestTurn /\ TurnLeft' \in Int
      <4>1. TurnLeft' = IF state'[t] = "DORMANT" \/ Age(t)' + Quantum <= Timeout THEN Quantum ELSE Quantum + Quantum - 1
        BY <2>1 DEF TurnLeft
      <4> QED
        BY <1>5, <4>1 DEF LongestTurn
    <3>3. Age(h) + LongestTurn <= 1 + (NumTasks - d) * LongestTurn
      <4> DEFINE b == NumTasks - d  K == LongestTurn
      <4>1. b \in Nat /\ 0 < b /\ b * K \in Int /\ K \in Nat
        BY <1>5, <3>1
      <4>2. CASE current \in {Idle, h}
        <5>1. Age(h) <= 1
          BY <2>2, <2>3, <2>5, <4>2
        <5> HIDE DEF b, K
        <5>2. 0 * K + K <= b * K
          BY <4>1, Turns
        <5>3. Age(h) + K <= 1 + b * K
          BY <1>3, <4>1, <5>1, <5>2
        <5> QED
          BY <5>3 DEF b, K
      <4>3. CASE current \notin {Idle, h}
        <5> DEFINE a == NumTasks - Distance(h)
        <5>1. Distance(h) \in 1 .. NumTasks - 1 /\ d \in 1 .. Distance(h) - 1
          BY <1>1, <2>1, <2>2, <2>5, <4>3, Nearer
        <5>2. a \in Nat /\ a < b /\ a * K \in Int
          BY <1>5, <3>1, <5>1
        <5>3. Age(h) <= 1 + a * K
          BY <1>2, <1>3, <2>2, <2>5, <4>3, <5>2 DEF HealthyInv, Waiting
        <5> HIDE DEF a, b, K
        <5>4. a * K + K <= b * K
          BY <4>1, <5>2, Turns
        <5>5. Age(h) + K <= 1 + b * K
          BY <1>3, <4>1, <5>2, <5>3, <5>4
        <5> QED
          BY <5>5 DEF b, K
      <4> QED
        BY <4>2, <4>3
    <3> DEFINE w == (NumTasks - d) * LongestTurn
    <3>4. w \in Int /\ Age(h) + LongestTurn <= 1 + w
      BY <1>5, <3>1, <3>3
    <3>5. Waiting(h)' <=> Age(h)' + TurnLeft' <= 1 + w
      BY <1>2, <3>1 DEF Waiting
    <3> HIDE DEF d, w
    <3>6. Age(h)' + TurnLeft' <= 1 + w
      BY <1>3, <1>5, <3>2, <3>4
    <3> QED
      BY <3>5, <3>6
  <2> QED
    BY <1>4, <2>1, <2>4, <2>5 DEF HealthyInv
<1> QED
  BY <1>6, <1>7 DEF PendSV

(***************************************************************************)
(* Whatever the executing task does.                                       *)
(***************************************************************************)
LEMMA HealthyCall ==
    ASSUME TypeOK, Patient, NEW h \in Tasks, h \in Healthy, HealthyInv(h), NEW t \in Tasks, Step(t)
    PROVE  HealthyInv(h)'
<1>1. current = t /\ ~pendsv /\ current' = current /\ left' = left /\ ticks' = ticks
  BY DEF Step, Heartbeat, Sleeps, Sleep, Exits, TaskExit, HardFault, Hang, YieldCore, Calls, Executing
<1>2. t # Idle /\ h # Idle /\ ctx[h] = "live"
  BY SchedulerAssumption DEF Tasks, Idle, HealthyInv
<1>3. ~(t = h /\ (HardFault(t) \/ Hang(t)))
  BY <1>2 DEF HardFault, Hang, Healthy
<1>4. ctx'[h] = "live"
  BY <1>1, <1>2, <1>3 DEF Step, Heartbeat, Sleeps, Sleep, Exits, TaskExit, HardFault, Hang, TypeOK
<1>5. t # h => state'[h] = state[h] /\ last_seen'[h] = last_seen[h]
  BY <1>1 DEF Step, Heartbeat, Sleeps, Sleep, Exits, TaskExit, HardFault, Hang, TypeOK
<1>6. Age(h) \in Nat /\ Age(t) \in Nat /\ left \in 1 .. Quantum /\ Quantum \in Nat
  BY AgeType, SchedulerAssumption DEF TypeOK
<1>7. CASE t = h
  <2>1. Age(h) < SilenceBound \/ (left < Quantum /\ Age(h) = SilenceBound)
    BY <1>1, <1>7 DEF HealthyInv, OnCore
  <2>2. CASE Heartbeat(h)
    <3>1. pendsv' = FALSE /\ last_seen'[h] = ticks
      BY <1>1, <1>7, <2>2 DEF Heartbeat, TypeOK
    <3>2. Age(h)' = 0
      BY <1>1, <3>1 DEF Age, Minus, TypeOK
    <3> QED
      BY <1>1, <1>2, <1>4, <1>7, <3>1, <3>2, BoundType DEF HealthyInv, OnCore
  <2>3. CASE Sleeps(h) \/ Exits(h)
    <3>1. state'[h] \notin Runnable /\ last_seen' = last_seen
      BY <1>1, <1>7, <2>3 DEF Sleeps, Sleep, Exits, TaskExit, TypeOK, Runnable
    <3>2. Age(h)' = Age(h)
      BY <1>1, <3>1 DEF Age
    <3>3. OnCore(h)'
      BY <1>1, <2>1, <3>1, <3>2 DEF OnCore
    <3> QED
      BY <1>1, <1>2, <1>4, <1>7, <3>3 DEF HealthyInv
  <2> QED
    BY <1>3, <1>7, <2>2, <2>3 DEF Step
<1>8. ASSUME t # h, state[h] \in Runnable
      PROVE  Waiting(h)'
  <2>1. Age(h)' = Age(h) /\ Distance(h)' = Distance(h)
    BY <1>1, <1>5, <1>8 DEF Age, Distance
  <2>2. Waiting(h) /\ TurnLeft \in Nat /\ TurnLeft >= left /\ Age(h) + TurnLeft < SilenceBound
    BY <1>1, <1>2, <1>8, WaitingIsShort DEF HealthyInv
  <2> DEFINE w == (NumTasks - Distance(h)) * LongestTurn  r == IF pendsv' THEN 0 ELSE TurnLeft'
  <2>3. r \in Int /\ r <= TurnLeft
    <3>1. CASE Heartbeat(t)
      <4>1. pendsv' = FALSE /\ last_seen'[t] = ticks /\ state' = state
        BY <1>1, <3>1 DEF Heartbeat, TypeOK
      <4>2. Age(t)' = 0
        BY <1>1, <4>1 DEF Age, Minus, TypeOK
      <4>3. left <= Timeout
        BY <1>6, <2>2, BoundType, SchedulerAssumption DEF Patient
      <4>4. TurnLeft' = left
        BY <1>1, <1>6, <4>2, <4>3 DEF TurnLeft
      <4> QED
        BY <1>6, <2>2, <4>1, <4>4
    <3>2. CASE Hang(t)
      <4>1. UNCHANGED <<state, last_seen, pendsv>>
        BY <3>2 DEF Hang
      <4>2. TurnLeft' = TurnLeft
        BY <1>1, <4>1 DEF Age, TurnLeft
      <4> QED
        BY <1>1, <2>2, <4>1, <4>2
    <3>3. CASE Sleeps(t) \/ Exits(t) \/ HardFault(t)
      <4>1. pendsv' = TRUE
        BY <3>3 DEF Sleeps, Sleep, Exits, TaskExit, HardFault, YieldCore
      <4> QED
        BY <2>2, <4>1
    <3> QED
      BY <3>1, <3>2, <3>3 DEF Step
  <2>4. w \in Int /\ w' = w
    BY <1>1, <2>1, BoundType, SchedulerAssumption DEF Distance, TypeOK, Tasks
  <2>5. Age(h) + TurnLeft <= 1 + w
    BY <1>1, <2>2 DEF Waiting
  <2> HIDE DEF w, r
  <2>6. Age(h)' + r <= 1 + w
    BY <1>6, <2>1, <2>2, <2>3, <2>4, <2>5
  <2> QED
    BY <2>4, <2>6 DEF Waiting, w, r
<1> QED
  BY <1>1, <1>2, <1>4, <1>5, <1>7, <1>8 DEF HealthyInv

(***************************************************************************)
(* The inductive invariant of a healthy task: wherever the core is, the    *)
(* search of schedule() comes to it within the turns of the others, and    *)
(* it executes only on a live context.                                     *)
(***************************************************************************)
THEOREM HealthyInvariant ==
    ASSUME Patient
    PROVE  Spec => []AllHealthy
<1>1. Init => AllHealthy
  <2> SUFFICES ASSUME Init, NEW h \in Healthy
               PROVE  HealthyInv(h)
    BY DEF AllHealthy
  <2>1. h \in Tasks /\ h # Idle /\ Age(h) = 0
    BY SchedulerAssumption DEF Init, Age, Minus, Healthy, Tasks, Idle
  <2> QED
    BY <2>1 DEF Init, HealthyInv, Runnable
<1>2. TypeOK /\ TypeOK' /\ OneRunning /\ AllHealthy /\ [Next]_schedVars => AllHealthy'
  <2> SUFFICES ASSUME TypeOK, TypeOK', OneRunning, AllHealthy, [Next]_schedVars, NEW h \in Healthy
               PROVE  HealthyInv(h)'
    BY DEF AllHealthy
  <2> h \in Tasks /\ HealthyInv(h)
    BY SchedulerAssumption DEF AllHealthy, Healthy
  <2>1. CASE SysTick
    BY <2>1, HealthyTick
  <2>2. CASE PendSV
    BY <2>2, HealthySwitch
  <2>3. ASSUME NEW t \in Tasks, Step(t)
        PROVE  HealthyInv(h)'
    BY <2>3, HealthyCall
  <2>4. CASE UNCHANGED schedVars
    BY <2>4 DEF schedVars, HealthyInv, OnCore, Waiting, Age, Distance, TurnLeft
  <2> QED
    BY <2>1, <2>2, <2>3, <2>4 DEF Next
<1> QED
  BY <1>1, <1>2, TypeCorrect, OneRunningHolds, PTL DEF Spec

(***************************************************************************)
(* isr_systick never sees a healthy runnable task silent for longer than   *)
(* the turns of all the others.                                            *)
(***************************************************************************)
THEOREM BoundedSilenceHolds ==
    ASSUME Patient
    PROVE  Spec => []BoundedSilence
<1>1. TypeOK /\ AllHealthy => BoundedSilence
  <2> SUFFICES ASSUME TypeOK, AllHealthy, NEW h \in Healthy, state[h] \in Runnable
               PROVE  Age(h) <= SilenceBound
    BY DEF BoundedSilence
  <2> h \in Tasks /\ HealthyInv(h)
    BY SchedulerAssumption DEF AllHealthy, Healthy
  <2>1. SilenceBound \in Nat /\ SilenceBound >= 2 /\ Age(h) \in Nat
    BY AgeType, BoundType
  <2>2. CASE current \in {Idle, h}
    BY <2>1, <2>2 DEF HealthyInv, OnCore
  <2>3. CASE current \notin {Idle, h}
    <3>1. TurnLeft \in Nat /\ Age(h) + (IF pendsv THEN 0 ELSE TurnLeft) < SilenceBound
      BY <2>3, WaitingIsShort DEF HealthyInv
    <3> QED
      BY <2>1, <3>1
  <2> QED
    BY <2>2, <2>3
<1> QED
  BY <1>1, TypeCorrect, HealthyInvariant, PTL

(***************************************************************************)
(* The watchdog restarts a healthy task only out of a sleep whose          *)
(* wake_tick came out as the reserved value 0.                             *)
(***************************************************************************)
THEOREM HealthyNeverRestartedHolds ==
    ASSUME Patient
    PROVE  Spec => HealthyNeverRestarted
<1>1. TypeOK /\ AllHealthy /\ Next => \A t \in Healthy : Restarted(t) => SleptIntoZero(t)
  <2> SUFFICES ASSUME TypeOK, AllHealthy, Next, NEW h \in Healthy, Restarted(h)
               PROVE  SleptIntoZero(h)
    OBVIOUS
  <2> h \in Tasks /\ HealthyInv(h)
    BY SchedulerAssumption DEF AllHealthy, Healthy
  <2>1. CASE SysTick
    <3>1. Stalled(h)
      BY <2>1 DEF SysTick, Restarted
    <3>2. state[h] \notin Runnable
      BY <2>1, <3>1, HealthyNotStalled DEF SysTick
    <3> QED
      BY <3>1, <3>2 DEF Stalled, Asleep, SleptIntoZero, Runnable, TypeOK, States
  <2>2. CASE PendSV
    BY <2>2 DEF PendSV, KeepContext, Dispatch, Saved, Restarted
  <2>3. ASSUME NEW t \in Tasks, Step(t)
        PROVE  FALSE
    BY <2>3 DEF Step, Heartbeat, Sleeps, Sleep, Exits, TaskExit, HardFault, Hang, YieldCore, Restarted
  <2> QED
    BY <2>1, <2>2, <2>3 DEF Next
<1> QED
  BY <1>1, TypeCorrect, HealthyInvariant, PTL DEF Spec, HealthyNeverRestarted, Restarted, SleptIntoZero

-----------------------------------------------------------------------------
(* The healthy task that never sleeps or exits: irrigation_update_task on  *)
(* Core 1.  schedule() always finds a READY task there, and no task that   *)
(* is not runnable goes on executing.                                      *)

Spinner(s) == s \in Healthy \ (Sleepers \cup Exiters)

(***************************************************************************)
(* The spinner stays runnable.                                             *)
(***************************************************************************)
THEOREM SpinnerRunnable ==
    ASSUME NEW s \in Tasks, Spinner(s), Patient
    PROVE  Spec => [](state[s] \in Runnable)
<1> USE DEF Runnable
<1>1. Init => state[s] \in Runnable
  BY DEF Init
<1>2. TypeOK /\ AllHealthy /\ state[s] \in Runnable /\ [Next]_schedVars => (state[s] \in Runnable)'
  <2> SUFFICES ASSUME TypeOK, AllHealthy, state[s] \in Runnable, [Next]_schedVars
               PROVE  state'[s] \in Runnable
    OBVIOUS
  <2>1. CASE SysTick
    BY <2>1 DEF SysTick
  <2>2. CASE PendSV
    BY <2>2 DEF PendSV, KeepContext, Dispatch, Released, TypeOK
  <2>3. ASSUME NEW t \in Tasks, Step(t)
        PROVE  state'[s] \in Runnable
    <3>1. ~(t = s /\ (Sleeps(t) \/ Exits(t) \/ HardFault(t)))
      BY DEF Sleeps, Exits, HardFault, Spinner, Healthy, AllHealthy, HealthyInv
    <3> QED
      BY <2>3, <3>1 DEF Step, Heartbeat, Sleeps, Sleep, Exits, TaskExit, HardFault, Hang, Calls, Executing, TypeOK
  <2>4. CASE UNCHANGED schedVars
    BY <2>4 DEF schedVars
  <2> QED
    BY <2>1, <2>2, <2>3, <2>4 DEF Next
<1> QED
  BY <1>1, <1>2, TypeCorrect, HealthyInvariant, PTL DEF Spec

(***************************************************************************)
(* On a core with a spinner, a task that is blocked, has exited or has     *)
(* faulted does not execute: k_task_sleep suspends its caller.             *)
(***************************************************************************)
THEOREM OnlyRunnableExecutesHolds ==
    ASSUME NEW s \in Tasks, Spinner(s), Patient
    PROVE  Spec => []OnlyRunnableExecutes
<1> USE DEF Runnable
<1>1. Init => OnlyRunnableExecutes
  BY DEF Init, OnlyRunnableExecutes
<1>2. /\ TypeOK /\ OneRunning /\ state[s] \in Runnable /\ OnlyRunnableExecutes /\ [Next]_schedVars
      => OnlyRunnableExecutes'
  <2> SUFFICES ASSUME TypeOK, OneRunning, state[s] \in Runnable, OnlyRunnableExecutes, [Next]_schedVars
               PROVE  OnlyRunnableExecutes'
    OBVIOUS
  <2>1. CASE SysTick
    BY <2>1 DEF SysTick, OnlyRunnableExecutes, TypeOK
  <2>2. CASE PendSV
    <3>1. Released[s] = "READY"
      BY DEF Released, OneRunning
    <3>2. PICK t \in Tasks : Dispatch(t)
      BY <2>2, <3>1 DEF PendSV, KeepContext
    <3> QED
      BY <3>2 DEF Dispatch, Released, TypeOK, OnlyRunnableExecutes
  <2>3. ASSUME NEW t \in Tasks, Step(t)
        PROVE  OnlyRunnableExecutes'
    BY <2>3 DEF Step, Heartbeat, Sleeps, Sleep, Exits, TaskExit, HardFault, Hang, YieldCore,
                OnlyRunnableExecutes, TypeOK
  <2>4. CASE UNCHANGED schedVars
    BY <2>4 DEF schedVars, OnlyRunnableExecutes
  <2> QED
    BY <2>1, <2>2, <2>3, <2>4 DEF Next
<1> QED
  BY <1>1, <1>2, TypeCorrect, OneRunningHolds, SpinnerRunnable, PTL DEF Spec

(***************************************************************************)
(* The watchdog never restarts the spinner, however often the other tasks  *)
(* sleep, hang or are restarted themselves.                                *)
(***************************************************************************)
THEOREM SpinnerNeverRestarted ==
    ASSUME NEW s \in Tasks, Spinner(s), Patient
    PROVE  Spec => [][~Restarted(s)]_schedVars
<1>1. state[s] \in Runnable /\ (\A t \in Healthy : Restarted(t) => SleptIntoZero(t)) => ~Restarted(s)
  BY DEF Spinner, Runnable, SleptIntoZero
<1> QED
  BY <1>1, HealthyNeverRestartedHolds, SpinnerRunnable, PTL DEF HealthyNeverRestarted, Restarted, SleptIntoZero
=============================================================================
