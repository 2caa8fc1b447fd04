-------------------------- MODULE IrrigationProofs --------------------------
(***************************************************************************)
(* For all time limits, sleeps, queue sizes and debounce windows: the type *)
(* of the irrigation, the pump's time limit, that no request is lost, and  *)
(* that the whole implements PumpService.                                  *)
(***************************************************************************)
EXTENDS Irrigation, MessageQueueProofs

USE IrrigationAssumption

(***************************************************************************)
(* The clocks that are capped stay below their cap.                        *)
(***************************************************************************)
LEMMA LeastBound == ASSUME NEW a \in Nat, NEW b \in Nat
                    PROVE  Least(a, b) \in 0 .. b
  BY DEF Least

-----------------------------------------------------------------------------
(***************************************************************************)
(* The variables that are not the queue's.                                 *)
(***************************************************************************)
TypeRest ==
    /\ requested \in BOOLEAN /\ pumping \in BOOLEAN
    /\ running \in 0 .. BeyondTimeout /\ elapsed \in 0 .. BeyondTimeout
    /\ upd \in {"top", "on", "start", "clear", "stamp", "check", "off"}
    /\ task \in {"poll", "wait", "request", "doze", "asleep", "drain"}
    /\ pump_sem \in 0 .. 1
    /\ nap \in 0 .. CycleSleep
    /\ reading \in {SOIL_DRY, SOIL_WET, "none"}
    /\ rest \in 0 .. SensorSleep
    /\ since \in 0 .. Debounce
    /\ spike \in BOOLEAN /\ served \in BOOLEAN
    /\ beaten \subseteq {"update", "irrigation", "sensor"}

(***************************************************************************)
(* Every time limit is at least 0.                                         *)
(***************************************************************************)
LEMMA TypeRestInit == IrrInit => TypeRest
  <1>1. /\ 0 \in 0 .. BeyondTimeout /\ 0 \in 0 .. CycleSleep /\ 0 \in 0 .. SensorSleep
        /\ Debounce \in 0 .. Debounce /\ 1 \in 0 .. 1
    BY DEF BeyondTimeout
  <1>2. {} \subseteq {"update", "irrigation", "sensor"} OBVIOUS
  <1> QED BY <1>1, <1>2, Zenon DEF IrrInit, TypeRest

(***************************************************************************)
(* The interrupt leaves last_irq_time at a time that has been.             *)
(***************************************************************************)
LEMMA TriggerType == ASSUME TypeRest, Trigger PROVE since' \in 0 .. Debounce
  BY DEF TypeRest, Trigger

(***************************************************************************)
(* These types are inductive by themselves.                                *)
(***************************************************************************)
LEMMA TypeRestStep == TypeRest /\ [IrrNext]_irrVars => TypeRest'
  <1> SUFFICES ASSUME TypeRest, [IrrNext]_irrVars PROVE TypeRest'
    OBVIOUS
  <1> USE DEF TypeRest, updateVars, taskVars, sensorVars
  <1>0. 0 \in 0 .. BeyondTimeout /\ 0 \in 0 .. CycleSleep /\ 0 \in 0 .. SensorSleep
    BY DEF BeyondTimeout
  <1>1. CASE UpdateLoop BY <1>1 DEF UpdateLoop
  <1>2. CASE SwitchOn BY <1>0, <1>2 DEF SwitchOn
  <1>3. CASE StartClock BY <1>0, <1>3 DEF StartClock
  <1>4. CASE ClearRequest BY <1>4 DEF ClearRequest
  <1>5. CASE StampIrq
    <2>1. Least(BootOffset, Debounce) \in 0 .. Debounce BY LeastBound
    <2> QED BY <1>5, <2>1 DEF StampIrq
  <1>6. CASE CheckPump BY <1>6 DEF CheckPump
  <1>7. CASE SwitchOff BY <1>0, <1>7 DEF SwitchOff
  <1>8. CASE Poll BY <1>8 DEF Poll
  <1>9. CASE WaitPump BY <1>9 DEF WaitPump, Beat
  <1>10. CASE RequestWater BY <1>10 DEF RequestWater
  <1>11. CASE FallAsleep BY <1>11 DEF FallAsleep
  <1>12. CASE FinishCycle BY <1>12 DEF FinishCycle, Beat, Posted
  <1>13. CASE DrainQueue BY <1>13 DEF DrainQueue
  <1>14. CASE ReportSoil
    <2>1. PICK r \in IF reading = "none" THEN {SOIL_DRY, SOIL_WET} ELSE {reading} :
            IF pc'["sensor"] = "idle"
            THEN reading' = "none" /\ rest' = SensorSleep
            ELSE reading' = r /\ UNCHANGED rest
      BY <1>14 DEF ReportSoil
    <2>2. r \in {SOIL_DRY, SOIL_WET, "none"} OBVIOUS
    <2>3. SensorSleep \in 0 .. SensorSleep OBVIOUS
    <2>4. reading' \in {SOIL_DRY, SOIL_WET, "none"} /\ rest' \in 0 .. SensorSleep
      BY <2>1, <2>2, <2>3
    <2>5. beaten' \subseteq {"update", "irrigation", "sensor"}
      BY <1>14 DEF ReportSoil, Beat
    <2> QED BY <1>14, <2>4, <2>5 DEF ReportSoil
  <1>15. CASE Press BY <1>15, TriggerType DEF Press
  <1>16. CASE RelaySpike BY <1>16, TriggerType DEF RelaySpike
  <1>17. CASE Tick
    <2>1. since' \in 0 .. Debounce BY <1>17, LeastBound DEF Tick
    <2>2. running + 1 \in Nat /\ elapsed + 1 \in Nat /\ BeyondTimeout \in Nat
      BY DEF BeyondTimeout
    <2>3. running' \in 0 .. BeyondTimeout /\ elapsed' \in 0 .. BeyondTimeout
      BY <1>0, <1>17, <2>2, LeastBound DEF Tick
    <2>4. nap' \in 0 .. CycleSleep /\ rest' \in 0 .. SensorSleep BY <1>17 DEF Tick
    <2> QED BY <1>17, <2>1, <2>3, <2>4 DEF Tick
  <1>18. CASE UNCHANGED irrVars BY <1>18 DEF irrVars
  <1> QED
    BY <1>1, <1>2, <1>3, <1>4, <1>5, <1>6, <1>7, <1>8, <1>9, <1>10, <1>11, <1>12,
       <1>13, <1>14, <1>15, <1>16, <1>17, <1>18
    DEF IrrNext, Update, IrrigationTask, SensorTask

(***************************************************************************)
(* The queue's share of the type is inductive only with what its clients   *)
(* are about to do; irrigation_queue has an interrupt among its senders.   *)
(***************************************************************************)
QueueInv == OneSender("sensor", 1)

(***************************************************************************)
(* sensor_task and irrigation_task use the queue as MessageQueue has it,   *)
(* and Press and RelaySpike send to it from the interrupt.                 *)
(***************************************************************************)
LEMMA QueueInvStep == TypeRest /\ QueueInv /\ [IrrNext]_irrVars => QueueInv'
  <1> SUFFICES ASSUME TypeRest, QueueInv, [IrrNext]_irrVars PROVE QueueInv'
    OBVIOUS
  <1> USE DEF QueueInv
  <1>1. CASE Poll \/ DrainQueue
    BY <1>1, ReceivingKeeps DEF Poll, DrainQueue
  <1>2. CASE ReportSoil
    <2>1. PICK r \in Messages : Sending("sensor", r) BY <1>2 DEF ReportSoil, TypeRest
    <2> QED BY <2>1, SendingKeeps
  <1>3. CASE Trigger
    <2>1. CASE TooSoon BY <1>3, <2>1, OneSenderStutter DEF Trigger
    <2>2. CASE ~TooSoon BY <1>3, <2>2, IsrKeeps DEF Trigger
    <2> QED BY <2>1, <2>2
  <1>4. CASE UNCHANGED queueVars BY <1>4, OneSenderStutter
  <1>5. CASE Update
    BY <1>4, <1>5 DEF Update, UpdateLoop, SwitchOn, StartClock, ClearRequest, StampIrq,
                      CheckPump, SwitchOff
  <1>6. CASE WaitPump \/ RequestWater \/ FallAsleep \/ FinishCycle
    BY <1>4, <1>6 DEF WaitPump, RequestWater, FallAsleep, FinishCycle
  <1>7. CASE Press \/ RelaySpike BY <1>3, <1>7 DEF Press, RelaySpike
  <1>8. CASE Tick BY <1>4, <1>8 DEF Tick
  <1>9. CASE UNCHANGED irrVars BY <1>4, <1>9 DEF irrVars
  <1> QED
    BY <1>1, <1>2, <1>5, <1>6, <1>7, <1>8, <1>9 DEF IrrNext, IrrigationTask, SensorTask

(***************************************************************************)
(* Together they are the type invariant.                                   *)
(***************************************************************************)
LEMMA TypeParts == TypeRest /\ QueueInv => IrrTypeOK
  BY QueueAssumption DEF TypeRest, QueueInv, OneSender, IrrTypeOK

(***************************************************************************)
(* Every variable stays in its type.  The sleeps count down to 0 and stop, *)
(* and count exceeds QUEUE_SIZE by one message at most, although press and *)
(* report may both have found the last free slot.                          *)
(***************************************************************************)
THEOREM IrrTypeCorrect == IrrSpec => []IrrTypeOK
  <1>1. IrrInit => TypeRest BY TypeRestInit
  <1>2. IrrInit => QueueInv
    BY OneSenderInit DEF IrrInit, QueueInv
  <1> QED BY <1>1, <1>2, TypeRestStep, QueueInvStep, TypeParts, PTL DEF IrrSpec

-----------------------------------------------------------------------------
(***************************************************************************)
(* What irrigation_manager_update knows at each access, and the two periods*)
(* it may be late: the one in which the limit has passed unnoticed, and the*)
(* one in which it is preempted before the relay opens.                    *)
(***************************************************************************)
Beaten == "update" \in beaten

Overdue ==
    \/ elapsed = PumpTimeout + 1 /\ (Beaten => upd \in {"check", "off"})
    \/ elapsed = PumpTimeout + 2 /\ ~Beaten /\ upd \in {"check", "off"}

PumpInv ==
    /\ upd \in {"start", "clear", "check", "off"} => pumping
    /\ upd = "on" => requested /\ ~pumping
    /\ ~pumping => elapsed = 0 /\ running = 0
    /\ upd = "start" => elapsed = 0 /\ running \in {0, 1} /\ (running = 1 => ~Beaten)
    /\ pumping /\ upd # "start" => running \in {elapsed, elapsed + 1}
    /\ upd = "off" => elapsed >= PumpMin
    /\ elapsed > PumpTimeout => Overdue

(***************************************************************************)
(* At boot the pump is off and nothing is on its way.                      *)
(***************************************************************************)
LEMMA PumpInvInit == IrrInit => PumpInv
  BY DEF IrrInit, PumpInv, Overdue

(***************************************************************************)
(* Only the update task and the clock can disturb it: the other tasks set  *)
(* the request flag and reach heartbeats of their own.                     *)
(***************************************************************************)
LEMMA PumpInvStep == TypeRest /\ PumpInv /\ [IrrNext]_irrVars => PumpInv'
  <1> SUFFICES ASSUME TypeRest, PumpInv, [IrrNext]_irrVars PROVE PumpInv'
    OBVIOUS
  <1> USE DEF PumpInv, Overdue, Beaten
  <1>0. elapsed \in Nat /\ running \in Nat BY DEF TypeRest, BeyondTimeout
  <1>1. CASE UpdateLoop BY <1>0, <1>1 DEF UpdateLoop, Starts
  <1>2. CASE SwitchOn BY <1>0, <1>2 DEF SwitchOn
  <1>3. CASE StartClock BY <1>0, <1>3 DEF StartClock
  <1>4. CASE ClearRequest BY <1>0, <1>4 DEF ClearRequest
  <1>5. CASE StampIrq BY <1>0, <1>5 DEF StampIrq
  <1>6. CASE CheckPump BY <1>0, <1>6 DEF CheckPump, TooYoung, TimedOut
  <1>7. CASE SwitchOff BY <1>0, <1>7 DEF SwitchOff
  <1>8. CASE Tick
    <2>1. Beaten /\ ~Beaten' BY <1>8 DEF Tick, Awake
    <2>2. upd' = upd /\ pumping' = pumping /\ requested' = requested
      BY <1>8 DEF Tick
    <2>3. CASE ~pumping BY <1>0, <1>8, <2>1, <2>2, <2>3 DEF Tick
    <2>4. CASE upd = "start"
      <3>1. elapsed' = 0 /\ running' = 1
        BY <1>8, <2>1, <2>4 DEF Tick, Least, BeyondTimeout
      <3> QED BY <2>1, <2>2, <2>4, <3>1
    <2>5. CASE pumping /\ upd # "start"
      <3>1. elapsed <= PumpTimeout + 1 BY <1>0, <2>1
      <3>2. elapsed' = elapsed + 1 /\ running' = running + 1
        BY <1>0, <1>8, <2>5, <3>1 DEF Tick, Least, BeyondTimeout
      <3> QED BY <1>0, <2>1, <2>2, <2>5, <3>1, <3>2
    <2> QED BY <2>3, <2>4, <2>5
  <1>9. CASE UNCHANGED updateVars /\ requested' \in {requested, TRUE} /\ (Beaten' = Beaten)
    BY <1>0, <1>9 DEF updateVars
  <1>10. CASE IrrigationTask
    BY <1>9, <1>10 DEF IrrigationTask, Poll, WaitPump, RequestWater, FallAsleep,
                       FinishCycle, DrainQueue, Beat, updateVars
  <1>11. CASE SensorTask
    BY <1>9, <1>11 DEF SensorTask, ReportSoil, Beat
  <1>12. CASE Press BY <1>9, <1>12 DEF Press
  <1>13. CASE RelaySpike BY <1>0, <1>13 DEF RelaySpike
  <1>14. CASE UNCHANGED irrVars BY <1>9, <1>14 DEF irrVars, updateVars
  <1> QED
    BY <1>1, <1>2, <1>3, <1>4, <1>5, <1>6, <1>7, <1>8, <1>10, <1>11, <1>12, <1>13, <1>14
    DEF IrrNext, Update

(***************************************************************************)
(* The pin has been on for at most one period more than the clock says.    *)
(***************************************************************************)
LEMMA PumpInvBounds == TypeRest /\ PumpInv => PumpBounded
  BY DEF TypeRest, PumpInv, Overdue, BeyondTimeout, PumpBounded

(***************************************************************************)
(* The relay opens within PUMP_TIMEOUT_TICKS and three periods of closing, *)
(* for every limit and wherever irrigation_update_task is preempted.       *)
(***************************************************************************)
THEOREM PumpBoundedHolds == IrrSpec => []PumpBounded
  <1>1. IrrInit => TypeRest /\ PumpInv BY TypeRestInit, PumpInvInit
  <1> QED BY <1>1, TypeRestStep, PumpInvStep, PumpInvBounds, PTL DEF IrrSpec

(***************************************************************************)
(* Whatever becomes of the messages, the application implements            *)
(* PumpService.                                                            *)
(***************************************************************************)
THEOREM ImplementsPumpService == IrrSpec => IsPumpService
  <1>1. IrrInit => Service!ServiceInit
    BY DEF IrrInit, Service!ServiceInit
  <1>2. ASSUME TypeRest, PumpInv, PumpBounded', [IrrNext]_irrVars
        PROVE  [Service!ServiceNext]_(Service!serviceVars)
    <2> USE <1>2 DEF PumpInv, Service!serviceVars, Service!ServiceNext
    <2>0. elapsed \in Nat /\ running \in Nat BY DEF TypeRest, BeyondTimeout
    <2>1. CASE SwitchOn BY <2>0, <2>1 DEF SwitchOn, Service!Start
    <2>2. CASE ClearRequest BY <2>0, <2>2 DEF ClearRequest, Service!TakeOff
    <2>3. CASE SwitchOff
      <3>1. pumping /\ elapsed >= PumpMin /\ running \in {elapsed, elapsed + 1}
        BY <2>3 DEF SwitchOff
      <3>2. running >= PumpMin BY <2>0, <3>1
      <3> QED BY <2>3, <3>1, <3>2 DEF SwitchOff, Service!Stop
    <2>4. CASE RequestWater BY <2>0, <2>4 DEF RequestWater, Service!Request
    <2>5. CASE Tick
      <3>1. CASE pumping
        <4>1. running' = running + 1 /\ running < PumpTimeout + 3
          BY <2>0, <2>5, <3>1 DEF Tick, Least, BeyondTimeout, PumpBounded
        <4> QED BY <2>5, <3>1, <4>1 DEF Tick, Service!Period
      <3>2. CASE ~pumping BY <2>5, <3>2 DEF Tick
      <3> QED BY <3>1, <3>2
    <2>6. CASE UNCHANGED <<requested, pumping, running>> BY <2>6
    <2>7. CASE UpdateLoop \/ StartClock \/ StampIrq \/ CheckPump
      BY <2>6, <2>7 DEF UpdateLoop, StartClock, StampIrq, CheckPump
    <2>8. CASE Poll \/ WaitPump \/ FallAsleep \/ FinishCycle \/ DrainQueue
      BY <2>6, <2>8 DEF Poll, WaitPump, FallAsleep, FinishCycle, DrainQueue, updateVars
    <2>9. CASE SensorTask \/ Press \/ RelaySpike
      BY <2>6, <2>9 DEF SensorTask, ReportSoil, Press, RelaySpike, updateVars
    <2>10. CASE UNCHANGED irrVars BY <2>6, <2>10 DEF irrVars
    <2> QED
      BY <2>1, <2>2, <2>3, <2>4, <2>5, <2>7, <2>8, <2>9, <2>10
      DEF IrrNext, Update, IrrigationTask
  <1>3. IrrInit => TypeRest /\ PumpInv BY TypeRestInit, PumpInvInit
  <1> QED
    BY <1>1, <1>2, <1>3, TypeRestStep, PumpInvStep, PumpBoundedHolds, PTL
    DEF IrrSpec, IsPumpService, Service!ServiceSpec

-----------------------------------------------------------------------------
(***************************************************************************)
(* A request that has not yet found the pump on: the pump is off and the   *)
(* flag is set, so irrigation_manager_update starts it the next time it    *)
(* comes round, in the period after the next at the latest.                *)
(***************************************************************************)
OnTheWay ==
    \/ task = "doze"
    \/ task = "asleep" /\ nap = CycleSleep
    \/ task = "asleep" /\ nap = CycleSleep - 1 /\ (Beaten => upd = "on")
    \/ task = "asleep" /\ nap = CycleSleep - 2 /\ ~Beaten /\ upd = "on"

ServedInv ==
    ~served => requested /\ ~pumping /\ upd \in {"top", "on", "stamp"} /\ OnTheWay

(***************************************************************************)
(* A request that is made while the pump is off is still set when the      *)
(* update task looks at it: what could clear it comes only after starting  *)
(* the pump.                                                               *)
(***************************************************************************)
LEMMA ServedInvStep == TypeRest /\ PumpInv /\ ServedInv /\ [IrrNext]_irrVars => ServedInv'
  <1> SUFFICES ASSUME TypeRest, PumpInv, ServedInv, [IrrNext]_irrVars, ~served'
               PROVE  (requested /\ ~pumping /\ upd \in {"top", "on", "stamp"} /\ OnTheWay)'
    BY DEF ServedInv
  <1> USE DEF ServedInv, OnTheWay, Beaten
  <1>0. CycleSleep \in Nat /\ CycleSleep >= 4 /\ nap \in Nat BY DEF TypeRest
  <1>1. CASE UpdateLoop BY <1>0, <1>1 DEF UpdateLoop, Starts, taskVars
  <1>2. CASE SwitchOn BY <1>2 DEF SwitchOn
  <1>3. CASE StartClock BY <1>3 DEF StartClock
  <1>4. CASE ClearRequest BY <1>4 DEF ClearRequest
  <1>5. CASE StampIrq BY <1>5 DEF StampIrq, taskVars
  <1>6. CASE CheckPump BY <1>6 DEF CheckPump
  <1>7. CASE SwitchOff BY <1>7 DEF SwitchOff
  <1>8. CASE RequestWater BY <1>8 DEF RequestWater, PumpInv, TypeRest
  <1>9. CASE FallAsleep BY <1>0, <1>9 DEF FallAsleep, updateVars
  <1>10. CASE Poll \/ WaitPump \/ FinishCycle \/ DrainQueue
    BY <1>0, <1>10 DEF Poll, WaitPump, FinishCycle, DrainQueue, updateVars
  <1>11. CASE SensorTask BY <1>0, <1>11 DEF SensorTask, ReportSoil, Beat, updateVars, taskVars
  <1>12. CASE Press \/ RelaySpike
    BY <1>0, <1>12 DEF Press, RelaySpike, updateVars, taskVars
  <1>13. CASE Tick
    <2>1. Beaten /\ ~Beaten' BY <1>13 DEF Tick, Awake
    <2>2. nap' = IF nap = 0 THEN 0 ELSE nap - 1 BY <1>13 DEF Tick
    <2> QED BY <1>0, <1>13, <2>1, <2>2 DEF Tick
  <1>14. CASE UNCHANGED irrVars BY <1>0, <1>14 DEF irrVars, updateVars, taskVars
  <1> QED
    BY <1>1, <1>2, <1>3, <1>4, <1>5, <1>6, <1>7, <1>8, <1>9, <1>10, <1>11, <1>12,
       <1>13, <1>14
    DEF IrrNext, Update, IrrigationTask

(***************************************************************************)
(* No request is lost between the two tasks that write                     *)
(* irrigation_requested without a lock, for every sleep that is longer     *)
(* than the pump's minimum and every interleaving.                         *)
(***************************************************************************)
THEOREM RequestServedHolds == IrrSpec => []RequestServed
  <1>1. IrrInit => TypeRest /\ PumpInv /\ ServedInv
    BY TypeRestInit, PumpInvInit DEF IrrInit, ServedInv
  <1>2. TypeRest /\ ServedInv => RequestServed
    <2> SUFFICES ASSUME TypeRest, ServedInv, ~served
                 PROVE  task = "doze" \/ (task = "asleep" /\ nap >= CycleSleep - 2)
      BY DEF RequestServed
    <2>1. CycleSleep \in Nat /\ OnTheWay BY DEF ServedInv
    <2> QED BY <2>1 DEF OnTheWay
  <1> QED BY <1>1, <1>2, TypeRestStep, PumpInvStep, ServedInvStep, PTL DEF IrrSpec
=============================================================================
