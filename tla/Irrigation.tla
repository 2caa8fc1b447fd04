----------------------------- MODULE Irrigation -----------------------------
(***************************************************************************)
(* The application on Core 1: sensor_task measures the soil and reports to *)
(* irrigation_task, which also hears of the button from the GPIO           *)
(* interrupt, asks for water and sleeps while irrigation_update_task runs  *)
(* the pump.  The tasks are preempted anywhere, so every access to what    *)
(* they share is an action: the request flag, last_irq_time and, as in     *)
(* MessageQueue, irrigation_queue.  The interrupt is atomic to them.       *)
(*                                                                         *)
(* A Tick stands for a period of kernel_ticks in which every task that is  *)
(* awake reaches its heartbeat: Scheduler's SilenceBound, 22 ticks on this *)
(* core, where no task fails.  Outside the program are the soil, which may *)
(* read dry or wet at any time, the finger on the button and the relay,    *)
(* whose switching may look like one.                                      *)
(***************************************************************************)
EXTENDS MessageQueue

CONSTANTS
    PumpMin,        \* PUMP_MIN_TICKS, in periods
    PumpTimeout,    \* PUMP_TIMEOUT_TICKS
    CycleSleep,     \* sys_sleep(4000) of perform_irrigation
    SensorSleep,    \* sys_sleep(5000) of sensor_task
    Debounce,       \* DEBOUNCE_MS
    BootOffset,     \* time since boot when kernel_ticks of Core 1 was 0
    SOIL_DRY, SOIL_WET, MANUAL_TRIGGER

\* main() waits for USB and sleeps 600 ms before Core 1 starts counting.
ASSUME IrrigationAssumption ==
    /\ PumpMin \in Nat /\ PumpTimeout \in Nat /\ PumpMin <= PumpTimeout
    /\ CycleSleep \in Nat /\ CycleSleep >= PumpMin + 4     \* 400 >= 300 + 4 * 22
    /\ SensorSleep \in Nat \ {0}
    /\ Debounce \in Nat \ {0}
    /\ BootOffset \in Nat /\ BootOffset >= Debounce
    /\ Senders = {"sensor"} /\ Receiver = "irrigation"
    /\ Messages = {SOIL_DRY, SOIL_WET, MANUAL_TRIGGER}

VARIABLES
    requested,  \* irrigation_requested
    pumping,    \* pumping, and the level of the pump's pin
    running,    \* periods for which the pin has been on, up to BeyondTimeout
    elapsed,    \* kernel_ticks - pump_start_tick, up to BeyondTimeout
    upd,        \* where irrigation_manager_update is
    task,       \* where irrigation_task is
    pump_sem,   \* irrigation_pump_sem
    nap,        \* what is left of irrigation_task's sleep
    reading,    \* what sensor_task read and has not yet reported
    rest,       \* what is left of sensor_task's sleep
    since,      \* milliseconds since boot minus last_irq_time, up to Debounce
    spike,      \* the relay has just switched and may disturb the button's pin
    beaten,     \* tasks that have reached their heartbeat in this period
    served      \* history: the pump has been on since the last request

irrVars == <<requested, pumping, running, elapsed, upd, task, pump_sem, nap,
             reading, rest, queueVars, since, spike, beaten, served>>
updateVars == <<pumping, running, elapsed, upd, spike, served>>
taskVars == <<task, pump_sem, nap>>
sensorVars == <<reading, rest>>

BeyondTimeout == PumpTimeout + 4

IrrTypeOK ==
    /\ requested \in BOOLEAN /\ pumping \in BOOLEAN
    /\ running \in 0 .. BeyondTimeout /\ elapsed \in 0 .. BeyondTimeout
    /\ upd \in {"top", "on", "start", "clear", "stamp", "check", "off"}
    /\ task \in {"poll", "wait", "request", "doze", "asleep", "drain"}
    /\ pump_sem \in 0 .. 1
    /\ nap \in 0 .. CycleSleep
    /\ reading \in {SOIL_DRY, SOIL_WET, "none"}
    /\ rest \in 0 .. SensorSleep
    /\ buffer \in [Slots -> Messages \cup {None}]
    /\ head \in Slots /\ tail \in Slots /\ count \in 0 .. QueueSize + 1
    /\ pc \in [Clients -> Accesses]
    /\ reg \in [Clients -> 0 .. QueueSize + 1]
    /\ taken \in Messages \cup {None}
    /\ since \in 0 .. Debounce
    /\ spike \in BOOLEAN /\ served \in BOOLEAN
    /\ beaten \subseteq {"update", "irrigation", "sensor"}

Least(a, b) == IF a < b THEN a ELSE b

IrrInit ==
    /\ requested = FALSE /\ pumping = FALSE /\ running = 0 /\ elapsed = 0
    /\ upd = "top" /\ task = "poll" /\ pump_sem = 1 /\ nap = 0
    /\ reading = "none" /\ rest = 0
    /\ QueueInit
    /\ since = Debounce /\ spike = FALSE
    /\ beaten = {} /\ served = TRUE

-----------------------------------------------------------------------------
(* irrigation_update_task: the pump *)

StartsAgain == requested                    \* mutant: without "&& !pumping"
Starts == requested /\ ~pumping

UpdateLoop ==
    /\ upd = "top"
    /\ beaten' = beaten \cup {"update"}
    /\ upd' = IF Starts THEN "on" ELSE IF pumping THEN "check" ELSE "top"
    /\ UNCHANGED <<requested, pumping, running, elapsed, spike, served, taskVars,
                   sensorVars, queueVars, since>>

SwitchOn ==
    /\ upd = "on"
    /\ pumping' = TRUE /\ running' = 0 /\ spike' = TRUE /\ served' = TRUE
    /\ upd' = "start"
    /\ UNCHANGED <<requested, elapsed, taskVars, sensorVars, queueVars, since, beaten>>

StartClock ==
    /\ upd = "start"
    /\ elapsed' = 0
    /\ upd' = "clear"
    /\ UNCHANGED <<requested, pumping, running, spike, served, taskVars,
                   sensorVars, queueVars, since, beaten>>

ClearRequest ==
    /\ upd = "clear"
    /\ requested' = FALSE
    /\ upd' = "stamp"
    /\ UNCHANGED <<pumping, running, elapsed, spike, served, taskVars, sensorVars,
                   queueVars, since, beaten>>

\* Mutant: the request is cleared by whichever stamp comes next.
StampIrqClearing ==
    /\ upd = "stamp"
    /\ requested' = FALSE
    /\ since' = Least(BootOffset, Debounce)
    /\ upd' = IF pumping THEN "check" ELSE "top"
    /\ UNCHANGED <<pumping, running, elapsed, spike, served, taskVars, sensorVars,
                   queueVars, beaten>>

\* last_irq_time becomes a count of Core 1's ticks, which lags behind the time
\* since boot that the interrupt compares it with.
StampIrq ==
    /\ upd = "stamp"
    /\ since' = Least(BootOffset, Debounce)
    /\ upd' = IF pumping THEN "check" ELSE "top"
    /\ UNCHANGED <<requested, pumping, running, elapsed, spike, served, taskVars,
                   sensorVars, queueVars, beaten>>

TooYoungNever == FALSE                      \* mutant: without PUMP_MIN_TICKS
TooYoung == elapsed < PumpMin

TimedOutNever == FALSE                      \* mutant: only the soil ends the cycle
TimedOut == elapsed > PumpTimeout

\* The soil, read last, may be wet or not.
CheckPump ==
    /\ upd = "check"
    /\ upd' \in IF TooYoung THEN {"top"}
                ELSE IF TimedOut THEN {"off"} ELSE {"off", "top"}
    /\ UNCHANGED <<requested, pumping, running, elapsed, spike, served, taskVars,
                   sensorVars, queueVars, since, beaten>>

SwitchOff ==
    /\ upd = "off"
    /\ pumping' = FALSE /\ running' = 0 /\ elapsed' = 0 /\ spike' = TRUE
    /\ upd' = "stamp"
    /\ UNCHANGED <<requested, served, taskVars, sensorVars, queueVars, since, beaten>>

Update == \/ UpdateLoop \/ SwitchOn \/ StartClock \/ ClearRequest \/ StampIrq
          \/ CheckPump \/ SwitchOff

-----------------------------------------------------------------------------
(* irrigation_task *)

Beat(t) == beaten' = beaten \cup {t}

Poll ==
    /\ task = "poll" /\ Receiving
    /\ beaten' = IF pc["irrigation"] = "idle" THEN beaten \cup {"irrigation"} ELSE beaten
    /\ task' = IF Ends("irrigation") /\ taken \in {SOIL_DRY, MANUAL_TRIGGER}
               THEN "wait" ELSE "poll"
    /\ UNCHANGED <<requested, updateVars, pump_sem, nap, sensorVars, since>>

\* The heartbeat that opens perform_irrigation, then sys_sem_wait.
WaitPump ==
    /\ task = "wait" /\ pump_sem = 1
    /\ Beat("irrigation")
    /\ pump_sem' = 0
    /\ task' = "request"
    /\ UNCHANGED <<requested, updateVars, nap, sensorVars, queueVars, since>>

RequestWater ==
    /\ task = "request"
    /\ requested' = TRUE /\ served' = pumping
    /\ task' = "doze"
    /\ UNCHANGED <<pumping, running, elapsed, upd, spike, pump_sem, nap, sensorVars,
                   queueVars, since, beaten>>

FallAsleep ==
    /\ task = "doze"
    /\ nap' = CycleSleep
    /\ task' = "asleep"
    /\ UNCHANGED <<requested, updateVars, pump_sem, sensorVars, queueVars, since, beaten>>

PostForgotten == pump_sem                   \* mutant: no sys_sem_post
Posted == 1

FinishCycle ==
    /\ task = "asleep" /\ nap = 0
    /\ Beat("irrigation")
    /\ pump_sem' = Posted
    /\ task' = "drain"
    /\ UNCHANGED <<requested, updateVars, nap, sensorVars, queueVars, since>>

DrainQueue ==
    /\ task = "drain" /\ Receiving
    /\ task' = IF ~Ends("irrigation") /\ pc'["irrigation"] = "idle" THEN "poll" ELSE "drain"
    /\ UNCHANGED <<requested, updateVars, pump_sem, nap, sensorVars, since, beaten>>

IrrigationTask == \/ Poll \/ WaitPump \/ RequestWater
                  \/ FallAsleep \/ FinishCycle \/ DrainQueue

-----------------------------------------------------------------------------
(* sensor_task and the GPIO interrupt: the two senders *)

ReportSoil ==
    /\ rest = 0
    /\ IF reading = "none" THEN Beat("sensor") ELSE UNCHANGED beaten
    /\ \E r \in IF reading = "none" THEN {SOIL_DRY, SOIL_WET} ELSE {reading} :
         /\ Sending("sensor", r)
         /\ IF pc'["sensor"] = "idle"
            THEN reading' = "none" /\ rest' = SensorSleep
            ELSE reading' = r /\ UNCHANGED rest
    /\ UNCHANGED <<requested, updateVars, taskVars, since>>

SensorTask == ReportSoil

TooSoon == since < Debounce

\* A rising edge for which the three samples read high.
Trigger ==
    IF TooSoon THEN UNCHANGED <<since, queueVars>>
    ELSE since' = 0 /\ SendFromIsr(MANUAL_TRIGGER)

Press ==
    /\ Trigger
    /\ UNCHANGED <<requested, updateVars, taskVars, sensorVars, beaten>>

\* The samples are taken within half a millisecond; a spike may last longer.
RelaySpike ==
    /\ spike /\ spike' = FALSE
    /\ Trigger
    /\ UNCHANGED <<requested, pumping, running, elapsed, upd, served, taskVars,
                   sensorVars, beaten>>

-----------------------------------------------------------------------------
(* Time and the soil *)

Awake == {"update"} \cup (IF nap = 0 THEN {"irrigation"} ELSE {})
                    \cup (IF rest = 0 THEN {"sensor"} ELSE {})

Tick ==
    /\ Awake \subseteq beaten
    /\ beaten' = {} /\ spike' = FALSE
    /\ running' = IF pumping THEN Least(running + 1, BeyondTimeout) ELSE 0
    /\ elapsed' = IF pumping /\ upd # "start" THEN Least(elapsed + 1, BeyondTimeout) ELSE 0
    /\ nap' = IF nap = 0 THEN 0 ELSE nap - 1
    /\ rest' = IF rest = 0 THEN 0 ELSE rest - 1
    /\ since' = Least(since + 1, Debounce)
    /\ UNCHANGED <<requested, pumping, upd, task, pump_sem, reading, queueVars, served>>

IrrNext == \/ Update \/ IrrigationTask \/ SensorTask
           \/ Press \/ RelaySpike \/ Tick

IrrSpec == IrrInit /\ [][IrrNext]_irrVars

\* Round robin gives every task the core again and again (NoStarvation), sleeps
\* end (EverySleepEnds) and time passes.  Nobody has to press the button.
IrrFairness ==
    /\ WF_irrVars(Update) /\ WF_irrVars(IrrigationTask)
    /\ WF_irrVars(SensorTask) /\ WF_irrVars(Tick)

IrrFairSpec == IrrSpec /\ IrrFairness

-----------------------------------------------------------------------------
(* Properties *)

(***************************************************************************)
(* irrigation_manager_update opens the relay again when the pump has been  *)
(* on for PUMP_TIMEOUT_TICKS, although it may be preempted between closing *)
(* it and taking the time, and again between looking at the clock and      *)
(* opening it: one period later for each, and one for coming round.        *)
(***************************************************************************)
PumpBounded == running <= PumpTimeout + 3

(***************************************************************************)
(* irrigation_requested is written by two tasks without a lock.  No        *)
(* request is lost: each finds the pump on, or has it on within three      *)
(* periods, long before irrigation_task wakes and throws its queue away.   *)
(***************************************************************************)
RequestServed ==
    ~served => task = "doze" \/ (task = "asleep" /\ nap >= CycleSleep - 2)

(***************************************************************************)
(* Tasks, flag and clock together keep the promise of PumpService: the     *)
(* relay closes on request only, and between closing and opening it lie    *)
(* PUMP_MIN_TICKS at least, PUMP_TIMEOUT_TICKS and three periods at most.  *)
(***************************************************************************)
Service == INSTANCE PumpService WITH
    wanted <- requested, on <- pumping, ran <- running,
    MinOn <- PumpMin, MaxOn <- PumpTimeout + 3

IsPumpService == Service!ServiceSpec

(***************************************************************************)
(* While sensor_task goes on measuring and reports no wet soil, water comes*)
(* again and again: through queue, semaphore and request flag, in spite of *)
(* messages overwritten, refused or drained.  The exception is a count     *)
(* that has been driven past QUEUE_SIZE and stays there, after which       *)
(* mq_check refuses every message.                                         *)
(***************************************************************************)
AlwaysDry == <>[](reading # SOIL_WET) /\ []<>(rest > 0)
WaterComes == AlwaysDry => []<>pumping \/ <>[](count > QueueSize)

(***************************************************************************)
(* irrigation_manager_update switches the pump off again and again, also   *)
(* when the soil never gets wet and requests keep coming while it runs.    *)
(***************************************************************************)
PumpStops == []<>~pumping

(***************************************************************************)
(* Of the relay's noise "activando ciclos de riego infinitos"              *)
(* (REPORTE.md:359): "La solucion requirio filtrado por software en tres   *)
(* capas: triple sampling en ISR ..., debounce de 500ms ..., y drain de    *)
(* mensajes post-riego" (REPORTE.md:361).  With wet soil and nobody at the *)
(* button, the false triggers come to an end and the pump stays off.       *)
(***************************************************************************)
AlwaysWet == /\ <>[](reading # SOIL_DRY)
             /\ <>[][upd = "check" /\ ~TooYoung => upd' # "top"]_irrVars
WetStaysOff == AlwaysWet /\ <>[][~Press]_irrVars => <>[]~pumping
=============================================================================
