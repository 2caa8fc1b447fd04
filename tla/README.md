# TLA+ model of PicoOS and the automatic irrigation system

PicoOS is a small kernel for the two cores of an RP2040: preemptive round-robin
tasks, a heartbeat watchdog, semaphores, message queues, a page cache with
deferred flash writes and a minimal file system. On top of it run six tasks
that measure soil humidity, drive a pump, show the status on an LCD and log to
flash. This directory models the kernel's own logic and the application's, checks
them with TLC on small instances and proves parts with TLAPS for every instance.

Paths below are relative to the repository's `src/` directory (`scheduler.c` is
`src/kernel/scheduler.c`); PROJECT.json maps every definition to its lines.

## 1. Inventory

### Who runs where

| Core | Executes | Never sleeps? |
|---|---|---|
| 0 | `logger_task`, `display_task`, `mpu_test_task`, idle loop of `main()` (drains the flash queue) | all three tasks sleep |
| 1 | `irrigation_task`, `sensor_task`, `irrigation_update_task` | `irrigation_update_task` never sleeps |
| 1 (IRQ) | GPIO interrupt of the manual button | - |

Each core has its own `SCB`, task table and tick. SysTick (10 ms), PendSV and SVC
have exception priority 0 and do not preempt one another; other interrupts have
0x80. Tasks run unprivileged and enter the kernel through SVC, except for the
message queues, which they call directly.

Communication: `irrigation_queue` (`sensor_task` and the GPIO interrupt to
`irrigation_task`, all on Core 1), `log_queue` (`irrigation_task` to `logger_task`)
and `display_queue` (`irrigation_task` and `sensor_task` to `display_task`), both
across the cores, flags of `irrigation_manager` (two tasks of Core 1), the flash
queue (`logger_task` in SVC to the idle loop), three semaphores (for pump, log
and display, each used by one task only) and `multicore_lockout` around every flash
write.

### Components

| Component | State | Operations | What makes it correct | Status |
|---|---|---|---|---|
| Scheduler and watchdog (`scheduler.c`, `pendsv.s`, `svc_handler.s`, `watchdog_supervisor.c`) | task control blocks, current task, remaining quantum, tick counter, pending PendSV | tick, switch, heartbeat, sleep, exit, HardFault | one running task per core; suspended tasks do not execute; nobody starves; sleeps end, and on time; only hung tasks are restarted, and those are | modelled |
| Semaphores (`semaphore.c`) | counter, circular wait queue | init, wait, post | mutual exclusion, first come first served, waits shorter than the watchdog's patience | modelled |
| Message queues (`message_queue.c`) | buffer, head, tail, count | send, send from an interrupt, receive | messages arrive once and in order; `count` stays where `mq_check` accepts it | modelled |
| Page cache, flash queue, logger (`log_memory.c`, `flash_queue.c`, `logger.c`, `logger_task.c`) | frames with valid, dirty, last_use; queue; file | write with LRU eviction, flush, restart, drain | each message persisted, once, about in order | modelled |
| Core 0 as a whole (`main.c`) | the above | idle loop | deferred writes do get written | partly |
| PicoFS (`filesystem.c`) | metadata sector, data area | init and format, create, write, append, read, delete, compact | what was written is read back, files do not overlap, flash is erased before it is programmed, also across power failures | modelled |
| Irrigation (`irrigation_manager.c`, `irrigation_task.c`, `irrigation_update_task.c`) | request flag, pump state, start tick, pump semaphore | receive, request, update, sleep through the cycle, drain the queue | the pump stops in time, requests are not lost, dry soil gets water, wet soil none | modelled |
| GPIO events (`kernel_events.c`) | `last_irq_time` | edge interrupt with debounce and sampling | a press is heard; relay noise does not keep the pump going | modelled |
| Sensor task (`sensor_task.c`) | the reading it is about to report | read, report, sleep | part of the irrigation loop | modelled |
| Display (`display_manager.c`, `display_task.c`) | two text buffers, LCD-present flag, failure and refresh counters | init, set row, refresh, probe | the LCD shows what the driver believes it shows; failures cost little; it catches up | modelled |
| MPU and `mpu_test_task` (`mpu.c`) | region registers | - | its faults are scheduler actions; encodings are not modelled | partly |
| System-call dispatch (`syscalls.s`, `kernel_service.c`) | - | 20-odd stubs | argument passing only; effects are in the components | partly |
| Drivers (`kernel_drivers.c`), Core 1 boot | registers | busy-wait I2C, ADC | no state of their own | not modelled |

### What is hard to test here

PROJECT.json lists the hazards one by one at their lines. In groups:

* **Kernel versus task:** the watchdog rewrites the state, stack pointer and
  quantum of any task, including the one it has interrupted, and `schedule()`
  returns to the interrupted context whenever nothing is READY, whatever that
  context's state is.
* **Time:** the watchdog must not take a task for hung because others use their
  quanta, and `kernel_ticks` wraps.
* **Semaphores under failure:** waiters and holders are restarted while queued or
  inside; a full wait queue lets the caller through.
* **Masking that does not mask:** `save_and_disable_interrupts` has no effect in an
  unprivileged task and never on the other core. All senders and receivers of the queues are
  unprivileged (`pendsv.s:61`), so every access of one may come between two of another, and the GPIO
  interrupt anywhere.
* **Dropped results:** `flash_queue_push` and appends fail without anybody looking.
* **Order:** flushes go by frame, evictions by age.
* **Power failures** between erasing and programming, above all of the file table.
* **A control loop over shared flags:** two tasks write the request flag without a lock,
  the queue is thrown away after every cycle, and the relay's switching looks like a press.
* **Hardware that comes and goes:** a row whose transfer fails is recorded as shown
  unless it was the third failure in a row.
* **Allocation by history:** PicoFS has no free list. Where a file may grow is decided
  by the sizes of the others, and three functions decide it in three ways.

## 2. Modules

```
Scheduler ──── MCScheduler            LogStore ─ LogStoreProofs
   │  └─────── SchedulerProofs           └────────┐ INSTANCE
   ├────────── Semaphore ─ MCSemaphore          Core0
   │              └─ SemaphoreProofs              │
   └──────────────────────────────────────────────┘ EXTENDS
MessageQueue ─┬─ MCMessageQueue        PicoFS ─┬─ MCPicoFS
              ├─ MessageQueueProofs            └─ PicoFSProofs
              └─ Irrigation ── INSTANCE ─> PumpService
                   ├─ IrrigationProofs (and MessageQueueProofs)
                   ├─ MCIrrigation
                   └─ MCApplication ─ Display ─ DisplayProofs
```

`SemaphoreProofs` also EXTENDS `SchedulerProofs`, whose typing lemmas it needs.

Every definition marked `mutant` in a comment is a wrong variant of the one that
follows it; no specification uses it. It documents which plausible bug the
properties would notice (PROJECT.json, "mutants").

### Scheduler

One core. `state`, `wake`, `last_seen`, `sp` are fields of the task control
blocks, `current`, `left`, `ticks` are `current_task`, `remaining_ticks`,
`kernel_ticks`, and `pendsv` is the pending bit in ICSR. Stacks are reduced to what
resuming them does: `sp[t]` says whether the saved pointer leads to a fresh frame
(`"entry"`) or to a saved context (`"resume"`), and `ctx[t]` what the context on
the stack does (follow its program, loop for ever, run over destroyed data, park
in `secure_waitt`).

| Action | Code |
|---|---|
| `SysTick` | `isr_systick`: time base, then for each task the sleep queue or the heartbeat test, then the quantum |
| `PendSV` = `Dispatch` or `KeepContext` | `pendsv.s` and `schedule()`; `KeepContext` is the case that returns `current_sp` |
| `Heartbeat`, `Sleep`, `TaskExit` | the SVC handlers |
| `HardFault` | `watchdog_supervisor.c`: DORMANT, PC redirected |
| `Hang` | a task's own endless loop (`mpu_test_task.c`) |

The three handlers share one priority, so each is one atomic action; PendSV has
the lower exception number and goes before a SysTick pending at the same time,
hence `~pendsv` in `SysTick`. `OverwriteStacks` is the effect of writing a
fresh frame under an executing task: what is destroyed depends on the depth of its
stack, so all three outcomes are allowed.

`Prompt` tasks reach their `sys_heartbeat` in every tick in which they execute,
except the first of a turn (`HasBeaten`). All the repository's task loops beat once per
iteration; the longest iteration that is pure computation or a busy wait on
I2C takes a few milliseconds.

### Semaphore

EXTENDS Scheduler. One semaphore and its users, each of which repeats: beat, wait,
and post, at the latest, when it executes `MaxHold` ticks after it was let in. Every scheduler action reappears,
conjoined with what it does to the users' programs: being dispatched from a fresh
frame sends a program back to its start, and `SemTick` requires that a user which executes
inside posts in time. `QueueFull` is `k_sem_wait` returning without a unit.
`orderly` is a history variable that turns false when a task comes out of
`sem_wait` although nobody gave it a unit, because the wait queue was full or
because `schedule()` went on executing a BLOCKED task.

`WaitBound` adds up what a wait can cost: for each other user a round of the core until it is
dispatched, the tick in which it comes back from `sem_wait`, its `MaxHold`, and a round if it is preempted
just before its post. With `MaxHold` the bound grows without limit, so whether the watchdog
tolerates a wait depends on how long the users hold. In the code, three tasks of one core with quantum 10 would
have `WaitBound` = 125 + 2 `MaxHold`, within the timeout of 500 up to 1.8 s inside.

### MessageQueue

One action per access of `mq_send` and `mq_receive` to the shared fields. The updates of `tail` and
`count` are a load and a store each (`reg` is what has been loaded), the copy of a message is one
access, and so is `mq_check`, of whose tests only the one on `count` can fail. `SendFromIsr` is one
action: the button's interrupt is on the core of all clients of its queue.
`save_and_disable_interrupts` appears nowhere, because no client is in a position to disable
anything. The module is a component twice: `log_queue` alone (`QueueSpec`, `MCMessageQueue`), and
`irrigation_queue` as part of `Irrigation`, which places each access in a task's program. A compiler
that keeps `count` in a register from the test to the store widens the window in which an update is
lost; the outcomes modelled are those of the source as written.

### LogStore and Core0

`LogStore` follows a message from the cache to the file; a message is the value of
`timer_counter` at its writing. `Push` is a series of `flash_queue_push` calls whose
results nobody looks at, with `trouble` recording that something was dropped. A flush goes
through the dirty frames in ascending order; `FlushOrders` has that one order. `Core0` composes it with `Scheduler`: log calls happen when `logger_task`
executes, the drain when the idle loop does.

### PicoFS

A call computes its flash operations from what it reads (`EraseSectors`,
`ProgramPages`, `CopyPages`, `WriteTable`) and leaves them in `todo`; `FlashStep`
carries out one at a time and `PowerFails` may come before any of them. Erasing
a sector and programming a page are atomic. Programming a page that is not erased
gives `Mixed`. The table fills 392 bytes, hence two pages: the first
holds the magic number and ten of the sixteen entries (`TableSplit`), so a power
failure between the two leaves a valid table whose later entries are free.
`fs_init` formats if the magic number is missing.

`wanted` is what reading each file should give. `Unknown` stands for a file about
which the code promises nothing any more: the one that an interrupted call
was writing (or that an interrupted compaction was moving), and all of them
if the rewriting of the table was interrupted. `spoiled` collects the files damaged by calls on others,
and names the only two ways in which this code does so: an append that grows over its
neighbour (`fs_write_append` has no test like the one in `fs_write`), and
compaction. `ReadBack` says that there is no third.

Sizes are whole pages, so the padding of a last page is not told apart, and
writes have at least one page. What is not modelled: the lockout of the other
core around the flash operations, whose timeout nobody looks at; the buffer on the stack in
`fs_write_append`, as large as the file; and reading less than the whole file.

### Irrigation

The application on Core 1: `sensor_task`, `irrigation_task`, `irrigation_update_task` and
the GPIO interrupt. The tasks are preempted anywhere, so each access to something they
share is an action, those to the queue included; the interrupt is not interrupted by tasks and is one.

| Action | Code |
|---|---|
| `UpdateLoop`, `SwitchOn`, `StartClock`, `ClearRequest`, `StampIrq`, `CheckPump`, `SwitchOff` | one pass of `irrigation_update_task` through `irrigation_manager_update` |
| `Poll` | the next access of the `mq_receive` in the loop of `irrigation_task`; the heartbeat comes with its first, and the last leads into the `switch` |
| `WaitPump`, `RequestWater`, `FallAsleep`, `FinishCycle` | `perform_irrigation`: semaphore, request, `sys_sleep(4000)`, post |
| `DrainQueue` | the next access of `drain_queue`, which ends with the first `mq_receive` that fails: because `count` is 0, whatever lies between `head` and `tail`, or because `mq_check` fails |
| `ReportSoil` | the next access of `sensor_task`'s `mq_send`; the reading comes with the first, `sys_sleep(5000)` with the last |
| `Press`, `RelaySpike` | a rising edge that survives the three samples, made by a finger or by the relay |
| `Tick` | time |

`SwitchOn` and `SwitchOff` write the pin and `pumping` at once. `pumping` is read by the
update task only, so nobody can tell when it was written between the accesses around it. The
pin is what the world sees, hence `running`, which counts from the pin, while
`elapsed` counts from `StartClock`; the two may differ by a period.
`CheckPump` computes `elapsed` and reads the soil, whose moisture is free.

The queue's receiver treats SOIL_DRY and MANUAL_TRIGGER alike, and SOIL_WET like nothing,
so the configurations give the first two one value and the last that of an empty slot.

`PumpService` is what all this promises of the pump: it starts on request, runs at least
`PUMP_MIN_TICKS` and at most `PUMP_TIMEOUT_TICKS` and three periods, and a request is given up only
while it runs.

*Time* is counted in periods. One period is what the scheduler needs at most to give
every task that is awake a turn: `SilenceBound` is 40 ticks of 10 ms at worst, and 22 where
no turn is prolonged by a restart, as on this core, where no task fails. So `Tick` waits until all tasks
that are awake have `beaten`. The kernel's own part is taken from the other modules
as what they have shown: `sys_sleep` ends (`EverySleepEnds`), and a beat is reached in each
period (`BoundedSilence`).

`last_irq_time` is written in two time bases: the interrupt stores milliseconds since
boot, `irrigation_manager_update` stores `kernel_ticks * 10` of Core 1, which
lags behind by what passed before that core started to tick (over the debounce
time, as `main()` waits for USB and then 600 ms). `since` is the difference the
interrupt computes, so a stamp of the manager sets it to `BootOffset`.
Log and display messages of these tasks are left out.

### Display

The driver's state and `display_task`'s calls, with the panel at the other end of the
cable. `WriteBuf` is `lcd_i2c_write_buf` with its count of failures; `SendRow` is one
row of `display_manager_refresh`. Its functions run inside SVC, so between two transfers only the
cable changes: the panel stops answering (`CableOff`, with or without losing its power) and answers
again (`CableOn`). `ready` says whether the panel has had its complete
initialisation since it was powered; what is written to one that has not is `Garbage`.

### MCApplication and MCIrrigation

`MCApplication` checks three parts in one run: the irrigation; the pump alone, among tasks that
set the request flag at any time, as many cycles of a few seconds would in the 25 s of
`PUMP_TIMEOUT_TICKS`, which a small instance of the whole has no room for; and the display.
Irrigation and display share no variable, so a behaviour is one part moving and the others at rest;
the product would show nothing more. `MCIrrigation` adds a meter for the water to `Irrigation`.

## 3. Runs

| Run | Instance | Shows |
|---|---|---|
| `sched_core1` | 3 tasks: two sleep, one of these also hangs and faults, one never sleeps; ticks modulo 12, so the counter wraps all the time | `TypeOK`, `OneRunning`, `OnlyRunnableExecutes`, `BoundedSilence`; under fairness `NoStarvation` and `EverySleepEnds` |
| `sched_core0` | 3 tasks that sleep, fault, hang and exit; ticks modulo 12, sleeps of 1 and 3 ticks | `BoundedSilence`, `HealthyNeverRestarted`, `WakesOnTime`, all across the wrap |
| `sched_watchdog` | 2 tasks, one fails | **violated:** `WatchdogRevives`; see Findings |
| `sem_mutex` | 3 users, one unit, nobody fails; ticks modulo 34 | `MutualExclusion`, `WaitersAccounted`, `BoundedWait` |
| `sem_faults` | 2 users of 3 tasks, a watchdog with 3 ticks of patience | `MutualExclusion` and `CounterMatchesQueue` in spite of restarts at every point |
| `mq_log_queue` | a sender on Core 1, a receiver on Core 0, both unprivileged | **violated:** `CrossesUncorrupted` |
| `log_store` | 3 frames, flash queue of 4, flush every 5 of 10 messages, 1 restart | `AtMostOnce`, `NothingLost`, `NearlyOrdered` |
| `core0_flash` | `logger_task` and another sleeping task, 2 messages | **violated:** `IdleLoopDrains` |
| `fs_files` | 3 names, 4 entries, 7 calls of any function, 2 power failures | `ReadBack`, `NeverOverprograms`, `KnownApart` |
| `application` | pump at least 1 period and up to a timeout of 1, cycle 5, sensor 6, queue of 2; 2 LCD rows, 3 failures, a probe every 3 refreshes | `PumpBounded`, `RequestServed`, `IsPumpService`, `FrontIsShown`, `FewTimeouts`; under fairness `WaterComes`, `PumpStops`, `CatchesUp` |
| `irrigation_wet` | the irrigation of `application`, wet soil | **violated:** `WetStaysOff` |
| `irrigation_flood` | the irrigation with a water meter, timeout of 5, queue of 1 | **violated:** `NoFlood` |

### Bounds, and why they are enough

* **Tasks, quantum.** Three tasks are the number on each core. The quantum is 2
  instead of 10 ticks: the first tick of a turn (which may come before the heartbeat)
  and a last one exist and differ. `Timeout` is just above `SilenceBound`
  (8 for three tasks with quantum 2), as tight as the properties allow; in the code
  the bound is 40 ticks and the timeout 500.
* **`TickMod`.** Both scheduler runs let time go on for ever on a ring of 12 ticks.
  The smallest useful ring is above the timeout. In runs where
  `MaxUptime` equals `TickMod` the bound is never reached.
* **`sem_faults`** has an impatient watchdog, so that restarts hit waiters and
  holders at all their places rather than after long silences. Its constraint
  `WhileOrderly` stops exploration behind the first state in which mutual exclusion is
  no longer claimed. `SemMaxWaiting` = 3 gives room for two waiters; a third entry
  can come from a task that was restarted while queued and waits again, which
  is the way the queue fills up.
* **`sem_mutex`** has no sleepers, so a task is always READY or RUNNING unless
  all wait, which mutual exclusion excludes. Its `Timeout` is one tick above `WaitBound` (31): were
  it equal, the watchdog would end any wait at the bound and `BoundedWait` could not be
  violated.
* **`mq_log_queue`** has a queue of 2, so that the indices wrap; two messages are sent
  and the first is received again behind the second.
* **`log_store`** with 3 frames has free, dirty and clean victims; the flush
  interval exceeds the number of frames and the queue is shorter than an interval's
  evictions plus a flush, as in the code (6 frames, 8 entries, 50 messages), so that
  overflow, eviction and flush all meet. Deadlock checking is off because
  `MaxMessages` ends the behaviour.

* **`fs_files`**: sectors of two pages and files of up to three, so that sizes round
  up, down and not at all; three files leave a hole between two others, and the
  fourth entry is what a deleted file costs. Seven calls create three files, write
  or append to two, delete one and move the rest. The second power failure can hit the
  repair of the first. The flash modelled behind the region has room for what
  appends put there: by `FlashBound`, for as many files of `MaxPages` as the table has
  entries (in the code the region begins at 1 MB and nothing checks where it ends). Names and page contents are interchangeable, hence the
  symmetry. Deadlock checking is off because `MaxCalls` ends the behaviour.

* **`application`.** What matters in the constants is their order. `CycleSleep` = 5 is the
  least that `IrrigationAssumption` allows with `PumpMin` = 1, since the cycle outlasts
  the pump's minimum by four periods: in the code 400 ticks against 300 + 4 * 22.
  `SensorSleep` is one more, as 5 s is more than 4 s. The timeout of 1 is the
  shortest possible, which the cycle does outlast here; the part with requests at any time
  is there for the ones that find the pump on. A queue of 2 is full, empty and in between, has slots that
  are overwritten and slots that are not, and lets `count` reach 3. In the code it has 16 slots, so that the
  interrupt has to come in more often before `count` passes the limit; that it can is a theorem's
  bound (`IrrTypeCorrect`) and not a matter of the size. On the LCD, two
  rows allow one to fail and the other not, four initialisation transfers exceed the three
  failures after which the driver gives up, and three refreshes pass between probes.
* **`irrigation_flood`** has a longer timeout, so that a second cycle of
  `irrigation_task` falls into the first pumping.

### Fairness

`FairSpec` assumes strong fairness of `SysTick` (the timer's request stays
pending until it is taken, and `~pendsv` only delays it), weak fairness of
`PendSV` (taken as soon as no handler runs) and strong fairness of the
heartbeat of each prompt task: a task that has the core again and again
executes its instructions, and its loop contains the heartbeat. There is none on sleeping, exiting or
failing. `Core0Spec` adds strong fairness of `Drain`: the idle loop goes on
whenever it has the core, and an append that is retried succeeds eventually. It
is generous on purpose, since the run is about a violation: even so the queue is
not drained.

`IrrFairness` is weak fairness of the three tasks and of `Tick`. It is what the scheduler
runs and proofs show: a task that is awake gets the core again and again
(`NoStarvation`), a sleep ends (`EverySleepEnds`), and time does not stop. Pressing,
relay noise and the soil are left free. `DispFairness` says that the driver's
code runs on and that `display_task` gets messages for ever: `sensor_task` sends a
row every five seconds. In `MCApplication` each conjunct applies to the
behaviours in which its part moves; in the pump's part the other tasks are assumed to reach
their heartbeats.

### Findings

1. **A failed task is not brought back** (`sched_watchdog`). `REPORTE.md:347-348` says that the
   watchdog restarts a task that took a HardFault, and a hung one. `isr_systick`
   skips DORMANT tasks before the heartbeat test (`scheduler.c:95`), and
   `schedule()` stores the interrupted stack pointer over the fresh one when the
   restarted task is the executing one (`scheduler.c:155`), as a task in an endless loop
   usually is.
2. **Messages across the cores** (`mq_log_queue`). `REPORTE.md:350` says they
   cross without corruption. `count++` on one core and `count--` on the other lose
   an update, after which a message is received twice, or one is overlooked. The
   proof below shows that `count` stays in range all the same, so `mq_check` never
   notices.
3. **The idle loop ends with the first dispatch** (`core0_flash`).
   `REPORTE.md:149` says that the scheduler returns to `main()` when no task is READY.
   It does so only while `PSP` is 0, so the flash queue is drained before the first task
   starts and never again.

4. **The time limit does not prevent flooding** (`irrigation_flood`). `REPORTE.md:267`
   says that the pump goes off after 25 s whatever the sensor says, which prevents flooding. It
   does go off (`PumpBounded`, `PumpStops`), but while it runs `irrigation_task` goes on asking for
   water, only a start clears the request (`irrigation_manager.c:44-48`), and the
   next update switches it on again. With a sensor that reads dry for ever the water flows
   with interruptions of an instant.
5. **False triggers feed themselves** (`irrigation_wet`). `REPORTE.md:361` counts on the drain after a cycle
   to discard the relay's false triggers, which had caused endless cycles (`REPORTE.md:359`). But
   the button's interrupt can come in between the load and the store of `tail` or `count` in
   `sensor_task`'s `mq_send` (`message_queue.c:61-62`). One press suffices: from then on
   `count` is out of step with `head` and `tail`, and `drain_queue`, which stops when `count` is 0, leaves
   the last message behind. If that is a false trigger, the next SOIL_WET
   makes `count` positive, the trigger is received instead, a cycle starts, and its relay leaves another. The
   pump keeps cycling on wet soil although every later operation runs undisturbed.

### Further facts that shape the models

* When nothing is READY, `schedule()` returns to the interrupted task, so `sys_sleep` and
  `sem_wait` return at once, BLOCKED. That is why `OnlyRunnableExecutes` is
  checked on Core 1 only, proved only for cores with a task that never sleeps, and why
  `MutualExclusion` is conditional on `orderly`.
* `kernel_ticks >= wake_tick` and the reserved value 0 are not safe across the wrap. A
  deadline beyond it ends the sleep at once; one that falls on 0 does not
  count as sleeping and leaves it to the watchdog to restart the task. `WakesOnTime` and
  `HealthyNeverRestarted` name these two cases and say that there are no others.
  For `irrigation_task` such a restart between wait and post would leave the pump's semaphore taken;
  `Irrigation` does not contain it (it needs an uptime of 497 days to the tick).
* `fs_compact` gives the first file in table order its new offset (`filesystem.c:355`), but
  only the `else` branch moves data; a file whose new place overlaps its old one is erased
  before it is copied. Nothing calls it. `spoiled` counts both cases.
* The debounce compares milliseconds since boot with a stamp in ticks of Core 1, so the 500 ms after
  a switching of the relay are not covered (`REPORTE.md:361` counts on them), and
  the three samples are taken within half a millisecond, not three. That leaves the drain, of which finding 5 speaks.
* The interrupt can push `count` one beyond `QUEUE_SIZE`, when `sensor_task` has already seen the last free
  slot. If `irrigation_task` does not happen to be within an `mq_receive`, `mq_check` then refuses every
  message, also to the receiver, and no automatic or manual cycle starts until the next reset.
  `WaterComes` has this case as its one exception.
* The drain also discards presses made between the pump's switching off and the end of
  the cycle, and others are overwritten in their slot. `WaterComes` therefore speaks of dry soil, which
  is reported again, and not of each press.
* A manual cycle is not of about 4 s (`REPORTE.md:337`): the pump runs for 3 s, then until the soil is wet
  or 25 s have passed, while the display says that it is off after 4 s.
* A row whose transfer fails as the first or second in a row is recorded as shown and not sent
  again until its text changes (`skipped` in `FrontIsShown`). An LCD that is absent at boot, or
  loses its power, is never initialised, although the driver finds it on the bus and
  counts it as connected; `CatchesUp` is about what has been sent.

## 4. Proofs

All hold for every value of the constants that satisfies the named assumptions
(`SchedulerAssumption`, `SemaphoreAssumption`, `QueueAssumption`, `LogStoreAssumption`,
`PicoFSAssumption`, `FlashBound`, `IrrigationAssumption`, `DisplayAssumption`), which TLC evaluates in
the runs. Some theorems have a hypothesis of their own, which is what the code must do right elsewhere:

* `Patient`: the quantum is more than 1 tick and the timeout at least `SilenceBound` (10 ticks,
  and 500 against 40, in the code).
* A `Spinner`: a task that never sleeps, exits or fails and beats promptly, as
  `irrigation_update_task`.
* `"compact" \notin Calls`: nobody calls `fs_compact`, as nobody does in this repository.

| Theorem | Needs | Argument |
|---|---|---|
| `TypeCorrect`: `TypeOK` | - | inductive as it stands; the quantum is reloaded wherever it can reach 0 |
| `OneRunningHolds`: `OneRunning` | - | inductive over `TypeOK`: `Dispatch` releases `current` before it makes another task RUNNING, the watchdog only makes tasks READY |
| `WakesOnTimeHolds`: `WakesOnTime` | - | from `Deadlines`: a deadline is ahead, past the wrap, or 0 |
| `BoundedSilenceHolds`: `BoundedSilence` | `Patient` | from `HealthyInv` |
| `HealthyNeverRestartedHolds`: `HealthyNeverRestarted` | `Patient` | from `HealthyInv` |
| `OnlyRunnableExecutesHolds`: `OnlyRunnableExecutes` | a `Spinner`, `Patient` | from `HealthyInv` for the spinner, which is always runnable |
| `SpinnerNeverRestarted` | a `Spinner`, `Patient` | a spinner never sleeps, so not even into 0 |
| `CounterMatchesQueueHolds`: `CounterMatchesQueue` | - | inductive with the typing of the two variables: only wait and post change them, and restarts change neither |
| `MutualExclusionHolds`: `MutualExclusion` | - | from `UnitInv`: units free, held and owed never exceed `SemValue` |
| `PairKeepsCountInRange`: `count` in `0 .. QUEUE_SIZE` | one sending task, no interrupt | from `OneSender` |
| `LogTypeCorrect`: `LogTypeOK` | - | part of `LogInv` |
| `AtMostOnceHolds`: `AtMostOnce` | - | part of `LogInv` |
| `NothingLostHolds`: `NothingLost` | - | part of `LogInv` |
| `NearlyOrderedHolds`: `NearlyOrdered` | - | from `LogInv` and `Capacity` |
| `FSTypeCorrect`: `FSTypeOK` | no compaction | part of `FSInv` |
| `NeverOverprogramsHolds`: `NeverOverprograms` | no compaction | `Planned` and `Shape` at the head of the plan |
| `KnownApartHolds`: `KnownApart` | no compaction | `Matches` when the plan is empty |
| `ReadBackHolds`: `ReadBack` | no compaction | `Matches` and `Stored` when the plan is empty |
| `IrrTypeCorrect`: `IrrTypeOK` | - | from `OneSender` for the queue; the rest is inductive as it stands |
| `PumpBoundedHolds`: `PumpBounded` | - | from `PumpInv`: what `elapsed` and `running` can be at each place of the update task, and whether it has beaten in this period |
| `ImplementsPumpService`: `IsPumpService` | - | from `PumpInv` and `PumpBounded`, action by action: `SwitchOn`, `ClearRequest`, `SwitchOff`, `RequestWater` and `Tick` are the service's steps, the rest are stutters |
| `RequestServedHolds`: `RequestServed` | - | from `ServedInv`: an unserved request is on its way (`OnTheWay`), and each period that passes brings it one step closer |
| `DispTypeCorrect`: `DispTypeOK` | - | inductive with `PlaceInv` and `FewTimeouts`, which bound the counters |
| `FewTimeoutsHolds`: `FewTimeouts` | - | from the same invariant |
| `FrontIsShownHolds`: `FrontIsShown` | - | inductive over it |

### Scheduler

`BoundedSilence` is not inductive: nothing in it prevents a waiting task from having been
silent for nearly the bound while all the others still go first. `HealthyInv` adds `Waiting`: the
silence of a runnable task that is off the core, plus what is left of the current turn, is at most one
`LongestTurn` for each place of the search already passed. A tick moves one from the second
summand to the first, a switch gains a place (lemma `Nearer`) and pays for it with
one turn (lemma `Turns`). What is left of a turn depends on the others' misbehaviour: a task about to
be restarted in its last tick has nearly a second quantum before it (`TurnLeft`). A task that wakes
has been silent for no time and may be anywhere in the search (`FreshWaits`). A task on the
core beats in every tick but the first, whether it should be executing or not (`OnCore`: it may be
BLOCKED when `schedule()` found nobody else). So the watchdog's test fails for every healthy task, and
what remains is the sleeper with `wake_tick` 0. A spinner is always runnable and never stalled, so
`schedule()` always finds a READY task, `KeepContext` never happens after the first
dispatch and no suspended task executes.

`WakesOnTime` relates a wake-up to a call made long before it. `Deadlines` remembers that call: the
deadline of a sleeper is 0, not yet reached, or one that wrapped when it was computed.

### Semaphore

`MutualExclusion` does not survive a step by itself: it must say where the other units are. While
things are orderly a unit is free (`contador_recursos` if positive), held, or
owed to a task woken out of the wait queue that has not come back from
`sem_wait` (`Returns`). The watchdog adds a case that is easy to overlook: a task restarted
while queued leaves its id behind, and the post that finds it may wake the task out
of a `sys_sleep`, with `wake_tick` still set. Nothing holds the unit then, but if that
task waits again, the sleep queue will let it through as though it had been posted
to (`Stray`). `Owed` and `Extra` count both. The lemmas `TickClaims`, `SwitchClaims` and `CallClaims` show that
the scheduler hands out nothing, the other three follow a unit through
wait, return and post. The proof also gives `OnlyRunnableExecutes` for as long as `orderly`.

### Message queue

With updates lost, nothing relates `count` to `head` and `tail`, and its range has to come from elsewhere.
`OneSender` says what each client is about to store. A sender past its test (`Past`) adds
one message at most to what it has seen, and the receiver in the meantime only takes away; an interrupt
finds room or adds nothing, so it can use up the sender's slot once (`excess`). A receiver stores one less than a
positive value, since nobody else takes messages. Two sending tasks on one queue (`display_queue`) are beyond this: each
may have seen the last free slot and be overtaken by the other again and again.

### Log store

No property of the log is inductive without the cache. `CacheInv` says that the valid frames hold the
messages written last, each once and without a gap, which LRU eviction preserves because the victim is
the oldest. By `Capacity`, a pigeonhole argument, a cached message is then one of the last `LOG_FRAMES`, so
what has left the cache is ordered up to that distance however a flush goes through the frames. `Sent`
appends what an eviction or a flush pushes, cut off where the queue is full.

### PicoFS

The invariant must hold in the middle of a call, after any of its flash operations, and the plan of the
call (`todo`) can be of any length. So `FSInv` describes the plan by what is left of it: the operations on
the table come last and tell how much of the table is written (`Shape`); between the last erasure of a
page and its programming nothing else touches it (`Planned`); carried out to the end, the plan leaves
every intact file with its contents in the place that the new table gives it (`Stored`, `Matches`); and until
the table itself is at risk, the old table's files can still be read (`Resting`). `PlanStep` shows that one
flash operation keeps all of this whatever the plan, and `PowerFailsKeeps` that dropping the rest of
the plan does. The calls (`CreateKeeps`, `DeleteKeeps`, `WriteKeeps`, `WriteAppendKeeps`, `BootsKeeps`)
have to show it of the plan they make. `TableOK` bounds the offsets, by the place of the entry in the table, and
`FlashBound` puts them into the flash that is modelled. `fs_compact` is left out: its offsets
are sums and its plan a concatenation over all files, both defined by recursion.

### Irrigation

The queue's invariant and the rest of the type are separate, since they have nothing to tell each other:
`PumpBounded`, `RequestServed` and the implementation of `PumpService` hold whatever becomes of the
messages.

`PumpBounded` is not inductive because it says nothing of how far the update task has got
when the limit is passed: a state at the bound with the task about to begin a pass would
still get older. `Overdue` in `PumpInv` ties the two: with every period past the limit the task is
further on its way to `SwitchOff`, as a period does not end before it has
beaten, and it beats once per pass. The third period is that between the pin and the clock
(`running` is `elapsed` or one more). `ServedInv` follows a request in the same way (`OnTheWay`).

### Model-checked only

* All liveness (`NoStarvation`, `EverySleepEnds`, `WaterComes`, `PumpStops`, `CatchesUp`)
  and everything about `ENABLED`: out of the prover's reach. So is that `FlushOrders` always has a member, which
  needs an induction over the frames; without it `LogFlush` would merely be disabled, and TLC sees it fire.
* PicoFS with `fs_compact`, for the reason given.
* `SemTypeOK`, `WaitersAccounted` and `BoundedWait`. They hold where no user fails or sleeps outside its
  section, as in `sem_mutex`; a theorem under that condition would be about none of the
  program's semaphores, whose users all sleep.

## 5. Not modelled

* The lockout of the other core around flash operations: an erasure goes on whether it
  succeeded or not.
* Register-level detail: MPU regions, exception frames, ADC and I2C transfers.
* PendSV while a GPIO interrupt is active. PendSV has the higher priority there and returns
  with a fixed EXC_RETURN (`pendsv.s`), to thread mode whatever it interrupted; what the processor
  makes of that is outside these models. Likewise the SDK's locks in `printf`.
* Boot: `main()` creates tasks and queues before it starts the ticks.
* The contents of messages, log lines and display rows (the pump's row may differ from the pump).
* `display_queue`, whose two senders are preempting tasks and whose receiver is on the other core: what its
  messages suffer is seen on the other two queues, and `count` may stray further (see Proofs).

## 6. Plan

Done, in this order: Scheduler, Semaphore, MessageQueue,
LogStore, Core0, PicoFS, Irrigation with GPIO events, sensor and its queue, over PumpService, Display, and the proofs above.

Left to model: the log on PicoFS (`LogStore`'s append replaced by `WriteAppend`, to say what
a power failure does to the log).

Next proofs:

1. `BoundedWait` for users that also sleep outside their critical sections, as all tasks of Core 0 do.
2. `LogFlush` always has an order, and `fs_compact`: both need sums and orders over sequences
   written as recursive functions whose defining equations can be proved.
