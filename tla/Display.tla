------------------------------- MODULE Display -------------------------------
(***************************************************************************)
(* The LCD of Core 0: display_manager with its two text buffers and its    *)
(* count of I2C failures, called by display_task for each message.  Its    *)
(* functions run inside SVC, so only the hardware moves between two of     *)
(* their transfers: the I2C bus stops answering and answers again, and the *)
(* panel may lose power with it, hence also its initialisation.            *)
(***************************************************************************)
EXTENDS Integers

CONSTANTS
    LcdRows,          \* LCD_ROWS
    InitTransfers,    \* transfers of display_manager_init after its probe
    MaxFailures,      \* LCD_MAX_FAILURES
    RetryInterval,    \* LCD_RETRY_INTERVAL
    Texts,            \* what the tasks put into a row
    Blank,            \* a row of spaces
    Nul,              \* the buffers' content before main() starts
    Garbage           \* on the panel: nothing readable

Rows == 0 .. LcdRows - 1

ASSUME DisplayAssumption ==
    /\ LcdRows \in Nat \ {0} /\ InitTransfers \in Nat \ {0}
    /\ MaxFailures \in Nat \ {0} /\ RetryInterval \in Nat \ {0}
    /\ Garbage \notin Texts \cup {Blank, Nul}

VARIABLES
    connected,  \* lcd_connected
    fails,      \* lcd_fail_count
    refreshes,  \* lcd_refresh_count
    front,      \* front_buf: what the driver takes the panel to show
    back,       \* back_buf: what it is to show
    place,      \* where display_task and the driver are
    n,          \* transfers done by init, or the row refresh has come to
    bus,        \* the panel answers on the I2C bus
    ready,      \* the panel has got all its initialisation since it has power
    panel,      \* what the panel shows
    skipped     \* history: rows recorded as shown though their transfer failed

dispVars == <<connected, fails, refreshes, front, back, place, n, bus, ready,
              panel, skipped>>
buffers == <<front, back>>
outside == <<bus, ready, panel>>

Contents == Texts \cup {Blank, Nul}

DispTypeOK ==
    /\ connected \in BOOLEAN
    /\ fails \in 0 .. InitTransfers + MaxFailures
    /\ refreshes \in 0 .. RetryInterval - 1
    /\ front \in [Rows -> Contents] /\ back \in [Rows -> Contents]
    /\ place \in {"boot", "init", "idle", "refresh", "rows"}
    /\ n \in 0 .. InitTransfers + LcdRows
    /\ bus \in BOOLEAN /\ ready \in BOOLEAN
    /\ panel \in [Rows -> Contents \cup {Garbage}]
    /\ skipped \subseteq Rows

All(x) == [r \in Rows |-> x]

DispInit ==
    /\ connected = FALSE /\ fails = 0 /\ refreshes = 0
    /\ front = All(Nul) /\ back = All(Nul)
    /\ place = "boot" /\ n = 0
    /\ bus \in BOOLEAN /\ ready = FALSE /\ panel = All(Garbage)
    /\ skipped = {}

-----------------------------------------------------------------------------
(* The driver *)

FailsLimitLate == fails + 1 > MaxFailures        \* mutant: > for >=
FailsLimit == fails + 1 >= MaxFailures

\* lcd_i2c_write_buf
WriteBuf ==
    IF bus THEN fails' = 0 /\ UNCHANGED connected
    ELSE fails' = fails + 1 /\ connected' = (connected /\ ~FailsLimit)

ProbeAtBoot ==
    /\ place = "boot"
    /\ connected' = bus
    /\ place' = IF bus THEN "init" ELSE "idle"
    /\ UNCHANGED <<fails, refreshes, buffers, n, outside, skipped>>

InitTransfer ==
    /\ place = "init" /\ n < InitTransfers
    /\ WriteBuf
    /\ ready' = (bus /\ (n = 0 \/ ready))
    /\ n' = n + 1
    /\ UNCHANGED <<refreshes, buffers, place, bus, panel, skipped>>

FinishInit ==
    /\ place = "init" /\ n = InitTransfers
    /\ front' = All(Blank) /\ back' = All(Blank)
    /\ panel' = IF ready THEN All(Blank) ELSE panel
    /\ place' = "idle"
    /\ UNCHANGED <<connected, fails, refreshes, n, bus, ready, skipped>>

\* display_task has a message and calls display_manager_set_row.
SetRow(r, text) ==
    /\ place = "idle" /\ r \in Rows
    /\ back' = [back EXCEPT ![r] = text]
    /\ place' = "refresh"
    /\ UNCHANGED <<connected, fails, refreshes, front, n, outside, skipped>>

\* Mutant: the count of failures survives the reconnection.
FailsKept == fails
FailsAfterRetry == IF bus THEN 0 ELSE fails

\* Mutant: refreshes are counted from zero every time.
RefreshesReset == 0
RefreshesUnbounded == refreshes + 1              \* mutant: never reset
RefreshesCounted == IF refreshes + 1 >= RetryInterval THEN 0 ELSE refreshes + 1

RetryDue == refreshes + 1 >= RetryInterval

RefreshDisconnected ==
    /\ place = "refresh" /\ ~connected
    /\ refreshes' = RefreshesCounted
    /\ IF RetryDue THEN connected' = bus /\ fails' = FailsAfterRetry
                   ELSE UNCHANGED <<connected, fails>>
    /\ place' = "idle"
    /\ UNCHANGED <<buffers, n, outside, skipped>>

BeginRefresh ==
    /\ place = "refresh" /\ connected
    /\ place' = "rows" /\ n' = 0
    /\ UNCHANGED <<connected, fails, refreshes, buffers, outside, skipped>>

SkipRow ==
    /\ place = "rows" /\ n < LcdRows /\ front[n] = back[n]
    /\ n' = n + 1
    /\ UNCHANGED <<connected, fails, refreshes, buffers, place, outside, skipped>>

\* A transfer that is cut off may leave the row garbled.
Transferred ==
    IF bus THEN panel' = [panel EXCEPT ![n] = IF ready THEN back[n] ELSE Garbage]
    ELSE \E shown \in {panel[n], Garbage} : panel' = [panel EXCEPT ![n] = shown]

RecordAlways == front' = [front EXCEPT ![n] = back[n]]   \* mutant: memcpy before the test
RecordIfConnected == front' = IF connected' THEN [front EXCEPT ![n] = back[n]] ELSE front

SendRow ==
    /\ place = "rows" /\ n < LcdRows /\ front[n] # back[n]
    /\ WriteBuf /\ Transferred
    /\ RecordIfConnected
    /\ IF connected' THEN n' = n + 1 /\ UNCHANGED place
                     ELSE place' = "idle" /\ UNCHANGED n
    /\ skipped' = IF bus THEN skipped \ {n}
                  ELSE IF connected' THEN skipped \cup {n} ELSE skipped
    /\ UNCHANGED <<refreshes, back, bus, ready>>

EndRefresh ==
    /\ place = "rows" /\ n = LcdRows
    /\ place' = "idle"
    /\ UNCHANGED <<connected, fails, refreshes, buffers, n, outside, skipped>>

Receive == \E r \in Rows, text \in Texts : SetRow(r, text)

Driver == \/ ProbeAtBoot \/ InitTransfer \/ FinishInit \/ RefreshDisconnected
          \/ BeginRefresh \/ SkipRow \/ SendRow \/ EndRefresh

-----------------------------------------------------------------------------
(* The cable *)

CableOff ==
    /\ bus /\ bus' = FALSE
    /\ \/ UNCHANGED <<ready, panel>>
       \/ ready' = FALSE /\ panel' = All(Garbage)
    /\ UNCHANGED <<connected, fails, refreshes, buffers, place, n, skipped>>

CableOn ==
    /\ ~bus /\ bus' = TRUE
    /\ UNCHANGED <<connected, fails, refreshes, buffers, place, n, ready, panel, skipped>>

DispNext == Receive \/ Driver \/ CableOff \/ CableOn

DispSpec == DispInit /\ [][DispNext]_dispVars

\* The driver's code runs on, and sensor_task sends a row every five seconds.
DispFairness == WF_dispVars(Driver) /\ WF_dispVars(Receive)

DispFairSpec == DispSpec /\ DispFairness

-----------------------------------------------------------------------------
(* Properties *)

(***************************************************************************)
(* display_manager_refresh sends only the rows that differ from front_buf, *)
(* so what front_buf says of an initialised panel must be true.  It is,    *)
(* but for rows garbled by a broken transfer, and for those whose transfer *)
(* failed as the first or second in a row: they are recorded as shown.     *)
(***************************************************************************)
FrontIsShown ==
    ready /\ place \notin {"boot", "init"} =>
        \A r \in Rows : panel[r] \in {front[r], Garbage} \/ r \in skipped

(***************************************************************************)
(* lcd_i2c_write_buf and the retry keep the counter and the flag together: *)
(* a connected driver has not failed LCD_MAX_FAILURES times in a row, so   *)
(* no bus problem costs Core 0 more than that many timeouts (REPORTE.md:   *)
(* 219), neither during the initialisation nor after a reconnection.       *)
(***************************************************************************)
FewTimeouts == connected => fails < MaxFailures

(***************************************************************************)
(* display_manager_refresh finds a panel that is back on the bus, by its   *)
(* probe every LCD_RETRY_INTERVAL calls, and then gets every row out,      *)
(* those included that changed while it was away.                          *)
(***************************************************************************)
UpToDate == place = "idle" /\ connected /\ front = back
CatchesUp == <>[]bus => []<>UpToDate
=============================================================================
