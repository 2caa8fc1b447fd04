--------------------------- MODULE DisplayProofs ---------------------------
(***************************************************************************)
(* The LCD driver for any number of rows, limit of failures and retry      *)
(* interval, whatever the cable does.                                      *)
(***************************************************************************)
EXTENDS Display, TLAPS

(***************************************************************************)
(* Where the driver is says what it knows: before its probe nothing has    *)
(* failed yet, during the initialisation no more than it has sent, and it  *)
(* sends rows only while connected.                                        *)
(***************************************************************************)
PlaceInv ==
    /\ place = "boot" => fails = 0 /\ n = 0 /\ ~ready
    /\ place = "init" => fails <= n /\ n <= InitTransfers
    /\ place = "rows" => connected /\ n <= LcdRows

DispInv == DispTypeOK /\ PlaceInv /\ FewTimeouts

LEMMA DispInvInit == DispInit => DispInv
  <1> SUFFICES ASSUME DispInit PROVE DispInv
    OBVIOUS
  <1> USE DisplayAssumption
  <1>1. fails \in 0 .. InitTransfers + MaxFailures /\ refreshes \in 0 .. RetryInterval - 1
        /\ n \in 0 .. InitTransfers + LcdRows
    BY DEF DispInit
  <1>2. front \in [Rows -> Contents] /\ back \in [Rows -> Contents]
        /\ panel \in [Rows -> Contents \cup {Garbage}]
    BY DEF DispInit, All, Contents
  <1>3. DispTypeOK BY <1>1, <1>2, Zenon DEF DispInit, DispTypeOK
  <1>4. PlaceInv /\ FewTimeouts BY DEF DispInit, PlaceInv, FewTimeouts
  <1> QED BY <1>3, <1>4 DEF DispInv

(***************************************************************************)
(* lcd_i2c_write_buf adds at most one failure and disconnects in time.     *)
(***************************************************************************)
LEMMA WriteBufStep ==
    ASSUME DispInv, WriteBuf
    PROVE  /\ connected' \in BOOLEAN /\ fails' \in 0 .. fails + 1
           /\ connected' => connected /\ fails' < MaxFailures
  <1>1. fails \in Nat /\ connected \in BOOLEAN /\ (connected => fails < MaxFailures)
        /\ MaxFailures \in Nat \ {0}
    BY DisplayAssumption DEF DispInv, DispTypeOK, FewTimeouts
  <1>2. CASE bus BY <1>1, <1>2 DEF WriteBuf
  <1>3. CASE ~bus
    <2>1. fails' = fails + 1 /\ connected' = (connected /\ ~FailsLimit)
      BY <1>3 DEF WriteBuf
    <2>2. connected' \in BOOLEAN /\ (connected' => connected /\ ~FailsLimit)
      BY <2>1, <1>1
    <2> QED BY <1>1, <2>1, <2>2 DEF FailsLimit
  <1> QED BY <1>2, <1>3

LEMMA DispInvStep == DispInv /\ [DispNext]_dispVars => DispInv'
  <1> SUFFICES ASSUME DispInv, [DispNext]_dispVars PROVE DispInv'
    OBVIOUS
  <1> USE DisplayAssumption DEF DispInv, PlaceInv, FewTimeouts, buffers, outside
  <1>1. CASE ProbeAtBoot BY <1>1 DEF ProbeAtBoot, DispTypeOK
  <1>2. CASE InitTransfer
    <2>1. connected' \in BOOLEAN /\ fails' \in 0 .. fails + 1
          /\ (connected' => fails' < MaxFailures)
      BY <1>2, WriteBufStep DEF InitTransfer
    <2>2. fails' \in 0 .. InitTransfers + MaxFailures
          /\ n' \in 0 .. InitTransfers + LcdRows /\ fails' <= n' /\ n' <= InitTransfers
      BY <1>2, <2>1 DEF InitTransfer, DispTypeOK
    <2>3. ready' \in BOOLEAN BY <1>2 DEF InitTransfer, DispTypeOK
    <2> QED BY <1>2, <2>1, <2>2, <2>3 DEF InitTransfer, DispTypeOK
  <1>3. CASE FinishInit
    <2>1. front' \in [Rows -> Contents] /\ back' \in [Rows -> Contents]
          /\ panel' \in [Rows -> Contents \cup {Garbage}]
      BY <1>3 DEF FinishInit, All, Contents, DispTypeOK
    <2> QED BY <1>3, <2>1 DEF FinishInit, DispTypeOK
  <1>4. CASE Receive
    <2>1. PICK r \in Rows, text \in Texts : SetRow(r, text) BY <1>4 DEF Receive
    <2>2. back' \in [Rows -> Contents] BY <2>1 DEF SetRow, DispTypeOK, Contents
    <2> QED BY <2>1, <2>2 DEF SetRow, DispTypeOK
  <1>5. CASE RefreshDisconnected
    <2>1. refreshes' \in 0 .. RetryInterval - 1
      BY <1>5 DEF RefreshDisconnected, RefreshesCounted, DispTypeOK
    <2>2. connected' \in BOOLEAN /\ fails' \in 0 .. InitTransfers + MaxFailures
          /\ (connected' => fails' < MaxFailures)
      <3>1. CASE RetryDue
        BY <1>5, <3>1 DEF RefreshDisconnected, FailsAfterRetry, DispTypeOK
      <3>2. CASE ~RetryDue BY <1>5, <3>2 DEF RefreshDisconnected, DispTypeOK
      <3> QED BY <3>1, <3>2
    <2> QED BY <1>5, <2>1, <2>2 DEF RefreshDisconnected, DispTypeOK
  <1>6. CASE BeginRefresh BY <1>6 DEF BeginRefresh, DispTypeOK
  <1>7. CASE SkipRow BY <1>7 DEF SkipRow, DispTypeOK
  <1>8. CASE SendRow
    <2>1. connected' \in BOOLEAN /\ fails' \in 0 .. fails + 1
          /\ (connected' => fails' < MaxFailures)
      BY <1>8, WriteBufStep DEF SendRow
    <2>2. fails' \in 0 .. InitTransfers + MaxFailures
      BY <1>8, <2>1 DEF SendRow, DispTypeOK
    <2>3. n \in Rows /\ back[n] \in Contents
      BY <1>8 DEF SendRow, DispTypeOK, Rows
    <2>4. front' \in [Rows -> Contents]
      BY <1>8, <2>3 DEF SendRow, RecordIfConnected, DispTypeOK
    <2>5. panel' \in [Rows -> Contents \cup {Garbage}]
      BY <1>8, <2>3 DEF SendRow, Transferred, DispTypeOK
    <2>6. skipped' \subseteq Rows BY <1>8, <2>3 DEF SendRow, DispTypeOK
    <2>7. n' \in 0 .. InitTransfers + LcdRows
          /\ place' \in {"idle", "rows"} /\ (place' = "rows" => connected' /\ n' <= LcdRows)
      BY <1>8 DEF SendRow, DispTypeOK
    <2> QED
      BY <1>8, <2>1, <2>2, <2>4, <2>5, <2>6, <2>7 DEF SendRow, DispTypeOK
  <1>9. CASE EndRefresh BY <1>9 DEF EndRefresh, DispTypeOK
  <1>10. CASE CableOff
    <2>1. ready \in BOOLEAN BY DEF DispTypeOK
    <2>2. ready' \in BOOLEAN /\ (ready' => ready)
      <3>1. CASE UNCHANGED <<ready, panel>>
        <4>1. ready' = ready BY <3>1
        <4> QED BY <4>1, <2>1, Zenon
      <3>2. CASE ready' = FALSE BY <3>2
      <3> QED BY <1>10, <3>1, <3>2 DEF CableOff
    <2>3. panel' \in [Rows -> Contents \cup {Garbage}]
      BY <1>10 DEF CableOff, All, DispTypeOK
    <2> QED BY <1>10, <2>2, <2>3 DEF CableOff, DispTypeOK
  <1>11. CASE CableOn BY <1>11 DEF CableOn, DispTypeOK
  <1>12. CASE UNCHANGED dispVars BY <1>12 DEF dispVars, DispTypeOK
  <1> QED
    BY <1>1, <1>2, <1>3, <1>4, <1>5, <1>6, <1>7, <1>8, <1>9, <1>10, <1>11, <1>12
    DEF DispNext, Driver

LEMMA DispInvHolds == DispSpec => []DispInv
  BY DispInvInit, DispInvStep, PTL DEF DispSpec

(***************************************************************************)
(* The driver's counters and buffers stay within their types.              *)
(***************************************************************************)
THEOREM DispTypeCorrect == DispSpec => []DispTypeOK
  <1>1. DispInv => DispTypeOK BY DEF DispInv
  <1> QED BY <1>1, DispInvHolds, PTL

(***************************************************************************)
(* A connected driver has failed fewer than LCD_MAX_FAILURES times in a    *)
(* row, for every limit and however often the cable fails.                 *)
(***************************************************************************)
THEOREM FewTimeoutsHolds == DispSpec => []FewTimeouts
  <1>1. DispInv => FewTimeouts BY DEF DispInv
  <1> QED BY <1>1, DispInvHolds, PTL

-----------------------------------------------------------------------------
LEMMA FrontIsShownStep ==
    DispInv /\ FrontIsShown /\ [DispNext]_dispVars => FrontIsShown'
  <1> SUFFICES ASSUME DispInv, FrontIsShown, [DispNext]_dispVars PROVE FrontIsShown'
    OBVIOUS
  <1> USE DEF FrontIsShown, buffers, outside
  <1>1. CASE ProbeAtBoot BY <1>1 DEF ProbeAtBoot, DispInv, PlaceInv
  <1>2. CASE InitTransfer BY <1>2 DEF InitTransfer
  <1>3. CASE FinishInit BY <1>3 DEF FinishInit, All
  <1>4. CASE Receive BY <1>4 DEF Receive, SetRow
  <1>5. CASE RefreshDisconnected BY <1>5 DEF RefreshDisconnected
  <1>6. CASE BeginRefresh BY <1>6 DEF BeginRefresh
  <1>7. CASE SkipRow BY <1>7 DEF SkipRow
  <1>8. CASE SendRow
    <2> SUFFICES ASSUME ready', NEW r \in Rows
                 PROVE  panel'[r] \in {front'[r], Garbage} \/ r \in skipped'
      OBVIOUS
    <2>1. ready /\ (panel[r] \in {front[r], Garbage} \/ r \in skipped)
      BY <1>8 DEF SendRow
    <2>2. front \in [Rows -> Contents] /\ panel \in [Rows -> Contents \cup {Garbage}]
      BY DEF DispInv, DispTypeOK
    <2>3. connected BY <1>8 DEF SendRow, DispInv, PlaceInv
    <2>4. CASE bus
      <3>1. connected' BY <1>8, <2>3, <2>4 DEF SendRow, WriteBuf
      <3>2. /\ panel' = [panel EXCEPT ![n] = back[n]]
            /\ front' = [front EXCEPT ![n] = back[n]]
            /\ skipped' = skipped \ {n}
        BY <1>8, <2>1, <2>4, <3>1 DEF SendRow, Transferred, RecordIfConnected
      <3> QED BY <2>1, <2>2, <3>2
    <2>5. CASE ~bus
      <3>1. PICK shown \in {panel[n], Garbage} : panel' = [panel EXCEPT ![n] = shown]
        BY <1>8, <2>5 DEF SendRow, Transferred
      <3>2. CASE connected'
        <4>1. skipped' = skipped \cup {n} /\ front' = [front EXCEPT ![n] = back[n]]
          BY <1>8, <2>5, <3>2 DEF SendRow, RecordIfConnected
        <4> QED BY <2>1, <2>2, <3>1, <4>1
      <3>3. CASE ~connected'
        <4>1. skipped' = skipped /\ front' = front
          BY <1>8, <2>5, <3>3 DEF SendRow, RecordIfConnected
        <4> QED BY <2>1, <2>2, <3>1, <4>1
      <3> QED BY <3>2, <3>3
    <2> QED BY <2>4, <2>5
  <1>9. CASE EndRefresh BY <1>9 DEF EndRefresh
  <1>10. CASE CableOff BY <1>10 DEF CableOff
  <1>11. CASE CableOn BY <1>11 DEF CableOn
  <1>12. CASE UNCHANGED dispVars BY <1>12 DEF dispVars
  <1> QED
    BY <1>1, <1>2, <1>3, <1>4, <1>5, <1>6, <1>7, <1>8, <1>9, <1>10, <1>11, <1>12
    DEF DispNext, Driver

(***************************************************************************)
(* Outside the two named cases, front_buf tells what the panel shows, so   *)
(* comparing with it skips no row that still has to be sent.               *)
(***************************************************************************)
THEOREM FrontIsShownHolds == DispSpec => []FrontIsShown
  <1>1. DispInit => FrontIsShown BY DEF DispInit, FrontIsShown
  <1> QED BY <1>1, FrontIsShownStep, DispInvHolds, PTL DEF DispSpec
=============================================================================
