------------------------- MODULE HeadsetPower_proofs -------------------------
(***************************************************************************)
(* Proofs about HeadsetPower, for all lengths of its timers that satisfy   *)
(* HeadsetPowerAssumption.                                                 *)
(***************************************************************************)
EXTENDS HeadsetPower, TLAPS

\* Where the headset can be while a charge is waited for, has ended, or is none.
ChargerInv ==
  /\ ChargerLockAccounted
  /\ chargerIn # Off \/ stranded => top \in {"POWER_ON", "WAIT_POWER_OFF"}
  /\ charger = "full" => top = "CHARGER_IN"
  /\ m0 \in {"start", "off"} => top = "POWER_OFF"
  /\ m0 = "restart" => top \in {"CHARGER_IN", "WAIT_POWER_ON"} /\ charger # "full"

\* While the headset waits to go off it cannot do so early, and the hand-over ends
\* before the wait does.
HandOverInv ==
  /\ handOver >= Off /\ handOver < WaitTicks
  /\ top = "WAIT_POWER_OFF" => "HIBER" \in lpm /\ auto >= 0 /\ handOver < auto

IInv == TypeOK /\ ChargerInv /\ HandOverInv

\* The type invariant in two parts, one of them for the Boolean variables.
Flags == busy \in BOOLEAN /\ plugged \in BOOLEAN /\ stranded \in BOOLEAN

Values ==
  /\ m0 \in {"start", "restart", "run", "off"} /\ top \in TopState
  /\ second \in {"IDLE", "CONNECTED"} /\ third \in {"IDLE", "DISCOVERABLE"} /\ tws \in TwsState
  /\ lpm \subseteq {"CHARGER", "LINK", "HIBER"}
  /\ auto \in Int /\ chargerIn \in Int /\ handOver \in Int
  /\ charger \in {"off", "check", "full"} /\ chg \in {"CHARGING", "FULL", "STOP"}
  /\ checks \in Nat /\ rises \in 0 .. MaxRises
-----------------------------------------------------------------------------
LEMMA TwsAfterType == \A e \in DOMAIN TwsAfter : TwsAfter[e] \in TwsState
BY DEF TwsState

LEMMA TwsStates == {"IDLE", "SLAVE_CONNECTED", "MASTER_CONNECTED"} \subseteq TwsState
<1>1. "TWS_EVT_TWS_NONE" \in DOMAIN TwsAfter /\ TwsAfter["TWS_EVT_TWS_NONE"] = "IDLE"
  BY DEF TwsAfter
<1> QED BY <1>1, TwsAfterType DEF TwsState, Paired

\* The initial states satisfy the inductive invariant.
LEMMA InitInv ==
  ASSUME HeadsetPowerAssumption, Init
  PROVE  IInv
<1>1. TypeOK
  <2>1. Values
    BY TwsStates DEF HeadsetPowerAssumption, Init, Values, TopState, Off
  <2>2. Flags
    BY Zenon DEF Init, Flags
  <2> QED BY <2>1, <2>2 DEF TypeOK, Values, Flags
<1>2. ChargerInv
  BY DEF Init, ChargerInv, ChargerLockAccounted, Off
<1>3. HandOverInv
  BY DEF HeadsetPowerAssumption, Init, HandOverInv, Off
<1> QED BY <1>1, <1>2, <1>3 DEF IInv

LEMMA WaitPwroffValues ==
  ASSUME HeadsetPowerAssumption, Values, NEW role, NEW locks \in SUBSET {"CHARGER", "LINK", "HIBER"},
         Bt_SndCmdWaitPwroff(role, locks)
  PROVE  /\ lpm' \subseteq {"CHARGER", "LINK", "HIBER"}
         /\ top' \in TopState /\ auto' \in Int /\ handOver' \in Int
<1>1. CASE top # "POWER_ON"
  BY <1>1 DEF Values, Bt_SndCmdWaitPwroff
<1>2. CASE top = "POWER_ON"
  <2>1. lpm' \subseteq {"CHARGER", "LINK", "HIBER"}
    BY <1>2, Zenon DEF Bt_SndCmdWaitPwroff
  <2>2. top' \in TopState /\ auto' \in Int /\ handOver' \in Int
    BY <1>2 DEF HeadsetPowerAssumption, Values, Bt_SndCmdWaitPwroff, TopState
  <2> QED BY <2>1, <2>2
<1> QED BY <1>1, <1>2

LEMMA ChargerInValues ==
  ASSUME Values, Bat_CbChargerIn \/ FullAtOnce
  PROVE  /\ lpm' \subseteq {"CHARGER", "LINK", "HIBER"} /\ top' \in TopState
         /\ charger' \in {"off", "check", "full"} /\ chg' \in {"CHARGING", "FULL", "STOP"}
         /\ checks' \in Nat /\ rises' \in 0 .. MaxRises
<1>1. lpm' \subseteq {"CHARGER", "LINK", "HIBER"}
  BY Zenon DEF Values, Bat_CbChargerIn, FullAtOnce
<1>2. /\ charger' \in {"check", "full"} /\ top' = "CHARGER_IN" /\ checks' = 0
      /\ rises' = rises /\ chg' \in {chg, "FULL"}
  BY DEF Bat_CbChargerIn, FullAtOnce, Bat_CbChargerFull
<1> QED BY <1>1, <1>2 DEF Values, TopState

LEMMA ValuesStep ==
  ASSUME HeadsetPowerAssumption, Values, [Next]_vars
  PROVE  Values'
<1>1. CASE Bt_CheckWaitPwroff
  BY <1>1 DEF Bt_CheckWaitPwroff, Bt_SndCmdPwroff, Values, TopState, Off, link, env, charge
<1>2. CASE KeyPowerOnOff
  <2>1. lpm \in SUBSET {"CHARGER", "LINK", "HIBER"}
    BY DEF Values
  <2>2. CASE Bt_SndCmdWaitPwroff(tws, lpm)
    BY <1>2, <2>1, <2>2, WaitPwroffValues DEF KeyPowerOnOff, Values, link, charge
  <2>3. CASE top = "WAIT_POWER_ON" /\ top' = "POWER_ON" /\ auto' = Idle /\ UNCHANGED << lpm, handOver >>
    BY <1>2, <2>3 DEF KeyPowerOnOff, Values, TopState, Idle, link, charge
  <2> QED BY <1>2, <2>2, <2>3 DEF KeyPowerOnOff
<1>3. CASE Bat_polling /\ HandsOver
  BY <1>3 DEF Bat_polling, HandsOver, HeadsetPowerAssumption, Values, Off, link, env, charge
<1>4. CASE Bat_polling /\ EntersCharger
  BY <1>4, ChargerInValues DEF Bat_polling, EntersCharger, Values, link
<1>5. CASE Bat_polling /\ FindsFull
  BY <1>5 DEF Bat_polling, FindsFull, Bat_CbChargerFull, Values, Off, link, env
<1>6. CASE Bat_polling /\ LeavesCharger
  BY <1>6 DEF Bat_polling, LeavesCharger, Bat_ExitChargerIn, Bt_SndCmdPwroff, Values, TopState,
     Off, link, env
<1>7. CASE BT_EVT_BB_DISCONNECTED
  BY <1>7 DEF BT_EVT_BB_DISCONNECTED, Listens, Values, Idle, env, charge
<1>8. CASE BT_EVT_ENTER_DISCOVERABLE
  BY <1>8 DEF BT_EVT_ENTER_DISCOVERABLE, Listens, Values, Off, Idle, env, charge
<1>9. CASE BT_EVT_EXIT_DISCOVERABLE
  BY <1>9 DEF BT_EVT_EXIT_DISCOVERABLE, Listens, Values, env, charge
<1>10. CASE Connected
  BY <1>10, TwsStates DEF Connected, Listens, Values, Off, env, charge
<1>11. CASE TwsReport
  BY <1>11, TwsAfterType, TwsStates DEF TwsReport, Listens, Values, env, charge
<1>12. CASE TWS_SYNC_EVT_POWR_OFF
  BY <1>12, TwsStates, WaitPwroffValues, ChargerInValues DEF TWS_SYNC_EVT_POWR_OFF, Listens,
     HeadsetPowerAssumption, Values, TopState, Off, env, charge
<1>13. CASE TWS_SYNC_EVT_MASTER_SWITCH
  <2>1. CASE Bat_CbChargerIn
    BY <1>13, <2>1, ChargerInValues DEF TWS_SYNC_EVT_MASTER_SWITCH, Values, link, Off
  <2>2. CASE handOver' = TakeOverTicks /\ UNCHANGED << top, lpm, chargerIn, charge >>
    BY <1>13, <2>2 DEF TWS_SYNC_EVT_MASTER_SWITCH, HeadsetPowerAssumption, Values, link, charge
  <2> QED BY <1>13, <2>1, <2>2 DEF TWS_SYNC_EVT_MASTER_SWITCH
<1>14. CASE Bt_CBIdleTimeout
  <2>1. lpm \in SUBSET {"CHARGER", "LINK", "HIBER"}
    BY DEF Values
  <2>2. CASE top = "POWER_ON"
    BY <1>14, <2>1, <2>2, WaitPwroffValues DEF Bt_CBIdleTimeout, Values, link, charge
  <2>3. CASE top # "POWER_ON"
    BY <1>14, <2>3 DEF Bt_CBIdleTimeout, Values, Off, link, charge
  <2> QED BY <2>2, <2>3
<1>15. CASE Bt_CBAutoPwroff
  <2>1. lpm \in SUBSET {"CHARGER", "LINK", "HIBER"}
    BY DEF Values
  <2>2. CASE Bt_SndCmdWaitPwroff(tws, lpm) /\ UNCHANGED m0
    BY <1>15, <2>1, <2>2, WaitPwroffValues DEF Bt_CBAutoPwroff, Values, link, charge
  <2>3. CASE auto' = RetryTicks /\ UNCHANGED << m0, top, lpm, handOver >>
    BY <1>15, <2>3 DEF Bt_CBAutoPwroff, HeadsetPowerAssumption, Values, link, charge
  <2>4. CASE auto' = Off /\ UNCHANGED << lpm, handOver >>
             /\ (Bt_SndCmdPwroff \/ UNCHANGED << m0, top >>)
    BY <1>15, <2>4 DEF Bt_CBAutoPwroff, Bt_SndCmdPwroff, Values, TopState, Off, link, charge
  <2> QED BY <1>15, <2>2, <2>3, <2>4 DEF Bt_CBAutoPwroff
<1>16. CASE ChargerInExpires
  BY <1>16, ChargerInValues DEF ChargerInExpires, Values, TopState, Off, link, env
<1>17. CASE HandOverExpires
  BY <1>17 DEF HandOverExpires, Values, Off, link, env, charge
<1>18. CASE Bat_CbCheckVol
  BY <1>18 DEF Bat_CbCheckVol, Bat_CbChargerFull, HeadsetPowerAssumption, Values, link, env
<1>19. CASE Bat_CbEnterPowerOff
  BY <1>19 DEF Bat_CbEnterPowerOff, Bat_ExitChargerIn, Bt_SndCmdPwroff, Values, TopState, link,
     env
<1>20. CASE Bt_Reset
  BY <1>20, ChargerInValues DEF Bt_Reset, Values, TopState, link, env, charge
<1>21. CASE BT_EVT_RESTART
  <2>1. CASE plugged
    BY <1>21, <2>1, ChargerInValues DEF BT_EVT_RESTART, Values, Idle, link
  <2>2. CASE ~ plugged
    <3>1. UNCHANGED << charger, chg, checks, rises, lpm, chargerIn, handOver, second, third, tws >>
      BY <1>21, <2>2, Zenon DEF BT_EVT_RESTART, link
    <3>2. top' = "POWER_ON" /\ auto' = Idle /\ m0' = "run"
      BY <1>21, <2>2, Zenon DEF BT_EVT_RESTART
    <3> QED BY <3>1, <3>2 DEF Values, TopState, Idle
  <2> QED BY <2>1, <2>2
<1>22. CASE Wakeup
  BY <1>22, TwsStates DEF Wakeup, Values, Off, env
<1>23. CASE Tick
  BY <1>23 DEF Tick, Counted, Down, Values, link, env, charge
<1>24. CASE Surroundings
  BY <1>24 DEF Surroundings, Values, link, charge
<1>25. CASE UNCHANGED vars
  BY <1>25 DEF vars, link, env, charge, Values
<1> QED
  BY <1>1, <1>2, <1>3, <1>4, <1>5, <1>6, <1>7, <1>8, <1>9, <1>10, <1>11, <1>12, <1>13, <1>14,
     <1>15, <1>16, <1>17, <1>18, <1>19, <1>20, <1>21, <1>22, <1>23, <1>24, <1>25
     DEF Next, Timeout, CoreReport, Bat_polling

LEMMA FlagsStep ==
  ASSUME Flags, [Next]_vars
  PROVE  Flags'
<1>1. CASE Bt_CheckWaitPwroff
  BY <1>1, Zenon DEF Bt_CheckWaitPwroff, Bt_SndCmdPwroff, Flags, env, charge
<1>2. CASE KeyPowerOnOff
  BY <1>2, Zenon DEF KeyPowerOnOff, Bt_SndCmdWaitPwroff, Flags, env, charge
<1>3. CASE Bat_polling /\ HandsOver
  BY <1>3, Zenon DEF Bat_polling, HandsOver, Flags, env, charge
<1>4. CASE Bat_polling /\ EntersCharger
  BY <1>4, Zenon DEF Bat_polling, EntersCharger, FullAtOnce, Bat_CbChargerIn,
     Bat_CbChargerFull, Flags, env
<1>5. CASE Bat_polling /\ FindsFull
  BY <1>5, Zenon DEF Bat_polling, FindsFull, Bat_CbChargerFull, Flags, env
<1>6. CASE Bat_polling /\ LeavesCharger
  BY <1>6, Zenon DEF Bat_polling, LeavesCharger, Bat_ExitChargerIn, Bt_SndCmdPwroff, Flags, env
<1>7. CASE BT_EVT_BB_DISCONNECTED
  BY <1>7, Zenon DEF BT_EVT_BB_DISCONNECTED, Listens, Flags, env, charge
<1>8. CASE BT_EVT_ENTER_DISCOVERABLE
  BY <1>8, Zenon DEF BT_EVT_ENTER_DISCOVERABLE, Listens, Flags, env, charge
<1>9. CASE BT_EVT_EXIT_DISCOVERABLE
  BY <1>9, Zenon DEF BT_EVT_EXIT_DISCOVERABLE, Listens, Flags, env, charge
<1>10. CASE Connected
  BY <1>10, Zenon DEF Connected, Listens, Flags, env, charge
<1>11. CASE TwsReport
  BY <1>11, Zenon DEF TwsReport, Listens, Flags, env, charge
<1>12. CASE TWS_SYNC_EVT_POWR_OFF
  BY <1>12, Zenon DEF TWS_SYNC_EVT_POWR_OFF, Listens, Bat_CbChargerIn, Bt_SndCmdWaitPwroff,
     Flags, env, charge
<1>13. CASE TWS_SYNC_EVT_MASTER_SWITCH
  BY <1>13, Zenon DEF TWS_SYNC_EVT_MASTER_SWITCH, Listens, Bat_CbChargerIn, Flags, env, charge
<1>14. CASE Bt_CBIdleTimeout
  BY <1>14, Zenon DEF Bt_CBIdleTimeout, Bt_SndCmdWaitPwroff, Flags, env, charge
<1>15. CASE Bt_CBAutoPwroff
  BY <1>15, Zenon DEF Bt_CBAutoPwroff, Bt_SndCmdWaitPwroff, Bt_SndCmdPwroff, Flags, env, charge
<1>16. CASE ChargerInExpires
  BY <1>16, Zenon DEF ChargerInExpires, Bat_CbChargerIn, Flags, env
<1>17. CASE HandOverExpires
  BY <1>17, Zenon DEF HandOverExpires, Flags, env, charge
<1>18. CASE Bat_CbCheckVol
  BY <1>18, Zenon DEF Bat_CbCheckVol, Bat_CbChargerFull, Flags, env
<1>19. CASE Bat_CbEnterPowerOff
  BY <1>19, Zenon DEF Bat_CbEnterPowerOff, Bat_ExitChargerIn, Bt_SndCmdPwroff, Flags, env
<1>20. CASE Bt_Reset
  BY <1>20, Zenon DEF Bt_Reset, Bat_CbChargerIn, Flags, env, charge
<1>21. CASE BT_EVT_RESTART
  <2>1. CASE plugged
    BY <1>21, <2>1, Zenon DEF BT_EVT_RESTART, FullAtOnce, Bat_CbChargerIn, Bat_CbChargerFull,
       Flags, env
  <2>2. CASE ~ plugged
    <3>1. stranded' = ("CHARGER" \in lpm) /\ UNCHANGED << busy, plugged >>
      BY <1>21, <2>2, Zenon DEF BT_EVT_RESTART, env
    <3>2. ("CHARGER" \in lpm) \in BOOLEAN
      OBVIOUS
    <3> QED BY <3>1, <3>2, Zenon DEF Flags
  <2> QED BY <2>1, <2>2
<1>22. CASE Wakeup
  BY <1>22, Zenon DEF Wakeup, Flags, env
<1>23. CASE Tick
  BY <1>23, Zenon DEF Tick, Counted, Down, Flags, env, charge
<1>24. CASE Surroundings
  BY <1>24, Zenon DEF Surroundings, Flags, charge
<1>25. CASE UNCHANGED vars
  BY <1>25 DEF vars, link, env, charge, Flags
<1> QED
  BY <1>1, <1>2, <1>3, <1>4, <1>5, <1>6, <1>7, <1>8, <1>9, <1>10, <1>11, <1>12, <1>13, <1>14,
     <1>15, <1>16, <1>17, <1>18, <1>19, <1>20, <1>21, <1>22, <1>23, <1>24, <1>25
     DEF Next, Timeout, CoreReport, Bat_polling

LEMMA TypeStep ==
  ASSUME HeadsetPowerAssumption, TypeOK, [Next]_vars
  PROVE  TypeOK'
BY ValuesStep, FlagsStep DEF TypeOK, Values, Flags

LEMMA ChargerStep ==
  ASSUME HeadsetPowerAssumption, TypeOK, ChargerInv, HandOverInv, [Next]_vars
  PROVE  ChargerInv'
<1>1. CASE Bt_CheckWaitPwroff
  BY <1>1 DEF Bt_CheckWaitPwroff, Bt_SndCmdPwroff, TypeOK, ChargerInv, ChargerLockAccounted,
     Off, charge
<1>2. CASE KeyPowerOnOff
  BY <1>2 DEF KeyPowerOnOff, Bt_SndCmdWaitPwroff, HeadsetPowerAssumption, TypeOK, ChargerInv,
     ChargerLockAccounted, Off, charge
<1>3. CASE Bat_polling /\ HandsOver
  BY <1>3 DEF Bat_polling, HandsOver, HeadsetPowerAssumption, TypeOK, ChargerInv,
     ChargerLockAccounted, Off, charge
<1>4. CASE Bat_polling /\ EntersCharger
  BY <1>4 DEF Bat_polling, EntersCharger, FullAtOnce, Bat_CbChargerIn, Bat_CbChargerFull,
     TypeOK, ChargerInv, ChargerLockAccounted, Off
<1>5. CASE Bat_polling /\ FindsFull
  BY <1>5 DEF Bat_polling, FindsFull, Bat_CbChargerFull, TypeOK, ChargerInv,
     ChargerLockAccounted, Off
<1>6. CASE Bat_polling /\ LeavesCharger
  BY <1>6 DEF Bat_polling, LeavesCharger, Bat_ExitChargerIn, Bt_SndCmdPwroff, TypeOK,
     ChargerInv, ChargerLockAccounted, Off
<1>7. CASE BT_EVT_BB_DISCONNECTED
  BY <1>7 DEF BT_EVT_BB_DISCONNECTED, Listens, TypeOK, ChargerInv, ChargerLockAccounted, Off,
     charge
<1>8. CASE BT_EVT_ENTER_DISCOVERABLE
  BY <1>8 DEF BT_EVT_ENTER_DISCOVERABLE, Listens, TypeOK, ChargerInv, ChargerLockAccounted,
     Off, charge
<1>9. CASE BT_EVT_EXIT_DISCOVERABLE
  BY <1>9 DEF BT_EVT_EXIT_DISCOVERABLE, Listens, TypeOK, ChargerInv, ChargerLockAccounted, Off,
     charge
<1>10. CASE Connected
  BY <1>10 DEF Connected, Listens, TypeOK, ChargerInv, ChargerLockAccounted, Off, charge
<1>11. CASE TwsReport
  BY <1>11 DEF TwsReport, Listens, TypeOK, ChargerInv, ChargerLockAccounted, Off, charge
<1>12. CASE TWS_SYNC_EVT_POWR_OFF
  BY <1>12 DEF TWS_SYNC_EVT_POWR_OFF, Listens, Bat_CbChargerIn, Bt_SndCmdWaitPwroff,
     HeadsetPowerAssumption, TypeOK, ChargerInv, ChargerLockAccounted, Off, charge
<1>13. CASE TWS_SYNC_EVT_MASTER_SWITCH
  BY <1>13 DEF TWS_SYNC_EVT_MASTER_SWITCH, Listens, Bat_CbChargerIn, HeadsetPowerAssumption,
     TypeOK, ChargerInv, ChargerLockAccounted, Off, charge
<1>14. CASE Bt_CBIdleTimeout
  BY <1>14 DEF Bt_CBIdleTimeout, Bt_SndCmdWaitPwroff, HeadsetPowerAssumption, TypeOK,
     ChargerInv, ChargerLockAccounted, Off, charge
<1>15. CASE Bt_CBAutoPwroff
  BY <1>15 DEF Bt_CBAutoPwroff, Bt_SndCmdWaitPwroff, Bt_SndCmdPwroff, HeadsetPowerAssumption,
     TypeOK, ChargerInv, ChargerLockAccounted, Off, charge
<1>16. CASE ChargerInExpires
  BY <1>16 DEF ChargerInExpires, Bat_CbChargerIn, TypeOK, ChargerInv, ChargerLockAccounted, Off
<1>17. CASE HandOverExpires
  BY <1>17 DEF HandOverExpires, TypeOK, ChargerInv, ChargerLockAccounted, Off, charge
<1>18. CASE Bat_CbCheckVol
  BY <1>18 DEF Bat_CbCheckVol, Bat_CbChargerFull, HeadsetPowerAssumption, TypeOK, ChargerInv,
     ChargerLockAccounted, Off
<1>19. CASE Bat_CbEnterPowerOff
  BY <1>19 DEF Bat_CbEnterPowerOff, Bat_ExitChargerIn, Bt_SndCmdPwroff, TypeOK, ChargerInv,
     ChargerLockAccounted, Off
<1>20. CASE Bt_Reset
  BY <1>20 DEF Bt_Reset, Bat_CbChargerIn, TypeOK, ChargerInv, ChargerLockAccounted, Off, charge
<1>21. CASE BT_EVT_RESTART
  <2>1. CASE plugged
    BY <1>21, <2>1 DEF BT_EVT_RESTART, FullAtOnce, Bat_CbChargerIn, Bat_CbChargerFull,
       ChargerInv,
         ChargerLockAccounted
  <2>2. CASE ~ plugged
    <3>1. lpm' = lpm /\ charger' = charger /\ chargerIn' = chargerIn /\ top' = "POWER_ON" /\ m0' = "run"
      BY <1>21, <2>2, Zenon DEF BT_EVT_RESTART
    <3>2. stranded' <=> "CHARGER" \in lpm
      BY <1>21, <2>2, Zenon DEF BT_EVT_RESTART
    <3>3. chargerIn = Off /\ charger # "full"
      BY <1>21 DEF BT_EVT_RESTART, ChargerInv
    <3> QED BY <3>1, <3>2, <3>3 DEF ChargerInv, ChargerLockAccounted
  <2> QED BY <2>1, <2>2
<1>22. CASE Wakeup
  BY <1>22 DEF Wakeup, TypeOK, ChargerInv, ChargerLockAccounted, Off
<1>23. CASE Tick
  BY <1>23 DEF Tick, Counted, Down, TypeOK, ChargerInv, ChargerLockAccounted, Off, charge
<1>24. CASE Surroundings
  BY <1>24 DEF Surroundings, TypeOK, ChargerInv, ChargerLockAccounted, Off, charge
<1>25. CASE UNCHANGED vars
  BY <1>25 DEF vars, link, env, charge, ChargerInv, ChargerLockAccounted
<1> QED
  BY <1>1, <1>2, <1>3, <1>4, <1>5, <1>6, <1>7, <1>8, <1>9, <1>10, <1>11, <1>12, <1>13, <1>14,
     <1>15, <1>16, <1>17, <1>18, <1>19, <1>20, <1>21, <1>22, <1>23, <1>24, <1>25
     DEF Next, Timeout, CoreReport, Bat_polling

LEMMA HandOverStep ==
  ASSUME HeadsetPowerAssumption, TypeOK, ChargerInv, HandOverInv, [Next]_vars
  PROVE  HandOverInv'
<1>1. CASE Bt_CheckWaitPwroff
  BY <1>1 DEF Bt_CheckWaitPwroff, Bt_SndCmdPwroff, TypeOK, ChargerInv, HandOverInv, Off
<1>2. CASE KeyPowerOnOff
  BY <1>2 DEF KeyPowerOnOff, Bt_SndCmdWaitPwroff, HeadsetPowerAssumption, TypeOK, ChargerInv,
     HandOverInv, Off, Idle
<1>3. CASE Bat_polling /\ HandsOver
  BY <1>3 DEF Bat_polling, HandsOver, HeadsetPowerAssumption, TypeOK, ChargerInv, HandOverInv,
     Off
<1>4. CASE Bat_polling /\ EntersCharger
  BY <1>4 DEF Bat_polling, EntersCharger, FullAtOnce, Bat_CbChargerIn, Bat_CbChargerFull,
     TypeOK, ChargerInv, HandOverInv, Off
<1>5. CASE Bat_polling /\ FindsFull
  BY <1>5 DEF Bat_polling, FindsFull, Bat_CbChargerFull, TypeOK, ChargerInv, HandOverInv, Off
<1>6. CASE Bat_polling /\ LeavesCharger
  BY <1>6 DEF Bat_polling, LeavesCharger, Bat_ExitChargerIn, Bt_SndCmdPwroff, TypeOK,
     ChargerInv, HandOverInv, Off
<1>7. CASE BT_EVT_BB_DISCONNECTED
  BY <1>7 DEF BT_EVT_BB_DISCONNECTED, Listens, TypeOK, ChargerInv, HandOverInv, Off, Idle
<1>8. CASE BT_EVT_ENTER_DISCOVERABLE
  BY <1>8 DEF BT_EVT_ENTER_DISCOVERABLE, Listens, TypeOK, ChargerInv, HandOverInv, Off, Idle
<1>9. CASE BT_EVT_EXIT_DISCOVERABLE
  BY <1>9 DEF BT_EVT_EXIT_DISCOVERABLE, Listens, TypeOK, ChargerInv, HandOverInv, Off
<1>10. CASE Connected
  BY <1>10 DEF Connected, Listens, TypeOK, ChargerInv, HandOverInv, Off
<1>11. CASE TwsReport
  BY <1>11 DEF TwsReport, Listens, TypeOK, ChargerInv, HandOverInv, Off
<1>12. CASE TWS_SYNC_EVT_POWR_OFF
  BY <1>12 DEF TWS_SYNC_EVT_POWR_OFF, Listens, Bat_CbChargerIn, Bt_SndCmdWaitPwroff,
     HeadsetPowerAssumption, TypeOK, ChargerInv, HandOverInv, Off
<1>13. CASE TWS_SYNC_EVT_MASTER_SWITCH
  BY <1>13 DEF TWS_SYNC_EVT_MASTER_SWITCH, Listens, Bat_CbChargerIn, HeadsetPowerAssumption,
     TypeOK, ChargerInv, HandOverInv, Off
<1>14. CASE Bt_CBIdleTimeout
  BY <1>14 DEF Bt_CBIdleTimeout, Bt_SndCmdWaitPwroff, HeadsetPowerAssumption, TypeOK,
     ChargerInv, HandOverInv, Off, Idle
<1>15. CASE Bt_CBAutoPwroff
  BY <1>15 DEF Bt_CBAutoPwroff, Bt_SndCmdWaitPwroff, Bt_SndCmdPwroff, HeadsetPowerAssumption,
     TypeOK, ChargerInv, HandOverInv, Off
<1>16. CASE ChargerInExpires
  BY <1>16 DEF ChargerInExpires, Bat_CbChargerIn, TypeOK, ChargerInv, HandOverInv, Off
<1>17. CASE HandOverExpires
  BY <1>17 DEF HandOverExpires, TypeOK, ChargerInv, HandOverInv, Off
<1>18. CASE Bat_CbCheckVol
  BY <1>18 DEF Bat_CbCheckVol, Bat_CbChargerFull, HeadsetPowerAssumption, TypeOK, ChargerInv,
     HandOverInv, Off
<1>19. CASE Bat_CbEnterPowerOff
  BY <1>19 DEF Bat_CbEnterPowerOff, Bat_ExitChargerIn, Bt_SndCmdPwroff, TypeOK, ChargerInv,
     HandOverInv, Off
<1>20. CASE Bt_Reset
  BY <1>20 DEF Bt_Reset, Bat_CbChargerIn, TypeOK, ChargerInv, HandOverInv, Off
<1>21. CASE BT_EVT_RESTART
  BY <1>21 DEF BT_EVT_RESTART, FullAtOnce, Bat_CbChargerIn, Bat_CbChargerFull, TypeOK,
     ChargerInv, HandOverInv, Off, Idle
<1>22. CASE Wakeup
  BY <1>22 DEF Wakeup, TypeOK, ChargerInv, HandOverInv, Off
<1>23. CASE Tick
  BY <1>23 DEF Tick, Counted, Down, TypeOK, ChargerInv, HandOverInv, Off
<1>24. CASE Surroundings
  BY <1>24 DEF Surroundings, TypeOK, ChargerInv, HandOverInv, Off
<1>25. CASE UNCHANGED vars
  BY <1>25 DEF vars, link, env, charge, HandOverInv
<1> QED
  BY <1>1, <1>2, <1>3, <1>4, <1>5, <1>6, <1>7, <1>8, <1>9, <1>10, <1>11, <1>12, <1>13, <1>14,
     <1>15, <1>16, <1>17, <1>18, <1>19, <1>20, <1>21, <1>22, <1>23, <1>24, <1>25
     DEF Next, Timeout, CoreReport, Bat_polling
-----------------------------------------------------------------------------
\* The inductive invariant holds in every state the headset reaches.
THEOREM Invariance == Spec => []IInv
<1>1. Init => IInv
  BY InitInv, HeadsetPowerAssumption
<1>2. IInv /\ [Next]_vars => IInv'
  BY TypeStep, ChargerStep, HandOverStep, HeadsetPowerAssumption DEF IInv
<1> QED BY <1>1, <1>2, PTL DEF Spec

\* The variables of the headset's power have their types.
THEOREM TypeCorrect == Spec => []TypeOK
BY Invariance, PTL DEF IInv

\* The charger's lock is held exactly while the headset charges or is about to.
THEOREM ChargerLockSafe == Spec => []ChargerLockAccounted
BY Invariance, PTL DEF IInv, ChargerInv

\* Leaving WAIT_POWER_OFF by going off, the phone has been handed over.  Going off from
\* CHARGER_IN is not meant.
THEOREM HandsOverSafe == Spec => HandsOverBeforeOff
<1>1. IInv /\ [Next]_vars => [top = "WAIT_POWER_OFF" /\ top' = "POWER_OFF" => handOver = Off]_vars
  <2> SUFFICES ASSUME IInv, Next, top = "WAIT_POWER_OFF", top' = "POWER_OFF"
               PROVE  handOver = Off
    BY DEF IInv
  <2>1. CASE Bt_CBAutoPwroff
    BY <2>1 DEF IInv, TypeOK, HandOverInv, Bt_CBAutoPwroff, Off
  <2>2. CASE Bt_CheckWaitPwroff
    BY <2>2 DEF IInv, HandOverInv, Bt_CheckWaitPwroff
  <2>3. CASE Bat_CbEnterPowerOff
    BY <2>3 DEF IInv, ChargerInv, Bat_CbEnterPowerOff
  <2>4. CASE Bat_polling
    BY <2>4 DEF Bat_polling, HandsOver, EntersCharger, FullAtOnce, FindsFull, LeavesCharger,
       Bat_CbChargerIn
  <2>5. CASE KeyPowerOnOff \/ Bt_CBIdleTimeout
    BY <2>5 DEF KeyPowerOnOff, Bt_CBIdleTimeout, Bt_SndCmdWaitPwroff
  <2>6. CASE CoreReport
    BY <2>6 DEF CoreReport, Listens, BT_EVT_BB_DISCONNECTED, BT_EVT_ENTER_DISCOVERABLE,
       BT_EVT_EXIT_DISCOVERABLE, Connected, TwsReport, TWS_SYNC_EVT_POWR_OFF,
       TWS_SYNC_EVT_MASTER_SWITCH
  <2>7. CASE ChargerInExpires \/ HandOverExpires \/ Bat_CbCheckVol
    BY <2>7 DEF ChargerInExpires, HandOverExpires, Bat_CbCheckVol, Bat_CbChargerIn
  <2>8. CASE Bt_Reset \/ BT_EVT_RESTART \/ Wakeup \/ Tick \/ Surroundings
    BY <2>8 DEF IInv, ChargerInv, Bt_Reset, BT_EVT_RESTART, FullAtOnce, Wakeup, Tick,
       Surroundings, Bat_CbChargerIn
  <2> QED BY <2>1, <2>2, <2>3, <2>4, <2>5, <2>6, <2>7, <2>8 DEF Next, Timeout
<1> QED BY <1>1, Invariance, PTL DEF Spec, HandsOverBeforeOff
=============================================================================
