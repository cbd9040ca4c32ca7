----------------------------- MODULE HeadsetPower -----------------------------
(***************************************************************************)
(* Power on, power off and charging of the headset: gBRState of            *)
(* Example/headphone/Drv_bt.c, the charger of drivers/battery/yc_battery.c *)
(* and the timers and low-power locks the two share.  When a headset that  *)
(* is half of a pair goes off or into its charger it first hands the phone *)
(* over to the other half.                                                 *)
(*                                                                         *)
(* Everything here runs in the main loop of the M0, so that one function   *)
(* it calls is one step.  The core reports what it likes: its firmware,    *)
(* the phone and the other half are external.  What only sends a command   *)
(* is left out: reconnection, prompts and lights.                          *)
(***************************************************************************)
EXTENDS Integers

CONSTANTS WaitTicks,      \* AUTO_POWEROFF_WAIT: 50 ticks of 10 ms
          RetryTicks,     \* Bt_CBAutoPwroff looks again after 3
          ChargerInTicks, \* gChargerIn_timer: 125
          HandOverTicks,  \* Bt_SndCmdTwsMasterSwitch, Bt_SndSlavePwroff: 44
          TakeOverTicks,  \* TWS_SYNC_EVT_MASTER_SWITCH on a slave: 10
          FullChecks,     \* looks without a rise that mean full: 4
          MaxRises        \* bound: looks at which the voltage has risen

ASSUME HeadsetPowerAssumption ==
  /\ {WaitTicks, RetryTicks, ChargerInTicks, HandOverTicks, TakeOverTicks} \subseteq Nat \ {0}
  /\ HandOverTicks < WaitTicks /\ TakeOverTicks < WaitTicks
  /\ FullChecks \in Nat \ {0} /\ MaxRises \in Nat

VARIABLES m0,        \* main(): not started, in BT_EVT_RESTART's delay, running, stopped
          top,       \* gBRState.topState
          second,    \* gBRState.secondState
          third,     \* gBRState.thirdlyState
          tws,       \* gBRState.twsState
          lpm,       \* the locks of M0_LPM_REG set here
          busy,      \* a lock of the keys, prompts or LEDs is set
          plugged,   \* CHARGER_DETECT_GPIO
          auto,      \* gBRState.autoPowerTimer
          chargerIn, \* gChargerIn_timer
          handOver,  \* gSwithMasterTimer
          charger,   \* gCharger_Timer: off, Bat_CbCheckVol, Bat_CbEnterPowerOff
          chg,       \* gChgStatus
          checks,    \* gCheckBatFull_count
          rises,     \* looks at which the voltage had risen
          stranded   \* history: unplugged in BT_EVT_RESTART's delay

link == << second, third, tws >>
charge == << charger, chg, checks, rises, stranded >>
env == << busy, plugged >>
vars == << m0, top, link, lpm, env, auto, chargerIn, handOver, charge >>

Off == -1    \* the timer is not in the list
Idle == -2   \* autoPowerTimer with Bt_CBIdleTimeout: minutes, not counted

TopState == {"POWER_OFF", "WAIT_POWER_OFF", "CHARGER_IN", "WAIT_POWER_ON", "POWER_ON"}

\* What a report of the core makes of twsState, where it does nothing more.
TwsAfter ==
  [TWS_EVT_TWS_NONE |-> "IDLE", TWS_EVT_ENTER_PAIR |-> "PAIRING", TWS_EVT_EXIT_PAIR |-> "IDLE",
   TWS_EVT_WAIT_SLAVE |-> "WAIT_SLAVE", TWS_EVT_WAIT_MASTER |-> "WAIT_MASTER",
   TWS_EVT_MASTER_CONNECTED |-> "MASTER_CONNECTED", TWS_EVT_START_RECON |-> "RECON",
   TWS_EVT_MASTER_FOUND |-> "IDLE", TWS_EVT_SLAVE_CHANGE_MASTER_NO_CON |-> "IDLE"]

Paired == {"SLAVE_CONNECTED", "MASTER_CONNECTED"}
TwsState == {TwsAfter[e] : e \in DOMAIN TwsAfter} \cup Paired

TypeOK ==
  /\ m0 \in {"start", "restart", "run", "off"} /\ top \in TopState
  /\ second \in {"IDLE", "CONNECTED"} /\ third \in {"IDLE", "DISCOVERABLE"} /\ tws \in TwsState
  /\ lpm \subseteq {"CHARGER", "LINK", "HIBER"}
  /\ busy \in BOOLEAN /\ plugged \in BOOLEAN
  /\ auto \in Int /\ chargerIn \in Int /\ handOver \in Int
  /\ charger \in {"off", "check", "full"} /\ chg \in {"CHARGING", "FULL", "STOP"}
  /\ checks \in Nat /\ rises \in 0 .. MaxRises /\ stranded \in BOOLEAN
-----------------------------------------------------------------------------
(* Off. *)

Bt_SndCmdPwroff == top' = "POWER_OFF" /\ m0' = "off"

Bat_ExitChargerIn ==
  /\ charger' = "off" /\ lpm' = lpm \ {"CHARGER"}
  /\ Bt_SndCmdPwroff

\* Faulty variant for mutation: nothing keeps the main loop from going off at once.
WaitPwroffUnlocked(role, locks) ==
  IF top # "POWER_ON" THEN lpm' = locks /\ UNCHANGED << top, auto, handOver >>
  ELSE /\ lpm' = locks \cup (IF role \notin Paired /\ second = "CONNECTED" THEN {"LINK"} ELSE {})
       /\ auto' = WaitTicks /\ top' = "WAIT_POWER_OFF"
       /\ handOver' = IF role = "MASTER_CONNECTED" THEN HandOverTicks ELSE handOver

\* Faulty variant for mutation: topState is set before Bt_SetAutoPwroffTimer looks at it.
WaitPwroffTooSoon(role, locks) ==
  IF top # "POWER_ON" THEN lpm' = locks /\ UNCHANGED << top, auto, handOver >>
  ELSE /\ lpm' = locks \cup {"HIBER"}
                       \cup (IF role \notin Paired /\ second = "CONNECTED" THEN {"LINK"} ELSE {})
       /\ top' = "WAIT_POWER_OFF" /\ UNCHANGED auto
       /\ handOver' = IF role = "MASTER_CONNECTED" THEN HandOverTicks ELSE handOver

Bt_SndCmdWaitPwroff(role, locks) ==
  IF top # "POWER_ON" THEN lpm' = locks /\ UNCHANGED << top, auto, handOver >>
  ELSE /\ lpm' = locks \cup {"HIBER"}
                       \cup (IF role \notin Paired /\ second = "CONNECTED" THEN {"LINK"} ELSE {})
       /\ auto' = WaitTicks /\ top' = "WAIT_POWER_OFF"
       /\ handOver' = IF role = "MASTER_CONNECTED" THEN HandOverTicks ELSE handOver

\* The main loop, at every turn.
Bt_CheckWaitPwroff ==
  /\ m0 = "run" /\ lpm = {} /\ ~ busy
  /\ top \in {"WAIT_POWER_ON", "WAIT_POWER_OFF"}
  /\ auto' = Off /\ Bt_SndCmdPwroff
  /\ UNCHANGED << link, lpm, env, chargerIn, handOver, charge >>

\* Bt_ProcessKeyFunc, KEY_FUNC_POWER_ON_OFF.
KeyPowerOnOff ==
  /\ m0 = "run"
  /\ \/ /\ top = "WAIT_POWER_ON"
        /\ top' = "POWER_ON" /\ auto' = Idle
        /\ UNCHANGED << lpm, handOver >>
     \/ /\ top = "POWER_ON"
        /\ Bt_SndCmdWaitPwroff(tws, lpm)
  /\ UNCHANGED << m0, link, env, chargerIn, charge >>

Bt_CBIdleTimeout ==
  /\ m0 = "run" /\ auto = Idle
  /\ IF top = "POWER_ON" THEN Bt_SndCmdWaitPwroff(tws, lpm)
     ELSE auto' = Off /\ UNCHANGED << top, lpm, handOver >>
  /\ UNCHANGED << m0, link, env, chargerIn, charge >>

Bt_CBAutoPwroff ==
  /\ m0 = "run" /\ auto = 0
  /\ IF busy \/ "CHARGER" \in lpm
     THEN auto' = RetryTicks /\ UNCHANGED << m0, top, lpm, handOver >>
     ELSE IF lpm = {} /\ top = "POWER_ON"
     THEN Bt_SndCmdWaitPwroff(tws, lpm) /\ UNCHANGED m0
     ELSE /\ auto' = Off /\ UNCHANGED << lpm, handOver >>
          /\ IF lpm = {} /\ top = "CHARGER_IN" THEN UNCHANGED << m0, top >> ELSE Bt_SndCmdPwroff
  /\ UNCHANGED << link, env, chargerIn, charge >>
-----------------------------------------------------------------------------
(* The charger. *)

Bat_CbChargerIn ==
  /\ top' = "CHARGER_IN" /\ lpm' = lpm \cup {"CHARGER"}
  /\ checks' = 0 /\ stranded' = FALSE
  /\ charger' = "check" /\ UNCHANGED << chg, rises >>

\* Faulty variant for mutation: the timer that ends a full charge is not set.
Bat_CbChargerFullForgets == chg' = "FULL" /\ charger' = "off"

Bat_CbChargerFull == chg' = "FULL" /\ charger' = "full"

\* Bat_polling, plugged in: half of a pair first lets the other half take over.
HandsOver ==
  /\ plugged /\ top = "POWER_ON" /\ tws \in Paired
  /\ lpm' = lpm \cup {"CHARGER"}
  /\ chargerIn' = ChargerInTicks /\ handOver' = HandOverTicks
  /\ UNCHANGED << m0, top, charge >>

\* Bat_CbChargerIn, and the charge is found to be full at the end of Bat_polling.
FullAtOnce ==
  /\ top' = "CHARGER_IN" /\ lpm' = lpm \cup {"CHARGER"}
  /\ checks' = 0 /\ stranded' = FALSE
  /\ Bat_CbChargerFull /\ UNCHANGED rises

EntersCharger ==
  /\ plugged /\ top \notin {"CHARGER_IN", "POWER_OFF"}
  /\ top = "POWER_ON" => tws \notin Paired
  /\ Bat_CbChargerIn \/ FullAtOnce
  /\ UNCHANGED << m0, chargerIn, handOver >>

FindsFull ==
  /\ plugged /\ top = "CHARGER_IN" /\ chg = "CHARGING"
  /\ Bat_CbChargerFull
  /\ UNCHANGED << m0, top, lpm, chargerIn, handOver, checks, rises, stranded >>

LeavesCharger ==
  /\ ~ plugged /\ top = "CHARGER_IN"
  /\ chg' = "STOP" /\ Bat_ExitChargerIn
  /\ UNCHANGED << chargerIn, handOver, checks, rises, stranded >>

Bat_polling ==
  /\ m0 = "run" /\ chargerIn = Off /\ chg # "STOP"
  /\ HandsOver \/ EntersCharger \/ FindsFull \/ LeavesCharger
  /\ UNCHANGED << link, env, auto >>

\* gChargerIn_timer has run out: the other half did not answer.
ChargerInExpires ==
  /\ m0 = "run" /\ chargerIn = 0
  /\ chargerIn' = Off /\ Bat_CbChargerIn
  /\ UNCHANGED << m0, link, env, auto, handOver >>

Bat_CbCheckVol ==
  /\ m0 = "run" /\ charger = "check"
  /\ IF top # "CHARGER_IN" \/ chg = "FULL"
     THEN checks' = 0 /\ UNCHANGED << charger, chg, rises >>
     ELSE \/ /\ rises < MaxRises
             /\ rises' = rises + 1 /\ checks' = 0 /\ UNCHANGED << charger, chg >>
          \/ /\ checks' = checks + 1 /\ UNCHANGED rises
             /\ IF checks' >= FullChecks THEN Bat_CbChargerFull ELSE UNCHANGED << charger, chg >>
  /\ UNCHANGED << m0, top, link, lpm, env, auto, chargerIn, handOver, stranded >>

Bat_CbEnterPowerOff ==
  /\ m0 = "run" /\ charger = "full"
  /\ Bat_ExitChargerIn
  /\ UNCHANGED << link, env, auto, chargerIn, handOver, chg, checks, rises, stranded >>

\* CB_SwitchToDisconnect, CB_SwitchToMaster: a command, nothing else.
HandOverExpires ==
  /\ m0 = "run" /\ handOver = 0
  /\ handOver' = Off
  /\ UNCHANGED << m0, top, link, lpm, env, auto, chargerIn, charge >>
-----------------------------------------------------------------------------
(* Reports of the core.  Those of Bt_EvtCallBack and Bt_TWSCallBack come   *)
(* through when topState is above CHARGER_IN.                              *)

Listens == m0 = "run" /\ top \in {"WAIT_POWER_ON", "POWER_ON"}

BT_EVT_BB_DISCONNECTED ==
  /\ Listens
  /\ auto' = IF third # "DISCOVERABLE" THEN Idle ELSE auto
  /\ lpm' = lpm \ {"LINK"} /\ second' = "IDLE"
  /\ UNCHANGED << m0, top, third, tws, env, chargerIn, handOver, charge >>

BT_EVT_ENTER_DISCOVERABLE ==
  /\ Listens /\ chargerIn = Off /\ top = "POWER_ON"
  /\ auto' = Idle /\ third' = "DISCOVERABLE"
  /\ UNCHANGED << m0, top, second, tws, lpm, env, chargerIn, handOver, charge >>

BT_EVT_EXIT_DISCOVERABLE ==
  /\ Listens
  /\ third' = "IDLE"
  /\ UNCHANGED << m0, top, second, tws, lpm, env, auto, chargerIn, handOver, charge >>

\* BT_EVT_ENC_CONNECTED, BT_EVT_LE_CONNECTED, TWS_EVT_SLAVE_CONNECTED.
Connected ==
  /\ Listens
  /\ auto' = Off
  /\ \/ second' = "CONNECTED" /\ tws' \in {tws, "SLAVE_CONNECTED"}
     \/ UNCHANGED << second, tws >>
  /\ UNCHANGED << m0, top, third, lpm, env, chargerIn, handOver, charge >>

TwsReport ==
  /\ Listens
  /\ \/ \E e \in DOMAIN TwsAfter : tws' = TwsAfter[e]
     \/ tws = "RECON" /\ tws' = "IDLE"     \* TWS_EVT_SLAVE_FOUND
  /\ UNCHANGED << m0, top, second, third, lpm, env, auto, chargerIn, handOver, charge >>

\* Faulty variant for mutation: the charger is not entered when its timer is given up.
TWS_SYNC_EVT_POWR_OFF_Drops ==
  /\ Listens /\ tws # "MASTER_CONNECTED"
  /\ IF chargerIn # Off
     THEN chargerIn' = Off /\ UNCHANGED << top, tws, lpm, auto, handOver, charge >>
     ELSE /\ tws' = "IDLE"
          /\ Bt_SndCmdWaitPwroff("IDLE", lpm \cup (IF second = "CONNECTED" THEN {"LINK"} ELSE {}))
          /\ UNCHANGED << chargerIn, charge >>
  /\ UNCHANGED << m0, second, third, env >>

\* The other half goes off; to one that waits to charge it answers so.  A master only
\* sends a command.
TWS_SYNC_EVT_POWR_OFF ==
  /\ Listens /\ tws # "MASTER_CONNECTED"
  /\ IF chargerIn # Off
     THEN chargerIn' = Off /\ Bat_CbChargerIn /\ UNCHANGED << tws, auto, handOver >>
     ELSE /\ tws' = "IDLE"
          /\ Bt_SndCmdWaitPwroff("IDLE", lpm \cup (IF second = "CONNECTED" THEN {"LINK"} ELSE {}))
          /\ UNCHANGED << chargerIn, charge >>
  /\ UNCHANGED << m0, second, third, env >>

TWS_SYNC_EVT_MASTER_SWITCH ==
  /\ Listens
  /\ \/ /\ tws = "SLAVE_CONNECTED"
        /\ handOver' = TakeOverTicks
        /\ UNCHANGED << top, lpm, chargerIn, charge >>
     \/ /\ tws = "MASTER_CONNECTED"
        /\ chargerIn' = Off /\ Bat_CbChargerIn
        /\ UNCHANGED handOver
  /\ UNCHANGED << m0, link, env, auto >>
-----------------------------------------------------------------------------
(* Start: the core reports BT_EVT_RESET or, after a restart, BT_EVT_RESTART. *)

\* Bt_Reset.  The voltage has not been read yet, so that a charger is not found full.
Bt_Reset ==
  /\ m0 = "start" /\ m0' \in {"run", "restart"}
  /\ IF plugged THEN Bat_CbChargerIn
     ELSE top' = "WAIT_POWER_ON" /\ UNCHANGED << lpm, charge >>
  /\ UNCHANGED << link, env, auto, chargerIn, handOver >>

\* BT_EVT_RESTART goes on after 1.1 seconds: Bt_PowerOn, then Bat_polling.
BT_EVT_RESTART ==
  /\ m0 = "restart" /\ m0' = "run"
  /\ auto' = Idle
  /\ IF plugged
     THEN Bat_CbChargerIn \/ FullAtOnce
     ELSE /\ top' = "POWER_ON" /\ stranded' = ("CHARGER" \in lpm)
          /\ UNCHANGED << lpm, charger, chg, checks, rises >>
  /\ UNCHANGED << link, env, chargerIn, handOver >>

\* The core wakes the M0 from hibernation with its memory as the program is loaded.
Wakeup ==
  /\ m0 = "off" /\ m0' = "start"
  /\ second' = "IDLE" /\ third' = "IDLE" /\ tws' = "IDLE"
  /\ lpm' = {} /\ auto' = Off /\ chargerIn' = Off /\ handOver' = Off
  /\ charger' = "off" /\ chg' = "CHARGING" /\ checks' = 0 /\ rises' = 0 /\ stranded' = FALSE
  /\ UNCHANGED << top, env >>
-----------------------------------------------------------------------------
Counted == {auto, chargerIn, handOver}
Down(t) == IF t > 0 THEN t - 1 ELSE t

\* SysTick; a turn of the main loop ends within a tick.
Tick ==
  /\ m0 = "run" /\ 0 \notin Counted
  /\ \E t \in Counted : t > 0
  /\ auto' = Down(auto) /\ chargerIn' = Down(chargerIn) /\ handOver' = Down(handOver)
  /\ UNCHANGED << m0, top, link, lpm, env, charge >>

\* Keys, prompts and lights come and go, and so does the charger's cable.
Surroundings ==
  /\ \/ busy' = ~ busy /\ UNCHANGED plugged
     \/ plugged' = ~ plugged /\ UNCHANGED busy
  /\ UNCHANGED << m0, top, link, lpm, auto, chargerIn, handOver, charge >>

Init ==
  /\ m0 = "start" /\ top = "POWER_OFF"
  /\ second = "IDLE" /\ third = "IDLE" /\ tws = "IDLE"
  /\ lpm = {} /\ busy = FALSE /\ plugged \in BOOLEAN
  /\ auto = Off /\ chargerIn = Off /\ handOver = Off
  /\ charger = "off" /\ chg = "CHARGING" /\ checks = 0 /\ rises = 0 /\ stranded = FALSE

Timeout == Bt_CBIdleTimeout \/ Bt_CBAutoPwroff \/ ChargerInExpires \/ HandOverExpires

CoreReport ==
  \/ BT_EVT_BB_DISCONNECTED \/ BT_EVT_ENTER_DISCOVERABLE \/ BT_EVT_EXIT_DISCOVERABLE
  \/ Connected \/ TwsReport \/ TWS_SYNC_EVT_POWR_OFF \/ TWS_SYNC_EVT_MASTER_SWITCH

Next ==
  \/ Bt_CheckWaitPwroff \/ KeyPowerOnOff \/ Bat_polling \/ CoreReport
  \/ Timeout \/ Bat_CbCheckVol \/ Bat_CbEnterPowerOff
  \/ Bt_Reset \/ BT_EVT_RESTART \/ Wakeup \/ Tick \/ Surroundings

Fairness ==
  /\ WF_vars(Tick)
  /\ WF_vars(Bt_CBAutoPwroff) /\ WF_vars(ChargerInExpires) /\ WF_vars(HandOverExpires)
  /\ WF_vars(Bat_polling) /\ WF_vars(Bat_CbCheckVol) /\ WF_vars(Bat_CbEnterPowerOff)

Spec == Init /\ [][Next]_vars /\ Fairness
-----------------------------------------------------------------------------
\* The charger's lock keeps the M0 awake exactly while the headset charges or is about
\* to, whoever ends the wait first: the timer, the other half, or a switch of roles.
\* There is one exception: a charger found by Bt_Reset and unplugged before Bt_PowerOn.
ChargerLockAccounted ==
  "CHARGER" \in lpm <=> top = "CHARGER_IN" \/ chargerIn # Off \/ stranded

\* A headset that has begun to go off goes off, or into its charger, once no key,
\* prompt or light keeps it awake; one that was stranded never does.
PowerOffFinishes ==
  <>[]~ busy =>
    (top = "WAIT_POWER_OFF" /\ ~ stranded ~> top \in {"POWER_OFF", "CHARGER_IN"})

\* From WAIT_POWER_OFF it does not go off while the other half has yet to be given
\* the phone.  From CHARGER_IN it may: Bat_ExitChargerIn goes off when it is unplugged,
\* and does not look at gSwithMasterTimer.
HandsOverBeforeOff ==
  [][top = "WAIT_POWER_OFF" /\ top' = "POWER_OFF" => handOver = Off]_vars

\* A charge ends: full, or unplugged.
ChargingEnds == m0 = "run" /\ top = "CHARGER_IN" ~> top = "POWER_OFF"
=============================================================================
