-------------------------------- MODULE Led --------------------------------
(***************************************************************************)
(* The LED driver (drivers/led/yc_led.c): blinking patterns of two kinds   *)
(* on one timer.  A repeated pattern is the background; a single shot      *)
(* waits in a queue and interrupts it.  Drv_bt.c and yc_battery.c decide   *)
(* which pattern is asked for, and hibernation waits for the two low-power *)
(* locks the driver takes.                                                 *)
(*                                                                         *)
(* A pattern is the row of gTwsLedFunc for an event; the three tables in   *)
(* it, one for each role of the headset, have the same rows.  Time is in   *)
(* units of 100 ms, the clock of gLed_Timer and of the battery check: a    *)
(* turn of the main loop takes less, so that neither a timer that is due   *)
(* nor an alert that can begin waits for the next unit.                    *)
(***************************************************************************)
EXTENDS Naturals, Sequences

CONSTANTS QueueCap,       \* LED_EVT_QUEUE_MAX
          BatteryPeriod   \* BAT_READ_ADC_COUNT * BAT_LEVEL_SAMPLE_ARRAY_NUM

ASSUME LedAssumption == QueueCap \in Nat \ {0} /\ BatteryPeriod \in Nat \ {0}

Pattern == [style : {"INVALID", "SWITCH", "BLUE", "RED"}, on : Nat, off : Nat,
            blinks : Nat, delay : Nat, repeat : {"SINGLE", "REPEAT"}]

Row(style, on, off, blinks, delay, repeat) ==
  [style |-> style, on |-> on, off |-> off, blinks |-> blinks, delay |-> delay,
   repeat |-> repeat]

Invalid == Row("INVALID", 0, 0, 0, 0, "SINGLE")      \* and what memset leaves

Event == {"POWER_ON", "POWER_OFF", "CONNECTED", "DISCONNECTED", "LOW_POWER",
          "CHARGE_FULL", "CHARGING", "TWS_PARING", "TWS_PARED",
          "TWS_SLAVE_CONNECTED", "PAGING", "DISCOVERABLE", "CONNECTED_IDLE"}

\* gTwsLedFunc and the lookup in it.
Bt_SearchLedFunc(evt) ==
  CASE evt \in {"POWER_ON", "PAGING", "DISCOVERABLE"} -> Row("SWITCH", 3, 3, 1, 3, "REPEAT")
    [] evt = "POWER_OFF"   -> Row("RED", 20, 3, 1, 0, "SINGLE")
    [] evt = "CONNECTED"   -> Row("BLUE", 2, 2, 1, 0, "SINGLE")
    [] evt = "LOW_POWER"   -> Row("RED", 4, 4, 3, 0, "SINGLE")
    [] evt = "CHARGE_FULL" -> Row("BLUE", 200, 0, 1, 0, "REPEAT")
    [] evt = "CHARGING"    -> Row("RED", 0, 0, 1, 0, "REPEAT")
    [] evt = "TWS_PARING"  -> Row("SWITCH", 1, 1, 2, 1, "REPEAT")
    [] evt \in {"DISCONNECTED", "CONNECTED_IDLE"}     -> Invalid     \* so the table says
    [] evt \in {"TWS_PARED", "TWS_SLAVE_CONNECTED"}  -> Invalid     \* no case for them

VARIABLES led,       \* the driver's globals and its locks, see Dark
          bat,       \* units until the next value of the battery level
          topState   \* gBRState.topState; "BOOT" before the first event of the core, and
                    \* "CHARGE_FULL" for BR_CHARGER_IN with gChgStatus = CHG_FULL

vars == << led, bat, topState >>

Cleared == [par |-> Invalid, on |-> FALSE, fg |-> FALSE, count |-> 0]

Dark == [cur   |-> Cleared,    \* gCurLedState
         back  |-> Cleared,    \* gBackLedState
         queue |-> << >>,      \* gLedEvtHeader
         timer |-> 0,          \* gLed_Timer: 0 not armed, n + 1 armed and n units to go
         lock  |-> FALSE,      \* LED_LPM_FLAG
         pwm   |-> FALSE,      \* PWM_LPM_FLAG
         lit   |-> {},         \* the LEDs that give light
         hung  |-> FALSE]      \* error_handle() was called

Alive == ~ led.hung
Running == Alive /\ topState \notin {"BOOT", "POWER_OFF"}
-----------------------------------------------------------------------------
(* What becomes of the driver l. *)

\* led_set_inactive and led_set_pwm: the two LEDs share one lock.
led_set_inactive(l, c) == [l EXCEPT !.lit = @ \ c, !.pwm = FALSE]
led_set_pwm(l, c)      == [l EXCEPT !.lit = @ \cup c, !.pwm = TRUE]

Colours(style) == CASE style = "BLUE" -> {"blue"}
                    [] style = "RED"  -> {"red"}
                    [] style \in {"SWITCH", "INVALID"} -> {"blue", "red"}

led_light_led(l) ==
  LET style == l.cur.par.style IN
  CASE style = "SWITCH" /\ l.cur.on    -> led_set_inactive(led_set_pwm(l, {"blue"}), {"red"})
    [] style = "SWITCH" /\ ~ l.cur.on  -> led_set_pwm(led_set_inactive(l, {"blue"}), {"red"})
    [] style = "INVALID" /\ l.cur.on   -> l
    [] style \in {"BLUE", "RED"} /\ l.cur.on -> led_set_pwm(l, Colours(style))
    [] style # "SWITCH" /\ ~ l.cur.on  -> led_set_inactive(l, Colours(style))

\* Nothing is timed with a duration of zero.
SetLedTimer(l, t) == IF t = 0 THEN l ELSE [l EXCEPT !.timer = t + 1]

\* Faulty variant for mutation: the lock is not given back at the end of an alert.
AlertEndsLocked(l) ==
  LET b == [l EXCEPT !.cur = l.back]
      p == l.back.par
  IN  IF p.style = "INVALID" THEN b
      ELSE SetLedTimer(led_light_led(b), IF l.back.on THEN p.on ELSE p.off)

\* Faulty variant for mutation: the lock is not taken again for the background.
AlertEndsUnlocked(l) ==
  LET b == [l EXCEPT !.cur = l.back, !.lock = FALSE]
      p == l.back.par
  IN  IF p.style = "INVALID" THEN b
      ELSE SetLedTimer(led_light_led(b), IF l.back.on THEN p.on ELSE p.off)

\* Faulty variant for mutation: the timer is not set for the background.
AlertEndsUntimed(l) ==
  LET b == [l EXCEPT !.cur = l.back, !.lock = FALSE] IN
  IF l.back.par.style = "INVALID" THEN b ELSE [led_light_led(b) EXCEPT !.lock = TRUE]

\* The background is taken up in the phase it was left in.
AlertEnds(l) ==
  LET b == [l EXCEPT !.cur = l.back, !.lock = FALSE]
      p == l.back.par
  IN  IF p.style = "INVALID" THEN b
      ELSE SetLedTimer([led_light_led(b) EXCEPT !.lock = TRUE],
                       IF l.back.on THEN p.on ELSE p.off)

led_timer_callback(l) ==
  LET c == l.cur
      p == c.par
  IN CASE c.on -> SetLedTimer(led_light_led([l EXCEPT !.cur.on = FALSE]), p.off)
       [] ~ c.on /\ c.count = 0 /\ c.fg -> AlertEnds(l)
       [] ~ c.on /\ c.count = 0 /\ ~ c.fg ->
            SetLedTimer(led_set_inactive([l EXCEPT !.cur.count = p.blinks], {"blue", "red"}),
                        p.delay)
       [] ~ c.on /\ c.count # 0 ->
            led_light_led(SetLedTimer([l EXCEPT !.cur.count = @ - 1, !.cur.on = TRUE], p.on))

led_send_fgevt_to_queue(l, evt) ==
  IF Len(l.queue) = QueueCap THEN [l EXCEPT !.hung = TRUE]
  ELSE [l EXCEPT !.queue = Append(@, evt)]

Fresh(func, fg) == [par |-> func, on |-> FALSE, fg |-> fg, count |-> func.blinks]

\* Faulty variant for mutation: the alert on the LEDs is not looked at.
BgevtAlways(l, func) ==
  led_timer_callback([led_set_inactive(l, {"blue", "red"}) EXCEPT
                        !.cur = Fresh(func, FALSE), !.timer = 0, !.lock = TRUE])

\* Under an alert the new background only takes the place of the saved one.
led_send_bgevt(l, func) ==
  IF l.cur.fg THEN [l EXCEPT !.back = Fresh(func, FALSE)]
  ELSE led_timer_callback([led_set_inactive(l, {"blue", "red"}) EXCEPT
                             !.cur = Fresh(func, FALSE), !.timer = 0, !.lock = TRUE])

\* The timer and both locks stay as they are: led_init() sets the pins itself.
led_clear_led(l) ==
  [l EXCEPT !.cur = Cleared, !.back = Cleared, !.queue = << >>, !.lit = {}]

\* Faulty variant for mutation: a connection does not clear what is shown.
ClearingFewer == {"POWER_OFF", "TWS_PARED", "TWS_SLAVE_CONNECTED"}
Clearing == {"POWER_OFF", "CONNECTED", "TWS_PARED", "TWS_SLAVE_CONNECTED"}

\* The row of CONNECTED_IDLE is invalid: gCONLedTimer is never set.
Bt_ProcessLedFunc(l, evt) ==
  LET func == Bt_SearchLedFunc(evt)
      c == IF evt \in Clearing THEN led_clear_led(l) ELSE l
  IN  CASE func.style = "INVALID" -> c
        [] func.style # "INVALID" /\ func.repeat = "SINGLE" -> led_send_fgevt_to_queue(c, evt)
        [] func.style # "INVALID" /\ func.repeat = "REPEAT" -> led_send_bgevt(c, func)

Bat_EnterChargerIn(l) == Bt_ProcessLedFunc(led_clear_led(l), "CHARGING")
-----------------------------------------------------------------------------
Init == led = Dark /\ bat = BatteryPeriod /\ topState = "BOOT"

\* Hibernation ends in a reset that leaves nothing of the driver's memory.
WakeUp ==
  /\ topState = "POWER_OFF"
  /\ led' = Dark /\ topState' = "BOOT"
  /\ UNCHANGED bat

\* Bt_Reset, then Bt_PowerOn when the core restarts M0; the charger is looked at by
\* both.
Bt_Reset(restart, charger) ==
  /\ topState = "BOOT"
  /\ LET reset == IF charger THEN Bat_EnterChargerIn(Dark) ELSE Dark
         on == Bt_ProcessLedFunc(reset, "POWER_ON")
     IN  led' = CASE ~ restart -> reset
                  [] restart /\ charger -> Bat_EnterChargerIn(on)
                  [] restart /\ ~ charger -> on
  /\ topState' = CASE charger -> "CHARGER_IN"
                   [] restart /\ ~ charger -> "POWER_ON"
                   [] ~ restart /\ ~ charger -> "WAIT_POWER_ON"
  /\ bat' = BatteryPeriod

\* The key that switches the headset on.
Bt_PowerOn ==
  /\ Alive /\ topState = "WAIT_POWER_ON"
  /\ led' = Bt_ProcessLedFunc(led, "POWER_ON")
  /\ topState' = "POWER_ON"
  /\ UNCHANGED bat

\* Events from the core, as Bt_EvtCallBack and Bt_TWSCallBack let them through.
CoreEvent(evt) ==
  /\ Alive
  /\ \/ topState = "POWER_ON"
     \/ topState = "WAIT_POWER_ON" /\ evt \notin {"DISCONNECTED", "DISCOVERABLE"}
  /\ led' = Bt_ProcessLedFunc(led, evt)
  /\ UNCHANGED << bat, topState >>

\* A connection shows two events in one callback.
Connected ==
  /\ Alive /\ topState \in {"WAIT_POWER_ON", "POWER_ON"}
  /\ led' = Bt_ProcessLedFunc(Bt_ProcessLedFunc(led, "CONNECTED"), "CONNECTED_IDLE")
  /\ UNCHANGED << bat, topState >>

\* Bat_CalLevel, on the eighth sample of the battery voltage.
Bat_CalLevel(low) ==
  /\ Running /\ bat = 0
  /\ led' = IF low /\ topState = "POWER_ON" THEN Bt_ProcessLedFunc(led, "LOW_POWER") ELSE led
  /\ bat' = BatteryPeriod
  /\ UNCHANGED topState

Bat_CbChargerIn ==
  /\ Alive /\ topState \in {"WAIT_POWER_OFF", "WAIT_POWER_ON", "POWER_ON"}
  /\ led' = Bat_EnterChargerIn(led)
  /\ topState' = "CHARGER_IN"
  /\ UNCHANGED bat

\* Once: gChgStatus becomes CHG_FULL.
Bat_CbChargerFull ==
  /\ Alive /\ topState = "CHARGER_IN"
  /\ led' = Bt_ProcessLedFunc(led_clear_led(led), "CHARGE_FULL")
  /\ topState' = "CHARGE_FULL"
  /\ UNCHANGED bat

\* The charger is taken away, or has been full for CHARGER_FULL_COUNT.
Bat_ExitChargerIn ==
  /\ Alive /\ topState \in {"CHARGER_IN", "CHARGE_FULL"}
  /\ led' = led_clear_led(led)
  /\ topState' = "POWER_OFF"
  /\ UNCHANGED bat

Bt_SndCmdWaitPwroff ==
  /\ Alive /\ topState = "POWER_ON"
  /\ led' = Bt_ProcessLedFunc(led_clear_led(led), "POWER_OFF")
  /\ topState' = "WAIT_POWER_OFF"
  /\ UNCHANGED bat

\* Bt_CheckWaitPwroff and Bt_CBAutoPwroff, for the locks of the LEDs.
Bt_SndCmdPwroff ==
  /\ Alive /\ topState \in {"WAIT_POWER_OFF", "WAIT_POWER_ON"}
  /\ ~ led.lock /\ ~ led.pwm
  /\ topState' = "POWER_OFF"
  /\ UNCHANGED << led, bat >>

LedTimer ==
  /\ Running /\ led.timer = 1
  /\ led' = led_timer_callback([led EXCEPT !.timer = 0])
  /\ UNCHANGED << bat, topState >>

CanPoll == ~ led.cur.fg /\ led.queue # << >>

led_polling_Queue ==
  /\ Running /\ CanPoll
  /\ LET func == Bt_SearchLedFunc(Head(led.queue))
         l == [led EXCEPT !.queue = Tail(@), !.back = led.cur, !.cur = Fresh(func, TRUE)]
     IN  led' = IF func.style = "INVALID" THEN [led EXCEPT !.queue = Tail(@)]
                ELSE [led_timer_callback(l) EXCEPT !.lock = TRUE]
  /\ UNCHANGED << bat, topState >>

\* 100 ms pass.
Tick ==
  /\ Running /\ led.timer # 1 /\ bat # 0 /\ ~ CanPoll
  /\ led' = [led EXCEPT !.timer = IF @ = 0 THEN 0 ELSE @ - 1]
  /\ bat' = bat - 1
  /\ UNCHANGED topState

Next ==
  \/ \E restart, charger \in BOOLEAN : Bt_Reset(restart, charger)
  \/ WakeUp \/ Bt_PowerOn \/ Connected
  \/ \E evt \in {"DISCONNECTED", "DISCOVERABLE", "PAGING", "TWS_PARING", "TWS_PARED",
                 "TWS_SLAVE_CONNECTED"} : CoreEvent(evt)
  \/ \E low \in BOOLEAN : Bat_CalLevel(low)
  \/ Bat_CbChargerIn \/ Bat_CbChargerFull \/ Bat_ExitChargerIn
  \/ Bt_SndCmdWaitPwroff \/ Bt_SndCmdPwroff
  \/ LedTimer \/ led_polling_Queue \/ Tick

\* The main loop polls the timers and the queue, time passes and the battery is
\* measured, and Bt_CheckWaitPwroff looks at the locks in every turn.
Spec == Init /\ [][Next]_vars
             /\ WF_vars(LedTimer) /\ WF_vars(led_polling_Queue) /\ WF_vars(Tick)
             /\ WF_vars(\E low \in BOOLEAN : Bat_CalLevel(low))
             /\ WF_vars(Bt_SndCmdPwroff)
-----------------------------------------------------------------------------
LedState == [par : Pattern, on : BOOLEAN, fg : BOOLEAN, count : Nat]

TypeOK ==
  /\ led \in [cur : LedState, back : LedState, queue : Seq(Event), timer : Nat,
              lock : BOOLEAN, pwm : BOOLEAN, lit : SUBSET {"blue", "red"}, hung : BOOLEAN]
  /\ Len(led.queue) <= QueueCap
  /\ bat \in 0 .. BatteryPeriod
  /\ topState \in {"BOOT", "POWER_OFF", "WAIT_POWER_OFF", "CHARGER_IN", "CHARGE_FULL",
                   "WAIT_POWER_ON", "POWER_ON"}

\* The chip never sleeps, and stops the PWM, under an LED that gives light.  PWM_LPM_FLAG
\* alone would not do: the LED that goes dark takes it away from the other one.
LitHoldsLock == led.lit # {} => led.lock

Blinks(p) == p.on # 0 /\ p.off # 0 /\ p.delay # 0

\* A pattern never freezes: whichever end an alert takes, a background that blinks and
\* an alert always have the timer that moves them on.
NeverFrozen == led.cur.fg \/ Blinks(led.cur.par) => led.timer # 0

\* The alerts of a low battery, one for each measurement, never fill the queue, which
\* would call error_handle() and let the watchdog bite.
QueueNeverFull == ~ led.hung

Rows(evts) == {Bt_SearchLedFunc(e) : e \in evts}

Showing(l) == IF l.cur.fg THEN l.cur.par ELSE Invalid
Behind(l)  == IF l.cur.fg THEN l.back.par ELSE l.cur.par
Pending(q) == [i \in 1 .. Len(q) |-> Bt_SearchLedFunc(q[i])]

\* The driver is the indicator of LedIndicator: one alert does not push another off the
\* LEDs or out of the queue, and the background asked for last comes back, also when
\* it was asked for under an alert.
Indicator == INSTANCE LedIndicator WITH
  Alert <- Rows({"POWER_OFF", "CONNECTED", "LOW_POWER"}),
  Background <- Rows({"POWER_ON", "TWS_PARING", "CHARGING", "CHARGE_FULL"}),
  Wiping <- Rows({"POWER_OFF", "CONNECTED", "CHARGING", "CHARGE_FULL"}),
  Nothing <- Invalid,
  showing <- Showing(led), pending <- Pending(led.queue), background <- Behind(led)

ImplementsIndicator == Indicator!Spec

\* The light that says goodbye does not keep the headset on: the locks it takes are
\* given back, and nothing it leaves behind takes them again.
PowerOffNotHeldByLed == topState = "WAIT_POWER_OFF" ~> topState # "WAIT_POWER_OFF"
=============================================================================
