----------------------------- MODULE Led_proofs -----------------------------
(***************************************************************************)
(* Proofs about Led, for every capacity of the queue and every period of   *)
(* the battery check.                                                      *)
(*                                                                         *)
(* The driver is a record that its functions map to another.  All of them  *)
(* keep it well-formed (Good); the callback of gLed_Timer, which runs with *)
(* the timer disarmed, also restores Timed.                                *)
(***************************************************************************)
EXTENDS Led, SequenceTheorems, TLAPS

LedRec == [cur : LedState, back : LedState, queue : Seq(Event), timer : Nat,
           lock : BOOLEAN, pwm : BOOLEAN, lit : SUBSET {"blue", "red"}, hung : BOOLEAN]

Alerts == {"POWER_OFF", "CONNECTED", "LOW_POWER"}

AlertRow(p) ==
  p \in Pattern /\ p.style \in {"BLUE", "RED"} /\ p.on # 0 /\ p.off # 0 /\ p.blinks # 0

\* An alert over a dark background lights its own colours only, so that nothing is
\* lit when it ends.
OverDark(l) ==
  l.back.par.style = "INVALID" =>
    l.lit \subseteq Colours(l.cur.par.style) /\ (~ l.cur.on => l.lit = {})

Good(l) ==
  /\ l \in LedRec
  /\ Len(l.queue) <= QueueCap /\ \A i \in 1 .. Len(l.queue) : l.queue[i] \in Alerts
  /\ ~ l.back.fg /\ (l.back.par.style = "INVALID" => l.back = Cleared)
  /\ l.cur.par.style = "INVALID" => l.cur = Cleared /\ l.lit = {}
  /\ l.cur.fg => AlertRow(l.cur.par) /\ OverDark(l)

Locked(l) == l.cur.par.style # "INVALID" => l.lock

Timed(l) == l.cur.fg \/ Blinks(l.cur.par) => l.timer # 0

\* The units that are left of an alert: of the phase it is in, of the dark phase that
\* follows a lit one, and of the blinks still to come.
Longest == 24
BlinksLeft(c) == c.count * (c.par.on + c.par.off)
OffLeft(c)    == IF c.on THEN c.par.off ELSE 0
Left(l)       == (l.timer - 1) + BlinksLeft(l.cur) + OffLeft(l.cur)

\* An alert that waits under another one is measured at most Longest units after it,
\* so that the one before it is over when the next measurement comes.
Roomy ==
  /\ ~ led.hung
  /\ led.cur.fg => Left(led) <= Longest
  /\ Len(led.queue) <= 2
  /\ Len(led.queue) = 2 => ~ led.cur.fg /\ bat = BatteryPeriod
  /\ Len(led.queue) = 1 /\ led.cur.fg => Left(led) + (BatteryPeriod - Longest) <= bat

IInv ==
  /\ Good(led) /\ Locked(led) /\ Timed(led)
  /\ bat \in 0 .. BatteryPeriod
  /\ topState \in {"BOOT", "POWER_OFF", "WAIT_POWER_OFF", "CHARGER_IN", "CHARGE_FULL",
                   "WAIT_POWER_ON", "POWER_ON"}
  /\ topState = "BOOT" => led = Dark

\* The fields that lighting LEDs and setting the timer leave alone.
Rest(l) == << l.cur, l.back, l.queue, l.hung >>
-----------------------------------------------------------------------------
(* The table. *)

LEMMA RowTypes ==
  /\ \A e \in Event : Bt_SearchLedFunc(e) \in Pattern
  /\ \A e \in Alerts : AlertRow(Bt_SearchLedFunc(e)) /\ Bt_SearchLedFunc(e).repeat = "SINGLE"
  /\ \A e \in Event : Bt_SearchLedFunc(e).style # "INVALID" /\ Bt_SearchLedFunc(e).repeat = "SINGLE"
              => e \in Alerts
<1>1. \A e : e = "POWER_OFF" => Bt_SearchLedFunc(e) = Row("RED", 20, 3, 1, 0, "SINGLE")
  BY DEF Bt_SearchLedFunc
<1>2. \A e : e = "CONNECTED" => Bt_SearchLedFunc(e) = Row("BLUE", 2, 2, 1, 0, "SINGLE")
  BY DEF Bt_SearchLedFunc
<1>3. \A e : e = "LOW_POWER" => Bt_SearchLedFunc(e) = Row("RED", 4, 4, 3, 0, "SINGLE")
  BY DEF Bt_SearchLedFunc
<1>4. \A e \in Event \ Alerts :
        Bt_SearchLedFunc(e) \in {Row("SWITCH", 3, 3, 1, 3, "REPEAT"), Invalid,
                                 Row("BLUE", 200, 0, 1, 0, "REPEAT"),
                                 Row("RED", 0, 0, 1, 0, "REPEAT"),
                                 Row("SWITCH", 1, 1, 2, 1, "REPEAT")}
  BY DEF Bt_SearchLedFunc, Alerts, Event
<1> QED BY <1>1, <1>2, <1>3, <1>4 DEF Row, Invalid, Pattern, Alerts, AlertRow, Event
-----------------------------------------------------------------------------
(* The LEDs and the timer. *)

LEMMA InactiveFacts ==
  ASSUME NEW l \in LedRec, NEW c \in SUBSET {"blue", "red"}
  PROVE  LET r == led_set_inactive(l, c) IN
         /\ r \in LedRec /\ Rest(r) = Rest(l) /\ r.lit = l.lit \ c
         /\ r.timer = l.timer /\ r.lock = l.lock
<1> DEFINE r == led_set_inactive(l, c)
<1>1. l.lit \ c \in SUBSET {"blue", "red"} /\ FALSE \in BOOLEAN
  BY DEF LedRec
<1>2. r \in LedRec
  BY <1>1, Zenon DEF led_set_inactive, LedRec
<1>3. /\ Rest(r) = Rest(l) /\ r.lit = l.lit \ c
      /\ r.timer = l.timer /\ r.lock = l.lock
  BY DEF led_set_inactive, LedRec, Rest
<1> QED BY <1>2, <1>3

LEMMA PwmFacts ==
  ASSUME NEW l \in LedRec, NEW c \in SUBSET {"blue", "red"}
  PROVE  LET r == led_set_pwm(l, c) IN
         /\ r \in LedRec /\ Rest(r) = Rest(l) /\ r.lit = l.lit \cup c
         /\ r.timer = l.timer /\ r.lock = l.lock
<1> DEFINE r == led_set_pwm(l, c)
<1>1. l.lit \cup c \in SUBSET {"blue", "red"} /\ TRUE \in BOOLEAN
  BY DEF LedRec
<1>2. r \in LedRec
  BY <1>1, Zenon DEF led_set_pwm, LedRec
<1>3. /\ Rest(r) = Rest(l) /\ r.lit = l.lit \cup c
      /\ r.timer = l.timer /\ r.lock = l.lock
  BY DEF led_set_pwm, LedRec, Rest
<1> QED BY <1>2, <1>3

LEMMA TimerFacts ==
  ASSUME NEW l \in LedRec, NEW t \in Nat
  PROVE  LET r == SetLedTimer(l, t) IN
         /\ r \in LedRec /\ Rest(r) = Rest(l) /\ r.lit = l.lit /\ r.lock = l.lock
         /\ t # 0 => r.timer # 0 /\ r.timer = t + 1
<1> DEFINE r == SetLedTimer(l, t)
<1>1. t + 1 \in Nat /\ t + 1 # 0
  OBVIOUS
<1>2. [l EXCEPT !.timer = t + 1] \in LedRec
  BY <1>1, Zenon DEF LedRec
<1>3. LET s == [l EXCEPT !.timer = t + 1] IN
        Rest(s) = Rest(l) /\ s.lit = l.lit /\ s.lock = l.lock /\ s.timer = t + 1
  BY DEF LedRec, Rest
<1> QED BY <1>1, <1>2, <1>3 DEF SetLedTimer

\* A lit pattern lights at most its own colours on top of what was lit.
LEMMA LightFacts ==
  ASSUME NEW l \in LedRec
  PROVE  LET r == led_light_led(l) IN
         /\ r \in LedRec /\ Rest(r) = Rest(l)
         /\ r.timer = l.timer /\ r.lock = l.lock
         /\ r.lit \subseteq l.lit \cup Colours(l.cur.par.style)
         /\ ~ l.cur.on /\ l.cur.par.style # "SWITCH"
              => r.lit = l.lit \ Colours(l.cur.par.style)
<1> DEFINE style == l.cur.par.style
           b == led_set_pwm(l, {"blue"})
           d == led_set_inactive(l, {"blue"})
<1>1. /\ style \in {"INVALID", "SWITCH", "BLUE", "RED"} /\ l.cur.on \in BOOLEAN
      /\ l.lit \subseteq {"blue", "red"}
  BY DEF LedRec, LedState, Pattern
<1>2. Colours(style) \in SUBSET {"blue", "red"}
  BY <1>1 DEF Colours
<1>3. style = "SWITCH" => Colours(style) = {"blue", "red"}
  BY DEF Colours
<1>4. CASE style = "SWITCH" /\ l.cur.on
  <2>1. led_light_led(l) = led_set_inactive(b, {"red"})
    BY <1>4 DEF led_light_led
  <2>2. b \in LedRec /\ Rest(b) = Rest(l) /\ b.timer = l.timer /\ b.lock = l.lock
    BY PwmFacts
  <2> HIDE DEF b, style
  <2> QED BY <1>1, <1>3, <1>4, <2>1, <2>2, InactiveFacts DEF LedRec, style
<1>5. CASE style = "SWITCH" /\ ~ l.cur.on
  <2>1. led_light_led(l) = led_set_pwm(d, {"red"})
    BY <1>5 DEF led_light_led
  <2>2. d \in LedRec /\ Rest(d) = Rest(l) /\ d.timer = l.timer /\ d.lock = l.lock
    BY InactiveFacts
  <2> HIDE DEF d, style
  <2> QED BY <1>1, <1>3, <1>5, <2>1, <2>2, PwmFacts DEF LedRec, style
<1>6. CASE style = "INVALID" /\ l.cur.on
  <2>1. led_light_led(l) = l
    BY <1>6 DEF led_light_led
  <2> QED BY <1>6, <2>1
<1>7. CASE style \in {"BLUE", "RED"} /\ l.cur.on
  <2>1. led_light_led(l) = led_set_pwm(l, Colours(style))
    BY <1>7 DEF led_light_led
  <2> HIDE DEF style
  <2> QED BY <1>2, <1>7, <2>1, PwmFacts DEF style
<1>8. CASE style # "SWITCH" /\ ~ l.cur.on
  <2>1. led_light_led(l) = led_set_inactive(l, Colours(style))
    BY <1>1, <1>8 DEF led_light_led
  <2> HIDE DEF style
  <2> QED BY <1>2, <1>8, <2>1, InactiveFacts DEF style
<1> QED BY <1>1, <1>4, <1>5, <1>6, <1>7, <1>8
-----------------------------------------------------------------------------
(* The callback. *)

LEMMA CurFacts ==
  ASSUME NEW l \in LedRec, NEW c \in LedState
  PROVE  LET r == [l EXCEPT !.cur = c] IN
         /\ r \in LedRec /\ r.cur = c /\ r.back = l.back /\ r.queue = l.queue
         /\ r.hung = l.hung /\ r.timer = l.timer /\ r.lock = l.lock /\ r.lit = l.lit
<1> DEFINE r == [l EXCEPT !.cur = c]
<1>1. r \in LedRec
  BY Zenon DEF LedRec
<1>2. /\ r.cur = c /\ r.back = l.back /\ r.queue = l.queue
      /\ r.hung = l.hung /\ r.timer = l.timer /\ r.lock = l.lock /\ r.lit = l.lit
  BY DEF LedRec
<1> QED BY <1>1, <1>2

\* What the callback leaves: the same pattern, or the background.
Stays(l, r) == r.cur.fg = l.cur.fg /\ r.cur.par = l.cur.par /\ r.back = l.back
Ends(l, r) == l.cur.fg /\ r.cur = l.back /\ r.back = l.back /\ ~ l.cur.on /\ l.cur.count = 0

LEMMA CallbackOff ==
  ASSUME NEW l, Good(l), l.cur.on
  PROVE  LET r == led_timer_callback(l) IN
         Good(r) /\ Timed(r) /\ (Locked(l) => Locked(r)) /\ Stays(l, r)
         /\ r.queue = l.queue /\ r.hung = l.hung
         /\ r.cur = [l.cur EXCEPT !.on = FALSE]
         /\ (l.cur.par.off # 0 => r.timer = l.cur.par.off + 1)
<1> DEFINE p == l.cur.par
           c == [l.cur EXCEPT !.on = FALSE]
           m == [l EXCEPT !.cur = c]
           n == led_light_led(m)
           r == SetLedTimer(n, p.off)
<1>1. l \in LedRec /\ l.cur \in LedState /\ p \in Pattern /\ p.off \in Nat
  BY DEF Good, LedRec, LedState, Pattern
<1>2. c \in LedState /\ c.par = p /\ c.fg = l.cur.fg /\ ~ c.on
  <2>1. c \in LedState
    BY <1>1, Zenon DEF LedState
  <2> QED BY <1>1, <2>1 DEF LedState
<1>3. led_timer_callback(l) = r
  BY DEF led_timer_callback
<1>4. p.style # "INVALID"
  BY DEF Good, Cleared
<1> HIDE DEF c, p
<1>5. m \in LedRec /\ m.cur = c /\ m.back = l.back /\ m.queue = l.queue /\ m.hung = l.hung
      /\ m.lock = l.lock /\ m.lit = l.lit
  BY <1>1, <1>2, CurFacts
<1> HIDE DEF m
<1>6. n \in LedRec /\ Rest(n) = Rest(m) /\ n.lock = m.lock
      /\ n.lit \subseteq m.lit \cup Colours(p.style)
      /\ (p.style # "SWITCH" => n.lit = m.lit \ Colours(p.style))
  BY <1>2, <1>5, LightFacts
<1> HIDE DEF n
<1>7. r \in LedRec /\ Rest(r) = Rest(m) /\ r.lock = l.lock /\ r.lit = n.lit
      /\ (p.off # 0 => r.timer # 0 /\ r.timer = p.off + 1)
  BY <1>1, <1>5, <1>6, TimerFacts
<1> HIDE DEF r
<1>8. r.cur = c /\ r.back = l.back /\ r.queue = l.queue /\ r.hung = l.hung
  BY <1>5, <1>7 DEF Rest
<1>9. Stays(l, r) /\ (Locked(l) => Locked(r)) /\ Timed(r)
  BY <1>1, <1>2, <1>7, <1>8 DEF Stays, Locked, Timed, Blinks, Good, AlertRow, p
<1>10. Good(r)
  BY <1>1, <1>2, <1>4, <1>5, <1>6, <1>7, <1>8 DEF Good, OverDark, AlertRow, p
<1> QED BY <1>3, <1>7, <1>8, <1>9, <1>10 DEF c, p

LEMMA CallbackOn ==
  ASSUME NEW l, Good(l), ~ l.cur.on, l.cur.count # 0
  PROVE  LET r == led_timer_callback(l) IN
         Good(r) /\ Timed(r) /\ (Locked(l) => Locked(r)) /\ Stays(l, r)
         /\ r.queue = l.queue /\ r.hung = l.hung
         /\ r.cur = [l.cur EXCEPT !.count = l.cur.count - 1, !.on = TRUE]
         /\ (l.cur.par.on # 0 => r.timer = l.cur.par.on + 1)
<1> DEFINE p == l.cur.par
           c == [l.cur EXCEPT !.count = l.cur.count - 1, !.on = TRUE]
           m == [l EXCEPT !.cur = c]
           n == SetLedTimer(m, p.on)
           r == led_light_led(n)
<1>1. l \in LedRec /\ l.cur \in LedState /\ p \in Pattern /\ p.on \in Nat
      /\ l.cur.count \in Nat
  BY DEF Good, LedRec, LedState, Pattern
<1>2. c \in LedState /\ c.par = p /\ c.fg = l.cur.fg /\ c.on
  <2>1. l.cur.count - 1 \in Nat
    BY <1>1
  <2>2. c \in LedState
    BY <1>1, <2>1, Zenon DEF LedState
  <2> QED BY <1>1, <2>2 DEF LedState
<1>3. led_timer_callback(l) = r
  <2>1. [l EXCEPT !.cur.count = @ - 1, !.cur.on = TRUE] = m
    BY <1>1 DEF LedRec, LedState
  <2> QED BY <2>1 DEF led_timer_callback
<1>4. p.style # "INVALID"
  BY DEF Good, Cleared
<1> HIDE DEF c, p
<1>5. m \in LedRec /\ m.cur = c /\ m.back = l.back /\ m.queue = l.queue /\ m.hung = l.hung
      /\ m.lock = l.lock /\ m.lit = l.lit
  BY <1>1, <1>2, CurFacts
<1> HIDE DEF m
<1>6. n \in LedRec /\ Rest(n) = Rest(m) /\ n.lock = m.lock /\ n.lit = m.lit
      /\ (p.on # 0 => n.timer # 0 /\ n.timer = p.on + 1)
  BY <1>1, <1>5, TimerFacts
<1> HIDE DEF n
<1>7. n.cur = c
  BY <1>5, <1>6 DEF Rest
<1>8. r \in LedRec /\ Rest(r) = Rest(n) /\ r.lock = n.lock /\ r.timer = n.timer
      /\ r.lit \subseteq n.lit \cup Colours(p.style)
  BY <1>2, <1>6, <1>7, LightFacts
<1> HIDE DEF r
<1>9. r.cur = c /\ r.back = l.back /\ r.queue = l.queue /\ r.hung = l.hung
  BY <1>5, <1>6, <1>8 DEF Rest
<1>10. Stays(l, r) /\ (Locked(l) => Locked(r)) /\ Timed(r)
  BY <1>1, <1>2, <1>5, <1>6, <1>8, <1>9 DEF Stays, Locked, Timed, Blinks, Good, AlertRow, p
<1>11. Good(r)
  BY <1>1, <1>2, <1>4, <1>5, <1>6, <1>8, <1>9 DEF Good, OverDark, AlertRow, p
<1> QED BY <1>3, <1>6, <1>8, <1>9, <1>10, <1>11 DEF c, p

LEMMA CallbackReload ==
  ASSUME NEW l, Good(l), ~ l.cur.on, l.cur.count = 0, ~ l.cur.fg
  PROVE  LET r == led_timer_callback(l) IN
         Good(r) /\ Timed(r) /\ (Locked(l) => Locked(r)) /\ Stays(l, r)
         /\ r.queue = l.queue /\ r.hung = l.hung
<1> DEFINE p == l.cur.par
           c == [l.cur EXCEPT !.count = p.blinks]
           m == [l EXCEPT !.cur = c]
           n == led_set_inactive(m, {"blue", "red"})
           r == SetLedTimer(n, p.delay)
<1>1. l \in LedRec /\ l.cur \in LedState /\ p \in Pattern /\ p.delay \in Nat /\ p.blinks \in Nat
  BY DEF Good, LedRec, LedState, Pattern
<1>2. c \in LedState /\ c.par = p /\ c.fg = l.cur.fg /\ ~ c.on
  <2>1. c \in LedState
    BY <1>1, Zenon DEF LedState
  <2> QED BY <1>1, <2>1 DEF LedState
<1>3. led_timer_callback(l) = r
  BY DEF led_timer_callback
<1>4. p.style = "INVALID" => c = Cleared
  BY DEF Good, Cleared, Invalid, Row
<1> HIDE DEF c, p
<1>5. m \in LedRec /\ m.cur = c /\ m.back = l.back /\ m.queue = l.queue /\ m.hung = l.hung
      /\ m.lock = l.lock
  BY <1>1, <1>2, CurFacts
<1> HIDE DEF m
<1>6. n \in LedRec /\ Rest(n) = Rest(m) /\ n.lock = m.lock /\ n.lit = {}
  <2>1. n \in LedRec /\ Rest(n) = Rest(m) /\ n.lock = m.lock /\ n.lit = m.lit \ {"blue", "red"}
    BY <1>5, InactiveFacts
  <2> QED BY <1>5, <2>1 DEF LedRec
<1> HIDE DEF n
<1>7. r \in LedRec /\ Rest(r) = Rest(m) /\ r.lock = l.lock /\ r.lit = {}
      /\ (p.delay # 0 => r.timer # 0)
  BY <1>1, <1>5, <1>6, TimerFacts
<1> HIDE DEF r
<1>8. r.cur = c /\ r.back = l.back /\ r.queue = l.queue /\ r.hung = l.hung
  BY <1>5, <1>7 DEF Rest
<1>9. Stays(l, r) /\ (Locked(l) => Locked(r)) /\ Timed(r)
  BY <1>1, <1>2, <1>7, <1>8 DEF Stays, Locked, Timed, Blinks, p
<1>10. Good(r)
  BY <1>1, <1>2, <1>4, <1>5, <1>7, <1>8 DEF Good, p
<1> QED BY <1>3, <1>8, <1>9, <1>10

LEMMA CallbackEnds ==
  ASSUME NEW l, Good(l), ~ l.cur.on, l.cur.count = 0, l.cur.fg
  PROVE  LET r == led_timer_callback(l) IN
         Good(r) /\ Timed(r) /\ Locked(r) /\ Ends(l, r)
         /\ r.queue = l.queue /\ r.hung = l.hung
<1> DEFINE p == l.back.par
           m == [l EXCEPT !.cur = l.back, !.lock = FALSE]
           n == [led_light_led(m) EXCEPT !.lock = TRUE]
           t == IF l.back.on THEN p.on ELSE p.off
           r == AlertEnds(l)
<1>1. l \in LedRec /\ l.back \in LedState /\ p \in Pattern /\ t \in Nat
  BY DEF Good, LedRec, LedState, Pattern
<1>2. led_timer_callback(l) = r
  BY DEF led_timer_callback
<1>3. m \in LedRec /\ m.cur = l.back /\ m.back = l.back /\ m.queue = l.queue
      /\ m.hung = l.hung /\ m.lit = l.lit
  <2>1. m \in LedRec
    BY <1>1, Zenon DEF LedRec
  <2>2. /\ m.cur = l.back /\ m.back = l.back /\ m.queue = l.queue
        /\ m.hung = l.hung /\ m.lit = l.lit
    BY <1>1 DEF LedRec
  <2> QED BY <2>1, <2>2
<1>4. p.style = "INVALID" => r = m
  BY DEF AlertEnds
<1>5. p.style # "INVALID" => r = SetLedTimer(n, t)
  BY DEF AlertEnds
<1> HIDE DEF m, r
<1>6. CASE p.style = "INVALID"
  <2>1. l.lit = {} /\ l.back = Cleared
    BY <1>6 DEF Good, OverDark
  <2>2. Good(r)
    BY <1>1, <1>3, <1>4, <1>6, <2>1 DEF Good, Cleared
  <2>3. Timed(r)
    BY <1>3, <1>4, <1>6, <2>1 DEF Timed, Blinks, Cleared, Invalid, Row
  <2> QED BY <1>2, <1>3, <1>4, <1>6, <2>2, <2>3 DEF Locked, Ends
<1>7. CASE p.style # "INVALID"
  <2> DEFINE k == led_light_led(m)
  <2>1. k \in LedRec /\ Rest(k) = Rest(m)
    BY <1>3, LightFacts
  <2> HIDE DEF k
  <2>2. n \in LedRec /\ Rest(n) = Rest(m) /\ n.lock
    <3>1. [k EXCEPT !.lock = TRUE] \in LedRec
      BY <2>1, Zenon DEF LedRec
    <3>2. LET j == [k EXCEPT !.lock = TRUE] IN Rest(j) = Rest(k) /\ j.lock
      BY <2>1 DEF LedRec, Rest
    <3> QED BY <2>1, <3>1, <3>2 DEF k
  <2> HIDE DEF n, t
  <2>3. r \in LedRec /\ Rest(r) = Rest(m) /\ r.lock /\ (t # 0 => r.timer # 0)
    BY <1>1, <1>5, <1>7, <2>2, TimerFacts, SMTT(30)
  <2>4. r.cur = l.back /\ r.back = l.back /\ r.queue = l.queue /\ r.hung = l.hung
    BY <1>3, <2>3 DEF Rest
  <2>5. Good(r)
    BY <1>7, <2>3, <2>4 DEF Good
  <2>6. Timed(r)
    BY <1>1, <2>3, <2>4 DEF Timed, Blinks, Good, t
  <2> QED BY <1>2, <2>3, <2>4, <2>5, <2>6 DEF Locked, Ends
<1> QED BY <1>6, <1>7

LEMMA CallbackGood ==
  ASSUME NEW l, Good(l)
  PROVE  LET r == led_timer_callback(l) IN
         /\ Good(r) /\ Timed(r) /\ (Locked(l) => Locked(r))
         /\ r.queue = l.queue /\ r.hung = l.hung
         /\ Stays(l, r) \/ Ends(l, r)
<1>1. CASE l.cur.on
  BY <1>1, CallbackOff
<1>2. CASE ~ l.cur.on /\ l.cur.count # 0
  BY <1>2, CallbackOn, Zenon
<1>3. CASE ~ l.cur.on /\ l.cur.count = 0 /\ ~ l.cur.fg
  BY <1>3, CallbackReload
<1>4. CASE ~ l.cur.on /\ l.cur.count = 0 /\ l.cur.fg
  BY <1>4, CallbackEnds
<1> QED BY <1>1, <1>2, <1>3, <1>4
-----------------------------------------------------------------------------
(* The requests. *)

Ready(l) == Good(l) /\ Locked(l) /\ Timed(l)

\* An alert enters the queue, or the driver hangs with nothing changed.
LEMMA FgevtFacts ==
  ASSUME NEW l, Ready(l), NEW e \in Alerts
  PROVE  LET r == led_send_fgevt_to_queue(l, e) IN
         /\ Ready(r) /\ r.cur = l.cur /\ r.back = l.back
         /\ r.timer = l.timer /\ (Len(l.queue) # QueueCap => r.hung = l.hung)
         /\ IF Len(l.queue) = QueueCap THEN r.queue = l.queue ELSE r.queue = Append(l.queue, e)
<1>1. l \in LedRec /\ l.queue \in Seq(Event) /\ e \in Event /\ QueueCap \in Nat
  BY LedAssumption DEF Ready, Good, LedRec, Alerts, Event
<1>2. CASE Len(l.queue) = QueueCap
  <2> DEFINE r == [l EXCEPT !.hung = TRUE]
  <2>1. r \in LedRec
    BY <1>1, Zenon DEF LedRec
  <2>2. /\ r.cur = l.cur /\ r.back = l.back /\ r.queue = l.queue
        /\ r.lock = l.lock /\ r.timer = l.timer /\ r.lit = l.lit
    BY <1>1 DEF LedRec
  <2>3. led_send_fgevt_to_queue(l, e) = r
    BY <1>2 DEF led_send_fgevt_to_queue
  <2> HIDE DEF r
  <2> QED BY <1>2, <2>1, <2>2, <2>3 DEF Ready, Good, Locked, Timed, OverDark
<1>3. CASE Len(l.queue) # QueueCap
  <2> DEFINE q == Append(l.queue, e)
             r == [l EXCEPT !.queue = q]
  <2>1. q \in Seq(Event) /\ Len(q) = Len(l.queue) + 1
    BY <1>1
  <2>2. Len(q) <= QueueCap
    BY <1>1, <1>3, <2>1 DEF Ready, Good
  <2>3. \A i \in 1 .. Len(q) : q[i] \in Alerts
    BY <1>1, <2>1 DEF Ready, Good
  <2> HIDE DEF q
  <2>4. r \in LedRec
    BY <1>1, <2>1, Zenon DEF LedRec
  <2>5. /\ r.cur = l.cur /\ r.back = l.back /\ r.queue = q /\ r.hung = l.hung
        /\ r.lock = l.lock /\ r.timer = l.timer /\ r.lit = l.lit
    BY <1>1 DEF LedRec
  <2>6. led_send_fgevt_to_queue(l, e) = r
    BY <1>1, <1>3 DEF led_send_fgevt_to_queue, q, LedRec
  <2> HIDE DEF r
  <2>7. Ready(r)
    BY <2>2, <2>3, <2>4, <2>5 DEF Ready, Good, Locked, Timed, OverDark
  <2> QED BY <1>3, <2>5, <2>6, <2>7 DEF q
<1> QED BY <1>2, <1>3

LEMMA FreshFacts ==
  ASSUME NEW p \in Pattern, NEW fg \in BOOLEAN
  PROVE  LET c == Fresh(p, fg) IN
         c \in LedState /\ c.par = p /\ ~ c.on /\ c.count = p.blinks /\ c.fg = fg
BY DEF Fresh, LedState, Pattern

\* A background takes its place, on the LEDs or under the alert that is on them.
LEMMA BgevtFacts ==
  ASSUME NEW l, Ready(l), NEW p \in Pattern, p.style # "INVALID"
  PROVE  LET r == led_send_bgevt(l, p) IN
         Ready(r) /\ Showing(r) = Showing(l) /\ Behind(r) = p /\ r.queue = l.queue
         /\ r.hung = l.hung /\ (l.cur.fg => r.cur = l.cur /\ r.timer = l.timer)
<1> DEFINE c == Fresh(p, FALSE)
<1>1. l \in LedRec /\ l.queue \in Seq(Event) /\ l.cur.fg \in BOOLEAN
  BY DEF Ready, Good, LedRec, LedState
<1>2. c \in LedState /\ c.par = p /\ ~ c.on /\ ~ c.fg
  BY FreshFacts
<1> HIDE DEF c
<1>3. CASE l.cur.fg
  <2> DEFINE r == [l EXCEPT !.back = c]
  <2>1. r \in LedRec
    BY <1>1, <1>2, Zenon DEF LedRec
  <2>2. /\ r.cur = l.cur /\ r.back = c /\ r.queue = l.queue /\ r.hung = l.hung
        /\ r.lock = l.lock /\ r.timer = l.timer /\ r.lit = l.lit
    BY <1>1 DEF LedRec
  <2>3. led_send_bgevt(l, p) = r
    BY <1>3 DEF led_send_bgevt, c
  <2> HIDE DEF r
  <2>4. Ready(r)
    BY <1>2, <2>1, <2>2 DEF Ready, Good, Locked, Timed, OverDark
  <2> QED BY <1>2, <1>3, <2>2, <2>3, <2>4 DEF Showing, Behind
<1>4. CASE ~ l.cur.fg
  <2> DEFINE d == led_set_inactive(l, {"blue", "red"})
             m == [d EXCEPT !.cur = c, !.timer = 0, !.lock = TRUE]
             r == led_timer_callback(m)
  <2>1. d \in LedRec /\ Rest(d) = Rest(l) /\ d.lit = {}
    <3>1. d.lit = l.lit \ {"blue", "red"} /\ d \in LedRec /\ Rest(d) = Rest(l)
      BY <1>1, InactiveFacts
    <3> QED BY <1>1, <3>1 DEF LedRec
  <2>2. led_send_bgevt(l, p) = r
    BY <1>4 DEF led_send_bgevt, c
  <2> HIDE DEF d
  <2>3. m \in LedRec
    BY <1>2, <2>1, Zenon DEF LedRec
  <2>4. m.cur = c /\ m.back = d.back /\ m.queue = d.queue /\ m.lock /\ m.lit = {}
        /\ m.hung = d.hung
    BY <2>1 DEF LedRec
  <2>5. d.back = l.back /\ d.queue = l.queue /\ d.hung = l.hung
    BY <2>1 DEF Rest
  <2> HIDE DEF m
  <2>6. Good(m) /\ Locked(m)
    BY <1>2, <2>3, <2>4, <2>5 DEF Ready, Good, Locked
  <2>7. Good(r) /\ Timed(r) /\ Locked(r) /\ r.queue = m.queue /\ Stays(m, r)
        /\ r.hung = m.hung
    BY <1>2, <2>4, <2>6, CallbackGood DEF Ends
  <2> HIDE DEF r
  <2> QED BY <1>2, <1>4, <2>2, <2>4, <2>5, <2>7 DEF Ready, Stays, Showing, Behind
<1> QED BY <1>1, <1>3, <1>4

LEMMA ClearFacts ==
  ASSUME NEW l, Good(l)
  PROVE  LET r == led_clear_led(l) IN
         Ready(r) /\ Showing(r) = Invalid /\ Behind(r) = Invalid /\ r.queue = << >>
         /\ r.hung = l.hung
<1> DEFINE r == [l EXCEPT !.cur = Cleared, !.back = Cleared, !.queue = << >>, !.lit = {}]
<1>1. /\ l \in LedRec /\ << >> \in Seq(Event) /\ QueueCap \in Nat
      /\ {} \in SUBSET {"blue", "red"}
  BY LedAssumption DEF Good
<1>2. Cleared \in LedState /\ Cleared.par = Invalid /\ ~ Cleared.fg /\ ~ Cleared.on
      /\ Invalid.style = "INVALID" /\ ~ Blinks(Invalid)
  BY DEF Cleared, LedState, Invalid, Row, Pattern, Blinks
<1>3. led_clear_led(l) = r
  BY DEF led_clear_led
<1>4. r \in LedRec
  BY <1>1, <1>2, Zenon DEF LedRec
<1>5. r.cur = Cleared /\ r.back = Cleared /\ r.queue = << >> /\ r.lit = {}
      /\ r.hung = l.hung
  BY <1>1 DEF LedRec
<1> HIDE DEF r
<1>6. Ready(r)
  BY <1>1, <1>2, <1>4, <1>5 DEF Ready, Good, Locked, Timed
<1> QED BY <1>2, <1>3, <1>5, <1>6 DEF Showing, Behind
-----------------------------------------------------------------------------
(* The events. *)

LEMMA Farewell ==
  ASSUME NEW l, Good(l), NEW e \in {"CONNECTED", "POWER_OFF"}
  PROVE  LET r == Bt_ProcessLedFunc(l, e) IN
         Ready(r) /\ Showing(r) = Invalid /\ Behind(r) = Invalid /\ r.queue = << e >>
         /\ r.hung = l.hung
<1> DEFINE c == led_clear_led(l)
           r == Bt_ProcessLedFunc(l, e)
<1>1. e \in Alerts /\ e \in Clearing /\ e \in Event /\ QueueCap \in Nat \ {0}
  BY LedAssumption DEF Alerts, Clearing, Event
<1>2. Bt_SearchLedFunc(e).style # "INVALID" /\ Bt_SearchLedFunc(e).repeat = "SINGLE"
  BY <1>1, RowTypes DEF AlertRow
<1>3. r = led_send_fgevt_to_queue(c, e)
  BY <1>1, <1>2 DEF Bt_ProcessLedFunc
<1>4. Ready(c) /\ Showing(c) = Invalid /\ Behind(c) = Invalid /\ c.queue = << >>
      /\ c.hung = l.hung
  BY ClearFacts
<1> HIDE DEF c, r
<1>5. Ready(r) /\ r.cur = c.cur /\ r.back = c.back /\ r.queue = Append(<< >>, e)
      /\ r.hung = c.hung
  BY <1>1, <1>3, <1>4, FgevtFacts
<1> QED BY <1>4, <1>5 DEF Showing, Behind, r

LEMMA LowPower ==
  ASSUME NEW l, Ready(l)
  PROVE  LET r == Bt_ProcessLedFunc(l, "LOW_POWER") IN
         /\ Ready(r) /\ Showing(r) = Showing(l) /\ Behind(r) = Behind(l)
         /\ r.queue = l.queue \/ r.queue = Append(l.queue, "LOW_POWER")
         /\ r.cur = l.cur /\ r.timer = l.timer
         /\ Len(l.queue) # QueueCap => r.hung = l.hung
<1> DEFINE r == Bt_ProcessLedFunc(l, "LOW_POWER")
<1>1. "LOW_POWER" \in Alerts /\ "LOW_POWER" \notin Clearing /\ "LOW_POWER" \in Event
  BY DEF Alerts, Clearing, Event
<1>2. AlertRow(Bt_SearchLedFunc("LOW_POWER"))
      /\ Bt_SearchLedFunc("LOW_POWER").repeat = "SINGLE"
  BY <1>1, RowTypes
<1>3. r = led_send_fgevt_to_queue(l, "LOW_POWER")
  BY <1>1, <1>2 DEF Bt_ProcessLedFunc, AlertRow
<1> HIDE DEF r
<1> QED BY <1>1, <1>3, FgevtFacts DEF Showing, Behind, r

BackEvents == {"POWER_ON", "PAGING", "DISCOVERABLE", "TWS_PARING", "CHARGING", "CHARGE_FULL"}

LEMMA BackgroundEvent ==
  ASSUME NEW l, Ready(l), NEW e \in BackEvents
  PROVE  LET r == Bt_ProcessLedFunc(l, e) IN
         /\ Ready(r) /\ Showing(r) = Showing(l) /\ r.queue = l.queue
         /\ Behind(r) = Bt_SearchLedFunc(e) /\ r.hung = l.hung
         /\ l.cur.fg => r.cur = l.cur /\ r.timer = l.timer
<1> DEFINE p == Bt_SearchLedFunc(e)
           r == Bt_ProcessLedFunc(l, e)
<1>1. e \notin Clearing /\ e \in Event
  BY DEF BackEvents, Clearing, Event
<1>2. p \in Pattern /\ p.style # "INVALID" /\ p.repeat # "SINGLE"
  <2>1. p \in {Row("SWITCH", 3, 3, 1, 3, "REPEAT"), Row("BLUE", 200, 0, 1, 0, "REPEAT"),
                Row("RED", 0, 0, 1, 0, "REPEAT"), Row("SWITCH", 1, 1, 2, 1, "REPEAT")}
    BY DEF Bt_SearchLedFunc, BackEvents
  <2> QED BY <2>1 DEF Row, Pattern
<1>3. p.repeat = "REPEAT"
  BY <1>2 DEF Pattern
<1>4. r = led_send_bgevt(l, p)
  BY <1>1, <1>2, <1>3 DEF Bt_ProcessLedFunc
<1> HIDE DEF p, r
<1> QED BY <1>2, <1>4, BgevtFacts DEF p, r

LEMMA InvalidEvent ==
  ASSUME NEW l
  PROVE  /\ \A e \in {"TWS_PARED", "TWS_SLAVE_CONNECTED"} :
              Bt_ProcessLedFunc(l, e) = led_clear_led(l)
         /\ \A e \in {"DISCONNECTED", "CONNECTED_IDLE"} : Bt_ProcessLedFunc(l, e) = l
<1>1. \A e \in {"TWS_PARED", "TWS_SLAVE_CONNECTED", "DISCONNECTED", "CONNECTED_IDLE"} :
        Bt_SearchLedFunc(e) = Invalid
  BY DEF Bt_SearchLedFunc
<1>2. Invalid.style = "INVALID"
  BY DEF Invalid, Row
<1>3. \A e \in {"TWS_PARED", "TWS_SLAVE_CONNECTED", "DISCONNECTED", "CONNECTED_IDLE"} :
        Bt_ProcessLedFunc(l, e) = IF e \in Clearing THEN led_clear_led(l) ELSE l
  BY <1>1, <1>2 DEF Bt_ProcessLedFunc
<1> QED BY <1>3 DEF Clearing

LEMMA ChargerIn ==
  ASSUME NEW l, Good(l), NEW e \in {"CHARGING", "CHARGE_FULL"}
  PROVE  LET r == Bt_ProcessLedFunc(led_clear_led(l), e) IN
         /\ Ready(r) /\ Showing(r) = Invalid /\ r.queue = << >>
         /\ Behind(r) = Bt_SearchLedFunc(e) /\ r.hung = l.hung
<1> DEFINE c == led_clear_led(l)
<1>1. Ready(c) /\ Showing(c) = Invalid /\ c.queue = << >> /\ e \in BackEvents
      /\ c.hung = l.hung
  BY ClearFacts DEF BackEvents
<1> HIDE DEF c
<1> QED BY <1>1, BackgroundEvent DEF c

LEMMA DarkFacts ==
  Ready(Dark) /\ Showing(Dark) = Invalid /\ Behind(Dark) = Invalid /\ Dark.queue = << >>
  /\ ~ Dark.hung
<1>1. Cleared \in LedState /\ Cleared.par = Invalid /\ ~ Cleared.fg /\ ~ Cleared.on
      /\ Invalid.style = "INVALID" /\ ~ Blinks(Invalid)
  BY DEF Cleared, LedState, Invalid, Row, Pattern, Blinks
<1>2. << >> \in Seq(Event) /\ QueueCap \in Nat
  BY LedAssumption
<1>3. Dark \in LedRec
  BY <1>1, <1>2 DEF Dark, LedRec
<1>4. /\ Dark.cur = Cleared /\ Dark.back = Cleared /\ Dark.queue = << >> /\ Dark.lit = {}
      /\ ~ Dark.hung
  BY DEF Dark
<1> QED BY <1>1, <1>2, <1>3, <1>4 DEF Ready, Good, Locked, Timed, Showing, Behind
-----------------------------------------------------------------------------
(* The mapping to LedIndicator. *)

LEMMA PendingTypes ==
  ASSUME NEW q \in Seq(Event)
  PROVE  /\ Pending(q) \in Seq(Pattern) /\ Len(Pending(q)) = Len(q)
         /\ \A i \in 1 .. Len(q) : Pending(q)[i] = Bt_SearchLedFunc(q[i])
<1>1. Len(q) \in Nat /\ \A i \in 1 .. Len(q) : q[i] \in Event
  OBVIOUS
<1>2. Pending(q) = [i \in 1 .. Len(q) |-> Bt_SearchLedFunc(q[i])]
  BY DEF Pending
<1> QED BY <1>1, <1>2, RowTypes

LEMMA PendingFacts ==
  /\ Pending(<< >>) = << >>
  /\ \A e : Pending(<< e >>) = << Bt_SearchLedFunc(e) >>
  /\ \A q \in Seq(Event), e \in Event :
       Pending(Append(q, e)) = Append(Pending(q), Bt_SearchLedFunc(e))
  /\ \A q \in Seq(Event) : q # << >> =>
       /\ Pending(q) # << >> /\ Head(Pending(q)) = Bt_SearchLedFunc(Head(q))
       /\ Pending(Tail(q)) = Tail(Pending(q))
<1>1. Pending(<< >>) = << >>
  BY DEF Pending
<1>2. \A e : Pending(<< e >>) = << Bt_SearchLedFunc(e) >>
  BY DEF Pending
<1>3. ASSUME NEW q \in Seq(Event), NEW e \in Event
      PROVE  Pending(Append(q, e)) = Append(Pending(q), Bt_SearchLedFunc(e))
  BY DEF Pending
<1>4. ASSUME NEW q \in Seq(Event), q # << >>
      PROVE  /\ Pending(q) # << >> /\ Head(Pending(q)) = Bt_SearchLedFunc(Head(q))
             /\ Pending(Tail(q)) = Tail(Pending(q))
  <2> DEFINE n == Len(q)
             P == Pending(q)
  <2>1. n \in Nat \ {0} /\ Tail(q) \in Seq(Event) /\ Len(Tail(q)) = n - 1
        /\ \A i \in 1 .. n - 1 : Tail(q)[i] = q[i + 1]
    BY <1>4
  <2>2. /\ P \in Seq(Pattern) /\ Len(P) = n
        /\ \A i \in 1 .. n : P[i] = Bt_SearchLedFunc(q[i])
    BY PendingTypes, Zenon
  <2> DEFINE T == Pending(Tail(q))
  <2>3. /\ T \in Seq(Pattern) /\ Len(T) = Len(Tail(q))
        /\ \A i \in 1 .. Len(Tail(q)) : T[i] = Bt_SearchLedFunc(Tail(q)[i])
    BY <2>1, PendingTypes, Zenon
  <2> HIDE DEF P, T
  <2>4. P # << >> /\ Head(P) = Bt_SearchLedFunc(Head(q))
    BY <1>4, <2>1, <2>2
  <2>5. \A i \in 1 .. n - 1 : T[i] = P[i + 1]
    BY <2>1, <2>2, <2>3
  <2>6. /\ Tail(P) \in Seq(Pattern) /\ Len(Tail(P)) = n - 1
        /\ \A i \in 1 .. n - 1 : Tail(P)[i] = P[i + 1]
    BY <2>1, <2>2
  <2>7. T = Tail(P)
    BY <2>1, <2>3, <2>5, <2>6, SeqEqual
  <2> QED BY <2>4, <2>7 DEF P, T
<1> QED BY <1>1, <1>2, <1>3, <1>4

LEMMA Kinds ==
  /\ Bt_SearchLedFunc("LOW_POWER") \in Rows(Alerts) \ Rows({"POWER_OFF", "CONNECTED", "CHARGING", "CHARGE_FULL"})
  /\ \A e \in {"POWER_ON", "PAGING", "DISCOVERABLE", "TWS_PARING"} :
       Bt_SearchLedFunc(e) \in Rows({"POWER_ON", "TWS_PARING", "CHARGING", "CHARGE_FULL"})
                               \ Rows({"POWER_OFF", "CONNECTED", "CHARGING", "CHARGE_FULL"})
<1>1. \A e : e = "POWER_OFF" => Bt_SearchLedFunc(e) = Row("RED", 20, 3, 1, 0, "SINGLE")
  BY DEF Bt_SearchLedFunc
<1>2. \A e : e = "CONNECTED" => Bt_SearchLedFunc(e) = Row("BLUE", 2, 2, 1, 0, "SINGLE")
  BY DEF Bt_SearchLedFunc
<1>3. \A e : e = "LOW_POWER" => Bt_SearchLedFunc(e) = Row("RED", 4, 4, 3, 0, "SINGLE")
  BY DEF Bt_SearchLedFunc
<1>4. \A e : e = "CHARGING" => Bt_SearchLedFunc(e) = Row("RED", 0, 0, 1, 0, "REPEAT")
  BY DEF Bt_SearchLedFunc
<1>5. \A e : e = "CHARGE_FULL" => Bt_SearchLedFunc(e) = Row("BLUE", 200, 0, 1, 0, "REPEAT")
  BY DEF Bt_SearchLedFunc
<1>6. \A e \in {"POWER_ON", "PAGING", "DISCOVERABLE"} :
        Bt_SearchLedFunc(e) = Row("SWITCH", 3, 3, 1, 3, "REPEAT")
  BY DEF Bt_SearchLedFunc
<1>7. \A e : e = "TWS_PARING" => Bt_SearchLedFunc(e) = Row("SWITCH", 1, 1, 2, 1, "REPEAT")
  BY DEF Bt_SearchLedFunc
<1>8. Rows({"POWER_OFF", "CONNECTED", "CHARGING", "CHARGE_FULL"})
        = {Row("RED", 20, 3, 1, 0, "SINGLE"), Row("BLUE", 2, 2, 1, 0, "SINGLE"),
           Row("RED", 0, 0, 1, 0, "REPEAT"), Row("BLUE", 200, 0, 1, 0, "REPEAT")}
  BY <1>1, <1>2, <1>4, <1>5 DEF Rows
<1>9. Row("RED", 4, 4, 3, 0, "SINGLE") \notin Rows({"POWER_OFF", "CONNECTED", "CHARGING", "CHARGE_FULL"})
  BY <1>8 DEF Row
<1>10. Row("SWITCH", 3, 3, 1, 3, "REPEAT") \notin Rows({"POWER_OFF", "CONNECTED", "CHARGING", "CHARGE_FULL"})
  BY <1>8 DEF Row
<1>11. Row("SWITCH", 1, 1, 2, 1, "REPEAT") \notin Rows({"POWER_OFF", "CONNECTED", "CHARGING", "CHARGE_FULL"})
  BY <1>8 DEF Row
<1>12. Row("RED", 4, 4, 3, 0, "SINGLE") \in Rows(Alerts)
  BY <1>3 DEF Rows, Alerts
<1>13. Row("SWITCH", 3, 3, 1, 3, "REPEAT") \in Rows({"POWER_ON", "TWS_PARING", "CHARGING", "CHARGE_FULL"})
  BY <1>6 DEF Rows
<1>14. Row("SWITCH", 1, 1, 2, 1, "REPEAT") \in Rows({"POWER_ON", "TWS_PARING", "CHARGING", "CHARGE_FULL"})
  BY <1>7 DEF Rows
<1> QED BY <1>3, <1>6, <1>7, <1>9, <1>10, <1>11, <1>12, <1>13, <1>14

Mapped == Indicator!Next \/ UNCHANGED Indicator!vars

LEMMA SameMap ==
  ASSUME Showing(led') = Showing(led), Behind(led') = Behind(led), led'.queue = led.queue
  PROVE  Mapped
BY DEF Mapped, Indicator!vars

LEMMA FarewellMap ==
  ASSUME NEW e \in {"CONNECTED", "POWER_OFF"}, Showing(led') = Invalid,
         Behind(led') = Invalid, led'.queue = << e >>
  PROVE  Mapped
<1>1. Pending(led'.queue) = << Bt_SearchLedFunc(e) >>
  BY PendingFacts
<1>2. Bt_SearchLedFunc(e) \in Rows({"POWER_OFF", "CONNECTED", "LOW_POWER"})
        \cap Rows({"POWER_OFF", "CONNECTED", "CHARGING", "CHARGE_FULL"})
  BY DEF Rows
<1> QED BY <1>1, <1>2 DEF Mapped, Indicator!Next, Indicator!Wipe

LEMMA WipeMap ==
  ASSUME Showing(led') = Invalid, Behind(led') = Invalid, led'.queue = << >>
  PROVE  Mapped
<1>1. Pending(led'.queue) = << >>
  BY PendingFacts
<1> QED BY <1>1 DEF Mapped, Indicator!Next, Indicator!Wipe

LEMMA ChargerMap ==
  ASSUME NEW e \in {"CHARGING", "CHARGE_FULL"}, Showing(led') = Invalid,
         Behind(led') = Bt_SearchLedFunc(e), led'.queue = << >>
  PROVE  Mapped
<1>1. Pending(led'.queue) = << >>
  BY PendingFacts
<1>2. Bt_SearchLedFunc(e) \in Rows({"POWER_ON", "TWS_PARING", "CHARGING", "CHARGE_FULL"})
        \cap Rows({"POWER_OFF", "CONNECTED", "CHARGING", "CHARGE_FULL"})
  BY DEF Rows
<1> QED BY <1>1, <1>2 DEF Mapped, Indicator!Next, Indicator!Wipe

LEMMA AskMap ==
  ASSUME NEW e \in {"POWER_ON", "PAGING", "DISCOVERABLE", "TWS_PARING"},
         Showing(led') = Showing(led), led'.queue = led.queue,
         Behind(led') = Bt_SearchLedFunc(e)
  PROVE  Mapped
BY Kinds DEF Mapped, Indicator!Next, Indicator!Ask
-----------------------------------------------------------------------------
(* The steps. *)

\* What a step that leaves the driver ready has left to show.
LEMMA ReadyIInv ==
  ASSUME Ready(led'), bat' \in 0 .. BatteryPeriod,
         topState' \in {"POWER_OFF", "WAIT_POWER_OFF", "CHARGER_IN", "CHARGE_FULL",
                        "WAIT_POWER_ON", "POWER_ON"}
  PROVE  IInv'
BY DEF IInv, Ready

LEMMA ResetStep ==
  ASSUME IInv, NEW restart \in BOOLEAN, NEW charger \in BOOLEAN, Bt_Reset(restart, charger)
  PROVE  IInv' /\ Mapped
<1> DEFINE on == Bt_ProcessLedFunc(Dark, "POWER_ON")
           charging == Bt_ProcessLedFunc(led_clear_led(Dark), "CHARGING")
           again == Bt_ProcessLedFunc(Bt_ProcessLedFunc(led_clear_led(Dark), "CHARGING"), "POWER_ON")
           last == Bt_ProcessLedFunc(led_clear_led(again), "CHARGING")
<1>1. led = Dark /\ BatteryPeriod \in 0 .. BatteryPeriod
  BY LedAssumption DEF IInv, Bt_Reset
<1>2. Ready(Dark) /\ Good(Dark)
  BY DarkFacts DEF Ready
<1>3. /\ Ready(on) /\ Showing(on) = Showing(Dark) /\ on.queue = Dark.queue
      /\ Behind(on) = Bt_SearchLedFunc("POWER_ON")
  BY <1>2, BackgroundEvent DEF BackEvents
<1>4. /\ Ready(charging) /\ Showing(charging) = Invalid /\ charging.queue = << >>
      /\ Behind(charging) = Bt_SearchLedFunc("CHARGING")
  BY <1>2, ChargerIn
<1>5. Good(again)
  BY <1>4, BackgroundEvent DEF BackEvents, Ready
<1>6. /\ Ready(last) /\ Showing(last) = Invalid /\ last.queue = << >>
      /\ Behind(last) = Bt_SearchLedFunc("CHARGING")
  BY <1>5, ChargerIn
<1>7. bat' = BatteryPeriod
      /\ topState' \in {"CHARGER_IN", "POWER_ON", "WAIT_POWER_ON"}
  BY DEF Bt_Reset
<1>8. \/ led' = Dark
      \/ led' = on
      \/ led' = charging
      \/ led' = last
  BY DEF Bt_Reset, Bat_EnterChargerIn
<1> HIDE DEF on, charging, again, last
<1>9. IInv'
  <2>1. Ready(led')
    BY <1>2, <1>3, <1>4, <1>6, <1>8
  <2> QED BY <1>1, <1>7, <2>1, ReadyIInv
<1>10. CASE led' = Dark
  BY <1>1, <1>10, <1>9, SameMap
<1>11. CASE led' = on
  BY <1>1, <1>3, <1>11, <1>9, AskMap
<1>12. CASE led' = charging
  BY <1>4, <1>12, <1>9, ChargerMap
<1>13. CASE led' = last
  BY <1>6, <1>13, <1>9, ChargerMap
<1> QED BY <1>8, <1>9, <1>10, <1>11, <1>12, <1>13

LEMMA CoreStep ==
  ASSUME IInv,
         NEW e \in {"DISCONNECTED", "DISCOVERABLE", "PAGING", "TWS_PARING", "TWS_PARED",
                    "TWS_SLAVE_CONNECTED"},
         CoreEvent(e)
  PROVE  IInv' /\ Mapped
<1> DEFINE r == Bt_ProcessLedFunc(led, e)
<1>1. led' = r /\ bat' = bat /\ topState' = topState
      /\ topState \in {"POWER_ON", "WAIT_POWER_ON"}
  BY DEF CoreEvent
<1>2. Ready(led) /\ Good(led)
  BY DEF IInv, Ready
<1>3. CASE e \in {"DISCOVERABLE", "PAGING", "TWS_PARING"}
  <2>1. /\ Ready(r) /\ Showing(r) = Showing(led) /\ r.queue = led.queue
        /\ Behind(r) = Bt_SearchLedFunc(e)
    BY <1>2, <1>3, BackgroundEvent DEF BackEvents
  <2> HIDE DEF r
  <2> QED BY <1>1, <1>3, <2>1, ReadyIInv, AskMap DEF IInv
<1>4. CASE e \in {"TWS_PARED", "TWS_SLAVE_CONNECTED"}
  <2>1. r = led_clear_led(led)
    BY <1>4, InvalidEvent
  <2>2. Ready(r) /\ Showing(r) = Invalid /\ Behind(r) = Invalid /\ r.queue = << >>
    BY <1>2, <2>1, ClearFacts
  <2> HIDE DEF r
  <2> QED BY <1>1, <2>2, ReadyIInv, WipeMap DEF IInv
<1>5. CASE e = "DISCONNECTED"
  <2>1. r = led
    BY <1>5, InvalidEvent
  <2> HIDE DEF r
  <2> QED BY <1>1, <1>2, <2>1, ReadyIInv, SameMap DEF IInv
<1> QED BY <1>3, <1>4, <1>5

LEMMA FarewellStep ==
  ASSUME IInv, Connected \/ Bt_SndCmdWaitPwroff
  PROVE  IInv' /\ Mapped
<1>1. Good(led)
  BY DEF IInv
<1>2. CASE Connected
  <2> DEFINE r == Bt_ProcessLedFunc(led, "CONNECTED")
  <2>1. led' = r /\ bat' = bat /\ topState' = topState
        /\ topState \in {"POWER_ON", "WAIT_POWER_ON"}
    BY <1>2, InvalidEvent DEF Connected
  <2>2. Ready(r) /\ Showing(r) = Invalid /\ Behind(r) = Invalid /\ r.queue = << "CONNECTED" >>
    BY <1>1, Farewell
  <2> HIDE DEF r
  <2> QED BY <2>1, <2>2, ReadyIInv, FarewellMap DEF IInv
<1>3. CASE Bt_SndCmdWaitPwroff
  <2> DEFINE c == led_clear_led(led)
             r == Bt_ProcessLedFunc(c, "POWER_OFF")
  <2>1. led' = r /\ bat' = bat /\ topState' = "WAIT_POWER_OFF"
    BY <1>3 DEF Bt_SndCmdWaitPwroff
  <2>2. Good(c)
    BY <1>1, ClearFacts DEF Ready
  <2> HIDE DEF c
  <2>3. Ready(r) /\ Showing(r) = Invalid /\ Behind(r) = Invalid /\ r.queue = << "POWER_OFF" >>
    BY <2>2, Farewell
  <2> HIDE DEF r
  <2> QED BY <2>1, <2>3, ReadyIInv, FarewellMap DEF IInv
<1> QED BY <1>2, <1>3

LEMMA BatteryStep ==
  ASSUME IInv, NEW low \in BOOLEAN, Bat_CalLevel(low)
  PROVE  IInv' /\ Mapped
<1> DEFINE r == Bt_ProcessLedFunc(led, "LOW_POWER")
<1>1. bat' = BatteryPeriod /\ topState' = topState /\ led' \in {r, led}
      /\ topState # "BOOT" /\ BatteryPeriod \in 0 .. BatteryPeriod
  BY LedAssumption DEF Bat_CalLevel, Running
<1>2. Ready(led)
  BY DEF IInv, Ready
<1>3. /\ Ready(r) /\ Showing(r) = Showing(led) /\ Behind(r) = Behind(led)
      /\ r.queue = led.queue \/ r.queue = Append(led.queue, "LOW_POWER")
  BY <1>2, LowPower
<1> HIDE DEF r
<1>4. IInv'
  BY <1>1, <1>2, <1>3, ReadyIInv DEF IInv
<1>5. CASE led'.queue = led.queue
  BY <1>1, <1>3, <1>4, <1>5, SameMap
<1>6. CASE led' = r /\ r.queue = Append(led.queue, "LOW_POWER")
  <2>1. led.queue \in Seq(Event) /\ "LOW_POWER" \in Event
    BY DEF IInv, Good, LedRec, Event
  <2>2. Pending(led'.queue) = Append(Pending(led.queue), Bt_SearchLedFunc("LOW_POWER"))
    BY <1>6, <2>1, PendingFacts
  <2> QED BY <1>3, <1>4, <1>6, <2>2, Kinds DEF Mapped, Indicator!Next, Indicator!Raise, Alerts
<1> QED BY <1>1, <1>3, <1>4, <1>5, <1>6

LEMMA ChargerStep ==
  ASSUME IInv, Bat_CbChargerIn \/ Bat_CbChargerFull \/ Bat_ExitChargerIn
  PROVE  IInv' /\ Mapped
<1> DEFINE c == led_clear_led(led)
           charging == Bt_ProcessLedFunc(c, "CHARGING")
           full == Bt_ProcessLedFunc(c, "CHARGE_FULL")
<1>1. Good(led) /\ bat' = bat
  BY DEF IInv, Bat_CbChargerIn, Bat_CbChargerFull, Bat_ExitChargerIn
<1>2. Ready(c) /\ Showing(c) = Invalid /\ Behind(c) = Invalid /\ c.queue = << >>
  BY <1>1, ClearFacts
<1>3. /\ Ready(charging) /\ Showing(charging) = Invalid /\ charging.queue = << >>
      /\ Behind(charging) = Bt_SearchLedFunc("CHARGING")
  BY <1>1, ChargerIn
<1>4. /\ Ready(full) /\ Showing(full) = Invalid /\ full.queue = << >>
      /\ Behind(full) = Bt_SearchLedFunc("CHARGE_FULL")
  BY <1>1, ChargerIn
<1>5. \/ led' = charging /\ topState' = "CHARGER_IN"
      \/ led' = full /\ topState' = "CHARGE_FULL"
      \/ led' = c /\ topState' = "POWER_OFF"
  BY DEF Bat_CbChargerIn, Bat_CbChargerFull, Bat_ExitChargerIn, Bat_EnterChargerIn
<1> HIDE DEF c, charging, full
<1>6. IInv'
  BY <1>1, <1>2, <1>3, <1>4, <1>5, ReadyIInv DEF IInv
<1>7. CASE led' = charging
  BY <1>3, <1>6, <1>7, ChargerMap
<1>8. CASE led' = full
  BY <1>4, <1>6, <1>8, ChargerMap
<1>9. CASE led' = c
  BY <1>2, <1>6, <1>9, WipeMap
<1> QED BY <1>5, <1>6, <1>7, <1>8, <1>9

LEMMA PowerOnStep ==
  ASSUME IInv, Bt_PowerOn
  PROVE  IInv' /\ Mapped
<1> DEFINE r == Bt_ProcessLedFunc(led, "POWER_ON")
<1>1. led' = r /\ bat' = bat /\ topState' = "POWER_ON"
  BY DEF Bt_PowerOn
<1>2. Ready(led)
  BY DEF IInv, Ready
<1>3. /\ Ready(r) /\ Showing(r) = Showing(led) /\ r.queue = led.queue
      /\ Behind(r) = Bt_SearchLedFunc("POWER_ON")
  BY <1>2, BackgroundEvent DEF BackEvents
<1> HIDE DEF r
<1> QED BY <1>1, <1>3, ReadyIInv, AskMap DEF IInv

LEMMA WakeUpStep ==
  ASSUME IInv, WakeUp
  PROVE  IInv' /\ Mapped
<1>1. led' = Dark /\ bat' = bat /\ topState' = "BOOT"
  BY DEF WakeUp
<1>2. IInv'
  BY <1>1, DarkFacts DEF IInv, Ready
<1> QED BY <1>1, <1>2, DarkFacts, WipeMap

LEMMA PwroffStep ==
  ASSUME IInv, Bt_SndCmdPwroff
  PROVE  IInv' /\ Mapped
<1>1. led' = led /\ bat' = bat /\ topState' = "POWER_OFF"
  BY DEF Bt_SndCmdPwroff
<1>2. IInv'
  BY <1>1 DEF IInv
<1> QED BY <1>1, <1>2, SameMap

\* The callback goes on with what is shown, or ends the alert.
LEMMA LedTimerStep ==
  ASSUME IInv, LedTimer
  PROVE  IInv' /\ Mapped
<1> DEFINE m == [led EXCEPT !.timer = 0]
           r == led_timer_callback(m)
<1>1. led' = r /\ bat' = bat /\ topState' = topState /\ topState # "BOOT"
  BY DEF LedTimer, Running
<1>2. led \in LedRec /\ Good(led) /\ Locked(led)
  BY DEF IInv, Good
<1>3. m \in LedRec
  BY <1>2, Zenon DEF LedRec
<1>4. /\ m.cur = led.cur /\ m.back = led.back /\ m.queue = led.queue
      /\ m.lock = led.lock /\ m.lit = led.lit
  BY <1>2 DEF LedRec
<1> HIDE DEF m
<1>5. Good(m) /\ Locked(m)
  BY <1>2, <1>3, <1>4 DEF Good, Locked, OverDark
<1>6. /\ Ready(r) /\ r.queue = led.queue
      /\ Stays(m, r) \/ Ends(m, r)
  BY <1>4, <1>5, CallbackGood DEF Ready
<1> HIDE DEF r
<1>7. IInv'
  BY <1>1, <1>6, ReadyIInv DEF IInv
<1>8. CASE Stays(m, r)
  BY <1>1, <1>4, <1>6, <1>7, <1>8, SameMap DEF Stays, Showing, Behind
<1>9. CASE Ends(m, r)
  <2>1. led.cur.fg /\ ~ led.back.fg /\ AlertRow(led.cur.par)
    BY <1>2, <1>4, <1>9 DEF Ends, Good
  <2>2. Showing(led) # Invalid
    BY <2>1 DEF Showing, AlertRow, Invalid, Row
  <2>3. Showing(led') = Invalid /\ Behind(led') = Behind(led)
    BY <1>1, <1>4, <1>9, <2>1 DEF Ends, Showing, Behind
  <2>4. Pending(led'.queue) = Pending(led.queue)
    BY <1>1, <1>6
  <2>5. Mapped
    BY <2>2, <2>3, <2>4 DEF Mapped, Indicator!Next, Indicator!End
  <2> QED BY <1>7, <2>5
<1> QED BY <1>6, <1>8, <1>9

\* The background is saved and the first alert of the queue takes its place: m is the
\* driver the callback starts from.
LEMMA Polled ==
  ASSUME IInv, led_polling_Queue
  PROVE  \E m :
           LET p == Bt_SearchLedFunc(Head(led.queue)) IN
           /\ Head(led.queue) \in Alerts /\ AlertRow(p)
           /\ Good(m) /\ m.cur = Fresh(p, TRUE) /\ m.back = led.cur
           /\ m.queue = Tail(led.queue) /\ m.hung = led.hung
           /\ led' = [led_timer_callback(m) EXCEPT !.lock = TRUE]
<1> DEFINE e == Head(led.queue)
           p == Bt_SearchLedFunc(e)
           m == [led EXCEPT !.queue = Tail(@), !.back = led.cur, !.cur = Fresh(p, TRUE)]
           r == [led_timer_callback(m) EXCEPT !.lock = TRUE]
<1>1. /\ ~ led.cur.fg /\ led.queue # << >>
      /\ p.style # "INVALID" => led' = r
  BY DEF led_polling_Queue, CanPoll
<1>2. /\ led \in LedRec /\ Good(led) /\ led.queue \in Seq(Event) /\ Len(led.queue) \in Nat \ {0}
      /\ led.cur \in LedState /\ QueueCap \in Nat
  BY <1>1, LedAssumption DEF IInv, Good, LedRec
<1>3. e \in Alerts
  BY <1>2 DEF Good
<1>4. AlertRow(p) /\ p \in Pattern
  BY <1>3, RowTypes DEF AlertRow
<1> DEFINE c == Fresh(p, TRUE)
<1>5. c \in LedState /\ c.par = p /\ c.fg
  BY <1>4, FreshFacts
<1>6. /\ Tail(led.queue) \in Seq(Event) /\ Len(Tail(led.queue)) <= QueueCap
      /\ \A i \in 1 .. Len(Tail(led.queue)) : Tail(led.queue)[i] \in Alerts
  BY <1>2 DEF Good
<1>7. led' = r
  BY <1>1, <1>4 DEF AlertRow
<1> HIDE DEF c, p, e
<1>8. m \in LedRec
  BY <1>2, <1>5, <1>6, Zenon DEF LedRec, c
<1>9. m.cur = c /\ m.back = led.cur /\ m.queue = Tail(led.queue) /\ m.lit = led.lit
      /\ m.hung = led.hung
  BY <1>2 DEF LedRec, c
<1> HIDE DEF m
<1>10. Good(m)
  <2>1. ~ m.back.fg /\ (m.back.par.style = "INVALID" => m.back = Cleared /\ m.lit = {})
    BY <1>1, <1>2, <1>9 DEF Good
  <2>2. m.cur.fg /\ AlertRow(m.cur.par) /\ m.cur.par.style # "INVALID"
    BY <1>4, <1>5, <1>9 DEF AlertRow
  <2>3. OverDark(m)
    BY <2>1 DEF OverDark
  <2>4. /\ Len(m.queue) <= QueueCap
        /\ \A i \in 1 .. Len(m.queue) : m.queue[i] \in Alerts
    BY <1>6, <1>9
  <2> QED BY <1>8, <2>1, <2>2, <2>3, <2>4 DEF Good
<1> QED BY <1>3, <1>4, <1>7, <1>9, <1>10 DEF c, p, e

LEMMA PollingStep ==
  ASSUME IInv, led_polling_Queue
  PROVE  IInv' /\ Mapped
<1> DEFINE p == Bt_SearchLedFunc(Head(led.queue))
<1>1. /\ bat' = bat /\ topState' = topState /\ topState # "BOOT"
      /\ ~ led.cur.fg /\ led.queue # << >> /\ led.queue \in Seq(Event)
  BY DEF led_polling_Queue, Running, CanPoll, IInv, Good, LedRec
<1>2. PICK m :
        /\ Head(led.queue) \in Alerts /\ AlertRow(p)
        /\ Good(m) /\ m.cur = Fresh(p, TRUE) /\ m.back = led.cur
        /\ m.queue = Tail(led.queue) /\ m.hung = led.hung
        /\ led' = [led_timer_callback(m) EXCEPT !.lock = TRUE]
  BY Polled
<1> DEFINE k == led_timer_callback(m)
<1>3. m.cur.par = p /\ m.cur.count # 0 /\ m.cur.fg
  BY <1>2, FreshFacts DEF AlertRow
<1> HIDE DEF p
<1>4. Good(k) /\ Timed(k) /\ k.queue = m.queue /\ Stays(m, k)
  BY <1>2, <1>3, CallbackGood DEF Ends
<1>5. led' = [k EXCEPT !.lock = TRUE]
  BY <1>2
<1> HIDE DEF k
<1>6. k \in LedRec
  BY <1>4 DEF Good
<1>7. led' \in LedRec
  BY <1>5, <1>6, Zenon DEF LedRec
<1>8. led'.cur = k.cur /\ led'.back = k.back /\ led'.queue = k.queue /\ led'.lit = k.lit
      /\ led'.timer = k.timer /\ led'.lock
  BY <1>5, <1>6 DEF LedRec
<1>9. Ready(led')
  BY <1>4, <1>7, <1>8 DEF Ready, Good, Locked, Timed, OverDark
<1>10. IInv'
  BY <1>1, <1>9, ReadyIInv DEF IInv
<1>11. Showing(led) = Invalid /\ Showing(led') = p /\ Behind(led') = Behind(led)
  <2>1. led'.cur.fg /\ led'.cur.par = p
    BY <1>3, <1>4, <1>8 DEF Stays
  <2>2. led'.back = led.cur
    BY <1>2, <1>4, <1>8 DEF Stays
  <2> QED BY <1>1, <2>1, <2>2 DEF Showing, Behind
<1>12. led'.queue = Tail(led.queue)
  BY <1>2, <1>4, <1>8
<1>13. /\ Pending(led.queue) # << >> /\ Head(Pending(led.queue)) = p
       /\ Pending(led'.queue) = Tail(Pending(led.queue))
  BY <1>1, <1>12, PendingFacts DEF p
<1> QED BY <1>10, <1>11, <1>13 DEF Mapped, Indicator!Next, Indicator!Begin

LEMMA TickStep ==
  ASSUME IInv, Tick
  PROVE  IInv' /\ Mapped
<1> DEFINE t == IF led.timer = 0 THEN 0 ELSE led.timer - 1
           r == [led EXCEPT !.timer = t]
<1>1. /\ led.timer # 1 /\ bat # 0 /\ led' = r /\ bat' = bat - 1
      /\ topState' = topState /\ topState # "BOOT"
  BY DEF Tick, Running
<1>2. led \in LedRec /\ Good(led) /\ Locked(led) /\ Timed(led) /\ led.timer \in Nat
  BY DEF IInv, Good, LedRec
<1>3. t \in Nat /\ (led.timer # 0 => t # 0)
  BY <1>1, <1>2
<1> HIDE DEF t
<1>4. r \in LedRec
  BY <1>2, <1>3, Zenon DEF LedRec
<1>5. /\ r.cur = led.cur /\ r.back = led.back /\ r.queue = led.queue
      /\ r.lock = led.lock /\ r.lit = led.lit /\ r.timer = t
  BY <1>2 DEF LedRec
<1> HIDE DEF r
<1>6. Ready(r)
  BY <1>2, <1>3, <1>4, <1>5 DEF Ready, Good, Locked, Timed, OverDark
<1>7. bat' \in 0 .. BatteryPeriod
  BY <1>1, LedAssumption DEF IInv
<1>8. IInv'
  BY <1>1, <1>6, <1>7, ReadyIInv DEF IInv
<1>9. Showing(led') = Showing(led) /\ Behind(led') = Behind(led)
  BY <1>1, <1>5 DEF Showing, Behind
<1> QED BY <1>1, <1>5, <1>8, <1>9, SameMap
-----------------------------------------------------------------------------
(* The inductive invariant. *)

LEMMA InitIInv == Init => IInv
<1>1. BatteryPeriod \in 0 .. BatteryPeriod
  BY LedAssumption
<1> QED BY <1>1, DarkFacts DEF Init, IInv, Ready

LEMMA NextIInv == IInv /\ [Next]_vars => IInv' /\ Mapped
<1> SUFFICES ASSUME IInv, [Next]_vars PROVE IInv' /\ Mapped
  OBVIOUS
<1>1. CASE UNCHANGED vars
  <2>1. led' = led /\ bat' = bat /\ topState' = topState
    BY <1>1 DEF vars
  <2>2. IInv'
    BY <2>1 DEF IInv
  <2> QED BY <2>1, <2>2, SameMap
<1>2. CASE \E restart, charger \in BOOLEAN : Bt_Reset(restart, charger)
  BY <1>2, ResetStep
<1>3. CASE WakeUp \/ Bt_PowerOn \/ Bt_SndCmdPwroff
  BY <1>3, WakeUpStep, PowerOnStep, PwroffStep
<1>4. CASE Connected \/ Bt_SndCmdWaitPwroff
  BY <1>4, FarewellStep
<1>5. CASE \E e \in {"DISCONNECTED", "DISCOVERABLE", "PAGING", "TWS_PARING", "TWS_PARED",
                     "TWS_SLAVE_CONNECTED"} : CoreEvent(e)
  BY <1>5, CoreStep
<1>6. CASE \E low \in BOOLEAN : Bat_CalLevel(low)
  BY <1>6, BatteryStep
<1>7. CASE Bat_CbChargerIn \/ Bat_CbChargerFull \/ Bat_ExitChargerIn
  BY <1>7, ChargerStep
<1>8. CASE LedTimer
  BY <1>8, LedTimerStep
<1>9. CASE led_polling_Queue
  BY <1>9, PollingStep
<1>10. CASE Tick
  BY <1>10, TickStep
<1> QED BY <1>1, <1>2, <1>3, <1>4, <1>5, <1>6, <1>7, <1>8, <1>9, <1>10 DEF Next
-----------------------------------------------------------------------------
(* Room in the queue. *)

LEMMA BlinkLess ==
  ASSUME NEW n \in Nat \ {0}, NEW d \in Nat
  PROVE  (n - 1) * d + d = n * d
OBVIOUS

LEMMA AlertLength ==
  \A e \in Alerts : LET p == Bt_SearchLedFunc(e) IN p.blinks * (p.on + p.off) <= Longest
<1>1. \A e : e = "POWER_OFF" => Bt_SearchLedFunc(e) = Row("RED", 20, 3, 1, 0, "SINGLE")
  BY DEF Bt_SearchLedFunc
<1>2. \A e : e = "CONNECTED" => Bt_SearchLedFunc(e) = Row("BLUE", 2, 2, 1, 0, "SINGLE")
  BY DEF Bt_SearchLedFunc
<1>3. \A e : e = "LOW_POWER" => Bt_SearchLedFunc(e) = Row("RED", 4, 4, 3, 0, "SINGLE")
  BY DEF Bt_SearchLedFunc
<1> QED BY <1>1, <1>2, <1>3 DEF Row, Alerts, Longest

\* The callback, which runs when a phase is over, leaves what the later phases take.
LEMMA CallbackLeft ==
  ASSUME NEW l, Good(l), l.cur.fg
  PROVE  LET r == led_timer_callback(l) IN
         r.cur.fg => Left(r) = BlinksLeft(l.cur) + OffLeft(l.cur)
<1> DEFINE p == l.cur.par
           n == l.cur.count
           r == led_timer_callback(l)
<1>1. /\ l.cur \in LedState /\ n \in Nat /\ l.cur.on \in BOOLEAN
      /\ p.on \in Nat \ {0} /\ p.off \in Nat \ {0}
  BY DEF Good, LedRec, LedState, Pattern, AlertRow
<1>2. CASE l.cur.on
  <2>1. r.cur = [l.cur EXCEPT !.on = FALSE] /\ r.timer = p.off + 1
    BY <1>1, <1>2, CallbackOff
  <2> HIDE DEF r
  <2>2. r.cur.count = n /\ r.cur.par = p /\ ~ r.cur.on
    BY <1>1, <2>1 DEF LedState
  <2>3. BlinksLeft(r.cur) = BlinksLeft(l.cur) /\ OffLeft(r.cur) = 0 /\ OffLeft(l.cur) = p.off
    BY <1>2, <2>2 DEF BlinksLeft, OffLeft
  <2>4. BlinksLeft(l.cur) \in Nat
    BY <1>1 DEF BlinksLeft
  <2>5. Left(r) = BlinksLeft(l.cur) + OffLeft(l.cur)
    BY <1>1, <2>1, <2>3, <2>4 DEF Left
  <2> QED BY <2>5 DEF r
<1>3. CASE ~ l.cur.on /\ n # 0
  <2>1. r.cur = [l.cur EXCEPT !.count = n - 1, !.on = TRUE] /\ r.timer = p.on + 1
    BY <1>1, <1>3, CallbackOn, Zenon
  <2> HIDE DEF r
  <2>2. r.cur.count = n - 1 /\ r.cur.par = p /\ r.cur.on
    BY <1>1, <2>1 DEF LedState
  <2> DEFINE d == p.on + p.off
             b == (n - 1) * d
  <2>3. BlinksLeft(r.cur) = b /\ OffLeft(r.cur) = p.off /\ OffLeft(l.cur) = 0
    BY <1>3, <2>2 DEF BlinksLeft, OffLeft
  <2>4. d \in Nat /\ n - 1 \in Nat /\ b \in Nat
    BY <1>1, <1>3
  <2>5. BlinksLeft(l.cur) = b + d
    BY <1>1, <1>3, <2>4, BlinkLess DEF BlinksLeft
  <2> HIDE DEF b
  <2>6. Left(r) = BlinksLeft(l.cur) + OffLeft(l.cur)
    BY <1>1, <2>1, <2>3, <2>4, <2>5 DEF Left
  <2> QED BY <2>6 DEF r
<1>4. CASE ~ l.cur.on /\ n = 0
  <2>1. r.cur = l.back /\ ~ l.back.fg
    BY <1>4, CallbackEnds DEF Ends, Good
  <2> QED BY <2>1
<1> QED BY <1>1, <1>2, <1>3, <1>4

LEMMA NotShown ==
  ASSUME NEW l, Good(l), Showing(l) = Invalid
  PROVE  ~ l.cur.fg
BY DEF Good, Showing, AlertRow, Invalid, Row

\* Nothing is shown and at most one alert waits.
LEMMA RoomyCalm ==
  ASSUME Ready(led'), Showing(led') = Invalid, ~ led'.hung,
         Len(led'.queue) \in Nat, Len(led'.queue) <= 1
  PROVE  Roomy'
<1>1. ~ led'.cur.fg
  BY NotShown DEF Ready
<1> DEFINE length == Len(led'.queue)
<1>2. length <= 2 /\ length # 2
  <2>1. length \in Nat /\ length <= 1
    OBVIOUS
  <2> HIDE DEF length
  <2> QED BY <2>1
<1> QED BY <1>1, <1>2, Zenon DEF Roomy

\* What is shown and what waits do not change.
LEMMA RoomySame ==
  ASSUME Roomy, bat' = bat, led'.queue = led.queue, led'.hung = led.hung,
         led'.cur.fg => led.cur.fg /\ Left(led') = Left(led)
  PROVE  Roomy'
BY DEF Roomy

LEMMA BackgroundRoomy ==
  ASSUME IInv, Roomy, bat' = bat, NEW e \in BackEvents, led' = Bt_ProcessLedFunc(led, e)
  PROVE  Roomy'
<1> DEFINE r == Bt_ProcessLedFunc(led, e)
<1>1. Ready(led)
  BY DEF IInv, Ready
<1>2. /\ Ready(r) /\ Showing(r) = Showing(led) /\ r.queue = led.queue /\ r.hung = led.hung
      /\ led.cur.fg => r.cur = led.cur /\ r.timer = led.timer
  BY <1>1, BackgroundEvent
<1> HIDE DEF r
<1>3. ~ led.cur.fg => ~ r.cur.fg
  BY <1>2, NotShown DEF Ready, Showing
<1>4. r.cur.fg => led.cur.fg /\ Left(r) = Left(led)
  BY <1>2, <1>3 DEF Left
<1> QED BY <1>2, <1>4, RoomySame DEF r

LEMMA ResetRoomy ==
  ASSUME IInv, NEW restart \in BOOLEAN, NEW charger \in BOOLEAN, Bt_Reset(restart, charger)
  PROVE  Roomy'
<1> DEFINE on == Bt_ProcessLedFunc(Dark, "POWER_ON")
           charging == Bt_ProcessLedFunc(led_clear_led(Dark), "CHARGING")
           again == Bt_ProcessLedFunc(Bt_ProcessLedFunc(led_clear_led(Dark), "CHARGING"), "POWER_ON")
           last == Bt_ProcessLedFunc(led_clear_led(again), "CHARGING")
<1>1. Ready(Dark) /\ Good(Dark) /\ Showing(Dark) = Invalid /\ Dark.queue = << >> /\ ~ Dark.hung
  BY DarkFacts DEF Ready
<1>2. Ready(on) /\ Showing(on) = Invalid /\ on.queue = << >> /\ ~ on.hung
  BY <1>1, BackgroundEvent DEF BackEvents
<1>3. Ready(charging) /\ Showing(charging) = Invalid /\ charging.queue = << >> /\ ~ charging.hung
  BY <1>1, ChargerIn
<1>4. Good(again) /\ ~ again.hung
  BY <1>3, BackgroundEvent DEF BackEvents, Ready
<1>5. Ready(last) /\ Showing(last) = Invalid /\ last.queue = << >> /\ ~ last.hung
  BY <1>4, ChargerIn
<1>6. \/ led' = Dark
      \/ led' = on
      \/ led' = charging
      \/ led' = last
  <2>1. led = Dark
    BY DEF IInv, Bt_Reset
  <2> QED BY <2>1 DEF Bt_Reset, Bat_EnterChargerIn
<1> HIDE DEF on, charging, again, last
<1>7. Len(<< >>) = 0
  OBVIOUS
<1>8. Ready(led') /\ Showing(led') = Invalid /\ led'.queue = << >> /\ ~ led'.hung
  BY <1>1, <1>2, <1>3, <1>5, <1>6
<1> QED BY <1>7, <1>8, RoomyCalm

\* A farewell clears what is shown and waits alone.
LEMMA FarewellRoomy ==
  ASSUME IInv, Roomy, Connected \/ Bt_SndCmdWaitPwroff
  PROVE  Roomy'
<1> DEFINE c == led_clear_led(led)
<1>1. Good(led) /\ ~ led.hung
  BY DEF IInv, Roomy
<1>2. Good(c) /\ ~ c.hung
  BY <1>1, ClearFacts DEF Ready
<1>3. PICK l \in {led, c}, e \in {"CONNECTED", "POWER_OFF"} : led' = Bt_ProcessLedFunc(l, e)
  BY InvalidEvent DEF Connected, Bt_SndCmdWaitPwroff
<1> HIDE DEF c
<1>4. Ready(led') /\ Showing(led') = Invalid /\ led'.queue = << e >> /\ ~ led'.hung
  BY <1>1, <1>2, <1>3, Farewell
<1>5. Len(<< e >>) = 1
  OBVIOUS
<1> QED BY <1>4, <1>5, RoomyCalm

LEMMA ChargerRoomy ==
  ASSUME IInv, Roomy, Bat_CbChargerIn \/ Bat_CbChargerFull \/ Bat_ExitChargerIn
  PROVE  Roomy'
<1>1. Good(led) /\ ~ led.hung
  BY DEF IInv, Roomy
<1>2. \/ led' = led_clear_led(led)
      \/ \E e \in {"CHARGING", "CHARGE_FULL"} : led' = Bt_ProcessLedFunc(led_clear_led(led), e)
  BY DEF Bat_CbChargerIn, Bat_CbChargerFull, Bat_ExitChargerIn, Bat_EnterChargerIn
<1>3. Ready(led') /\ Showing(led') = Invalid /\ led'.queue = << >> /\ ~ led'.hung
  BY <1>1, <1>2, ClearFacts, ChargerIn
<1>4. Len(<< >>) = 0
  OBVIOUS
<1> QED BY <1>3, <1>4, RoomyCalm

LEMMA CoreRoomy ==
  ASSUME IInv, Roomy,
         NEW e \in {"DISCONNECTED", "DISCOVERABLE", "PAGING", "TWS_PARING", "TWS_PARED",
                    "TWS_SLAVE_CONNECTED"},
         CoreEvent(e)
  PROVE  Roomy'
<1>1. led' = Bt_ProcessLedFunc(led, e) /\ bat' = bat
  BY DEF CoreEvent
<1>2. CASE e \in {"DISCOVERABLE", "PAGING", "TWS_PARING"}
  BY <1>1, <1>2, BackgroundRoomy DEF BackEvents
<1>3. CASE e \in {"TWS_PARED", "TWS_SLAVE_CONNECTED"}
  <2>1. led' = led_clear_led(led)
    BY <1>1, <1>3, InvalidEvent
  <2>2. Ready(led') /\ Showing(led') = Invalid /\ led'.queue = << >> /\ ~ led'.hung
    BY <2>1, ClearFacts DEF IInv, Roomy
  <2>3. Len(<< >>) = 0
    OBVIOUS
  <2> QED BY <2>2, <2>3, RoomyCalm
<1>4. CASE e = "DISCONNECTED"
  <2>1. led' = led
    BY <1>1, <1>4, InvalidEvent
  <2> QED BY <1>1, <2>1, RoomySame
<1> QED BY <1>2, <1>3, <1>4

LEMMA BatteryRoomy ==
  ASSUME IInv, Roomy, QueueCap >= 2, BatteryPeriod > Longest,
         NEW low \in BOOLEAN, Bat_CalLevel(low)
  PROVE  Roomy'
<1> DEFINE r == Bt_ProcessLedFunc(led, "LOW_POWER")
           n == Len(led.queue)
<1>1. bat = 0 /\ bat' = BatteryPeriod /\ led' \in {r, led}
  BY DEF Bat_CalLevel
<1>2. /\ Ready(led) /\ led.queue \in Seq(Event) /\ n \in Nat /\ QueueCap \in Nat
      /\ BatteryPeriod \in Nat
  BY LedAssumption DEF IInv, Ready, Good, LedRec
<1>3. led.cur.fg => Left(led) \in Nat
  <2>1. /\ led.cur.count \in Nat /\ led.cur.par.on \in Nat /\ led.cur.par.off \in Nat
        /\ led.timer \in Nat /\ (led.cur.fg => led.timer # 0)
    BY <1>2 DEF Ready, Good, Timed, LedRec, LedState, Pattern
  <2>2. BlinksLeft(led.cur) \in Nat /\ OffLeft(led.cur) \in Nat
    BY <2>1 DEF BlinksLeft, OffLeft
  <2> QED BY <2>1, <2>2 DEF Left
<1>4. ~ led.hung /\ n <= 1 /\ (n = 1 => ~ led.cur.fg) /\ (led.cur.fg => Left(led) <= Longest)
  <2>1. ~ led.hung /\ n <= 2 /\ (led.cur.fg => Left(led) <= Longest)
    BY DEF Roomy
  <2>2. n # 2
    BY <1>1, <1>2 DEF Roomy, Longest
  <2>3. n = 1 /\ led.cur.fg => Left(led) + (BatteryPeriod - Longest) <= bat
    BY DEF Roomy
  <2> HIDE DEF n
  <2>4. n = 1 => ~ led.cur.fg
    BY <1>1, <1>2, <1>3, <2>3 DEF Longest
  <2>5. n <= 1
    BY <1>2, <2>1, <2>2
  <2> QED BY <2>1, <2>4, <2>5
<1>5. CASE led' = led
  BY <1>1, <1>2, <1>4, <1>5 DEF Roomy
<1>6. CASE led' = r
  <2>1. /\ r.cur = led.cur /\ r.timer = led.timer
        /\ r.queue = led.queue \/ r.queue = Append(led.queue, "LOW_POWER")
        /\ r.hung = led.hung
    BY <1>2, <1>4, LowPower
  <2> HIDE DEF r
  <2>2. Len(r.queue) = n \/ Len(r.queue) = n + 1
    BY <1>2, <2>1 DEF Event
  <2> DEFINE length == Len(r.queue)
  <2>3. Left(r) = Left(led)
    BY <2>1 DEF Left
  <2>4. /\ Len(r.queue) <= 2
        /\ Len(r.queue) = 2 => ~ r.cur.fg
    <3> HIDE DEF n, length
    <3>1. n = 0 \/ n = 1
      BY <1>2, <1>4
    <3>2. length = n \/ length = n + 1
      BY <2>2 DEF length
    <3>3. length <= 2 /\ (length = 2 => n = 1)
      BY <3>1, <3>2
    <3> QED BY <1>4, <2>1, <3>3 DEF length
  <2> HIDE DEF n
  <2> QED BY <1>1, <1>2, <1>3, <1>4, <1>6, <2>1, <2>3, <2>4 DEF Roomy, Longest
<1> QED BY <1>1, <1>5, <1>6

LEMMA TimerRoomy ==
  ASSUME IInv, Roomy, LedTimer
  PROVE  Roomy'
<1> DEFINE m == [led EXCEPT !.timer = 0]
           r == led_timer_callback(m)
<1>1. led' = r /\ bat' = bat /\ led.timer = 1
  BY DEF LedTimer
<1>2. led \in LedRec /\ Good(led)
  BY DEF IInv, Good
<1>3. m \in LedRec
  BY <1>2, Zenon DEF LedRec
<1>4. /\ m.cur = led.cur /\ m.back = led.back /\ m.queue = led.queue
      /\ m.lit = led.lit /\ m.hung = led.hung
  BY <1>2 DEF LedRec
<1> HIDE DEF m
<1>5. Good(m)
  BY <1>2, <1>3, <1>4 DEF Good, OverDark
<1>6. r.queue = led.queue /\ r.hung = led.hung /\ (r.cur.fg => led.cur.fg)
  BY <1>4, <1>5, CallbackGood DEF Stays, Ends
<1>7. r.cur.fg => Left(r) = BlinksLeft(led.cur) + OffLeft(led.cur)
  BY <1>4, <1>5, <1>6, CallbackLeft
<1>8. Left(led) = BlinksLeft(led.cur) + OffLeft(led.cur)
  <2>1. led.cur.count \in Nat /\ led.cur.par.on \in Nat /\ led.cur.par.off \in Nat
    BY <1>2 DEF LedRec, LedState, Pattern
  <2>2. BlinksLeft(led.cur) \in Nat /\ OffLeft(led.cur) \in Nat
    BY <2>1 DEF BlinksLeft, OffLeft
  <2> QED BY <1>1, <2>2 DEF Left
<1> HIDE DEF r
<1> QED BY <1>1, <1>6, <1>7, <1>8, RoomySame

LEMMA PollingRoomy ==
  ASSUME IInv, Roomy, BatteryPeriod > Longest, led_polling_Queue
  PROVE  Roomy'
<1> DEFINE p == Bt_SearchLedFunc(Head(led.queue))
<1>1. PICK m :
        /\ Head(led.queue) \in Alerts /\ AlertRow(p)
        /\ Good(m) /\ m.cur = Fresh(p, TRUE) /\ m.back = led.cur
        /\ m.queue = Tail(led.queue) /\ m.hung = led.hung
        /\ led' = [led_timer_callback(m) EXCEPT !.lock = TRUE]
  BY Polled
<1> DEFINE k == led_timer_callback(m)
<1>2. /\ m.cur.par = p /\ m.cur.count = p.blinks /\ p.blinks # 0 /\ ~ m.cur.on /\ m.cur.fg
      /\ p.blinks * (p.on + p.off) <= Longest
  BY <1>1, FreshFacts, AlertLength DEF AlertRow
<1> HIDE DEF p
<1>3. Good(k) /\ k.queue = m.queue /\ k.hung = m.hung /\ Stays(m, k)
  BY <1>1, <1>2, CallbackGood DEF Ends
<1>4. Left(k) = BlinksLeft(m.cur) + OffLeft(m.cur)
  BY <1>1, <1>2, <1>3, CallbackLeft DEF Stays
<1>5. BlinksLeft(m.cur) <= Longest /\ BlinksLeft(m.cur) \in Nat /\ OffLeft(m.cur) = 0
  <2>1. p.blinks \in Nat /\ p.on \in Nat /\ p.off \in Nat
    BY <1>1 DEF AlertRow, Pattern
  <2>2. p.blinks * (p.on + p.off) \in Nat
    BY <2>1
  <2> QED BY <1>2, <2>2 DEF BlinksLeft, OffLeft
<1>6. led' = [k EXCEPT !.lock = TRUE]
  BY <1>1
<1> HIDE DEF k
<1>7. led'.cur = k.cur /\ led'.queue = k.queue /\ led'.timer = k.timer /\ led'.hung = k.hung
  BY <1>3, <1>6 DEF Good, LedRec
<1>8. Left(led') <= Longest
  BY <1>4, <1>5, <1>7 DEF Left, Longest
<1>9. /\ led.queue \in Seq(Event) /\ led.queue # << >> /\ bat' = bat
      /\ led'.queue = Tail(led.queue)
  BY <1>1, <1>3, <1>7 DEF IInv, Good, LedRec, led_polling_Queue, CanPoll
<1>10. /\ Len(led.queue) \in Nat \ {0} /\ Len(led'.queue) = Len(led.queue) - 1
       /\ Len(led'.queue) \in Nat
  BY <1>9
<1>11. /\ bat \in Nat /\ BatteryPeriod \in Nat /\ Left(led') \in Int
       /\ led'.hung = led.hung
  <2>1. Left(led') = BlinksLeft(m.cur) + OffLeft(m.cur)
    BY <1>4, <1>7 DEF Left
  <2>2. Left(led') \in Int
    BY <1>5, <2>1
  <2>3. led'.hung = led.hung
    BY <1>1, <1>3, <1>7
  <2> QED BY <2>2, <2>3, LedAssumption DEF IInv
<1> HIDE DEF Left, Longest
<1>12. Len(led'.queue) <= 1
  BY <1>10 DEF Roomy
<1>13. Len(led'.queue) = 1 => bat' = BatteryPeriod
  BY <1>9, <1>10 DEF Roomy
<1>14. Len(led'.queue) = 1 => Left(led') + (BatteryPeriod - Longest) <= bat'
  BY <1>8, <1>11, <1>13 DEF Longest
<1>15. ~ led'.hung
  BY <1>11 DEF Roomy
<1>16. Len(led'.queue) <= 2 /\ Len(led'.queue) # 2
  <2> DEFINE length == Len(led'.queue)
  <2>1. length \in Nat /\ length <= 1
    BY <1>10, <1>12
  <2> HIDE DEF length
  <2>2. length <= 2 /\ length # 2
    BY <2>1
  <2> QED BY <2>2 DEF length
<1> QED BY <1>8, <1>14, <1>15, <1>16 DEF Roomy

LEMMA TickRoomy ==
  ASSUME IInv, Roomy, Tick
  PROVE  Roomy'
<1> DEFINE t == IF led.timer = 0 THEN 0 ELSE led.timer - 1
<1>1. /\ led.timer # 1 /\ bat # 0 /\ led' = [led EXCEPT !.timer = t] /\ bat' = bat - 1
      /\ led.cur.fg \/ led.queue = << >>
  BY DEF Tick, CanPoll
<1>2. /\ led \in LedRec /\ led.timer \in Nat /\ (led.cur.fg => led.timer # 0)
      /\ bat \in Nat /\ BatteryPeriod \in Nat
      /\ led.queue \in Seq(Event) /\ Len(led.queue) \in Nat
  BY LedAssumption DEF IInv, Good, Timed, LedRec
<1>3. led.cur.fg => t = led.timer - 1
  BY <1>2
<1> HIDE DEF t
<1>4. /\ led'.cur = led.cur /\ led'.queue = led.queue /\ led'.hung = led.hung
      /\ led'.timer = t
  BY <1>1, <1>2 DEF LedRec
<1>5. led.cur.fg => Left(led') = Left(led) - 1 /\ Left(led) \in Int
  <2>1. led.cur.count \in Nat /\ led.cur.par.on \in Nat /\ led.cur.par.off \in Nat
    BY <1>2 DEF LedRec, LedState, Pattern
  <2>2. BlinksLeft(led.cur) \in Nat /\ OffLeft(led.cur) \in Nat
    BY <2>1 DEF BlinksLeft, OffLeft
  <2> QED BY <1>2, <1>3, <1>4, <2>2 DEF Left
<1>6. Len(led.queue) = 2 => FALSE
  <2>1. Len(led.queue) = 2 => ~ led.cur.fg
    BY DEF Roomy
  <2>2. led.queue = << >> => Len(led.queue) = 0
    OBVIOUS
  <2> QED BY <1>1, <2>1, <2>2
<1>7. led'.cur.fg => Left(led') <= Longest
  BY <1>4, <1>5 DEF Roomy, Longest
<1>8. Len(led'.queue) = 1 /\ led'.cur.fg => Left(led') + (BatteryPeriod - Longest) <= bat'
  BY <1>1, <1>2, <1>4, <1>5 DEF Roomy, Longest
<1> QED BY <1>2, <1>4, <1>6, <1>7, <1>8 DEF Roomy

LEMMA NextRoomy ==
  ASSUME IInv, Roomy, QueueCap >= 2, BatteryPeriod > Longest, [Next]_vars
  PROVE  Roomy'
<1>1. CASE UNCHANGED vars
  BY <1>1, RoomySame DEF vars
<1>2. CASE \E restart, charger \in BOOLEAN : Bt_Reset(restart, charger)
  BY <1>2, ResetRoomy
<1>3. CASE WakeUp
  <2>1. Ready(led') /\ Showing(led') = Invalid /\ led'.queue = << >> /\ ~ led'.hung
    BY <1>3, DarkFacts DEF WakeUp
  <2>2. Len(<< >>) = 0
    OBVIOUS
  <2> QED BY <2>1, <2>2, RoomyCalm
<1>4. CASE Bt_PowerOn
  BY <1>4, BackgroundRoomy DEF Bt_PowerOn, BackEvents
<1>5. CASE Bt_SndCmdPwroff
  BY <1>5, RoomySame DEF Bt_SndCmdPwroff
<1>6. CASE Connected \/ Bt_SndCmdWaitPwroff
  BY <1>6, FarewellRoomy
<1>7. CASE \E e \in {"DISCONNECTED", "DISCOVERABLE", "PAGING", "TWS_PARING", "TWS_PARED",
                     "TWS_SLAVE_CONNECTED"} : CoreEvent(e)
  BY <1>7, CoreRoomy
<1>8. CASE \E low \in BOOLEAN : Bat_CalLevel(low)
  BY <1>8, BatteryRoomy
<1>9. CASE Bat_CbChargerIn \/ Bat_CbChargerFull \/ Bat_ExitChargerIn
  BY <1>9, ChargerRoomy
<1>10. CASE LedTimer
  BY <1>10, TimerRoomy
<1>11. CASE led_polling_Queue
  BY <1>11, PollingRoomy
<1>12. CASE Tick
  BY <1>12, TickRoomy
<1> QED BY <1>1, <1>2, <1>3, <1>4, <1>5, <1>6, <1>7, <1>8, <1>9, <1>10, <1>11, <1>12 DEF Next
-----------------------------------------------------------------------------
(* The theorems. *)

\* The inductive invariant holds in every reachable state.
THEOREM InductiveInvariant == Spec => []IInv
BY InitIInv, NextIInv, PTL DEF Spec

\* The types hold: every function of the driver gives back a well-formed driver.
THEOREM TypeCorrect == Spec => []TypeOK
<1>1. IInv => TypeOK
  <2>1. Good(led) => led \in LedRec /\ Len(led.queue) <= QueueCap
    BY DEF Good
  <2> QED BY <2>1, Zenon DEF IInv, LedRec, TypeOK
<1> QED BY <1>1, InductiveInvariant, PTL

\* An LED gives light only under the low-power lock of the driver.
THEOREM LightHoldsLock == Spec => []LitHoldsLock
<1>1. IInv => LitHoldsLock
  BY DEF IInv, Good, Locked, LitHoldsLock
<1> QED BY <1>1, InductiveInvariant, PTL

\* An alert and a background that blinks always have the timer that moves them on.
THEOREM NeverFreezes == Spec => []NeverFrozen
<1>1. IInv => NeverFrozen
  BY DEF IInv, Timed, NeverFrozen
<1> QED BY <1>1, InductiveInvariant, PTL

\* The alerts of a low battery never fill a queue of two or more, as long as the battery
\* is measured at intervals longer than the longest alert, 24 units: an alert that waits
\* is on the LEDs before the next one comes.  The code has 10 places and 80 units.
THEOREM QueueNeverFills ==
  ASSUME QueueCap >= 2, BatteryPeriod > Longest
  PROVE  Spec => []QueueNeverFull
<1>1. Init => Roomy
  <2>1. ~ Dark.cur.fg /\ Dark.queue = << >> /\ ~ Dark.hung
    BY DEF Dark, Cleared
  <2>2. Len(<< >>) = 0
    OBVIOUS
  <2> QED BY <2>1, <2>2 DEF Init, Roomy
<1>2. IInv /\ Roomy /\ [Next]_vars => Roomy'
  BY NextRoomy
<1>3. Roomy => QueueNeverFull
  BY DEF Roomy, QueueNeverFull
<1> QED BY <1>1, <1>2, <1>3, InductiveInvariant, PTL DEF Spec

\* The driver implements the indicator: no alert is pushed off the LEDs or out of the
\* queue by anything but a wipe, and the background asked for last comes back.
THEOREM RefinesIndicator == Spec => ImplementsIndicator
<1>1. Init => Indicator!Init
  BY DarkFacts, PendingFacts DEF Init, Indicator!Init
<1>2. IInv /\ [Next]_vars => [Indicator!Next]_(Indicator!vars)
  BY NextIInv DEF Mapped
<1> QED BY <1>1, <1>2, InductiveInvariant, PTL DEF Spec, ImplementsIndicator, Indicator!Spec
=============================================================================
