------------------------------- MODULE Keypad -------------------------------
(***************************************************************************)
(* The keys of drivers/keypad/yc_keypad.c: a cyclic timer samples the pins *)
(* and compares them with the sample before, a timer per key measures how  *)
(* long a press or a series of clicks lasts, and what comes out is queued  *)
(* for KeyPad_Event_Handle.  One click counter, one event queue and one    *)
(* low-power lock serve all keys.                                          *)
(*                                                                         *)
(* Everything runs in the main loop: SYS_timerPolling calls the timers'    *)
(* handlers, keypad_polling_keyQueue takes one event a turn.  A timer is   *)
(* the number of ticks left, 0 when it is due and Off when it is not       *)
(* armed; YcTimer is about the list behind it.  Due timers are served in   *)
(* any order, which includes the order of that list.  A tick during the    *)
(* scan counts as one after it.                                            *)
(*                                                                         *)
(* Combination keys are configured off (comboKeyNum is 0) and left out,    *)
(* and with them keypad_comboKeyExpired.                                   *)
(***************************************************************************)
EXTENDS Naturals, Sequences

CONSTANTS KeyNum,        \* keys configured: the power key and the charger detect
          Pin,           \* pins that can be read
          Gpio,          \* the pin of each key
          ActiveHigh,    \* keys whose pin is high when they are held
          Multi,         \* multi_timer of each key: how long clicks are collected
          Press,         \* press_timer of each key
          LongPress,     \* long_press_timer of each key
          LonglongPress, \* longlong_press_timer of each key
          PollTicks,     \* period of gKeypadPolling_Timer
          LpmTicks,      \* period of gDelayLpm_timer
          QueueLen,      \* KEY_EVT_QUEUE_MAX
          TicksPerTurn,  \* ticks during one turn of main(), at most
          Off

Key == 0 .. KeyNum - 1

ASSUME KeypadAssumption ==
  /\ KeyNum \in Nat /\ Off \notin Nat
  /\ Gpio \in [Key -> Pin] /\ ActiveHigh \subseteq Key
  /\ Multi \in [Key -> Nat \ {0}] /\ Press \in [Key -> Nat \ {0}]
  /\ LongPress \in [Key -> Nat \ {0}] /\ LonglongPress \in [Key -> Nat \ {0}]
  /\ PollTicks \in Nat \ {0} /\ LpmTicks \in Nat \ {0}
  /\ QueueLen \in Nat \ {0} /\ TicksPerTurn \in Nat \ {0}

VARIABLES mapping,      \* key_mapping_result: the keys held at the last sample
          mappingOld,   \* key_mapping_result_old
          scan,         \* the key keypad_keyevtScan looks at, KeyNum when it is done
          press_type,   \* press_type of each key
          key_timer,    \* key_timer of each key
          multi_count,  \* key_multi_count
          queue,        \* gQueueKeyEvt: << key, event >>
          lpmLocked,    \* KEY_LPM_FLAG in M0_LPM_REG
          delayLpm,     \* gDelayLpm_timer
          polling,      \* gKeypadPolling_Timer
          lateness,     \* ticks since the main loop last finished a turn
          own,          \* history: clicks of the key since its gesture began
          overlapped    \* history: keys whose gesture another key's overlaps

sample == << mapping, mappingOld, scan >>
keys == << press_type, key_timer, multi_count >>
lpm == << lpmLocked, delayLpm >>
history == << own, overlapped >>
vars == << sample, keys, queue, lpm, polling, lateness, history >>

Event == {"DOWN", "UP", "NON", "TAP", "DOUBLE", "TRIPLE", "PRESS", "LONG_PRESS",
          "LONGLONG_PRESS", "PRESS_RELEASE", "LONG_RELEASE", "LONGLONG_RELEASE"}
PressType == {"NONE", "MULTI", "PRESS", "LONG_PRESS", "LONGLONG_PRESS", "EXTREME"}

Init ==     \* keypad_init, before its own first sample
  /\ mapping = {} /\ mappingOld = {} /\ scan = KeyNum
  /\ press_type = [k \in Key |-> "NONE"]
  /\ key_timer = [k \in Key |-> Off]
  /\ multi_count = 0
  /\ queue = << >>
  /\ lpmLocked = FALSE /\ delayLpm = Off
  /\ polling = 0
  /\ lateness = 0
  /\ own = [k \in Key |-> 0]
  /\ overlapped = {}
-----------------------------------------------------------------------------
Idle == scan = KeyNum

\* key_send_evt_to_Queue: without room the event is lost.
Offer(q, e) == IF Len(q) < QueueLen THEN Append(q, e) ELSE q
Sends(k, e) == queue' = Offer(queue, << k, e >>)

Becomes(k, type) == press_type' = [press_type EXCEPT ![k] = type]
Arms(k, t) == key_timer' = [key_timer EXCEPT ![k] = t]

keypad_delayLpm == delayLpm' = LpmTicks /\ UNCHANGED lpmLocked

\* The event for a number of clicks: KEYPAD_NON .. KEYPAD_TRIPLE are 0 .. 3.
ClickEvent(n) == IF n >= 3 THEN "TRIPLE" ELSE << "NON", "TAP", "DOUBLE" >>[n + 1]

Others(k) == {j \in Key \ {k} : press_type[j] # "NONE"}
-----------------------------------------------------------------------------
(* Sampling.  Pins are read twice, and only the low halves are compared. *)

LowHalf(pins) == {p \in pins : p < 16}

LowKeys(pins) == {k \in Key \ ActiveHigh : Gpio[k] \notin pins}
HighKeys(pins) == {k \in ActiveHigh : Gpio[k] \in pins}
keypad_gpio_mapping_process(pins) == LowKeys(pins) \cup HighKeys(pins)

keypad_check_keypress(first, second) ==
  IF LowHalf(first) # LowHalf(second) THEN UNCHANGED sample
  ELSE /\ mappingOld' = mapping
       /\ mapping' = keypad_gpio_mapping_process(first)
       /\ scan' = 0

Sample(first, second) ==
  /\ Idle /\ polling = 0
  /\ polling' = PollTicks
  /\ keypad_check_keypress(first, second)
  /\ UNCHANGED << keys, queue, lpm, lateness, history >>

\* BT_EVT_WAKEUP after a sleep, when nobody holds the lock.  The one that comes when
\* the chip did not sleep after all is taken to find it free too.
WakeupSample(first, second) ==
  /\ Idle /\ ~ lpmLocked
  /\ keypad_check_keypress(first, second)
  /\ UNCHANGED << keys, queue, lpm, polling, lateness, history >>

\* keypad_keyevtScan, one key at a time.
Scans(k) ==
  /\ ~ Idle /\ k = scan
  /\ scan' = scan + 1
  /\ UNCHANGED << mapping, mappingOld, polling, lateness >>

ScanSame(k) ==
  /\ Scans(k)
  /\ k \in mapping <=> k \in mappingOld
  /\ UNCHANGED << keys, queue, lpm, history >>

\* Faulty variant for mutation: the pending give-back of the lock is left armed.
LockForPressLate ==
  /\ lpmLocked' = TRUE
  /\ UNCHANGED delayLpm

\* A press cancels the give-back of the lock and takes it again.
LockForPress ==
  /\ delayLpm' = Off
  /\ lpmLocked' = TRUE

ScanDown(k) ==
  /\ Scans(k)
  /\ k \in mapping \ mappingOld
  /\ LockForPress
  /\ Sends(k, "DOWN")
  /\ UNCHANGED multi_count
  /\ IF press_type[k] = "NONE"
     THEN /\ Becomes(k, "MULTI") /\ Arms(k, Multi[k])
          /\ own' = [own EXCEPT ![k] = 0]
          /\ overlapped' = IF Others(k) = {} THEN overlapped \ {k}
                           ELSE overlapped \cup Others(k) \cup {k}
     ELSE UNCHANGED << press_type, key_timer, history >>

\* Released while clicks are collected.
ScanClick(k) ==
  /\ Scans(k)
  /\ k \in mappingOld \ mapping
  /\ press_type[k] = "MULTI" /\ key_timer[k] # Off
  /\ Sends(k, "UP")
  /\ multi_count' = multi_count + 1
  /\ own' = [own EXCEPT ![k] = @ + 1]
  /\ UNCHANGED << press_type, key_timer, lpm, overlapped >>

\* Faulty variant for mutation: the gesture is not ended.
ScanLetGoStuck(k) ==
  /\ Scans(k)
  /\ k \in mappingOld \ mapping
  /\ press_type[k] = "MULTI" /\ key_timer[k] = Off
  /\ Sends(k, "UP")
  /\ keypad_delayLpm
  /\ UNCHANGED << keys, history >>

\* Released after its clicks were reported.
ScanLetGo(k) ==
  /\ Scans(k)
  /\ k \in mappingOld \ mapping
  /\ press_type[k] = "MULTI" /\ key_timer[k] = Off
  /\ Sends(k, "UP")
  /\ keypad_delayLpm
  /\ Becomes(k, "NONE")
  /\ UNCHANGED << key_timer, multi_count, history >>

\* The event that ends a hold, by the stage it has reached.
ReleaseEvent == [PRESS |-> "TAP", LONG_PRESS |-> "PRESS_RELEASE",
                 LONGLONG_PRESS |-> "LONG_RELEASE", EXTREME |-> "LONGLONG_RELEASE"]

ScanRelease(k) ==
  /\ Scans(k)
  /\ k \in mappingOld \ mapping
  /\ press_type[k] \notin {"NONE", "MULTI"}
  /\ Arms(k, Off)
  /\ queue' = Offer(Offer(queue, << k, "UP" >>), << k, ReleaseEvent[press_type[k]] >>)
  /\ keypad_delayLpm
  /\ Becomes(k, "NONE")
  /\ UNCHANGED << multi_count, history >>
-----------------------------------------------------------------------------
(* keypad_keyExpired.  A single-shot timer is off before its handler runs. *)

Expires(k, type) ==
  /\ Idle
  /\ key_timer[k] = 0 /\ press_type[k] = type
  /\ UNCHANGED << sample, polling, lateness >>

\* Held from the first press on: no click but a hold.
ExpireHeld(k) ==
  /\ Expires(k, "MULTI")
  /\ k \in mapping /\ multi_count = 0
  /\ Becomes(k, "PRESS") /\ Arms(k, Press[k])
  /\ UNCHANGED << multi_count, queue, lpm, history >>

\* Clicked, and held again: the clicks are reported, the hold will not be.
ExpireClickedHeld(k) ==
  /\ Expires(k, "MULTI")
  /\ k \in mapping /\ multi_count > 0
  /\ Arms(k, Off)
  /\ Sends(k, ClickEvent(multi_count))
  /\ multi_count' = 0 /\ own' = [own EXCEPT ![k] = 0]
  /\ UNCHANGED << press_type, lpm, overlapped >>

\* Faulty variant for mutation: the clicks stay counted.
ExpireClickedStale(k) ==
  /\ Expires(k, "MULTI")
  /\ k \notin mapping
  /\ Becomes(k, "NONE") /\ Arms(k, Off)
  /\ Sends(k, ClickEvent(multi_count))
  /\ own' = [own EXCEPT ![k] = 0]
  /\ keypad_delayLpm
  /\ UNCHANGED << multi_count, overlapped >>

\* Faulty variant for mutation: the lock is not given back.
ExpireClickedLocked(k) ==
  /\ Expires(k, "MULTI")
  /\ k \notin mapping
  /\ Becomes(k, "NONE") /\ Arms(k, Off)
  /\ Sends(k, ClickEvent(multi_count))
  /\ multi_count' = 0 /\ own' = [own EXCEPT ![k] = 0]
  /\ UNCHANGED << lpm, overlapped >>

\* Clicked and let go.
ExpireClicked(k) ==
  /\ Expires(k, "MULTI")
  /\ k \notin mapping
  /\ Becomes(k, "NONE") /\ Arms(k, Off)
  /\ Sends(k, ClickEvent(multi_count))
  /\ multi_count' = 0 /\ own' = [own EXCEPT ![k] = 0]
  /\ keypad_delayLpm
  /\ UNCHANGED overlapped

Advance(k, next, t, e) ==
  /\ Becomes(k, next) /\ Arms(k, t)
  /\ Sends(k, e)
  /\ UNCHANGED << multi_count, lpm, history >>

ExpirePress(k) ==
  Expires(k, "PRESS") /\ Advance(k, "LONG_PRESS", LongPress[k], "PRESS")

ExpireLongPress(k) ==
  Expires(k, "LONG_PRESS") /\ Advance(k, "LONGLONG_PRESS", LonglongPress[k], "LONG_PRESS")

\* The timer goes on as a cyclic one that does nothing.
ExpireLonglongPress(k) ==
  Expires(k, "LONGLONG_PRESS") /\ Advance(k, "EXTREME", LonglongPress[k], "LONGLONG_PRESS")

SYS_TimerExpireDefaultHandle(k) ==
  /\ Expires(k, "EXTREME")
  /\ Arms(k, LonglongPress[k])
  /\ UNCHANGED << press_type, multi_count, queue, lpm, history >>

\* gDelayLpm_timer is cyclic: it gives the lock back again and again.
keypad_Cblpm ==
  /\ Idle /\ delayLpm = 0
  /\ delayLpm' = LpmTicks
  /\ lpmLocked' = FALSE
  /\ UNCHANGED << sample, keys, queue, polling, lateness, history >>
-----------------------------------------------------------------------------
NoneDue == polling # 0 /\ delayLpm # 0 /\ \A k \in Key : key_timer[k] # 0

\* Faulty variant for mutation: an event is only taken when the queue is half full.
keypad_polling_keyQueueLazy ==
  /\ Idle /\ NoneDue
  /\ queue' = IF 2 * Len(queue) < QueueLen THEN queue ELSE Tail(queue)
  /\ lateness' = 0
  /\ UNCHANGED << sample, keys, lpm, polling, history >>

\* The turn of main() goes on to the queue: one event, if there is one.
keypad_polling_keyQueue ==
  /\ Idle /\ NoneDue
  /\ queue' = IF queue = << >> THEN << >> ELSE Tail(queue)
  /\ lateness' = 0
  /\ UNCHANGED << sample, keys, lpm, polling, history >>

Elapse(t) == IF t \in {0, Off} THEN t ELSE t - 1

SYStick_handle ==
  /\ Idle /\ lateness < TicksPerTurn
  /\ lateness' = lateness + 1
  /\ polling' = Elapse(polling)
  /\ delayLpm' = Elapse(delayLpm)
  /\ key_timer' = [k \in Key |-> Elapse(key_timer[k])]
  /\ UNCHANGED << sample, press_type, multi_count, queue, lpmLocked, history >>

Scan(k) == ScanSame(k) \/ ScanDown(k) \/ ScanClick(k) \/ ScanLetGo(k) \/ ScanRelease(k)

keypad_keyExpired(k) ==
  \/ ExpireHeld(k) \/ ExpireClickedHeld(k) \/ ExpireClicked(k)
  \/ ExpirePress(k) \/ ExpireLongPress(k) \/ ExpireLonglongPress(k)
  \/ SYS_TimerExpireDefaultHandle(k)

\* What SYS_timerPolling has to serve before the turn goes on.
Serve ==
  \/ \E first, second \in SUBSET Pin : Sample(first, second)
  \/ \E k \in Key : Scan(k) \/ keypad_keyExpired(k)
  \/ keypad_Cblpm

Next ==
  \/ Serve
  \/ \E first, second \in SUBSET Pin : WakeupSample(first, second)
  \/ keypad_polling_keyQueue
  \/ SYStick_handle

\* The main loop keeps turning and time passes; no sample need ever be a good one.
Spec ==
  /\ Init /\ [][Next]_vars
  /\ WF_vars(Serve) /\ WF_vars(keypad_polling_keyQueue) /\ WF_vars(SYStick_handle)
-----------------------------------------------------------------------------
TypeOK ==
  /\ mapping \subseteq Key /\ mappingOld \subseteq Key
  /\ scan \in 0 .. KeyNum
  /\ press_type \in [Key -> PressType]
  /\ key_timer \in [Key -> Nat \cup {Off}]
  /\ multi_count \in Nat
  /\ queue \in Seq(Key \X Event)
  /\ lpmLocked \in BOOLEAN /\ delayLpm \in Nat \cup {Off}
  /\ polling \in Nat /\ lateness \in Nat
  /\ own \in [Key -> Nat] /\ overlapped \subseteq Key

\* The key as the scan has it: the new sample up to scan, the old one from there.
Held(k) == IF k < scan THEN k \in mapping ELSE k \in mappingOld

\* While nobody is due to give the lock back, a key in the middle of a gesture keeps
\* the chip awake; and the lock of a gesture no other key's gesture overlaps is not
\* about to be given back at all.
GestureKeepsAwake ==
  \A k \in Key : press_type[k] # "NONE" =>
    /\ delayLpm = Off => lpmLocked
    /\ k \notin overlapped => lpmLocked /\ delayLpm = Off

\* A key whose gesture no other key's overlaps is credited with its own clicks, all of
\* them: the shared counter holds nothing else.
ClicksCredited ==
  [][\A k \in Key : (ExpireClickedHeld(k) \/ ExpireClicked(k)) /\ k \notin overlapped
       => own[k] > 0 /\ queue' = Offer(queue, << k, ClickEvent(own[k]) >>)]_vars

\* As long as a turn of main() takes no longer than a tick, no event is lost.
NoEventLost == Len(queue) < QueueLen

\* What is queued for a key is a series of gestures.
Phase(k) ==
  IF press_type[k] = "MULTI"
  THEN IF key_timer[k] = Off THEN "spent" ELSE IF Held(k) THEN "down" ELSE "up"
  ELSE [NONE |-> "idle", PRESS |-> "held", LONG_PRESS |-> "pressed",
        LONGLONG_PRESS |-> "long", EXTREME |-> "longlong"][press_type[k]]

Gestures == INSTANCE KeyGestures WITH phase <- [k \in Key |-> Phase(k)]
ImplementsKeyGestures == Gestures!Spec

\* When all keys are let go for good, the chip may sleep for good: every gesture ends, and
\* the lock is given back after the last one.
LockGivenBack == <>[](mapping = {}) => <>[](~ lpmLocked)
=============================================================================
