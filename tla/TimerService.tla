---------------------------- MODULE TimerService ----------------------------
(***************************************************************************)
(* What the firmware expects of drivers/timer/yc_timer.c: a set of timers, *)
(* each off or with some ticks left; the callback of a timer runs only     *)
(* when the timer is armed and no tick is left, a single-shot timer is     *)
(* then off, a cyclic one starts its period again.                         *)
(***************************************************************************)
EXTENDS Naturals

CONSTANTS Timer,     \* the timers
          Kind,      \* Kind[t]: "single" or "cycle"
          Base,      \* Base[t]: the tick that drives t, "m0" or "bt"
          Ticks,     \* Ticks[t]: delays t is armed with
          Counts,    \* ticks that can go by at once
          Off,       \* not armed
          None       \* no callback is running

VARIABLES left,      \* left[t]: ticks left before t is due, or Off
          period,    \* period[t]: the delay t was last armed with
          running    \* the timer whose callback is running

Init ==
  /\ left = [t \in Timer |-> Off]
  /\ period = [t \in Timer |-> 0]
  /\ running = None

Set(t, k) ==
  /\ left' = [left EXCEPT ![t] = k]
  /\ period' = [period EXCEPT ![t] = k]
  /\ UNCHANGED running

Restart(t) ==
  /\ left[t] # Off
  /\ left' = [left EXCEPT ![t] = period[t]]
  /\ UNCHANGED << period, running >>

\* Some timers, one or all of them, are switched off.
Release ==
  /\ left' \in [Timer -> {Off} \cup Nat]
  /\ \A t \in Timer : left'[t] \in {left[t], Off}
  /\ UNCHANGED << period, running >>

\* n ticks of base b go by.
Tick(b, n) ==
  /\ left' = [t \in Timer |->
                IF left[t] = Off \/ Base[t] # b THEN left[t]
                ELSE IF left[t] > n THEN left[t] - n ELSE 0]
  /\ UNCHANGED << period, running >>

Fire(t) ==
  /\ running = None
  /\ left[t] = 0
  /\ running' = t
  /\ left' = [left EXCEPT ![t] = IF Kind[t] = "single" THEN Off ELSE period[t]]
  /\ UNCHANGED period

Return ==
  /\ running' = None
  /\ UNCHANGED << left, period >>

Next ==
  \/ \E t \in Timer : \E k \in Ticks[t] : Set(t, k)
  \/ \E t \in Timer : Restart(t) \/ Fire(t)
  \/ Release
  \/ \E b \in {"m0", "bt"}, n \in Counts : Tick(b, n)
  \/ Return

Spec == Init /\ [][Next]_<< left, period, running >>
=============================================================================
