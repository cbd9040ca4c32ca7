------------------------------ MODULE YcTimer ------------------------------
(***************************************************************************)
(* The software timers of drivers/timer/yc_timer.c: a singly linked list   *)
(* of caller-owned nodes, walked by SYS_timerPolling in the main loop when *)
(* an interrupt has raised sys_Timer_Check_Flag.  The walk calls back into *)
(* code that arms and releases timers, the one being visited included, and *)
(* reads the visited node's pNextTimer only after the callback returned.   *)
(*                                                                         *)
(* The 32-bit counters sys_tick_count and bt_100ms_count are modelled by   *)
(* what SYS_timerPolling compares them for: due[t] is the number of ticks  *)
(* mTimerValue is ahead of the counter, 0 when mTimerValue <= counter.     *)
(* This leaves out the wrap of the counters, after 497 days of 10 ms.      *)
(***************************************************************************)
EXTENDS Naturals, FiniteSets

CONSTANTS Timer,         \* the nodes handed to SYS_SetTimer
          Header,        \* header_Timer, the last node of the list
          Null,
          Kind,          \* mIsCycle of each timer: "single" or "cycle"
          Base,          \* M0Tick of each timer: "m0" or "bt"
          Ticks,         \* Ticks[t]: the delays t is armed with
          BtCounts,      \* counts of 100 ms the core reports in one event
          TicksPerWalk   \* SysTick interrupts during one walk, at most

ASSUME YcTimerAssumption ==
  /\ IsFiniteSet(Timer) /\ Header \notin Timer /\ Null \notin Timer \cup {Header} \cup Nat
  /\ Kind \in [Timer -> {"single", "cycle"}]
  /\ Base \in [Timer -> {"m0", "bt"}]
  /\ Ticks \in [Timer -> SUBSET (Nat \ {0})] /\ BtCounts \subseteq 0 .. 15
  /\ TicksPerWalk \in Nat

VARIABLES pheader,       \* first node of the list
          pNextTimer,    \* the link of every node; stale once the node is unlinked
          mTimerStatus,  \* "START" or "STOP"
          due,           \* ticks before the timer is due
          mTick,         \* delay the timer was last armed with
          flag,          \* sys_Timer_Check_Flag
          pc,            \* where the main loop is with respect to SYS_timerPolling
          cursor,        \* pTimer, the node the walk is at
          walkTicks,     \* SysTick interrupts since the walk began
          owed           \* timers due when the walk began, not served or touched since

list == << pheader, pNextTimer, mTimerStatus >>
walk == << pc, cursor >>
vars == << list, due, mTick, flag, walk, walkTicks, owed >>

\* Every link next out of S leads back into S, or to no timer.
Closed(next, S) == \A p \in S : next[p] \in Timer => next[p] \in S

\* The nodes a search that begins at n and follows the links next comes to.
From(next, n) ==
  {t \in Timer :
     \A S \in SUBSET Timer : (n \in Timer => n \in S) /\ Closed(next, S) => t \in S}

Listed == From(pNextTimer, pheader)

SYS_TimerisExist(t) == t \in Listed

Init ==     \* SYS_TimerInit has run: nothing is armed
  /\ pheader = Header
  /\ pNextTimer = [t \in Timer |-> Null]
  /\ mTimerStatus = [t \in Timer |-> "STOP"]
  /\ due = [t \in Timer |-> 0]
  /\ mTick = [t \in Timer |-> 0]
  /\ flag = FALSE
  /\ pc = "idle"
  /\ cursor = Header
  /\ walkTicks = 0
  /\ owed = {}
-----------------------------------------------------------------------------
(* Calls from the main loop, between two polls or from a callback. *)

InMain == pc \in {"idle", "callback"}

\* Faulty variant for mutation: an armed timer is linked a second time.
LinkAgain(t) ==
  /\ pheader' = t
  /\ pNextTimer' = [pNextTimer EXCEPT ![t] = pheader]

\* Faulty variant for mutation: the old front of the list is not linked behind the node.
LinkAlone(t) ==
  /\ pheader' = t
  /\ UNCHANGED pNextTimer

\* The node is pushed in front of the list unless it is there already.
Link(t) ==
  IF SYS_TimerisExist(t)
  THEN UNCHANGED << pheader, pNextTimer >>
  ELSE /\ pheader' = t
       /\ pNextTimer' = [pNextTimer EXCEPT ![t] = pheader]

\* One critical section: interrupts are off.
SYS_SetTimer(t, k) ==
  /\ InMain
  /\ due' = [due EXCEPT ![t] = k]
  /\ mTick' = [mTick EXCEPT ![t] = k]
  /\ mTimerStatus' = [mTimerStatus EXCEPT ![t] = "START"]
  /\ Link(t)
  /\ owed' = owed \ {t}
  /\ UNCHANGED << flag, walk, walkTicks >>

SYS_ResetTimer(t) ==
  /\ InMain
  /\ SYS_TimerisExist(t)
  /\ due' = [due EXCEPT ![t] = mTick[t]]
  /\ owed' = owed \ {t}
  /\ UNCHANGED << list, mTick, flag, walk, walkTicks >>

\* Faulty variant for mutation: the link of the node is cleared as it is unlinked.
UnlinkAndClear(t) ==
  /\ mTimerStatus' = [mTimerStatus EXCEPT ![t] = "STOP"]
  /\ pheader' = IF pheader = t THEN pNextTimer[t] ELSE pheader
  /\ pNextTimer' = [p \in Timer |->
        IF p = t THEN Header
        ELSE IF p \in Listed /\ pNextTimer[p] = t THEN pNextTimer[t] ELSE pNextTimer[p]]

\* The node leaves the list; its own link stays.
Unlink(t) ==
  /\ mTimerStatus' = [mTimerStatus EXCEPT ![t] = "STOP"]
  /\ pheader' = IF pheader = t THEN pNextTimer[t] ELSE pheader
  /\ LET L == Listed
     IN  pNextTimer' = [p \in Timer |->
           IF p \in L /\ pNextTimer[p] = t THEN pNextTimer[t] ELSE pNextTimer[p]]

SYS_ReleaseTimer(t) ==
  /\ InMain
  /\ SYS_TimerisExist(t)
  /\ Unlink(t)
  /\ owed' = owed \ {t}
  /\ UNCHANGED << due, mTick, flag, walk, walkTicks >>

SYS_ReleaseAllTimer ==
  /\ InMain
  /\ mTimerStatus' = [t \in Timer |-> IF t \in Listed THEN "STOP" ELSE mTimerStatus[t]]
  /\ pheader' = Header
  /\ owed' = {}
  /\ UNCHANGED << pNextTimer, due, mTick, flag, walk, walkTicks >>

\* The core reset, BT_EVT_RESET: the list is emptied and no node is touched.
SYS_TimerInit ==
  /\ pc = "idle"
  /\ pheader' = Header
  /\ UNCHANGED << pNextTimer, mTimerStatus, due, mTick, flag, walk, walkTicks, owed >>
-----------------------------------------------------------------------------
(* SYS_timerPolling. *)

\* The flag is seen up.
PollCheck ==
  /\ pc = "idle"
  /\ flag
  /\ pc' = "enter"
  /\ UNCHANGED << list, due, mTick, flag, cursor, walkTicks, owed >>

IsDue(t) == mTimerStatus[t] = "START" /\ due[t] = 0

\* The flag is lowered before the walk begins, so a tick during the walk counts.
PollEnter ==
  /\ pc = "enter"
  /\ flag' = FALSE
  /\ cursor' = pheader
  /\ pc' = "walk"
  /\ walkTicks' = 0
  /\ owed' = {t \in Listed : IsDue(t)}
  /\ UNCHANGED << list, due, mTick >>

WalkSkip ==
  /\ pc = "walk"
  /\ cursor \in Timer
  /\ ~ IsDue(cursor)
  /\ cursor' = pNextTimer[cursor]
  /\ UNCHANGED << list, due, mTick, flag, pc, walkTicks, owed >>

\* Faulty variant for mutation: a single-shot timer stays armed.
FireKeep ==
  /\ due' = [due EXCEPT ![cursor] = mTick[cursor]]
  /\ UNCHANGED list

\* A single-shot timer is released, a cyclic one armed again, before the callback.
Fire ==
  IF Kind[cursor] = "single"
  THEN /\ IF SYS_TimerisExist(cursor) THEN Unlink(cursor) ELSE UNCHANGED list
       /\ UNCHANGED due
  ELSE /\ due' = [due EXCEPT ![cursor] = mTick[cursor]]
       /\ UNCHANGED list

WalkFire ==
  /\ pc = "walk"
  /\ cursor \in Timer
  /\ IsDue(cursor)
  /\ Fire
  /\ pc' = "callback"
  /\ owed' = owed \ {cursor}
  /\ UNCHANGED << mTick, flag, cursor, walkTicks >>

\* The callback returns; only now is the link of the visited node read.
CallbackReturn ==
  /\ pc = "callback"
  /\ cursor' = pNextTimer[cursor]
  /\ pc' = "walk"
  /\ UNCHANGED << list, due, mTick, flag, walkTicks, owed >>

WalkEnd ==
  /\ pc = "walk"
  /\ cursor = Header
  /\ pc' = "idle"
  /\ walkTicks' = 0
  /\ owed' = {}
  /\ UNCHANGED << list, due, mTick, flag, cursor >>
-----------------------------------------------------------------------------
(* Time. *)

Elapse(b, n) ==
  due' = [t \in Timer |-> IF Base[t] # b THEN due[t]
                          ELSE IF due[t] > n THEN due[t] - n ELSE 0]

\* The SysTick interrupt, at any point of the main loop.
SYStick_handle ==
  /\ pc \in {"walk", "callback"} => walkTicks < TicksPerWalk
  /\ walkTicks' = IF pc \in {"walk", "callback"} THEN walkTicks + 1 ELSE walkTicks
  /\ Elapse("m0", 1)
  /\ flag' = TRUE
  /\ UNCHANGED << list, mTick, walk, owed >>

\* Faulty variant for mutation: the flag is left to the M0's own tick.
Bt_100ms_silent(n) ==
  /\ pc = "idle"
  /\ Elapse("bt", n)
  /\ UNCHANGED << list, mTick, flag, walk, walkTicks, owed >>

\* The core's clock event, handled by IPC_HandleRxPacket between two polls.
Bt_100ms_timer(n) ==
  /\ pc = "idle"
  /\ Elapse("bt", n)
  /\ flag' = TRUE
  /\ UNCHANGED << list, mTick, walk, walkTicks, owed >>

Poll == PollCheck \/ PollEnter \/ WalkSkip \/ WalkFire \/ CallbackReturn \/ WalkEnd

Next ==
  \/ \E t \in Timer : \E k \in Ticks[t] : SYS_SetTimer(t, k)
  \/ \E t \in Timer : SYS_ResetTimer(t)
  \/ \E t \in Timer : SYS_ReleaseTimer(t)
  \/ SYS_ReleaseAllTimer
  \/ SYS_TimerInit
  \/ PollCheck \/ PollEnter \/ WalkSkip \/ WalkFire \/ CallbackReturn \/ WalkEnd
  \/ SYStick_handle
  \/ \E n \in BtCounts : Bt_100ms_timer(n)

\* The main loop keeps polling; callbacks return.
Spec == Init /\ [][Next]_vars /\ WF_vars(Poll)
-----------------------------------------------------------------------------
TimerTypeOK ==
  /\ pheader \in Timer \cup {Header}
  /\ pNextTimer \in [Timer -> Timer \cup {Header, Null}]
  /\ mTimerStatus \in [Timer -> {"START", "STOP"}]
  /\ due \in [Timer -> Nat] /\ mTick \in [Timer -> Nat]
  /\ flag \in BOOLEAN
  /\ pc \in {"idle", "enter", "walk", "callback"}
  /\ cursor \in Timer \cup {Header}
  /\ walkTicks \in 0 .. TicksPerWalk
  /\ owed \subseteq Timer

Acyclic(next) == \A S \in (SUBSET Timer) \ {{}} : \E p \in S : next[p] \notin S

\* No chain of links runs in a ring, so that no search runs for ever; the list and the
\* walk end at header_Timer, whatever a callback unlinked under the walk; and every
\* node in the list is armed.
ListEnds ==
  /\ Acyclic(pNextTimer)
  /\ \A t \in Listed : pNextTimer[t] # Null /\ mTimerStatus[t] = "START"
  /\ pc \in {"walk", "callback"} => \A t \in From(pNextTimer, cursor) : pNextTimer[t] # Null

\* One walk serves every timer that was due when it began and that no callback
\* touched, however callbacks rearrange the list under the walk.
WalkServesAll == pc = "walk" /\ cursor = Header => owed = {}

\* The ticks left of each timer, and the timer whose callback is running.
Left == [t \in Timer |-> IF t \in Listed THEN due[t] ELSE Null]
Running == IF pc = "callback" THEN cursor ELSE Null

\* The linked list implements the timer service: callbacks run only for timers that
\* are armed and due, once per expiry.
Service == INSTANCE TimerService WITH
             Off <- Null, None <- Null, Counts <- BtCounts \cup {1},
             left <- Left, period <- mTick, running <- Running
ImplementsTimerService == Service!Spec

\* A timer that is due is served, or rearmed or released by somebody else.
DueTimerServed ==
  \A t \in Timer : t \in Listed /\ due[t] = 0
                     ~> (pc = "callback" /\ cursor = t) \/ t \notin Listed \/ due[t] > 0
=============================================================================
