------------------------------ MODULE McuState ------------------------------
(***************************************************************************)
(* How the M0 and the Bluetooth core agree to sleep and to hibernate: the  *)
(* register IPC_MCU_STATE, which both of them write, and the register      *)
(* M0_LPM_REG of low-power locks.  The M0 is main() of main.c, the senders *)
(* of yc11xx_bt.c and Bt_SndCmdPwroff of Drv_bt.c; the core is the main    *)
(* loop of its firmware as listed in patch/program.lis.                    *)
(*                                                                         *)
(* The two run concurrently.  A step is one access to what they share,     *)
(* except that a read of the state followed by a write that depends on it  *)
(* is one step where the other side cannot write in between: the core      *)
(* writes nothing while it waits for an answer, and the M0 rewrites only   *)
(* LMP and HIBERNATE, the two states the core waits in.                    *)
(*                                                                         *)
(* Both rings hold whole packets here; IpcRing is about their bytes.  Data *)
(* packets (SPP, BLE) are left out: they take the same path as commands up *)
(* to the core's handler.  main()'s case HIBERNATE is left out, because    *)
(* nothing reaches it: the core hibernates on the command that only        *)
(* Bt_SndCmdPwroff sends, and that never returns to main().                *)
(***************************************************************************)
EXTENDS Naturals, Sequences

CONSTANTS Lock,         \* bits of M0_LPM_REG that the M0 sets, M0_LPM_FLAG apart
          Command,      \* commands of the M0 to the core, hibernation apart
          Event,        \* events of the core for the M0, wakeup and reset apart
          CmdFifoLen,   \* slots of mem_ipc_fifo_c512bt (util_fifo_len)
          MaxRing,      \* packets the ring to the M0 has room for
          MaxOps,       \* what the M0 does at most in a turn of its main loop
          MaxEvents     \* packets the core sends at most in a turn of its loop

ASSUME McuStateAssumption ==
  /\ "M0" \notin Lock /\ "hibernate" \notin Command
  /\ {"wakeup", "reset"} \cap Event = {}
  /\ CmdFifoLen \in Nat \ {0, 1}
  /\ MaxOps \in Nat /\ MaxEvents \in Nat
  /\ MaxRing \in Nat /\ MaxRing > MaxEvents

VARIABLES mcuState,   \* IPC_MCU_STATE
          lpmFlag,    \* M0_LPM_REG, alias mem_m0_lpm_flag
          toCore,     \* packets in the ring the core reads
          toM0,       \* packets in the ring the M0 reads
          cmdFifo,    \* mem_ipc_fifo_c512bt, commands the core has yet to execute
          m0,         \* where the M0 is
          irq,        \* its interrupts are enabled
          down,       \* gBRState.topState <= BR_CHARGER_IN: going off, off or charging
          ops,        \* what it has done in this turn of main()
          core,       \* where the core is
          evts        \* packets it has sent in this turn of its loop

m0Vars == << m0, irq, down, ops >>
coreVars == << cmdFifo, core, evts >>
vars == << mcuState, lpmFlag, toCore, toM0, m0Vars, coreVars >>

\* wake_from_power: the core's memory is cleared and the M0 starts with a report,
\* with its state cleared to BR_POWER_OFF.
Init ==
  /\ mcuState = "RUNNING" /\ lpmFlag = {}
  /\ toCore = << >> /\ toM0 = << "reset" >> /\ cmdFifo = << >>
  /\ m0 = "poll" /\ irq = TRUE /\ down = TRUE /\ ops = 0
  /\ core = "cmd" /\ evts = 0
-----------------------------------------------------------------------------
(* The M0. *)

\* main() looks at the state.  In STOP it does nothing but look again.
M0Poll ==
  /\ m0 = "poll"
  /\ \/ mcuState = "RUNNING" /\ m0' = "rx"
     \/ mcuState = "LMP" /\ m0' = "lmp"
  /\ UNCHANGED << mcuState, lpmFlag, toCore, toM0, irq, down, ops, coreVars >>

\* Two handlers matter by themselves.  BT_EVT_WAKEUP ends the critical section of the
\* last stop, but a headset that is down returns before it.  It does listen to
\* BT_EVT_RESET: Bt_init leaves it to be switched on, and Bat_init sets a timer.
Bt_EvtCallBack(e) ==
  /\ irq' = (irq \/ e = "reset" \/ (e = "wakeup" /\ ~ down))
  /\ down' = (down /\ e # "reset")

\* The packet leaves the ring before its handler runs.
IPC_HandleRxPacket ==
  /\ m0 = "rx"
  /\ m0' = "work"
  /\ IF toM0 = << >>
     THEN UNCHANGED << toM0, irq, down >>
     ELSE toM0' = Tail(toM0) /\ Bt_EvtCallBack(Head(toM0))
  /\ UNCHANGED << mcuState, lpmFlag, toCore, ops, coreVars >>

\* A handler or a poll of main() does something more.
Works ==
  /\ m0 = "work" /\ ops < MaxOps
  /\ ops' = ops + 1

\* It takes a lock and sets a timer, which ends with OS_EXIT_CRITICAL.
GoesDown(l) ==
  /\ Works
  /\ lpmFlag' = lpmFlag \cup {l}
  /\ irq' = TRUE /\ down' = TRUE
  /\ UNCHANGED << mcuState, toCore, toM0, m0, coreVars >>

\* BR_WAIT_POWER_OFF, from a headset that is on.  What it sends to a phone or to
\* the other half is a command of its own, and an idle headset sends none.
Bt_SndCmdWaitPwroff(l) == ~ down /\ GoesDown(l)

\* BR_CHARGER_IN, from every state.
Bat_CbChargerIn(l) == GoesDown(l)

Lpm_LockLpm(l) ==
  /\ Works
  /\ lpmFlag' = lpmFlag \cup {l}
  /\ UNCHANGED << mcuState, toCore, toM0, m0, irq, down, coreVars >>

Lpm_unLockLpm(l) ==
  /\ Works
  /\ lpmFlag' = lpmFlag \ {l}
  /\ UNCHANGED << mcuState, toCore, toM0, m0, irq, down, coreVars >>

\* OS_EXIT_CRITICAL enables interrupts whatever they were at OS_ENTER_CRITICAL.
CriticalSection ==
  /\ Works
  /\ irq' = TRUE
  /\ UNCHANGED << mcuState, lpmFlag, toCore, toM0, m0, down, coreVars >>

\* Every sender first takes back the answer the core is waiting for.
StayAwake == IF mcuState = "LMP" THEN "RUNNING" ELSE mcuState

\* A slot of the core's queue is kept for "hibernate": fifo_in asserts when full.
IPC_TxControlCmd ==
  /\ Works
  /\ Len(toCore) + Len(cmdFifo) < CmdFifoLen - 1
  /\ mcuState' = StayAwake
  /\ m0' = "send"
  /\ UNCHANGED << lpmFlag, toCore, toM0, irq, down, coreVars >>

ipcTx(c) ==
  /\ m0 = "send"
  /\ toCore' = Append(toCore, c)
  /\ m0' = "work"
  /\ UNCHANGED << mcuState, lpmFlag, toM0, irq, down, ops, coreVars >>

\* Called with locks held as well, by Bat_CbEnterPowerOff.
Bt_SndCmdPwroff ==
  /\ Works
  /\ mcuState' = StayAwake
  /\ irq' = FALSE /\ down' = TRUE
  /\ m0' = "pwroffSend"
  /\ UNCHANGED << lpmFlag, toCore, toM0, coreVars >>

PwroffSend ==
  /\ m0 = "pwroffSend"
  /\ toCore' = Append(toCore, "hibernate")
  /\ m0' = "pwroff"
  /\ UNCHANGED << mcuState, lpmFlag, toM0, irq, down, ops, coreVars >>

\* Faulty variant for mutation: the power-off loop only looks for HIBERNATE.
PwroffLoopStubborn ==
  /\ m0 = "pwroff"
  /\ mcuState = "HIBERNATE" /\ mcuState' = "STOP" /\ m0' = "dead"
  /\ UNCHANGED << lpmFlag, toCore, toM0, irq, down, ops, coreVars >>

\* The loop of Bt_SndCmdPwroff, in which the M0 stays.
PwroffLoop ==
  /\ m0 = "pwroff"
  /\ \/ mcuState = "HIBERNATE" /\ mcuState' = "STOP" /\ m0' = "dead"
     \/ mcuState = "LMP" /\ mcuState' = "RUNNING" /\ UNCHANGED m0
  /\ UNCHANGED << lpmFlag, toCore, toM0, irq, down, ops, coreVars >>

\* The turn of a running M0 is over: the lock of the wake-up is given back.
M0TurnEnd ==
  /\ m0 = "work"
  /\ lpmFlag' = lpmFlag \ {"M0"}
  /\ m0' = "poll" /\ ops' = 0
  /\ UNCHANGED << mcuState, toCore, toM0, irq, down, coreVars >>

\* Faulty variant for mutation: the ring to the core is not looked at.
LmpCaseBlind ==
  /\ m0 = "lmp"
  /\ m0' = "poll"
  /\ mcuState' \in {"STOP", "RUNNING"}
  /\ irq' = (irq /\ mcuState' # "STOP")
  /\ UNCHANGED << lpmFlag, toCore, toM0, down, ops, coreVars >>

\* main()'s case LMP: stop when nothing is left to send, or to log; else stay up.
LmpCase ==
  /\ m0 = "lmp"
  /\ m0' = "poll"
  /\ \/ toCore = << >> /\ mcuState' = "STOP" /\ irq' = FALSE
     \/ mcuState' = "RUNNING" /\ UNCHANGED irq
  /\ UNCHANGED << lpmFlag, toCore, toM0, down, ops, coreVars >>

M0Next ==
  \/ M0Poll \/ IPC_HandleRxPacket
  \/ \E l \in Lock : Lpm_LockLpm(l) \/ Lpm_unLockLpm(l)
  \/ \E l \in Lock : Bt_SndCmdWaitPwroff(l) \/ Bat_CbChargerIn(l)
  \/ CriticalSection
  \/ IPC_TxControlCmd \/ \E c \in Command : ipcTx(c)
  \/ Bt_SndCmdPwroff \/ PwroffSend \/ PwroffLoop
  \/ M0TurnEnd \/ LmpCase
-----------------------------------------------------------------------------
(* The core.  One turn of its main loop is "cmd", "state", perhaps "notify", *)
(* "rx", and "lpm" with what follows if it goes to sleep.                    *)

\* check_51cmd: the oldest command.  Hibernation first asks the M0 to stop.
CoreExecute ==
  /\ core = "cmd"
  /\ cmdFifo # << >>
  /\ cmdFifo' = Tail(cmdFifo)
  /\ IF Head(cmdFifo) = "hibernate"
     THEN mcuState' = "HIBERNATE" /\ core' = "hibAck"
     ELSE UNCHANGED << mcuState, core >>
  /\ UNCHANGED << lpmFlag, toCore, toM0, m0Vars, evts >>

\* ipc_tx_bt_event: without room the packet is lost, and mem_ipc_loss_packet counts it.
Sent(q, e) == IF Len(q) < MaxRing THEN Append(q, e) ELSE q

\* The stack has something to report, in any part of the loop but these.
CoreEvent(e) ==
  /\ core \in {"cmd", "rx", "lpm"} /\ evts < MaxEvents
  /\ evts' = evts + 1
  /\ toM0' = Sent(toM0, e)
  /\ UNCHANGED << mcuState, lpmFlag, toCore, m0Vars, cmdFifo, core >>

\* No commands are left, or one the link is busy with holds up the others.
CoreIdle ==
  /\ core = "cmd"
  /\ core' = "state"
  /\ evts' = 0
  /\ UNCHANGED << mcuState, lpmFlag, toCore, toM0, m0Vars, cmdFifo >>

\* Faulty variant for mutation: a stopped M0 is not started again.
CheckStateNever ==
  /\ core = "state"
  /\ core' = "rx"
  /\ UNCHANGED << mcuState, lpmFlag, toCore, toM0, m0Vars, cmdFifo, evts >>

\* p_check_m0_state: the M0 is stopped, yet the core did not go to sleep.
p_check_m0_state ==
  /\ core = "state"
  /\ IF mcuState = "STOP"
     THEN mcuState' = "RUNNING" /\ core' = "notify"
     ELSE core' = "rx" /\ UNCHANGED mcuState
  /\ UNCHANGED << lpmFlag, toCore, toM0, m0Vars, cmdFifo, evts >>

NotifyWakeup ==
  /\ core = "notify"
  /\ toM0' = Sent(toM0, "wakeup")
  /\ core' = "rx"
  /\ UNCHANGED << mcuState, lpmFlag, toCore, m0Vars, cmdFifo, evts >>

\* One packet a turn goes from the ring to the queue.
ipc_rx_process ==
  /\ core = "rx"
  /\ core' = "lpm"
  /\ IF toCore = << >>
     THEN UNCHANGED << toCore, cmdFifo >>
     ELSE toCore' = Tail(toCore) /\ cmdFifo' = Append(cmdFifo, Head(toCore))
  /\ UNCHANGED << mcuState, lpmFlag, toM0, m0Vars, evts >>

\* The core gives up for this turn: a lock, a packet, or a reason of its own.
CoreStaysUp ==
  /\ core \in {"lpm", "lpmRx", "lpmTx", "granted"}
  /\ core' = "cmd"
  /\ UNCHANGED << mcuState, lpmFlag, toCore, toM0, m0Vars, cmdFifo, evts >>

\* Faulty variant for mutation: the lock of the wake-up does not count.
WakeLockCheckHasty ==
  /\ \/ core = "lpm" /\ cmdFifo = << >> /\ lpmFlag \subseteq {"M0"} /\ core' = "lpmRx"
     \/ core = "lpmRx" /\ toCore = << >> /\ core' = "lpmTx"
     \/ core = "lpmTx" /\ toM0 = << >> /\ core' = "ask"
  /\ UNCHANGED << mcuState, lpmFlag, toCore, toM0, m0Vars, cmdFifo, evts >>

\* Faulty variant for mutation: the ring to the M0 is not looked at.
WakeLockCheckOneWay ==
  /\ \/ core = "lpm" /\ cmdFifo = << >> /\ lpmFlag = {} /\ core' = "lpmRx"
     \/ core = "lpmRx" /\ toCore = << >> /\ core' = "lpmTx"
     \/ core = "lpmTx" /\ core' = "ask"
  /\ UNCHANGED << mcuState, lpmFlag, toCore, toM0, m0Vars, cmdFifo, evts >>

\* What the core reads before it asks, in this order, and not again afterwards.
p_lpm_check_wake_lock ==
  /\ \/ core = "lpm" /\ cmdFifo = << >> /\ lpmFlag = {} /\ core' = "lpmRx"
     \/ core = "lpmRx" /\ toCore = << >> /\ core' = "lpmTx"
     \/ core = "lpmTx" /\ toM0 = << >> /\ core' = "ask"
  /\ UNCHANGED << mcuState, lpmFlag, toCore, toM0, m0Vars, cmdFifo, evts >>

AskM0 ==
  /\ core = "ask"
  /\ mcuState' = "LMP"
  /\ core' = "ack"
  /\ UNCHANGED << lpmFlag, toCore, toM0, m0Vars, cmdFifo, evts >>

\* Faulty variant for mutation: any answer is taken for consent.
CheckAckAny ==
  /\ core = "ack"
  /\ mcuState \in {"STOP", "RUNNING"} /\ core' = "granted"
  /\ UNCHANGED << mcuState, lpmFlag, toCore, toM0, m0Vars, cmdFifo, evts >>

ipc_check_ack0 ==
  /\ core = "ack"
  /\ \/ mcuState = "STOP" /\ core' = "granted"
     \/ mcuState = "RUNNING" /\ core' = "cmd"
  /\ UNCHANGED << mcuState, lpmFlag, toCore, toM0, m0Vars, cmdFifo, evts >>

\* The chip sleeps; the M0 loses its power.
lpm_sleep ==
  /\ core = "granted"
  /\ core' = "asleep"
  /\ m0' = "off" /\ irq' = TRUE /\ ops' = 0
  /\ UNCHANGED << mcuState, lpmFlag, toCore, toM0, down, cmdFifo, evts >>

\* ipc_init and wake_for_lpm, then init_m0 starts the M0 from its reset vector.
CoreWake ==
  /\ core = "asleep"
  /\ mcuState' = "RUNNING"
  /\ lpmFlag' = lpmFlag \cup {"M0"}
  /\ toCore' = << >> /\ toM0' = << "wakeup" >>
  /\ m0' = "poll"
  /\ core' = "cmd"
  /\ UNCHANGED << irq, down, ops, cmdFifo, evts >>

\* Either answer will do.  What is queued is dropped, and the chip shuts down.
lpm_hibernate ==
  /\ core = "hibAck"
  /\ mcuState \in {"STOP", "RUNNING"}
  /\ core' = "hibernated"
  /\ cmdFifo' = << >>
  /\ m0' = "off" /\ irq' = TRUE /\ ops' = 0
  /\ UNCHANGED << mcuState, lpmFlag, toCore, toM0, down, evts >>

\* A key or the charger: everything starts anew, as in Init.
ColdBoot ==
  /\ core = "hibernated"
  /\ mcuState' = "RUNNING" /\ lpmFlag' = {}
  /\ toCore' = << >> /\ toM0' = << "reset" >>
  /\ m0' = "poll" /\ down' = TRUE
  /\ core' = "cmd" /\ evts' = 0
  /\ UNCHANGED << irq, ops, cmdFifo >>

\* The steps of the core's loop that do not wait for the outside.
CoreTurn ==
  \/ CoreIdle \/ p_check_m0_state \/ NotifyWakeup \/ ipc_rx_process
  \/ CoreStaysUp \/ p_lpm_check_wake_lock \/ AskM0 \/ ipc_check_ack0
  \/ lpm_sleep \/ lpm_hibernate

CoreNext ==
  \/ CoreTurn \/ CoreExecute \/ (\E e \in Event : CoreEvent(e))
  \/ CoreWake \/ ColdBoot
-----------------------------------------------------------------------------
Next == M0Next \/ CoreNext

\* Both processors run.  The link frees the core again and again for a command.
Fairness ==
  /\ WF_vars(M0Next)
  /\ WF_vars(CoreTurn)
  /\ SF_vars(CoreExecute)
  /\ WF_vars(CoreWake)

Spec == Init /\ [][Next]_vars /\ Fairness
-----------------------------------------------------------------------------
Packet == Command \cup {"hibernate"}
Message == Event \cup {"wakeup", "reset"}

\* The commands the core has yet to execute, wherever they are.
Underway == cmdFifo \o toCore

\* Types, and room in the queue of the core, whose fifo_in asserts when there is
\* none: commands are bounded on their whole way.
TypeOK ==
  /\ mcuState \in {"RUNNING", "HIBERNATE", "LMP", "STOP"}
  /\ lpmFlag \subseteq Lock \cup {"M0"}
  /\ toCore \in Seq(Packet) /\ cmdFifo \in Seq(Packet)
  /\ Len(cmdFifo) + Len(toCore) <= CmdFifoLen
  /\ toM0 \in Seq(Message) /\ Len(toM0) <= MaxRing
  /\ m0 \in {"poll", "rx", "work", "lmp", "send",
             "pwroffSend", "pwroff", "dead", "off"}
  /\ irq \in BOOLEAN /\ down \in BOOLEAN /\ ops \in 0 .. MaxOps
  /\ core \in {"cmd", "state", "notify", "rx", "lpm", "lpmRx", "lpmTx", "ask",
               "ack", "granted", "asleep", "hibAck", "hibernated"}
  /\ evts \in 0 .. MaxEvents

\* The M0 is where it can be switched off: it said STOP and does nothing since.
Parked == mcuState = "STOP" /\ ~ irq /\ m0 \in {"poll", "dead"}

\* The core never takes the M0's power away while it is in a handler, between a
\* handler and its answer, or sending (main.c 154-160, Drv_bt.c 1215-1226).
PowerCutWhenParked ==
  [][m0 # "off" /\ m0' = "off" => Parked]_vars

\* From a wake-up to the end of the first turn of main() the core does not even
\* ask: wake_for_lpm sets M0_LPM_FLAG, and only main.c 152 clears it.
WakeTurnProtected ==
  "M0" \in lpmFlag =>
    core \in {"cmd", "state", "notify", "rx", "lpm", "hibAck", "hibernated"}

\* main() disables interrupts before it stops, and does not enable them when the
\* core changes its mind: a headset that is up relies on a wakeup event that is not
\* lost, however full the ring is (main.c 157, Drv_bt.c 367-373, p_check_m0_state).
\* One that is down would not listen to it (Drv_bt.c 230-233).
MaskedOnlyUntilWakeup ==
  /\ ~ irq /\ ~ down
  /\ mcuState # "STOP" /\ m0 \in {"poll", "rx", "work", "lmp", "send"}
  =>
    \/ core = "notify"
    \/ \E i \in 1 .. Len(toM0) : toM0[i] = "wakeup"

\* A command that was sent is executed, in order, or it keeps the chip awake;
\* an event that was sent is handled or keeps it awake; hibernation comes last.
Service == INSTANCE SleepService WITH
  Command <- Packet, Event <- Message,
  power <- IF core = "asleep" THEN "asleep"
           ELSE IF core \in {"hibAck", "hibernated"} THEN "off" ELSE "on",
  commands <- Underway,
  events <- IF core \in {"hibAck", "hibernated"} THEN << >> ELSE toM0

ImplementsSleepService == Service!Spec

\* Power-off completes, whatever the core was about to do when it was asked for,
\* sleep included (Drv_bt.c 1208-1228).
PowerOffCompletes == m0 = "pwroffSend" ~> core = "hibernated"

\* An event of the core gets a turn of main(), unless the M0 powers off instead.
EventsServed ==
  toM0 # << >> ~> m0 \in {"rx", "pwroffSend", "pwroff", "dead", "off"}
=============================================================================
