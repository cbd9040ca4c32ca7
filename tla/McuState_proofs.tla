--------------------------- MODULE McuState_proofs ---------------------------
(***************************************************************************)
(* Proofs about McuState, for every set of locks, commands and events and  *)
(* every size of the queues.                                               *)
(***************************************************************************)
EXTENDS McuState, SequenceTheorems, TLAPS

\* The M0 runs main() and has not begun to power off.
Running == m0 \in {"poll", "rx", "work", "lmp", "send"}

\* A slot is kept for hibernation until its command is sent.
SlotKept ==
  /\ Running \/ m0 = "pwroffSend" => Len(cmdFifo) + Len(toCore) < CmdFifoLen
  /\ m0 = "send" => Len(cmdFifo) + Len(toCore) < CmdFifoLen - 1

\* Hibernation is the last command, and the M0 waits for it.
HibernateLast ==
  \A i \in 1 .. Len(Underway) :
    Underway[i] = "hibernate" => i = Len(Underway) /\ m0 = "pwroff"

\* The value of IPC_MCU_STATE says where the two processors are.
StateTells ==
  /\ mcuState = "LMP" => core = "ack"
  /\ mcuState = "HIBERNATE" => core = "hibAck" /\ m0 = "pwroff"
  /\ mcuState = "STOP" =>
       \/ m0 = "poll" /\ ~ irq /\ core \in {"cmd", "state", "ack", "granted"}
       \/ m0 = "dead" /\ ~ irq /\ core = "hibAck"
       \/ m0 = "off"

\* And where one processor is says something of the other.
PlacesAgree ==
  /\ m0 = "lmp" => mcuState = "LMP"
  /\ m0 = "dead" => core = "hibAck" /\ mcuState = "STOP"
  /\ m0 = "off" <=> core \in {"asleep", "hibernated"}
  /\ core = "hibAck" => m0 \in {"pwroff", "dead"} /\ mcuState \in {"HIBERNATE", "STOP"}
  /\ core = "granted" => mcuState = "STOP"
  /\ m0 \in {"pwroffSend", "pwroff", "dead"} => ~ irq
  /\ m0 = "off" => irq

\* What the core has looked at is still so, and what the M0 answered for too.
NothingWaits ==
  /\ core \in {"lpmRx", "lpmTx", "ask", "ack", "granted", "asleep"} => cmdFifo = << >>
  /\ core \in {"ask", "ack", "granted", "asleep"} => toM0 = << >>
  /\ core \in {"ack", "granted"} /\ mcuState = "STOP" => toCore = << >>
  /\ core \in {"asleep", "hibAck", "hibernated"} => toCore = << >>
  /\ core \in {"hibAck", "hibernated"} => cmdFifo = << >>

\* The ring has room for the report of a sleep that was called off.
RoomForWakeup ==
  /\ mcuState = "STOP" /\ core = "cmd" => Len(toM0) <= evts
  /\ mcuState = "STOP" /\ core = "state" => Len(toM0) <= MaxEvents
  /\ core = "notify" => Len(toM0) <= MaxEvents

IInv ==
  /\ TypeOK /\ SlotKept /\ HibernateLast /\ StateTells /\ PlacesAgree
  /\ NothingWaits /\ RoomForWakeup /\ WakeTurnProtected /\ MaskedOnlyUntilWakeup
-----------------------------------------------------------------------------
(* Sequences. *)

\* A packet that goes from the ring to the queue stays where it is among those
\* underway.
LEMMA MoveKeeps ==
  ASSUME NEW S, NEW a \in Seq(S), NEW b \in Seq(S), b # << >>
  PROVE  /\ Append(a, Head(b)) \in Seq(S) /\ Tail(b) \in Seq(S)
         /\ Len(Append(a, Head(b))) = Len(a) + 1 /\ Len(Tail(b)) = Len(b) - 1
         /\ Append(a, Head(b)) \o Tail(b) = a \o b
<1>1. /\ Head(b) \in S /\ Tail(b) \in Seq(S) /\ Len(Tail(b)) = Len(b) - 1
      /\ b = << Head(b) >> \o Tail(b)
  BY HeadTailProperties, SMT
<1>2. Append(a, Head(b)) = a \o << Head(b) >>
  BY <1>1, AppendIsConcat
<1>3. (a \o << Head(b) >>) \o Tail(b) = a \o (<< Head(b) >> \o Tail(b))
  BY <1>1, ConcatAssociative
<1>4. QED
  BY <1>1, <1>2, <1>3, AppendProperties

\* A packet that is sent becomes the last one underway.
LEMMA SendAppends ==
  ASSUME NEW S, NEW a \in Seq(S), NEW b \in Seq(S), NEW c \in S
  PROVE  /\ Append(b, c) \in Seq(S) /\ Len(Append(b, c)) = Len(b) + 1
         /\ a \o Append(b, c) = Append(a \o b, c)
<1>1. /\ Append(b, c) = b \o << c >>
      /\ Append(a \o b, c) = (a \o b) \o << c >>
  BY AppendIsConcat, ConcatProperties
<1>2. (a \o b) \o << c >> = a \o (b \o << c >>)
  BY ConcatAssociative
<1>3. QED
  BY <1>1, <1>2, AppendProperties

\* A command that is executed was the first one underway.
LEMMA ExecuteTakesFirst ==
  ASSUME NEW S, NEW a \in Seq(S), NEW b \in Seq(S), a # << >>
  PROVE  /\ Tail(a) \in Seq(S) /\ Len(Tail(a)) = Len(a) - 1 /\ Head(a) \in S
         /\ a \o b # << >> /\ a \o b \in Seq(S) /\ Len(a \o b) = Len(a) + Len(b)
         /\ (a \o b)[1] = Head(a)
         /\ Tail(a) \o b = Tail(a \o b)
<1>1. /\ Tail(a) \in Seq(S) /\ Len(Tail(a)) = Len(a) - 1 /\ Head(a) \in S
      /\ Head(a) = a[1]
      /\ \A i \in 1 .. Len(Tail(a)) : Tail(a)[i] = a[i + 1]
  BY HeadTailProperties
<1>2. Len(a) \in Nat \ {0} /\ Len(b) \in Nat
  BY EmptySeq, LenProperties
<1>3. /\ a \o b \in Seq(S) /\ Len(a \o b) = Len(a) + Len(b)
      /\ \A i \in 1 .. Len(a) + Len(b) :
            (a \o b)[i] = IF i <= Len(a) THEN a[i] ELSE b[i - Len(a)]
  BY ConcatProperties
<1>4. a \o b # << >>
  BY <1>2, <1>3, SMT
<1>5. (a \o b)[1] = Head(a)
  BY <1>1, <1>2, <1>3
<1>6. /\ Tail(a \o b) \in Seq(S) /\ Len(Tail(a \o b)) = Len(a) + Len(b) - 1
      /\ \A i \in 1 .. Len(Tail(a \o b)) : Tail(a \o b)[i] = (a \o b)[i + 1]
  BY <1>3, <1>4, HeadTailProperties
<1>7. /\ Tail(a) \o b \in Seq(S)
      /\ Len(Tail(a) \o b) = Len(Tail(a)) + Len(b)
      /\ \A i \in 1 .. Len(Tail(a)) + Len(b) :
            (Tail(a) \o b)[i]
              = IF i <= Len(Tail(a)) THEN Tail(a)[i] ELSE b[i - Len(Tail(a))]
  BY <1>1, ConcatProperties
<1>8. ASSUME NEW i \in 1 .. Len(Tail(a) \o b)
      PROVE  (Tail(a) \o b)[i] = Tail(a \o b)[i]
  <2>1. Tail(a \o b)[i] = IF i + 1 <= Len(a) THEN a[i + 1] ELSE b[i + 1 - Len(a)]
    BY <1>1, <1>2, <1>3, <1>6, <1>7
  <2>2. CASE i + 1 <= Len(a)
    BY <2>1, <2>2, <1>1, <1>2, <1>7
  <2>3. CASE ~ (i + 1 <= Len(a))
    <3>1. i - Len(Tail(a)) = i + 1 - Len(a) /\ ~ (i <= Len(Tail(a)))
      BY <2>3, <1>1, <1>2
    <3>2. QED
      BY <3>1, <2>1, <2>3, <1>7
  <2>4. QED
    BY <2>2, <2>3
<1>9. Tail(a) \o b = Tail(a \o b)
  BY <1>1, <1>2, <1>6, <1>7, <1>8, SeqEqual
<1>10. QED
  BY <1>1, <1>3, <1>4, <1>5, <1>9

\* Nothing is underway when ring and queue are empty.
LEMMA NothingUnderway ==
  ASSUME cmdFifo = << >>, toCore = << >>
  PROVE  Underway = << >> /\ Len(Underway) = 0
<1>1. << >> \in Seq(Packet)
  BY EmptySeq
<1>2. QED
  BY <1>1, ConcatEmptySeq DEF Underway

LEMMA NothingUnderwayNext ==
  ASSUME cmdFifo' = << >>, toCore' = << >>
  PROVE  HibernateLast'
<1>1. << >> \in Seq(Packet) /\ << >> \o << >> = << >>
  BY EmptySeq, ConcatEmptySeq
<1>2. Underway' = << >>
  BY <1>1 DEF Underway
<1>3. QED
  BY <1>2 DEF HibernateLast
-----------------------------------------------------------------------------

LEMMA M0PollStep ==
  ASSUME IInv, M0Poll
  PROVE  IInv'
<1>1. TypeOK'
  BY DEF IInv, TypeOK, M0Poll, coreVars
<1>2. SlotKept'
  BY DEF IInv, SlotKept, Running, M0Poll, coreVars
<1>3. HibernateLast'
  BY DEF IInv, HibernateLast, Underway, M0Poll, coreVars
<1>4. StateTells' /\ PlacesAgree'
  BY DEF IInv, StateTells, PlacesAgree, M0Poll, coreVars
<1>5. NothingWaits'
  BY DEF IInv, NothingWaits, M0Poll, coreVars
<1>6. RoomForWakeup'
  BY DEF IInv, RoomForWakeup, M0Poll, coreVars
<1>7. WakeTurnProtected'
  BY DEF IInv, WakeTurnProtected, M0Poll, coreVars
<1>8. MaskedOnlyUntilWakeup'
  BY DEF IInv, MaskedOnlyUntilWakeup, M0Poll, coreVars
<1>9. QED
  BY <1>1, <1>2, <1>3, <1>4, <1>5, <1>6, <1>7, <1>8 DEF IInv

LEMMA RxStep ==
  ASSUME IInv, IPC_HandleRxPacket
  PROVE  IInv'
<1>0. toM0 # << >> =>
        /\ toM0' \in Seq(Message) /\ Len(toM0') = Len(toM0) - 1
        /\ \A i \in 1 .. Len(toM0') : toM0'[i] = toM0[i + 1]
        /\ Head(toM0) = toM0[1]
  <2>1. toM0 \in Seq(Message)
    BY DEF IInv, TypeOK
  <2>2. toM0 # << >> => toM0' = Tail(toM0)
    BY DEF IPC_HandleRxPacket
  <2> QED BY <2>1, <2>2, HeadTailProperties
<1>1. TypeOK'
  <2>1. toM0' \in Seq(Message) /\ Len(toM0') <= MaxRing
    <3>1. /\ toM0 \in Seq(Message) /\ Len(toM0) \in Nat /\ Len(toM0) <= MaxRing
          /\ MaxRing \in Nat
      BY LenProperties, McuStateAssumption DEF IInv, TypeOK
    <3>2. toM0 = << >> => toM0' = toM0
      BY DEF IPC_HandleRxPacket
    <3> QED BY <1>0, <3>1, <3>2
  <2>2. irq' \in BOOLEAN /\ down' \in BOOLEAN
    <3>1. irq \in BOOLEAN /\ down \in BOOLEAN
      BY DEF IInv, TypeOK
    <3>2. CASE toM0 = << >>
      BY <3>1, <3>2 DEF IPC_HandleRxPacket
    <3>3. CASE toM0 # << >>
      BY <3>1, <3>3 DEF IPC_HandleRxPacket, Bt_EvtCallBack
    <3> QED BY <3>2, <3>3
  <2> QED BY <2>1, <2>2 DEF IInv, TypeOK, IPC_HandleRxPacket, coreVars
<1>2. SlotKept'
  BY DEF IInv, SlotKept, Running, IPC_HandleRxPacket, coreVars
<1>3. HibernateLast'
  BY DEF IInv, HibernateLast, Underway, IPC_HandleRxPacket, coreVars
<1>4. StateTells' /\ PlacesAgree'
  BY DEF IInv, StateTells, PlacesAgree, IPC_HandleRxPacket, Bt_EvtCallBack, coreVars
<1>5. NothingWaits'
  BY DEF IInv, NothingWaits, IPC_HandleRxPacket, coreVars
<1>6. RoomForWakeup'
  BY McuStateAssumption DEF IInv, TypeOK, RoomForWakeup, IPC_HandleRxPacket, coreVars
<1>7. WakeTurnProtected'
  BY DEF IInv, WakeTurnProtected, IPC_HandleRxPacket, coreVars
<1>8. MaskedOnlyUntilWakeup'
  <2>1. ASSUME ~ irq', ~ down', mcuState # "STOP", core # "notify"
        PROVE  \E i \in 1 .. Len(toM0') : toM0'[i] = "wakeup"
    <3>1. /\ ~ irq /\ ~ down /\ m0 = "rx"
          /\ toM0 # << >> => Head(toM0) # "wakeup"
      <4>1. CASE toM0 = << >>
        BY <2>1, <4>1 DEF IPC_HandleRxPacket
      <4>2. CASE toM0 # << >>
        BY <2>1, <4>2 DEF IPC_HandleRxPacket, Bt_EvtCallBack
      <4> QED BY <4>1, <4>2
    <3>2. PICK i \in 1 .. Len(toM0) : toM0[i] = "wakeup"
      BY <3>1, <2>1 DEF IInv, MaskedOnlyUntilWakeup
    <3>3. toM0 # << >> /\ Len(toM0) \in Nat
      BY <3>2, LenProperties, EmptySeq DEF IInv, TypeOK
    <3>4. i # 1 /\ i - 1 \in 1 .. Len(toM0') /\ toM0'[i - 1] = toM0[i]
      BY <1>0, <3>1, <3>2, <3>3
    <3>5. QED
      BY <3>2, <3>4
  <2>2. QED
    BY <2>1 DEF MaskedOnlyUntilWakeup, IPC_HandleRxPacket, coreVars
<1>9. QED
  BY <1>1, <1>2, <1>3, <1>4, <1>5, <1>6, <1>7, <1>8 DEF IInv

LEMMA LockStep ==
  ASSUME NEW l \in Lock, IInv, Lpm_LockLpm(l)
  PROVE  IInv'
<1>1. TypeOK'
  BY McuStateAssumption DEF IInv, TypeOK, Lpm_LockLpm, Works, coreVars
<1>2. SlotKept'
  BY DEF IInv, SlotKept, Running, Lpm_LockLpm, coreVars
<1>3. HibernateLast'
  BY DEF IInv, HibernateLast, Underway, Lpm_LockLpm, coreVars
<1>4. StateTells' /\ PlacesAgree'
  BY DEF IInv, StateTells, PlacesAgree, Lpm_LockLpm, coreVars
<1>5. NothingWaits'
  BY DEF IInv, NothingWaits, Lpm_LockLpm, coreVars
<1>6. RoomForWakeup'
  BY DEF IInv, RoomForWakeup, Lpm_LockLpm, coreVars
<1>7. WakeTurnProtected'
  BY McuStateAssumption DEF IInv, WakeTurnProtected, Lpm_LockLpm, coreVars
<1>8. MaskedOnlyUntilWakeup'
  BY DEF IInv, MaskedOnlyUntilWakeup, Lpm_LockLpm, coreVars
<1>9. QED
  BY <1>1, <1>2, <1>3, <1>4, <1>5, <1>6, <1>7, <1>8 DEF IInv

LEMMA UnlockStep ==
  ASSUME NEW l \in Lock, IInv, Lpm_unLockLpm(l)
  PROVE  IInv'
<1>1. TypeOK'
  BY McuStateAssumption DEF IInv, TypeOK, Lpm_unLockLpm, Works, coreVars
<1>2. SlotKept'
  BY DEF IInv, SlotKept, Running, Lpm_unLockLpm, coreVars
<1>3. HibernateLast'
  BY DEF IInv, HibernateLast, Underway, Lpm_unLockLpm, coreVars
<1>4. StateTells' /\ PlacesAgree'
  BY DEF IInv, StateTells, PlacesAgree, Lpm_unLockLpm, coreVars
<1>5. NothingWaits'
  BY DEF IInv, NothingWaits, Lpm_unLockLpm, coreVars
<1>6. RoomForWakeup'
  BY DEF IInv, RoomForWakeup, Lpm_unLockLpm, coreVars
<1>7. WakeTurnProtected'
  BY DEF IInv, WakeTurnProtected, Lpm_unLockLpm, coreVars
<1>8. MaskedOnlyUntilWakeup'
  BY DEF IInv, MaskedOnlyUntilWakeup, Lpm_unLockLpm, coreVars
<1>9. QED
  BY <1>1, <1>2, <1>3, <1>4, <1>5, <1>6, <1>7, <1>8 DEF IInv

\* Going off or charging: a lock is taken and interrupts are enabled.
LEMMA DownStep ==
  ASSUME NEW l \in Lock, IInv, GoesDown(l)
  PROVE  IInv'
<1>1. TypeOK'
  BY McuStateAssumption DEF IInv, TypeOK, GoesDown, Works, coreVars
<1>2. SlotKept'
  BY DEF IInv, SlotKept, Running, GoesDown, coreVars
<1>3. HibernateLast'
  BY DEF IInv, HibernateLast, Underway, GoesDown, coreVars
<1>4. StateTells' /\ PlacesAgree'
  BY DEF IInv, StateTells, PlacesAgree, GoesDown, Works, coreVars
<1>5. NothingWaits'
  BY DEF IInv, NothingWaits, GoesDown, coreVars
<1>6. RoomForWakeup'
  BY DEF IInv, RoomForWakeup, GoesDown, coreVars
<1>7. WakeTurnProtected'
  BY McuStateAssumption DEF IInv, WakeTurnProtected, GoesDown, coreVars
<1>8. MaskedOnlyUntilWakeup'
  BY DEF MaskedOnlyUntilWakeup, GoesDown
<1>9. QED
  BY <1>1, <1>2, <1>3, <1>4, <1>5, <1>6, <1>7, <1>8 DEF IInv

LEMMA CriticalStep ==
  ASSUME IInv, CriticalSection
  PROVE  IInv'
<1>1. TypeOK'
  BY McuStateAssumption DEF IInv, TypeOK, CriticalSection, Works, coreVars
<1>2. SlotKept'
  BY DEF IInv, SlotKept, Running, CriticalSection, coreVars
<1>3. HibernateLast'
  BY DEF IInv, HibernateLast, Underway, CriticalSection, coreVars
<1>4. StateTells' /\ PlacesAgree'
  BY DEF IInv, StateTells, PlacesAgree, CriticalSection, Works, coreVars
<1>5. NothingWaits'
  BY DEF IInv, NothingWaits, CriticalSection, coreVars
<1>6. RoomForWakeup'
  BY DEF IInv, RoomForWakeup, CriticalSection, coreVars
<1>7. WakeTurnProtected'
  BY DEF IInv, WakeTurnProtected, CriticalSection, coreVars
<1>8. MaskedOnlyUntilWakeup'
  BY DEF MaskedOnlyUntilWakeup, CriticalSection
<1>9. QED
  BY <1>1, <1>2, <1>3, <1>4, <1>5, <1>6, <1>7, <1>8 DEF IInv

LEMMA ControlStep ==
  ASSUME IInv, IPC_TxControlCmd
  PROVE  IInv'
<1>1. TypeOK'
  BY McuStateAssumption DEF IInv, TypeOK, IPC_TxControlCmd, Works, StayAwake, coreVars
<1>2. SlotKept'
  BY McuStateAssumption DEF SlotKept, IPC_TxControlCmd, coreVars
<1>3. HibernateLast'
  BY DEF IInv, HibernateLast, Underway, IPC_TxControlCmd, Works, coreVars
<1>4. StateTells' /\ PlacesAgree'
  BY DEF IInv, StateTells, PlacesAgree, IPC_TxControlCmd, Works, StayAwake, coreVars
<1>5. NothingWaits'
  BY DEF IInv, NothingWaits, IPC_TxControlCmd, StayAwake, coreVars
<1>6. RoomForWakeup'
  BY DEF IInv, RoomForWakeup, IPC_TxControlCmd, StayAwake, coreVars
<1>7. WakeTurnProtected'
  BY DEF IInv, WakeTurnProtected, IPC_TxControlCmd, coreVars
<1>8. MaskedOnlyUntilWakeup'
  BY DEF IInv, MaskedOnlyUntilWakeup, StateTells, IPC_TxControlCmd, Works, coreVars
<1>9. QED
  BY <1>1, <1>2, <1>3, <1>4, <1>5, <1>6, <1>7, <1>8 DEF IInv

\* The packet sent becomes the last one underway.
LEMMA TxFacts ==
  ASSUME NEW c \in Command, IInv, ipcTx(c)
  PROVE  /\ Underway \in Seq(Packet) /\ Underway' = Append(Underway, c)
         /\ c \in Packet /\ m0 = "send"
<1>1. /\ toCore \in Seq(Packet) /\ cmdFifo \in Seq(Packet) /\ c \in Packet
      /\ toCore' = Append(toCore, c) /\ cmdFifo' = cmdFifo
      /\ m0 = "send"
  BY DEF IInv, TypeOK, Packet, ipcTx, coreVars
<1>2. Underway \in Seq(Packet) /\ Underway' = Append(Underway, c)
  BY <1>1 DEF Underway
<1>3. QED
  BY <1>1, <1>2

LEMMA TxStep ==
  ASSUME NEW c \in Command, IInv, ipcTx(c)
  PROVE  IInv'
<1>1. TypeOK'
  BY McuStateAssumption DEF IInv, TypeOK, Packet, ipcTx, coreVars, SlotKept
<1>2. SlotKept'
  BY McuStateAssumption DEF IInv, SlotKept, ipcTx, coreVars
<1>3. HibernateLast'
  <2>1. /\ Len(Underway') = Len(Underway) + 1 /\ Len(Underway) \in Nat
        /\ Underway'[Len(Underway) + 1] = c
        /\ \A i \in 1 .. Len(Underway) : Underway'[i] = Underway[i]
    BY TxFacts, AppendProperties, LenProperties
  <2>2. \A i \in 1 .. Len(Underway) : Underway[i] # "hibernate"
    BY TxFacts DEF IInv, HibernateLast

  <2>3. c # "hibernate"
    BY McuStateAssumption
  <2>4. QED
    BY <2>1, <2>2, <2>3 DEF HibernateLast
<1>4. StateTells' /\ PlacesAgree'
  BY DEF IInv, StateTells, PlacesAgree, ipcTx, coreVars
<1>5. NothingWaits'
  BY DEF IInv, NothingWaits, StateTells, PlacesAgree, ipcTx, coreVars
<1>6. RoomForWakeup'
  BY DEF IInv, RoomForWakeup, ipcTx, coreVars
<1>7. WakeTurnProtected'
  BY DEF IInv, WakeTurnProtected, ipcTx, coreVars
<1>8. MaskedOnlyUntilWakeup'
  BY DEF IInv, MaskedOnlyUntilWakeup, ipcTx, coreVars
<1>9. QED
  BY <1>1, <1>2, <1>3, <1>4, <1>5, <1>6, <1>7, <1>8 DEF IInv

LEMMA PwroffStep ==
  ASSUME IInv, Bt_SndCmdPwroff
  PROVE  IInv'
<1>1. TypeOK'
  <2>1. irq' \in BOOLEAN
    BY DEF Bt_SndCmdPwroff
  <2>2. mcuState' \in {"RUNNING", "HIBERNATE", "LMP", "STOP"} /\ ops' \in 0 .. MaxOps
    BY McuStateAssumption DEF IInv, TypeOK, Bt_SndCmdPwroff, Works, StayAwake
  <2>3. QED
    BY <2>1, <2>2 DEF IInv, TypeOK, Bt_SndCmdPwroff, coreVars
<1>2. SlotKept'
  BY DEF IInv, SlotKept, Running, Bt_SndCmdPwroff, Works, coreVars
<1>3. HibernateLast'
  BY DEF IInv, HibernateLast, Underway, Bt_SndCmdPwroff, Works, coreVars
<1>4. StateTells' /\ PlacesAgree'
  BY DEF IInv, StateTells, PlacesAgree, Bt_SndCmdPwroff, Works, StayAwake, coreVars
<1>5. NothingWaits'
  BY DEF IInv, NothingWaits, Bt_SndCmdPwroff, StayAwake, coreVars
<1>6. RoomForWakeup'
  BY DEF IInv, RoomForWakeup, Bt_SndCmdPwroff, StayAwake, coreVars
<1>7. WakeTurnProtected'
  BY DEF IInv, WakeTurnProtected, Bt_SndCmdPwroff, coreVars
<1>8. MaskedOnlyUntilWakeup'
  BY DEF MaskedOnlyUntilWakeup, Bt_SndCmdPwroff
<1>9. QED
  BY <1>1, <1>2, <1>3, <1>4, <1>5, <1>6, <1>7, <1>8 DEF IInv

\* The packet sent becomes the last one underway.
LEMMA PwroffSendFacts ==
  ASSUME IInv, PwroffSend
  PROVE  /\ Underway \in Seq(Packet) /\ Underway' = Append(Underway, "hibernate")
         /\ "hibernate" \in Packet /\ m0 = "pwroffSend"
<1>1. /\ toCore \in Seq(Packet) /\ cmdFifo \in Seq(Packet) /\ "hibernate" \in Packet
      /\ toCore' = Append(toCore, "hibernate") /\ cmdFifo' = cmdFifo
      /\ m0 = "pwroffSend"
  BY DEF IInv, TypeOK, Packet, PwroffSend, coreVars
<1>2. Underway \in Seq(Packet) /\ Underway' = Append(Underway, "hibernate")
  BY <1>1 DEF Underway
<1>3. QED
  BY <1>1, <1>2

LEMMA PwroffSendStep ==
  ASSUME IInv, PwroffSend
  PROVE  IInv'
<1>1. TypeOK'
  BY McuStateAssumption DEF IInv, TypeOK, Packet, PwroffSend, coreVars, SlotKept
<1>2. SlotKept'
  BY DEF SlotKept, Running, PwroffSend
<1>3. HibernateLast'
  <2>1. /\ Len(Underway') = Len(Underway) + 1 /\ Len(Underway) \in Nat
        /\ Underway'[Len(Underway) + 1] = "hibernate"
        /\ \A i \in 1 .. Len(Underway) : Underway'[i] = Underway[i]
    BY PwroffSendFacts, AppendProperties, LenProperties
  <2>2. \A i \in 1 .. Len(Underway) : Underway[i] # "hibernate"
    BY PwroffSendFacts DEF IInv, HibernateLast

  <2>3. m0' = "pwroff"
    BY DEF PwroffSend
  <2>4. QED
    BY <2>1, <2>2, <2>3 DEF HibernateLast
<1>4. StateTells' /\ PlacesAgree'
  BY DEF IInv, StateTells, PlacesAgree, PwroffSend, coreVars
<1>5. NothingWaits'
  BY DEF IInv, NothingWaits, StateTells, PlacesAgree, PwroffSend, coreVars
<1>6. RoomForWakeup'
  BY DEF IInv, RoomForWakeup, PwroffSend, coreVars
<1>7. WakeTurnProtected'
  BY DEF IInv, WakeTurnProtected, PwroffSend, coreVars
<1>8. MaskedOnlyUntilWakeup'
  BY DEF MaskedOnlyUntilWakeup, PwroffSend
<1>9. QED
  BY <1>1, <1>2, <1>3, <1>4, <1>5, <1>6, <1>7, <1>8 DEF IInv

LEMMA PwroffLoopStep ==
  ASSUME IInv, PwroffLoop
  PROVE  IInv'
<1>1. TypeOK'
  BY DEF IInv, TypeOK, PwroffLoop, coreVars
<1>2. SlotKept'
  BY DEF SlotKept, Running, PwroffLoop
<1>3. HibernateLast'
  <2>1. CASE mcuState = "LMP"
    BY <2>1 DEF IInv, HibernateLast, Underway, PwroffLoop, coreVars
  <2>2. CASE mcuState = "HIBERNATE"
    <3>1. cmdFifo' = << >> /\ toCore' = << >>
      BY <2>2 DEF IInv, StateTells, NothingWaits, PwroffLoop, coreVars
    <3>2. QED
      BY <3>1, NothingUnderwayNext
  <2>3. QED
    BY <2>1, <2>2 DEF PwroffLoop
<1>4. StateTells' /\ PlacesAgree'
  BY DEF IInv, StateTells, PlacesAgree, PwroffLoop, coreVars
<1>5. NothingWaits'
  BY DEF IInv, NothingWaits, StateTells, PwroffLoop, coreVars
<1>6. RoomForWakeup'
  BY DEF IInv, RoomForWakeup, StateTells, PwroffLoop, coreVars
<1>7. WakeTurnProtected'
  BY DEF IInv, WakeTurnProtected, PwroffLoop, coreVars
<1>8. MaskedOnlyUntilWakeup'
  BY DEF MaskedOnlyUntilWakeup, PwroffLoop
<1>9. QED
  BY <1>1, <1>2, <1>3, <1>4, <1>5, <1>6, <1>7, <1>8 DEF IInv

LEMMA TurnEndStep ==
  ASSUME IInv, M0TurnEnd
  PROVE  IInv'
<1>1. TypeOK'
  BY McuStateAssumption DEF IInv, TypeOK, M0TurnEnd, coreVars
<1>2. SlotKept'
  BY DEF IInv, SlotKept, Running, M0TurnEnd, coreVars
<1>3. HibernateLast'
  BY DEF IInv, HibernateLast, Underway, M0TurnEnd, coreVars
<1>4. StateTells' /\ PlacesAgree'
  BY DEF IInv, StateTells, PlacesAgree, M0TurnEnd, coreVars
<1>5. NothingWaits'
  BY DEF IInv, NothingWaits, M0TurnEnd, coreVars
<1>6. RoomForWakeup'
  BY DEF IInv, RoomForWakeup, M0TurnEnd, coreVars
<1>7. WakeTurnProtected'
  BY DEF WakeTurnProtected, M0TurnEnd
<1>8. MaskedOnlyUntilWakeup'
  BY DEF IInv, MaskedOnlyUntilWakeup, M0TurnEnd, coreVars
<1>9. QED
  BY <1>1, <1>2, <1>3, <1>4, <1>5, <1>6, <1>7, <1>8 DEF IInv

LEMMA LmpCaseStep ==
  ASSUME IInv, LmpCase
  PROVE  IInv'
<1>1. TypeOK'
  BY DEF IInv, TypeOK, LmpCase, coreVars
<1>2. SlotKept'
  BY DEF IInv, SlotKept, Running, LmpCase, coreVars
<1>3. HibernateLast'
  BY DEF IInv, HibernateLast, Underway, LmpCase, coreVars
<1>4. StateTells' /\ PlacesAgree'
  BY DEF IInv, StateTells, PlacesAgree, LmpCase, coreVars
<1>5. NothingWaits'
  BY DEF IInv, NothingWaits, LmpCase, coreVars
<1>6. RoomForWakeup'
  BY DEF IInv, RoomForWakeup, StateTells, PlacesAgree, LmpCase, coreVars
<1>7. WakeTurnProtected'
  BY DEF IInv, WakeTurnProtected, LmpCase, coreVars
<1>8. MaskedOnlyUntilWakeup'
  BY DEF IInv, MaskedOnlyUntilWakeup, StateTells, PlacesAgree, LmpCase
<1>9. QED
  BY <1>1, <1>2, <1>3, <1>4, <1>5, <1>6, <1>7, <1>8 DEF IInv

\* The command executed was the first underway; hibernation is the only one left.
LEMMA ExecuteFacts ==
  ASSUME IInv, CoreExecute
  PROVE  /\ Underway # << >> /\ Len(Underway) = Len(cmdFifo) + Len(toCore)
         /\ Underway \in Seq(Packet) /\ Underway' = Tail(Underway)
         /\ Head(cmdFifo) = Underway[1]
         /\ Head(cmdFifo) = "hibernate" =>
              m0 = "pwroff" /\ Len(cmdFifo) = 1 /\ cmdFifo' = << >> /\ toCore = << >>
<1>1. /\ Underway # << >> /\ Len(Underway) = Len(cmdFifo) + Len(toCore)
      /\ Underway \in Seq(Packet) /\ Underway' = Tail(Underway)
      /\ Head(cmdFifo) = Underway[1] /\ Len(cmdFifo) \in Nat \ {0} /\ Len(toCore) \in Nat
      /\ Len(cmdFifo') = Len(cmdFifo) - 1 /\ cmdFifo' \in Seq(Packet)
  <2>1. /\ cmdFifo \in Seq(Packet) /\ toCore \in Seq(Packet) /\ cmdFifo # << >>
        /\ cmdFifo' = Tail(cmdFifo) /\ toCore' = toCore
    BY DEF IInv, TypeOK, CoreExecute
  <2>2. Underway' = Tail(cmdFifo) \o toCore
    BY <2>1 DEF Underway
  <2>3. Len(cmdFifo) \in Nat \ {0} /\ Len(toCore) \in Nat
    BY <2>1, LenProperties, EmptySeq
  <2>4. /\ Underway # << >> /\ Len(Underway) = Len(cmdFifo) + Len(toCore)
        /\ Underway \in Seq(Packet) /\ Underway[1] = Head(cmdFifo)
        /\ Tail(cmdFifo) \o toCore = Tail(Underway)
        /\ Tail(cmdFifo) \in Seq(Packet) /\ Len(Tail(cmdFifo)) = Len(cmdFifo) - 1
    BY <2>1, ExecuteTakesFirst DEF Underway
  <2> QED BY <2>1, <2>2, <2>3, <2>4
<1>2. Head(cmdFifo) = "hibernate" =>
        m0 = "pwroff" /\ Len(cmdFifo) = 1 /\ cmdFifo' = << >> /\ toCore = << >>
  <2>1. Head(cmdFifo) = "hibernate" => m0 = "pwroff" /\ Len(Underway) = 1
    BY <1>1 DEF IInv, HibernateLast
  <2>2. Len(Underway) = 1 => Len(cmdFifo') = 0 /\ Len(cmdFifo) = 1 /\ Len(toCore) = 0
    BY <1>1
  <2>3. QED
    BY <2>1, <2>2, <1>1, EmptySeq
<1>3. QED
  BY <1>1, <1>2

LEMMA ExecuteStep ==
  ASSUME IInv, CoreExecute
  PROVE  IInv'
<1>1. TypeOK'
  BY McuStateAssumption DEF IInv, TypeOK, CoreExecute, m0Vars
<1>2. SlotKept'
  BY McuStateAssumption DEF IInv, TypeOK, SlotKept, CoreExecute, m0Vars
<1>3. HibernateLast'
  <2>1. /\ Len(Underway') = Len(Underway) - 1 /\ Len(Underway) \in Nat
        /\ \A i \in 1 .. Len(Underway') : Underway'[i] = Underway[i + 1]
    BY ExecuteFacts, HeadTailProperties, LenProperties
  <2>2. m0' = m0
    BY DEF CoreExecute, m0Vars
  <2>3. QED
    BY <2>1, <2>2 DEF IInv, HibernateLast
<1>4. StateTells' /\ PlacesAgree'
  <2>1. CASE Head(cmdFifo) = "hibernate"
    BY <2>1, ExecuteFacts DEF IInv, StateTells, PlacesAgree, CoreExecute, m0Vars
  <2>2. CASE Head(cmdFifo) # "hibernate"
    BY <2>2 DEF IInv, StateTells, PlacesAgree, CoreExecute, m0Vars
  <2>3. QED
    BY <2>1, <2>2
<1>5. NothingWaits'
  BY ExecuteFacts DEF NothingWaits, CoreExecute
<1>6. RoomForWakeup'
  BY DEF IInv, RoomForWakeup, CoreExecute
<1>7. WakeTurnProtected'
  BY DEF WakeTurnProtected, CoreExecute
<1>8. MaskedOnlyUntilWakeup'
  BY ExecuteFacts DEF IInv, MaskedOnlyUntilWakeup, CoreExecute, m0Vars
<1>9. QED
  BY <1>1, <1>2, <1>3, <1>4, <1>5, <1>6, <1>7, <1>8 DEF IInv

LEMMA EventStep ==
  ASSUME NEW e \in Event, IInv, CoreEvent(e)
  PROVE  IInv'
<1>1. TypeOK'
  BY McuStateAssumption DEF IInv, TypeOK, Message, CoreEvent, Sent, m0Vars
<1>2. SlotKept'
  BY DEF IInv, SlotKept, Running, CoreEvent, m0Vars
<1>3. HibernateLast'
  BY DEF IInv, HibernateLast, Underway, CoreEvent, m0Vars
<1>4. StateTells' /\ PlacesAgree'
  BY DEF IInv, StateTells, PlacesAgree, CoreEvent, m0Vars
<1>5. NothingWaits'
  BY DEF NothingWaits, CoreEvent
<1>6. RoomForWakeup'
  BY DEF IInv, TypeOK, RoomForWakeup, CoreEvent, Sent
<1>7. WakeTurnProtected'
  BY DEF WakeTurnProtected, CoreEvent
<1>8. MaskedOnlyUntilWakeup'
  BY DEF IInv, MaskedOnlyUntilWakeup, CoreEvent, Sent, m0Vars
<1>9. QED
  BY <1>1, <1>2, <1>3, <1>4, <1>5, <1>6, <1>7, <1>8 DEF IInv

LEMMA IdleStep ==
  ASSUME IInv, CoreIdle
  PROVE  IInv'
<1>1. TypeOK'
  BY McuStateAssumption DEF IInv, TypeOK, CoreIdle, m0Vars
<1>2. SlotKept'
  BY DEF IInv, SlotKept, Running, CoreIdle, m0Vars
<1>3. HibernateLast'
  BY DEF IInv, HibernateLast, Underway, CoreIdle, m0Vars
<1>4. StateTells' /\ PlacesAgree'
  BY DEF IInv, StateTells, PlacesAgree, CoreIdle, m0Vars
<1>5. NothingWaits'
  BY DEF NothingWaits, CoreIdle
<1>6. RoomForWakeup'
  BY McuStateAssumption DEF IInv, TypeOK, RoomForWakeup, CoreIdle
<1>7. WakeTurnProtected'
  BY DEF WakeTurnProtected, CoreIdle
<1>8. MaskedOnlyUntilWakeup'
  BY DEF IInv, MaskedOnlyUntilWakeup, CoreIdle, m0Vars
<1>9. QED
  BY <1>1, <1>2, <1>3, <1>4, <1>5, <1>6, <1>7, <1>8 DEF IInv

LEMMA CheckStateStep ==
  ASSUME IInv, p_check_m0_state
  PROVE  IInv'
<1>1. TypeOK'
  BY DEF IInv, TypeOK, p_check_m0_state, m0Vars
<1>2. SlotKept'
  BY DEF IInv, SlotKept, Running, p_check_m0_state, m0Vars
<1>3. HibernateLast'
  BY DEF IInv, HibernateLast, Underway, p_check_m0_state, m0Vars
<1>4. StateTells' /\ PlacesAgree'
  BY DEF IInv, StateTells, PlacesAgree, p_check_m0_state, m0Vars
<1>5. NothingWaits'
  BY DEF NothingWaits, p_check_m0_state
<1>6. RoomForWakeup'
  BY DEF IInv, RoomForWakeup, p_check_m0_state
<1>7. WakeTurnProtected'
  BY DEF WakeTurnProtected, p_check_m0_state
<1>8. MaskedOnlyUntilWakeup'
  BY DEF IInv, MaskedOnlyUntilWakeup, p_check_m0_state, m0Vars
<1>9. QED
  BY <1>1, <1>2, <1>3, <1>4, <1>5, <1>6, <1>7, <1>8 DEF IInv

LEMMA NotifyStep ==
  ASSUME IInv, NotifyWakeup
  PROVE  IInv'
<1>1. TypeOK'
  BY McuStateAssumption DEF IInv, TypeOK, Message, NotifyWakeup, Sent, m0Vars
<1>2. SlotKept'
  BY DEF IInv, SlotKept, Running, NotifyWakeup, m0Vars
<1>3. HibernateLast'
  BY DEF IInv, HibernateLast, Underway, NotifyWakeup, m0Vars
<1>4. StateTells' /\ PlacesAgree'
  BY DEF IInv, StateTells, PlacesAgree, NotifyWakeup, m0Vars
<1>5. NothingWaits'
  BY DEF NothingWaits, NotifyWakeup
<1>6. RoomForWakeup'
  BY DEF RoomForWakeup, NotifyWakeup
<1>7. WakeTurnProtected'
  BY DEF WakeTurnProtected, NotifyWakeup
<1>8. MaskedOnlyUntilWakeup'
  <2>1. /\ toM0 \in Seq(Message) /\ Len(toM0) < MaxRing /\ Len(toM0) \in Nat
    BY McuStateAssumption DEF IInv, TypeOK, RoomForWakeup, NotifyWakeup
  <2>2. toM0' = Append(toM0, "wakeup")
    BY <2>1 DEF NotifyWakeup, Sent
  <2>3. Len(toM0') = Len(toM0) + 1 /\ toM0'[Len(toM0) + 1] = "wakeup"
    BY <2>1, <2>2
  <2>4. QED
    BY <2>1, <2>3 DEF MaskedOnlyUntilWakeup
<1>9. QED
  BY <1>1, <1>2, <1>3, <1>4, <1>5, <1>6, <1>7, <1>8 DEF IInv

\* The packet goes from the ring to the end of the queue.
LEMMA CoreRxFacts ==
  ASSUME IInv, ipc_rx_process
  PROVE  /\ Underway' = Underway
         /\ toCore' \in Seq(Packet) /\ cmdFifo' \in Seq(Packet)
         /\ Len(cmdFifo') + Len(toCore') = Len(cmdFifo) + Len(toCore)
<1>1. CASE toCore = << >>
  BY <1>1 DEF IInv, TypeOK, ipc_rx_process, Underway
<1>2. CASE toCore # << >>
  <2>1. toCore' = Tail(toCore) /\ cmdFifo' = Append(cmdFifo, Head(toCore))
    BY <1>2 DEF ipc_rx_process
  <2>2. toCore \in Seq(Packet) /\ cmdFifo \in Seq(Packet)
    BY DEF IInv, TypeOK
  <2>3. Len(toCore) \in Nat /\ Len(cmdFifo) \in Nat
    BY <2>2, LenProperties
  <2>4. QED
    BY <1>2, <2>1, <2>2, <2>3, MoveKeeps DEF Underway
<1>3. QED
  BY <1>1, <1>2

LEMMA CoreRxStep ==
  ASSUME IInv, ipc_rx_process
  PROVE  IInv'
<1>1. TypeOK'
  BY CoreRxFacts DEF IInv, TypeOK, ipc_rx_process, m0Vars
<1>2. SlotKept'
  <2>1. Len(cmdFifo') + Len(toCore') = Len(cmdFifo) + Len(toCore) /\ m0' = m0
    BY CoreRxFacts DEF ipc_rx_process, m0Vars
  <2> QED BY <2>1 DEF IInv, SlotKept, Running
<1>3. HibernateLast'
  BY CoreRxFacts DEF IInv, HibernateLast, ipc_rx_process, m0Vars
<1>4. StateTells' /\ PlacesAgree'
  BY DEF IInv, StateTells, PlacesAgree, ipc_rx_process, m0Vars
<1>5. NothingWaits'
  BY DEF NothingWaits, ipc_rx_process
<1>6. RoomForWakeup'
  BY DEF RoomForWakeup, ipc_rx_process
<1>7. WakeTurnProtected'
  BY DEF WakeTurnProtected, ipc_rx_process
<1>8. MaskedOnlyUntilWakeup'
  BY DEF IInv, MaskedOnlyUntilWakeup, ipc_rx_process, m0Vars
<1>9. QED
  BY <1>1, <1>2, <1>3, <1>4, <1>5, <1>6, <1>7, <1>8 DEF IInv

LEMMA StaysUpStep ==
  ASSUME IInv, CoreStaysUp
  PROVE  IInv'
<1>1. TypeOK'
  BY DEF IInv, TypeOK, CoreStaysUp, m0Vars
<1>2. SlotKept'
  BY DEF IInv, SlotKept, Running, CoreStaysUp, m0Vars
<1>3. HibernateLast'
  BY DEF IInv, HibernateLast, Underway, CoreStaysUp, m0Vars
<1>4. StateTells' /\ PlacesAgree'
  BY DEF IInv, StateTells, PlacesAgree, CoreStaysUp, m0Vars
<1>5. NothingWaits'
  BY DEF NothingWaits, CoreStaysUp
<1>6. RoomForWakeup'
  <2>1. mcuState = "STOP" => toM0 = << >> /\ Len(toM0) = 0
    BY DEF IInv, StateTells, PlacesAgree, NothingWaits, CoreStaysUp
  <2>2. QED
    BY <2>1 DEF IInv, TypeOK, RoomForWakeup, CoreStaysUp
<1>7. WakeTurnProtected'
  BY DEF WakeTurnProtected, CoreStaysUp
<1>8. MaskedOnlyUntilWakeup'
  BY DEF IInv, MaskedOnlyUntilWakeup, CoreStaysUp, m0Vars
<1>9. QED
  BY <1>1, <1>2, <1>3, <1>4, <1>5, <1>6, <1>7, <1>8 DEF IInv

LEMMA WakeLockStep ==
  ASSUME IInv, p_lpm_check_wake_lock
  PROVE  IInv'
<1>1. TypeOK'
  BY DEF IInv, TypeOK, p_lpm_check_wake_lock, m0Vars
<1>2. SlotKept'
  BY DEF IInv, SlotKept, Running, p_lpm_check_wake_lock, m0Vars
<1>3. HibernateLast'
  BY DEF IInv, HibernateLast, Underway, p_lpm_check_wake_lock, m0Vars
<1>4. StateTells' /\ PlacesAgree'
  BY DEF IInv, StateTells, PlacesAgree, p_lpm_check_wake_lock, m0Vars
<1>5. NothingWaits'
  BY DEF IInv, NothingWaits, p_lpm_check_wake_lock
<1>6. RoomForWakeup'
  BY DEF RoomForWakeup, p_lpm_check_wake_lock
<1>7. WakeTurnProtected'
  BY DEF IInv, WakeTurnProtected, p_lpm_check_wake_lock
<1>8. MaskedOnlyUntilWakeup'
  BY DEF IInv, MaskedOnlyUntilWakeup, p_lpm_check_wake_lock, m0Vars
<1>9. QED
  BY <1>1, <1>2, <1>3, <1>4, <1>5, <1>6, <1>7, <1>8 DEF IInv

LEMMA AskStep ==
  ASSUME IInv, AskM0
  PROVE  IInv'
<1>1. TypeOK'
  BY DEF IInv, TypeOK, AskM0, m0Vars
<1>2. SlotKept'
  BY DEF IInv, SlotKept, Running, AskM0, m0Vars
<1>3. HibernateLast'
  BY DEF IInv, HibernateLast, Underway, AskM0, m0Vars
<1>4. StateTells' /\ PlacesAgree'
  BY DEF IInv, StateTells, PlacesAgree, AskM0, m0Vars
<1>5. NothingWaits'
  BY DEF IInv, NothingWaits, AskM0
<1>6. RoomForWakeup'
  BY DEF RoomForWakeup, AskM0
<1>7. WakeTurnProtected'
  BY DEF IInv, WakeTurnProtected, AskM0
<1>8. MaskedOnlyUntilWakeup'
  BY DEF IInv, MaskedOnlyUntilWakeup, StateTells, AskM0, m0Vars
<1>9. QED
  BY <1>1, <1>2, <1>3, <1>4, <1>5, <1>6, <1>7, <1>8 DEF IInv

LEMMA AckStep ==
  ASSUME IInv, ipc_check_ack0
  PROVE  IInv'
<1>1. TypeOK'
  BY DEF IInv, TypeOK, ipc_check_ack0, m0Vars
<1>2. SlotKept'
  BY DEF IInv, SlotKept, Running, ipc_check_ack0, m0Vars
<1>3. HibernateLast'
  BY DEF IInv, HibernateLast, Underway, ipc_check_ack0, m0Vars
<1>4. StateTells' /\ PlacesAgree'
  BY DEF IInv, StateTells, PlacesAgree, ipc_check_ack0, m0Vars
<1>5. NothingWaits'
  BY DEF IInv, NothingWaits, ipc_check_ack0
<1>6. RoomForWakeup'
  BY DEF RoomForWakeup, ipc_check_ack0
<1>7. WakeTurnProtected'
  BY DEF IInv, WakeTurnProtected, ipc_check_ack0
<1>8. MaskedOnlyUntilWakeup'
  BY DEF IInv, MaskedOnlyUntilWakeup, ipc_check_ack0, m0Vars
<1>9. QED
  BY <1>1, <1>2, <1>3, <1>4, <1>5, <1>6, <1>7, <1>8 DEF IInv

LEMMA SleepStep ==
  ASSUME IInv, lpm_sleep
  PROVE  IInv'
<1>1. TypeOK'
  BY McuStateAssumption DEF IInv, TypeOK, lpm_sleep
<1>2. SlotKept'
  BY DEF SlotKept, Running, lpm_sleep
<1>3. HibernateLast'
  <2>1. cmdFifo' = << >> /\ toCore' = << >>
    BY DEF IInv, NothingWaits, PlacesAgree, lpm_sleep
  <2>2. QED
    BY <2>1, NothingUnderwayNext
<1>4. StateTells' /\ PlacesAgree'
  BY DEF IInv, StateTells, PlacesAgree, lpm_sleep
<1>5. NothingWaits'
  BY DEF IInv, NothingWaits, PlacesAgree, lpm_sleep
<1>6. RoomForWakeup'
  BY DEF RoomForWakeup, lpm_sleep
<1>7. WakeTurnProtected'
  BY DEF IInv, WakeTurnProtected, lpm_sleep
<1>8. MaskedOnlyUntilWakeup'
  BY DEF MaskedOnlyUntilWakeup, lpm_sleep
<1>9. QED
  BY <1>1, <1>2, <1>3, <1>4, <1>5, <1>6, <1>7, <1>8 DEF IInv

LEMMA WakeStep ==
  ASSUME IInv, CoreWake
  PROVE  IInv'
<1>1. TypeOK'
  BY McuStateAssumption DEF IInv, TypeOK, Message, CoreWake
<1>2. SlotKept'
  BY McuStateAssumption DEF IInv, SlotKept, NothingWaits, CoreWake
<1>3. HibernateLast'
  <2>1. cmdFifo' = << >> /\ toCore' = << >>
    BY DEF IInv, NothingWaits, CoreWake
  <2>2. QED
    BY <2>1, NothingUnderwayNext
<1>4. StateTells' /\ PlacesAgree'
  BY DEF StateTells, PlacesAgree, CoreWake
<1>5. NothingWaits'
  BY DEF NothingWaits, CoreWake
<1>6. RoomForWakeup'
  BY DEF RoomForWakeup, CoreWake
<1>7. WakeTurnProtected'
  BY DEF WakeTurnProtected, CoreWake
<1>8. MaskedOnlyUntilWakeup'
  BY DEF MaskedOnlyUntilWakeup, CoreWake
<1>9. QED
  BY <1>1, <1>2, <1>3, <1>4, <1>5, <1>6, <1>7, <1>8 DEF IInv

LEMMA HibernateStep ==
  ASSUME IInv, lpm_hibernate
  PROVE  IInv'
<1>1. TypeOK'
  BY McuStateAssumption DEF IInv, TypeOK, lpm_hibernate
<1>2. SlotKept'
  BY DEF SlotKept, Running, lpm_hibernate
<1>3. HibernateLast'
  <2>1. cmdFifo' = << >> /\ toCore' = << >>
    BY DEF IInv, NothingWaits, lpm_hibernate
  <2>2. QED
    BY <2>1, NothingUnderwayNext
<1>4. StateTells' /\ PlacesAgree'
  BY DEF StateTells, PlacesAgree, lpm_hibernate
<1>5. NothingWaits'
  BY DEF IInv, NothingWaits, lpm_hibernate
<1>6. RoomForWakeup'
  BY DEF RoomForWakeup, lpm_hibernate
<1>7. WakeTurnProtected'
  BY DEF WakeTurnProtected, lpm_hibernate
<1>8. MaskedOnlyUntilWakeup'
  BY DEF MaskedOnlyUntilWakeup, lpm_hibernate
<1>9. QED
  BY <1>1, <1>2, <1>3, <1>4, <1>5, <1>6, <1>7, <1>8 DEF IInv

LEMMA BootStep ==
  ASSUME IInv, ColdBoot
  PROVE  IInv'
<1>1. TypeOK'
  BY McuStateAssumption DEF IInv, TypeOK, Message, ColdBoot
<1>2. SlotKept'
  BY McuStateAssumption DEF IInv, SlotKept, NothingWaits, ColdBoot
<1>3. HibernateLast'
  <2>1. cmdFifo' = << >> /\ toCore' = << >>
    BY DEF IInv, NothingWaits, ColdBoot
  <2>2. QED
    BY <2>1, NothingUnderwayNext
<1>4. StateTells' /\ PlacesAgree'
  BY DEF StateTells, PlacesAgree, ColdBoot
<1>5. NothingWaits'
  BY DEF NothingWaits, ColdBoot
<1>6. RoomForWakeup'
  BY DEF RoomForWakeup, ColdBoot
<1>7. WakeTurnProtected'
  BY DEF WakeTurnProtected, ColdBoot
<1>8. MaskedOnlyUntilWakeup'
  BY DEF IInv, PlacesAgree, MaskedOnlyUntilWakeup, ColdBoot
<1>9. QED
  BY <1>1, <1>2, <1>3, <1>4, <1>5, <1>6, <1>7, <1>8 DEF IInv
-----------------------------------------------------------------------------
(* The refinement. *)

\* The core has not given up the power.
Up == core \notin {"asleep", "hibAck", "hibernated"}

Mapped == [Service!Next]_(Service!vars)

\* A step on what is not shared with the service is none of its steps.
LEMMA Stutters ==
  ASSUME Up, Up', Underway' = Underway, toM0' = toM0
  PROVE  Mapped
BY DEF Mapped, Up, Service!vars

\* Whoever sends is up.
LEMMA RunningIsUp ==
  ASSUME IInv, m0 \notin {"pwroff", "dead", "off"}
  PROVE  Up
BY DEF IInv, PlacesAgree, Up

LEMMA TxMaps ==
  ASSUME NEW c \in Command, IInv, ipcTx(c)
  PROVE  Mapped
<1>1. Up /\ core' = core /\ toM0' = toM0
  BY RunningIsUp, TxFacts DEF ipcTx, coreVars
<1>2. Service!Send(c)
  BY <1>1, TxFacts DEF Up, Service!Send
<1> QED BY <1>2, TxFacts DEF Mapped, Service!Next

LEMMA PwroffSendMaps ==
  ASSUME IInv, PwroffSend
  PROVE  Mapped
<1>1. Up /\ core' = core /\ toM0' = toM0
  BY RunningIsUp, PwroffSendFacts DEF PwroffSend, coreVars
<1>2. Service!Send("hibernate")
  BY <1>1, PwroffSendFacts DEF Up, Service!Send
<1> QED BY <1>2, PwroffSendFacts DEF Mapped, Service!Next

LEMMA RxMaps ==
  ASSUME IInv, IPC_HandleRxPacket
  PROVE  Mapped
<1>1. Up /\ core' = core /\ Underway' = Underway
  BY RunningIsUp DEF IPC_HandleRxPacket, coreVars, Underway
<1>2. CASE toM0 = << >>
  BY <1>1, <1>2, Stutters DEF IPC_HandleRxPacket, Up
<1>3. CASE toM0 # << >>
  <2>1. Service!Handle
    BY <1>1, <1>3 DEF IPC_HandleRxPacket, Up, Service!Handle
  <2> QED BY <2>1 DEF Mapped, Service!Next
<1> QED BY <1>2, <1>3

\* Hibernation takes the last command; the chip is off for the service from here.
LEMMA ExecuteMaps ==
  ASSUME IInv, CoreExecute
  PROVE  Mapped
<1>1. Up /\ toM0' = toM0 /\ toCore' = toCore
  BY DEF CoreExecute, Up
<1>2. CASE Head(cmdFifo) = "hibernate"
  <2>1. Underway = << "hibernate" >>
    BY <1>2, ExecuteFacts, EmptySeq, LenProperties
  <2>2. Underway' = << >>
    <3>1. cmdFifo' = << >> /\ toCore' = << >>
      BY <1>1, <1>2, ExecuteFacts
    <3>2. << >> \o << >> = << >>
      BY EmptySeq, ConcatEmptySeq
    <3> QED BY <3>1, <3>2 DEF Underway
  <2>3. Service!Hibernate
    BY <1>1, <1>2, <2>1, <2>2 DEF CoreExecute, Up, Service!Hibernate
  <2> QED BY <2>3 DEF Mapped, Service!Next
<1>3. CASE Head(cmdFifo) # "hibernate"
  <2>1. Up' /\ Head(Underway) # "hibernate"
    BY <1>1, <1>3, ExecuteFacts DEF CoreExecute, Up
  <2>2. Service!Execute
    BY <1>1, <2>1, ExecuteFacts DEF Up, Service!Execute
  <2> QED BY <2>2 DEF Mapped, Service!Next
<1> QED BY <1>2, <1>3

\* An event is sent or, when the ring is full, lost before it counts as sent.
LEMMA SentMaps ==
  ASSUME NEW e \in Message, Up, Up', Underway' = Underway, toM0' = Sent(toM0, e)
  PROVE  Mapped
<1>1. CASE Len(toM0) < MaxRing
  <2>1. Service!Notify(e)
    BY <1>1 DEF Up, Sent, Service!Notify
  <2> QED BY <2>1 DEF Mapped, Service!Next
<1>2. CASE ~ (Len(toM0) < MaxRing)
  BY <1>2, Stutters DEF Sent
<1> QED BY <1>1, <1>2

LEMMA SleepMaps ==
  ASSUME IInv, lpm_sleep
  PROVE  Mapped
<1>1. cmdFifo = << >> /\ toCore = << >> /\ toM0 = << >>
  BY DEF IInv, NothingWaits, PlacesAgree, lpm_sleep
<1>2. Underway = << >>
  BY <1>1, NothingUnderway
<1>3. Underway' = Underway /\ toM0' = toM0
  BY DEF lpm_sleep, Underway
<1>4. Service!Sleep
  BY <1>1, <1>2, <1>3 DEF lpm_sleep, Service!Sleep
<1> QED BY <1>4 DEF Mapped, Service!Next

LEMMA WakeMaps ==
  ASSUME IInv, CoreWake
  PROVE  Mapped
<1>1. cmdFifo = << >> /\ toCore = << >>
  BY DEF IInv, NothingWaits, CoreWake
<1>2. Underway' = Underway
  BY <1>1 DEF CoreWake, Underway
<1>3. Service!Wake
  BY <1>2 DEF CoreWake, Service!Wake
<1> QED BY <1>3 DEF Mapped, Service!Next

LEMMA HibernateMaps ==
  ASSUME IInv, lpm_hibernate
  PROVE  Mapped
<1>1. cmdFifo = << >> /\ cmdFifo' = << >> /\ toCore' = toCore
  BY DEF IInv, NothingWaits, lpm_hibernate
<1>2. Underway' = Underway
  BY <1>1 DEF Underway
<1> QED BY <1>2 DEF lpm_hibernate, Mapped, Service!vars

LEMMA BootMaps ==
  ASSUME IInv, ColdBoot
  PROVE  Mapped
<1>1. cmdFifo = << >> /\ toCore = << >>
  BY DEF IInv, NothingWaits, ColdBoot
<1>2. Underway' = Underway
  BY <1>1 DEF ColdBoot, Underway
<1>3. Service!ColdBoot
  BY <1>2 DEF ColdBoot, Service!ColdBoot
<1> QED BY <1>3 DEF Mapped, Service!Next

\* The steps of the M0 that neither send nor receive.
LEMMA M0Stutters ==
  ASSUME IInv,
         \/ M0Poll \/ CriticalSection \/ IPC_TxControlCmd \/ Bt_SndCmdPwroff
         \/ PwroffLoop \/ M0TurnEnd \/ LmpCase
         \/ \E l \in Lock : Lpm_LockLpm(l) \/ Lpm_unLockLpm(l) \/ GoesDown(l)
  PROVE  Mapped
<1>1. core' = core /\ cmdFifo' = cmdFifo /\ toCore' = toCore /\ toM0' = toM0
  BY DEF M0Poll, CriticalSection, IPC_TxControlCmd, Bt_SndCmdPwroff, PwroffLoop,
         M0TurnEnd, LmpCase, Lpm_LockLpm, Lpm_unLockLpm, GoesDown, Works, coreVars
<1>2. Underway' = Underway
  BY <1>1 DEF Underway
<1> QED BY <1>1, <1>2 DEF Mapped, Service!vars

\* And those of the core.
LEMMA CoreStutters ==
  ASSUME IInv,
         \/ CoreIdle \/ p_check_m0_state \/ ipc_rx_process \/ CoreStaysUp
         \/ p_lpm_check_wake_lock \/ AskM0 \/ ipc_check_ack0
  PROVE  Mapped
<1>1. Underway' = Underway
  <2>1. CASE ipc_rx_process
    BY <2>1, CoreRxFacts
  <2>2. CASE ~ ipc_rx_process
    BY <2>2 DEF CoreIdle, p_check_m0_state, CoreStaysUp, p_lpm_check_wake_lock,
                AskM0, ipc_check_ack0, Underway
  <2> QED BY <2>1, <2>2
<1>2. Up /\ Up' /\ toM0' = toM0
  BY DEF CoreIdle, p_check_m0_state, CoreStaysUp, p_lpm_check_wake_lock, AskM0,
         ipc_check_ack0, ipc_rx_process, Up
<1> QED BY <1>1, <1>2, Stutters
-----------------------------------------------------------------------------
(* The theorems. *)

LEMMA InitIInv == Init => IInv
<1> SUFFICES ASSUME Init PROVE IInv
  OBVIOUS
<1>1. /\ << >> \in Seq(Packet) /\ Len(<< >>) = 0
      /\ << "reset" >> \in Seq(Message) /\ Len(<< "reset" >>) = 1
  BY EmptySeq DEF Message
<1>2. TypeOK /\ SlotKept
  BY <1>1, McuStateAssumption DEF Init, TypeOK, SlotKept, Running
<1>3. HibernateLast
  BY NothingUnderway DEF Init, HibernateLast
<1>4. StateTells /\ PlacesAgree /\ NothingWaits /\ RoomForWakeup
  BY DEF Init, StateTells, PlacesAgree, NothingWaits, RoomForWakeup
<1>5. WakeTurnProtected /\ MaskedOnlyUntilWakeup
  BY DEF Init, WakeTurnProtected, MaskedOnlyUntilWakeup
<1> QED BY <1>2, <1>3, <1>4, <1>5 DEF IInv

LEMMA M0Preserves ==
  ASSUME IInv, M0Next
  PROVE  IInv' /\ Mapped
<1>1. CASE M0Poll \/ CriticalSection \/ IPC_TxControlCmd
  BY <1>1, M0PollStep, CriticalStep, ControlStep, M0Stutters
<1>2. CASE Bt_SndCmdPwroff \/ PwroffLoop
  BY <1>2, PwroffStep, PwroffLoopStep, M0Stutters
<1>3. CASE M0TurnEnd \/ LmpCase
  BY <1>3, TurnEndStep, LmpCaseStep, M0Stutters
<1>4. CASE \E l \in Lock : Lpm_LockLpm(l) \/ Lpm_unLockLpm(l)
  BY <1>4, LockStep, UnlockStep, M0Stutters
<1>5. CASE IPC_HandleRxPacket
  BY <1>5, RxStep, RxMaps
<1>6. CASE \E c \in Command : ipcTx(c)
  BY <1>6, TxStep, TxMaps
<1>7. CASE PwroffSend
  BY <1>7, PwroffSendStep, PwroffSendMaps
<1>8. CASE \E l \in Lock : Bt_SndCmdWaitPwroff(l) \/ Bat_CbChargerIn(l)
  <2>1. PICK l \in Lock : GoesDown(l)
    BY <1>8 DEF Bt_SndCmdWaitPwroff, Bat_CbChargerIn
  <2> QED BY <2>1, DownStep, M0Stutters
<1> QED BY <1>1, <1>2, <1>3, <1>4, <1>5, <1>6, <1>7, <1>8 DEF M0Next

LEMMA CorePreserves ==
  ASSUME IInv, CoreNext
  PROVE  IInv' /\ Mapped
<1>1. CASE CoreIdle \/ p_check_m0_state \/ ipc_rx_process \/ CoreStaysUp
  BY <1>1, IdleStep, CheckStateStep, CoreRxStep, StaysUpStep, CoreStutters
<1>2. CASE p_lpm_check_wake_lock \/ AskM0 \/ ipc_check_ack0
  BY <1>2, WakeLockStep, AskStep, AckStep, CoreStutters
<1>3. CASE CoreExecute
  BY <1>3, ExecuteStep, ExecuteMaps
<1>4. CASE NotifyWakeup
  <2>1. Up /\ Up' /\ Underway' = Underway /\ toM0' = Sent(toM0, "wakeup")
    BY <1>4 DEF NotifyWakeup, Up, Underway
  <2>2. "wakeup" \in Message
    BY DEF Message
  <2> QED BY <1>4, <2>1, <2>2, NotifyStep, SentMaps
<1>5. CASE \E e \in Event : CoreEvent(e)
  <2>1. PICK e \in Event : CoreEvent(e)
    BY <1>5
  <2>2. e \in Message /\ Up /\ Up' /\ Underway' = Underway /\ toM0' = Sent(toM0, e)
    BY <2>1 DEF CoreEvent, Up, Underway, Message
  <2> QED BY <2>1, <2>2, EventStep, SentMaps
<1>6. CASE lpm_sleep \/ CoreWake
  BY <1>6, SleepStep, WakeStep, SleepMaps, WakeMaps
<1>7. CASE lpm_hibernate \/ ColdBoot
  BY <1>7, HibernateStep, BootStep, HibernateMaps, BootMaps
<1> QED BY <1>1, <1>2, <1>3, <1>4, <1>5, <1>6, <1>7 DEF CoreNext, CoreTurn

LEMMA NextIInv == IInv /\ [Next]_vars => IInv' /\ Mapped
<1> SUFFICES ASSUME IInv, [Next]_vars PROVE IInv' /\ Mapped
  OBVIOUS
<1>1. CASE Next
  BY <1>1, M0Preserves, CorePreserves DEF Next
<1>2. CASE UNCHANGED vars
  <2>1. /\ mcuState' = mcuState /\ lpmFlag' = lpmFlag /\ toCore' = toCore
        /\ toM0' = toM0 /\ m0' = m0 /\ irq' = irq /\ down' = down /\ ops' = ops
        /\ cmdFifo' = cmdFifo /\ core' = core /\ evts' = evts
    BY <1>2 DEF vars, m0Vars, coreVars
  <2>2. Underway' = Underway
    BY <2>1 DEF Underway
  <2>3. Mapped
    BY <2>1, <2>2 DEF Mapped, Service!vars
  <2>4. IInv'
    BY <2>1, <2>2 DEF IInv, TypeOK, SlotKept, Running, HibernateLast, StateTells,
       PlacesAgree, NothingWaits, RoomForWakeup, WakeTurnProtected,
       MaskedOnlyUntilWakeup
  <2> QED BY <2>3, <2>4
<1> QED BY <1>1, <1>2

\* The inductive invariant holds in every reachable state.
THEOREM InductiveInvariant == Spec => []IInv
BY InitIInv, NextIInv, PTL DEF Spec

\* The types hold, and the command queue of the core never overflows.
THEOREM TypeCorrect == Spec => []TypeOK
<1>1. IInv => TypeOK
  BY DEF IInv
<1> QED BY <1>1, InductiveInvariant, PTL

\* After a wake-up the core does not ask before main() has had a whole turn.
THEOREM FirstTurnProtected == Spec => []WakeTurnProtected
<1>1. IInv => WakeTurnProtected
  BY DEF IInv
<1> QED BY <1>1, InductiveInvariant, PTL

\* A main() that runs with interrupts disabled, and is neither going off nor
\* charging, has a wakeup event coming.
THEOREM InterruptsComeBack == Spec => []MaskedOnlyUntilWakeup
<1>1. IInv => MaskedOnlyUntilWakeup
  BY DEF IInv
<1> QED BY <1>1, InductiveInvariant, PTL

\* The M0 is parked whenever its power goes.
THEOREM PowerCutsWhenParked == Spec => PowerCutWhenParked
<1>1. IInv /\ [Next]_vars => [m0 # "off" /\ m0' = "off" => Parked]_vars
  <2> SUFFICES ASSUME IInv, Next, m0 # "off", m0' = "off" PROVE Parked
    OBVIOUS
  <2>1. lpm_sleep \/ lpm_hibernate
    BY DEF Next, M0Next, CoreNext, CoreTurn, M0Poll, IPC_HandleRxPacket, Lpm_LockLpm,
       Lpm_unLockLpm, Bt_SndCmdWaitPwroff, Bat_CbChargerIn, GoesDown,
       CriticalSection, IPC_TxControlCmd, ipcTx, Bt_SndCmdPwroff,
       PwroffSend, PwroffLoop, M0TurnEnd, LmpCase, CoreExecute, CoreEvent, CoreIdle,
       p_check_m0_state, NotifyWakeup, ipc_rx_process, CoreStaysUp,
       p_lpm_check_wake_lock, AskM0, ipc_check_ack0, CoreWake, ColdBoot, m0Vars
  <2> QED BY <2>1 DEF lpm_sleep, lpm_hibernate, IInv, StateTells, PlacesAgree, Parked
<1> QED BY <1>1, InductiveInvariant, PTL DEF Spec, PowerCutWhenParked

\* Sleep and hibernation implement the service: nothing sent is lost by either.
THEOREM RefinesSleepService == Spec => ImplementsSleepService
<1>1. Init => Service!Init
  BY NothingUnderway DEF Init, Service!Init
<1>2. IInv /\ [Next]_vars => [Service!Next]_(Service!vars)
  BY NextIInv DEF Mapped
<1> QED BY <1>1, <1>2, InductiveInvariant, PTL
        DEF Spec, ImplementsSleepService, Service!Spec
=============================================================================
