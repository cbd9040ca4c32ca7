------------------------------ MODULE IpcRing ------------------------------
(***************************************************************************)
(* One direction of the IPC between the M0 and the Bluetooth core          *)
(* (drivers/bt/yc11xx_bt.c): a byte ring in shared memory with a write and *)
(* a read pointer, written by ipcTx and read by IPC_HandleRxPacket.        *)
(*                                                                         *)
(* The two processors run concurrently.  Every byte copied, and every      *)
(* pointer published, is a step of its own.  In the direction to the core  *)
(* the writer is the code modelled here, and the reader is the core, which *)
(* publishes its pointer once a packet (ipc_rx_block_read_end of           *)
(* patch/program.lis) where the reader modelled here does so twice; in the *)
(* other direction it is the reader that is the code modelled here, and    *)
(* the core as the writer makes sure of room.                              *)
(*                                                                         *)
(* A byte is modelled by what it stands for: << p, i >> is byte i of       *)
(* packet p.  Byte 1 is the type and byte 2 the length, so a reader that   *)
(* finds << p, 1 >> where it expects a header knows PktLen[p]; one that    *)
(* finds anything else takes payload for a type and a length.              *)
(*                                                                         *)
(* IPC_WaitBufferEnough is there for senders to call, and no sender of the *)
(* firmware calls it: IPC_TxCommon goes straight to ipcTx.  CallerWaits    *)
(* tells the two protocols apart.  TRUE is the one the ring is safe under: *)
(* a sender that waits for room, or one whose packets always fit because   *)
(* the reader keeps up.  FALSE is the sender of IPC_TxCommon as it stands. *)
(*                                                                         *)
(* A pointer is read and published in one step, although it is three bytes *)
(* wide and HR_REG_24BIT reads them one by one.                            *)
(***************************************************************************)
EXTENDS Naturals, Sequences

CONSTANTS Size,         \* bytes in the ring: IPC_TX_END - IPC_TX_HEAD
          Packet,       \* the packets that are sent
          PktLen,       \* their lengths, two header bytes included
          NoPkt,        \* no packet
          CallerWaits   \* TRUE when a sender calls IPC_WaitBufferEnough first

ASSUME IpcRingAssumption ==
  /\ Size \in Nat \ {0}
  /\ PktLen \in [Packet -> Nat]
  /\ \A p \in Packet : PktLen[p] >= 2 /\ PktLen[p] < Size
  /\ NoPkt \notin Packet
  /\ CallerWaits \in BOOLEAN

Slots == 0 .. Size - 1
Cell == Packet \X Nat

VARIABLES buf,          \* the ring
          wptr, rptr,   \* the two published pointers, as slot numbers
          want,         \* packet whose sender is about to call, or is waiting
          txPkt,        \* packet being copied by ipcTx
          txDone,       \* bytes of it already in the ring
          txPtr,        \* TxPtr, the writer's private copy of the write pointer
          rxPc,         \* where IPC_HandleRxPacket is
          rxLeft,       \* bytes the current ipcRx call still has to copy
          rxPtr,        \* RxPtr, the reader's private copy of the read pointer
          rxBuf,        \* ipcReadBuff
          delivered     \* what the last callback of ipcCbArray received

txVars == << want, txPkt, txDone, txPtr >>
rxVars == << rxPc, rxLeft, rxPtr, rxBuf, delivered >>
vars == << buf, wptr, rptr, txVars, rxVars >>

\* The pointer after ptr: "if (++TxPtr >= IPC_TX_END) TxPtr = IPC_TX_HEAD".
Following(ptr) == IF ptr + 1 >= Size THEN 0 ELSE ptr + 1

\* The pointer n steps after ptr, for n up to Size.
Ahead(ptr, n) == IF ptr + n >= Size THEN ptr + n - Size ELSE ptr + n

\* Faulty variant for mutation: only the end of the packet is compared.
EndIsFree(n) == Ahead(wptr, n) # rptr

\* Advancing the write pointer over n bytes never meets the read pointer.
IPC_TxBufferIsEnough(n) == \A i \in 1 .. n : Ahead(wptr, i) # rptr

IPC_IsRxBuffEmpty == rptr = wptr

Init ==
  /\ buf \in [Slots -> {<< NoPkt, 0 >>}]
  /\ wptr = 0 /\ rptr = 0
  /\ want = NoPkt /\ txPkt = NoPkt /\ txDone = 0 /\ txPtr = 0
  /\ rxPc = "idle" /\ rxLeft = 0 /\ rxPtr = 0 /\ rxBuf = << >>
  /\ delivered = << >>
-----------------------------------------------------------------------------
(* The writer. *)

\* Some part of the firmware has a packet to send.
Request(p) ==
  /\ want = NoPkt /\ txPkt = NoPkt
  /\ want' = p
  /\ UNCHANGED << buf, wptr, rptr, txPkt, txDone, txPtr, rxVars >>

\* IPC_TxCommon and IPC_TxPacket return at once when there is no payload.
TxRefuse ==
  /\ want # NoPkt
  /\ PktLen[want] = 2
  /\ want' = NoPkt
  /\ UNCHANGED << buf, wptr, rptr, txPkt, txDone, txPtr, rxVars >>

\* The call enters ipcTx, which reads the write pointer.  A sender that waits
\* spins in IPC_WaitBufferEnough until the ring has room for the whole packet.
TxCall ==
  /\ want # NoPkt
  /\ PktLen[want] > 2
  /\ CallerWaits => IPC_TxBufferIsEnough(PktLen[want])
  /\ txPkt' = want
  /\ want' = NoPkt
  /\ txDone' = 0
  /\ txPtr' = wptr
  /\ UNCHANGED << buf, wptr, rptr, rxVars >>

\* ipcTx copies one byte.
TxByte ==
  /\ txPkt # NoPkt
  /\ txDone < PktLen[txPkt]
  /\ buf' = [buf EXCEPT ![txPtr] = << txPkt, txDone + 1 >>]
  /\ txPtr' = Following(txPtr)
  /\ txDone' = txDone + 1
  /\ UNCHANGED << wptr, rptr, want, txPkt, rxVars >>

\* ipcTx publishes the write pointer and returns.
TxPublish ==
  /\ txPkt # NoPkt
  /\ txDone = PktLen[txPkt]
  /\ wptr' = txPtr
  /\ txPkt' = NoPkt
  /\ UNCHANGED << buf, rptr, want, txDone, txPtr, rxVars >>
-----------------------------------------------------------------------------
(* The reader. *)

\* IPC_HandleRxPacket finds the ring not empty and calls ipcRx for the header.
RxPoll ==
  /\ rxPc = "idle"
  /\ ~ IPC_IsRxBuffEmpty
  /\ rxPc' = "header"
  /\ rxLeft' = 2
  /\ rxPtr' = rptr
  /\ UNCHANGED << buf, wptr, rptr, txVars, rxBuf, delivered >>

\* ipcRx copies one byte.
RxByte ==
  /\ rxLeft > 0
  /\ rxBuf' = Append(rxBuf, buf[rxPtr])
  /\ rxPtr' = Following(rxPtr)
  /\ rxLeft' = rxLeft - 1
  /\ UNCHANGED << buf, wptr, rptr, txVars, rxPc, delivered >>

\* The two bytes read are the type and the length of one packet.
IsHeader(s) == s[1] = << s[1][1], 1 >> /\ s[2] = << s[1][1], 2 >>

\* ipcRx publishes the read pointer; the type is looked at and ipcRx is called
\* again for as many bytes as the length says.  Bytes that are not a header are
\* taken for one all the same: the loop hangs or dispatches garbage, and nothing
\* is said of what follows.
RxHeaderDone ==
  /\ rxPc = "header" /\ rxLeft = 0
  /\ rptr' = rxPtr
  /\ \/ /\ IsHeader(rxBuf)
        /\ rxPc' = "payload"
        /\ rxLeft' = PktLen[rxBuf[1][1]] - 2
     \/ /\ ~ IsHeader(rxBuf)
        /\ rxPc' = "garbage"
        /\ UNCHANGED rxLeft
  /\ UNCHANGED << buf, wptr, txVars, rxPtr, rxBuf, delivered >>

\* Faulty variant for mutation: the read pointer is not published after the payload.
DispatchUnpublished ==
  /\ rxPc = "payload" /\ rxLeft = 0
  /\ delivered' = rxBuf
  /\ rxBuf' = << >>
  /\ rxPc' = "idle"
  /\ UNCHANGED << buf, wptr, rptr, txVars, rxLeft, rxPtr >>

\* ipcRx publishes the read pointer and the callback gets the packet.
RxDispatch ==
  /\ rxPc = "payload" /\ rxLeft = 0
  /\ rptr' = rxPtr
  /\ delivered' = rxBuf
  /\ rxBuf' = << >>
  /\ rxPc' = "idle"
  /\ UNCHANGED << buf, wptr, txVars, rxLeft, rxPtr >>
-----------------------------------------------------------------------------
Tx == TxRefuse \/ TxCall \/ TxByte \/ TxPublish
Rx == RxPoll \/ RxByte \/ RxHeaderDone \/ RxDispatch

Next ==
  \/ \E p \in Packet : Request(p)
  \/ TxRefuse \/ TxCall \/ TxByte \/ TxPublish
  \/ RxPoll \/ RxByte \/ RxHeaderDone \/ RxDispatch

\* Both processors keep running; nobody is obliged to request a transmission.
Spec == Init /\ [][Next]_vars /\ WF_vars(Tx) /\ WF_vars(Rx)
-----------------------------------------------------------------------------
TypeOK ==
  /\ buf \in [Slots -> Cell \cup {<< NoPkt, 0 >>}]
  /\ wptr \in Slots /\ rptr \in Slots
  /\ want \in Packet \cup {NoPkt}
  /\ txPkt \in Packet \cup {NoPkt}
  /\ txDone \in 0 .. Size /\ txPtr \in Slots
  /\ rxPc \in {"idle", "header", "payload", "garbage"}
  /\ rxLeft \in 0 .. Size /\ rxPtr \in Slots
  /\ rxBuf \in Seq(Cell \cup {<< NoPkt, 0 >>})
  /\ delivered \in Seq(Cell \cup {<< NoPkt, 0 >>})

\* Number of steps from pointer a forward to pointer b.
Distance(a, b) == IF b >= a THEN b - a ELSE b - a + Size

\* The slots holding bytes the reader has still to copy.
Unread == {Ahead(rxPtr, i) : i \in 0 .. Distance(rxPtr, wptr) - 1}

\* The writer never overwrites a byte it has published and the reader has not
\* yet copied, wherever both are in their loops.
UnreadNeverOverwritten == [][\A s \in Unread : buf'[s] = buf[s]]_vars

\* The reader stays aligned with packet boundaries: it never takes payload for
\* a header, although it reads the length of a packet from the ring itself.
ReaderInStep == rxPc # "garbage"

\* What is on its way: the bytes already copied out of the ring, followed by
\* those between the reader's position and the published write pointer.
Chan == rxBuf \o [i \in 1 .. Distance(rxPtr, wptr) |-> buf[Ahead(rxPtr, i - 1)]]

Channel == INSTANCE IpcChannel WITH chan <- Chan
ImplementsChannel == Channel!Spec

\* ipc.h on IPC_TxBleData and its siblings, all of them IPC_TxCommon: "Cpu will
\* block when TxBuffer is not Empty", that is, no call enters ipcTx while a byte
\* sent earlier is still unread.
TxBlocksWhileNotEmpty == [][TxCall => wptr = rptr]_vars

\* A packet some sender wants to transmit reaches the other side's callback, even
\* when the sender first has to wait for room.
EventuallyDelivered ==
  \A p \in Packet : PktLen[p] > 2 => (want = p ~> delivered = Channel!Cells(p))
=============================================================================
