----------------------------- MODULE Rings_proofs -----------------------------
(***************************************************************************)
(* Proofs about the two rings of the firmware.                             *)
(*                                                                         *)
(* YcQueue, the ring of elements: for every array length, every set of     *)
(* elements and every width of current_queue_len that exceeds the array    *)
(* length.                                                                 *)
(*                                                                         *)
(* IpcRing, the ring of bytes shared with the Bluetooth core, when every   *)
(* sender waits for room: for every ring size and every set of packets     *)
(* that fit in the ring.                                                   *)
(***************************************************************************)
EXTENDS YcQueue, IpcRing, SequenceTheorems, TLAPS

-----------------------------------------------------------------------------
(* The ring of elements. *)

\* Position i slots after slot p on the ring, for 0 <= i <= ArrayLen.
SlotAfter(p, i) == IF p + i < ArrayLen THEN p + i ELSE p + i - ArrayLen

\* Where the pointer of the last Delete_Queue stands: it is the free slot that
\* the write cursor reaches after slack more insertions.
HeldInv ==
  /\ slack + current_queue_len <= ArrayLen - 1 \/ (held = NoSlot /\ slack = 0)
  /\ held # NoSlot => /\ held = SlotAfter(pWrite, slack)
                      /\ mem[held] = heldValue

QueueIInv == QueueTypeOK /\ CursorsAgree /\ HeldInv

USE YcQueueAssumption DEF QueueSlots, NoSlot

-----------------------------------------------------------------------------
LEMMA InitQueueIInv == QueueInit => QueueIInv
<1> SUFFICES ASSUME QueueInit PROVE QueueIInv
    OBVIOUS
<1>1. QueueTypeOK
      BY DEF QueueInit, queue_init, QueueTypeOK
<1>2. CursorsAgree /\ HeldInv
      BY DEF QueueInit, queue_init, CursorsAgree, HeldInv
<1> QED BY <1>1, <1>2 DEF QueueIInv

LEMMA ClearIInv == QueueIInv /\ queue_clear => QueueIInv'
BY DEF QueueIInv, QueueTypeOK, CursorsAgree, HeldInv, queue_clear

\* What taking one more slot does to the cursors and to the held pointer.
LEMMA TakeSlotCursors ==
  ASSUME QueueTypeOK, CursorsAgree, HeldInv, ~ queue_is_full, TakeSlot, reserved = NoSlot
  PROVE  /\ pRead' = pRead /\ pWrite' \in QueueSlots
         /\ current_queue_len' = current_queue_len + 1
         /\ current_queue_len' \in 1 .. ArrayLen
         /\ pWrite = SlotAfter(pRead, current_queue_len)
         /\ pWrite' = SlotAfter(pRead', current_queue_len')
         /\ slack' \in 0 .. ArrayLen - 1
         /\ slack' + current_queue_len' <= ArrayLen - 1 \/ (held' = NoSlot /\ slack' = 0)
         /\ held' \in QueueSlots \cup {NoSlot}
         /\ held' # NoSlot => /\ held' = held
                              /\ held' = SlotAfter(pWrite', slack')
                              /\ held' # pWrite
BY DEF QueueTypeOK, CursorsAgree, HeldInv, TakeSlot, queue_is_full, LenPlusOne, NextSlot, SlotAfter

LEMMA InsertIInv ==
  ASSUME QueueIInv, NEW e \in Element, Insert_Queue(e)
  PROVE  QueueIInv'
<1>1. QueueTypeOK /\ CursorsAgree /\ HeldInv /\ reserved = NoSlot /\ ~ queue_is_full /\ TakeSlot
      BY DEF QueueIInv, Insert_Queue
<1>2. /\ mem' = [mem EXCEPT ![pWrite] = e]
      /\ heldValue' = heldValue /\ reserved' = NoSlot
      BY <1>1 DEF Insert_Queue, TakeSlot
<1>3. QueueTypeOK'
      BY <1>1, <1>2, TakeSlotCursors DEF QueueTypeOK
<1>4. CursorsAgree'
      BY <1>1, <1>2, TakeSlotCursors DEF CursorsAgree, SlotAfter
<1>5. HeldInv'
      BY <1>1, <1>2, TakeSlotCursors DEF HeldInv, QueueTypeOK
<1> QED BY <1>3, <1>4, <1>5 DEF QueueIInv

LEMMA PreinsertIInv == QueueIInv /\ preinsert_Queue => QueueIInv'
<1> SUFFICES ASSUME QueueIInv, preinsert_Queue PROVE QueueIInv'
    OBVIOUS
<1>1. QueueTypeOK /\ CursorsAgree /\ HeldInv /\ reserved = NoSlot /\ ~ queue_is_full /\ TakeSlot
      BY DEF QueueIInv, preinsert_Queue
<1>2. mem' = mem /\ heldValue' = heldValue /\ reserved' = pWrite
      BY <1>1 DEF preinsert_Queue, TakeSlot
<1>3. QueueTypeOK'
      BY <1>1, <1>2, TakeSlotCursors DEF QueueTypeOK
<1>4. CursorsAgree'
      BY <1>1, <1>2, TakeSlotCursors DEF QueueTypeOK, CursorsAgree, SlotAfter, SlotOf
<1>5. HeldInv'
      BY <1>1, <1>2, TakeSlotCursors DEF HeldInv, QueueTypeOK
<1> QED BY <1>3, <1>4, <1>5 DEF QueueIInv

LEMMA FillIInv ==
  ASSUME QueueIInv, NEW e \in Element, FillReserved(e)
  PROVE  QueueIInv'
<1>1. QueueTypeOK' /\ CursorsAgree'
      BY DEF QueueIInv, QueueTypeOK, CursorsAgree, FillReserved
<1>2. held # NoSlot => held # reserved
      BY DEF QueueIInv, QueueTypeOK, CursorsAgree, HeldInv, FillReserved, SlotAfter, SlotOf
<1>3. HeldInv'
      BY <1>2 DEF QueueIInv, QueueTypeOK, HeldInv, FillReserved, SlotAfter
<1> QED BY <1>1, <1>3 DEF QueueIInv

LEMMA DeleteIInv == QueueIInv /\ Delete_Queue => QueueIInv'
<1> SUFFICES ASSUME QueueIInv, Delete_Queue PROVE QueueIInv'
    OBVIOUS
<1>1. QueueTypeOK'
      BY DEF QueueIInv, QueueTypeOK, Delete_Queue, queue_is_empty, LenMinusOne, NextSlot
<1>2. CursorsAgree'
      BY DEF QueueIInv, QueueTypeOK, CursorsAgree, Delete_Queue, queue_is_empty, LenMinusOne, NextSlot
<1>3. HeldInv'
      BY DEF QueueIInv, QueueTypeOK, CursorsAgree, HeldInv, Delete_Queue, queue_is_empty, LenMinusOne, SlotAfter
<1> QED BY <1>1, <1>2, <1>3 DEF QueueIInv

\* The three cursors, the pointers handed to callers and the memory behind them
\* stay consistent through every operation.
THEOREM QueueInvariant == QueueSpec => []QueueIInv
<1>1. QueueIInv /\ [QueueNext]_queueVars => QueueIInv'
  <2> SUFFICES ASSUME QueueIInv, [QueueNext]_queueVars PROVE QueueIInv'
      OBVIOUS
  <2>1. CASE queue_clear
        BY <2>1, ClearIInv
  <2>2. ASSUME NEW e \in Element, Insert_Queue(e) PROVE QueueIInv'
        BY <2>2, InsertIInv
  <2>3. CASE preinsert_Queue
        BY <2>3, PreinsertIInv
  <2>4. ASSUME NEW e \in Element, FillReserved(e) PROVE QueueIInv'
        BY <2>4, FillIInv
  <2>5. CASE Delete_Queue
        BY <2>5, DeleteIInv
  <2>6. CASE UNCHANGED queueVars
        BY <2>6 DEF QueueIInv, QueueTypeOK, CursorsAgree, HeldInv, SlotAfter, SlotOf, queueVars
  <2> QED BY <2>1, <2>2, <2>3, <2>4, <2>5, <2>6 DEF QueueNext
<1> QED BY InitQueueIInv, <1>1, PTL DEF QueueSpec

\* Cursors never leave the array and the length never exceeds it.
THEOREM QueueTypeCorrect == QueueSpec => []QueueTypeOK
BY QueueInvariant, PTL DEF QueueIInv

\* pWrite, pRead and current_queue_len, updated separately, always agree.
THEOREM CursorsAlwaysAgree == QueueSpec => []CursorsAgree
BY QueueInvariant, PTL DEF QueueIInv

\* The element behind the pointer of Delete_Queue survives as long as stated.
THEOREM DeletedElementSurvives == QueueSpec => []DeletedElementReadable
<1>1. QueueIInv => DeletedElementReadable
      BY DEF QueueIInv, HeldInv, DeletedElementReadable
<1> QED BY <1>1, QueueInvariant, PTL

-----------------------------------------------------------------------------
(* The refinement of BoundedFifo. *)

ContentsInv ==
  /\ Committed \in 0 .. ArrayLen
  /\ \A i \in 1 .. Committed : SlotOf(i) \in QueueSlots
  /\ Contents \in Seq(Element)
  /\ Len(Contents) = Committed

LEMMA ContentsSeq == QueueIInv => ContentsInv
<1> SUFFICES ASSUME QueueTypeOK, CursorsAgree PROVE ContentsInv
    BY DEF QueueIInv
<1>1. Committed \in 0 .. ArrayLen
      BY DEF QueueTypeOK, CursorsAgree, Committed
<1>2. \A i \in 1 .. Committed : SlotOf(i) \in QueueSlots
      BY <1>1 DEF QueueTypeOK, SlotOf
<1>3. \A i \in 1 .. Committed : mem[SlotOf(i)] \in Element
      BY <1>2 DEF QueueTypeOK
<1>4. Contents \in [1 .. Committed -> Element]
      BY <1>3 DEF Contents
<1>5. Contents \in Seq(Element)
      BY <1>1, <1>4
<1>6. Len(Contents) = Committed
      BY <1>1, <1>4, <1>5, LenProperties
<1> QED BY <1>1, <1>2, <1>5, <1>6 DEF ContentsInv

LEMMA ContentsSeqNext == QueueIInv' => ContentsInv'
BY ContentsSeq, PTL

LEMMA InitRefines == QueueInit => Fifo!Init
<1> SUFFICES ASSUME QueueInit PROVE Contents = << >>
    BY DEF Fifo!Init
<1>1. Committed = 0
      BY DEF QueueInit, queue_init, Committed
<1>2. ContentsInv
      BY InitQueueIInv, ContentsSeq
<1> QED BY <1>1, <1>2, EmptySeq DEF ContentsInv

\* Insert_Queue, and the filling of a reserved slot, append one element: the
\* slot they write is the one after the last committed element.
LEMMA AppendRefines ==
  ASSUME QueueIInv, QueueIInv', NEW e \in Element,
         Committed < ArrayLen, Committed' = Committed + 1, pRead' = pRead,
         mem' = [mem EXCEPT ![SlotOf(Committed + 1)] = e]
  PROVE  Fifo!Put(e)
<1> DEFINE s == Contents
           t == Append(Contents, e)
<1>1. /\ s \in Seq(Element) /\ Len(s) = Committed /\ Committed \in 0 .. ArrayLen
      /\ \A i \in 1 .. Committed : SlotOf(i) \in QueueSlots
      BY ContentsSeq DEF ContentsInv
<1>2. /\ Contents' \in Seq(Element) /\ Len(Contents') = Committed + 1
      /\ \A i \in 1 .. Committed + 1 : SlotOf(i)' \in QueueSlots
      BY ContentsSeq, ContentsSeqNext DEF ContentsInv
<1>3. /\ t \in Seq(Element) /\ Len(t) = Committed + 1
      /\ \A i \in 1 .. Committed + 1 : t[i] = IF i <= Committed THEN s[i] ELSE e
      BY <1>1, AppendProperties
<1>4. \A i \in 1 .. Committed + 1 : Contents'[i] = t[i]
  <2> SUFFICES ASSUME NEW i \in 1 .. Committed + 1 PROVE Contents'[i] = t[i]
      OBVIOUS
  <2>1. SlotOf(i)' = SlotOf(i) /\ SlotOf(i) \in QueueSlots
        BY <1>2 DEF SlotOf
  <2>2. Contents'[i] = mem'[SlotOf(i)]
        BY <2>1 DEF Contents
  <2>3. CASE i = Committed + 1
    <3>1. mem'[SlotOf(i)] = e
          BY <2>1, <2>3 DEF QueueIInv, QueueTypeOK
    <3> QED BY <3>1, <2>2, <2>3, <1>1, <1>3
  <2>4. CASE i # Committed + 1
    <3>1. i \in 1 .. Committed /\ i <= Committed
          BY <2>4, <1>1
    <3>2. SlotOf(i) # SlotOf(Committed + 1)
          BY <3>1, <1>1 DEF SlotOf, QueueIInv, QueueTypeOK
    <3>3. mem'[SlotOf(i)] = mem[SlotOf(i)]
          BY <3>2, <2>1 DEF QueueIInv, QueueTypeOK
    <3>4. Contents[i] = mem[SlotOf(i)]
          BY <3>1 DEF Contents
    <3> QED BY <3>1, <3>3, <3>4, <2>2, <1>3
  <2> QED BY <2>3, <2>4
<1>5. Contents' = t
      BY <1>2, <1>3, <1>4, SeqEqual
<1> QED BY <1>1, <1>5 DEF Fifo!Put

LEMMA DeleteRefines ==
  ASSUME QueueIInv, QueueIInv', Delete_Queue
  PROVE  Fifo!Get
<1>1. /\ Contents \in Seq(Element) /\ Len(Contents) = Committed /\ Committed \in 0 .. ArrayLen
      /\ Contents' \in Seq(Element) /\ Len(Contents') = Committed'
      BY ContentsSeq, ContentsSeqNext DEF ContentsInv
<1>2. Committed > 0 /\ Committed' = Committed - 1
      BY DEF Delete_Queue, Committed, queue_is_empty, LenMinusOne, QueueIInv, QueueTypeOK
<1>3. Contents # << >>
      BY <1>1, <1>2, EmptySeq
<1>4. /\ Tail(Contents) \in Seq(Element) /\ Len(Tail(Contents)) = Committed - 1
      /\ \A i \in 1 .. Committed - 1 : Tail(Contents)[i] = Contents[i + 1]
      BY <1>1, <1>3, HeadTailProperties
<1>5. \A i \in 1 .. Committed - 1 : Contents'[i] = Contents[i + 1]
  <2> SUFFICES ASSUME NEW i \in 1 .. Committed - 1 PROVE Contents'[i] = Contents[i + 1]
      OBVIOUS
  <2>1. SlotOf(i)' = SlotOf(i + 1)
        BY <1>1 DEF SlotOf, Delete_Queue, NextSlot, QueueIInv, QueueTypeOK
  <2>2. Contents'[i] = mem'[SlotOf(i)']
        BY <1>2, <1>1 DEF Contents
  <2>3. Contents[i + 1] = mem[SlotOf(i + 1)]
        BY <1>1 DEF Contents
  <2> QED BY <2>1, <2>2, <2>3 DEF Delete_Queue
<1>6. Contents' = Tail(Contents)
      BY <1>1, <1>2, <1>4, <1>5, SeqEqual
<1> QED BY <1>3, <1>6 DEF Fifo!Get

LEMMA ClearRefines ==
  ASSUME QueueIInv, QueueIInv', queue_clear
  PROVE  Fifo!Clear
<1>1. Contents' \in Seq(Element) /\ Len(Contents') = Committed'
      BY ContentsSeq, ContentsSeqNext DEF ContentsInv
<1>2. Committed' = 0
      BY DEF queue_clear, Committed
<1> QED BY <1>1, <1>2, EmptySeq DEF Fifo!Clear

\* Every operation of the ring appends at the tail, removes at the head, empties
\* the queue or leaves its contents alone: no element is lost, duplicated or
\* reordered, and a full or empty queue refuses.
THEOREM RefinesBoundedFifo == QueueSpec => ImplementsFifo
<1>1. ASSUME QueueIInv, QueueIInv', [QueueNext]_queueVars PROVE [Fifo!Next]_Contents
  <2>1. CASE queue_clear
        BY <1>1, <2>1, ClearRefines DEF Fifo!Next
  <2>2. ASSUME NEW e \in Element, Insert_Queue(e) PROVE Fifo!Next
    <3>1. /\ Committed < ArrayLen /\ Committed' = Committed + 1 /\ pRead' = pRead
          /\ pWrite = SlotOf(Committed + 1)
          BY <1>1, <2>2 DEF Insert_Queue, TakeSlot, queue_is_full, LenPlusOne, Committed,
                            QueueIInv, QueueTypeOK, CursorsAgree, SlotOf
    <3>2. mem' = [mem EXCEPT ![SlotOf(Committed + 1)] = e]
          BY <2>2, <3>1 DEF Insert_Queue
    <3>3. Fifo!Put(e)
          BY <1>1, <3>1, <3>2, AppendRefines
    <3> QED BY <3>3 DEF Fifo!Next
  <2>3. CASE preinsert_Queue
    <3>1. Committed' = Committed /\ pRead' = pRead /\ mem' = mem
          BY <1>1, <2>3 DEF preinsert_Queue, TakeSlot, queue_is_full, LenPlusOne, Committed,
                            QueueIInv, QueueTypeOK
    <3> QED BY <3>1 DEF Contents, SlotOf
  <2>4. ASSUME NEW e \in Element, FillReserved(e) PROVE Fifo!Next
    <3>1. /\ Committed < ArrayLen /\ Committed' = Committed + 1 /\ pRead' = pRead
          /\ reserved = SlotOf(Committed + 1)
          BY <1>1, <2>4 DEF FillReserved, Committed, QueueIInv, QueueTypeOK, CursorsAgree
    <3>2. mem' = [mem EXCEPT ![SlotOf(Committed + 1)] = e]
          BY <2>4, <3>1 DEF FillReserved
    <3>3. Fifo!Put(e)
          BY <1>1, <3>1, <3>2, AppendRefines
    <3> QED BY <3>3 DEF Fifo!Next
  <2>5. CASE Delete_Queue
        BY <1>1, <2>5, DeleteRefines DEF Fifo!Next
  <2>6. CASE UNCHANGED queueVars
        BY <2>6 DEF Contents, Committed, SlotOf, queueVars
  <2> QED BY <1>1, <2>1, <2>2, <2>3, <2>4, <2>5, <2>6 DEF QueueNext
<1> QED BY <1>1, InitRefines, QueueInvariant, PTL DEF QueueSpec, ImplementsFifo, Fifo!Spec

-----------------------------------------------------------------------------
(* The ring of bytes. *)

HIDE YcQueueAssumption DEF QueueSlots, NoSlot

\* What is certain of the types, the reader being in step.
Types ==
  /\ buf \in [Slots -> Cell \cup {<< NoPkt, 0 >>}]
  /\ wptr \in Slots /\ rptr \in Slots
  /\ want \in Packet \cup {NoPkt}
  /\ txPkt \in Packet \cup {NoPkt}
  /\ txDone \in Nat /\ txPtr \in Slots
  /\ rxPc \in {"idle", "header", "payload"}
  /\ rxLeft \in 0 .. Size /\ rxPtr \in Slots
  /\ rxBuf \in Seq(Cell \cup {<< NoPkt, 0 >>})
  /\ delivered \in Seq(Cell \cup {<< NoPkt, 0 >>})

\* The packet being written, if any, fits between the write pointer and the byte
\* before the published read pointer, and its first txDone bytes are in place.
Writer ==
  /\ txDone <= Size
  /\ txPkt # NoPkt =>
       /\ txDone <= PktLen[txPkt] /\ PktLen[txPkt] > 2
       /\ Distance(rptr, wptr) + PktLen[txPkt] <= Size - 1
       /\ txPtr = Ahead(wptr, txDone)
       /\ \A i \in 1 .. txDone : buf[Ahead(wptr, i - 1)] = << txPkt, i >>

\* The reader is between the two published pointers, with as many bytes copied
\* as its program counter says.
Reader ==
  /\ Distance(rptr, rxPtr) + Distance(rxPtr, wptr) = Distance(rptr, wptr)
  /\ rxPc = "idle" => rxBuf = << >> /\ rxLeft = 0 /\ rxPtr = rptr
  /\ rxPc = "header" => /\ Len(rxBuf) + rxLeft = 2 /\ wptr # rptr
                        /\ Distance(rptr, rxPtr) = Len(rxBuf)
  /\ rxPc = "payload" => /\ Len(rxBuf) >= 2
                         /\ Len(rxBuf) + rxLeft = PktLen[rxBuf[1][1]]

\* A sequence of bytes is a sequence of whole packets: it begins with a first
\* byte, every byte has all the bytes of its packet around it in order, and the
\* byte after a last byte is a first byte.
Whole(s) ==
  /\ s # << >> => s[1][2] = 1
  /\ \A k \in 1 .. Len(s) :
       /\ s[k] = << s[k][1], s[k][2] >>
       /\ s[k][1] \in Packet
       /\ s[k][2] \in 1 .. PktLen[s[k][1]]
       /\ k >= s[k][2]
       /\ k - s[k][2] + PktLen[s[k][1]] <= Len(s)
       /\ \A j \in 1 .. PktLen[s[k][1]] : s[k - s[k][2] + j] = << s[k][1], j >>
       /\ s[k][2] = PktLen[s[k][1]] /\ k < Len(s) => s[k + 1][2] = 1

IInv == Types /\ Writer /\ Reader /\ Whole(Chan)

Byte == Cell \cup {<< NoPkt, 0 >>}

USE IpcRingAssumption DEF Slots

-----------------------------------------------------------------------------
(* Sequences of whole packets. *)

LEMMA CellsSeq ==
  ASSUME NEW p \in Packet
  PROVE  /\ Channel!Cells(p) \in Seq(Byte)
         /\ Len(Channel!Cells(p)) = PktLen[p]
         /\ \A i \in 1 .. PktLen[p] : Channel!Cells(p)[i] = << p, i >>
<1>1. PktLen[p] \in Nat
      OBVIOUS
<1>2. Channel!Cells(p) \in [1 .. PktLen[p] -> Byte]
      BY <1>1 DEF Channel!Cells, Byte, Cell
<1>3. Channel!Cells(p) \in Seq(Byte)
      BY <1>1, <1>2
<1>4. Len(Channel!Cells(p)) = PktLen[p]
      BY <1>1, <1>2, <1>3, LenProperties
<1> QED BY <1>3, <1>4 DEF Channel!Cells

\* Appending a packet to whole packets leaves whole packets.
LEMMA WholeAppend ==
  ASSUME NEW s \in Seq(Byte), Whole(s), NEW p \in Packet
  PROVE  Whole(s \o Channel!Cells(p))
<1> DEFINE n == Len(s)
           t == s \o Channel!Cells(p)
<1>1. n \in Nat /\ PktLen[p] \in Nat /\ PktLen[p] >= 2
      BY LenProperties
<1>2. /\ t \in Seq(Byte) /\ Len(t) = n + PktLen[p]
      /\ \A k \in 1 .. n + PktLen[p] : t[k] = IF k <= n THEN s[k] ELSE << p, k - n >>
  <2> DEFINE c == Channel!Cells(p)
  <2>1. c \in Seq(Byte) /\ Len(c) = PktLen[p] /\ \A i \in 1 .. PktLen[p] : c[i] = << p, i >>
        BY CellsSeq
  <2> HIDE DEF c
  <2>2. /\ s \o c \in Seq(Byte) /\ Len(s \o c) = Len(s) + Len(c)
        /\ \A k \in 1 .. Len(s) + Len(c) :
              (s \o c)[k] = IF k <= Len(s) THEN s[k] ELSE c[k - Len(s)]
        BY <2>1, ConcatProperties, ZenonT(60)
  <2>3. \A k \in 1 .. n + PktLen[p] : ~ (k <= n) => c[k - n] = << p, k - n >>
        BY <1>1, <2>1
  <2> QED BY <2>1, <2>2, <2>3 DEF c
<1> HIDE DEF n, t
<1>3. t[1][2] = 1
  <2>1. CASE n = 0
        BY <2>1, <1>1, <1>2
  <2>2. CASE n > 0
    <3>1. s # << >>
          BY <2>2, EmptySeq DEF n
    <3> QED BY <3>1, <2>2, <1>1, <1>2 DEF Whole
  <2> QED BY <2>1, <2>2, <1>1
<1>4. ASSUME NEW k \in 1 .. n, NEW q, NEW i, q = s[k][1], i = s[k][2]
      PROVE  /\ t[k] = << q, i >> /\ q \in Packet /\ i \in 1 .. PktLen[q]
             /\ PktLen[q] \in Nat
             /\ k >= i /\ k - i + PktLen[q] <= n
             /\ \A j \in 1 .. PktLen[q] : t[k - i + j] = << q, j >>
             /\ i = PktLen[q] /\ k < n + PktLen[p] => t[k + 1][2] = 1
  <2>1. /\ s[k] = << q, i >> /\ q \in Packet /\ i \in 1 .. PktLen[q]
        /\ PktLen[q] \in Nat
        /\ k >= i /\ k - i + PktLen[q] <= n
        /\ \A j \in 1 .. PktLen[q] : s[k - i + j] = << q, j >>
        /\ i = PktLen[q] /\ k < n => s[k + 1][2] = 1
        BY <1>4 DEF Whole, n
  <2>2. t[k] = s[k]
        BY <1>1, <1>2
  <2>3. \A j \in 1 .. PktLen[q] : k - i + j \in 1 .. n
        BY <2>1, <1>1
  <2>4. \A j \in 1 .. PktLen[q] : t[k - i + j] = s[k - i + j]
        BY <2>3, <1>1, <1>2
  <2>5. ASSUME i = PktLen[q], k < n + PktLen[p] PROVE t[k + 1][2] = 1
    <3>1. CASE k < n
          BY <3>1, <2>1, <2>5, <1>1, <1>2
    <3>2. CASE k = n
      <4>1. t[n + 1] = << p, 1 >>
            BY <1>1, <1>2
      <4> QED BY <3>2, <4>1
    <3> QED BY <3>1, <3>2, <1>1
  <2> QED BY <2>1, <2>2, <2>4, <2>5
<1>5. ASSUME NEW k \in n + 1 .. n + PktLen[p]
      PROVE  /\ t[k] = << p, k - n >> /\ k - n \in 1 .. PktLen[p]
             /\ \A j \in 1 .. PktLen[p] : t[k - (k - n) + j] = << p, j >>
  <2>1. ASSUME NEW j \in 1 .. PktLen[p] PROVE t[k - (k - n) + j] = << p, j >>
    <3>1. k - (k - n) + j = n + j /\ n + j \in 1 .. n + PktLen[p] /\ ~ (n + j <= n)
          BY <1>1
    <3>2. t[n + j] = << p, (n + j) - n >> /\ (n + j) - n = j
          BY <3>1, <1>1, <1>2
    <3> QED BY <3>1, <3>2
  <2> QED BY <2>1, <1>1, <1>2
<1>6. ASSUME NEW k \in 1 .. Len(t)
      PROVE  /\ t[k] = << t[k][1], t[k][2] >>
             /\ t[k][1] \in Packet
             /\ t[k][2] \in 1 .. PktLen[t[k][1]]
             /\ k >= t[k][2]
             /\ k - t[k][2] + PktLen[t[k][1]] <= Len(t)
             /\ \A j \in 1 .. PktLen[t[k][1]] : t[k - t[k][2] + j] = << t[k][1], j >>
             /\ t[k][2] = PktLen[t[k][1]] /\ k < Len(t) => t[k + 1][2] = 1
  <2>1. CASE k <= n
    <3> DEFINE q == s[k][1]
               i == s[k][2]
    <3>1. k \in 1 .. n /\ Len(t) = n + PktLen[p]
          BY <2>1, <1>1, <1>2
    <3>2. /\ t[k] = << q, i >> /\ q \in Packet /\ i \in 1 .. PktLen[q]
          /\ PktLen[q] \in Nat
          /\ k >= i /\ k - i + PktLen[q] <= n
          /\ \A j \in 1 .. PktLen[q] : t[k - i + j] = << q, j >>
          /\ i = PktLen[q] /\ k < n + PktLen[p] => t[k + 1][2] = 1
          BY <3>1, <1>4
    <3> HIDE DEF q, i
    <3>3. t[k][1] = q /\ t[k][2] = i
          BY <3>2
    <3> QED BY <3>1, <3>2, <3>3, <1>1
  <2>2. CASE k > n
    <3>1. k \in n + 1 .. n + PktLen[p] /\ Len(t) = n + PktLen[p]
          BY <2>2, <1>1, <1>2
    <3> DEFINE i == k - n
    <3>2. /\ t[k] = << p, i >> /\ i \in 1 .. PktLen[p]
          /\ \A j \in 1 .. PktLen[p] : t[k - i + j] = << p, j >>
          BY <3>1, <1>5
    <3>3. k >= i /\ k - i + PktLen[p] <= Len(t) /\ (i = PktLen[p] => k = Len(t))
          BY <3>1, <1>1
    <3> HIDE DEF i
    <3>4. t[k][1] = p /\ t[k][2] = i
          BY <3>2
    <3>5. i = PktLen[p] /\ k < Len(t) => t[k + 1][2] = 1
          BY <3>1, <3>3, <1>1
    <3>6. k - t[k][2] + PktLen[t[k][1]] <= Len(t)
          BY <3>3, <3>4
    <3>7. \A j \in 1 .. PktLen[t[k][1]] : t[k - t[k][2] + j] = << t[k][1], j >>
          BY <3>2, <3>4
    <3>8. t[k] = << t[k][1], t[k][2] >> /\ t[k][1] \in Packet
          /\ t[k][2] \in 1 .. PktLen[t[k][1]] /\ k >= t[k][2]
          BY <3>2, <3>3, <3>4
    <3>9. t[k][2] = PktLen[t[k][1]] /\ k < Len(t) => t[k + 1][2] = 1
          BY <3>4, <3>5
    <3> QED BY <3>6, <3>7, <3>8, <3>9
  <2>3. k <= n \/ k > n
        BY <1>1, <1>2
  <2> QED BY ONLY <2>1, <2>2, <2>3
<1>7. Whole(t)
      BY <1>3, <1>6 DEF Whole
<1> QED BY <1>7 DEF t

\* The first packet of a sequence of whole packets is there in full, and removing
\* it leaves whole packets.
LEMMA WholeFirst ==
  ASSUME NEW s \in Seq(Byte), Whole(s), s # << >>, NEW p, p = s[1][1]
  PROVE  /\ p \in Packet /\ PktLen[p] <= Len(s)
         /\ \A j \in 1 .. PktLen[p] : s[j] = << p, j >>
         /\ SubSeq(s, 1, PktLen[p]) = Channel!Cells(p)
         /\ SubSeq(s, PktLen[p] + 1, Len(s)) \in Seq(Byte)
         /\ Whole(SubSeq(s, PktLen[p] + 1, Len(s)))
<1> DEFINE n == Len(s)
           m == PktLen[p]
           t == SubSeq(s, m + 1, n)
<1>1. n \in Nat /\ n >= 1
      BY LenProperties, EmptySeq
<1>2. s[1] = << p, 1 >> /\ p \in Packet
      BY <1>1 DEF Whole
<1>3. m \in Nat /\ m >= 2 /\ m <= n /\ \A j \in 1 .. m : s[j] = << p, j >>
  <2>1. s[1][1] = p /\ s[1][2] = 1 /\ 1 \in 1 .. Len(s)
        BY <1>1, <1>2
  <2> DEFINE one == 1
  <2>2. one \in 1 .. Len(s) /\ s[one][1] = p /\ s[one][2] = one
        BY <2>1
  <2> HIDE DEF one
  <2>3. /\ one - one + PktLen[p] <= Len(s)
        /\ \A j \in 1 .. PktLen[p] : s[one - one + j] = << p, j >>
        BY <2>2, ZenonT(60) DEF Whole
  <2>4. one \in Int /\ PktLen[p] \in Nat /\ PktLen[p] >= 2
        BY <1>2 DEF one
  <2>5. \A j \in 1 .. PktLen[p] : one - one + j = j
        BY <2>4
  <2>6. one - one + PktLen[p] = PktLen[p]
        BY <2>4
  <2> QED BY <2>3, <2>4, <2>5, <2>6
<1>4. \A k \in 1 .. n : s[k] \in Byte
      BY <1>1, ElementOfSeq
<1>5. SubSeq(s, 1, m) = Channel!Cells(p)
  <2>1. /\ SubSeq(s, 1, m) \in Seq(Byte) /\ Len(SubSeq(s, 1, m)) = m
        /\ \A i \in 1 .. m : SubSeq(s, 1, m)[i] = s[i]
        BY <1>1, <1>3, <1>4, SubSeqProperties
  <2>2. \A i \in 1 .. m : SubSeq(s, 1, m)[i] = Channel!Cells(p)[i]
        BY <2>1, <1>2, <1>3, CellsSeq
  <2> QED BY <2>1, <2>2, <1>2, CellsSeq, SeqEqual
<1>6. /\ t \in Seq(Byte) /\ Len(t) = n - m
      /\ \A k \in 1 .. n - m : t[k] = s[m + k]
      BY <1>1, <1>3, <1>4, SubSeqProperties
<1> HIDE DEF n, m, t
<1>7. ASSUME n > m PROVE s[m + 1][2] = 1
  <2>1. s[m] = << p, m >> /\ m \in 1 .. n
        BY <1>3, <1>1
  <2>2. s[m][1] = p /\ s[m][2] = m
        BY <2>1
  <2> QED BY <2>1, <2>2, <1>7 DEF Whole, n, m
<1>8. ASSUME NEW k \in 1 .. n - m, NEW q, NEW i, q = s[m + k][1], i = s[m + k][2]
      PROVE  /\ t[k] = << q, i >> /\ q \in Packet /\ i \in 1 .. PktLen[q]
             /\ k >= i /\ k - i + PktLen[q] <= n - m
             /\ \A j \in 1 .. PktLen[q] : t[k - i + j] = << q, j >>
             /\ i = PktLen[q] /\ k < n - m => t[k + 1][2] = 1
  <2>1. /\ s[m + k] = << q, i >> /\ q \in Packet /\ i \in 1 .. PktLen[q]
        /\ m + k >= i /\ m + k - i + PktLen[q] <= n
        /\ \A j \in 1 .. PktLen[q] : s[m + k - i + j] = << q, j >>
        /\ i = PktLen[q] /\ m + k < n => s[m + k + 1][2] = 1
    <3> DEFINE a == m + k
    <3>1. a \in 1 .. Len(s) /\ a + 1 = m + k + 1
          BY <1>1, <1>3 DEF n
    <3>2. q = s[a][1] /\ i = s[a][2]
          BY <1>8
    <3> HIDE DEF a
    <3>3. /\ s[a] = << q, i >> /\ q \in Packet /\ i \in 1 .. PktLen[q]
          /\ a >= i /\ a - i + PktLen[q] <= Len(s)
          /\ \A j \in 1 .. PktLen[q] : s[a - i + j] = << q, j >>
          /\ i = PktLen[q] /\ a < Len(s) => s[a + 1][2] = 1
          BY <3>1, <3>2 DEF Whole
    <3>4. a = m + k /\ Len(s) = n
          BY DEF a, n
    <3>5. /\ s[m + k] = << q, i >> /\ q \in Packet /\ i \in 1 .. PktLen[q]
          /\ m + k >= i /\ m + k - i + PktLen[q] <= n
          BY <3>1, <3>3, <3>4, <1>1, <1>3
    <3>6. ASSUME NEW j \in 1 .. PktLen[q] PROVE s[m + k - i + j] = << q, j >>
      <4>1. s[a - i + j] = << q, j >>
            BY <3>3
      <4>2. i \in Int /\ a \in Int /\ a = m + k /\ m \in Int /\ k \in Int
            BY <1>1, <1>3, <3>1, <3>3, <3>4
      <4>3. a - i + j = m + k - i + j
            BY <4>2
      <4> QED BY <4>1, <4>3
    <3>7. i = PktLen[q] /\ m + k < n => s[m + k + 1][2] = 1
          BY <3>1, <3>3, <3>4, <1>1, <1>3
    <3> QED BY <3>5, <3>6, <3>7
  <2>2. PktLen[q] \in Nat /\ i \in Nat
        BY <2>1
  <2>3. k >= i
    <3> SUFFICES ASSUME k < i PROVE FALSE
        BY <2>2, <1>1, <1>3
    <3> DEFINE f == m + k - i + 1
    <3>1. f \in 1 .. m /\ f <= n
          BY <2>1, <2>2, <1>1, <1>3
    <3>2. s[f] = << q, 1 >>
          BY <2>1, <2>2, <1>1, <1>3
    <3>3. s[f] = << p, f >>
          BY <3>1, <1>3
    <3>4. f = 1 /\ p = q
          BY <3>2, <3>3
    <3> QED BY <3>4, <2>1, <2>2, <1>1, <1>3 DEF m
  <2>4. t[k] = << q, i >>
        BY <2>1, <1>6
  <2>5. ASSUME NEW j \in 1 .. PktLen[q] PROVE t[k - i + j] = << q, j >>
    <3> DEFINE l == PktLen[q]
    <3>1. /\ i \in Nat /\ l \in Nat /\ j \in 1 .. l /\ k \in 1 .. n - m
          /\ m \in Nat /\ n \in Nat /\ k >= i /\ m + k - i + l <= n
          BY <2>1, <2>2, <2>3, <1>1, <1>3
    <3> HIDE DEF l
    <3>2. k - i + j \in 1 .. n - m /\ m + (k - i + j) = m + k - i + j
          BY <3>1
    <3> QED BY <3>2, <2>1, <1>6
  <2>6. ASSUME i = PktLen[q], k < n - m PROVE t[k + 1][2] = 1
    <3>1. k + 1 \in 1 .. n - m /\ m + (k + 1) = m + k + 1 /\ m + k < n
          BY <2>6, <1>1, <1>3
    <3> QED BY <3>1, <2>1, <2>6, <1>6
  <2> QED BY <2>1, <2>2, <2>3, <2>4, <2>5, <2>6, <1>1, <1>3
<1>9. ASSUME NEW k \in 1 .. Len(t)
      PROVE  /\ t[k] = << t[k][1], t[k][2] >>
             /\ t[k][1] \in Packet
             /\ t[k][2] \in 1 .. PktLen[t[k][1]]
             /\ k >= t[k][2]
             /\ k - t[k][2] + PktLen[t[k][1]] <= Len(t)
             /\ \A j \in 1 .. PktLen[t[k][1]] : t[k - t[k][2] + j] = << t[k][1], j >>
             /\ t[k][2] = PktLen[t[k][1]] /\ k < Len(t) => t[k + 1][2] = 1
  <2> DEFINE q == s[m + k][1]
             i == s[m + k][2]
  <2>1. k \in 1 .. n - m /\ Len(t) = n - m
        BY <1>6
  <2>2. /\ t[k] = << q, i >> /\ q \in Packet /\ i \in 1 .. PktLen[q]
        /\ k >= i /\ k - i + PktLen[q] <= n - m
        /\ \A j \in 1 .. PktLen[q] : t[k - i + j] = << q, j >>
        /\ i = PktLen[q] /\ k < n - m => t[k + 1][2] = 1
        BY <2>1, <1>8
  <2> HIDE DEF q, i
  <2>3. t[k][1] = q /\ t[k][2] = i
        BY <2>2
  <2> QED BY <2>1, <2>2, <2>3
<1>10. t # << >> => t[1][2] = 1
  <2> SUFFICES ASSUME t # << >> PROVE t[1][2] = 1
      OBVIOUS
  <2>1. n - m >= 1 /\ n > m
        BY <1>1, <1>3, <1>6, EmptySeq
  <2>2. t[1] = s[m + 1]
        BY <2>1, <1>1, <1>3, <1>6
  <2> QED BY <2>1, <2>2, <1>7
<1>11. Whole(t)
      BY <1>9, <1>10 DEF Whole
<1> QED BY <1>2, <1>3, <1>5, <1>6, <1>11 DEF n, m, t

-----------------------------------------------------------------------------
(* Pointers on the ring. *)

LEMMA AheadInRing ==
  ASSUME NEW a \in Slots, NEW n \in 0 .. Size
  PROVE  Ahead(a, n) \in Slots
BY DEF Ahead

LEMMA DistanceInRing ==
  ASSUME NEW a \in Slots, NEW b \in Slots
  PROVE  /\ Distance(a, b) \in 0 .. Size - 1
         /\ Distance(a, b) = 0 <=> a = b
         /\ Ahead(a, Distance(a, b)) = b
BY DEF Distance, Ahead

\* The test of IPC_TxBufferIsEnough leaves one byte of the ring free, so that a
\* full ring never looks empty.
LEMMA EnoughRoom ==
  ASSUME Types, NEW n \in 1 .. Size - 1, IPC_TxBufferIsEnough(n)
  PROVE  Distance(rptr, wptr) + n <= Size - 1
<1> DEFINE d == Distance(rptr, wptr)
<1>1. d \in 0 .. Size - 1 /\ wptr \in Slots /\ rptr \in Slots
      BY DistanceInRing DEF Types
<1>2. SUFFICES ASSUME d + n >= Size PROVE FALSE
      BY <1>1
<1>3. Size - d \in 1 .. n
      BY <1>1, <1>2
<1>4. Ahead(wptr, Size - d) = rptr
      BY <1>1, <1>2, <1>3 DEF Distance, Ahead
<1> QED BY <1>3, <1>4 DEF IPC_TxBufferIsEnough

ChanFacts ==
  /\ Distance(rxPtr, wptr) \in 0 .. Size - 1
  /\ Len(rxBuf) \in Nat
  /\ Chan \in Seq(Byte)
  /\ Len(Chan) = Len(rxBuf) + Distance(rxPtr, wptr)
  /\ \A k \in 1 .. Len(rxBuf) : Chan[k] = rxBuf[k]
  /\ \A i \in 1 .. Distance(rxPtr, wptr) :
        /\ Ahead(rxPtr, i - 1) \in Slots
        /\ Chan[Len(rxBuf) + i] = buf[Ahead(rxPtr, i - 1)]

LEMMA ChanSeq == Types => ChanFacts
<1> SUFFICES ASSUME Types PROVE ChanFacts
    OBVIOUS
<1> DEFINE d == Distance(rxPtr, wptr)
           u == [i \in 1 .. d |-> buf[Ahead(rxPtr, i - 1)]]
<1>1. d \in 0 .. Size - 1 /\ rxBuf \in Seq(Byte)
      BY DistanceInRing DEF Types, Byte
<1>2. ASSUME NEW i \in 1 .. d PROVE Ahead(rxPtr, i - 1) \in Slots
  <2>1. i - 1 \in 0 .. Size /\ rxPtr \in Slots
        BY <1>1 DEF Types
  <2> QED BY <2>1, AheadInRing
<1>3. \A i \in 1 .. d : buf[Ahead(rxPtr, i - 1)] \in Byte
      BY <1>2 DEF Types, Byte
<1> HIDE DEF d
<1>4. u \in [1 .. d -> Byte]
      BY <1>3
<1>5. u \in Seq(Byte) /\ Len(u) = d
      BY <1>1, <1>4, LenProperties
<1>6. \A i \in 1 .. d : u[i] = buf[Ahead(rxPtr, i - 1)]
      OBVIOUS
<1>7. Chan = rxBuf \o u
      BY DEF Chan, d
<1> HIDE DEF u
<1>8. Len(rxBuf) \in Nat
      BY <1>1, LenProperties
<1>9. /\ Chan \in Seq(Byte) /\ Len(Chan) = Len(rxBuf) + d
      /\ \A k \in 1 .. Len(rxBuf) + d :
            Chan[k] = IF k <= Len(rxBuf) THEN rxBuf[k] ELSE u[k - Len(rxBuf)]
      BY <1>1, <1>5, <1>7, ConcatProperties, ZenonT(60)
<1>10. \A k \in 1 .. Len(rxBuf) : Chan[k] = rxBuf[k]
      BY <1>1, <1>8, <1>9
<1>11. ASSUME NEW i \in 1 .. d PROVE Chan[Len(rxBuf) + i] = buf[Ahead(rxPtr, i - 1)]
  <2>1. /\ Len(rxBuf) + i \in 1 .. Len(rxBuf) + d /\ ~ (Len(rxBuf) + i <= Len(rxBuf))
        /\ (Len(rxBuf) + i) - Len(rxBuf) = i
        BY <1>1, <1>8
  <2>2. Chan[Len(rxBuf) + i] = u[(Len(rxBuf) + i) - Len(rxBuf)]
        BY <2>1, <1>9
  <2> QED BY <2>1, <2>2, <1>6
<1> QED BY <1>1, <1>2, <1>8, <1>9, <1>10, <1>11 DEF ChanFacts, d

LEMMA ChanSeqNext == Types' => ChanFacts'
BY ChanSeq, PTL

\* Two ways Chan stays the same: nothing it depends on changed, or one byte went
\* from the ring to the reader's buffer.
LEMMA ChanUnchanged ==
  ASSUME Types, Types', rxBuf' = rxBuf, rxPtr' = rxPtr, wptr' = wptr,
         \A i \in 1 .. Distance(rxPtr, wptr) :
            buf'[Ahead(rxPtr, i - 1)] = buf[Ahead(rxPtr, i - 1)]
  PROVE  Chan' = Chan
<1>1. ChanFacts /\ ChanFacts'
      BY ChanSeq, ChanSeqNext
<1>2. Distance(rxPtr, wptr)' = Distance(rxPtr, wptr) /\ Len(rxBuf)' = Len(rxBuf)
      BY DEF Distance
<1>3. \A i \in 1 .. Distance(rxPtr, wptr) : Ahead(rxPtr, i - 1)' = Ahead(rxPtr, i - 1)
      BY DEF Ahead
<1>4. ASSUME NEW k \in 1 .. Len(Chan) PROVE Chan'[k] = Chan[k]
  <2>1. CASE k \in 1 .. Len(rxBuf)
        BY <2>1, <1>1, <1>2 DEF ChanFacts
  <2>2. CASE k \notin 1 .. Len(rxBuf)
    <3> DEFINE i == k - Len(rxBuf)
    <3>1. i \in 1 .. Distance(rxPtr, wptr) /\ k = Len(rxBuf) + i
          BY <2>2, <1>1 DEF ChanFacts
    <3> HIDE DEF i
    <3>2. Chan[Len(rxBuf) + i] = buf[Ahead(rxPtr, i - 1)]
          BY <3>1, <1>1 DEF ChanFacts
    <3>3. Chan'[Len(rxBuf) + i] = buf'[Ahead(rxPtr, i - 1)]
          BY <3>1, <1>1, <1>2, <1>3 DEF ChanFacts
    <3> QED BY <3>1, <3>2, <3>3
  <2> QED BY <2>1, <2>2
<1> QED BY <1>1, <1>2, <1>4, SeqEqual DEF ChanFacts

-----------------------------------------------------------------------------
(* The steps of the writer. *)

LEMMA RequestIInv ==
  ASSUME IInv, NEW p \in Packet, Request(p)
  PROVE  IInv' /\ Chan' = Chan
<1>1. Types' /\ Writer' /\ Reader'
      BY DEF IInv, Types, Writer, Reader, Request, rxVars, Distance, Ahead
<1>2. Chan' = Chan
      BY <1>1, ChanUnchanged DEF IInv, Request, rxVars
<1> QED BY <1>1, <1>2 DEF IInv, Whole

LEMMA TxRefuseIInv ==
  ASSUME IInv, TxRefuse
  PROVE  IInv' /\ Chan' = Chan
<1>1. Types' /\ Writer' /\ Reader'
      BY DEF IInv, Types, Writer, Reader, TxRefuse, rxVars, Distance, Ahead
<1>2. Chan' = Chan
      BY <1>1, ChanUnchanged DEF IInv, TxRefuse, rxVars
<1> QED BY <1>1, <1>2 DEF IInv, Whole

LEMMA TxCallIInv ==
  ASSUME CallerWaits, IInv, TxCall
  PROVE  IInv' /\ Chan' = Chan
<1>1. want \in Packet /\ PktLen[want] \in 1 .. Size - 1 /\ PktLen[want] > 2
      BY DEF TxCall, IInv, Types
<1>2. Distance(rptr, wptr) + PktLen[want] <= Size - 1
      BY <1>1, EnoughRoom DEF TxCall, IInv
<1>3. Types' /\ Reader'
      BY DEF IInv, Types, Reader, TxCall, rxVars, Distance
<1>4. Writer'
  <2>1. /\ txPkt' = want /\ txDone' = 0 /\ txPtr' = wptr
        /\ wptr' = wptr /\ rptr' = rptr /\ buf' = buf
        BY DEF TxCall
  <2>2. Ahead(wptr, 0) = wptr
        BY DEF Ahead, IInv, Types
  <2> QED BY <2>1, <2>2, <1>1, <1>2 DEF Writer, Distance, Ahead
<1>5. Chan' = Chan
      BY <1>3, ChanUnchanged DEF IInv, TxCall, rxVars
<1> QED BY <1>3, <1>4, <1>5 DEF IInv, Whole

\* The byte goes to a slot outside everything published and not yet read.
LEMMA TxByteSlot ==
  ASSUME IInv, TxByte
  PROVE  /\ txPtr = Ahead(wptr, txDone) /\ txDone \in 0 .. Size - 2
         /\ \A i \in 1 .. Distance(rxPtr, wptr) : Ahead(rxPtr, i - 1) # txPtr
         /\ \A i \in 1 .. txDone : Ahead(wptr, i - 1) # txPtr
<1>1. /\ txPkt \in Packet /\ PktLen[txPkt] \in Nat
      /\ txDone \in Nat /\ txDone < PktLen[txPkt]
      /\ Distance(rptr, wptr) + PktLen[txPkt] <= Size - 1
      /\ txPtr = Ahead(wptr, txDone)
      BY DEF TxByte, IInv, Types, Writer
<1>2. /\ Distance(rptr, wptr) \in 0 .. Size - 1 /\ Distance(rptr, rxPtr) \in 0 .. Size - 1
      /\ Distance(rxPtr, wptr) \in 0 .. Size - 1
      /\ Distance(rptr, rxPtr) + Distance(rxPtr, wptr) = Distance(rptr, wptr)
      /\ wptr \in Slots /\ rxPtr \in Slots
      BY DistanceInRing DEF IInv, Types, Reader
<1>3. Distance(rxPtr, wptr) + txDone <= Size - 2 /\ txDone \in 0 .. Size - 2
      BY <1>1, <1>2
<1>4. ASSUME NEW i \in 1 .. Distance(rxPtr, wptr) PROVE Ahead(rxPtr, i - 1) # txPtr
      BY <1>1, <1>2, <1>3 DEF Distance, Ahead
<1>5. ASSUME NEW i \in 1 .. txDone PROVE Ahead(wptr, i - 1) # txPtr
      BY <1>1, <1>2, <1>3 DEF Ahead
<1> QED BY <1>1, <1>3, <1>4, <1>5

LEMMA TxByteIInv ==
  ASSUME IInv, TxByte
  PROVE  IInv' /\ Chan' = Chan
<1>1. /\ buf' = [buf EXCEPT ![txPtr] = << txPkt, txDone + 1 >>]
      /\ txPtr' = Following(txPtr) /\ txDone' = txDone + 1
      /\ wptr' = wptr /\ rptr' = rptr /\ want' = want /\ txPkt' = txPkt
      /\ rxPc' = rxPc /\ rxLeft' = rxLeft /\ rxPtr' = rxPtr /\ rxBuf' = rxBuf
      /\ delivered' = delivered
      BY DEF TxByte, rxVars
<1>2. txPkt \in Packet /\ txDone \in Nat /\ txPtr \in Slots /\ wptr \in Slots
      BY DEF TxByte, IInv, Types
<1>3. << txPkt, txDone + 1 >> \in Cell
      BY <1>2 DEF Cell
<1>4. Types'
      BY <1>1, <1>2, <1>3 DEF IInv, Types, Following
<1>5. Reader'
      BY <1>1 DEF IInv, Reader, Distance
<1>6. Writer'
  <2>1. txDone' <= Size /\ txDone' <= PktLen[txPkt]
        BY <1>1, <1>2, TxByteSlot DEF TxByte
  <2>2. txPtr' = Ahead(wptr, txDone')
        BY <1>1, <1>2, TxByteSlot DEF Following, Ahead
  <2>3. ASSUME NEW i \in 1 .. txDone' PROVE buf'[Ahead(wptr, i - 1)] = << txPkt, i >>
    <3>1. CASE i = txDone + 1
      <4>1. Ahead(wptr, i - 1) = txPtr
            BY <3>1, <1>2, TxByteSlot
      <4> QED BY <4>1, <3>1, <1>1, <1>2 DEF IInv, Types
    <3>2. CASE i # txDone + 1
      <4>1. i \in 1 .. txDone
            BY <3>2, <1>1, <1>2
      <4>2. Ahead(wptr, i - 1) # txPtr
            BY <4>1, TxByteSlot
      <4>3. buf[Ahead(wptr, i - 1)] = << txPkt, i >>
            BY <4>1, <1>2 DEF IInv, Writer, Types
      <4>4. Ahead(wptr, i - 1) \in Slots
            BY <4>1, <1>2, TxByteSlot DEF Ahead
      <4> QED BY <4>2, <4>3, <4>4, <1>1 DEF IInv, Types
    <3> QED BY <3>1, <3>2
  <2>4. PktLen[txPkt] > 2 /\ Distance(rptr, wptr) + PktLen[txPkt] <= Size - 1
        BY <1>2 DEF IInv, Writer
  <2> QED BY <2>1, <2>2, <2>3, <2>4, <1>1 DEF Writer, Distance, Ahead
<1>7. Chan' = Chan
  <2>1. ASSUME NEW i \in 1 .. Distance(rxPtr, wptr)
        PROVE  buf'[Ahead(rxPtr, i - 1)] = buf[Ahead(rxPtr, i - 1)]
    <3>1. Ahead(rxPtr, i - 1) # txPtr
          BY TxByteSlot
    <3> QED BY <3>1, <1>1 DEF IInv, Types
  <2> QED BY <2>1, <1>1, <1>4, ChanUnchanged DEF IInv
<1> QED BY <1>4, <1>5, <1>6, <1>7 DEF IInv, Whole

\* Publishing the write pointer hands the whole packet over at once.
LEMMA TxPublishIInv ==
  ASSUME IInv, TxPublish
  PROVE  /\ IInv' /\ txPkt \in Packet
         /\ Chan' = Chan \o Channel!Cells(txPkt) /\ delivered' = delivered
<1> DEFINE p == txPkt
           d == Distance(rxPtr, wptr)
           n == Len(rxBuf)
<1>1. /\ wptr' = txPtr /\ txPkt' = NoPkt /\ buf' = buf /\ rptr' = rptr
      /\ want' = want /\ txDone' = txDone /\ txPtr' = txPtr
      /\ rxPc' = rxPc /\ rxLeft' = rxLeft /\ rxPtr' = rxPtr /\ rxBuf' = rxBuf
      /\ delivered' = delivered
      BY DEF TxPublish, rxVars
<1>2. /\ p \in Packet /\ PktLen[p] \in 3 .. Size - 1 /\ txDone = PktLen[p]
      /\ Distance(rptr, wptr) + PktLen[p] <= Size - 1
      /\ txPtr = Ahead(wptr, PktLen[p])
      /\ \A i \in 1 .. PktLen[p] : buf[Ahead(wptr, i - 1)] = << p, i >>
      BY DEF TxPublish, IInv, Types, Writer
<1>3. Types'
      BY <1>1 DEF IInv, Types
<1>4. Writer'
      BY <1>1 DEF IInv, Writer
<1>5. /\ wptr \in Slots /\ rptr \in Slots /\ rxPtr \in Slots
      /\ d \in 0 .. Size - 1 /\ Distance(rptr, rxPtr) \in 0 .. Size - 1
      /\ Distance(rptr, wptr) \in 0 .. Size - 1
      /\ Distance(rptr, rxPtr) + d = Distance(rptr, wptr)
      BY DistanceInRing DEF IInv, Types, Reader
<1>6. /\ Distance(rxPtr, wptr') = d + PktLen[p]
      /\ Distance(rptr, wptr') = Distance(rptr, wptr) + PktLen[p]
      BY <1>1, <1>2, <1>5 DEF Distance, Ahead
<1>7. Reader'
  <2>1. wptr' # rptr
        BY <1>6, <1>2, <1>5, <1>1 DEF Distance
  <2>2. /\ Distance(rptr, rxPtr)' = Distance(rptr, rxPtr)
        /\ Distance(rxPtr, wptr)' = d + PktLen[p]
        /\ Distance(rptr, wptr)' = Distance(rptr, wptr) + PktLen[p]
        BY <1>1, <1>6 DEF Distance
  <2>3. Distance(rptr, rxPtr)' + Distance(rxPtr, wptr)' = Distance(rptr, wptr)'
        BY <2>2, <1>2, <1>5
  <2> QED BY <2>1, <2>3, <1>1 DEF IInv, Reader
<1> DEFINE L == PktLen[p]
<1>8. Chan' = Chan \o Channel!Cells(p)
  <2>1. ChanFacts /\ ChanFacts'
        BY <1>3, ChanSeq, ChanSeqNext DEF IInv
  <2>2. n \in Nat /\ d \in Nat /\ L \in Nat /\ L >= 1
    <3>1. n \in Nat /\ d \in Nat
          BY <2>1, <1>5 DEF ChanFacts
    <3>2. L \in 3 .. Size - 1
          BY <1>2
    <3> QED BY <3>1, <3>2
  <2>3. Len(rxBuf)' = n /\ Distance(rxPtr, wptr)' = d + L
        BY <1>1, <1>6 DEF Distance
  <2>4. /\ Chan \in Seq(Byte) /\ Len(Chan) = n + d
        /\ \A k \in 1 .. n : Chan[k] = rxBuf[k]
        /\ \A i \in 1 .. d : Chan[n + i] = buf[Ahead(rxPtr, i - 1)]
        BY <2>1 DEF ChanFacts
  <2>5. /\ Chan' \in Seq(Byte) /\ Len(Chan') = n + (d + L)
        /\ \A k \in 1 .. n : Chan'[k] = rxBuf[k]
        /\ \A i \in 1 .. d + L : Chan'[n + i] = buf[Ahead(rxPtr, i - 1)]
    <3>1. \A i \in 1 .. d + L : Ahead(rxPtr, i - 1)' = Ahead(rxPtr, i - 1)
          BY <1>1 DEF Ahead
    <3> QED BY <3>1, <2>1, <2>3, <1>1 DEF ChanFacts
  <2>6. \A j \in 1 .. L : buf[Ahead(rxPtr, (d + j) - 1)] = << p, j >>
    <3> SUFFICES ASSUME NEW j \in 1 .. L PROVE buf[Ahead(rxPtr, (d + j) - 1)] = << p, j >>
        OBVIOUS
    <3>1. Ahead(rxPtr, (d + j) - 1) = Ahead(wptr, j - 1)
      <4>1. Distance(rptr, wptr) + L <= Size - 1 /\ L \in Nat
            BY <1>2
      <4>2. d + L <= Size - 1
            BY <4>1, <1>5
      <4> QED BY <4>1, <4>2, <1>5 DEF Ahead, Distance
    <3> QED BY <3>1, <1>2
  <2> DEFINE c == Channel!Cells(p)
  <2>7. c \in Seq(Byte) /\ Len(c) = L /\ \A i \in 1 .. L : c[i] = << p, i >>
        BY <1>2, CellsSeq
  <2> HIDE DEF n, d, L, c, p
  <2>8. /\ Chan \o c \in Seq(Byte) /\ Len(Chan \o c) = n + d + L
        /\ \A k \in 1 .. n + d + L :
              (Chan \o c)[k] = IF k <= n + d THEN Chan[k] ELSE c[k - (n + d)]
    <3> DEFINE s == Chan
    <3>0. s \in Seq(Byte) /\ c \in Seq(Byte)
          BY <2>4, <2>7
    <3> HIDE DEF s
    <3>1. /\ s \o c \in Seq(Byte) /\ Len(s \o c) = Len(s) + Len(c)
          /\ \A k \in 1 .. Len(s) + Len(c) :
                (s \o c)[k] = IF k <= Len(s) THEN s[k] ELSE c[k - Len(s)]
          BY ONLY <3>0, ConcatProperties
    <3>2. Len(Chan) = n + d /\ Len(c) = L
          BY <2>4, <2>7
    <3> QED BY <3>1, <3>2 DEF s
  <2>9. ASSUME NEW k \in 1 .. n + d + L PROVE Chan'[k] = (Chan \o c)[k]
    <3>1. CASE k <= n
      <4>1. k \in 1 .. n /\ k <= n + d
            BY <3>1, <2>2
      <4> QED BY <4>1, <2>4, <2>5, <2>8
    <3>2. CASE k > n /\ k <= n + d
      <4> DEFINE i == k - n
      <4>1. /\ i \in 1 .. d /\ i \in 1 .. d + L /\ k = n + i
            BY <3>2, <2>2
      <4> HIDE DEF i
      <4>2. Chan'[n + i] = Chan[n + i]
            BY <4>1, <2>4, <2>5
      <4>3. (Chan \o c)[k] = Chan[k]
            BY <3>2, <2>8
      <4> QED BY <4>1, <4>2, <4>3
    <3>3. CASE k > n + d
      <4> DEFINE j == k - (n + d)
      <4>1. j \in 1 .. L /\ d + j \in 1 .. d + L /\ k = n + (d + j) /\ ~ (k <= n + d)
            BY <3>3, <2>2
      <4>2. (Chan \o c)[k] = c[j]
            BY <4>1, <2>8
      <4> HIDE DEF j
      <4>3. Chan'[n + (d + j)] = buf[Ahead(rxPtr, (d + j) - 1)]
            BY <4>1, <2>5
      <4>4. Chan'[n + (d + j)] = << p, j >>
            BY <4>1, <4>3, <2>6
      <4>5. c[j] = << p, j >>
            BY <4>1, <2>7
      <4> QED BY ONLY <4>1, <4>2, <4>4, <4>5
    <3>4. k <= n \/ (k > n /\ k <= n + d) \/ k > n + d
          BY <2>2
    <3> QED BY ONLY <3>1, <3>2, <3>3, <3>4
  <2>10. Len(Chan') = n + d + L
        BY <2>2, <2>5
  <2> QED BY <2>5, <2>8, <2>9, <2>10, SeqEqual DEF c
<1>9. Whole(Chan \o Channel!Cells(p))
      BY <1>2, ChanSeq, WholeAppend DEF IInv, ChanFacts
<1>10. Whole(Chan')
      BY <1>8, <1>9
<1>11. Whole(Chan)'
      BY <1>10 DEF Whole
<1> QED BY <1>1, <1>2, <1>3, <1>4, <1>7, <1>8, <1>11 DEF IInv

-----------------------------------------------------------------------------
(* The steps of the reader. *)

\* While a packet is being read its bytes are all there: the reader never runs
\* into the write pointer in the middle of a packet.
LEMMA ReaderHasBytes ==
  ASSUME IInv, rxPc # "idle"
  PROVE  /\ Chan # << >> /\ Chan[1][1] \in Packet
         /\ PktLen[Chan[1][1]] <= Len(Chan)
         /\ rxLeft <= Distance(rxPtr, wptr)
<1> DEFINE p == Chan[1][1]
           n == Len(rxBuf)
           d == Distance(rxPtr, wptr)
<1>1. ChanFacts
      BY ChanSeq DEF IInv
<1>2. n \in Nat /\ d \in Nat /\ rxLeft \in Nat /\ Chan \in Seq(Byte) /\ Len(Chan) = n + d
      BY <1>1 DEF ChanFacts, IInv, Types
<1>3. rxPc = "header" \/ rxPc = "payload"
      BY DEF IInv, Types
<1>4. n + d > 0
  <2>1. CASE rxPc = "header"
    <3>1. Distance(rptr, rxPtr) = n /\ Distance(rptr, rxPtr) + d = Distance(rptr, wptr)
          BY <2>1 DEF IInv, Reader
    <3>2. Distance(rptr, wptr) # 0 /\ Distance(rptr, wptr) \in Nat
          BY <2>1, DistanceInRing DEF IInv, Reader, Types
    <3> QED BY <3>1, <3>2, <1>2
  <2>2. CASE rxPc = "payload"
        BY <2>2, <1>2 DEF IInv, Reader
  <2> QED BY <2>1, <2>2, <1>3
<1>5. Chan # << >>
      BY <1>2, <1>4, EmptySeq
<1>6. p \in Packet /\ PktLen[p] <= Len(Chan)
      BY <1>2, <1>5, WholeFirst DEF IInv
<1>7. rxLeft <= d
  <2>1. CASE rxPc = "header"
    <3>1. n + rxLeft = 2 /\ PktLen[p] \in Nat /\ PktLen[p] >= 2
          BY <2>1, <1>6 DEF IInv, Reader
    <3> QED BY <3>1, <1>2, <1>6
  <2>2. CASE rxPc = "payload"
    <3>1. n >= 2 /\ n + rxLeft = PktLen[rxBuf[1][1]]
          BY <2>2 DEF IInv, Reader
    <3>2. Chan[1] = rxBuf[1]
          BY <3>1, <1>1, <1>2 DEF ChanFacts
    <3> QED BY <3>1, <3>2, <1>2, <1>6
  <2> QED BY <2>1, <2>2, <1>3
<1> QED BY <1>5, <1>6, <1>7

LEMMA RxPollIInv ==
  ASSUME IInv, RxPoll
  PROVE  IInv' /\ Chan' = Chan /\ delivered' = delivered
<1>1. /\ rxPc = "idle" /\ rxBuf = << >> /\ rxPtr = rptr /\ rptr # wptr
      /\ rxPc' = "header" /\ rxLeft' = 2 /\ rxPtr' = rxPtr
      /\ buf' = buf /\ wptr' = wptr /\ rptr' = rptr /\ rxBuf' = rxBuf
      /\ delivered' = delivered
      /\ want' = want /\ txPkt' = txPkt /\ txDone' = txDone /\ txPtr' = txPtr
      BY DEF RxPoll, IPC_IsRxBuffEmpty, txVars, IInv, Reader
<1>2. Types'
  <2>1. 2 \in 0 .. Size
        BY <1>1 DEF IInv, Types
  <2> QED BY <1>1, <2>1 DEF IInv, Types
<1>3. Writer'
      BY <1>1 DEF IInv, Writer, Distance, Ahead
<1>4. Reader'
  <2>1. Len(rxBuf) = 0 /\ Distance(rptr, rxPtr) = 0
        BY <1>1 DEF IInv, Types, Distance
  <2> QED BY <1>1, <2>1 DEF IInv, Reader, Distance
<1>5. Chan' = Chan
      BY <1>1, <1>2, ChanUnchanged DEF IInv
<1> QED BY <1>1, <1>2, <1>3, <1>4, <1>5 DEF IInv, Whole

LEMMA RxByteIInv ==
  ASSUME IInv, RxByte
  PROVE  IInv' /\ Chan' = Chan /\ delivered' = delivered
<1> DEFINE n == Len(rxBuf)
           d == Distance(rxPtr, wptr)
           e == Distance(rptr, rxPtr)
<1>1. /\ rxLeft > 0 /\ rxBuf' = Append(rxBuf, buf[rxPtr])
      /\ rxPtr' = Following(rxPtr) /\ rxLeft' = rxLeft - 1
      /\ rxPc' = rxPc /\ buf' = buf /\ wptr' = wptr /\ rptr' = rptr
      /\ delivered' = delivered
      /\ want' = want /\ txPkt' = txPkt /\ txDone' = txDone /\ txPtr' = txPtr
      BY DEF RxByte, txVars
<1>2. /\ rxPtr \in Slots /\ wptr \in Slots /\ rptr \in Slots
      /\ buf[rxPtr] \in Byte /\ rxBuf \in Seq(Byte) /\ rxLeft \in 1 .. Size
      BY <1>1 DEF IInv, Types, Byte
<1>3. rxPc # "idle"
      BY <1>1 DEF IInv, Reader
<1>4. /\ n \in Nat /\ d \in 1 .. Size - 1 /\ e \in 0 .. Size - 1
      /\ Distance(rptr, wptr) \in 0 .. Size - 1 /\ e + d = Distance(rptr, wptr)
  <2>1. rxLeft <= d
        BY <1>3, ReaderHasBytes
  <2>2. d \in 0 .. Size - 1 /\ e \in 0 .. Size - 1 /\ Distance(rptr, wptr) \in 0 .. Size - 1
        BY <1>2, DistanceInRing
  <2>3. n \in Nat
        BY <1>2, LenProperties
  <2> QED BY <2>1, <2>2, <2>3, <1>2 DEF IInv, Reader
<1>5. /\ rxBuf' \in Seq(Byte) /\ Len(rxBuf') = n + 1
      /\ \A k \in 1 .. n : rxBuf'[k] = rxBuf[k]
      /\ rxBuf'[n + 1] = buf[rxPtr]
      BY <1>1, <1>2, AppendProperties
<1>6. Types'
      BY <1>1, <1>2, <1>5 DEF IInv, Types, Following, Byte
<1>7. Writer'
      BY <1>1 DEF IInv, Writer, Distance, Ahead
<1>8. Distance(rxPtr', wptr) = d - 1 /\ Distance(rptr, rxPtr') = e + 1
      BY <1>1, <1>2, <1>4 DEF Distance, Following
<1>9. Reader'
  <2>1. /\ Distance(rptr, rxPtr)' = e + 1 /\ Distance(rxPtr, wptr)' = d - 1
        /\ Distance(rptr, wptr)' = Distance(rptr, wptr)
        BY <1>1, <1>8 DEF Distance
  <2>2. Distance(rptr, rxPtr)' + Distance(rxPtr, wptr)' = Distance(rptr, wptr)'
        BY <2>1, <1>4
  <2>3. ASSUME rxPc = "header"
        PROVE  Len(rxBuf') + rxLeft' = 2 /\ wptr # rptr /\ e + 1 = Len(rxBuf')
        BY <2>3, <1>1, <1>2, <1>4, <1>5 DEF IInv, Reader
  <2>4. ASSUME rxPc = "payload"
        PROVE  Len(rxBuf') >= 2 /\ Len(rxBuf') + rxLeft' = PktLen[rxBuf'[1][1]]
    <3>1. n >= 2 /\ n + rxLeft = PktLen[rxBuf[1][1]]
          BY <2>4 DEF IInv, Reader
    <3>2. rxBuf'[1] = rxBuf[1]
          BY <3>1, <1>4, <1>5
    <3> QED BY <3>1, <3>2, <1>1, <1>2, <1>4, <1>5
  <2> QED BY <2>1, <2>2, <2>3, <2>4, <1>1, <1>3 DEF Reader
<1>10. Chan' = Chan
  <2>1. ChanFacts /\ ChanFacts'
        BY <1>6, ChanSeq, ChanSeqNext DEF IInv
  <2>2. Len(rxBuf)' = n + 1 /\ Distance(rxPtr, wptr)' = d - 1
        BY <1>1, <1>5, <1>8 DEF Distance
  <2>3. /\ Chan \in Seq(Byte) /\ Len(Chan) = n + d
        /\ \A k \in 1 .. n : Chan[k] = rxBuf[k]
        /\ \A i \in 1 .. d : Chan[n + i] = buf[Ahead(rxPtr, i - 1)]
        BY <2>1 DEF ChanFacts
  <2>4. /\ Chan' \in Seq(Byte) /\ Len(Chan') = n + 1 + (d - 1)
        /\ \A k \in 1 .. n + 1 : Chan'[k] = rxBuf'[k]
        /\ \A i \in 1 .. d - 1 : Chan'[(n + 1) + i] = buf[Ahead(rxPtr', i - 1)]
    <3>1. \A i \in 1 .. d - 1 : Ahead(rxPtr, i - 1)' = Ahead(rxPtr', i - 1)
          BY <1>1 DEF Ahead
    <3> QED BY <3>1, <2>1, <2>2, <1>1 DEF ChanFacts
  <2>5. \A i \in 1 .. d - 1 : Ahead(rxPtr', i - 1) = Ahead(rxPtr, (i + 1) - 1)
        BY <1>1, <1>2, <1>4 DEF Ahead, Following
  <2>6. Ahead(rxPtr, 1 - 1) = rxPtr
        BY <1>2 DEF Ahead
  <2> HIDE DEF n, d
  <2>7. ASSUME NEW k \in 1 .. n + d PROVE Chan'[k] = Chan[k]
    <3>1. CASE k <= n
      <4>1. k \in 1 .. n /\ k \in 1 .. n + 1
            BY <3>1, <1>4
      <4> QED BY <4>1, <2>3, <2>4, <1>5
    <3>2. CASE k = n + 1
      <4>1. 1 \in 1 .. d /\ k \in 1 .. n + 1
            BY <3>2, <1>4
      <4>2. Chan[n + 1] = buf[rxPtr]
            BY <4>1, <2>3, <2>6
      <4> QED BY <4>1, <4>2, <3>2, <2>4, <1>5
    <3>3. CASE k > n + 1
      <4> DEFINE i == k - (n + 1)
      <4>1. /\ i \in 1 .. d - 1 /\ i + 1 \in 1 .. d
            /\ k = (n + 1) + i /\ k = n + (i + 1)
            BY <3>3, <1>4
      <4> HIDE DEF i
      <4>2. Chan'[(n + 1) + i] = buf[Ahead(rxPtr', i - 1)]
            BY <4>1, <2>4
      <4>3. Chan[n + (i + 1)] = buf[Ahead(rxPtr, (i + 1) - 1)]
            BY <4>1, <2>3
      <4>4. Ahead(rxPtr', i - 1) = Ahead(rxPtr, (i + 1) - 1)
            BY <4>1, <2>5
      <4> QED BY ONLY <4>1, <4>2, <4>3, <4>4
    <3> QED BY <3>1, <3>2, <3>3, <1>4
  <2>8. Len(Chan') = n + d
        BY <2>4, <1>4
  <2> QED BY <2>3, <2>4, <2>7, <2>8, SeqEqual
<1> QED BY <1>1, <1>6, <1>7, <1>9, <1>10 DEF IInv, Whole

\* The two bytes read are a header, so the reader stays in step.
LEMMA RxHeaderDoneIInv ==
  ASSUME IInv, RxHeaderDone
  PROVE  IInv' /\ Chan' = Chan /\ delivered' = delivered
<1> DEFINE p == Chan[1][1]
<1>1. /\ rxPc = "header" /\ rxLeft = 0 /\ rptr' = rxPtr
      /\ buf' = buf /\ wptr' = wptr /\ rxPtr' = rxPtr /\ rxBuf' = rxBuf
      /\ delivered' = delivered
      /\ want' = want /\ txPkt' = txPkt /\ txDone' = txDone /\ txPtr' = txPtr
      BY DEF RxHeaderDone, txVars
<1>2. Len(rxBuf) = 2 /\ rxBuf \in Seq(Byte)
  <2>1. Len(rxBuf) + rxLeft = 2 /\ rxBuf \in Seq(Byte)
        BY <1>1 DEF IInv, Reader, Types, Byte
  <2>2. Len(rxBuf) \in Nat
        BY <2>1, LenProperties
  <2> QED BY <1>1, <2>1, <2>2
<1>3. p \in Packet /\ PktLen[p] \in 2 .. Size - 1 /\ Chan[1] = << p, 1 >> /\ Chan[2] = << p, 2 >>
  <2>1. Chan \in Seq(Byte) /\ Chan # << >> /\ Whole(Chan)
        BY <1>1, ReaderHasBytes, ChanSeq DEF IInv, ChanFacts
  <2>2. p \in Packet /\ \A j \in 1 .. PktLen[p] : Chan[j] = << p, j >>
        BY <2>1, WholeFirst
  <2> QED BY <2>2
<1>4. rxBuf[1] = Chan[1] /\ rxBuf[2] = Chan[2]
      BY <1>2, ChanSeq DEF IInv, ChanFacts
<1>5. rxBuf[1][1] = p /\ IsHeader(rxBuf)
      BY <1>3, <1>4 DEF IsHeader
<1>6. rxPc' = "payload" /\ rxLeft' = PktLen[p] - 2
      BY <1>5 DEF RxHeaderDone
<1> HIDE DEF p
<1>7. Types'
      BY <1>1, <1>3, <1>6 DEF IInv, Types
<1>8. /\ Distance(rptr, wptr)' = Distance(rxPtr, wptr) /\ Distance(rptr, rxPtr)' = 0
      /\ Distance(rxPtr, wptr)' = Distance(rxPtr, wptr)
      /\ Distance(rxPtr, wptr) \in Nat /\ Distance(rptr, wptr) \in Nat
      /\ Distance(rxPtr, wptr) <= Distance(rptr, wptr)
  <2>1. /\ wptr \in Slots /\ rptr \in Slots /\ rxPtr \in Slots
        /\ Distance(rptr, rxPtr) + Distance(rxPtr, wptr) = Distance(rptr, wptr)
        BY DEF IInv, Types, Reader
  <2>2. /\ Distance(rptr, rxPtr) \in Nat /\ Distance(rxPtr, wptr) \in Nat
        /\ Distance(rptr, wptr) \in Nat
        BY <2>1, DistanceInRing
  <2>3. /\ Distance(rptr, wptr)' = Distance(rxPtr, wptr) /\ Distance(rptr, rxPtr)' = 0
        /\ Distance(rxPtr, wptr)' = Distance(rxPtr, wptr)
        BY <1>1, <2>1 DEF Distance
  <2> QED BY <2>1, <2>2, <2>3
<1>9. Writer'
  <2>1. ASSUME txPkt # NoPkt
        PROVE  Distance(rxPtr, wptr) + PktLen[txPkt] <= Size - 1
    <3>1. txPkt \in Packet /\ PktLen[txPkt] \in Nat
          BY <2>1 DEF IInv, Types
    <3> QED BY <2>1, <3>1, <1>8 DEF IInv, Writer
  <2> QED BY <2>1, <1>1, <1>8 DEF IInv, Writer, Ahead
<1>10. Reader'
  <2>1. Distance(rptr, rxPtr)' + Distance(rxPtr, wptr)' = Distance(rptr, wptr)'
        BY <1>8
  <2>2. Len(rxBuf') >= 2 /\ Len(rxBuf') + rxLeft' = PktLen[rxBuf'[1][1]]
        BY <1>1, <1>2, <1>3, <1>5, <1>6
  <2> QED BY <2>1, <2>2, <1>6 DEF Reader
<1>11. Chan' = Chan
      BY <1>1, <1>7, ChanUnchanged DEF IInv
<1> QED BY <1>1, <1>7, <1>9, <1>10, <1>11 DEF IInv, Whole

\* The packet handed to the callback is the first one on its way, in full.
LEMMA RxDispatchIInv ==
  ASSUME IInv, RxDispatch
  PROVE  IInv' /\ \E p \in Packet : Channel!Receive(p)
<1> DEFINE p == Chan[1][1]
           L == PktLen[p]
           d == Distance(rxPtr, wptr)
<1>1. /\ rxPc = "payload" /\ rxLeft = 0 /\ rptr' = rxPtr /\ delivered' = rxBuf
      /\ rxBuf' = << >> /\ rxPc' = "idle" /\ rxLeft' = rxLeft /\ rxPtr' = rxPtr
      /\ buf' = buf /\ wptr' = wptr
      /\ want' = want /\ txPkt' = txPkt /\ txDone' = txDone /\ txPtr' = txPtr
      BY DEF RxDispatch, txVars
<1>2. Types'
  <2>1. << >> \in Seq(Byte)
        OBVIOUS
  <2> QED BY <1>1, <2>1 DEF IInv, Types, Byte
<1>3. ChanFacts /\ ChanFacts'
      BY <1>2, ChanSeq, ChanSeqNext DEF IInv
<1>4. /\ Chan \in Seq(Byte) /\ Chan # << >> /\ Whole(Chan) /\ p \in Packet
      BY <1>1, <1>3, ReaderHasBytes DEF IInv, ChanFacts
<1>5. /\ L <= Len(Chan) /\ SubSeq(Chan, 1, L) = Channel!Cells(p)
      /\ SubSeq(Chan, L + 1, Len(Chan)) \in Seq(Byte)
      /\ Whole(SubSeq(Chan, L + 1, Len(Chan)))
      /\ \A j \in 1 .. L : Chan[j] = << p, j >>
      BY <1>4, WholeFirst
<1>6. Len(rxBuf) = L /\ L \in Nat /\ rxBuf \in Seq(Byte) /\ d \in Nat
  <2>1. Len(rxBuf) >= 2 /\ Len(rxBuf) + rxLeft = PktLen[rxBuf[1][1]]
        BY <1>1 DEF IInv, Reader
  <2>2. Len(rxBuf) \in Nat /\ d \in Nat /\ rxBuf \in Seq(Byte)
        BY <1>3 DEF ChanFacts, IInv, Types, Byte
  <2>3. Chan[1] = rxBuf[1]
        BY <2>1, <2>2, <1>3 DEF ChanFacts
  <2> QED BY <2>1, <2>2, <2>3, <1>1
<1>7. rxBuf = Channel!Cells(p)
  <2>1. \A j \in 1 .. L : rxBuf[j] = << p, j >>
        BY <1>3, <1>5, <1>6 DEF ChanFacts
  <2>2. /\ Channel!Cells(p) \in Seq(Byte) /\ Len(Channel!Cells(p)) = L
        /\ \A j \in 1 .. L : Channel!Cells(p)[j] = << p, j >>
        BY <1>4, CellsSeq
  <2> HIDE DEF p, L
  <2>3. \A j \in 1 .. Len(rxBuf) : rxBuf[j] = Channel!Cells(p)[j]
        BY <2>1, <2>2, <1>6
  <2> QED BY <2>2, <2>3, <1>6, SeqEqual
<1> HIDE DEF p, L
<1>8. Chan' = SubSeq(Chan, L + 1, Len(Chan))
  <2>1. Len(rxBuf)' = 0 /\ Distance(rxPtr, wptr)' = d
        BY <1>1 DEF Distance
  <2>2. \A i \in 1 .. d : Ahead(rxPtr, i - 1)' = Ahead(rxPtr, i - 1)
        BY <1>1 DEF Ahead
  <2>3. /\ Chan' \in Seq(Byte) /\ Len(Chan') = d
        /\ \A i \in 1 .. d : Chan'[0 + i] = buf[Ahead(rxPtr, i - 1)]
        BY <2>1, <2>2, <1>1, <1>3, <1>6 DEF ChanFacts
  <2>4. /\ Len(Chan) = L + d
        /\ \A i \in 1 .. d : Chan[L + i] = buf[Ahead(rxPtr, i - 1)]
        BY <1>3, <1>6 DEF ChanFacts
  <2> HIDE DEF d
  <2>5. \A k \in 1 .. Len(Chan) : Chan[k] \in Byte
        BY <1>4, ElementOfSeq
  <2>6. /\ Len(SubSeq(Chan, L + 1, L + d)) = d
        /\ \A i \in 1 .. d : SubSeq(Chan, L + 1, L + d)[i] = Chan[L + i]
    <3> DEFINE a == L + 1
               b == L + d
               t == SubSeq(Chan, a, b)
    <3>1. /\ a \in Int /\ b \in Int /\ 1 <= a /\ b <= Len(Chan)
          /\ b - a + 1 = d /\ (a <= b <=> d > 0) /\ d \in Nat
          BY <2>4, <1>6
    <3>2. \A i \in 1 .. d : a + i - 1 = L + i
          BY <1>6
    <3> HIDE DEF a, b
    <3>3. \A k \in a .. b : Chan[k] \in Byte
          BY <3>1, <2>5
    <3>4. /\ Len(SubSeq(Chan, a, b)) = IF a <= b THEN b - a + 1 ELSE 0
          /\ \A i \in 1 .. b - a + 1 : SubSeq(Chan, a, b)[i] = Chan[a + i - 1]
          BY <3>1, <3>3, SubSeqProperties
    <3> HIDE DEF t
    <3>5. Len(t) = d
          BY <3>1, <3>4 DEF t
    <3>6. \A i \in 1 .. d : t[i] = Chan[L + i]
          BY <3>1, <3>2, <3>4 DEF t
    <3> QED BY <3>5, <3>6 DEF t, a, b
  <2>7. \A i \in 1 .. d : 0 + i = i
        BY <1>6
  <2>8. ASSUME NEW i \in 1 .. d PROVE Chan'[i] = SubSeq(Chan, L + 1, L + d)[i]
    <3>1. 0 + i = i
          BY <2>7
    <3>2. Chan'[0 + i] = buf[Ahead(rxPtr, i - 1)]
          BY <2>3
    <3>3. Chan[L + i] = buf[Ahead(rxPtr, i - 1)]
          BY <2>4
    <3>4. SubSeq(Chan, L + 1, L + d)[i] = Chan[L + i]
          BY <2>6
    <3> QED BY ONLY <3>1, <3>2, <3>3, <3>4
  <2> QED BY <1>5, <2>3, <2>4, <2>6, <2>8, SeqEqual
<1>9. Whole(Chan)'
      BY <1>5, <1>8 DEF Whole
<1>10. /\ Distance(rptr, wptr)' = d /\ Distance(rptr, rxPtr)' = 0
      /\ Distance(rxPtr, wptr)' = d
      /\ Distance(rptr, wptr) \in Nat /\ d <= Distance(rptr, wptr)
  <2>1. /\ wptr \in Slots /\ rptr \in Slots /\ rxPtr \in Slots
        /\ Distance(rptr, rxPtr) + d = Distance(rptr, wptr)
        BY DEF IInv, Types, Reader
  <2>2. Distance(rptr, rxPtr) \in Nat /\ Distance(rptr, wptr) \in Nat
        BY <2>1, DistanceInRing
  <2>3. /\ Distance(rptr, wptr)' = d /\ Distance(rptr, rxPtr)' = 0
        /\ Distance(rxPtr, wptr)' = d
        BY <1>1, <2>1 DEF Distance
  <2> QED BY <2>1, <2>2, <2>3, <1>6
<1>11. Writer'
  <2>1. ASSUME txPkt # NoPkt
        PROVE  d + PktLen[txPkt] <= Size - 1
    <3>1. txPkt \in Packet /\ PktLen[txPkt] \in Nat
          BY <2>1 DEF IInv, Types
    <3> QED BY <2>1, <3>1, <1>6, <1>10 DEF IInv, Writer
  <2> QED BY <2>1, <1>1, <1>10 DEF IInv, Writer, Ahead
<1>12. Reader'
      BY <1>1, <1>6, <1>10 DEF Reader
<1>13. Channel!Receive(p)
      BY <1>1, <1>5, <1>7, <1>8 DEF Channel!Receive, L
<1> QED BY <1>2, <1>4, <1>9, <1>11, <1>12, <1>13 DEF IInv

-----------------------------------------------------------------------------
(* The theorems. *)

LEMMA InitIInv == Init => IInv /\ Chan = << >> /\ delivered = << >>
<1> SUFFICES ASSUME Init PROVE IInv /\ Chan = << >> /\ delivered = << >>
    OBVIOUS
<1>1. /\ buf \in [Slots -> {<< NoPkt, 0 >>}] /\ wptr = 0 /\ rptr = 0
      /\ want = NoPkt /\ txPkt = NoPkt /\ txDone = 0 /\ txPtr = 0
      /\ rxPc = "idle" /\ rxLeft = 0 /\ rxPtr = 0 /\ rxBuf = << >> /\ delivered = << >>
      BY DEF Init
<1>2. 0 \in Slots /\ 0 \in 0 .. Size
      OBVIOUS
<1>3. << >> \in Seq(Cell \cup {<< NoPkt, 0 >>}) /\ Len(<< >>) = 0
      OBVIOUS
<1>4. Types
      BY <1>1, <1>2, <1>3 DEF Types
<1>5. Writer
      BY <1>1, <1>2 DEF Writer
<1>6. Distance(rptr, rxPtr) = 0 /\ Distance(rxPtr, wptr) = 0 /\ Distance(rptr, wptr) = 0
      BY <1>1 DEF Distance
<1>7. Reader
      BY <1>1, <1>6 DEF Reader
<1>8. Chan = << >>
  <2>1. Chan \in Seq(Byte) /\ Len(Chan) = 0
        BY <1>1, <1>3, <1>4, <1>6, ChanSeq DEF ChanFacts
  <2> QED BY <2>1, EmptySeq
<1>9. Whole(Chan)
      BY <1>3, <1>8 DEF Whole
<1> QED BY <1>1, <1>4, <1>5, <1>7, <1>8, <1>9 DEF IInv

\* Every step keeps IInv and is a step, or a stutter, of the packet channel.
LEMMA StepIInv ==
  ASSUME CallerWaits, IInv, [Next]_vars
  PROVE  /\ IInv'
         /\ [Channel!Next]_<< Chan, delivered >>
<1>1. ASSUME NEW p \in Packet, Request(p) PROVE IInv' /\ UNCHANGED << Chan, delivered >>
      BY <1>1, RequestIInv DEF Request, rxVars
<1>2. CASE TxRefuse
      BY <1>2, TxRefuseIInv DEF TxRefuse, rxVars
<1>3. CASE TxCall
      BY <1>3, TxCallIInv DEF TxCall, rxVars
<1>4. CASE TxByte
      BY <1>4, TxByteIInv DEF TxByte, rxVars
<1>5. CASE TxPublish
  <2>1. IInv' /\ txPkt \in Packet /\ Channel!Send(txPkt)
        BY <1>5, TxPublishIInv DEF Channel!Send
  <2> QED BY <2>1 DEF Channel!Next
<1>6. CASE RxPoll
      BY <1>6, RxPollIInv
<1>7. CASE RxByte
      BY <1>7, RxByteIInv
<1>8. CASE RxHeaderDone
      BY <1>8, RxHeaderDoneIInv
<1>9. CASE RxDispatch
      BY <1>9, RxDispatchIInv DEF Channel!Next
<1>10. CASE UNCHANGED vars
  <2>1. Types' /\ Writer' /\ Reader'
        BY <1>10 DEF IInv, Types, Writer, Reader, vars, txVars, rxVars, Distance, Ahead
  <2>2. Chan' = Chan /\ delivered' = delivered
        BY <2>1, <1>10, ChanUnchanged DEF IInv, vars, txVars, rxVars
  <2> QED BY <2>1, <2>2 DEF IInv, Whole
<1> QED BY <1>1, <1>2, <1>3, <1>4, <1>5, <1>6, <1>7, <1>8, <1>9, <1>10 DEF Next

\* IInv is inductive when every sender waits for room.
THEOREM InductiveInvariant == ASSUME CallerWaits PROVE Spec => []IInv
<1>1. Init => IInv
      BY InitIInv
<1>2. IInv /\ [Next]_vars => IInv'
      BY StepIInv
<1> QED BY <1>1, <1>2, PTL DEF Spec

\* Whatever the interleaving of the two processors, the bytes of ipcTx and ipcRx
\* and their pointers keep their types.
THEOREM TypeCorrect == ASSUME CallerWaits PROVE Spec => []TypeOK
<1>1. IInv => TypeOK
      BY DEF IInv, Types, Writer, TypeOK
<1> QED BY <1>1, InductiveInvariant, PTL

\* IPC_HandleRxPacket never takes payload for a type and a length byte.
THEOREM ReaderAlwaysInStep == ASSUME CallerWaits PROVE Spec => []ReaderInStep
<1>1. IInv => ReaderInStep
      BY DEF IInv, Types, ReaderInStep
<1> QED BY <1>1, InductiveInvariant, PTL

\* The test IPC_WaitBufferEnough spins on is strong enough to protect every byte
\* published and not yet copied.
THEOREM UnreadPreserved == ASSUME CallerWaits PROVE Spec => UnreadNeverOverwritten
<1> DEFINE Keep == \A s \in Unread : buf'[s] = buf[s]
<1>1. IInv /\ [Next]_vars => [Keep]_vars
  <2> SUFFICES ASSUME IInv, Next PROVE Keep
      OBVIOUS
  <2>1. CASE TxByte
    <3>1. ASSUME NEW i \in 0 .. Distance(rxPtr, wptr) - 1
          PROVE  buf'[Ahead(rxPtr, i)] = buf[Ahead(rxPtr, i)]
      <4>1. Distance(rxPtr, wptr) \in Nat /\ rxPtr \in Slots /\ i \in 0 .. Size
        <5>1. rxPtr \in Slots /\ wptr \in Slots
              BY DEF IInv, Types
        <5>2. Distance(rxPtr, wptr) \in 0 .. Size - 1
              BY <5>1, DistanceInRing
        <5> QED BY <5>1, <5>2
      <4>2. i + 1 \in 1 .. Distance(rxPtr, wptr) /\ (i + 1) - 1 = i
            BY <4>1
      <4>3. Ahead(rxPtr, (i + 1) - 1) # txPtr
            BY <4>2, <2>1, TxByteSlot
      <4>4. Ahead(rxPtr, i) # txPtr
            BY <4>2, <4>3
      <4>5. Ahead(rxPtr, i) \in Slots
            BY <4>1, AheadInRing
      <4> QED BY <4>4, <4>5, <2>1 DEF TxByte, IInv, Types
    <3> QED BY <3>1 DEF Unread
  <2>2. CASE ~ TxByte
    <3>1. buf' = buf
          BY <2>2 DEF Next, Request, TxRefuse, TxCall, TxPublish,
                      RxPoll, RxByte, RxHeaderDone, RxDispatch
    <3> QED BY <3>1
  <2> QED BY <2>1, <2>2
<1> QED BY <1>1, InductiveInvariant, PTL DEF UnreadNeverOverwritten, Spec

\* The ring of bytes implements the channel of packets: whole, once, in order.
THEOREM RefinesIpcChannel == ASSUME CallerWaits PROVE Spec => ImplementsChannel
<1>1. Init => Channel!Init
      BY InitIInv DEF Channel!Init
<1>2. IInv /\ [Next]_vars => [Channel!Next]_<< Chan, delivered >>
      BY StepIInv
<1> QED BY <1>1, <1>2, InductiveInvariant, PTL DEF Spec, ImplementsChannel, Channel!Spec
=============================================================================
