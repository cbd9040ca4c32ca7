------------------------------ MODULE YcQueue ------------------------------
(***************************************************************************)
(* The ring queue of drivers/keypad/yc_queue.c that carries key events,    *)
(* LED events, voice-prompt events and decoded 8 kHz prompt blocks.        *)
(*                                                                         *)
(* A pointer into the array is modelled by the index of its slot.  The     *)
(* three cursors are independent fields in the code: pRead, pWrite and     *)
(* current_queue_len, nothing derives one from the others.                 *)
(*                                                                         *)
(* Delete_Queue does not copy: it returns a pointer to the slot it has     *)
(* just released, and the callers read through it later.  preinsert_Queue  *)
(* returns a pointer to a slot that already counts as queued and that the  *)
(* caller fills afterwards.  The variables held and reserved are those     *)
(* two pointers, in the caller's hands.                                    *)
(***************************************************************************)
EXTENDS Naturals, Sequences

CONSTANTS ArrayLen,    \* array_Len: number of slots
          Element,     \* values of an element
          LenModulus   \* current_queue_len wraps here: 256 for a uint8_t

ASSUME YcQueueAssumption ==
  /\ ArrayLen \in Nat \ {0}
  /\ LenModulus \in Nat
  /\ ArrayLen < LenModulus     \* every queue_init of the firmware: 4 to 14 slots
  /\ Element # {}

QueueSlots == 0 .. ArrayLen - 1
NoSlot == ArrayLen             \* the NULL pointer

VARIABLES mem,                 \* the array handed to queue_init
          pRead, pWrite, current_queue_len,
          reserved,            \* slot returned by preinsert_Queue, not yet filled
          held,                \* slot returned by the last Delete_Queue, until it is reused
          heldValue,           \* what that slot contained when it was returned
          slack                \* insertions that may still happen before it is reused

queueVars == << mem, pRead, pWrite, current_queue_len, reserved, held, heldValue, slack >>

queue_is_empty == current_queue_len = 0
\* Faulty variant for mutation: one element too many is let in.
FullLate == current_queue_len > ArrayLen
queue_is_full  == current_queue_len = ArrayLen

\* The cursor after slot p: the code adds unit_Len and compares with the end.
NextSlot(p) == IF p + 1 = ArrayLen THEN 0 ELSE p + 1

\* uint8_t arithmetic on current_queue_len.
LenPlusOne  == IF current_queue_len + 1 = LenModulus THEN 0 ELSE current_queue_len + 1
LenMinusOne == IF current_queue_len = 0 THEN LenModulus - 1 ELSE current_queue_len - 1

queue_init ==
  /\ mem \in [QueueSlots -> Element]     \* the array is not written by queue_init
  /\ pRead = 0
  /\ pWrite = 0
  /\ current_queue_len = 0
  /\ reserved = NoSlot
  /\ held = NoSlot
  /\ heldValue = mem[0]
  /\ slack = 0

\* A caller that keeps a pointer across queue_clear has lost it: the cursors
\* restart at slot 0 whatever slot the pointer designates.
queue_clear ==
  /\ reserved = NoSlot
  /\ pRead' = 0
  /\ pWrite' = 0
  /\ current_queue_len' = 0
  /\ held' = NoSlot
  /\ slack' = 0
  /\ UNCHANGED << mem, reserved, heldValue >>

\* One more slot is taken: the pointer in the caller's hands comes one insertion
\* closer to being reused, and is gone when none was left.
TakeSlot ==
  /\ pWrite' = NextSlot(pWrite)
  /\ current_queue_len' = LenPlusOne
  /\ IF slack = 0
     THEN held' = NoSlot /\ slack' = 0
     ELSE held' = held /\ slack' = slack - 1
  /\ UNCHANGED << pRead, heldValue >>

\* Faulty variant for mutation: the cursor advances before the element is copied.
InsertAhead(e) ==
  /\ reserved = NoSlot
  /\ ~ queue_is_full
  /\ mem' = [mem EXCEPT ![NextSlot(pWrite)] = e]
  /\ TakeSlot
  /\ UNCHANGED reserved

Insert_Queue(e) ==
  /\ reserved = NoSlot
  /\ ~ queue_is_full
  /\ mem' = [mem EXCEPT ![pWrite] = e]
  /\ TakeSlot
  /\ UNCHANGED reserved

preinsert_Queue ==
  /\ reserved = NoSlot
  /\ ~ queue_is_full
  /\ reserved' = pWrite
  /\ TakeSlot
  /\ UNCHANGED mem

\* The caller of preinsert_Queue writes the element through the pointer it got.
FillReserved(e) ==
  /\ reserved # NoSlot
  /\ mem' = [mem EXCEPT ![reserved] = e]
  /\ reserved' = NoSlot
  /\ UNCHANGED << pRead, pWrite, current_queue_len, held, heldValue, slack >>

Delete_Queue ==
  /\ reserved = NoSlot
  /\ ~ queue_is_empty
  /\ held' = pRead
  /\ heldValue' = mem[pRead]
  /\ slack' = ArrayLen - LenMinusOne - 1
  /\ pRead' = NextSlot(pRead)
  /\ current_queue_len' = LenMinusOne
  /\ UNCHANGED << mem, pWrite, reserved >>

QueueInit == queue_init

QueueNext ==
  \/ queue_clear
  \/ \E e \in Element : Insert_Queue(e)
  \/ preinsert_Queue
  \/ \E e \in Element : FillReserved(e)
  \/ Delete_Queue

QueueSpec == QueueInit /\ [][QueueNext]_queueVars
-----------------------------------------------------------------------------
QueueTypeOK ==
  /\ mem \in [QueueSlots -> Element]
  /\ pRead \in QueueSlots
  /\ pWrite \in QueueSlots
  /\ current_queue_len \in 0 .. ArrayLen
  /\ reserved \in QueueSlots \cup {NoSlot}
  /\ held \in QueueSlots \cup {NoSlot}
  /\ heldValue \in Element
  /\ slack \in 0 .. ArrayLen - 1

\* The slot of the i-th queued element, counting from the oldest one.
SlotOf(i) ==
  IF pRead + (i - 1) < ArrayLen THEN pRead + (i - 1) ELSE pRead + (i - 1) - ArrayLen

\* The element being reserved is counted by current_queue_len but is not yet
\* part of what the queue promises.
Committed == IF reserved = NoSlot THEN current_queue_len ELSE current_queue_len - 1

Contents == [i \in 1 .. Committed |-> mem[SlotOf(i)]]

\* The three cursors agree: the write cursor is current_queue_len slots after
\* the read cursor, and a reserved slot is the last one counted.  Insert_Queue,
\* preinsert_Queue and Delete_Queue each update two of them by hand.
CursorsAgree ==
  /\ pWrite = IF pRead + current_queue_len < ArrayLen
              THEN pRead + current_queue_len
              ELSE pRead + current_queue_len - ArrayLen
  /\ reserved # NoSlot => /\ current_queue_len > 0
                          /\ reserved = SlotOf(current_queue_len)

\* A caller may read through the pointer Delete_Queue gave it as long as no more
\* elements were inserted since than the queue had free slots besides that one:
\* until then the slot keeps the deleted element.  With a queue that was full
\* there is no such slot and the very next insertion overwrites the element.
DeletedElementReadable ==
  held # NoSlot => mem[held] = heldValue

\* The concrete queue implements the bounded first-in first-out queue.
Fifo == INSTANCE BoundedFifo WITH Capacity <- ArrayLen, fifo <- Contents
ImplementsFifo == Fifo!Spec
=============================================================================
