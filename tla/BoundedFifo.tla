---------------------------- MODULE BoundedFifo ----------------------------
(***************************************************************************)
(* What a user of drivers/keypad/yc_queue.c relies on: a first-in          *)
(* first-out queue of at most Capacity elements.  A Put on a full queue    *)
(* and a Get on an empty one are refused and change nothing, so they are   *)
(* stuttering steps here.                                                  *)
(***************************************************************************)
EXTENDS Naturals, Sequences

CONSTANTS Capacity,  \* greatest number of queued elements
          Element    \* the values that can be queued

VARIABLE fifo        \* the queued elements, oldest first

Init == fifo = << >>

Put(e) ==
  /\ Len(fifo) < Capacity
  /\ fifo' = Append(fifo, e)

Get ==
  /\ fifo # << >>
  /\ fifo' = Tail(fifo)

Clear == fifo' = << >>

Next ==
  \/ \E e \in Element : Put(e)
  \/ Get
  \/ Clear

Spec == Init /\ [][Next]_fifo
=============================================================================
