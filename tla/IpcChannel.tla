----------------------------- MODULE IpcChannel -----------------------------
(***************************************************************************)
(* What the two processors expect from one direction of the shared-memory  *)
(* IPC of drivers/bt/yc11xx_bt.c: packets come out whole, once each and in *)
(* the order they went in.                                                 *)
(*                                                                         *)
(* Cell << p, i >> is byte i of packet p.  Packets are written to and      *)
(* taken from a sequence of bytes, as the ring has no packet boundaries.   *)
(***************************************************************************)
EXTENDS Naturals, Sequences

CONSTANTS Packet,    \* the packets
          PktLen     \* PktLen[p]: bytes of packet p, its two header bytes included

VARIABLES chan,      \* the bytes sent and not yet handed over, oldest first
          delivered  \* the bytes of the packet handed over last

\* All bytes of packet p, in order.
Cells(p) == [i \in 1 .. PktLen[p] |-> << p, i >>]

Init == chan = << >> /\ delivered = << >>

Send(p) ==
  /\ chan' = chan \o Cells(p)
  /\ UNCHANGED delivered

Receive(p) ==
  /\ Len(chan) >= PktLen[p]
  /\ SubSeq(chan, 1, PktLen[p]) = Cells(p)
  /\ chan' = SubSeq(chan, PktLen[p] + 1, Len(chan))
  /\ delivered' = Cells(p)

Next == \E p \in Packet : Send(p) \/ Receive(p)

Spec == Init /\ [][Next]_<< chan, delivered >>
=============================================================================
