----------------------------- MODULE MCYcQueue -----------------------------
(***************************************************************************)
(* Instance of YcQueue for TLC: four slots, the size of the smallest queue *)
(* of the firmware, so that both cursors wrap and the queue runs full and  *)
(* empty at every alignment; two values are enough to tell a stale element *)
(* from a fresh one.                                                       *)
(***************************************************************************)
EXTENDS YcQueue
=============================================================================
