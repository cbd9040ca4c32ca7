---------------------------- MODULE MCHeadsetPower ----------------------------
(* A small instance of HeadsetPower: the ticks keep the order they have.     *)
EXTENDS HeadsetPower
=============================================================================
