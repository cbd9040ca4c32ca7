----------------------------- MODULE MCIpcRing -----------------------------
(***************************************************************************)
(* IpcRing for TLC.  A ring of seven bytes with packets of three and four  *)
(* bytes: packets straddle the end of the ring at every alignment, two     *)
(* packets fill it so that a waiting sender really waits, and a packet     *)
(* without payload is refused.                                             *)
(***************************************************************************)
EXTENDS IpcRing

CONSTANTS cmd, ble, nil

MCPacket == {cmd, ble, nil}
MCPktLen == [p \in MCPacket |-> CASE p = cmd -> 3 [] p = ble -> 4 [] p = nil -> 2]
=============================================================================
