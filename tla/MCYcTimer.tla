----------------------------- MODULE MCYcTimer -----------------------------
(***************************************************************************)
(* YcTimer for TLC: two single-shot timers on the M0's tick and a cyclic   *)
(* one on the core's, so that a callback can unlink the visited node, its  *)
(* successor or a node before it, and push one of them back in front.      *)
(***************************************************************************)
EXTENDS YcTimer

CONSTANTS key, led, bat

MCTimer == {key, led, bat}
MCKind == [t \in MCTimer |-> IF t = bat THEN "cycle" ELSE "single"]
MCBase == [t \in MCTimer |-> IF t = bat THEN "bt" ELSE "m0"]
MCTicks == [t \in MCTimer |-> IF t = key THEN {1, 2} ELSE {1}]
=============================================================================
