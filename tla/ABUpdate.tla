------------------------------ MODULE ABUpdate ------------------------------
(***************************************************************************)
(* An update with two places for the program: the device boots the old     *)
(* image until a new one is there and has passed its check, then the new   *)
(* one.  Only a power failure while the pointer to the image is being      *)
(* replaced can leave it with none.                                        *)
(***************************************************************************)
CONSTANTS Image, None

VARIABLES boots,      \* the image the device boots, or None
          ready,      \* the image that passed its check and has not been given up, or None
          switching   \* the pointer to the image is being replaced

vars == << boots, ready, switching >>

Init == boots \in Image /\ ready = None /\ switching = FALSE

Pass(i) == ready = None /\ ready' = i /\ UNCHANGED << boots, switching >>

GiveUp == ready # None /\ ~ switching /\ ready' = None /\ UNCHANGED << boots, switching >>

Switch == ready # None /\ switching' = TRUE /\ UNCHANGED << boots, ready >>

Replace ==
  /\ switching
  /\ boots' \in {None, ready}
  /\ UNCHANGED << ready, switching >>

Restart ==
  /\ switching /\ boots = ready
  /\ switching' = FALSE /\ ready' = None
  /\ UNCHANGED boots

PowerFailure ==
  /\ switching' = FALSE /\ ready' = None
  /\ boots' \in IF switching THEN {boots, None, ready} ELSE {boots}

Next ==
  \/ \E i \in Image : Pass(i)
  \/ GiveUp \/ Switch \/ Replace \/ Restart \/ PowerFailure

Spec == Init /\ [][Next]_vars
=============================================================================
