---------------------------- MODULE LedIndicator ----------------------------
(***************************************************************************)
(* What the LED driver promises the rest of the firmware: alerts are shown *)
(* one at a time and in the order they were raised, over a background that *)
(* comes back after them.  Some requests wipe everything else away; no     *)
(* other one takes an alert off the LEDs or out of the queue.              *)
(***************************************************************************)
EXTENDS Sequences

CONSTANTS Alert,        \* what can be raised
          Background,   \* what can be asked for as a background
          Wiping,       \* those of them that come with a wipe
          Nothing       \* neither of them

VARIABLES showing,      \* the alert on the LEDs, or Nothing
          pending,      \* alerts raised and not yet shown
          background    \* what is shown when no alert is

vars == << showing, pending, background >>

Init == showing = Nothing /\ pending = << >> /\ background = Nothing

Raise(a) == pending' = Append(pending, a) /\ UNCHANGED << showing, background >>

Ask(b) == background' = b /\ UNCHANGED << showing, pending >>

\* Everything goes dark, before the alerts q or the background b.
Wipe(q, b) == showing' = Nothing /\ pending' = q /\ background' = b

Begin ==
  /\ showing = Nothing /\ pending # << >>
  /\ showing' = Head(pending) /\ pending' = Tail(pending)
  /\ UNCHANGED background

End == showing # Nothing /\ showing' = Nothing /\ UNCHANGED << pending, background >>

Next ==
  \/ \E a \in Alert \ Wiping : Raise(a)
  \/ \E b \in Background \ Wiping : Ask(b)
  \/ \E a \in Alert \cap Wiping : Wipe(<< a >>, Nothing)
  \/ \E b \in Background \cap Wiping : Wipe(<< >>, b)
  \/ Wipe(<< >>, Nothing) \/ Begin \/ End

Spec == Init /\ [][Next]_vars
=============================================================================
