----------------------------- MODULE KeyGestures -----------------------------
(***************************************************************************)
(* What the keypad promises the application: the events of each key come   *)
(* in gestures.  A gesture is a series of clicks that ends in one event    *)
(* for their number, or a hold that is reported stage by stage and ends    *)
(* with the event that names the stage it reached.                         *)
(***************************************************************************)
EXTENDS Naturals, Sequences

CONSTANTS Key,
          QueueLen    \* events the queue to the application holds

VARIABLES phase,      \* how far the gesture of each key is
          queue       \* events for the application: << key, event >>

vars == << phase, queue >>

Stage == {"held", "pressed", "long", "longlong"}
Phase == {"idle", "down", "up", "spent"} \cup Stage

\* What a hold of each stage is when it ends, and what reaching the next one reports.
Closing == [held |-> "TAP", pressed |-> "PRESS_RELEASE",
            long |-> "LONG_RELEASE", longlong |-> "LONGLONG_RELEASE"]
NextStage == [held |-> "pressed", pressed |-> "long", long |-> "longlong"]
Report == [held |-> "PRESS", pressed |-> "LONG_PRESS", long |-> "LONGLONG_PRESS"]

Clicks == {"TAP", "DOUBLE", "TRIPLE"}

Offer(q, e) == IF Len(q) < QueueLen THEN Append(q, e) ELSE q

Moves(k, p) == phase' = [phase EXCEPT ![k] = p]
Sends(k, e) == queue' = Offer(queue, << k, e >>)

Init == phase = [k \in Key |-> "idle"] /\ queue = << >>

Down(k) ==
  /\ phase[k] \in {"idle", "up"}
  /\ Moves(k, "down") /\ Sends(k, "DOWN")

Click(k) ==
  /\ phase[k] = "down"
  /\ Moves(k, "up") /\ Sends(k, "UP")

\* The key was still down when its clicks were reported: the last press is no gesture.
LetGo(k) ==
  /\ phase[k] = "spent"
  /\ Moves(k, "idle") /\ Sends(k, "UP")

Release(k) ==
  /\ phase[k] \in Stage
  /\ Moves(k, "idle")
  /\ queue' = Offer(Offer(queue, << k, "UP" >>), << k, Closing[phase[k]] >>)

Hold(k) ==
  /\ phase[k] = "down"
  /\ Moves(k, "held") /\ UNCHANGED queue

\* NON when another key's report has taken the clicks.
ReportClicks(k) ==
  \/ /\ phase[k] = "down" /\ Moves(k, "spent")
     /\ \E e \in Clicks : Sends(k, e)
  \/ /\ phase[k] = "up" /\ Moves(k, "idle")
     /\ \E e \in Clicks \cup {"NON"} : Sends(k, e)

ReportStage(k) ==
  /\ phase[k] \in DOMAIN NextStage
  /\ Moves(k, NextStage[phase[k]]) /\ Sends(k, Report[phase[k]])

Take == queue # << >> /\ queue' = Tail(queue) /\ UNCHANGED phase

Next ==
  \/ \E k \in Key : \/ Down(k) \/ Click(k) \/ LetGo(k) \/ Release(k)
                    \/ Hold(k) \/ ReportClicks(k) \/ ReportStage(k)
  \/ Take

Spec == Init /\ [][Next]_vars
=============================================================================
