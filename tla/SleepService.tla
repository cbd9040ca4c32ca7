--------------------------- MODULE SleepService ---------------------------
(***************************************************************************)
(* What the firmware of the M0 and that of the Bluetooth core expect of    *)
(* the power states they share: going to sleep loses nothing that one has  *)
(* sent to the other, the first thing the M0 hears after waking is that it *)
(* woke, and the chip is shut down by a command that waited for its turn.  *)
(***************************************************************************)
EXTENDS Naturals, Sequences

CONSTANTS Command, Event

VARIABLES power,      \* "on", "asleep" or "off"
          commands,   \* on their way from the M0 to the core's command handler
          events      \* on their way from the core to the M0

vars == << power, commands, events >>

\* The first power-up: the core reports a reset.
Init == power = "on" /\ commands = << >> /\ events = << "reset" >>

Send(c) ==
  /\ power = "on"
  /\ commands' = Append(commands, c)
  /\ UNCHANGED << power, events >>

Execute ==
  /\ power = "on"
  /\ commands # << >> /\ Head(commands) # "hibernate"
  /\ commands' = Tail(commands)
  /\ UNCHANGED << power, events >>

Notify(e) ==
  /\ power = "on"
  /\ events' = Append(events, e)
  /\ UNCHANGED << power, commands >>

Handle ==
  /\ power = "on"
  /\ events # << >>
  /\ events' = Tail(events)
  /\ UNCHANGED << power, commands >>

Sleep ==
  /\ power = "on"
  /\ commands = << >> /\ events = << >>
  /\ power' = "asleep"
  /\ UNCHANGED << commands, events >>

Wake ==
  /\ power = "asleep"
  /\ power' = "on"
  /\ events' = << "wakeup" >>
  /\ UNCHANGED commands

\* The command was the last one the M0 sent; what it had not heard is void.
Hibernate ==
  /\ power = "on"
  /\ commands = << "hibernate" >>
  /\ power' = "off"
  /\ commands' = << >> /\ events' = << >>

ColdBoot ==
  /\ power = "off"
  /\ power' = "on"
  /\ events' = << "reset" >>
  /\ UNCHANGED commands

Next ==
  \/ \E c \in Command : Send(c)
  \/ Execute
  \/ \E e \in Event : Notify(e)
  \/ Handle
  \/ Sleep \/ Wake \/ Hibernate \/ ColdBoot

Spec == Init /\ [][Next]_vars
=============================================================================
