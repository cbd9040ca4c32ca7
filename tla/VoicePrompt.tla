---------------------------- MODULE VoicePrompt ----------------------------
(***************************************************************************)
(* Voice prompts (drivers/voicePrompt/yc_voiceprompt.c): the queue of      *)
(* prompt events, the player that streams one prompt after the other from  *)
(* flash to the DAC, and the low-power lock it holds meanwhile; together   *)
(* with what acts on them from outside: the power-off sequence of          *)
(* Drv_bt.c, the PA delay timer, and bt_hfp.c, which silences the player   *)
(* on a call indicator.                                                    *)
(*                                                                         *)
(* Everything here runs in the main loop, one handler after the other; the *)
(* DAC alone runs beside it.  The handlers come in any order, which        *)
(* contains the order main() calls them in.                                *)
(*                                                                         *)
(* The DAC holds samples in quarters of its 3600 byte ring, rounded down:  *)
(* a 300 byte block of a prompt becomes 1800 bytes, two quarters, and      *)
(* 0x700, the level up to which the ring is refilled, lies just under two. *)
(* A DAC that is stopped has its read pointer at the start address the     *)
(* code writes; so the code must assume, which expects the two pointers to *)
(* meet without starting the DAC again.                                    *)
(***************************************************************************)
EXTENDS Naturals, Sequences

CONSTANTS Tone,       \* prompts read from flash, "POWEROFF" among them
          Digit,      \* those that are digits of a phone number
          Blocks,     \* Blocks[t]: blocks of 300 bytes in the prompt t
          Number,     \* phone numbers, as sequences of Digit
          QueueCap,   \* events gVpEvtHeader holds
          DataCap     \* blocks gVp8KDataHeader holds

ASSUME VoicePromptAssumption ==
  /\ "POWEROFF" \in Tone /\ Digit \subseteq Tone \ {"POWEROFF"}
  /\ {"POPDOWN", "POPUP"} \cap Tone = {}
  /\ Blocks \in [Tone -> Nat] /\ Number \subseteq Seq(Digit) \ {<< >>}
  /\ QueueCap \in Nat \ {0} /\ DataCap \in Nat \ {0}

VARIABLES evtQ,      \* gVpEvtHeader, oldest first
          player,    \* registers and globals of the player, see Idle
          incoming,  \* Bt_CheckHFPIsIncomming()
          paTimer,   \* gClosePaDelayTimer is armed
          topState,  \* gBRState.topState: "low" stands for those below BR_POWER_ON
          hung       \* error_handle() was called: the watchdog will bite

vars == << evtQ, player, incoming, paTimer, topState, hung >>

Idle == [type     |-> "tone",    \* gVP_type: "tone" 0, "POPDOWN" 5, "POPUP" 6
         enable   |-> FALSE,     \* VP_ENABLE
         stopNext |-> FALSE,     \* gVpparams.sStopNext
         lpm      |-> FALSE,     \* VP_LPM_FLAG in M0_LPM_REG
         powered  |-> FALSE,     \* register 0x8980 holds 0x85
         running  |-> FALSE,     \* bit 0 of register 0x8106
         level    |-> 0,         \* 0x8104 minus 0x836a
         left     |-> 0,         \* blocks still in flash
         data     |-> 0]         \* blocks in gVp8KDataHeader

Init ==
  /\ evtQ = << >>
  /\ player = Idle
  /\ incoming = FALSE
  /\ paTimer = FALSE
  /\ topState = "low"
  /\ hung = FALSE
-----------------------------------------------------------------------------
(* VP_CheckGetData: what becomes of the player p when q is the event queue. *)

\* The lock is kept, and the player stays enabled, when there is more to play.
Silence(p, q) ==
  [p EXCEPT !.stopNext = FALSE, !.enable = q # << >>, !.lpm = q # << >>]

PopDownEnd(p, q) == [Silence(p, q) EXCEPT !.type = "tone"]

\* Faulty variant for mutation: the next prompt is not let through.
PopUpEndStuck(p) ==
  [p EXCEPT !.type = "tone", !.running = FALSE, !.powered = FALSE,
            !.lpm = FALSE, !.enable = FALSE]

PopUpEnd(p) ==
  [p EXCEPT !.type = "tone", !.stopNext = FALSE, !.running = FALSE,
            !.powered = FALSE, !.lpm = FALSE, !.enable = FALSE]

\* Blocks are read from flash while there are any and the data queue has room.
Fill(p) ==
  LET room == DataCap - p.data
      n == IF p.left < room THEN p.left ELSE room
  IN  [p EXCEPT !.left = @ - n, !.data = @ + n]

\* Faulty variant for mutation: the ring is refilled when it is more than half full.
FeedTooSoon(p, q) ==
  LET f == Fill(p) IN
  IF f.level > 2 THEN f
  ELSE IF f.data = 0 THEN Silence(f, q)
  ELSE [f EXCEPT !.data = @ - 1, !.level = @ + 2]

\* One block goes to the DAC when there is room; a prompt without any is over.
Feed(p, q) ==
  LET f == Fill(p) IN
  IF f.level > 1 THEN f
  ELSE IF f.data = 0 THEN Silence(f, q)
  ELSE [f EXCEPT !.data = @ - 1, !.level = @ + 2]

VP_CheckGetData(p, q) ==
  CASE ~ p.enable                          -> p
    [] p.enable /\ p.type = "tone"         -> Feed(p, q)
    [] p.enable /\ p.type # "tone" /\ p.level > 0 -> p
    [] p.enable /\ p.type = "POPDOWN" /\ p.level = 0 -> PopDownEnd(p, q)
    [] p.enable /\ p.type = "POPUP" /\ p.level = 0   -> PopUpEnd(p)
-----------------------------------------------------------------------------
(* VP_play_voice: what becomes of p when ind is played and q is the queue. *)

\* The part common to all prompts: the DAC is stopped and the player taken over.
TakeOver(p) ==
  [p EXCEPT !.lpm = TRUE, !.enable = TRUE, !.stopNext = TRUE,
            !.running = FALSE, !.level = 0, !.data = 0]

\* A DAC that is powered already is not ramped, and not started either.
PlayPopDown(p) ==
  IF p.powered
  THEN [TakeOver(p) EXCEPT !.type = "POPDOWN"]
  ELSE [TakeOver(p) EXCEPT !.type = "POPDOWN", !.running = TRUE, !.level = 1,
                           !.powered = TRUE]

PlayPopUp(p) ==
  [TakeOver(p) EXCEPT !.type = "POPUP", !.running = TRUE, !.level = 1,
                      !.powered = FALSE]

\* Faulty variant for mutation: the low-power lock is not taken.
PlayToneUnlocked(ind, p, q) ==
  [VP_CheckGetData([TakeOver(p) EXCEPT !.left = Blocks[ind], !.lpm = p.lpm], q)
     EXCEPT !.running = TRUE, !.powered = TRUE]

\* gVP_type is left as it is: VP_CheckGetData may still take a tone for a ramp.
PlayTone(ind, p, q) ==
  [VP_CheckGetData([TakeOver(p) EXCEPT !.left = Blocks[ind]], q)
     EXCEPT !.running = TRUE, !.powered = TRUE]

VP_play_voice(ind, p, q) ==
  CASE ind = "POPDOWN"                   -> PlayPopDown(p)
    [] ind = "POPUP"                     -> PlayPopUp(p)
    [] ind \in Digit /\ ~ incoming       -> p
    [] OTHER                             -> PlayTone(ind, p, q)
-----------------------------------------------------------------------------
(* VP_snd_voiceEvt. *)

\* Insert_Queue fails on a full queue, and error_handle() never returns.
Enqueue(q) ==
  /\ evtQ' = IF Len(q) <= QueueCap THEN q ELSE evtQ
  /\ hung' = (Len(q) > QueueCap)

\* A tone for a DAC that is off is preceded by the ramp, unless the ramp is the
\* next event.  With an empty queue the code looks at an uninitialised variable:
\* garbage tells whether it happens to hold VP_POPDOWN.
Sent(q, ind, powered, garbage) ==
  LET ramped == IF q = << >> THEN garbage ELSE Head(q) = "POPDOWN"
  IN  IF ind \in Tone /\ ~ powered /\ ~ ramped
      THEN q \o << "POPDOWN", ind >>
      ELSE Append(q, ind)

VP_snd_voiceEvt(ind) ==
  /\ \E garbage \in BOOLEAN : Enqueue(Sent(evtQ, ind, player.powered, garbage))
  /\ paTimer' = FALSE
  /\ UNCHANGED player

\* Faulty variant for mutation: POWEROFF is queued like any other prompt.
QueuePowerOff ==
  /\ evtQ' = << "POWEROFF", "POPUP" >>
  /\ paTimer' = FALSE
  /\ UNCHANGED << player, hung >>

\* POWEROFF is not queued: it, or the ramp before it, is played at once.
VP_snd_powerOff ==
  /\ player' = IF player.powered THEN VP_play_voice("POWEROFF", player, << >>)
                                 ELSE VP_play_voice("POPDOWN", player, << >>)
  /\ evtQ' = IF player.powered THEN << "POPUP" >> ELSE << "POWEROFF" >>
  /\ paTimer' = FALSE
  /\ UNCHANGED hung
-----------------------------------------------------------------------------
(* Who sends events. *)

Alive == ~ hung /\ topState # "off"

\* Connected, disconnected, powered on, low battery, pairing.
Announce(ind) ==
  /\ Alive
  /\ topState = "on"
  /\ VP_snd_voiceEvt(ind)
  /\ UNCHANGED << incoming, topState >>

\* What VP_snd_voiceEvt makes of an empty queue, called for every digit of n: the
\* ramp goes in once; or, with garbage at the first digit, before all the others.
Dialled(n, powered, garbage) ==
  CASE powered                -> n
    [] ~ powered /\ ~ garbage -> << "POPDOWN" >> \o n
    [] ~ powered /\ garbage   ->
         [i \in 1 .. 2 * Len(n) - 1 |->
            IF i % 2 = 1 THEN n[(i + 1) \div 2] ELSE "POPDOWN"]

\* BT_EVT_PHONE_NUM is dropped while prompts are waiting.  A digit above 9 ends in
\* error_handle() as well; what was queued before it is lost to the restart.
PhoneNum(n) ==
  /\ Alive
  /\ topState = "on"
  /\ evtQ = << >>
  /\ \/ \E garbage \in BOOLEAN : Enqueue(Dialled(n, player.powered, garbage))
     \/ hung' = TRUE /\ UNCHANGED evtQ
  /\ paTimer' = FALSE
  /\ UNCHANGED << player, incoming, topState >>

\* AVDTP START and ESCO START: the DAC is ramped for the audio that follows.
AudioStart ==
  /\ Alive
  /\ \/ /\ topState = "on"
        /\ VP_snd_voiceEvt("POPDOWN")
     \/ /\ topState # "on"
        /\ paTimer' = FALSE
        /\ UNCHANGED << evtQ, player, hung >>
  /\ UNCHANGED << incoming, topState >>

\* BT_EVT_CLOSE_ADAC arms the PA delay timer.
Bt_ClosePaDelay ==
  /\ Alive
  /\ paTimer' = TRUE
  /\ UNCHANGED << evtQ, player, incoming, topState, hung >>

\* It expires: the DAC is ramped down, in every topState, unless audio plays.
Bt_CBClosePaDelay ==
  /\ Alive
  /\ paTimer
  /\ \/ VP_snd_voiceEvt("POPUP")
     \/ /\ paTimer' = FALSE
        /\ UNCHANGED << evtQ, player, hung >>
  /\ UNCHANGED << incoming, topState >>

CallState ==
  /\ Alive
  /\ incoming' = ~ incoming
  /\ UNCHANGED << evtQ, player, paTimer, topState, hung >>

\* Faulty variant for mutation: gVpparams is not cleared.
CievKeepsParams ==
  /\ Alive
  /\ player.enable
  /\ player' = [player EXCEPT !.running = FALSE, !.enable = FALSE]
  /\ evtQ' = << >>
  /\ UNCHANGED << incoming, paTimer, topState, hung >>

\* A +CIEV that leaves a call active and nothing else silences the player.
\* The lock, gVP_type and the data queue stay as they are.
HFP_handle_result_ciev ==
  /\ Alive
  /\ player.enable
  /\ player' = [player EXCEPT !.running = FALSE, !.enable = FALSE,
                              !.stopNext = FALSE, !.left = 0]
  /\ evtQ' = << >>
  /\ UNCHANGED << incoming, paTimer, topState, hung >>
-----------------------------------------------------------------------------
(* Power. *)

Bt_PowerOn ==
  /\ Alive
  /\ topState = "low"
  /\ topState' = "on"
  /\ UNCHANGED << evtQ, player, incoming, paTimer, hung >>

Bt_SndCmdWaitPwroff ==
  /\ Alive
  /\ topState = "on"
  /\ VP_snd_powerOff
  /\ topState' = "wait"
  /\ UNCHANGED incoming

\* Bt_CheckWaitPwroff and Bt_CBAutoPwroff: nothing holds the low-power lock.
Bt_SndCmdPwroff ==
  /\ Alive
  /\ topState \in {"low", "wait"}
  /\ ~ player.lpm
  /\ topState' = "off"
  /\ UNCHANGED << evtQ, player, incoming, paTimer, hung >>

Boot ==
  /\ evtQ' = << >>
  /\ player' = Idle
  /\ incoming' = FALSE /\ paTimer' = FALSE
  /\ topState' = "low" /\ hung' = FALSE

\* A key wakes the chip from hibernation.
WakeUp == topState = "off" /\ Boot

\* Nobody kicks the watchdog any more.
Watchdog == hung /\ Boot
-----------------------------------------------------------------------------
(* The player. *)

VP_polling_Queue ==
  /\ Alive
  /\ LET p == VP_CheckGetData(player, evtQ)
         next == ~ p.stopNext /\ evtQ # << >>
     IN  /\ player' = IF next THEN VP_play_voice(Head(evtQ), p, Tail(evtQ)) ELSE p
         /\ evtQ' = IF next THEN Tail(evtQ) ELSE evtQ
  /\ UNCHANGED << incoming, paTimer, topState, hung >>

\* The DAC plays a quarter of its ring.
Dac ==
  /\ Alive
  /\ player.running
  /\ player.level > 0
  /\ player' = [player EXCEPT !.level = @ - 1]
  /\ UNCHANGED << evtQ, incoming, paTimer, topState, hung >>

Next ==
  \/ \E ind \in Tone \ (Digit \cup {"POWEROFF"}) : Announce(ind)
  \/ \E n \in Number : PhoneNum(n)
  \/ AudioStart \/ Bt_ClosePaDelay \/ Bt_CBClosePaDelay
  \/ CallState \/ HFP_handle_result_ciev
  \/ Bt_PowerOn \/ Bt_SndCmdWaitPwroff \/ Bt_SndCmdPwroff \/ WakeUp \/ Watchdog
  \/ VP_polling_Queue \/ Dac

\* The main loop polls, the DAC plays, the watchdog bites, and Bt_CBAutoPwroff
\* rearms its own timer until it can power off.  No event has to come.
Spec == Init /\ [][Next]_vars
             /\ WF_vars(VP_polling_Queue) /\ WF_vars(Dac) /\ WF_vars(Bt_SndCmdPwroff)
             /\ WF_vars(Watchdog)
-----------------------------------------------------------------------------
\* The DAC's ring has four quarters, one of which stays free: it is never filled
\* past its read pointer.
Player == [type : {"tone", "POPDOWN", "POPUP"}, enable : BOOLEAN,
           stopNext : BOOLEAN, lpm : BOOLEAN, powered : BOOLEAN,
           running : BOOLEAN, level : 0 .. 3, left : Nat, data : 0 .. DataCap]

Ind == Tone \cup {"POPDOWN", "POPUP"}     \* VP_INDEX

TypeOK ==
  /\ evtQ \in Seq(Ind) /\ Len(evtQ) <= QueueCap
  /\ player \in Player
  /\ incoming \in BOOLEAN /\ paTimer \in BOOLEAN /\ hung \in BOOLEAN
  /\ topState \in {"low", "on", "wait", "off"}

\* The chip never sleeps under a player: VP_LPM_FLAG is held from VP_play_voice to
\* the moment the player stops, whichever of its five ends it takes and whatever
\* interrupts it.
LockedWhilePlaying == player.enable => player.lpm

\* sStopNext, which holds the event queue back, is up only while VP_CheckGetData
\* still runs and can take it down: VP_polling_Queue is never blocked for good.
BlockedOnlyWhileEnabled == player.stopNext => player.enable

\* The headset does not hibernate before the power-off prompt: when M0 gives the
\* command, the prompt is not waiting behind a ramp and no prompt is playing.
OffAfterPrompt ==
  topState = "off" => ~ player.enable /\ \A i \in 1 .. Len(evtQ) : evtQ[i] # "POWEROFF"

\* Prompts that wait are taken from the queue, again and again.
QueueServed ==
  \/ []<>(evtQ = << >> \/ ~ Alive)
  \/ []<><< VP_polling_Queue /\ evtQ' # evtQ >>_vars

\* Drv_bt.c on the timer Bt_CBAutoPwroff sets again while a lock is held: "for
\* disconect link/enter hibernate delay some time".  The delay ends: a headset that
\* is being switched off does switch off, once the core no longer asks for the DAC
\* to be ramped down.
PowerOffDelayEnds == <>[] ~ paTimer => (topState = "wait" ~> topState # "wait")
=============================================================================
