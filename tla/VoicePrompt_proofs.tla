------------------------- MODULE VoicePrompt_proofs -------------------------
(***************************************************************************)
(* Proofs about VoicePrompt, for every set of prompts, every length of     *)
(* them and every capacity of the two queues.                              *)
(*                                                                         *)
(* The player is a record that VP_CheckGetData and VP_play_voice map to    *)
(* another, so the argument is about these two functions: both keep a      *)
(* player well-formed (Good).  The steps of the system are then short.     *)
(***************************************************************************)
EXTENDS VoicePrompt, TLAPS

\* A player that holds the lock while enabled, and is enabled while it blocks.
Good(p) ==
  /\ p \in Player
  /\ p.enable => p.lpm
  /\ p.stopNext => p.enable

\* The power-off prompt is in the queue only as the first event, with the player
\* busy ramping the DAC for it.
RampFirst ==
  \A i \in 1 .. Len(evtQ) :
    evtQ[i] = "POWEROFF" => i = 1 /\ topState = "wait" /\ player.enable

IInv ==
  /\ TypeOK
  /\ Good(player)
  /\ RampFirst
  /\ topState = "off" => ~ player.enable
-----------------------------------------------------------------------------
(* The player. *)

LEMMA SilenceGood ==
  ASSUME NEW p, Good(p), NEW q
  PROVE  Good(Silence(p, q))
BY DEF Good, Player, Silence

\* Reading ahead never overfills the data queue.
LEMMA FillGood ==
  ASSUME NEW p, Good(p)
  PROVE  /\ Good(Fill(p))
         /\ Fill(p).level = p.level
<1> DEFINE room == DataCap - p.data
           n == IF p.left < room THEN p.left ELSE room
<1>1. /\ p.left \in Nat /\ p.data \in 0 .. DataCap /\ DataCap \in Nat
  BY VoicePromptAssumption DEF Good, Player
<1>2. n \in Nat /\ p.left - n \in Nat /\ p.data + n \in 0 .. DataCap
  BY <1>1
<1>3. Fill(p) = [p EXCEPT !.left = p.left - n, !.data = p.data + n]
  BY DEF Fill, Good, Player
<1> HIDE DEF n
<1> QED BY <1>2, <1>3 DEF Good, Player

\* The level test leaves room for the two quarters of a block.
LEMMA FeedGood ==
  ASSUME NEW p, Good(p), NEW q
  PROVE  Good(Feed(p, q))
<1> DEFINE f == Fill(p)
<1>1. Good(f)
  BY FillGood
<1>2. Good(Silence(f, q))
  BY <1>1, SilenceGood
<1> HIDE DEF f
<1>3. ASSUME ~ f.level > 1, f.data # 0
      PROVE  Good([f EXCEPT !.data = @ - 1, !.level = @ + 2])
  <2>1. f.level \in 0 .. 3 /\ f.data \in 0 .. DataCap /\ DataCap \in Nat
    BY <1>1, VoicePromptAssumption DEF Good, Player
  <2>2. f.level + 2 \in 0 .. 3 /\ f.data - 1 \in 0 .. DataCap
    BY <1>3, <2>1
  <2> QED BY <1>1, <2>2 DEF Good, Player
<1>4. Feed(p, q) = IF f.level > 1 THEN f
                   ELSE IF f.data = 0 THEN Silence(f, q)
                   ELSE [f EXCEPT !.data = @ - 1, !.level = @ + 2]
  BY DEF Feed, f
<1> QED BY <1>1, <1>2, <1>3, <1>4

LEMMA CheckGetDataGood ==
  ASSUME NEW p, Good(p), NEW q
  PROVE  Good(VP_CheckGetData(p, q))
<1>1. CASE ~ p.enable
  BY <1>1 DEF VP_CheckGetData
<1>2. CASE p.enable /\ p.type = "tone"
  <2>1. VP_CheckGetData(p, q) = Feed(p, q)
    BY <1>2 DEF VP_CheckGetData
  <2> QED BY <2>1, FeedGood
<1>3. CASE p.enable /\ p.type # "tone" /\ p.level > 0
  <2>1. VP_CheckGetData(p, q) = p
    <3>1. p.level # 0
      BY <1>3 DEF Good, Player
    <3> QED BY <1>3, <3>1 DEF VP_CheckGetData
  <2> QED BY <2>1
<1>4. CASE p.enable /\ p.type = "POPDOWN" /\ p.level = 0
  <2>1. VP_CheckGetData(p, q) = PopDownEnd(p, q)
    BY <1>4 DEF VP_CheckGetData
  <2>2. Good(PopDownEnd(p, q))
    BY SilenceGood DEF PopDownEnd, Good, Player
  <2> QED BY <2>1, <2>2
<1>5. CASE p.enable /\ p.type = "POPUP" /\ p.level = 0
  <2>1. VP_CheckGetData(p, q) = PopUpEnd(p)
    BY <1>5 DEF VP_CheckGetData
  <2>2. Good(PopUpEnd(p))
    BY DEF PopUpEnd, Good, Player
  <2> QED BY <2>1, <2>2
<1>6. p.type \in {"tone", "POPDOWN", "POPUP"} /\ p.level \in 0 .. 3
  BY DEF Good, Player
<1>7. p.level = 0 \/ p.level > 0
  BY <1>6
<1> QED BY <1>1, <1>2, <1>3, <1>4, <1>5, <1>6, <1>7

LEMMA PlayGood ==
  ASSUME NEW p, Good(p), NEW ind \in Ind, NEW q
  PROVE  Good(VP_play_voice(ind, p, q))
<1> DEFINE o == TakeOver(p)
<1>1. Good(o) /\ o.enable /\ o.lpm
  <2>1. p \in Player /\ 0 \in 0 .. DataCap /\ 0 \in 0 .. 3
    BY VoicePromptAssumption DEF Good
  <2>2. o \in Player
    BY <2>1 DEF TakeOver, Player
  <2>3. o.enable /\ o.lpm
    BY <2>1 DEF TakeOver, Player
  <2> QED BY <2>2, <2>3 DEF Good
<1> HIDE DEF o
<1>2. CASE ind = "POPDOWN"
  <2>1. Good([o EXCEPT !.type = "POPDOWN"])
    BY <1>1 DEF Good, Player
  <2>2. Good([o EXCEPT !.type = "POPDOWN", !.running = TRUE, !.level = 1,
                       !.powered = TRUE])
    <3> DEFINE r == [o EXCEPT !.type = "POPDOWN", !.running = TRUE, !.level = 1,
                              !.powered = TRUE]
    <3>1. o \in Player /\ 1 \in 0 .. 3
      BY <1>1 DEF Good
    <3>2. r \in Player
      BY <3>1, Zenon DEF Player
    <3>3. r.enable = o.enable /\ r.lpm = o.lpm
      BY <3>1 DEF Player
    <3> HIDE DEF r
    <3>4. Good(r)
      BY <1>1, <3>2, <3>3 DEF Good
    <3> QED BY <3>4 DEF r
  <2>3. Good(PlayPopDown(p))
    BY <2>1, <2>2 DEF PlayPopDown, o
  <2> QED BY <1>2, <2>3 DEF VP_play_voice
<1>3. CASE ind = "POPUP"
  <2>1. Good([o EXCEPT !.type = "POPUP", !.running = TRUE, !.level = 1,
                       !.powered = FALSE])
    <3> DEFINE r == [o EXCEPT !.type = "POPUP", !.running = TRUE, !.level = 1,
                              !.powered = FALSE]
    <3>1. o \in Player /\ 1 \in 0 .. 3
      BY <1>1 DEF Good
    <3>2. r \in Player
      BY <3>1, Zenon DEF Player
    <3>3. r.enable = o.enable /\ r.lpm = o.lpm
      BY <3>1 DEF Player
    <3> HIDE DEF r
    <3>4. Good(r)
      BY <1>1, <3>2, <3>3 DEF Good
    <3> QED BY <3>4 DEF r
  <2>2. Good(PlayPopUp(p))
    BY <2>1 DEF PlayPopUp, o
  <2> QED BY <1>3, <2>2 DEF VP_play_voice
<1>4. CASE ind \in Digit /\ ~ incoming
  <2>1. ind # "POPDOWN" /\ ind # "POPUP"
    BY <1>4, VoicePromptAssumption
  <2> QED BY <1>4, <2>1 DEF VP_play_voice
<1>5. CASE ind \in Tone /\ ~ (ind \in Digit /\ ~ incoming)
  <2>1. ind # "POPDOWN" /\ ind # "POPUP"
    BY <1>5, VoicePromptAssumption
  <2>2. VP_play_voice(ind, p, q) = PlayTone(ind, p, q)
    BY <1>5, <2>1 DEF VP_play_voice
  <2> DEFINE t == [TakeOver(p) EXCEPT !.left = Blocks[ind]]
             c == VP_CheckGetData(t, q)
  <2>3. Good(t)
    BY <1>1, <1>5, VoicePromptAssumption DEF Good, Player, o
  <2>4. Good(c)
    BY <2>3, CheckGetDataGood
  <2>5. PlayTone(ind, p, q) = [c EXCEPT !.running = TRUE, !.powered = TRUE]
    BY DEF PlayTone
  <2> HIDE DEF c
  <2>6. Good(PlayTone(ind, p, q))
    BY <2>4, <2>5 DEF Good, Player
  <2> QED BY <2>2, <2>6
<1> QED BY <1>2, <1>3, <1>4, <1>5 DEF Ind
-----------------------------------------------------------------------------
(* The event queue. *)

NoPowerOff(q) == \A i \in 1 .. Len(q) : q[i] # "POWEROFF"

\* VP_snd_voiceEvt puts nothing but the prompt and the ramp behind what waits.
LEMMA SentType ==
  ASSUME NEW q \in Seq(Ind), NEW ind \in Ind \ {"POWEROFF"},
         NEW powered, NEW garbage
  PROVE  /\ Sent(q, ind, powered, garbage) \in Seq(Ind)
         /\ Len(q) <= Len(Sent(q, ind, powered, garbage))
         /\ \A i \in 1 .. Len(Sent(q, ind, powered, garbage)) :
              Sent(q, ind, powered, garbage)[i] = "POWEROFF"
                => i \in 1 .. Len(q) /\ q[i] = "POWEROFF"
<1> DEFINE one == Append(q, ind)
           two == q \o << "POPDOWN", ind >>
<1>1. "POPDOWN" \in Ind /\ "POPDOWN" # "POWEROFF" /\ ind # "POWEROFF"
  BY DEF Ind
<1>2. /\ one \in Seq(Ind) /\ Len(one) = Len(q) + 1
      /\ \A i \in 1 .. Len(one) : one[i] = IF i <= Len(q) THEN q[i] ELSE ind
  OBVIOUS
<1>3. /\ two \in Seq(Ind) /\ Len(two) = Len(q) + 2
      /\ \A i \in 1 .. Len(two) :
           two[i] = IF i <= Len(q) THEN q[i]
                    ELSE IF i = Len(q) + 1 THEN "POPDOWN" ELSE ind
  BY <1>1
<1>4. Sent(q, ind, powered, garbage) \in {one, two}
  BY DEF Sent
<1>5. Len(q) \in Nat
  OBVIOUS
<1> HIDE DEF one, two
<1>6. CASE Sent(q, ind, powered, garbage) = one
  BY <1>1, <1>2, <1>5, <1>6
<1>7. CASE Sent(q, ind, powered, garbage) = two
  BY <1>1, <1>3, <1>5, <1>7
<1> QED BY <1>4, <1>6, <1>7

LEMMA DialledType ==
  ASSUME NEW n \in Number, NEW powered \in BOOLEAN, NEW garbage \in BOOLEAN
  PROVE  /\ Dialled(n, powered, garbage) \in Seq(Ind)
         /\ NoPowerOff(Dialled(n, powered, garbage))
<1>1. /\ n \in Seq(Digit) /\ n # << >> /\ Digit \subseteq Ind
      /\ "POWEROFF" \notin Digit /\ "POPDOWN" \in Ind
  BY VoicePromptAssumption DEF Ind
<1>2. /\ Len(n) \in Nat \ {0}
      /\ \A i \in 1 .. Len(n) : n[i] \in Digit
  BY <1>1
<1>3. CASE powered
  <2>1. Dialled(n, powered, garbage) = n
    BY <1>3 DEF Dialled
  <2>2. n \in Seq(Ind)
    BY <1>1
  <2> QED BY <2>1, <2>2, <1>1, <1>2 DEF NoPowerOff
<1>4. CASE ~ powered /\ ~ garbage
  <2> DEFINE d == << "POPDOWN" >> \o n
  <2>1. Dialled(n, powered, garbage) = d
    BY <1>4 DEF Dialled
  <2>2. /\ d \in Seq(Ind) /\ Len(d) = Len(n) + 1
        /\ \A i \in 1 .. Len(d) : d[i] = IF i = 1 THEN "POPDOWN" ELSE n[i - 1]
    BY <1>1
  <2> HIDE DEF d
  <2>3. NoPowerOff(d)
    <3> SUFFICES ASSUME NEW i \in 1 .. Len(d) PROVE d[i] # "POWEROFF"
      BY DEF NoPowerOff
    <3>1. CASE i = 1
      BY <2>2, <3>1
    <3>2. CASE i # 1
      <4>1. i - 1 \in 1 .. Len(n) /\ d[i] = n[i - 1]
        BY <1>2, <2>2, <3>2
      <4> QED BY <4>1, <1>1, <1>2
    <3> QED BY <3>1, <3>2
  <2> QED BY <2>1, <2>2, <2>3
<1>5. CASE ~ powered /\ garbage
  <2> DEFINE d == [i \in 1 .. 2 * Len(n) - 1 |->
                     IF i % 2 = 1 THEN n[(i + 1) \div 2] ELSE "POPDOWN"]
  <2>1. Dialled(n, powered, garbage) = d
    BY <1>5 DEF Dialled
  <2>2. ASSUME NEW i \in 1 .. 2 * Len(n) - 1
        PROVE  d[i] \in Ind /\ d[i] # "POWEROFF"
    <3>1. (i + 1) \div 2 \in 1 .. Len(n)
      BY <1>2
    <3>2. n[(i + 1) \div 2] \in Digit
      BY <1>2, <3>1
    <3>3. d[i] = IF i % 2 = 1 THEN n[(i + 1) \div 2] ELSE "POPDOWN"
      OBVIOUS
    <3> HIDE DEF d
    <3> QED BY <1>1, <3>2, <3>3
  <2>3. 2 * Len(n) - 1 \in Nat
    BY <1>2
  <2>4. d \in [1 .. 2 * Len(n) - 1 -> Ind]
    BY <2>2
  <2>5. d \in Seq(Ind) /\ Len(d) = 2 * Len(n) - 1
    <3> DEFINE m == 2 * Len(n) - 1
    <3>1. m \in Nat /\ d \in [1 .. m -> Ind]
      BY <2>3, <2>4
    <3> HIDE DEF d, m
    <3>2. d \in Seq(Ind)
      BY <3>1
    <3>3. Len(d) = m
      BY <3>1, <3>2
    <3> QED BY <3>2, <3>3 DEF m
  <2> HIDE DEF d
  <2> QED BY <2>1, <2>2, <2>5 DEF NoPowerOff
<1> QED BY <1>3, <1>4, <1>5
-----------------------------------------------------------------------------
(* The steps. *)

LEMMA InitIInv == Init => IInv
<1> SUFFICES ASSUME Init PROVE IInv
  OBVIOUS
<1>1. Good(Idle) /\ ~ Idle.enable
  BY VoicePromptAssumption DEF Good, Player, Idle
<1>2. TypeOK
  <2>1. << >> \in Seq(Ind) /\ Len(<< >>) <= QueueCap
    BY VoicePromptAssumption
  <2>2. player \in Player
    BY <1>1 DEF Init, Good
  <2> QED BY <2>1, <2>2 DEF Init, TypeOK
<1> QED BY <1>1, <1>2 DEF Init, IInv, RampFirst

\* Prompts that are sent leave the player alone; none of them is the power-off
\* prompt, and those that wait stay where they are.
LEMMA EnqueueIInv ==
  ASSUME IInv, NEW q \in Seq(Ind), Enqueue(q),
         Len(evtQ) <= Len(q),
         \A i \in 1 .. Len(q) : q[i] = "POWEROFF" => i \in 1 .. Len(evtQ) /\ evtQ[i] = "POWEROFF",
         paTimer' \in BOOLEAN, UNCHANGED << player, incoming, topState >>
  PROVE  IInv'
<1>1. TypeOK'
  BY DEF IInv, TypeOK, Enqueue
<1>2. Good(player)' /\ (topState = "off" => ~ player.enable)'
  BY DEF IInv, Good
<1>3. RampFirst'
  BY DEF IInv, RampFirst, Enqueue
<1> QED BY <1>1, <1>2, <1>3 DEF IInv

LEMMA SendIInv ==
  ASSUME IInv, NEW ind \in Ind \ {"POWEROFF"}, VP_snd_voiceEvt(ind),
         UNCHANGED << incoming, topState >>
  PROVE  IInv'
<1>1. PICK garbage \in BOOLEAN : Enqueue(Sent(evtQ, ind, player.powered, garbage))
  BY DEF VP_snd_voiceEvt
<1> DEFINE q == Sent(evtQ, ind, player.powered, garbage)
<1>2. evtQ \in Seq(Ind)
  BY DEF IInv, TypeOK
<1>3. /\ q \in Seq(Ind) /\ Len(evtQ) <= Len(q)
      /\ \A i \in 1 .. Len(q) : q[i] = "POWEROFF" => i \in 1 .. Len(evtQ) /\ evtQ[i] = "POWEROFF"
  BY <1>2, SentType
<1>4. paTimer' \in BOOLEAN /\ player' = player
  BY DEF VP_snd_voiceEvt
<1> HIDE DEF q
<1> QED BY <1>1, <1>3, <1>4, EnqueueIInv DEF q

LEMMA PhoneNumIInv ==
  ASSUME IInv, NEW n \in Number, PhoneNum(n)
  PROVE  IInv'
<1>1. CASE hung' = TRUE /\ UNCHANGED evtQ
  <2>1. evtQ' = evtQ /\ player' = player /\ incoming' = incoming /\ topState' = topState
        /\ paTimer' = FALSE
    BY <1>1 DEF PhoneNum
  <2>2. TypeOK'
    BY <1>1, <2>1 DEF IInv, TypeOK
  <2>3. Good(player)' /\ (topState = "off" => ~ player.enable)' /\ RampFirst'
    BY <2>1 DEF IInv, Good, RampFirst
  <2> QED BY <2>2, <2>3 DEF IInv
<1>2. ASSUME NEW garbage \in BOOLEAN, Enqueue(Dialled(n, player.powered, garbage))
      PROVE  IInv'
  <2> DEFINE q == Dialled(n, player.powered, garbage)
  <2>1. player.powered \in BOOLEAN
    BY DEF IInv, TypeOK, Player
  <2>2. q \in Seq(Ind) /\ NoPowerOff(q)
    BY <2>1, DialledType
  <2>3. evtQ = << >> /\ paTimer' \in BOOLEAN /\ UNCHANGED << player, incoming, topState >>
    BY DEF PhoneNum
  <2> HIDE DEF q
  <2>4. Len(evtQ) <= Len(q)
    BY <2>2, <2>3
  <2> QED BY <1>2, <2>2, <2>3, <2>4, EnqueueIInv DEF q, NoPowerOff
<1> QED BY <1>1, <1>2 DEF PhoneNum

\* The power-off prompt starts at once, or waits first in the queue for the ramp.
LEMMA WaitPwroffIInv ==
  ASSUME IInv, Bt_SndCmdWaitPwroff
  PROVE  IInv'
<1>1. /\ VP_snd_powerOff /\ topState' = "wait" /\ incoming' = incoming
      /\ Good(player) /\ player \in Player /\ QueueCap \in Nat \ {0}
  BY VoicePromptAssumption DEF Bt_SndCmdWaitPwroff, IInv, TypeOK
<1>2. "POWEROFF" \in Ind /\ "POPDOWN" \in Ind /\ "POPUP" \in Ind
  BY VoicePromptAssumption DEF Ind
<1>3. Good(player')
  <2>1. Good(VP_play_voice("POWEROFF", player, << >>))
    BY <1>1, <1>2, PlayGood
  <2>2. Good(VP_play_voice("POPDOWN", player, << >>))
    BY <1>1, <1>2, PlayGood
  <2> QED BY <1>1, <2>1, <2>2 DEF VP_snd_powerOff
<1>4. evtQ' \in Seq(Ind) /\ Len(evtQ') = 1
  BY <1>1, <1>2 DEF VP_snd_powerOff
<1>5. TypeOK'
  <2>1. Len(evtQ') <= QueueCap
    BY <1>1, <1>4
  <2>2. incoming \in BOOLEAN /\ hung \in BOOLEAN
    BY DEF IInv, TypeOK
  <2>3. player' \in Player
    BY <1>3 DEF Good
  <2> QED BY <1>1, <1>4, <2>1, <2>2, <2>3 DEF TypeOK, VP_snd_powerOff
<1>6. RampFirst'
  <2>1. CASE player.powered
    BY <1>1, <2>1 DEF VP_snd_powerOff, RampFirst
  <2>2. CASE ~ player.powered
    <3>1. player' = PlayPopDown(player)
      <4>1. player' = VP_play_voice("POPDOWN", player, << >>)
        BY <1>1, <2>2 DEF VP_snd_powerOff
      <4>2. \A ind : ind = "POPDOWN" => VP_play_voice(ind, player, << >>) = PlayPopDown(player)
        BY VoicePromptAssumption DEF VP_play_voice
      <4> QED BY <4>1, <4>2
    <3>2. player'.enable
      BY <1>1, <2>2, <3>1 DEF PlayPopDown, TakeOver, Player
    <3>3. evtQ' = << "POWEROFF" >>
      BY <1>1, <2>2 DEF VP_snd_powerOff
    <3> QED BY <1>1, <3>2, <3>3 DEF RampFirst
  <2> QED BY <2>1, <2>2
<1> QED BY <1>1, <1>3, <1>5, <1>6 DEF IInv, Good

\* A prompt is taken only when it may start; a player that still blocks the queue
\* is enabled, so the power-off prompt keeps its ramp in front of it.
LEMMA PollIInv ==
  ASSUME IInv, VP_polling_Queue
  PROVE  IInv'
<1> DEFINE p == VP_CheckGetData(player, evtQ)
           next == ~ p.stopNext /\ evtQ # << >>
<1>1. /\ player' = IF next THEN VP_play_voice(Head(evtQ), p, Tail(evtQ)) ELSE p
      /\ evtQ' = IF next THEN Tail(evtQ) ELSE evtQ
      /\ UNCHANGED << incoming, paTimer, topState, hung >> /\ topState # "off"
  BY DEF VP_polling_Queue, Alive
<1>2. evtQ \in Seq(Ind) /\ Len(evtQ) <= QueueCap /\ QueueCap \in Nat
  BY VoicePromptAssumption DEF IInv, TypeOK
<1>3. Good(p)
  BY CheckGetDataGood DEF IInv
<1> HIDE DEF p
<1>4. CASE next
  <2>1. Head(evtQ) \in Ind /\ Tail(evtQ) \in Seq(Ind) /\ Len(Tail(evtQ)) = Len(evtQ) - 1
    BY <1>2, <1>4
  <2>2. Good(player')
    BY <1>1, <1>3, <1>4, <2>1, PlayGood
  <2>3. TypeOK'
    BY <1>1, <1>2, <1>4, <2>1, <2>2 DEF IInv, TypeOK, Good
  <2>4. RampFirst'
    BY <1>1, <1>2, <1>4, <2>1 DEF IInv, RampFirst
  <2> QED BY <1>1, <2>2, <2>3, <2>4 DEF IInv, Good
<1>5. CASE ~ next
  <2>1. TypeOK' /\ Good(player')
    BY <1>1, <1>3, <1>5 DEF IInv, TypeOK, Good
  <2>2. RampFirst'
    BY <1>1, <1>3, <1>5 DEF IInv, RampFirst, Good
  <2> QED BY <1>1, <2>1, <2>2 DEF IInv, Good
<1> QED BY <1>4, <1>5

LEMMA SilencedIInv ==
  ASSUME IInv, HFP_handle_result_ciev
  PROVE  IInv'
<1>1. /\ player \in Player /\ evtQ' = << >>
      /\ player' = [player EXCEPT !.running = FALSE, !.enable = FALSE,
                                  !.stopNext = FALSE, !.left = 0]
      /\ UNCHANGED << incoming, paTimer, topState, hung >>
  BY DEF IInv, TypeOK, HFP_handle_result_ciev
<1>2. player' \in Player /\ ~ player'.enable /\ ~ player'.stopNext
  BY <1>1 DEF Player
<1>3. TypeOK'
  BY <1>1, <1>2, VoicePromptAssumption DEF IInv, TypeOK
<1> QED BY <1>1, <1>2, <1>3 DEF IInv, Good, RampFirst

LEMMA DacIInv ==
  ASSUME IInv, Dac
  PROVE  IInv'
<1>1. /\ player \in Player /\ player.level > 0
      /\ player' = [player EXCEPT !.level = player.level - 1]
      /\ UNCHANGED << evtQ, incoming, paTimer, topState, hung >>
  BY DEF IInv, TypeOK, Dac
<1>2. player.level - 1 \in 0 .. 3
  BY <1>1 DEF Player
<1>3. /\ player' \in Player /\ player'.enable = player.enable
      /\ player'.lpm = player.lpm /\ player'.stopNext = player.stopNext
  BY <1>1, <1>2 DEF Player
<1>4. TypeOK'
  BY <1>1, <1>3 DEF IInv, TypeOK
<1> QED BY <1>1, <1>3, <1>4 DEF IInv, Good, RampFirst

\* What leaves the queue and the player alone, and does not switch off with the
\* lock held.
LEMMA OthersIInv ==
  ASSUME IInv, UNCHANGED << evtQ, player, hung >>,
         incoming' \in BOOLEAN, paTimer' \in BOOLEAN,
         \/ topState' = topState
         \/ topState = "low" /\ topState' = "on"
         \/ topState \in {"low", "wait"} /\ topState' = "off" /\ ~ player.lpm
  PROVE  IInv'
<1>1. TypeOK' /\ Good(player)'
  BY DEF IInv, TypeOK, Good
<1>2. RampFirst' /\ (topState = "off" => ~ player.enable)'
  BY DEF IInv, Good, RampFirst
<1> QED BY <1>1, <1>2 DEF IInv

LEMMA NextIInv == IInv /\ [Next]_vars => IInv'
<1> SUFFICES ASSUME IInv, [Next]_vars PROVE IInv'
  OBVIOUS
<1>0. incoming \in BOOLEAN /\ paTimer \in BOOLEAN /\ hung \in BOOLEAN
  BY DEF IInv, TypeOK
<1>1. ASSUME NEW ind \in Tone \ (Digit \cup {"POWEROFF"}), Announce(ind) PROVE IInv'
  BY <1>1, SendIInv DEF Announce, Ind
<1>2. ASSUME NEW n \in Number, PhoneNum(n) PROVE IInv'
  BY <1>2, PhoneNumIInv
<1>3. CASE AudioStart
  <2>1. CASE VP_snd_voiceEvt("POPDOWN")
    BY <1>3, <2>1, SendIInv DEF AudioStart, Ind
  <2>2. CASE paTimer' = FALSE /\ UNCHANGED << evtQ, player, hung >>
    BY <1>0, <1>3, <2>2, OthersIInv DEF AudioStart
  <2> QED BY <1>3, <2>1, <2>2 DEF AudioStart
<1>4. CASE Bt_ClosePaDelay
  BY <1>0, <1>4, OthersIInv DEF Bt_ClosePaDelay
<1>5. CASE Bt_CBClosePaDelay
  <2>1. CASE VP_snd_voiceEvt("POPUP")
    BY <1>5, <2>1, SendIInv DEF Bt_CBClosePaDelay, Ind
  <2>2. CASE paTimer' = FALSE /\ UNCHANGED << evtQ, player, hung >>
    BY <1>0, <1>5, <2>2, OthersIInv DEF Bt_CBClosePaDelay
  <2> QED BY <1>5, <2>1, <2>2 DEF Bt_CBClosePaDelay
<1>6. CASE CallState
  BY <1>0, <1>6, OthersIInv DEF CallState
<1>7. CASE HFP_handle_result_ciev
  BY <1>7, SilencedIInv
<1>8. CASE Bt_PowerOn
  BY <1>0, <1>8, OthersIInv DEF Bt_PowerOn
<1>9. CASE Bt_SndCmdWaitPwroff
  BY <1>9, WaitPwroffIInv
<1>10. CASE Bt_SndCmdPwroff
  BY <1>0, <1>10, OthersIInv DEF Bt_SndCmdPwroff
<1>11. CASE WakeUp \/ Watchdog
  <2>1. Boot
    BY <1>11 DEF WakeUp, Watchdog
  <2>2. Init'
    BY <2>1 DEF Boot, Init
  <2>3. Init' => IInv'
    BY InitIInv, PTL
  <2> QED BY <2>2, <2>3
<1>12. CASE VP_polling_Queue
  BY <1>12, PollIInv
<1>13. CASE Dac
  BY <1>13, DacIInv
<1>14. CASE UNCHANGED vars
  BY <1>0, <1>14, OthersIInv DEF vars
<1> QED BY <1>1, <1>2, <1>3, <1>4, <1>5, <1>6, <1>7, <1>8, <1>9, <1>10, <1>11,
           <1>12, <1>13, <1>14 DEF Next
-----------------------------------------------------------------------------
\* The strengthened invariant holds of every behaviour.
THEOREM InductiveInvariant == Spec => []IInv
<1>1. Init => IInv
  BY InitIInv
<1>2. IInv /\ [Next]_vars => IInv'
  BY NextIInv
<1> QED BY <1>1, <1>2, PTL DEF Spec

\* Types, among them that the DAC's ring is never overrun, whatever the prompts.
THEOREM TypeCorrect == Spec => []TypeOK
<1>1. IInv => TypeOK
  BY DEF IInv
<1> QED BY <1>1, InductiveInvariant, PTL

\* The low-power lock is held whenever the player is enabled.
THEOREM AlwaysLockedWhilePlaying == Spec => []LockedWhilePlaying
<1>1. IInv => LockedWhilePlaying
  BY DEF IInv, Good, LockedWhilePlaying
<1> QED BY <1>1, InductiveInvariant, PTL

\* The queue is held back only by a player that is enabled and will let it go.
THEOREM NeverBlockedForGood == Spec => []BlockedOnlyWhileEnabled
<1>1. IInv => BlockedOnlyWhileEnabled
  BY DEF IInv, Good, BlockedOnlyWhileEnabled
<1> QED BY <1>1, InductiveInvariant, PTL

\* Hibernation comes after the power-off prompt.
THEOREM AlwaysOffAfterPrompt == Spec => []OffAfterPrompt
<1>1. IInv => OffAfterPrompt
  BY DEF IInv, TypeOK, RampFirst, OffAfterPrompt
<1> QED BY <1>1, InductiveInvariant, PTL
=============================================================================
