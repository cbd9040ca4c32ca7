--------------------------- MODULE MCVoicePrompt ---------------------------
(* A prompt longer than the data queue, the power-off prompt, and a number of *)
(* two digits; an event queue that overflows.                                 *)
EXTENDS VoicePrompt, SequencesExt

MCTone == {"POWEROFF", "CONNECTED", "DIGITAL"}
MCDigit == {"DIGITAL"}
MCBlocks == [t \in MCTone |-> IF t = "CONNECTED" THEN 2 ELSE 1]
MCNumber == {<< "DIGITAL", "DIGITAL" >>}

\* Dialled is the loop of BT_EVT_PHONE_NUM, one VP_snd_voiceEvt for each digit.
ASSUME DialledIsTheLoop ==
  \A n \in MCNumber \cup {<< "DIGITAL" >>, << "DIGITAL", "DIGITAL", "DIGITAL" >>} :
    \A powered, garbage \in BOOLEAN :
      Dialled(n, powered, garbage)
        = FoldLeft(LAMBDA q, ind : Sent(q, ind, powered, garbage), << >>, n)
=============================================================================
