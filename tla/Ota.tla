--------------------------------- MODULE Ota ---------------------------------
(***************************************************************************)
(* The update of the program over SPP or BLE (Example/headphone/Drv_bt.c): *)
(* START erases the slot the headset does not boot from, DATA packets fill *)
(* it, END compares length and sum and arms gOTATimer, whose callback      *)
(* writes the pointer in sector 0 and resets the chip.  Bt_SPPCallBack and *)
(* Bt_BleCallBack are the same handler behind two headers.                 *)
(*                                                                         *)
(* The phone is external: it sends one message, waits for its answer, may  *)
(* repeat the message, give up, or lose the link.  It is patient: it sends *)
(* no START before an update it has ended has had its 1.1 seconds.         *)
(***************************************************************************)
EXTENDS QspiFlash

CONSTANTS Slot1, Slot2,   \* CODE_START_FLASHADDR1, CODE_START_FLASHADDR2
          SlotSectors,    \* sectors START erases
          Images,         \* what the phone may install
          Packets,        \* bytes of each DATA packet of an image
          FirstIds,       \* ids a phone may give its first packet
          MaxRepeats      \* bound: messages the phone repeats between two starts

VARIABLES addr,       \* OTA_flash_start_addr
          datalen,    \* OTA_datalen
          datasum,    \* OTA_datasum
          packetid,   \* OTA_packetid
          armed,      \* gOTATimer is running
          up,         \* the headset is running
          received,   \* messages of the phone on their way
          answers,    \* answers on their way to the phone
          phone,      \* what the phone is doing
          repeats     \* messages repeated since the start

otaState == << addr, datalen, datasum, packetid >>
otaVars == << addr, datalen, datasum, packetid, armed, up, received, answers, phone, repeats >>

Slots == {Slot1, Slot2}
PointerLen == 3

\* An address as the three bytes at 0, most significant first, and back.
PointerTo(a) == << a \div (Radix * Radix), (a \div Radix) % Radix, a % Radix >>
AddressIn(bytes) == (bytes[1] * Radix + bytes[2]) * Radix + bytes[3]
PointerBytes == QSPI_ReadFlashData(flash, 0, PointerLen)
Pointer == AddressIn(PointerBytes)

ImageLen == Total(Packets)
Sent(k) == Total(SubSeq(Packets, 1, k))

\* The sectors START erases for a slot, and the byte after them.
First(s) == s - (s % SectorLen)
Beyond(s) == First(s) + SlotSectors * SectorLen
Region(s) == First(s) .. Beyond(s) - 1

\* Images of one length, which fit in what START erases with every packet that may
\* come twice; slots that share no sector with each other or with the pointer; and no
\* slot whose address ends in an erased byte.
ASSUME OtaAssumption ==
  /\ Packets \in Seq(Nat \ {0}) /\ Packets # << >>
  /\ Images # {} /\ \A i \in Images : i \in Seq(Byte) /\ Len(i) = ImageLen
  /\ FirstIds \subseteq Nat /\ {SlotSectors, MaxRepeats} \subseteq Nat
  /\ PointerLen <= PageLen /\ Slot1 # Slot2
  /\ \A s \in Slots :
       /\ s \in Nat /\ s < Radix * Radix * Radix /\ s % Radix # Blank
       /\ SectorLen <= First(s) /\ Beyond(s) <= FlashLen
       /\ s + ImageLen + (MaxRepeats + 2) * Packets[1] <= Beyond(s)
       /\ \A t \in Slots \ {s} : Beyond(s) <= First(t) \/ Beyond(t) <= First(s)

OtaTypeOK ==
  /\ flash \in [Address -> Byte]
  /\ addr \in Nat
  /\ {datalen, datasum, packetid} \subseteq Nat
  /\ {armed, up} \subseteq BOOLEAN
-----------------------------------------------------------------------------
(* The phone. *)

Idle == [stage |-> "idle", image |-> << >>, first |-> 0, next |-> 0]

Message(p) ==
  CASE p.stage = "start" -> [evt |-> "START"]
    [] p.stage = "data" ->
         [evt |-> "DATA", id |-> p.first + p.next - 1,
          bytes |-> SubSeq(p.image, Sent(p.next - 1) + 1, Sent(p.next))]
    [] p.stage = "end" -> [evt |-> "END", sum |-> Total(p.image), len |-> ImageLen]

Waiting(p) == p.stage \in {"start", "data", "end"}

Answer(evt, with) == [cmd |-> "answer", evt |-> evt, with |-> with]

Says(p) == phone' = p /\ received' = Append(received, Message(p))

StartUpdate ==
  /\ up /\ phone = Idle
  /\ ~ armed /\ received = << >> /\ work = << >>
  /\ \E i \in Images, first \in FirstIds :
       Says([stage |-> "start", image |-> i, first |-> first, next |-> 0])
  /\ repeats' = 0
  /\ UNCHANGED << answers, otaState, armed, up, flash, work >>

NextStage(p) ==
  IF p.next < Len(Packets) THEN [p EXCEPT !.stage = "data", !.next = @ + 1]
  ELSE [p EXCEPT !.stage = "end"]

Expected(p, a) ==
  CASE p.stage = "start" -> a.evt = "START"
    [] p.stage = "data" -> a.evt = "DATA" /\ a.with = p.first + p.next - 1
    [] p.stage = "end" -> a.evt = "END"
    [] OTHER -> FALSE

TakeAnswer ==
  /\ answers # << >>
  /\ IF ~ Expected(phone, Head(answers)) THEN UNCHANGED << phone, received >>
     ELSE IF phone.stage = "end"
          THEN phone' = [phone EXCEPT !.stage = IF Head(answers).with THEN "passed" ELSE "refused"]
               /\ UNCHANGED received
     ELSE Says(NextStage(phone))
  /\ answers' = Tail(answers)
  /\ UNCHANGED << repeats, otaState, armed, up, flash, work >>

Repeat ==
  /\ up /\ Waiting(phone) /\ repeats < MaxRepeats
  /\ received' = Append(received, Message(phone))
  /\ repeats' = repeats + 1
  /\ UNCHANGED << answers, phone, otaState, armed, up, flash, work >>

CancelUpdate ==
  /\ up /\ (Waiting(phone) \/ phone.stage = "refused")
  /\ phone' = Idle /\ answers' = << >>
  /\ received' = Append(received, [evt |-> "RESET"])
  /\ UNCHANGED << repeats, otaState, armed, up, flash, work >>

\* The link drops: answers are lost, and what has not come through yet.
LinkLoss ==
  /\ phone # Idle
  /\ phone' = Idle /\ answers' = << >>
  /\ \E n \in 0 .. Len(received) : received' = SubSeq(received, 1, n)
  /\ UNCHANGED << repeats, otaState, armed, up, flash, work >>
-----------------------------------------------------------------------------
(* The headset: a handler begins when the one before has done all its work. *)

Begin(a) == addr' = a /\ datalen' = 0 /\ datasum' = 0 /\ packetid' = 0
OTA_Init == Begin(0)

\* A message that is answered once its commands to the flash are done.
Doing(commands, answer) == work' = Append(commands, answer)

OnStart ==
  /\ Head(received).evt = "START"
  /\ LET other == IF Pointer = Slot1 THEN Slot2 ELSE Slot1
     IN IF Pointer \in Slots
        THEN /\ Begin(other)
             /\ Doing([i \in 1 .. SlotSectors |->
                         QSPI_SectorEraseFlash(other + (i - 1) * SectorLen)], Answer("START", 0))
        ELSE Begin(AddressIn(Reverse(PointerBytes))) /\ UNCHANGED work
  /\ UNCHANGED armed

Follows(id) == packetid = 0 \/ id = packetid + 1

OnData ==
  /\ Head(received).evt = "DATA"
  /\ LET m == Head(received)
     IN IF Follows(m.id)
        THEN /\ packetid' = m.id
             /\ datalen' = datalen + Len(m.bytes)
             /\ Doing(QSPI_WriteFlashData(addr + datalen, m.bytes), Answer("DATA", m.id))
        ELSE UNCHANGED << packetid, datalen, work >>
  /\ UNCHANGED << addr, datasum, armed >>

InFlash(a, len) == QSPI_ReadFlashData(flash, a, len)

\* Faulty variant for mutation: the image is not compared with what was announced.
AnnouncedUnchecked(sum, m) == TRUE

Announced(sum, m) == sum = m.sum /\ datalen = m.len

OnEnd ==
  /\ Head(received).evt = "END"
  /\ LET sum == datasum + Total(InFlash(addr, datalen))
         ok == Announced(sum, Head(received))
     IN /\ IF ok THEN armed' = TRUE /\ datasum' = sum /\ UNCHANGED << addr, datalen, packetid >>
           ELSE OTA_Init /\ UNCHANGED armed
        /\ Doing(<< >>, Answer("END", ok))

OnReset ==
  /\ Head(received).evt = "RESET"
  /\ OTA_Init
  /\ UNCHANGED << armed, work >>

Bt_SPPCallBack ==
  /\ up /\ work = << >> /\ received # << >>
  /\ received' = Tail(received)
  /\ OnStart \/ OnData \/ OnEnd \/ OnReset
  /\ UNCHANGED << up, answers, phone, repeats, flash >>

SendAnswer ==
  /\ work # << >> /\ Head(work).cmd = "answer"
  /\ work' = Tail(work)
  /\ answers' = IF phone = Idle THEN answers ELSE Append(answers, Head(work))
  /\ UNCHANGED << received, phone, repeats, otaState, armed, up, flash >>

\* Faulty variant for mutation: either comparison is enough to return.
CodeAddressBoth(a) == a = Slot1 /\ a = Slot2

CodeAddress(a) == a = Slot1 \/ a = Slot2

\* gOTATimer expires.
Bt_CBChangeCode ==
  /\ up /\ work = << >> /\ armed
  /\ armed' = FALSE
  /\ work' = IF ~ CodeAddress(addr) THEN << >>
             ELSE << QSPI_SectorEraseFlash(RecordBase), QSPI_SectorEraseFlash(0) >>
                  \o QSPI_WriteFlashData(0, PointerTo(addr)) \o << [cmd |-> "reset"] >>
  /\ UNCHANGED << otaState, up, received, answers, phone, repeats, flash >>

\* What is left of the headset and of the link when the power fails or the chip is reset.
Down ==
  /\ up' = FALSE /\ armed' = FALSE /\ work' = << >>
  /\ OTA_Init
  /\ received' = << >> /\ answers' = << >> /\ phone' = Idle /\ repeats' = 0

\* The program in ROM starts the image the pointer names.
Boot ==
  /\ ~ up /\ Pointer \in Slots
  /\ up' = TRUE
  /\ UNCHANGED << otaState, armed, received, answers, phone, repeats, flash, work >>
-----------------------------------------------------------------------------
OtaInit ==
  /\ \E old \in Images, s \in Slots :
       flash = Programmed(Programmed([a \in Address |-> Blank], 0, PointerTo(s)), s, old)
  /\ work = << >>
  /\ addr = 0 /\ datalen = 0 /\ datasum = 0 /\ packetid = 0
  /\ armed = FALSE /\ up = TRUE
  /\ received = << >> /\ answers = << >> /\ phone = Idle /\ repeats = 0

OtaNext ==
  \/ StartUpdate \/ TakeAnswer \/ Repeat \/ CancelUpdate \/ LinkLoss
  \/ Bt_SPPCallBack \/ SendAnswer \/ Bt_CBChangeCode \/ Boot
=============================================================================
