------------------------------- MODULE RecInfo -------------------------------
(***************************************************************************)
(* The pairing record (BT_REC_INFO, Example/headphone/Drv_bt.c): the       *)
(* Bluetooth core keeps it in memory both processors see, changes it byte  *)
(* by byte and reports the change; the M0 sums it, writes the sum beside   *)
(* it and saves both in a sector of the flash.  At power-on the record is  *)
(* read back, and blanked if the sum is wrong.                             *)
(*                                                                         *)
(* The core is external; it changes the record while the headset is on.    *)
(***************************************************************************)
EXTENDS QspiFlash

CONSTANTS RecordData,   \* records the core may write, without their sum
          MasterMark,   \* the record's first byte on a master (0x55)
          MaxEvents     \* bound: reports of the core that may be waiting

VARIABLES nv,       \* the record in memory: data, then the sum, low byte first
          sum,      \* the sum as far as it has been taken
          buffer,   \* bytes copied for the page program
          on,       \* topState is above CHARGER_IN
          change,   \* the record the core is writing
          written,  \* bytes of it written
          events,   \* reports on their way to the M0
          handed    \* history: the bytes last given to the flash to program

recVars == << nv, sum, buffer, on, change, written, events, handed >>

DataLen == Len(CHOOSE d \in RecordData : TRUE)
RecordLen == DataLen + 2
BlankRecord == [i \in 1 .. RecordLen |-> Blank]

ASSUME RecAssumption ==
  /\ RecordBase % SectorLen = 0 /\ RecordLen <= SectorLen
  /\ RecordData # {} /\ \A d \in RecordData : d \in Seq(Byte) /\ Len(d) = DataLen
  /\ DataLen \in 1 .. Blank
  /\ MasterMark \in Byte /\ MaxEvents \in Nat

LowByte(n) == n % Radix
SumBytes(n) == << LowByte(n), LowByte(n \div Radix) >>

Saved == QSPI_ReadFlashData(flash, RecordBase, RecordLen)

RecTypeOK ==
  /\ nv \in [1 .. RecordLen -> Byte] /\ sum \in Nat
  /\ Len(buffer) <= RecordLen /\ on \in BOOLEAN
  /\ written \in 0 .. DataLen /\ Len(events) <= MaxEvents
-----------------------------------------------------------------------------
(* The core. *)

CoreBegins ==
  /\ on /\ change = << >>
  /\ Len(events) < MaxEvents
  /\ change' \in RecordData
  /\ UNCHANGED << nv, sum, buffer, on, written, events, handed, flash, work >>

CoreWrites ==
  /\ written < Len(change)
  /\ nv' = [nv EXCEPT ![written + 1] = change[written + 1]]
  /\ written' = written + 1
  /\ UNCHANGED << sum, buffer, on, change, events, handed, flash, work >>

CoreReports ==
  /\ change # << >> /\ written = Len(change)
  /\ change' = << >> /\ written' = 0
  /\ \E e \in {"BT_EVT_DEV_UPDATE_INFO", "TWS_EVT_MASTER_CONNECTED"} : events' = Append(events, e)
  /\ UNCHANGED << nv, sum, buffer, on, handed, flash, work >>
-----------------------------------------------------------------------------
(* The M0.  What a handler does after its first step is `work`. *)

Add(i) == [cmd |-> "add", i |-> i]
StoreSum == [cmd |-> "store"]
Copy(i) == [cmd |-> "copy", i |-> i]
Write == [cmd |-> "write"]

\* Faulty variant for mutation: the sum is not brought up to date.
SumNothing == << >>

Bt_calReconInfoCRC == [i \in 1 .. DataLen |-> Add(i)] \o << StoreSum >>

Bt_UpdateDeviceInfo ==
  << QSPI_SectorEraseFlash(RecordBase), QSPI_PageEraseFlash(RecordBase) >>
  \o [i \in 1 .. RecordLen |-> Copy(i)] \o << Write >>

Dispatch ==
  /\ work = << >> /\ events # << >>
  /\ events' = Tail(events)
  /\ IF ~ on THEN UNCHANGED << nv, sum, buffer, work >>
     ELSE /\ nv' = IF Head(events) = "TWS_EVT_MASTER_CONNECTED" THEN [nv EXCEPT ![1] = MasterMark]
                   ELSE nv
          /\ work' = Bt_calReconInfoCRC \o Bt_UpdateDeviceInfo
          /\ sum' = 0 /\ buffer' = << >>
  /\ UNCHANGED << on, change, written, handed, flash >>

AddByte ==
  /\ work # << >> /\ Head(work).cmd = "add"
  /\ sum' = sum + nv[Head(work).i]
  /\ work' = Tail(work)
  /\ UNCHANGED << nv, buffer, on, change, written, events, handed, flash >>

WriteSum ==
  /\ work # << >> /\ Head(work) = StoreSum
  /\ nv' = SubSeq(nv, 1, DataLen) \o SumBytes(sum)
  /\ sum' = 0
  /\ work' = Tail(work)
  /\ UNCHANGED << buffer, on, change, written, events, handed, flash >>

CopyByte ==
  /\ work # << >> /\ Head(work).cmd = "copy"
  /\ buffer' = Append(buffer, nv[Head(work).i])
  /\ work' = Tail(work)
  /\ UNCHANGED << nv, sum, on, change, written, events, handed, flash >>

ProgramRecord ==
  /\ work # << >> /\ Head(work) = Write
  /\ work' = << Program(RecordBase, buffer) >>
  /\ handed' = buffer /\ buffer' = << >>
  /\ UNCHANGED << nv, sum, on, change, written, events, flash >>

\* Faulty variant for mutation: the high byte of the sum is not compared.
SumHoldsLow(r) == LowByte(Total(SubSeq(r, 1, DataLen))) = r[DataLen + 1]

SumHolds(r) == SumBytes(Total(SubSeq(r, 1, DataLen))) = SubSeq(r, DataLen + 1, RecordLen)

\* Bt_PowerOn: the record is loaded and checked.
Bt_PowerOn ==
  /\ work = << >> /\ ~ on
  /\ on' = TRUE
  /\ nv' = IF SumHolds(Saved) THEN Saved ELSE BlankRecord
  /\ UNCHANGED << sum, buffer, change, written, events, handed, flash, work >>

PowerOff ==
  /\ work = << >> /\ on /\ change = << >>
  /\ on' = FALSE
  /\ UNCHANGED << nv, sum, buffer, change, written, events, handed, flash, work >>

\* What a reset leaves.
Forgets ==
  /\ nv' = BlankRecord /\ sum' = 0 /\ buffer' = << >> /\ on' = FALSE
  /\ change' = << >> /\ written' = 0 /\ events' = << >>
  /\ UNCHANGED handed
-----------------------------------------------------------------------------
RecInit ==
  /\ nv = BlankRecord /\ sum = 0 /\ buffer = << >> /\ on = FALSE
  /\ change = << >> /\ written = 0 /\ events = << >>
  /\ handed = BlankRecord

SaveStep == AddByte \/ WriteSum \/ CopyByte \/ ProgramRecord

RecNext ==
  \/ CoreBegins \/ CoreWrites \/ CoreReports
  \/ Dispatch \/ SaveStep \/ Bt_PowerOn \/ PowerOff
=============================================================================
