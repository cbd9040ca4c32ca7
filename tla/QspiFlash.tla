------------------------------ MODULE QspiFlash ------------------------------
(***************************************************************************)
(* The flash behind drivers/qspi/yc11xx_qspi.c: what its users' calls send *)
(* to it, command by command, and what a power failure leaves of one.      *)
(*                                                                         *)
(* Erasing sets all bits of a byte, and programming can only clear some.   *)
(* A function of the driver returns when its last command is done; what    *)
(* the caller still has to do is `work`.                                   *)
(*                                                                         *)
(* A power failure is assumed to find an erase not begun or finished, and  *)
(* the bytes of a page programmed in order.                                *)
(***************************************************************************)
EXTENDS Integers, SequencesExt

CONSTANTS Blank,      \* an erased byte, all its bits set: 0xFF
          And,        \* the bits set in both of two bytes
          PageLen,    \* Flash_PageLength
          SectorLen,  \* bytes of a sector
          FlashLen,   \* bytes of the flash
          RecordBase  \* DEVICE_INFO_BASE, the sector of the pairing record

Byte == 0 .. Blank
Address == 0 .. FlashLen - 1

ASSUME QspiAssumption ==
  /\ {Blank, PageLen, SectorLen, FlashLen} \subseteq Nat \ {0}
  /\ And \in [Byte \X Byte -> Byte] /\ \A b \in Byte : And[<< Blank, b >>] = b
  /\ SectorLen % PageLen = 0 /\ FlashLen % SectorLen = 0
  /\ RecordBase \in Address

VARIABLES flash,   \* every byte of it
          work     \* commands the running handler has still to give

Radix == Blank + 1

Total(bytes) ==
  LET sum[n \in 0 .. Len(bytes)] == IF n = 0 THEN 0 ELSE sum[n - 1] + bytes[n]
  IN sum[Len(bytes)]
-----------------------------------------------------------------------------
(* Commands, and the driver's functions as the commands they give. *)

Erase(from, len) == [cmd |-> "erase", at |-> from, len |-> len]
Program(at, bytes) == [cmd |-> "program", at |-> at, bytes |-> bytes]

QSPI_SectorEraseFlash(a) == Erase(a - (a % SectorLen), SectorLen)
QSPI_PageEraseFlash(a) == Erase(a - (a % PageLen), PageLen)

QSPI_ReadFlashData(f, a, len) == [i \in 1 .. len |-> f[a + i - 1]]

Part(bytes, m, n) == SubSeq(bytes, m, IF n < Len(bytes) THEN n ELSE Len(bytes))

\* The page of `a`, then the pages after it, as they are programmed.
PagePrograms(a, head, bytes) ==
  LET page == a - Len(head)
      all == head \o bytes
  IN [i \in 1 .. (Len(all) + PageLen - 1) \div PageLen |->
        Program(page + (i - 1) * PageLen, Part(all, (i - 1) * PageLen + 1, i * PageLen))]

\* Faulty variant for mutation: the bytes before the address are not read back.
WriteBlindly(a, bytes) ==
  << QSPI_PageEraseFlash(a) >> \o PagePrograms(a, [i \in 1 .. a % PageLen |-> Blank], bytes)

\* The page of the address is read up to it, erased and programmed again; the pages
\* after it are programmed as they are.
QSPI_WriteFlashData(a, bytes) ==
  LET offset == a % PageLen
  IN << QSPI_PageEraseFlash(a) >>
     \o PagePrograms(a, QSPI_ReadFlashData(flash, a - offset, offset), bytes)
-----------------------------------------------------------------------------
(* The flash. *)

Programmed(f, at, bytes) ==
  [a \in Address |-> IF a - at + 1 \in DOMAIN bytes THEN And[<< f[a], bytes[a - at + 1] >>] ELSE f[a]]
Erased(f, at, len) == [a \in Address |-> IF a \in at .. at + len - 1 THEN Blank ELSE f[a]]

Done(f, c) ==
  IF c.cmd = "erase" THEN Erased(f, c.at, c.len) ELSE Programmed(f, c.at, c.bytes)

IsFlash(c) == c.cmd \in {"erase", "program"}

\* The flash after a power failure.
Left ==
  IF work = << >> \/ ~ IsFlash(Head(work)) THEN {flash}
  ELSE IF Head(work).cmd = "erase" THEN {flash, Done(flash, Head(work))}
  ELSE {Programmed(flash, Head(work).at, SubSeq(Head(work).bytes, 1, n)) :
          n \in 0 .. Len(Head(work).bytes)}

FlashStep ==
  /\ work # << >> /\ IsFlash(Head(work))
  /\ flash' = Done(flash, Head(work))
  /\ work' = Tail(work)
=============================================================================
