------------------------------ MODULE FlashUsers ------------------------------
(***************************************************************************)
(* The two users of the flash on one M0: the update of the program and the *)
(* pairing record.  Handlers of the main loop exclude each other (`work`); *)
(* the core, the phone and power failures do not wait for them.            *)
(***************************************************************************)
EXTENDS Ota, RecInfo

CONSTANTS None

ASSUME FlashUsersAssumption ==
  /\ None \notin Images
  /\ SectorLen <= RecordBase
  /\ \A s \in Slots : RecordBase + SectorLen <= First(s) \/ Beyond(s) <= RecordBase

vars == << flash, work, otaVars, recVars >>

Init == OtaInit /\ RecInit

UpdateStep == OtaNext /\ UNCHANGED recVars
RecordStep == up /\ RecNext /\ UNCHANGED otaVars
FlashDoes == FlashStep /\ UNCHANGED << otaVars, recVars >>

\* CORE_RESET is written and the M0 waits for it.
Reset ==
  /\ work # << >> /\ Head(work).cmd = "reset"
  /\ Down /\ Forgets
  /\ UNCHANGED flash

PowerFailure ==
  /\ up
  /\ flash' \in Left
  /\ Down /\ Forgets

Next == UpdateStep \/ RecordStep \/ FlashDoes \/ Reset \/ PowerFailure

\* The M0 gives the commands of the handler it is in, and its timer fires.
Works ==
  \/ SendAnswer /\ UNCHANGED recVars
  \/ SaveStep /\ UNCHANGED otaVars
  \/ FlashDoes \/ Reset

Fairness ==
  /\ WF_vars(Works)
  /\ WF_vars(Bt_SPPCallBack /\ UNCHANGED recVars)
  /\ WF_vars(Bt_CBChangeCode /\ UNCHANGED recVars)
  /\ WF_vars(TakeAnswer /\ UNCHANGED recVars)

Spec == Init /\ [][Next]_vars /\ Fairness

-----------------------------------------------------------------------------
ImageAt(a) == IF a \in Slots /\ InFlash(a, ImageLen) \in Images THEN InFlash(a, ImageLen) ELSE None

Switching == work # << >> /\ Last(work).cmd = "reset"

AB == INSTANCE ABUpdate WITH
        Image <- Images, boots <- ImageAt(Pointer),
        ready <- IF armed \/ Switching THEN ImageAt(addr) ELSE None, switching <- Switching

\* The headset boots the image it has until another is there, complete and checked,
\* whatever is repeated, lost or broken off; only a power failure inside
\* Bt_CBChangeCode can leave it with none.
ImplementsABUpdate == AB!Spec

\* A record that passes the check at power-on is the one last handed to the flash as a
\* whole: what a power failure leaves of a save is never taken for a record.
TornRecordRejected == SumHolds(Saved) => Saved = handed

\* When the core has reported its last change and the M0 has dealt with it, the flash
\* has the record in memory, and power-on will take it.
RecordSaved ==
  on /\ work = << >> /\ change = << >> /\ events = << >> =>
    nv = BlankRecord \/ (nv = Saved /\ SumHolds(Saved))

\* An image that passed is what the headset boots next, unless it is given up or the
\* power fails first.
EventuallyInstalled ==
  \A s \in Slots : armed /\ addr = s ~> Pointer = s \/ addr # s

\* An update that nobody disturbs passes its check and is what the headset boots: all
\* its packets are in the slot as they were sent, wherever they meet the pages.
UndisturbedUpdateBoots ==
  \A i \in Images :
    phone.stage = "start" /\ phone.image = i /\ repeats = 0
      ~> ImageAt(Pointer) = i \/ phone = Idle \/ repeats # 0
=============================================================================
