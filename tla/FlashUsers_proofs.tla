-------------------------- MODULE FlashUsers_proofs --------------------------
(***************************************************************************)
(* Proofs about FlashUsers, for every layout of the flash and every image, *)
(* packet and record that OtaAssumption, RecAssumption and                 *)
(* FlashUsersAssumption allow.                                             *)
(***************************************************************************)
EXTENDS FlashUsers, WellFoundedInduction, FiniteSetTheorems, TLAPS

-----------------------------------------------------------------------------
(* Numbers. *)

\* Quotient and remainder determine a number, and it determines them.
LEMMA Division ==
  ASSUME NEW a \in Nat, NEW m \in Nat \ {0}
  PROVE  /\ a % m \in 0 .. m - 1 /\ a \div m \in Nat
         /\ a = m * (a \div m) + (a % m)
OBVIOUS

LEMMA DivisionIs ==
  ASSUME NEW a \in Nat, NEW m \in Nat \ {0}, NEW q \in Nat, NEW r \in 0 .. m - 1, a = m * q + r
  PROVE  a \div m = q /\ a % m = r
OBVIOUS

\* Two multiples of a number are at least that number apart.
LEMMA Multiples ==
  ASSUME NEW m \in Nat, NEW p \in Int, NEW q \in Int,
         NEW x, NEW y, x = m * p, y = m * q, x < y
  PROVE  x + m <= y
<1>1. p < q
  OBVIOUS
<1>2. m * (p + 1) <= m * q
  BY <1>1
<1> QED BY <1>2

Before == {e \in Nat \X Nat : e[1] < e[2]}

LEMMA Least ==
  ASSUME NEW T \in SUBSET Nat, T # {}
  PROVE  \E m \in T : \A k \in T : m <= k
<1>1. Before = OpToRel(<, Nat)
  BY DEF Before, OpToRel
<1>2. IsWellFoundedOn(Before, Nat)
  BY <1>1, NatLessThanWellFounded, Zenon
<1>3. \E x \in T : \A y \in T : << y, x >> \notin Before
  BY <1>2, WFMin
<1>4. \A x, y \in Nat : << y, x >> \in Before <=> y < x
  BY DEF Before
<1>5. \A x, y \in T : << y, x >> \notin Before => x <= y
  BY <1>4
<1> QED BY <1>3, <1>5

LEMMA SetInduction ==
  ASSUME NEW S, 0 \in S, \A n \in Nat : n \in S => n + 1 \in S
  PROVE  Nat \subseteq S
<1> SUFFICES ASSUME Nat \ S # {} PROVE FALSE
  OBVIOUS
<1>1. PICK m \in Nat \ S : \A k \in Nat \ S : m <= k
  BY Least
<1>2. m # 0 /\ m - 1 \in Nat /\ m - 1 + 1 = m
  BY <1>1
<1> QED BY <1>1, <1>2

\* The prefix sums of a sequence, up to the nth.
Partial(s, n) ==
  {g \in [0 .. n -> Nat] : \A i \in 0 .. n : g[i] = IF i = 0 THEN 0 ELSE g[i - 1] + s[i]}

LEMMA PartialExists ==
  ASSUME NEW s \in Seq(Nat)
  PROVE  Partial(s, Len(s)) # {}
<1> DEFINE D == {n \in Nat : n > Len(s) \/ Partial(s, n) # {}}
<1>1. 0 \in D
  <2>1. [i \in {0} |-> 0] \in Partial(s, 0)
    BY DEF Partial
  <2> QED BY <2>1
<1>2. ASSUME NEW n \in Nat, n \in D, n + 1 <= Len(s) PROVE n + 1 \in D
  <2>1. PICK g \in Partial(s, n) : TRUE
    BY <1>2
  <2> DEFINE h == [i \in 0 .. n + 1 |-> IF i = n + 1 THEN g[n] + s[n + 1] ELSE g[i]]
  <2>2. g \in [0 .. n -> Nat] /\ s[n + 1] \in Nat /\ g[n] \in Nat
    BY <2>1, <1>2, SMTT(30) DEF Partial
  <2>3. h \in [0 .. n + 1 -> Nat]
    BY <2>2
  <2>4. \A i \in 0 .. n + 1 : h[i] = IF i = 0 THEN 0 ELSE h[i - 1] + s[i]
    BY <2>1, <2>2, SMTT(30) DEF Partial
  <2>5. h \in Partial(s, n + 1)
    BY <2>3, <2>4, Zenon DEF Partial
  <2> QED BY <2>5
<1>3. Nat \subseteq D
  <2>1. \A n \in Nat : n \in D => n + 1 \in D
    BY <1>2
  <2> HIDE DEF D
  <2> QED BY <1>1, <2>1, SetInduction
<1> QED BY <1>3

LEMMA TotalOf ==
  ASSUME NEW s \in Seq(Nat)
  PROVE  \E g \in Partial(s, Len(s)) : Total(s) = g[Len(s)]
<1> DEFINE F(g) == g = [n \in 0 .. Len(s) |-> IF n = 0 THEN 0 ELSE g[n - 1] + s[n]]
           total == CHOOSE g : F(g)
<1>1. PICK g \in Partial(s, Len(s)) : TRUE
  BY PartialExists
<1>2. F(g)
  BY <1>1 DEF Partial
<1>3. F(total)
  BY <1>2
<1>4. Total(s) = total[Len(s)]
  BY DEF Total
<1>5. DOMAIN total = 0 .. Len(s) /\ \A n \in 0 .. Len(s) : total[n] = IF n = 0 THEN 0 ELSE total[n - 1] + s[n]
  BY <1>3
<1> HIDE DEF total
<1>6. \A n \in Nat : n <= Len(s) => total[n] \in Nat
  <2> DEFINE E == {n \in Nat : n <= Len(s) => total[n] \in Nat}
  <2>1. 0 \in E
    BY <1>5
  <2>2. \A n \in Nat : n \in E => n + 1 \in E
    <3> SUFFICES ASSUME NEW n \in Nat, n \in E, n + 1 <= Len(s) PROVE total[n + 1] \in Nat
      OBVIOUS
    <3>1. n + 1 \in 0 .. Len(s) /\ n + 1 # 0 /\ n + 1 - 1 = n /\ total[n] \in Nat /\ s[n + 1] \in Nat
      OBVIOUS
    <3>2. total[n + 1] = total[n] + s[n + 1]
      BY <1>5, <3>1
    <3> QED BY <3>1, <3>2
  <2>3. Nat \subseteq E
    <3> HIDE DEF E
    <3> QED BY <2>1, <2>2, SetInduction
  <2> QED BY <2>3
<1>7. total = [n \in 0 .. Len(s) |-> total[n]]
  BY <1>3, <1>5
<1>8. total \in [0 .. Len(s) -> Nat]
  BY <1>6, <1>7
<1>9. total \in Partial(s, Len(s))
  BY <1>5, <1>8, Zenon DEF Partial
<1> QED BY <1>4, <1>9

LEMMA PartialUnique ==
  ASSUME NEW s \in Seq(Nat), NEW m \in 0 .. Len(s), NEW n \in 0 .. m,
         NEW t \in Seq(Nat), Len(t) = n, \A i \in 1 .. n : t[i] = s[i],
         NEW g \in Partial(s, m), NEW h \in Partial(t, n)
  PROVE  h[n] = g[n]
<1> DEFINE E == {k \in Nat : k <= n => h[k] = g[k]}
<1>1. 0 \in E
  BY DEF Partial
<1>2. \A k \in Nat : k \in E => k + 1 \in E
  <2> SUFFICES ASSUME NEW k \in Nat, k \in E, k + 1 <= n PROVE h[k + 1] = g[k + 1]
    OBVIOUS
  <2>1. k + 1 \in 0 .. n /\ k + 1 \in 0 .. m /\ k + 1 # 0 /\ k + 1 - 1 = k /\ h[k] = g[k]
    OBVIOUS
  <2>2. \A i \in 0 .. n : h[i] = IF i = 0 THEN 0 ELSE h[i - 1] + t[i]
    BY DEF Partial
  <2>3. \A i \in 0 .. m : g[i] = IF i = 0 THEN 0 ELSE g[i - 1] + s[i]
    BY DEF Partial
  <2>4. h[k + 1] = h[k] + t[k + 1] /\ g[k + 1] = g[k] + s[k + 1]
    BY <2>1, <2>2, <2>3
  <2>5. t[k + 1] = s[k + 1]
    BY <2>1
  <2> QED BY <2>1, <2>4, <2>5
<1>3. Nat \subseteq E
  <2> HIDE DEF E
  <2> QED BY <1>1, <1>2, SetInduction
<1> QED BY <1>3

\* Total adds the bytes up, one after the other.
LEMMA TotalSteps ==
  ASSUME NEW s \in Seq(Nat)
  PROVE  /\ Total(s) \in Nat /\ Total(SubSeq(s, 1, 0)) = 0 /\ Total(SubSeq(s, 1, Len(s))) = Total(s)
         /\ \A n \in 1 .. Len(s) : Total(SubSeq(s, 1, n)) = Total(SubSeq(s, 1, n - 1)) + s[n]
<1>1. PICK g \in Partial(s, Len(s)) : Total(s) = g[Len(s)]
  BY TotalOf
<1>2. g \in [0 .. Len(s) -> Nat] /\ \A i \in 0 .. Len(s) : g[i] = IF i = 0 THEN 0 ELSE g[i - 1] + s[i]
  BY <1>1 DEF Partial
<1>3. ASSUME NEW n \in 0 .. Len(s) PROVE Total(SubSeq(s, 1, n)) = g[n]
  <2> DEFINE t == SubSeq(s, 1, n)
  <2>1. t \in Seq(Nat) /\ Len(t) = n /\ \A i \in 1 .. n : t[i] = s[i]
    OBVIOUS
  <2>2. PICK h \in Partial(t, n) : Total(t) = h[n]
    BY <2>1, TotalOf
  <2> HIDE DEF t
  <2>3. h[n] = g[n]
    BY <1>1, <2>1, <2>2, PartialUnique, SMTT(30)
  <2> QED BY <2>2, <2>3 DEF t
<1>4. Total(s) \in Nat /\ g[0] = 0
  BY <1>1, <1>2
<1>5. ASSUME NEW n \in 1 .. Len(s)
      PROVE  Total(SubSeq(s, 1, n)) = Total(SubSeq(s, 1, n - 1)) + s[n]
  <2>1. n \in 0 .. Len(s) /\ n - 1 \in 0 .. Len(s) /\ n # 0
    OBVIOUS
  <2>2. g[n] = g[n - 1] + s[n]
    BY <1>2, <2>1
  <2> QED BY <1>3, <2>1, <2>2
<1>6. 0 \in 0 .. Len(s) /\ Len(s) \in 0 .. Len(s)
  OBVIOUS
<1> QED BY <1>1, <1>3, <1>4, <1>5, <1>6

LEMMA TotalBound ==
  ASSUME NEW b \in Nat, NEW s \in Seq(0 .. b)
  PROVE  Total(s) <= b * Len(s)
<1> DEFINE E == {n \in Nat : n <= Len(s) => Total(SubSeq(s, 1, n)) <= b * n}
<1>1. s \in Seq(Nat)
  OBVIOUS
<1>2. 0 \in E
  BY <1>1, TotalSteps
<1>3. \A n \in Nat : n \in E => n + 1 \in E
  <2> SUFFICES ASSUME NEW n \in Nat, n \in E, n + 1 <= Len(s)
               PROVE  Total(SubSeq(s, 1, n + 1)) <= b * (n + 1)
    OBVIOUS
  <2>1. Total(SubSeq(s, 1, n + 1)) = Total(SubSeq(s, 1, n)) + s[n + 1]
    BY <1>1, TotalSteps
  <2>2. SubSeq(s, 1, n) \in Seq(Nat) /\ s[n + 1] \in 0 .. b
    BY <1>1
  <2>3. Total(SubSeq(s, 1, n)) \in Nat /\ Total(SubSeq(s, 1, n)) <= b * n
    <3>1. Total(SubSeq(s, 1, n)) \in Nat
      BY <2>2, TotalSteps
    <3> QED BY <3>1
  <2> QED BY <2>1, <2>2, <2>3
<1>4. Nat \subseteq E
  <2> HIDE DEF E
  <2> QED BY <1>2, <1>3, SetInduction
<1>5. Len(s) \in E
  BY <1>4
<1> QED BY <1>1, <1>5, TotalSteps
-----------------------------------------------------------------------------
(* The messages of an update by stages: START is 0, the packets are 1 to Count, then   *)
(* END and RESET.                                                                      *)

Count == Len(Packets)
EndStage == Count + 1
ResetStage == Count + 2

Said(i, f, k) ==
  IF k = 0 THEN [evt |-> "START"]
  ELSE IF k <= Count
       THEN [evt |-> "DATA", id |-> f + k - 1, bytes |-> SubSeq(i, Sent(k - 1) + 1, Sent(k))]
  ELSE IF k = EndStage THEN [evt |-> "END", sum |-> Total(i), len |-> ImageLen]
  ELSE [evt |-> "RESET"]

\* The phone that has sent the message of stage c.
Phones(i, f, c) ==
  {[stage |-> s, image |-> i, first |-> f, next |-> IF c <= Count THEN c ELSE Count] :
     s \in IF c = 0 THEN {"start"} ELSE IF c <= Count THEN {"data"}
           ELSE {"end", "passed", "refused"}}

\* An answer to a message of stage h or an earlier one.
AnswersTo(f, h, a) ==
  /\ a.cmd = "answer"
  /\ \/ a.evt = "START" /\ h >= 0
     \/ a.evt = "DATA" /\ \E k \in 1 .. Count : k <= h /\ a.with = f + k - 1
     \/ a.evt = "END" /\ h >= EndStage /\ a.with \in BOOLEAN

IsSeq(s) == s \in Seq({s[n] : n \in 1 .. Len(s)})
-----------------------------------------------------------------------------
(* The protocol: h is the last stage the headset has handled, -1 before START; u first  *)
(* packets have come twice and been taken twice.                                        *)

\* The messages on their way are of stages h and h + 1, in order, and perhaps a RESET.
Stages(i, f, h, ks) ==
  /\ ks \in [1 .. Len(received) -> (0 .. ResetStage) \cap {h, h + 1, ResetStage}]
  /\ \A n \in 1 .. Len(received) : received[n] = Said(i, f, ks[n])
  /\ \A m, n \in 1 .. Len(received) : m <= n => ks[m] <= ks[n]

Talks(i, f, h, u, ks) ==
  \/ /\ phone = Idle /\ answers = << >>
     /\ u + Len(received) <= repeats + 2
  \/ \E c \in {h, h + 1} \cap 0 .. EndStage :
       /\ phone \in Phones(i, f, c)
       /\ phone.stage \in {"passed", "refused"} => c = h
       /\ \A n \in 1 .. Len(received) : ks[n] <= c
       /\ u + Len(received) <= repeats + c - h

\* The slot that is being filled, and what the headset has counted.
Counts(f, h, u) ==
  /\ h = -1 => ~ armed /\ u = 0
  /\ h \in 0 .. Count =>
       /\ up /\ ~ armed /\ ~ Switching
       /\ addr \in Slots
       /\ packetid = IF h = 0 THEN 0 ELSE f + h - 1
       /\ datalen = Sent(h) + u * Packets[1]
       /\ u > 0 => h >= 1 /\ f = 0
  /\ h = EndStage => addr = 0 \/ (addr \in Slots /\ u = 0)
  /\ h = ResetStage => addr = 0
  /\ Switching => h = EndStage /\ addr \in Slots
  /\ ~ Switching /\ h >= 0 /\ addr \in Slots => addr # Pointer

Protocol(i, f, h, u) ==
  /\ \E ks : Stages(i, f, h, ks) /\ Talks(i, f, h, u, ks)
  /\ IsSeq(received) /\ IsSeq(answers)
  /\ \A n \in 1 .. Len(answers) : AnswersTo(f, h, answers[n])
  /\ Counts(f, h, u)
  /\ ~ up => h = ResetStage /\ received = << >> /\ phone = Idle /\ work = << >>
  /\ up /\ ~ Switching => Pointer \in Slots
-----------------------------------------------------------------------------
(* The commands still to be given, and the slot so far. *)

\* The n bytes of the image from a on.
Goal(i, a, n) == [x \in Address |-> IF a <= x /\ x < a + n THEN i[x - a + 1] ELSE Blank]
Filled(i, h) == Goal(i, addr, IF h <= Count THEN Sent(h) ELSE ImageLen)

Wipes(f, h, at) ==
  /\ at + (Len(work) - 1) * SectorLen = Beyond(addr)
  /\ \A n \in 1 .. Len(work) - 1 : work[n] = Erase(at + (n - 1) * SectorLen, SectorLen)
  /\ Len(work) >= 1 /\ AnswersTo(f, h, work[Len(work)])
  /\ \A x \in Region(addr) : x < at => flash[x] = Blank

Wiping(f, h, u) ==
  h = 0 /\ u = 0 /\ addr \in Slots /\ \E at \in First(addr) .. Beyond(addr) : Wipes(f, h, at)

PageAt(c, at) ==
  LET rest == addr + datalen - at
  IN /\ rest > 0
     /\ c.cmd = "program" /\ c.at = at
     /\ c.bytes \in Seq(Byte) /\ Len(c.bytes) = IF rest < PageLen THEN rest ELSE PageLen

Pages(i, f, h, u, w, at) ==
  /\ Len(w) >= 1 /\ AnswersTo(f, h, w[Len(w)])
  /\ addr + datalen <= at + (Len(w) - 1) * PageLen
  /\ \A n \in 1 .. Len(w) - 1 :
       /\ PageAt(w[n], at + (n - 1) * PageLen)
       /\ u = 0 => \A k \in 1 .. Len(w[n].bytes) :
            w[n].bytes[k] = Filled(i, h)[at + (n - 1) * PageLen + k - 1]

Writing(i, f, h, u) ==
  /\ h \in 1 .. Count /\ addr \in Slots
  /\ \E at \in First(addr) .. Beyond(addr) + PageLen :
       \/ /\ Pages(i, f, h, u, work, at)
          /\ u = 0 => \A x \in Region(addr) :
                        flash[x] = IF x < at THEN Filled(i, h)[x] ELSE Blank
       \/ /\ work # << >> /\ Pages(i, f, h, u, Tail(work), at)
          /\ work[1] = Erase(at, PageLen) /\ at + PageLen <= Beyond(addr)
          /\ u = 0 => \A x \in Region(addr) :
                        /\ x < at => flash[x] = Filled(i, h)[x]
                        /\ x >= at + PageLen => flash[x] = Blank

\* What is left of Bt_CBChangeCode after j of its commands.
SwitchCommand(n) ==
  CASE n = 1 -> Erase(RecordBase, SectorLen)
    [] n = 2 -> Erase(0, SectorLen)
    [] n = 3 -> Erase(0, PageLen)
    [] n = 4 -> Program(0, PointerTo(addr))
    [] n = 5 -> [cmd |-> "reset"]

Switches(j) ==
  /\ Len(work) = 5 - j
  /\ \A n \in 1 .. 5 - j : work[n] = SwitchCommand(j + n)
  /\ j <= 1 => Pointer \in Slots /\ Pointer # addr
  /\ j \in {2, 3} => \A x \in 0 .. PointerLen - 1 : flash[x] = Blank
  /\ j = 4 => Pointer = addr

\* Bt_calReconInfoCRC and Bt_UpdateDeviceInfo, step by step.
SaveLen == 2 * DataLen + 6
SaveCommand(n) ==
  CASE n <= DataLen -> Add(n)
    [] n = DataLen + 1 -> StoreSum
    [] n \in {DataLen + 2, DataLen + 3} ->
         Erase(RecordBase, IF n = DataLen + 2 THEN SectorLen ELSE PageLen)
    [] n > DataLen + 3 /\ n < SaveLen -> Copy(n - DataLen - 3)
    [] n = SaveLen -> Write

Saves(j) ==
  /\ j \in 0 .. SaveLen - 1
  /\ Len(work) = SaveLen - j /\ \A n \in 1 .. SaveLen - j : work[n] = SaveCommand(j + n)

ProgramsRecord == Len(work) = 1 /\ work[1] = Program(RecordBase, handed)
Saving == ProgramsRecord \/ \E j \in 0 .. SaveLen - 1 : Saves(j)

Settled(i, f, h, u) ==
  /\ work = << >> \/ Saving \/ (Len(work) = 1 /\ AnswersTo(f, h, work[1]))
  /\ h >= 0 /\ addr \in Slots /\ u = 0 =>
       \A x \in Region(addr) : flash[x] = Filled(i, h)[x]

Changing(i, h) ==
  /\ \E j \in 0 .. 4 : Switches(j)
  /\ addr \in Slots
  /\ \A x \in Region(addr) : flash[x] = Filled(i, h)[x]

Update(i, f, h, u) ==
  /\ Protocol(i, f, h, u)
  /\ \/ Settled(i, f, h, u) \/ Wiping(f, h, u)
     \/ Writing(i, f, h, u) \/ Changing(i, h)
-----------------------------------------------------------------------------
(* The record. *)

Quiet == change = << >> /\ events = << >>

TornAt(n) ==
  \A k \in 1 .. RecordLen : flash[RecordBase + k - 1] = IF k <= n THEN handed[k] ELSE Blank

Kept == nv = BlankRecord \/ (nv = Saved /\ SumHolds(Saved))

SavesWell(j) ==
  /\ Saves(j)
  /\ Quiet =>
       /\ j <= DataLen => sum = Total(SubSeq(nv, 1, j))
       /\ j > DataLen => SumHolds(nv)
  /\ j >= DataLen + 2 => TornAt(0)
  /\ Len(buffer) = IF j <= DataLen + 3 THEN 0 ELSE j - DataLen - 3
  /\ Quiet => \A k \in 1 .. Len(buffer) : buffer[k] = nv[k]

ProgramsWell == ProgramsRecord /\ TornAt(0) /\ (Quiet => nv = handed /\ SumHolds(nv))

Record ==
  /\ nv \in [1 .. RecordLen -> Byte] /\ handed \in [1 .. RecordLen -> Byte]
  /\ sum \in Nat /\ buffer \in Seq(Byte) /\ on \in BOOLEAN
  /\ change \in RecordData \cup {<< >>} /\ written \in Nat
  /\ IsSeq(events)
  /\ \E n \in 0 .. RecordLen : TornAt(n)
  /\ \/ ~ Saving /\ (~ Switching /\ on /\ Quiet => Kept)
     \/ ProgramsWell
     \/ \E j \in 0 .. SaveLen - 1 : SavesWell(j)

Types ==
  /\ flash \in [Address -> Byte] /\ IsSeq(work)
  /\ addr \in Nat /\ datalen \in Nat /\ datasum \in Nat /\ packetid \in Nat
  /\ armed \in BOOLEAN /\ up \in BOOLEAN /\ repeats \in 0 .. MaxRepeats

IInv ==
  /\ Types
  /\ \E i \in Images, f \in Nat, h \in -1 .. ResetStage, u \in Nat :
       Update(i, f, h, u)
  /\ Record
-----------------------------------------------------------------------------
(* The layout. *)

LEMMA Sizes ==
  /\ {Blank, PageLen, SectorLen, FlashLen, Radix} \subseteq Nat \ {0} /\ Blank \in Byte
  /\ SlotSectors \in Nat /\ MaxRepeats \in Nat
  /\ ImageLen \in Nat /\ Count \in Nat \ {0} /\ Packets[1] \in Nat \ {0}
<1>1. Packets \in Seq(Nat) /\ Len(Packets) # 0 /\ Packets[1] \in Nat \ {0} /\ Len(Packets) \in Nat
  BY OtaAssumption
<1>2. ImageLen \in Nat
  BY <1>1, TotalSteps DEF ImageLen
<1>3. {Blank, PageLen, SectorLen, FlashLen} \subseteq Nat \ {0}
  BY QspiAssumption
<1>4. Radix \in Nat \ {0} /\ Blank \in Byte
  BY <1>3 DEF Radix, Byte
<1>5. SlotSectors \in Nat /\ MaxRepeats \in Nat
  BY OtaAssumption
<1> QED BY <1>1, <1>2, <1>3, <1>4, <1>5 DEF Count

\* What has been sent grows packet by packet, up to the image.
LEMMA SentSteps ==
  /\ Sent(0) = 0 /\ Sent(Count) = ImageLen
  /\ \A k \in 1 .. Count : Sent(k) = Sent(k - 1) + Packets[k] /\ Packets[k] \in Nat \ {0}
  /\ \A k \in 0 .. Count : Sent(k) \in Nat /\ Sent(k) <= ImageLen
<1>1. Packets \in Seq(Nat) /\ \A k \in 1 .. Count : Packets[k] \in Nat \ {0}
  BY OtaAssumption DEF Count
<1>2. /\ Sent(0) = 0 /\ Sent(Count) = ImageLen
      /\ \A k \in 1 .. Count : Sent(k) = Sent(k - 1) + Packets[k]
  BY <1>1, TotalSteps DEF Sent, ImageLen, Count
<1>3. \A k \in 0 .. Count : Sent(k) \in Nat
  <2> TAKE k \in 0 .. Count
  <2>1. SubSeq(Packets, 1, k) \in Seq(Nat)
    BY <1>1 DEF Count
  <2> QED BY <2>1, TotalSteps DEF Sent
<1>4. \A k \in 0 .. Count : Sent(k) <= ImageLen
  <2> DEFINE E == {n \in Nat : n <= Count => Sent(Count - n) <= ImageLen}
  <2>1. 0 \in E
    BY <1>2, <1>3, Sizes
  <2>2. \A n \in Nat : n \in E => n + 1 \in E
    <3> SUFFICES ASSUME NEW n \in Nat, n \in E, n + 1 <= Count
                 PROVE  Sent(Count - (n + 1)) <= ImageLen
      OBVIOUS
    <3>1. Count - n \in 1 .. Count /\ Count - n - 1 = Count - (n + 1) /\ Count - n - 1 \in 0 .. Count
      BY Sizes
    <3>2. Sent(Count - n) = Sent(Count - n - 1) + Packets[Count - n]
      BY <1>2, <3>1
    <3>3. Packets[Count - n] \in Nat /\ Sent(Count - n - 1) \in Nat
      BY <1>1, <1>3, <3>1
    <3> QED BY <3>1, <3>2, <3>3, Sizes
  <2>3. Nat \subseteq E
    <3> HIDE DEF E
    <3> QED BY <2>1, <2>2, SetInduction
  <2> TAKE k \in 0 .. Count
  <2>4. Count - k \in Nat /\ Count - (Count - k) = k /\ Count - k <= Count
    BY Sizes
  <2>5. Count - k \in E
    BY <2>3, <2>4
  <2> QED BY <2>4, <2>5
<1> QED BY <1>1, <1>2, <1>3, <1>4

\* What a page erase clears lies between the sectors' bounds.
LEMMA PageWithin ==
  ASSUME NEW a \in Nat, NEW p \in Nat, NEW q \in Nat,
         SectorLen * p <= a, a < SectorLen * q
  PROVE  /\ a - (a % PageLen) \in Nat /\ a % PageLen \in 0 .. PageLen - 1
         /\ SectorLen * p <= a - (a % PageLen) /\ a - (a % PageLen) + PageLen <= SectorLen * q
<1>1. PageLen \in Nat \ {0} /\ SectorLen \in Nat \ {0}
  BY Sizes
<1> DEFINE s == SectorLen \div PageLen
           d == a \div PageLen
<1>2. s \in Nat /\ SectorLen = PageLen * s
  <2>1. SectorLen % PageLen = 0
    BY QspiAssumption
  <2>2. s \in Nat /\ SectorLen = PageLen * s + (SectorLen % PageLen)
    BY <1>1, Division
  <2> QED BY <2>1, <2>2, <1>1
<1>3. d \in Nat /\ a % PageLen \in 0 .. PageLen - 1 /\ a = PageLen * d + (a % PageLen)
  BY <1>1, Division
<1> HIDE DEF s, d
<1> DEFINE sp == s * p
           sq == s * q
<1>4. SectorLen * p = PageLen * sp /\ SectorLen * q = PageLen * sq /\ sp \in Nat /\ sq \in Nat
  BY <1>1, <1>2
<1> HIDE DEF sp, sq
<1>5. a - (a % PageLen) = PageLen * d
  BY <1>3, <1>1
<1> DEFINE x == PageLen * d
           y == PageLen * sp
           z == PageLen * sq
<1>6. x \in Nat /\ y \in Nat /\ z \in Nat /\ y <= a /\ a < z /\ x <= a /\ a < x + PageLen
  BY <1>1, <1>3, <1>4
<1>7. x + PageLen <= z
  <2>1. x < z
    BY <1>6
  <2> QED BY <2>1, <1>1, <1>3, <1>4, Multiples
<1>8. y <= x
  <2>1. x < y => x + PageLen <= y
    BY <1>1, <1>3, <1>4, Multiples
  <2> QED BY <2>1, <1>6, <1>1
<1> HIDE DEF x, y, z
<1>9. a - (a % PageLen) = x /\ SectorLen * p = y /\ SectorLen * q = z
  BY <1>4, <1>5 DEF x, y, z
<1> QED BY <1>3, <1>6, <1>7, <1>8, <1>9

\* Regions are made of sectors, and START erases these.
LEMMA SlotSizes ==
  ASSUME NEW s \in Slots
  PROVE  /\ s \in Nat /\ First(s) \in Nat /\ Beyond(s) \in Nat
         /\ SectorLen <= First(s) /\ First(s) <= s /\ s <= Beyond(s) /\ Beyond(s) <= FlashLen
         /\ s # 0
         /\ \E p, q \in Nat : First(s) = SectorLen * p /\ Beyond(s) = SectorLen * q
         /\ \A k \in Nat : QSPI_SectorEraseFlash(s + k * SectorLen)
                             = Erase(First(s) + k * SectorLen, SectorLen)
<1>1. s \in Nat /\ SectorLen <= First(s) /\ Beyond(s) <= FlashLen
  BY OtaAssumption
<1>2. SectorLen \in Nat \ {0} /\ SlotSectors \in Nat
  BY Sizes
<1> DEFINE p == s \div SectorLen
<1>3. p \in Nat /\ s % SectorLen \in 0 .. SectorLen - 1 /\ s = SectorLen * p + (s % SectorLen)
  BY <1>1, <1>2, Division
<1> HIDE DEF p
<1>4. First(s) = SectorLen * p /\ First(s) \in Nat
  BY <1>1, <1>2, <1>3 DEF First
<1>5. Beyond(s) = SectorLen * (p + SlotSectors) /\ p + SlotSectors \in Nat /\ Beyond(s) \in Nat
  BY <1>2, <1>3, <1>4 DEF Beyond
<1>6. ASSUME NEW k \in Nat
      PROVE  QSPI_SectorEraseFlash(s + k * SectorLen) = Erase(First(s) + k * SectorLen, SectorLen)
  <2> DEFINE r == s % SectorLen
             a == s + k * SectorLen
  <2>1. k * SectorLen \in Nat /\ p + k \in Nat
    BY <1>2, <1>3
  <2>2. a = SectorLen * (p + k) + r /\ r \in 0 .. SectorLen - 1 /\ a \in Nat
    BY <2>1, <1>1, <1>2, <1>3
  <2>3. a - r = First(s) + k * SectorLen
    <3>1. s - r = First(s)
      BY DEF First
    <3> QED BY <3>1, <2>1, <2>2, <1>1, <1>4
  <2> HIDE DEF r, a
  <2>4. a % SectorLen = r
    BY <2>1, <2>2, <1>2, DivisionIs
  <2>5. a - (a % SectorLen) = First(s) + k * SectorLen
    BY <2>3, <2>4
  <2> QED BY <2>5 DEF a, QSPI_SectorEraseFlash
<1>7. s <= Beyond(s)
  <2>1. s + ImageLen + (MaxRepeats + 2) * Packets[1] <= Beyond(s)
    BY OtaAssumption
  <2>2. (MaxRepeats + 2) * Packets[1] \in Nat
    BY Sizes
  <2> QED BY <2>1, <2>2, <1>1, <1>5, Sizes
<1> QED BY <1>1, <1>2, <1>3, <1>4, <1>5, <1>6, <1>7, SMTT(30)

LEMMA RecordSizes ==
  /\ RecordBase \in Nat /\ SectorLen <= RecordBase /\ RecordBase + SectorLen <= FlashLen
  /\ DataLen \in 1 .. Blank /\ RecordLen = DataLen + 2 /\ RecordLen <= SectorLen
  /\ QSPI_SectorEraseFlash(RecordBase) = Erase(RecordBase, SectorLen)
  /\ QSPI_PageEraseFlash(RecordBase) = Erase(RecordBase, PageLen) /\ PageLen <= SectorLen
  /\ QSPI_SectorEraseFlash(0) = Erase(0, SectorLen) /\ QSPI_PageEraseFlash(0) = Erase(0, PageLen)
  /\ SectorLen <= FlashLen
<1>1. /\ {Blank, PageLen, SectorLen, FlashLen} \subseteq Nat \ {0}
      /\ RecordBase \in Nat /\ RecordBase < FlashLen
      /\ RecordBase % SectorLen = 0 /\ FlashLen % SectorLen = 0 /\ SectorLen % PageLen = 0
  <2>1. RecordBase % SectorLen = 0
    BY RecAssumption
  <2>2. SectorLen % PageLen = 0 /\ FlashLen % SectorLen = 0 /\ RecordBase \in Address
    BY QspiAssumption
  <2> QED BY <2>1, <2>2, Sizes DEF Address
<1> DEFINE r == RecordBase \div SectorLen
           f == FlashLen \div SectorLen
           s == SectorLen \div PageLen
<1>2. /\ r \in Nat /\ RecordBase = SectorLen * r /\ f \in Nat /\ FlashLen = SectorLen * f
      /\ s \in Nat /\ SectorLen = PageLen * s
  <2>1. r \in Nat /\ RecordBase = SectorLen * r + (RecordBase % SectorLen)
    BY <1>1, Division
  <2>2. f \in Nat /\ FlashLen = SectorLen * f + (FlashLen % SectorLen)
    BY <1>1, Division
  <2>3. s \in Nat /\ SectorLen = PageLen * s + (SectorLen % PageLen)
    BY <1>1, Division
  <2> QED BY <2>1, <2>2, <2>3, <1>1
<1> HIDE DEF r, f, s
<1>3. RecordBase + SectorLen <= FlashLen
  BY <1>1, <1>2, Multiples
<1>4. s # 0 /\ PageLen <= SectorLen
  <2>1. s # 0
    BY <1>1, <1>2
  <2>2. s >= 1 /\ PageLen * 1 <= PageLen * s
    BY <2>1, <1>1, <1>2
  <2> QED BY <2>1, <2>2, <1>1, <1>2
<1>5. RecordBase = PageLen * (s * r) + 0 /\ s * r \in Nat
  BY <1>1, <1>2
<1>6. RecordBase % PageLen = 0
  BY <1>1, <1>5, DivisionIs
<1>7. 0 % SectorLen = 0 /\ 0 % PageLen = 0
  BY <1>1
<1>8. SectorLen <= RecordBase /\ RecordLen <= SectorLen /\ DataLen \in 1 .. Blank /\ RecordLen = DataLen + 2
  BY RecAssumption, FlashUsersAssumption DEF RecordLen
<1> QED BY <1>1, <1>3, <1>4, <1>6, <1>7, <1>8 DEF QSPI_SectorEraseFlash, QSPI_PageEraseFlash

\* The regions of the slots, the sector of the pointer and that of the record are apart.
LEMMA Apart ==
  /\ \A s, t \in Slots : s # t => Region(s) \cap Region(t) = {}
  /\ \A s \in Slots : Region(s) \cap (0 .. SectorLen - 1) = {}
  /\ \A s \in Slots : Region(s) \cap (RecordBase .. RecordBase + SectorLen - 1) = {}
  /\ (0 .. SectorLen - 1) \cap (RecordBase .. RecordBase + SectorLen - 1) = {}
  /\ \A s \in Slots : Region(s) \subseteq Address
  /\ PointerLen <= PageLen /\ PageLen <= SectorLen /\ SectorLen \in Nat /\ PageLen \in Nat
<1>1. \A s \in Slots : First(s) \in Nat /\ Beyond(s) \in Nat /\ SectorLen <= First(s) /\ Beyond(s) <= FlashLen
  BY SlotSizes
<1>2. \A s, t \in Slots : s # t => Beyond(s) <= First(t) \/ Beyond(t) <= First(s)
  BY OtaAssumption
<1>3. \A s \in Slots : RecordBase + SectorLen <= First(s) \/ Beyond(s) <= RecordBase
  BY FlashUsersAssumption
<1>4. {SectorLen, PageLen, FlashLen} \subseteq Nat /\ RecordBase \in Nat /\ SectorLen <= RecordBase /\ PageLen <= SectorLen
  BY Sizes, RecordSizes
<1>5. PointerLen <= PageLen
  BY OtaAssumption
<1> QED BY <1>1, <1>2, <1>3, <1>4, <1>5 DEF Region, Address

\* A slot's address is what the pointer to it says, and a pointer whose last byte is
\* erased is the address of no slot.
LEMMA SlotPointer ==
  ASSUME NEW s \in Slots
  PROVE  /\ PointerTo(s) \in Seq(Byte) /\ Len(PointerTo(s)) = PointerLen
         /\ AddressIn(PointerTo(s)) = s
<1>1. s \in Nat /\ s < Radix * Radix * Radix /\ Radix \in Nat \ {0} /\ Radix * Radix \in Nat \ {0}
  BY OtaAssumption, Sizes, SMTT(30)
<1> DEFINE h == s \div (Radix * Radix)
           d == s \div Radix
           m == d % Radix
           l == s % Radix
           e == d \div Radix
<1>2. s = Radix * d + l /\ d \in Nat /\ l \in 0 .. Radix - 1
  BY <1>1, Division
<1>3. d = Radix * e + m /\ e \in Nat /\ m \in 0 .. Radix - 1
  BY <1>1, <1>2, Division
<1>4. PointerTo(s) = << h, m, l >>
  BY DEF PointerTo
<1>5. h = e
  <2> HIDE DEF d, m, l, e
  <2> DEFINE r == Radix * m + l
  <2>1. Radix * m + Radix <= Radix * Radix
    <3>1. Radix * (m + 1) <= Radix * Radix
      BY <1>1, <1>3
    <3> QED BY <3>1, <1>1, <1>3
  <2>2. r \in 0 .. (Radix * Radix) - 1
    BY <2>1, <1>1, <1>2, <1>3
  <2>3. s = (Radix * Radix) * e + r
    BY <1>1, <1>2, <1>3
  <2> HIDE DEF r
  <2> QED BY <2>2, <2>3, <1>1, <1>3, DivisionIs
<1> HIDE DEF h, d, m, l, e
<1>6. s = (Radix * e + m) * Radix + l
  BY <1>1, <1>2, <1>3
<1>7. e < Radix
  <2> SUFFICES ASSUME Radix <= e PROVE FALSE
    BY <1>1, <1>3
  <2>1. (Radix * Radix) * Radix <= (Radix * Radix) * e
    BY <1>1, <1>3
  <2>2. s = (Radix * Radix) * e + (Radix * m) + l /\ Radix * m \in Nat
    BY <1>1, <1>2, <1>3
  <2> QED BY <2>1, <2>2, <1>1, <1>2, <1>3
<1>8. {e, m, l} \subseteq Byte
  BY <1>1, <1>2, <1>3, <1>7, Sizes DEF Byte, Radix
<1>9. (e * Radix + m) * Radix + l = s
  BY <1>6, <1>1, <1>2, <1>3
<1> QED BY <1>4, <1>5, <1>8, <1>9 DEF AddressIn, PointerLen

LEMMA ErasedPointer ==
  ASSUME NEW a \in Byte, NEW b \in Byte, NEW bytes, bytes[1] = a, bytes[2] = b, bytes[3] = Blank
  PROVE  AddressIn(bytes) \notin Slots
<1>1. Radix \in Nat \ {0} /\ a \in Nat /\ b \in Nat /\ Blank \in 0 .. Radix - 1
  BY Sizes DEF Radix, Byte
<1> DEFINE q == a * Radix + b
           n == AddressIn(bytes)
<1>2. q \in Nat
  BY <1>1
<1>3. n = Radix * q + Blank /\ n \in Nat
  BY <1>1, <1>2 DEF AddressIn
<1> HIDE DEF q, n
<1>4. n % Radix = Blank
  BY <1>1, <1>2, <1>3, DivisionIs
<1>5. \A s \in Slots : s % Radix # Blank
  BY OtaAssumption
<1> QED BY <1>4, <1>5 DEF n
-----------------------------------------------------------------------------
(* Commands to the flash. *)

Flashes == [Address -> Byte]

IsCommand(c) ==
  \/ c.cmd = "erase" /\ c.at \in Nat /\ c.len \in Nat
  \/ c.cmd = "program" /\ c.at \in Nat /\ c.bytes \in Seq(Byte)

Touched(c) == c.at .. c.at + (IF c.cmd = "erase" THEN c.len ELSE Len(c.bytes)) - 1

LEMMA ErasedIs ==
  ASSUME NEW f \in Flashes, NEW at \in Nat, NEW len \in Nat
  PROVE  /\ Erased(f, at, len) \in Flashes
         /\ \A x \in Address :
              /\ x < at \/ x >= at + len => Erased(f, at, len)[x] = f[x]
              /\ at <= x /\ x < at + len => Erased(f, at, len)[x] = Blank
  BY Sizes DEF Erased, Flashes, Address

\* Where the flash is erased, programming a byte writes it.
LEMMA ProgrammedIs ==
  ASSUME NEW f \in Flashes, NEW at \in Nat, NEW bytes \in Seq(Byte)
  PROVE  /\ Programmed(f, at, bytes) \in Flashes
         /\ \A x \in Address :
              /\ x < at \/ x >= at + Len(bytes) => Programmed(f, at, bytes)[x] = f[x]
              /\ at <= x /\ x < at + Len(bytes) /\ f[x] = Blank
                   => Programmed(f, at, bytes)[x] = bytes[x - at + 1]
<1>1. \A a, b \in Byte : And[<< a, b >>] \in Byte
  BY QspiAssumption
<1>2. \A b \in Byte : And[<< Blank, b >>] = b
  BY QspiAssumption
<1>3. \A x \in Address : x \in Int /\ f[x] \in Byte
  BY DEF Flashes, Address
<1>4. DOMAIN bytes = 1 .. Len(bytes) /\ Len(bytes) \in Nat /\ \A n \in 1 .. Len(bytes) : bytes[n] \in Byte
  OBVIOUS
<1>5. ASSUME NEW x \in Address
      PROVE  (IF x - at + 1 \in DOMAIN bytes THEN And[<< f[x], bytes[x - at + 1] >>] ELSE f[x]) \in Byte
  BY <1>1, <1>3, <1>4
<1>6. Programmed(f, at, bytes) \in Flashes
  BY <1>5 DEF Programmed, Flashes
<1>7. ASSUME NEW x \in Address, x < at \/ x >= at + Len(bytes)
      PROVE  Programmed(f, at, bytes)[x] = f[x]
  <2>1. x - at + 1 \notin DOMAIN bytes
    BY <1>3, <1>4, <1>7
  <2> QED BY <2>1 DEF Programmed
<1>8. ASSUME NEW x \in Address, at <= x, x < at + Len(bytes), f[x] = Blank
      PROVE  Programmed(f, at, bytes)[x] = bytes[x - at + 1]
  <2>1. x - at + 1 \in DOMAIN bytes /\ bytes[x - at + 1] \in Byte
    BY <1>3, <1>4, <1>8
  <2>2. Programmed(f, at, bytes)[x] = And[<< f[x], bytes[x - at + 1] >>]
    BY <2>1 DEF Programmed
  <2> QED BY <2>1, <2>2, <1>2, <1>8
<1> QED BY <1>6, <1>7, <1>8

LEMMA DoneOutside ==
  ASSUME NEW f \in Flashes, NEW c, IsCommand(c)
  PROVE  /\ Done(f, c) \in Flashes
         /\ \A x \in Address \ Touched(c) : Done(f, c)[x] = f[x]
<1>1. \A x \in Address : x \in Int
  BY DEF Address
<1>2. CASE c.cmd = "erase"
  <2>1. c.at \in Nat /\ c.len \in Nat /\ Done(f, c) = Erased(f, c.at, c.len) /\ Touched(c) = c.at .. c.at + c.len - 1
    BY <1>2 DEF IsCommand, Done, Touched
  <2>2. /\ Erased(f, c.at, c.len) \in Flashes
        /\ \A x \in Address : x < c.at \/ x >= c.at + c.len => Erased(f, c.at, c.len)[x] = f[x]
    BY <2>1, <1>1, ErasedIs
  <2>3. \A x \in Address \ Touched(c) : x < c.at \/ x >= c.at + c.len
    BY <2>1, <1>1
  <2> QED BY <2>1, <2>2, <2>3
<1>3. CASE c.cmd = "program"
  <2>1. /\ c.at \in Nat /\ c.bytes \in Seq(Byte) /\ Done(f, c) = Programmed(f, c.at, c.bytes)
        /\ Touched(c) = c.at .. c.at + Len(c.bytes) - 1 /\ Len(c.bytes) \in Nat
    BY <1>3 DEF IsCommand, Done, Touched
  <2>2. /\ Programmed(f, c.at, c.bytes) \in Flashes
        /\ \A x \in Address : x < c.at \/ x >= c.at + Len(c.bytes) => Programmed(f, c.at, c.bytes)[x] = f[x]
    BY <2>1, <1>1, ProgrammedIs
  <2>3. \A x \in Address \ Touched(c) : x < c.at \/ x >= c.at + Len(c.bytes)
    BY <2>1, <1>1
  <2> QED BY <2>1, <2>2, <2>3
<1> QED BY <1>2, <1>3 DEF IsCommand

LEMMA LeftOutside ==
  ASSUME flash \in Flashes, NEW f \in Left
  PROVE  \/ f = flash
         \/ /\ work # << >> /\ IsFlash(Head(work))
            /\ IsCommand(Head(work)) =>
                 f \in Flashes /\ \A x \in Address \ Touched(Head(work)) : f[x] = flash[x]
<1> DEFINE c == Head(work)
<1>1. CASE work = << >> \/ ~ IsFlash(c)
  BY <1>1 DEF Left
<1>2. CASE work # << >> /\ IsFlash(c) /\ c.cmd = "erase"
  BY <1>2, DoneOutside DEF Left
<1>3. CASE work # << >> /\ IsFlash(c) /\ c.cmd = "program"
  <2>1. PICK n \in 0 .. Len(c.bytes) : f = Programmed(flash, c.at, SubSeq(c.bytes, 1, n))
    BY <1>3 DEF Left
  <2> SUFFICES ASSUME IsCommand(c)
               PROVE  f \in Flashes /\ \A x \in Address \ Touched(c) : f[x] = flash[x]
    BY <1>3
  <2>2. c.at \in Nat /\ c.bytes \in Seq(Byte) /\ Touched(c) = c.at .. c.at + Len(c.bytes) - 1 /\ Len(c.bytes) \in Nat
    BY <1>3 DEF IsCommand, Touched
  <2> DEFINE b == SubSeq(c.bytes, 1, n)
  <2>3. b \in Seq(Byte) /\ Len(b) = n
    BY <2>2
  <2> HIDE DEF b, c
  <2>4. \A x \in Address : x < c.at \/ x >= c.at + n => f[x] = flash[x]
    BY <2>1, <2>2, <2>3, ProgrammedIs DEF b
  <2>5. f \in Flashes
    BY <2>1, <2>2, <2>3, ProgrammedIs DEF b
  <2>6. \A x \in Address : x \in Int
    BY DEF Address
  <2> QED BY <2>1, <2>2, <2>4, <2>5, <2>6
<1> QED BY <1>1, <1>2, <1>3 DEF IsFlash
-----------------------------------------------------------------------------
(* Sequences. *)

LEMMA SeqIsSeq ==
  ASSUME NEW S, NEW s \in Seq(S)
  PROVE  IsSeq(s)
<1>1. s \in [1 .. Len(s) -> {s[n] : n \in 1 .. Len(s)}]
  OBVIOUS
<1> QED BY <1>1 DEF IsSeq

LEMMA SeqNone == IsSeq(<< >>) /\ Len(<< >>) = 0
<1>1. << >> \in Seq({}) /\ Len(<< >>) = 0
  OBVIOUS
<1> QED BY <1>1, SeqIsSeq

LEMMA SeqTail ==
  ASSUME NEW s, IsSeq(s), s # << >>
  PROVE  /\ Len(s) \in Nat /\ Len(s) >= 1 /\ Head(s) = s[1]
         /\ IsSeq(Tail(s)) /\ Len(Tail(s)) = Len(s) - 1
         /\ \A n \in 1 .. Len(s) - 1 : Tail(s)[n] = s[n + 1]
<1> DEFINE S == {s[n] : n \in 1 .. Len(s)}
<1>1. s \in Seq(S)
  BY DEF IsSeq
<1> HIDE DEF S
<1>2. Tail(s) \in Seq(S)
  BY <1>1
<1>3. IsSeq(Tail(s))
  BY <1>2, SeqIsSeq
<1> QED BY <1>1, <1>3

LEMMA SeqAppend ==
  ASSUME NEW s, IsSeq(s), NEW e
  PROVE  /\ IsSeq(Append(s, e)) /\ Len(Append(s, e)) = Len(s) + 1 /\ Len(s) \in Nat
         /\ \A n \in 1 .. Len(s) : Append(s, e)[n] = s[n]
         /\ Append(s, e)[Len(s) + 1] = e
<1> DEFINE S == {s[n] : n \in 1 .. Len(s)}
           T == S \cup {e}
<1>1. s \in Seq(S)
  BY DEF IsSeq
<1> HIDE DEF S
<1>2. s \in Seq(T)
  BY <1>1
<1> HIDE DEF T
<1>3. e \in T
  BY DEF T
<1>4. Append(s, e) \in Seq(T)
  BY <1>2, <1>3
<1>5. IsSeq(Append(s, e))
  BY <1>4, SeqIsSeq
<1> QED BY <1>2, <1>3, <1>5

LEMMA SeqPrefix ==
  ASSUME NEW s, IsSeq(s), NEW n \in 0 .. Len(s)
  PROVE  /\ IsSeq(SubSeq(s, 1, n)) /\ Len(SubSeq(s, 1, n)) = n
         /\ \A m \in 1 .. n : SubSeq(s, 1, n)[m] = s[m]
<1> DEFINE S == {s[m] : m \in 1 .. Len(s)}
<1>1. s \in Seq(S)
  BY DEF IsSeq
<1> HIDE DEF S
<1>2. SubSeq(s, 1, n) \in Seq(S)
  BY <1>1
<1>3. IsSeq(SubSeq(s, 1, n))
  BY <1>2, SeqIsSeq
<1> QED BY <1>1, <1>3

LEMMA SeqEmpty == ASSUME NEW s, IsSeq(s) PROVE Len(s) \in Nat /\ (s = << >> <=> Len(s) = 0)
  BY DEF IsSeq

LEMMA SwitchingIs ==
  /\ Switching <=> work # << >> /\ work[Len(work)].cmd = "reset"
  /\ Switching' <=> work' # << >> /\ work'[Len(work')].cmd = "reset"
  BY DEF Switching, Last
-----------------------------------------------------------------------------
(* What is read from the flash. *)

LEMMA PointerIs ==
  /\ PointerBytes = [n \in 1 .. PointerLen |-> flash[n - 1]]
  /\ Pointer = AddressIn([n \in 1 .. PointerLen |-> flash[n - 1]])
<1>1. \A n \in 1 .. PointerLen : 0 + n - 1 = n - 1
  BY DEF PointerLen
<1> QED BY <1>1 DEF PointerBytes, Pointer, QSPI_ReadFlashData, PointerLen

LEMMA PointerKept ==
  ASSUME \A x \in 0 .. PointerLen - 1 : flash'[x] = flash[x]
  PROVE  Pointer' = Pointer
<1>1. \A n \in 1 .. PointerLen : flash'[0 + n - 1] = flash[0 + n - 1]
  BY DEF PointerLen
<1> QED BY <1>1 DEF Pointer, PointerBytes, QSPI_ReadFlashData

LEMMA Body ==
  ASSUME NEW s \in Slots
  PROVE  \A n \in 1 .. ImageLen : s + n - 1 \in Region(s)
<1>1. s \in Nat /\ First(s) \in Nat /\ Beyond(s) \in Nat /\ First(s) <= s
  BY SlotSizes
<1>2. s + ImageLen + (MaxRepeats + 2) * Packets[1] <= Beyond(s)
  BY OtaAssumption
<1>3. ImageLen \in Nat /\ (MaxRepeats + 2) * Packets[1] \in Nat
  BY Sizes
<1> QED BY <1>1, <1>2, <1>3 DEF Region

LEMMA ImageKept ==
  ASSUME NEW s \in Slots, \A x \in Region(s) : flash'[x] = flash[x]
  PROVE  ImageAt(s)' = ImageAt(s)
<1>1. \A n \in 1 .. ImageLen : flash'[s + n - 1] = flash[s + n - 1]
  BY Body
<1> QED BY <1>1 DEF ImageAt, InFlash, QSPI_ReadFlashData

LEMMA ImageFilled ==
  ASSUME NEW s \in Slots, NEW i \in Images, \A x \in Region(s) : flash[x] = Goal(i, s, ImageLen)[x]
  PROVE  ImageAt(s) = i
<1>1. i \in Seq(Byte) /\ Len(i) = ImageLen /\ ImageLen \in Nat /\ s \in Nat
  BY OtaAssumption, Sizes
<1>2. \A n \in 1 .. ImageLen : flash[s + n - 1] = i[n]
  <2> TAKE n \in 1 .. ImageLen
  <2> DEFINE x == s + n - 1
  <2>1. x \in Region(s) /\ x \in Address
    BY Body, Apart
  <2>2. s <= x /\ x < s + ImageLen /\ x - s + 1 = n
    BY <1>1
  <2> HIDE DEF x
  <2>3. Goal(i, s, ImageLen)[x] = i[x - s + 1]
    BY <2>1, <2>2 DEF Goal
  <2>4. flash[x] = i[n]
    BY <2>1, <2>2, <2>3
  <2> QED BY <2>4 DEF x
<1>3. InFlash(s, ImageLen) = i
  <2>1. i = [n \in 1 .. ImageLen |-> i[n]]
    BY <1>1
  <2> QED BY <1>2, <2>1 DEF InFlash, QSPI_ReadFlashData
<1> QED BY <1>3 DEF ImageAt

LEMMA SavedIs ==
  ASSUME flash \in Flashes
  PROVE  /\ Saved = [k \in 1 .. RecordLen |-> flash[RecordBase + k - 1]]
         /\ Saved \in [1 .. RecordLen -> Byte]
<1>1. RecordBase \in Nat /\ RecordLen \in Nat /\ RecordBase + RecordLen <= FlashLen /\ FlashLen \in Nat
  BY RecordSizes, Sizes
<1>2. \A k \in 1 .. RecordLen : RecordBase + k - 1 \in Address
  BY <1>1 DEF Address
<1> QED BY <1>2 DEF Saved, QSPI_ReadFlashData, Flashes

LEMMA SavedKept ==
  ASSUME \A x \in RecordBase .. RecordBase + SectorLen - 1 : flash'[x] = flash[x]
  PROVE  /\ Saved' = Saved
         /\ handed' = handed => \A n : TornAt(n)' <=> TornAt(n)
<1>1. RecordBase \in Nat /\ RecordLen \in Nat /\ RecordLen <= SectorLen /\ SectorLen \in Nat
  BY RecordSizes, Sizes
<1>2. \A k \in 1 .. RecordLen : flash'[RecordBase + k - 1] = flash[RecordBase + k - 1]
  BY <1>1
<1>3. Saved' = Saved
  BY <1>2 DEF Saved, QSPI_ReadFlashData
<1>4. ASSUME handed' = handed, NEW n PROVE TornAt(n)' <=> TornAt(n)
  BY <1>2, <1>4 DEF TornAt
<1> QED BY <1>3, <1>4
-----------------------------------------------------------------------------
(* What the commands still to be given look like. *)

Shape(i, f, h, u) ==
  Settled(i, f, h, u) \/ Wiping(f, h, u) \/ Writing(i, f, h, u) \/ Changing(i, h)

LEMMA SaveLens == DataLen \in Nat \ {0} /\ SaveLen = 2 * DataLen + 6 /\ SaveLen \in Nat /\ RecordLen = DataLen + 2
  BY RecordSizes DEF SaveLen

LEMMA SaveCommands ==
  /\ \A n \in 1 .. DataLen : SaveCommand(n) = Add(n)
  /\ SaveCommand(DataLen + 1) = StoreSum
  /\ SaveCommand(DataLen + 2) = Erase(RecordBase, SectorLen)
  /\ SaveCommand(DataLen + 3) = Erase(RecordBase, PageLen)
  /\ \A n \in DataLen + 4 .. SaveLen - 1 : SaveCommand(n) = Copy(n - DataLen - 3)
  /\ SaveCommand(SaveLen) = Write
<1>1. \A n \in 1 .. DataLen : SaveCommand(n) = Add(n)
  BY SaveLens DEF SaveCommand
<1>2. SaveCommand(DataLen + 1) = StoreSum
  BY SaveLens DEF SaveCommand
<1>3. SaveCommand(DataLen + 2) = Erase(RecordBase, SectorLen)
  BY SaveLens DEF SaveCommand
<1>4. SaveCommand(DataLen + 3) = Erase(RecordBase, PageLen)
  BY SaveLens DEF SaveCommand
<1>5. \A n \in DataLen + 4 .. SaveLen - 1 : SaveCommand(n) = Copy(n - DataLen - 3)
  BY SaveLens DEF SaveCommand
<1>6. SaveCommand(SaveLen) = Write
  BY SaveLens DEF SaveCommand
<1> QED BY <1>1, <1>2, <1>3, <1>4, <1>5, <1>6

LEMMA SaveKinds ==
  \A n \in 1 .. SaveLen : SaveCommand(n).cmd \in {"add", "store", "copy", "write", "erase"}
<1> TAKE n \in 1 .. SaveLen
<1>1. CASE n \in 1 .. DataLen
  <2>1. SaveCommand(n) = Add(n)
    BY <1>1, SaveCommands
  <2> QED BY <2>1 DEF Add
<1>2. CASE n \in {DataLen + 1, DataLen + 2, DataLen + 3, SaveLen}
  <2>1. SaveCommand(n) \in {StoreSum, Erase(RecordBase, SectorLen), Erase(RecordBase, PageLen), Write}
    BY <1>2, SaveCommands
  <2>2. StoreSum.cmd = "store" /\ Write.cmd = "write"
    BY DEF StoreSum, Write
  <2>3. Erase(RecordBase, SectorLen).cmd = "erase" /\ Erase(RecordBase, PageLen).cmd = "erase"
    BY DEF Erase
  <2> QED BY <2>1, <2>2, <2>3
<1>3. CASE n \in DataLen + 4 .. SaveLen - 1
  <2>1. SaveCommand(n) = Copy(n - DataLen - 3)
    BY <1>3, SaveCommands
  <2> QED BY <2>1 DEF Copy
<1>4. n \in 1 .. DataLen \/ n \in {DataLen + 1, DataLen + 2, DataLen + 3, SaveLen}
        \/ n \in DataLen + 4 .. SaveLen - 1
  BY SaveLens
<1> QED BY <1>1, <1>2, <1>3, <1>4

LEMMA SavingEnds ==
  ASSUME Saving
  PROVE  work # << >> /\ work[Len(work)].cmd \in {"write", "program"} /\ work[1].cmd \notin {"answer", "reset"}
<1>1. CASE ProgramsRecord
  BY <1>1 DEF ProgramsRecord, Program
<1>2. ASSUME NEW j \in 0 .. SaveLen - 1, Saves(j)
      PROVE  work # << >> /\ work[Len(work)].cmd \in {"write", "program"} /\ work[1].cmd \notin {"answer", "reset"}
  <2>1. SaveLen \in Nat /\ Len(work) = SaveLen - j /\ SaveLen - j \in 1 .. SaveLen - j /\ 1 \in 1 .. SaveLen - j
        /\ j + 1 \in 1 .. SaveLen /\ j + (SaveLen - j) = SaveLen
    BY <1>2, SaveLens DEF Saves
  <2>2. work[Len(work)] = SaveCommand(SaveLen) /\ work[1] = SaveCommand(j + 1)
    BY <1>2, <2>1 DEF Saves
  <2>3. work[Len(work)].cmd = "write"
    BY <2>2, SaveCommands DEF Write
  <2>4. work[1].cmd \notin {"answer", "reset"}
    BY <2>1, <2>2, SaveKinds
  <2>5. work # << >>
    BY <2>1
  <2> QED BY <2>3, <2>4, <2>5
<1> QED BY <1>1, <1>2 DEF Saving

\* Only Bt_CBChangeCode ends with a reset.
LEMMA Shapes ==
  ASSUME IsSeq(work), NEW i, NEW f, NEW h, NEW u, Shape(i, f, h, u)
  PROVE  /\ Switching => Changing(i, h)
         /\ Changing(i, h) => Switching /\ ~ Saving
         /\ work = << >> => Settled(i, f, h, u)
         /\ Saving => Settled(i, f, h, u)
<1>1. Settled(i, f, h, u) => ~ Switching
  BY SavingEnds, SwitchingIs DEF Settled, AnswersTo
<1>2. Wiping(f, h, u) => ~ Switching /\ work # << >> /\ ~ Saving
  BY SavingEnds, SwitchingIs, SeqEmpty DEF Wiping, Wipes, AnswersTo
<1>3. Writing(i, f, h, u) => ~ Switching /\ work # << >> /\ ~ Saving
  <2> SUFFICES ASSUME Writing(i, f, h, u) PROVE ~ Switching /\ work # << >> /\ ~ Saving
    OBVIOUS
  <2>1. work # << >> /\ work[Len(work)].cmd = "answer"
    <3>1. CASE \E at \in First(addr) .. Beyond(addr) + PageLen : Pages(i, f, h, u, work, at)
      BY <3>1, SeqEmpty DEF Pages, AnswersTo
    <3>2. CASE work # << >> /\ \E at \in First(addr) .. Beyond(addr) + PageLen : Pages(i, f, h, u, Tail(work), at)
      <4>1. Len(Tail(work)) >= 1 /\ Tail(work)[Len(Tail(work))].cmd = "answer"
        BY <3>2 DEF Pages, AnswersTo
      <4>2. Len(Tail(work)) = Len(work) - 1 /\ Len(work) \in Nat
            /\ \A n \in 1 .. Len(work) - 1 : Tail(work)[n] = work[n + 1]
        BY <3>2, SeqTail
      <4>3. Len(work) - 1 \in 1 .. Len(work) - 1 /\ Len(work) - 1 + 1 = Len(work)
        BY <4>1, <4>2
      <4> QED BY <3>2, <4>1, <4>2, <4>3
    <3> QED BY <3>1, <3>2 DEF Writing
  <2> QED BY <2>1, SavingEnds, SwitchingIs
<1>4. Changing(i, h) => Switching /\ work # << >> /\ ~ Saving
  <2> SUFFICES ASSUME Changing(i, h) PROVE Switching /\ work # << >> /\ ~ Saving
    OBVIOUS
  <2>1. PICK j \in 0 .. 4 : Switches(j)
    BY DEF Changing
  <2>2. Len(work) = 5 - j /\ 5 - j \in 1 .. 5 - j /\ j + (5 - j) = 5
    BY <2>1 DEF Switches
  <2>3. work[Len(work)] = SwitchCommand(5)
    BY <2>1, <2>2 DEF Switches
  <2>4. SwitchCommand(5).cmd = "reset"
    BY DEF SwitchCommand
  <2> QED BY <2>2, <2>3, <2>4, SavingEnds, SwitchingIs, SeqEmpty
<1> QED BY <1>1, <1>2, <1>3, <1>4 DEF Shape

LEMMA SavingKept ==
  ASSUME work' = work, handed' = handed
  PROVE  Saving' <=> Saving
  BY DEF Saving, ProgramsRecord, Saves

LEMMA ShapeKept ==
  ASSUME UNCHANGED << flash, work, addr, datalen, handed >>,
         NEW i, NEW f, NEW h, NEW u, Shape(i, f, h, u)
  PROVE  Shape(i, f, h, u)'
<1>1. Settled(i, f, h, u) => Settled(i, f, h, u)'
  BY SavingKept DEF Settled, Filled, AnswersTo
<1>2. Wiping(f, h, u) => Wiping(f, h, u)'
  BY DEF Wiping, Wipes
<1>3. Writing(i, f, h, u) => Writing(i, f, h, u)'
  <2>1. \A c, at : PageAt(c, at)' <=> PageAt(c, at)
    BY DEF PageAt
  <2>2. Filled(i, h)' = Filled(i, h)
    BY DEF Filled
  <2> DEFINE w == work
  <2>3. \A at : Pages(i, f, h, u, work, at)' <=> Pages(i, f, h, u, work, at)
    <3>1. w' = w
      OBVIOUS
    <3> HIDE DEF w
    <3>2. \A at : Pages(i, f, h, u, w, at)' <=> Pages(i, f, h, u, w, at)
      BY <2>1, <2>2, <3>1, SMTT(30) DEF Pages
    <3> QED BY <3>2 DEF w
  <2>4. \A at : Pages(i, f, h, u, Tail(work), at)' <=> Pages(i, f, h, u, Tail(work), at)
    BY <2>1, <2>2 DEF Pages
  <2> QED BY <2>2, <2>3, <2>4 DEF Writing
<1>4. Changing(i, h) => Changing(i, h)'
  BY DEF Changing, Switches, SwitchCommand, Filled, Pointer, PointerBytes, QSPI_ReadFlashData
<1> QED BY <1>1, <1>2, <1>3, <1>4 DEF Shape
-----------------------------------------------------------------------------
(* The phone and its messages. *)

LEMMA SaidIs ==
  ASSUME NEW i, NEW f \in Nat, NEW k \in 0 .. ResetStage
  PROVE  /\ k = 0 <=> Said(i, f, k).evt = "START"
         /\ k \in 1 .. Count <=> Said(i, f, k).evt = "DATA"
         /\ k \in 1 .. Count => Said(i, f, k).id = f + k - 1
                                /\ Said(i, f, k).bytes = SubSeq(i, Sent(k - 1) + 1, Sent(k))
         /\ k = EndStage <=> Said(i, f, k).evt = "END"
         /\ k = EndStage => Said(i, f, k).sum = Total(i) /\ Said(i, f, k).len = ImageLen
         /\ k = ResetStage <=> Said(i, f, k).evt = "RESET"
<1>1. Count \in Nat \ {0} /\ EndStage = Count + 1 /\ ResetStage = Count + 2
  BY Sizes DEF EndStage, ResetStage
<1>2. CASE k = 0
  BY <1>1, <1>2 DEF Said
<1>3. CASE k \in 1 .. Count
  <2>1. Said(i, f, k) = [evt |-> "DATA", id |-> f + k - 1, bytes |-> SubSeq(i, Sent(k - 1) + 1, Sent(k))]
    BY <1>1, <1>3 DEF Said
  <2>2. /\ Said(i, f, k).evt = "DATA" /\ Said(i, f, k).id = f + k - 1
        /\ Said(i, f, k).bytes = SubSeq(i, Sent(k - 1) + 1, Sent(k))
    <3> DEFINE m == Said(i, f, k)
               a == f + k - 1
               b == SubSeq(i, Sent(k - 1) + 1, Sent(k))
    <3>1. m = [evt |-> "DATA", id |-> a, bytes |-> b]
      BY <2>1
    <3> HIDE DEF m, a, b
    <3>2. m.evt = "DATA" /\ m.id = a /\ m.bytes = b
      BY <3>1
    <3> QED BY <3>2 DEF m, a, b
  <2>3. k # 0 /\ k # EndStage /\ k # ResetStage
    BY <1>1, <1>3
  <2> QED BY <1>3, <2>2, <2>3
<1>4. CASE k = EndStage
  BY <1>1, <1>4 DEF Said
<1>5. CASE k = ResetStage
  BY <1>1, <1>5 DEF Said
<1> QED BY <1>1, <1>2, <1>3, <1>4, <1>5

LEMMA PhoneIs ==
  ASSUME NEW i, NEW f, NEW c \in 0 .. EndStage, NEW p \in Phones(i, f, c)
  PROVE  /\ p # Idle /\ p.image = i /\ p.first = f /\ p.next = IF c <= Count THEN c ELSE Count
         /\ p = [stage |-> p.stage, image |-> p.image, first |-> p.first, next |-> p.next]
         /\ c = 0 <=> p.stage = "start"
         /\ c \in 1 .. Count <=> p.stage = "data"
         /\ c = EndStage <=> p.stage \in {"end", "passed", "refused"}
<1>1. Count \in Nat \ {0} /\ EndStage = Count + 1
  BY Sizes DEF EndStage
<1>2. c = 0 \/ c \in 1 .. Count \/ c = EndStage
  BY <1>1
<1>3. p.stage # "idle" => p # Idle
  BY DEF Idle
<1> QED BY <1>1, <1>2, <1>3 DEF Phones

LEMMA PhoneSends ==
  ASSUME NEW i, NEW f, NEW c \in 0 .. EndStage, NEW p \in Phones(i, f, c), Waiting(p)
  PROVE  Message(p) = Said(i, f, c)
<1>1. Count \in Nat \ {0} /\ EndStage = Count + 1
  BY Sizes DEF EndStage
<1>2. p.image = i /\ p.first = f /\ p.next = IF c <= Count THEN c ELSE Count
  BY PhoneIs
<1>3. CASE p.stage = "start"
  <2>1. c = 0
    BY <1>3, PhoneIs
  <2> QED BY <1>3, <2>1 DEF Message, Said
<1>4. CASE p.stage = "data"
  <2>1. c \in 1 .. Count
    BY <1>4, PhoneIs
  <2> QED BY <1>1, <1>2, <1>4, <2>1 DEF Message, Said
<1>5. CASE p.stage = "end"
  <2>1. c = EndStage
    BY <1>5, PhoneIs
  <2> QED BY <1>1, <1>2, <1>5, <2>1 DEF Message, Said
<1> QED BY <1>3, <1>4, <1>5 DEF Waiting

LEMMA PhoneGoesOn ==
  ASSUME NEW i, NEW f, NEW c \in 0 .. Count, NEW p \in Phones(i, f, c)
  PROVE  NextStage(p) \in Phones(i, f, c + 1) /\ Waiting(NextStage(p))
<1>1. Count \in Nat \ {0} /\ EndStage = Count + 1
  BY Sizes DEF EndStage
<1>2. p.image = i /\ p.first = f /\ p.next = c
      /\ p = [stage |-> p.stage, image |-> p.image, first |-> p.first, next |-> p.next]
  BY <1>1, PhoneIs
<1>3. CASE c < Count
  <2>1. NextStage(p) = [stage |-> "data", image |-> i, first |-> f, next |-> c + 1]
    BY <1>1, <1>2, <1>3 DEF NextStage, Count
  <2>2. c + 1 # 0 /\ c + 1 <= Count
    BY <1>1, <1>3
  <2> QED BY <2>1, <2>2 DEF Phones, Waiting
<1>4. CASE c = Count
  <2>1. NextStage(p) = [stage |-> "end", image |-> i, first |-> f, next |-> Count]
    BY <1>1, <1>2, <1>4 DEF NextStage, Count
  <2>2. c + 1 # 0 /\ ~ (c + 1 <= Count)
    BY <1>1, <1>4
  <2> QED BY <2>1, <2>2 DEF Phones, Waiting
<1> QED BY <1>1, <1>3, <1>4

\* The phone goes on only when the headset has handled its message.
LEMMA PhoneHears ==
  ASSUME NEW i, NEW f \in Nat, NEW c \in 0 .. EndStage, NEW h \in Int, NEW p \in Phones(i, f, c),
         NEW a, AnswersTo(f, h, a), Expected(p, a)
  PROVE  c <= h /\ p.stage \in {"start", "data", "end"}
<1>1. Count \in Nat \ {0} /\ EndStage = Count + 1
  BY Sizes DEF EndStage
<1>2. p.first = f /\ p.next = IF c <= Count THEN c ELSE Count
  BY PhoneIs
<1>3. CASE p.stage = "start"
  <2>1. c = 0 /\ a.evt = "START"
    BY <1>3, PhoneIs DEF Expected
  <2> QED BY <1>3, <2>1 DEF AnswersTo
<1>4. CASE p.stage = "data"
  <2>1. c \in 1 .. Count /\ a.evt = "DATA" /\ a.with = f + c - 1
    BY <1>1, <1>2, <1>4, PhoneIs DEF Expected
  <2>2. PICK k \in 1 .. Count : k <= h /\ a.with = f + k - 1
    BY <2>1 DEF AnswersTo
  <2> QED BY <1>1, <1>4, <2>1, <2>2
<1>5. CASE p.stage = "end"
  <2>1. c = EndStage /\ a.evt = "END"
    BY <1>5, PhoneIs DEF Expected
  <2> QED BY <1>5, <2>1 DEF AnswersTo
<1> QED BY <1>3, <1>4, <1>5 DEF Expected

LEMMA StagesAppend ==
  ASSUME IsSeq(received), NEW i, NEW f, NEW h \in -1 .. ResetStage, NEW ks, Stages(i, f, h, ks),
         NEW c \in (0 .. ResetStage) \cap {h, h + 1, ResetStage},
         \A n \in 1 .. Len(received) : ks[n] <= c,
         received' = Append(received, Said(i, f, c))
  PROVE  \E js : Stages(i, f, h, js)' /\ \A n \in 1 .. Len(received') : js[n] <= c
<1> DEFINE l == Len(received)
           K == (0 .. ResetStage) \cap {h, h + 1, ResetStage}
<1>1. l \in Nat /\ Len(received') = l + 1 /\ received'[l + 1] = Said(i, f, c)
      /\ \A n \in 1 .. l : received'[n] = received[n]
  BY SeqAppend
<1>2. ks \in [1 .. l -> K] /\ (\A n \in 1 .. l : received[n] = Said(i, f, ks[n]))
      /\ \A m, n \in 1 .. l : m <= n => ks[m] <= ks[n]
  BY DEF Stages
<1>3. \A n \in 1 .. l + 1 : n \in 1 .. l \/ n = l + 1
  BY <1>1
<1>4. PICK js : js = [n \in 1 .. l + 1 |-> IF n <= l THEN ks[n] ELSE c]
  OBVIOUS
<1>5. (\A n \in 1 .. l : js[n] = ks[n]) /\ js[l + 1] = c
  BY <1>1, <1>4
<1>6. js \in [1 .. l + 1 -> K]
  BY <1>1, <1>2, <1>3, <1>4
<1>7. \A n \in 1 .. l + 1 : received'[n] = Said(i, f, js[n])
  BY <1>1, <1>2, <1>3, <1>5
<1>8. \A n \in 1 .. l + 1 : js[n] <= c
  BY <1>1, <1>3, <1>5 DEF l
<1>9. \A m, n \in 1 .. l + 1 : m <= n => js[m] <= js[n]
  <2> SUFFICES ASSUME NEW m \in 1 .. l + 1, NEW n \in 1 .. l + 1, m <= n PROVE js[m] <= js[n]
    OBVIOUS
  <2>1. CASE n = l + 1
    BY <2>1, <1>5, <1>8
  <2>2. CASE n \in 1 .. l
    BY <2>2, <1>1, <1>2, <1>5
  <2> QED BY <2>1, <2>2, <1>3
<1>10. Stages(i, f, h, js)'
  BY <1>1, <1>6, <1>7, <1>9 DEF Stages
<1> QED BY <1>1, <1>8, <1>10

LEMMA StagesPrefix ==
  ASSUME IsSeq(received), NEW i, NEW f, NEW h, NEW ks, Stages(i, f, h, ks),
         NEW l \in 0 .. Len(received), received' = SubSeq(received, 1, l)
  PROVE  \E js : Stages(i, f, h, js)'
<1> DEFINE js == [n \in 1 .. l |-> ks[n]]
<1>1. Len(received') = l /\ (\A n \in 1 .. l : received'[n] = received[n]) /\ Len(received) \in Nat
  BY SeqPrefix, SeqEmpty
<1>2. \A n \in 1 .. l : n \in 1 .. Len(received)
  BY <1>1
<1>3. Stages(i, f, h, js)'
  BY <1>1, <1>2 DEF Stages
<1> QED BY <1>3

\* The first message is taken: the others are of its stage or the next.
LEMMA StagesTail ==
  ASSUME IsSeq(received), received # << >>, NEW i, NEW f, NEW h \in -1 .. ResetStage, NEW ks,
         Stages(i, f, h, ks), received' = Tail(received)
  PROVE  /\ ks[1] \in (0 .. ResetStage) \cap {h, h + 1, ResetStage}
         /\ received[1] = Said(i, f, ks[1]) /\ 1 \in 1 .. Len(received)
         /\ \E js : /\ Stages(i, f, ks[1], js)'
                    /\ \A c \in Int : (\A n \in 1 .. Len(received) : ks[n] <= c)
                                        => \A n \in 1 .. Len(received') : js[n] <= c
<1> DEFINE l == Len(received) - 1
           K == (0 .. ResetStage) \cap {h, h + 1, ResetStage}
<1>1. Len(received) \in Nat /\ Len(received) >= 1 /\ Len(received') = l
      /\ \A n \in 1 .. l : received'[n] = received[n + 1]
  BY SeqTail
<1>2. 1 \in 1 .. Len(received) /\ \A n \in 1 .. l : n + 1 \in 1 .. Len(received) /\ 1 <= n + 1
  BY <1>1
<1>3. ks \in [1 .. Len(received) -> K]
      /\ (\A n \in 1 .. Len(received) : received[n] = Said(i, f, ks[n]))
      /\ \A m, n \in 1 .. Len(received) : m <= n => ks[m] <= ks[n]
  BY DEF Stages
<1>4. \A n \in 1 .. l : ks[n + 1] \in K /\ ks[1] <= ks[n + 1]
  BY <1>2, <1>3
<1>5. ks[1] \in K
  BY <1>2, <1>3
<1>6. ResetStage \in Nat
  BY Sizes DEF ResetStage
<1>7. PICK js : js = [n \in 1 .. l |-> ks[n + 1]]
  OBVIOUS
<1>8. js \in [1 .. l -> (0 .. ResetStage) \cap {ks[1], ks[1] + 1, ResetStage}]
  <2>1. \A n \in 1 .. l : ks[n + 1] \in (0 .. ResetStage) \cap {ks[1], ks[1] + 1, ResetStage}
    BY <1>4, <1>5, <1>6
  <2> QED BY <2>1, <1>7
<1>9. \A n \in 1 .. l : received'[n] = Said(i, f, js[n])
  BY <1>1, <1>2, <1>3, <1>7
<1>10. \A m, n \in 1 .. l : m <= n => js[m] <= js[n]
  <2> SUFFICES ASSUME NEW m \in 1 .. l, NEW n \in 1 .. l, m <= n PROVE js[m] <= js[n]
    OBVIOUS
  <2>1. m + 1 \in 1 .. Len(received) /\ n + 1 \in 1 .. Len(received) /\ m + 1 <= n + 1
    BY <1>1
  <2>2. ks[m + 1] <= ks[n + 1]
    BY <2>1, <1>3
  <2> QED BY <2>2, <1>7
<1>11. Stages(i, f, ks[1], js)'
  BY <1>1, <1>8, <1>9, <1>10 DEF Stages
<1>12. \A c \in Int : (\A n \in 1 .. Len(received) : ks[n] <= c) => \A n \in 1 .. l : js[n] <= c
  BY <1>2, <1>7
<1>13. received[1] = Said(i, f, ks[1])
  BY <1>2, <1>3
<1> QED BY <1>1, <1>2, <1>5, <1>11, <1>12, <1>13
-----------------------------------------------------------------------------
(* What the phone does. *)

LEMMA Stage == Count \in Nat \ {0} /\ EndStage = Count + 1 /\ ResetStage = Count + 2
  BY Sizes DEF EndStage, ResetStage

LEMMA HeadsetKept ==
  ASSUME UNCHANGED << otaState, armed, up, flash, work >>, NEW f, NEW h, NEW u
  PROVE  /\ Counts(f, h, u)' <=> Counts(f, h, u)
         /\ (up /\ ~ Switching => Pointer \in Slots)' <=> (up /\ ~ Switching => Pointer \in Slots)
<1>1. UNCHANGED << addr, datalen, packetid, armed, up, flash, work >>
  BY DEF otaState
<1>2. Pointer' = Pointer /\ (Switching' <=> Switching)
  BY <1>1 DEF Pointer, PointerBytes, QSPI_ReadFlashData, Switching
<1> QED BY <1>1, <1>2 DEF Counts

LEMMA TakeAnswerKeeps ==
  ASSUME Types, NEW i \in Images, NEW f \in Nat, NEW h \in -1 .. ResetStage, NEW u \in Nat,
         Update(i, f, h, u), TakeAnswer, handed' = handed
  PROVE  Update(i, f, h, u)'
<1> DEFINE a == Head(answers)
<1>1. PICK ks : Stages(i, f, h, ks) /\ Talks(i, f, h, u, ks)
  BY DEF Update, Protocol
<1>2. /\ answers # << >> /\ answers' = Tail(answers)
      /\ UNCHANGED << repeats, otaState, armed, up, flash, work >>
  BY DEF TakeAnswer
<1>3. UNCHANGED << addr, datalen, flash, work, up, repeats >>
  BY <1>2 DEF otaState
<1>4. IsSeq(answers) /\ IsSeq(received) /\ \A n \in 1 .. Len(answers) : AnswersTo(f, h, answers[n])
  BY DEF Update, Protocol
<1>5. /\ IsSeq(answers') /\ (\A n \in 1 .. Len(answers') : AnswersTo(f, h, answers'[n]))
      /\ AnswersTo(f, h, a)
  <2>1. Len(answers) \in Nat /\ Len(answers) >= 1 /\ a = answers[1] /\ Len(answers') = Len(answers) - 1
        /\ IsSeq(answers') /\ \A n \in 1 .. Len(answers) - 1 : answers'[n] = answers[n + 1]
    BY <1>2, <1>4, SeqTail
  <2>2. 1 \in 1 .. Len(answers) /\ \A n \in 1 .. Len(answers) - 1 : n + 1 \in 1 .. Len(answers)
    BY <2>1
  <2> QED BY <1>4, <2>1, <2>2
<1>6. PICK c \in {h, h + 1} \cap 0 .. EndStage :
        /\ phone \in Phones(i, f, c) /\ (phone.stage \in {"passed", "refused"} => c = h)
        /\ \A n \in 1 .. Len(received) : ks[n] <= c
        /\ u + Len(received) <= repeats + c - h
  BY <1>1, <1>2 DEF Talks
<1>7. phone # Idle /\ up
  <2>1. phone # Idle
    BY <1>6, PhoneIs
  <2> QED BY <2>1 DEF Update, Protocol
<1>8. \E js : Stages(i, f, h, js)' /\ Talks(i, f, h, u, js)' /\ IsSeq(received')
  <2>1. CASE ~ Expected(phone, a)
    <3>1. UNCHANGED << phone, received >>
      BY <2>1 DEF TakeAnswer
    <3>2. Stages(i, f, h, ks)'
      BY <1>1, <3>1 DEF Stages
    <3>3. Talks(i, f, h, u, ks)'
      BY <1>3, <1>6, <3>1 DEF Talks
    <3> QED BY <3>1, <3>2, <3>3, <1>4
  <2>2. CASE Expected(phone, a)
    <3>1. c = h /\ phone.stage \in {"start", "data", "end"}
      BY <1>5, <1>6, <2>2, PhoneHears
    <3>2. CASE phone.stage = "end"
      <4>1. c = EndStage
        BY <1>6, <3>2, PhoneIs
      <4>2. received' = received /\ phone' = [phone EXCEPT !.stage = IF a.with THEN "passed" ELSE "refused"]
        BY <2>2, <3>2 DEF TakeAnswer
      <4>3. phone' \in Phones(i, f, c)
        <5>1. ~ (c <= Count) /\ c # 0
          BY <4>1, Stage
        <5>2. PICK s \in {"passed", "refused"} : phone' = [phone EXCEPT !.stage = s]
          BY <4>2
        <5>3. phone = [stage |-> phone.stage, image |-> i, first |-> f, next |-> Count]
          BY <1>6, <5>1, PhoneIs
        <5>4. phone' = [stage |-> s, image |-> i, first |-> f, next |-> Count]
          BY <5>2, <5>3
        <5> QED BY <5>1, <5>4 DEF Phones
      <4>4. Stages(i, f, h, ks)'
        BY <1>1, <4>2 DEF Stages
      <4>5. Talks(i, f, h, u, ks)'
        BY <1>3, <1>6, <3>1, <4>2, <4>3 DEF Talks
      <4> QED BY <4>2, <4>4, <4>5, <1>4
    <3>3. CASE phone.stage \in {"start", "data"}
      <4>1. c \in 0 .. Count
        BY <1>6, <3>3, PhoneIs, Stage
      <4>2. phone' = NextStage(phone) /\ received' = Append(received, Message(NextStage(phone)))
        BY <2>2, <3>3 DEF TakeAnswer, Says
      <4>3. phone' \in Phones(i, f, c + 1) /\ Waiting(phone')
        BY <1>6, <4>1, <4>2, PhoneGoesOn
      <4>4. c + 1 \in 0 .. EndStage /\ c + 1 \in (0 .. ResetStage) \cap {h, h + 1, ResetStage}
            /\ c + 1 \in {h, h + 1}
        BY <3>1, <4>1, Stage
      <4>5. received' = Append(received, Said(i, f, c + 1))
        BY <4>2, <4>3, <4>4, PhoneSends
      <4>6. \A n \in 1 .. Len(received) : ks[n] <= c + 1
        <5> TAKE n \in 1 .. Len(received)
        <5>1. ks[n] \in 0 .. ResetStage /\ ks[n] <= c
          BY <1>1, <1>6 DEF Stages
        <5> QED BY <5>1, Stage
      <4>7. PICK js : Stages(i, f, h, js)' /\ \A n \in 1 .. Len(received') : js[n] <= c + 1
        BY <1>1, <1>4, <4>4, <4>5, <4>6, StagesAppend
      <4>8. IsSeq(received') /\ Len(received') = Len(received) + 1 /\ Len(received) \in Nat
        BY <1>4, <4>5, SeqAppend
      <4>9. u + Len(received') <= repeats' + (c + 1) - h
        BY <1>3, <1>6, <4>8 DEF Types
      <4>10. phone'.stage \notin {"passed", "refused"}
        BY <4>3 DEF Waiting
      <4>11. Talks(i, f, h, u, js)'
        BY <4>3, <4>4, <4>7, <4>9, <4>10 DEF Talks
      <4> QED BY <4>7, <4>8, <4>11
    <3> QED BY <3>1, <3>2, <3>3
  <2> QED BY <2>1, <2>2
<1>9. Counts(f, h, u)' /\ (up /\ ~ Switching => Pointer \in Slots)'
  BY <1>2, HeadsetKept DEF Update, Protocol
<1>10. Shape(i, f, h, u)'
  BY <1>3, ShapeKept DEF Update, Shape
<1> QED BY <1>3, <1>5, <1>7, <1>8, <1>9, <1>10 DEF Update, Protocol, Shape

LEMMA RepeatKeeps ==
  ASSUME Types, NEW i \in Images, NEW f \in Nat, NEW h \in -1 .. ResetStage, NEW u \in Nat,
         Update(i, f, h, u), Repeat, handed' = handed
  PROVE  Update(i, f, h, u)' /\ repeats' \in 0 .. MaxRepeats
<1>1. PICK ks : Stages(i, f, h, ks) /\ Talks(i, f, h, u, ks)
  BY DEF Update, Protocol
<1>2. /\ up /\ Waiting(phone) /\ repeats < MaxRepeats /\ repeats' = repeats + 1
      /\ received' = Append(received, Message(phone))
      /\ UNCHANGED << answers, phone, otaState, armed, up, flash, work >>
  BY DEF Repeat
<1>3. UNCHANGED << addr, datalen, flash, work, up, answers, phone >>
  BY <1>2 DEF otaState
<1>4. IsSeq(answers) /\ IsSeq(received) /\ \A n \in 1 .. Len(answers) : AnswersTo(f, h, answers[n])
  BY DEF Update, Protocol
<1>5. PICK c \in {h, h + 1} \cap 0 .. EndStage :
        /\ phone \in Phones(i, f, c) /\ (phone.stage \in {"passed", "refused"} => c = h)
        /\ \A n \in 1 .. Len(received) : ks[n] <= c
        /\ u + Len(received) <= repeats + c - h
  BY <1>1, <1>2 DEF Talks, Waiting, Idle
<1>6. received' = Append(received, Said(i, f, c))
  BY <1>2, <1>5, PhoneSends
<1>7. c \in (0 .. ResetStage) \cap {h, h + 1, ResetStage}
  BY <1>5, Stage
<1>8. PICK js : Stages(i, f, h, js)' /\ \A n \in 1 .. Len(received') : js[n] <= c
  BY <1>1, <1>4, <1>5, <1>6, <1>7, StagesAppend
<1>9. IsSeq(received') /\ Len(received') = Len(received) + 1 /\ Len(received) \in Nat
  BY <1>4, <1>6, SeqAppend
<1>10. repeats' \in 0 .. MaxRepeats /\ u + Len(received') <= repeats' + c - h
  <2>1. repeats \in 0 .. MaxRepeats /\ MaxRepeats \in Nat
    BY Sizes DEF Types
  <2> QED BY <1>2, <1>5, <1>9, <2>1
<1>11. Talks(i, f, h, u, js)'
  BY <1>3, <1>5, <1>8, <1>10 DEF Talks
<1>12. Counts(f, h, u)' /\ (up /\ ~ Switching => Pointer \in Slots)'
  BY <1>2, HeadsetKept DEF Update, Protocol
<1>13. Shape(i, f, h, u)'
  BY <1>3, ShapeKept DEF Update, Shape
<1> QED BY <1>2, <1>3, <1>4, <1>8, <1>9, <1>10, <1>11, <1>12, <1>13 DEF Update, Protocol, Shape

LEMMA CancelUpdateKeeps ==
  ASSUME Types, NEW i \in Images, NEW f \in Nat, NEW h \in -1 .. ResetStage, NEW u \in Nat,
         Update(i, f, h, u), CancelUpdate, handed' = handed
  PROVE  Update(i, f, h, u)'
<1>1. PICK ks : Stages(i, f, h, ks) /\ Talks(i, f, h, u, ks)
  BY DEF Update, Protocol
<1>2. /\ up /\ (Waiting(phone) \/ phone.stage = "refused")
      /\ phone' = Idle /\ answers' = << >>
      /\ received' = Append(received, [evt |-> "RESET"])
      /\ UNCHANGED << repeats, otaState, armed, up, flash, work >>
  BY DEF CancelUpdate
<1>3. UNCHANGED << addr, datalen, flash, work, up, repeats >>
  BY <1>2 DEF otaState
<1>4. IsSeq(received)
  BY DEF Update, Protocol
<1>5. PICK c \in {h, h + 1} \cap 0 .. EndStage : u + Len(received) <= repeats + c - h
  BY <1>1, <1>2 DEF Talks, Waiting, Idle
<1>6. received' = Append(received, Said(i, f, ResetStage))
  BY <1>2, Stage DEF Said
<1>7. ResetStage \in (0 .. ResetStage) \cap {h, h + 1, ResetStage}
  BY Stage
<1>8. \A n \in 1 .. Len(received) : ks[n] <= ResetStage
  BY <1>1, Stage DEF Stages
<1>9. PICK js : Stages(i, f, h, js)'
  BY <1>1, <1>4, <1>6, <1>7, <1>8, StagesAppend
<1>10. IsSeq(received') /\ Len(received') = Len(received) + 1 /\ Len(received) \in Nat
  BY <1>4, <1>6, SeqAppend
<1>11. u + Len(received') <= repeats' + 2
  <2>1. repeats \in Nat /\ repeats' = repeats
    BY <1>3 DEF Types
  <2>2. c \in Int /\ c <= h + 1
    BY <1>5
  <2> QED BY <1>5, <1>10, <2>1, <2>2
<1>12. Talks(i, f, h, u, js)'
  BY <1>2, <1>11 DEF Talks
<1>13. Counts(f, h, u)' /\ (up /\ ~ Switching => Pointer \in Slots)'
  BY <1>2, HeadsetKept DEF Update, Protocol
<1>14. Shape(i, f, h, u)'
  BY <1>3, ShapeKept DEF Update, Shape
<1>15. IsSeq(answers') /\ \A n \in 1 .. Len(answers') : AnswersTo(f, h, answers'[n])
  BY <1>2, SeqNone
<1> QED BY <1>2, <1>3, <1>9, <1>10, <1>12, <1>13, <1>14, <1>15 DEF Update, Protocol, Shape

LEMMA LinkLossKeeps ==
  ASSUME Types, NEW i \in Images, NEW f \in Nat, NEW h \in -1 .. ResetStage, NEW u \in Nat,
         Update(i, f, h, u), LinkLoss, handed' = handed
  PROVE  Update(i, f, h, u)'
<1>1. PICK ks : Stages(i, f, h, ks) /\ Talks(i, f, h, u, ks)
  BY DEF Update, Protocol
<1>2. PICK n \in 0 .. Len(received) : received' = SubSeq(received, 1, n)
  BY DEF LinkLoss
<1>3. /\ phone # Idle /\ phone' = Idle /\ answers' = << >>
      /\ UNCHANGED << repeats, otaState, armed, up, flash, work >>
  BY DEF LinkLoss
<1>4. UNCHANGED << addr, datalen, flash, work, up, repeats >>
  BY <1>3 DEF otaState
<1>5. IsSeq(received)
  BY DEF Update, Protocol
<1>6. PICK c \in {h, h + 1} \cap 0 .. EndStage : u + Len(received) <= repeats + c - h
  BY <1>1, <1>3 DEF Talks
<1>7. PICK js : Stages(i, f, h, js)'
  BY <1>1, <1>2, <1>5, StagesPrefix
<1>8. IsSeq(received') /\ Len(received') = n /\ Len(received) \in Nat
  BY <1>2, <1>5, SeqPrefix, SeqEmpty
<1>9. u + Len(received') <= repeats' + 2
  BY <1>4, <1>6, <1>8, Stage DEF Types
<1>10. Talks(i, f, h, u, js)'
  BY <1>3, <1>9 DEF Talks
<1>11. Counts(f, h, u)' /\ (up /\ ~ Switching => Pointer \in Slots)'
  BY <1>3, HeadsetKept DEF Update, Protocol
<1>12. Shape(i, f, h, u)'
  BY <1>4, ShapeKept DEF Update, Shape
<1>13. IsSeq(answers') /\ \A m \in 1 .. Len(answers') : AnswersTo(f, h, answers'[m])
  BY <1>3, SeqNone
<1>14. up
  BY <1>3 DEF Update, Protocol
<1> QED BY <1>4, <1>7, <1>8, <1>10, <1>11, <1>12, <1>13, <1>14 DEF Update, Protocol, Shape

\* A new update begins when nothing of the one before is on its way.
LEMMA StartUpdateKeeps ==
  ASSUME Types, NEW i \in Images, NEW f \in Nat, NEW h \in -1 .. ResetStage, NEW u \in Nat,
         Update(i, f, h, u), StartUpdate, handed' = handed
  PROVE  /\ \E j \in Images, g \in Nat : Update(j, g, -1, 0)'
         /\ repeats' \in 0 .. MaxRepeats
<1>1. PICK j \in Images, g \in FirstIds : Says([stage |-> "start", image |-> j, first |-> g, next |-> 0])
  BY DEF StartUpdate
<1>2. /\ up /\ phone = Idle /\ ~ armed /\ received = << >> /\ work = << >> /\ repeats' = 0
      /\ UNCHANGED << answers, otaState, armed, up, flash, work >>
  BY DEF StartUpdate
<1>3. UNCHANGED << answers, addr, datalen, flash, work, up, armed >>
  BY <1>2 DEF otaState
<1>4. g \in Nat
  BY OtaAssumption
<1>5. received' = << Said(j, g, 0) >> /\ phone' \in Phones(j, g, 0)
  <2> DEFINE p == [stage |-> "start", image |-> j, first |-> g, next |-> 0]
  <2>1. phone' = p /\ received' = Append(received, Message(p))
    BY <1>1 DEF Says
  <2>2. p \in Phones(j, g, 0) /\ Waiting(p)
    BY Stage DEF Phones, Waiting
  <2>3. Message(p) = Said(j, g, 0)
    BY <2>2, PhoneSends, Stage
  <2> HIDE DEF p
  <2>4. received' = << Said(j, g, 0) >>
    BY <1>2, <2>1, <2>3
  <2> QED BY <2>1, <2>2, <2>4
<1>6. Len(received') = 1 /\ received'[1] = Said(j, g, 0) /\ IsSeq(received')
  <2>1. received' \in Seq({Said(j, g, 0)})
    BY <1>5
  <2> QED BY <1>5, <2>1, SeqIsSeq
<1>7. PICK js : js = [n \in 1 .. 1 |-> 0]
  OBVIOUS
<1>8. Stages(j, g, -1, js)'
  BY <1>6, <1>7, Stage DEF Stages
<1>9. answers = << >>
  <2>1. PICK ks : Talks(i, f, h, u, ks)
    BY DEF Update, Protocol
  <2>2. \A c \in 0 .. EndStage : phone \notin Phones(i, f, c)
    BY <1>2, PhoneIs
  <2> QED BY <2>1, <2>2 DEF Talks
<1>10. Talks(j, g, -1, 0, js)'
  <2>1. 0 \in {-1, -1 + 1} \cap 0 .. EndStage
    BY Stage
  <2>2. phone'.stage \notin {"passed", "refused"}
    BY <1>5, Stage DEF Phones
  <2>3. \A n \in 1 .. Len(received') : js[n] <= 0
    BY <1>6, <1>7
  <2>4. 0 + Len(received') <= repeats' + 0 - (-1)
    BY <1>2, <1>6
  <2> QED BY <1>5, <2>1, <2>2, <2>3, <2>4 DEF Talks
<1>11. ~ Switching /\ ~ Switching'
  BY <1>2, SwitchingIs
<1>12. Counts(g, -1, 0)'
  BY <1>2, <1>3, <1>11, Stage DEF Counts
<1>13. (up /\ ~ Switching => Pointer \in Slots)'
  BY <1>2, HeadsetKept DEF Update, Protocol
<1>14. IsSeq(answers') /\ \A m \in 1 .. Len(answers') : AnswersTo(g, -1, answers'[m])
  BY <1>3, <1>9, SeqNone
<1>15. Settled(j, g, -1, 0)'
  BY <1>2 DEF Settled
<1>16. Protocol(j, g, -1, 0)'
  BY <1>2, <1>3, <1>6, <1>8, <1>10, <1>12, <1>13, <1>14 DEF Protocol
<1> QED BY <1>2, <1>4, <1>15, <1>16, Sizes DEF Update
-----------------------------------------------------------------------------
(* What the headset does: its answers, and the switch to the new image. *)

LEMMA FilledIs ==
  ASSUME addr \in Nat, NEW i \in Images, NEW h \in 0 .. EndStage
  PROVE  LET n == IF h <= Count THEN Sent(h) ELSE ImageLen
         IN /\ n \in Nat /\ n <= ImageLen
            /\ \A x \in Address : x < addr \/ x >= addr + n => Filled(i, h)[x] = Blank
            /\ \A x \in Address : addr <= x /\ x < addr + n => Filled(i, h)[x] = i[x - addr + 1]
<1> DEFINE n == IF h <= Count THEN Sent(h) ELSE ImageLen
<1>1. n \in Nat /\ n <= ImageLen
  BY SentSteps, Stage, Sizes
<1>2. Filled(i, h) = Goal(i, addr, n)
  BY DEF Filled
<1> HIDE DEF n
<1>3. \A x \in Address : x \in Int
  BY DEF Address
<1> QED BY <1>1, <1>2, <1>3 DEF Goal, n

LEMMA SendAnswerKeeps ==
  ASSUME Types, NEW i \in Images, NEW f \in Nat, NEW h \in -1 .. ResetStage, NEW u \in Nat,
         Update(i, f, h, u), SendAnswer, handed' = handed
  PROVE  Update(i, f, h, u)' /\ work' = << >> /\ ~ Switching
<1>1. /\ work # << >> /\ Head(work).cmd = "answer" /\ work' = Tail(work)
      /\ answers' = IF phone = Idle THEN answers ELSE Append(answers, Head(work))
      /\ UNCHANGED << received, phone, repeats, otaState, armed, up, flash >>
  BY DEF SendAnswer
<1>2. UNCHANGED << addr, datalen, packetid, flash, up, armed, received, phone, repeats >>
  BY <1>1 DEF otaState
<1>3. /\ IsSeq(work) /\ Len(work) \in Nat /\ Len(work) >= 1 /\ Head(work) = work[1]
      /\ IsSeq(work') /\ Len(work') = Len(work) - 1 /\ addr \in Nat /\ datalen \in Nat
  BY <1>1, SeqTail DEF Types
<1>4. work[1].cmd = "answer"
  BY <1>1, <1>3
<1> DEFINE Complete == h >= 0 /\ addr \in Slots /\ u = 0 => \A x \in Region(addr) : flash[x] = Filled(i, h)[x]
<1>5. Len(work) = 1 /\ AnswersTo(f, h, work[1]) /\ Complete
  <2>1. CASE Settled(i, f, h, u)
    BY <1>1, <1>4, <2>1, SavingEnds DEF Settled
  <2>2. CASE Wiping(f, h, u)
    <3>1. PICK at \in First(addr) .. Beyond(addr) : Wipes(f, h, at)
      BY <2>2 DEF Wiping
    <3>2. Len(work) = 1
      <4> SUFFICES ASSUME Len(work) > 1 PROVE FALSE
        BY <1>3
      <4>1. 1 \in 1 .. Len(work) - 1
        BY <1>3
      <4>2. work[1] = Erase(at + (1 - 1) * SectorLen, SectorLen)
        BY <3>1, <4>1 DEF Wipes
      <4>3. work[1].cmd = "erase"
        BY <4>2 DEF Erase
      <4> QED BY <1>4, <4>3
    <3>3. at = Beyond(addr) /\ AnswersTo(f, h, work[1])
      BY <3>1, <3>2, Sizes DEF Wipes
    <3>4. h = 0 /\ addr \in Slots
      BY <2>2 DEF Wiping
    <3>5. \A x \in Region(addr) : flash[x] = Blank
      BY <3>1, <3>3, <3>4, SlotSizes DEF Wipes, Region
    <3>6. \A x \in Region(addr) : Filled(i, h)[x] = Blank
      <4>1. Sent(h) = 0 /\ h <= Count /\ 0 \in 0 .. EndStage
        BY <3>4, SentSteps, Stage
      <4>2. \A x \in Address : x \in Int /\ (x < addr \/ x >= addr + 0)
        BY <1>3 DEF Address
      <4>3. \A x \in Address : Filled(i, h)[x] = Blank
        BY <1>3, <3>4, <4>1, <4>2, FilledIs
      <4> QED BY <3>4, <4>3, Apart
    <3> QED BY <3>2, <3>3, <3>5, <3>6
  <2>3. CASE Writing(i, f, h, u)
    <3>1. PICK at \in First(addr) .. Beyond(addr) + PageLen :
            \/ /\ Pages(i, f, h, u, work, at)
               /\ u = 0 => \A x \in Region(addr) : flash[x] = IF x < at THEN Filled(i, h)[x] ELSE Blank
            \/ work[1] = Erase(at, PageLen)
      BY <2>3 DEF Writing
    <3>2. /\ Pages(i, f, h, u, work, at)
          /\ u = 0 => \A x \in Region(addr) : flash[x] = IF x < at THEN Filled(i, h)[x] ELSE Blank
      BY <1>4, <3>1 DEF Erase
    <3>3. Len(work) = 1
      <4> SUFFICES ASSUME Len(work) > 1 PROVE FALSE
        BY <1>3
      <4>1. 1 \in 1 .. Len(work) - 1
        BY <1>3
      <4>2. work[1].cmd = "program"
        BY <3>2, <4>1 DEF Pages, PageAt
      <4> QED BY <1>4, <4>2
    <3>4. addr + datalen <= at /\ AnswersTo(f, h, work[1])
      <4>1. addr + datalen <= at + (Len(work) - 1) * PageLen /\ AnswersTo(f, h, work[Len(work)])
        BY <3>2 DEF Pages
      <4>2. (Len(work) - 1) * PageLen = 0
        BY <3>3, Sizes
      <4>3. at \in Int
        OBVIOUS
      <4> QED BY <1>3, <3>3, <4>1, <4>2, <4>3
    <3>5. h \in 1 .. Count /\ addr \in Slots
      BY <2>3 DEF Writing
    <3>6. ASSUME u = 0 PROVE \A x \in Region(addr) : flash[x] = Filled(i, h)[x]
      <4>1. datalen = Sent(h)
        <5>1. datalen = Sent(h) + u * Packets[1]
          BY <3>5, Stage DEF Update, Protocol, Counts
        <5>2. Sent(h) \in Nat
          BY <3>5, SentSteps, Stage
        <5> QED BY <3>6, <5>1, <5>2, Sizes
      <4>2. \A x \in Address : x >= addr + Sent(h) => Filled(i, h)[x] = Blank
        BY <1>3, <3>5, FilledIs, Stage
      <4> TAKE x \in Region(addr)
      <4>3. x \in Address /\ x \in Int
        BY <3>5, Apart DEF Address
      <4> QED BY <3>2, <3>4, <3>6, <1>3, <4>1, <4>2, <4>3
    <3> QED BY <3>3, <3>4, <3>6
  <2>4. CASE Changing(i, h)
    <3>1. PICK j \in 0 .. 4 : Switches(j)
      BY <2>4 DEF Changing
    <3>2. 1 \in 1 .. 5 - j /\ j + 1 \in 1 .. 5
      OBVIOUS
    <3>3. work[1] = SwitchCommand(j + 1)
      BY <3>1, <3>2 DEF Switches
    <3>4. \A n \in 1 .. 5 : SwitchCommand(n).cmd # "answer"
      BY DEF SwitchCommand, Erase, Program
    <3> QED BY <1>4, <3>2, <3>3, <3>4
  <2> QED BY <2>1, <2>2, <2>3, <2>4 DEF Update
<1>6. work' = << >>
  BY <1>3, <1>5, SeqEmpty
<1>7. Settled(i, f, h, u)'
  <2>1. Filled(i, h)' = Filled(i, h)
    BY <1>2 DEF Filled
  <2> QED BY <1>2, <1>5, <1>6, <2>1 DEF Settled
<1>8. ~ Switching /\ ~ Switching' /\ Pointer' = Pointer
  BY <1>2, <1>4, <1>5, <1>6, SwitchingIs, PointerKept
<1>9. IsSeq(answers') /\ \A n \in 1 .. Len(answers') : AnswersTo(f, h, answers'[n])
  <2>1. IsSeq(answers) /\ \A n \in 1 .. Len(answers) : AnswersTo(f, h, answers[n])
    BY DEF Update, Protocol
  <2>2. CASE answers' = Append(answers, work[1])
    <3>1. IsSeq(answers') /\ Len(answers') = Len(answers) + 1 /\ Len(answers) \in Nat
          /\ (\A n \in 1 .. Len(answers) : answers'[n] = answers[n])
          /\ answers'[Len(answers) + 1] = work[1]
      BY <2>1, <2>2, SeqAppend
    <3>2. \A n \in 1 .. Len(answers') : n \in 1 .. Len(answers) \/ n = Len(answers) + 1
      BY <3>1
    <3> QED BY <1>5, <2>1, <3>1, <3>2
  <2> QED BY <1>1, <1>3, <2>1, <2>2
<1>10. PICK ks : Stages(i, f, h, ks) /\ Talks(i, f, h, u, ks)
  BY DEF Update, Protocol
<1>11. Stages(i, f, h, ks)' /\ Talks(i, f, h, u, ks)'
  BY <1>1, <1>2, <1>10 DEF Stages, Talks
<1>12. Counts(f, h, u)' /\ (up /\ ~ Switching => Pointer \in Slots)'
  BY <1>2, <1>8 DEF Update, Protocol, Counts
<1>13. up /\ IsSeq(received)
  BY <1>1 DEF Update, Protocol
<1>14. Protocol(i, f, h, u)'
  BY <1>2, <1>9, <1>11, <1>12, <1>13 DEF Protocol
<1> QED BY <1>6, <1>7, <1>8, <1>14 DEF Update

LEMMA BootKeeps ==
  ASSUME Types, NEW i \in Images, NEW f \in Nat, NEW h \in -1 .. ResetStage, NEW u \in Nat,
         Update(i, f, h, u), Boot, handed' = handed
  PROVE  Update(i, f, h, u)'
<1>1. /\ ~ up /\ Pointer \in Slots /\ up' = TRUE
      /\ UNCHANGED << otaState, armed, received, answers, phone, repeats, flash, work >>
  BY DEF Boot
<1>2. UNCHANGED << addr, datalen, packetid, armed, received, answers, phone, repeats, flash, work >>
  BY <1>1 DEF otaState
<1>3. Pointer' = Pointer /\ (Switching' <=> Switching)
  BY <1>2 DEF Pointer, PointerBytes, QSPI_ReadFlashData, Switching
<1>4. PICK ks : Stages(i, f, h, ks) /\ Talks(i, f, h, u, ks)
  BY DEF Update, Protocol
<1>5. Stages(i, f, h, ks)' /\ Talks(i, f, h, u, ks)'
  BY <1>2, <1>4 DEF Stages, Talks
<1>6. Counts(f, h, u)'
  BY <1>1, <1>2, <1>3 DEF Update, Protocol, Counts
<1>7. Shape(i, f, h, u)'
  BY <1>2, ShapeKept DEF Update, Shape
<1>8. Protocol(i, f, h, u)'
  BY <1>1, <1>2, <1>3, <1>5, <1>6 DEF Update, Protocol
<1> QED BY <1>7, <1>8 DEF Update, Shape

\* What is left after a power failure or a reset.
LEMMA DownKeeps ==
  ASSUME Types, NEW i \in Images, NEW f \in Nat, Down
  PROVE  Update(i, f, ResetStage, 0)' /\ (flash' \in Flashes => Types')
<1>1. /\ up' = FALSE /\ armed' = FALSE /\ work' = << >>
      /\ addr' = 0 /\ datalen' = 0 /\ datasum' = 0 /\ packetid' = 0
      /\ received' = << >> /\ answers' = << >> /\ phone' = Idle /\ repeats' = 0
  BY DEF Down, OTA_Init, Begin
<1>2. 0 \notin Slots
  BY SlotSizes
<1>3. ~ Switching'
  BY <1>1, SwitchingIs
<1>4. PICK ks : ks = [n \in 1 .. 0 |-> 0]
  OBVIOUS
<1>5. Stages(i, f, ResetStage, ks)'
  BY <1>1, <1>4, SeqNone DEF Stages
<1>6. Talks(i, f, ResetStage, 0, ks)'
  BY <1>1, SeqNone DEF Talks
<1>7. Counts(f, ResetStage, 0)'
  BY <1>1, <1>2, <1>3, Stage DEF Counts
<1>8. Protocol(i, f, ResetStage, 0)'
  BY <1>1, <1>3, <1>5, <1>6, <1>7, SeqNone DEF Protocol
<1>9. Settled(i, f, ResetStage, 0)'
  BY <1>1, <1>2 DEF Settled
<1>10. IsSeq(work') /\ repeats' \in 0 .. MaxRepeats
  BY <1>1, SeqNone, Sizes
<1>11. flash' \in Flashes => Types'
  BY <1>1, <1>10 DEF Types, Flashes
<1>12. Update(i, f, ResetStage, 0)'
  BY <1>8, <1>9 DEF Update
<1> QED BY <1>10, <1>11, <1>12
-----------------------------------------------------------------------------
(* A write of bytes as the commands it gives. *)

LEMMA SubSeqIs ==
  ASSUME NEW S, NEW s \in Seq(S), NEW x \in Nat, NEW y \in Nat, x <= y, y <= Len(s)
  PROVE  /\ SubSeq(s, x + 1, y) \in Seq(S) /\ Len(SubSeq(s, x + 1, y)) = y - x
         /\ \A k \in 1 .. y - x : SubSeq(s, x + 1, y)[k] = s[x + k]
OBVIOUS

LEMMA ConcatIs ==
  ASSUME NEW S, NEW s \in Seq(S), NEW t \in Seq(S)
  PROVE  /\ s \o t \in Seq(S) /\ Len(s \o t) = Len(s) + Len(t)
         /\ \A n \in 1 .. Len(s) : (s \o t)[n] = s[n]
         /\ \A n \in 1 .. Len(t) : (s \o t)[Len(s) + n] = t[n]
<1>1. s \o t \in Seq(S) /\ Len(s \o t) = Len(s) + Len(t)
  OBVIOUS
<1>2. \A n \in 1 .. Len(s) : (s \o t)[n] = s[n]
  OBVIOUS
<1>3. ASSUME NEW n \in 1 .. Len(t) PROVE (s \o t)[Len(s) + n] = t[n]
  <2>1. Len(s) + n \in 1 .. Len(s) + Len(t) /\ Len(s) + n > Len(s) /\ Len(s) + n - Len(s) = n
    OBVIOUS
  <2> QED BY <2>1
<1> QED BY <1>1, <1>2, <1>3

LEMMA Ceiling ==
  ASSUME NEW l \in Nat \ {0}, NEW m \in Nat \ {0}
  PROVE  LET k == (l + m - 1) \div m
         IN k \in Nat \ {0} /\ l <= k * m /\ (k - 1) * m < l
<1> DEFINE a == l + m - 1
           k == a \div m
           r == a % m
<1>1. a \in Nat /\ k \in Nat /\ r \in 0 .. m - 1 /\ a = m * k + r
  <2>1. a \in Nat
    OBVIOUS
  <2> HIDE DEF a
  <2> QED BY <2>1, Division
<1> HIDE DEF k, r
<1>2. m * k = l + m - 1 - r
  BY <1>1
<1>3. l <= k * m /\ (k - 1) * m < l
  BY <1>1, <1>2
<1>4. k # 0
  BY <1>1, <1>2
<1> QED BY <1>1, <1>3, <1>4 DEF k

\* The bytes that are programmed: those of the page before the address, then the new ones.
Written(a, bytes, x) == IF x < a THEN flash[x] ELSE bytes[x - a + 1]

LEMMA WriteIs ==
  ASSUME flash \in Flashes, NEW a \in Nat, NEW b \in Seq(Byte), Len(b) # 0, a + Len(b) <= FlashLen
  PROVE  LET w == QSPI_WriteFlashData(a, b)
             at == a - (a % PageLen)
         IN /\ at \in Nat /\ at <= a /\ a < at + PageLen
            /\ IsSeq(w) /\ Len(w) \in Nat /\ Len(w) >= 2 /\ w[1] = Erase(at, PageLen)
            /\ a + Len(b) <= at + (Len(w) - 1) * PageLen
            /\ \A n \in 1 .. Len(w) - 1 :
                 LET x == at + (n - 1) * PageLen
                     rest == a + Len(b) - x
                 IN \E c \in Seq(Byte) :
                      /\ w[n + 1] = Program(x, c)
                      /\ rest > 0 /\ Len(c) = IF rest < PageLen THEN rest ELSE PageLen
                      /\ \A k \in 1 .. Len(c) : c[k] = Written(a, b, x + k - 1)
<1> DEFINE P == PageLen
           o == a % P
           at == a - o
           head == QSPI_ReadFlashData(flash, at, o)
           all == head \o b
           l == Len(all)
           K == (l + P - 1) \div P
           Chunk(n) == Part(all, (n - 1) * P + 1, n * P)
           pages == [n \in 1 .. K |-> Program(at + (n - 1) * P, Chunk(n))]
           w == QSPI_WriteFlashData(a, b)
<1>1. P \in Nat \ {0} /\ FlashLen \in Nat /\ Len(b) \in Nat /\ Len(b) >= 1
  BY Sizes
<1>2. o \in 0 .. P - 1 /\ at \in Nat /\ at <= a /\ a < at + P
  <2>1. a \div P \in Nat /\ o \in 0 .. P - 1 /\ a = P * (a \div P) + o
    BY <1>1, Division
  <2>2. P * (a \div P) \in Nat
    BY <1>1, <2>1
  <2> QED BY <1>1, <2>1, <2>2
<1> HIDE DEF P, o
<1>3. at + o = a /\ a - at = o
  BY <1>2
<1>4. head \in Seq(Byte) /\ Len(head) = o /\ \A n \in 1 .. o : head[n] = flash[at + n - 1]
  <2>1. \A n \in 1 .. o : flash[at + n - 1] \in Byte
    <3> TAKE n \in 1 .. o
    <3>1. at + n - 1 \in Address
      BY <1>1, <1>2, <1>3 DEF Address
    <3> QED BY <3>1 DEF Flashes
  <2> HIDE DEF at
  <2>2. head = [n \in 1 .. o |-> flash[at + n - 1]]
    BY DEF QSPI_ReadFlashData
  <2> QED BY <1>2, <2>1, <2>2
<1> HIDE DEF head, at
<1>5. /\ all \in Seq(Byte) /\ l = o + Len(b) /\ l \in Nat \ {0}
      /\ \A n \in 1 .. o : all[n] = head[n]
      /\ \A n \in 1 .. Len(b) : all[o + n] = b[n]
  <2>1. /\ all \in Seq(Byte) /\ l = Len(head) + Len(b)
        /\ \A n \in 1 .. Len(head) : all[n] = head[n]
        /\ \A n \in 1 .. Len(b) : all[Len(head) + n] = b[n]
    <3>1. head \in Seq(Byte)
      BY <1>4
    <3>2. PICK t : t = head
      OBVIOUS
    <3>3. t \in Seq(Byte) /\ b \in Seq(Byte)
      BY <3>1, <3>2
    <3>4. /\ t \o b \in Seq(Byte) /\ Len(t \o b) = Len(t) + Len(b)
          /\ \A n \in 1 .. Len(t) : (t \o b)[n] = t[n]
          /\ \A n \in 1 .. Len(b) : (t \o b)[Len(t) + n] = b[n]
      BY <3>3, ConcatIs
    <3> QED BY <3>2, <3>4
  <2>2. Len(head) = o
    BY <1>4
  <2> HIDE DEF all, l
  <2> QED BY <2>1, <2>2, <1>1, <1>2
<1> HIDE DEF all, l
<1>6. K \in Nat \ {0} /\ l <= K * P /\ (K - 1) * P < l
  BY <1>1, <1>5, Ceiling
<1> HIDE DEF K
<1>7. \A x \in at .. at + l - 1 : x - at + 1 \in 1 .. l /\ all[x - at + 1] = Written(a, b, x)
  <2> TAKE x \in at .. at + l - 1
  <2>1. x - at + 1 \in 1 .. l /\ (x < a <=> x - at + 1 <= o) /\ at + (x - at + 1) - 1 = x
    BY <1>2, <1>3, <1>5
  <2>2. CASE x < a
    <3>1. x - at + 1 \in 1 .. o
      BY <2>1, <2>2, <1>2
    <3>2. all[x - at + 1] = flash[at + (x - at + 1) - 1]
      BY <3>1, <1>4, <1>5
    <3> QED BY <2>1, <2>2, <3>2 DEF Written
  <2>3. CASE ~ (x < a)
    <3>1. x - a + 1 \in 1 .. Len(b) /\ x - at + 1 = o + (x - a + 1)
      BY <2>1, <2>3, <1>1, <1>2, <1>3, <1>5
    <3> DEFINE n == x - a + 1
    <3>2. n \in 1 .. Len(b) /\ x - at + 1 = o + n
      BY <3>1
    <3> HIDE DEF n
    <3>3. all[x - at + 1] = b[n]
      BY <3>2, <1>5
    <3>4. all[x - at + 1] = b[x - a + 1]
      BY <3>3 DEF n
    <3> QED BY <2>1, <2>3, <3>4 DEF Written
  <2> QED BY <2>2, <2>3
<1>8. ASSUME NEW n \in 1 .. K
      PROVE  /\ Chunk(n) \in Seq(Byte) /\ l - (n - 1) * P > 0
             /\ Len(Chunk(n)) = IF l - (n - 1) * P < P THEN l - (n - 1) * P ELSE P
             /\ \A k \in 1 .. Len(Chunk(n)) : Chunk(n)[k] = Written(a, b, at + (n - 1) * P + k - 1)
  <2> DEFINE x == (n - 1) * P
             y == IF n * P < l THEN n * P ELSE l
  <2>1. x \in Nat /\ n * P = x + P /\ n * P \in Nat
    BY <1>1
  <2>2. x <= (K - 1) * P
    BY <1>1, <1>6
  <2>3. x < l
    <3>1. PICK v \in Nat : v = x
      BY <2>1
    <3>2. PICK z \in Int : z = (K - 1) * P
      BY <1>1, <1>6
    <3>3. v <= z /\ z < l
      BY <2>2, <3>1, <3>2, <1>6
    <3> HIDE DEF x
    <3>4. l \in Nat
      BY <1>5
    <3> QED BY <3>1, <3>2, <3>3, <3>4
  <2>4. y \in Nat /\ x < y /\ y <= l /\ y - x = IF l - x < P THEN l - x ELSE P
    BY <2>1, <2>3, <1>1, <1>5
  <2>5. Chunk(n) = SubSeq(all, x + 1, y)
    BY DEF Part, l
  <2> HIDE DEF x, y, Chunk
  <2>6. Chunk(n) \in Seq(Byte) /\ Len(Chunk(n)) = y - x /\ \A k \in 1 .. y - x : Chunk(n)[k] = all[x + k]
    BY <2>1, <2>4, <2>5, <1>5, SubSeqIs DEF l
  <2>7. ASSUME NEW k \in 1 .. y - x PROVE Chunk(n)[k] = Written(a, b, at + x + k - 1)
    <3> DEFINE z == at + x + k - 1
    <3>1. z \in at .. at + l - 1 /\ z - at + 1 = x + k
      BY <2>1, <2>4, <1>2, <1>5
    <3> HIDE DEF z
    <3>2. all[x + k] = Written(a, b, z)
      BY <3>1, <1>7
    <3> QED BY <2>6, <3>2 DEF z
  <2>8. l - x > 0
    BY <2>1, <2>3, <1>5
  <2> QED BY <2>4, <2>6, <2>7, <2>8 DEF x
<1> HIDE DEF Chunk
<1>9. w = << Erase(at, P) >> \o pages
  <2>1. at - Len(head) = at - o /\ a - o = at /\ a - Len(head) = at
    BY <1>4 DEF at
  <2>2. QSPI_PageEraseFlash(a) = Erase(at, P)
    BY DEF QSPI_PageEraseFlash, at, o, P
  <2>3. PagePrograms(a, head, b) = pages
    BY <2>1 DEF PagePrograms, all, l, K, P, Chunk
  <2>4. w = << QSPI_PageEraseFlash(a) >> \o PagePrograms(a, head, b)
    BY DEF QSPI_WriteFlashData, head, at, o, P
  <2> QED BY <2>2, <2>3, <2>4
<1>10. IsSeq(w) /\ Len(w) = K + 1 /\ w[1] = Erase(at, P)
       /\ \A n \in 1 .. K : w[n + 1] = Program(at + (n - 1) * P, Chunk(n))
  <2> DEFINE E == Erase(at, P)
             Q == {pages[n] : n \in 1 .. K} \cup {E}
  <2>1. << E >> \in Seq(Q) /\ pages \in Seq(Q) /\ Len(pages) = K
    BY <1>6
  <2> HIDE DEF E, Q, pages
  <2>2. w \in Seq(Q) /\ Len(w) = K + 1 /\ w[1] = E /\ \A n \in 1 .. K : w[n + 1] = pages[n]
    BY <2>1, <1>6, <1>9 DEF E
  <2>3. IsSeq(w)
    BY <2>2, SeqIsSeq
  <2> QED BY <2>2, <2>3 DEF E, pages
<1> HIDE DEF w, pages
<1>11. a + Len(b) = at + l
  BY <1>1, <1>3, <1>2, <1>5
<1>12. a + Len(b) <= at + (Len(w) - 1) * P
  BY <1>6, <1>10, <1>11, <1>2, <1>1, <1>5
<1>13. ASSUME NEW n \in 1 .. Len(w) - 1
       PROVE  LET x == at + (n - 1) * P
                  rest == a + Len(b) - x
              IN \E c \in Seq(Byte) :
                   /\ w[n + 1] = Program(x, c)
                   /\ rest > 0 /\ Len(c) = IF rest < P THEN rest ELSE P
                   /\ \A k \in 1 .. Len(c) : c[k] = Written(a, b, x + k - 1)
  <2>1. n \in 1 .. K
    BY <1>10, <1>6
  <2>2. (n - 1) * P \in Int
    BY <1>1
  <2>3. a + Len(b) - (at + (n - 1) * P) = l - (n - 1) * P
    BY <1>11, <2>2, <1>2, <1>5, <1>1
  <2> QED BY <2>1, <2>3, <1>8, <1>10
<1>14. Len(w) \in Nat /\ Len(w) >= 2
  BY <1>6, <1>10
<1> QED BY <1>2, <1>10, <1>12, <1>13, <1>14 DEF w, at, o, P
-----------------------------------------------------------------------------
(* The timer. *)

LEMMA FiveCommands ==
  ASSUME NEW a, NEW b, NEW c, NEW d, NEW e
  PROVE  << a, b >> \o << c, d >> \o << e >> = << a, b, c, d, e >>
<1> DEFINE S == {a, b, c, d, e}
<1>1. << a, b >> \in Seq(S) /\ << c, d >> \in Seq(S) /\ << e >> \in Seq(S)
  OBVIOUS
<1> HIDE DEF S
<1>2. PICK v : v = << a, b >> \o << c, d >>
  OBVIOUS
<1>3. v \in Seq(S) /\ Len(v) = 4 /\ v[1] = a /\ v[2] = b /\ v[3] = c /\ v[4] = d
  BY <1>1, <1>2
<1>4. PICK t : t = << e >>
  OBVIOUS
<1>5. t \in Seq(S) /\ Len(t) = 1 /\ t[1] = e
  BY <1>1, <1>4
<1>6. PICK w : w = v \o t
  OBVIOUS
<1>7. /\ w \in Seq(S) /\ Len(w) = Len(v) + Len(t)
      /\ \A n \in 1 .. Len(v) : w[n] = v[n]
      /\ \A n \in 1 .. Len(t) : w[Len(v) + n] = t[n]
  <2>1. /\ v \o t \in Seq(S) /\ Len(v \o t) = Len(v) + Len(t)
        /\ \A n \in 1 .. Len(v) : (v \o t)[n] = v[n]
        /\ \A n \in 1 .. Len(t) : (v \o t)[Len(v) + n] = t[n]
    <3>1. v \in Seq(S) /\ t \in Seq(S)
      BY <1>3, <1>5
    <3> QED BY <3>1, ConcatIs
  <2> QED BY <1>6, <2>1
<1>8. w \in Seq(S) /\ Len(w) = 5 /\ w[1] = a /\ w[2] = b /\ w[3] = c /\ w[4] = d /\ w[5] = e
  BY <1>3, <1>5, <1>7
<1>9. w = << w[1], w[2], w[3], w[4], w[5] >>
  BY <1>8
<1> QED BY <1>2, <1>4, <1>6, <1>8, <1>9

LEMMA PointerWrite ==
  ASSUME flash \in Flashes, NEW s \in Slots
  PROVE  QSPI_WriteFlashData(0, PointerTo(s)) = << Erase(0, PageLen), Program(0, PointerTo(s)) >>
<1> DEFINE b == PointerTo(s)
           w == QSPI_WriteFlashData(0, b)
<1>1. b \in Seq(Byte) /\ Len(b) = 3 /\ 3 <= PageLen /\ PageLen \in Nat \ {0} /\ PageLen <= FlashLen
  BY SlotPointer, Apart, RecordSizes, Sizes DEF PointerLen
<1>2. 0 % PageLen = 0 /\ 0 - (0 % PageLen) = 0
  BY <1>1
<1>3. \A x \in 0 .. 2 : Written(0, b, x) = b[x + 1]
  BY DEF Written
<1> HIDE DEF b
<1>4. 0 + Len(b) <= FlashLen /\ Len(b) # 0 /\ 0 \in Nat
  BY <1>1, Sizes
<1>5. /\ IsSeq(w) /\ Len(w) \in Nat /\ Len(w) >= 2 /\ w[1] = Erase(0 - (0 % PageLen), PageLen)
      /\ \A n \in 1 .. Len(w) - 1 :
           \E c \in Seq(Byte) :
             /\ w[n + 1] = Program(0 - (0 % PageLen) + (n - 1) * PageLen, c)
             /\ 0 + Len(b) - (0 - (0 % PageLen) + (n - 1) * PageLen) > 0
             /\ Len(c) = IF 0 + Len(b) - (0 - (0 % PageLen) + (n - 1) * PageLen) < PageLen
                         THEN 0 + Len(b) - (0 - (0 % PageLen) + (n - 1) * PageLen) ELSE PageLen
             /\ \A k \in 1 .. Len(c) : c[k] = Written(0, b, 0 - (0 % PageLen) + (n - 1) * PageLen + k - 1)
  BY <1>1, <1>4, WriteIs, ZenonT(60)
<1> HIDE DEF w
<1>6. Len(w) = 2
  <2>0. Len(w) \in Nat /\ Len(w) >= 2
    BY <1>5
  <2> SUFFICES ASSUME Len(w) > 2 PROVE FALSE
    BY <2>0
  <2>1. 2 \in 1 .. Len(w) - 1
    BY <2>0
  <2>2. 0 + Len(b) - (0 - (0 % PageLen) + (2 - 1) * PageLen) > 0
    BY <2>1, <1>5
  <2> QED BY <2>2, <1>1, <1>2
<1>7. 1 \in 1 .. Len(w) - 1
  BY <1>6
<1>8. PICK c \in Seq(Byte) :
        /\ w[1 + 1] = Program(0 - (0 % PageLen) + (1 - 1) * PageLen, c)
        /\ Len(c) = IF 0 + Len(b) - (0 - (0 % PageLen) + (1 - 1) * PageLen) < PageLen
                    THEN 0 + Len(b) - (0 - (0 % PageLen) + (1 - 1) * PageLen) ELSE PageLen
        /\ \A k \in 1 .. Len(c) : c[k] = Written(0, b, 0 - (0 % PageLen) + (1 - 1) * PageLen + k - 1)
  BY <1>5, <1>7
<1>9. 0 - (0 % PageLen) + (1 - 1) * PageLen = 0
  BY <1>1, <1>2
<1>10. w[2] = Program(0, c) /\ Len(c) = 3 /\ \A k \in 1 .. 3 : c[k] = b[k]
  <2>1. Len(c) = 3
    BY <1>1, <1>8, <1>9
  <2>2. \A k \in 1 .. 3 : 0 - (0 % PageLen) + (1 - 1) * PageLen + k - 1 = k - 1 /\ k - 1 \in 0 .. 2 /\ k - 1 + 1 = k
    BY <1>9
  <2>3. \A k \in 1 .. 3 : c[k] = b[k]
    BY <1>3, <1>8, <2>1, <2>2
  <2>4. w[1 + 1] = Program(0, c)
    BY <1>8, <1>9
  <2>5. 1 + 1 = 2
    OBVIOUS
  <2> QED BY <2>1, <2>3, <2>4, <2>5
<1>11. c = b
  BY <1>1, <1>10
<1>12. w[1] = Erase(0, PageLen) /\ w[2] = Program(0, b)
  BY <1>2, <1>5, <1>10, <1>11
<1>13. w = << w[1], w[2] >>
  BY <1>5, <1>6 DEF IsSeq
<1> QED BY <1>12, <1>13 DEF w, b

LEMMA ChangeCodeKeeps ==
  ASSUME Types, NEW i \in Images, NEW f \in Nat, NEW h \in -1 .. ResetStage, NEW u \in Nat,
         Update(i, f, h, u), Bt_CBChangeCode, handed' = handed
  PROVE  /\ Update(i, f, h, u)' /\ IsSeq(work') /\ ~ Saving'
         /\ addr \in Slots => Changing(i, h)' /\ h = EndStage
         /\ addr \notin Slots => work' = << >>
<1>1. /\ up /\ work = << >> /\ armed /\ armed' = FALSE
      /\ work' = IF ~ CodeAddress(addr) THEN << >>
             ELSE << QSPI_SectorEraseFlash(RecordBase), QSPI_SectorEraseFlash(0) >>
                  \o QSPI_WriteFlashData(0, PointerTo(addr)) \o << [cmd |-> "reset"] >>
      /\ UNCHANGED << otaState, up, received, answers, phone, repeats, flash >>
  BY DEF Bt_CBChangeCode
<1>2. UNCHANGED << addr, datalen, packetid, up, received, answers, phone, repeats, flash >>
  BY <1>1 DEF otaState
<1>3. ~ Switching /\ Pointer' = Pointer
  BY <1>1, <1>2, SwitchingIs, PointerKept
<1>4. Settled(i, f, h, u)
  BY <1>1, Shapes, SeqNone DEF Update, Shape
<1>5. Counts(f, h, u)
  BY DEF Update, Protocol
<1>6. h \in {EndStage, ResetStage}
  BY <1>1, <1>5, Stage DEF Counts
<1>7. PICK ks : Stages(i, f, h, ks) /\ Talks(i, f, h, u, ks)
  BY DEF Update, Protocol
<1>8. Stages(i, f, h, ks)' /\ Talks(i, f, h, u, ks)'
  BY <1>2, <1>7 DEF Stages, Talks
<1>9. addr \in Slots <=> CodeAddress(addr)
  BY DEF CodeAddress, Slots
<1>10. IsSeq(received) /\ IsSeq(answers) /\ \A n \in 1 .. Len(answers) : AnswersTo(f, h, answers[n])
  BY DEF Update, Protocol
<1>11. CASE addr \notin Slots
  <2>1. work' = << >> /\ ~ Switching'
    BY <1>1, <1>9, <1>11, SwitchingIs
  <2>2. Counts(f, h, u)'
    BY <1>1, <1>2, <1>5, <1>6, <1>11, <2>1, Stage DEF Counts
  <2>3. Protocol(i, f, h, u)'
    BY <1>1, <1>2, <1>3, <1>8, <1>10, <2>1, <2>2 DEF Protocol, Update
  <2>4. Settled(i, f, h, u)'
    BY <1>2, <1>11, <2>1 DEF Settled
  <2>5. ~ Saving'
    <3>1. (work # << >>)' => FALSE
      BY <2>1
    <3>2. (Saving => work # << >>)'
      BY SavingEnds, PTL
    <3> QED BY <3>1, <3>2
  <2> QED BY <1>11, <2>1, <2>3, <2>4, <2>5, SeqNone DEF Update
<1>12. CASE addr \in Slots
  <2>1. h = EndStage /\ u = 0 /\ addr # 0
    <3>1. addr # 0
      BY <1>12, SlotSizes
    <3> QED BY <1>5, <1>6, <3>1 DEF Counts
  <2>2. work' = << Erase(RecordBase, SectorLen), Erase(0, SectorLen), Erase(0, PageLen),
                   Program(0, PointerTo(addr)), [cmd |-> "reset"] >>
    <3>1. flash \in Flashes
      BY DEF Types, Flashes
    <3>2. QSPI_WriteFlashData(0, PointerTo(addr)) = << Erase(0, PageLen), Program(0, PointerTo(addr)) >>
      BY <1>12, <3>1, PointerWrite
    <3>3. work' = << Erase(RecordBase, SectorLen), Erase(0, SectorLen) >>
                    \o << Erase(0, PageLen), Program(0, PointerTo(addr)) >> \o << [cmd |-> "reset"] >>
      BY <1>1, <1>9, <1>12, <3>2, RecordSizes
    <3> QED BY <3>3, FiveCommands, Zenon
  <2>3. IsSeq(work') /\ Len(work') = 5 /\ work' # << >>
    <3>1. work' \in Seq({work'[1], work'[2], work'[3], work'[4], work'[5]})
      BY <2>2
    <3> QED BY <2>2, <3>1, SeqIsSeq
  <2>4. \A n \in 1 .. 5 : work'[n] = SwitchCommand(n)'
    BY <1>2, <2>2 DEF SwitchCommand
  <2>5. Switching'
    BY <2>2, <2>3, SwitchingIs
  <2>6. Pointer \in Slots /\ Pointer # addr
    BY <1>1, <1>3, <1>5, <1>12, <2>1, Stage DEF Counts, Update, Protocol
  <2>7. Switches(0)'
    BY <1>2, <1>3, <2>3, <2>4, <2>6 DEF Switches
  <2>8. \A x \in Region(addr) : flash[x] = Filled(i, h)[x]
    BY <1>4, <1>12, <2>1, Stage DEF Settled
  <2>9. Filled(i, h)' = Filled(i, h)
    BY <1>2 DEF Filled
  <2>10. Changing(i, h)'
    BY <1>2, <1>12, <2>7, <2>8, <2>9 DEF Changing
  <2>11. Counts(f, h, u)'
    BY <1>2, <1>12, <2>1, <2>5, Stage DEF Counts
  <2>12. Protocol(i, f, h, u)'
    BY <1>1, <1>2, <1>8, <1>10, <2>5, <2>11 DEF Protocol
  <2>13. ~ Saving'
    <3>1. (Saving => work[Len(work)].cmd \in {"write", "program"})'
      BY SavingEnds, PTL
    <3>2. work'[Len(work')].cmd = "reset"
      BY <2>2, <2>3
    <3> QED BY <3>1, <3>2
  <2> QED BY <1>12, <2>1, <2>3, <2>10, <2>12, <2>13 DEF Update
<1> QED BY <1>11, <1>12
-----------------------------------------------------------------------------
(* The phone's messages as the headset handles them. *)

LEMMA SeqBuilt ==
  ASSUME NEW n \in Nat, NEW s, s = [m \in 1 .. n |-> s[m]]
  PROVE  IsSeq(s) /\ Len(s) = n
<1> DEFINE S == {s[m] : m \in 1 .. n}
<1>1. \A m \in 1 .. n : s[m] \in S
  OBVIOUS
<1> HIDE DEF S
<1>2. s \in Seq(S) /\ Len(s) = n
  BY <1>1
<1> QED BY <1>2, SeqIsSeq

LEMMA Answered ==
  ASSUME NEW w, IsSeq(w), NEW a, a.cmd = "answer", work' = Append(w, a)
  PROVE  /\ IsSeq(work') /\ Len(w) \in Nat /\ Len(work') = Len(w) + 1 /\ work' # << >>
         /\ (\A n \in 1 .. Len(w) : work'[n] = w[n]) /\ work'[Len(w) + 1] = a
         /\ ~ Switching' /\ ~ Saving'
<1>1. /\ IsSeq(work') /\ Len(w) \in Nat /\ Len(work') = Len(w) + 1
      /\ (\A n \in 1 .. Len(w) : work'[n] = w[n]) /\ work'[Len(w) + 1] = a
  BY SeqAppend
<1>2. work' # << >>
  BY <1>1, SeqNone
<1>3. work'[Len(work')].cmd = "answer"
  BY <1>1
<1>4. ~ Switching'
  BY <1>3, SwitchingIs
<1>5. (Saving => work[Len(work)].cmd \in {"write", "program"})'
  BY SavingEnds, PTL
<1> QED BY <1>1, <1>2, <1>3, <1>4, <1>5

LEMMA NothingLeft ==
  ASSUME work' = << >>
  PROVE  ~ Switching' /\ ~ Saving' /\ IsSeq(work')
<1>1. (Saving => work # << >>)'
  BY SavingEnds, PTL
<1> QED BY <1>1, SwitchingIs, SeqNone

LEMMA AnswersStay ==
  ASSUME NEW f, NEW h \in Int, NEW k \in Int, h <= k, NEW a, AnswersTo(f, h, a)
  PROVE  AnswersTo(f, k, a)
BY Stage DEF AnswersTo

\* A message that is handled becomes the last stage, and none is counted twice that
\* was not sent twice.
LEMMA MessageHandled ==
  ASSUME Types, NEW i \in Images, NEW f \in Nat, NEW h \in -1 .. ResetStage, NEW u \in Nat,
         Update(i, f, h, u), Bt_SPPCallBack
  PROVE  /\ up /\ work = << >> /\ received # << >> /\ Settled(i, f, h, u) /\ Pointer \in Slots
         /\ u + 1 <= MaxRepeats + 2
         /\ UNCHANGED << up, phone, repeats, flash >>
         /\ \E k \in (0 .. ResetStage) \cap {h, h + 1, ResetStage} :
              /\ Head(received) = Said(i, f, k)
              /\ \A v \in Nat : v <= u + 1 /\ (k # h => v <= u) /\ Counts(f, k, v)' /\ ~ Switching'
                   => Protocol(i, f, k, v)'
<1>1. /\ up /\ work = << >> /\ received # << >> /\ received' = Tail(received)
      /\ UNCHANGED << up, answers, phone, repeats, flash >>
  BY DEF Bt_SPPCallBack
<1>2. IsSeq(received) /\ IsSeq(answers) /\ \A n \in 1 .. Len(answers) : AnswersTo(f, h, answers[n])
  BY DEF Update, Protocol
<1>3. Settled(i, f, h, u)
  BY <1>1, Shapes, SeqNone DEF Update, Shape
<1>4. Pointer \in Slots /\ Pointer' = Pointer
  BY <1>1, SwitchingIs, PointerKept DEF Update, Protocol
<1>5. PICK ks : Stages(i, f, h, ks) /\ Talks(i, f, h, u, ks)
  BY DEF Update, Protocol
<1>6. /\ Len(received) \in Nat /\ Len(received) >= 1 /\ Head(received) = received[1]
      /\ IsSeq(received') /\ Len(received') = Len(received) - 1
  BY <1>1, <1>2, SeqTail
<1>7. /\ ks[1] \in (0 .. ResetStage) \cap {h, h + 1, ResetStage}
      /\ received[1] = Said(i, f, ks[1]) /\ 1 \in 1 .. Len(received)
      /\ \E js : /\ Stages(i, f, ks[1], js)'
                 /\ \A c \in Int : (\A n \in 1 .. Len(received) : ks[n] <= c)
                                     => \A n \in 1 .. Len(received') : js[n] <= c
  BY <1>1, <1>2, <1>5, StagesTail, SMTT(30)
<1>8. PICK k \in (0 .. ResetStage) \cap {h, h + 1, ResetStage} : k = ks[1]
  BY <1>7
<1>9. PICK js : /\ Stages(i, f, k, js)'
                /\ \A c \in Int : (\A n \in 1 .. Len(received) : ks[n] <= c)
                                    => \A n \in 1 .. Len(received') : js[n] <= c
  BY <1>7, <1>8
<1>10. repeats \in 0 .. MaxRepeats /\ repeats' = repeats /\ MaxRepeats \in Nat /\ phone' = phone
       /\ answers' = answers
  BY <1>1, Sizes DEF Types
<1>11. u + 1 <= MaxRepeats + 2
  <2>1. CASE u + Len(received) <= repeats + 2
    BY <2>1, <1>6, <1>10
  <2>2. ASSUME NEW c \in {h, h + 1}, u + Len(received) <= repeats + c - h
        PROVE  u + 1 <= MaxRepeats + 2
    BY <2>2, <1>6, <1>10
  <2> QED BY <2>1, <2>2, <1>5 DEF Talks
<1>12. h <= k
  BY Stage
<1>13. \A n \in 1 .. Len(answers') : AnswersTo(f, k, answers'[n])
  BY <1>2, <1>10, <1>12, AnswersStay
<1>14. ASSUME NEW v \in Nat, v <= u + 1, k # h => v <= u
       PROVE  Talks(i, f, k, v, js)'
  <2>1. CASE phone = Idle /\ answers = << >> /\ u + Len(received) <= repeats + 2
    <3>1. v + Len(received') <= repeats' + 2
      BY <1>6, <1>10, <1>14, <2>1
    <3> QED BY <3>1, <2>1, <1>10 DEF Talks
  <2>2. ASSUME NEW c \in {h, h + 1} \cap 0 .. EndStage,
               phone \in Phones(i, f, c), phone.stage \in {"passed", "refused"} => c = h,
               \A n \in 1 .. Len(received) : ks[n] <= c,
               u + Len(received) <= repeats + c - h
        PROVE  Talks(i, f, k, v, js)'
    <3>1. k <= c
      BY <1>7, <1>8, <2>2
    <3>2. k \in {h, h + 1} /\ c \in {k, k + 1} /\ (c = h => k = c)
      BY <3>1, <2>2, Stage
    <3>3. c \in {k, k + 1} \cap 0 .. EndStage
      BY <3>2
    <3>4. \A n \in 1 .. Len(received') : js[n] <= c
      BY <1>9, <2>2
    <3>5. v + Len(received') <= repeats' + c - k
      <4>1. CASE k = h
        BY <4>1, <1>6, <1>10, <1>14, <2>2
      <4>2. CASE k = h + 1
        BY <4>2, <1>6, <1>10, <1>14, <2>2
      <4> QED BY <3>2, <4>1, <4>2
    <3>6. phone'.stage \in {"passed", "refused"} => c = k
      BY <1>10, <2>2, <3>2
    <3> QED BY <1>10, <2>2, <3>3, <3>4, <3>5, <3>6 DEF Talks
  <2> QED BY <2>1, <2>2, <1>5 DEF Talks
<1>15. ASSUME NEW v \in Nat, v <= u + 1, k # h => v <= u, Counts(f, k, v)', ~ Switching'
       PROVE  Protocol(i, f, k, v)'
  <2>1. Stages(i, f, k, js)' /\ Talks(i, f, k, v, js)'
    BY <1>9, <1>14, <1>15
  <2> QED BY <2>1, <1>1, <1>2, <1>4, <1>6, <1>10, <1>13, <1>15 DEF Protocol
<1>16. Head(received) = Said(i, f, k)
  BY <1>6, <1>7, <1>8
<1> QED BY <1>1, <1>3, <1>4, <1>11, <1>15, <1>16

LEMMA OnStartKeeps ==
  ASSUME Types, NEW i \in Images, NEW f \in Nat, NEW h \in -1 .. ResetStage, NEW u \in Nat,
         Update(i, f, h, u), Bt_SPPCallBack, OnStart
  PROVE  Update(i, f, 0, 0)' /\ Types' /\ ~ Saving'
<1>1. /\ up /\ work = << >> /\ received # << >> /\ Pointer \in Slots
      /\ UNCHANGED << up, phone, repeats, flash >>
  BY MessageHandled
<1>2. PICK k \in (0 .. ResetStage) \cap {h, h + 1, ResetStage} :
        /\ Head(received) = Said(i, f, k)
        /\ \A v \in Nat : v <= u + 1 /\ (k # h => v <= u) /\ Counts(f, k, v)' /\ ~ Switching'
             => Protocol(i, f, k, v)'
  BY MessageHandled
<1>3. k = 0 /\ h \in {-1, 0}
  <2>1. k = 0
    <3>1. k \in 0 .. ResetStage /\ Said(i, f, k).evt = "START"
      BY <1>2 DEF OnStart
    <3> QED BY <3>1, SaidIs
  <2> QED BY <2>1, Stage
<1>4. PICK s \in Slots : s # Pointer /\ s = IF Pointer = Slot1 THEN Slot2 ELSE Slot1
  <2>1. Slot1 # Slot2
    BY OtaAssumption
  <2> QED BY <1>1, <2>1 DEF Slots
<1> DEFINE w == [n \in 1 .. SlotSectors |-> QSPI_SectorEraseFlash(s + (n - 1) * SectorLen)]
<1>5. /\ addr' = s /\ datalen' = 0 /\ datasum' = 0 /\ packetid' = 0 /\ armed' = armed
      /\ work' = Append(w, Answer("START", 0))
  BY <1>1, <1>4 DEF OnStart, Begin, Doing
<1>6. SlotSectors \in Nat /\ SectorLen \in Nat \ {0} /\ s \in Nat /\ First(s) \in Nat /\ Beyond(s) \in Nat
      /\ \A n \in Nat : QSPI_SectorEraseFlash(s + n * SectorLen) = Erase(First(s) + n * SectorLen, SectorLen)
  BY SlotSizes, Sizes
<1>7. IsSeq(w) /\ Len(w) = SlotSectors /\ \A n \in 1 .. SlotSectors : w[n] = Erase(First(s) + (n - 1) * SectorLen, SectorLen)
  <2>1. w = [n \in 1 .. SlotSectors |-> w[n]]
    OBVIOUS
  <2>2. \A n \in 1 .. SlotSectors : n - 1 \in Nat
    BY <1>6
  <2>3. \A n \in 1 .. SlotSectors : w[n] = Erase(First(s) + (n - 1) * SectorLen, SectorLen)
    BY <2>2, <1>6
  <2> HIDE DEF w
  <2>4. IsSeq(w) /\ Len(w) = SlotSectors
    BY <2>1, <1>6, SeqBuilt
  <2> QED BY <2>3, <2>4
<1> HIDE DEF w
<1>8. Answer("START", 0).cmd = "answer" /\ AnswersTo(f, 0, Answer("START", 0))
  BY DEF Answer, AnswersTo
<1>9. /\ IsSeq(work') /\ Len(work') = SlotSectors + 1 /\ work' # << >>
      /\ (\A n \in 1 .. SlotSectors : work'[n] = w[n]) /\ work'[Len(work')] = Answer("START", 0)
      /\ ~ Switching' /\ ~ Saving'
  BY <1>5, <1>7, <1>8, Answered
<1>10. ~ armed
  BY <1>3, Stage DEF Update, Protocol, Counts
<1>11. Pointer' = Pointer
  BY <1>1, PointerKept
<1>12. Counts(f, 0, 0)'
  <2>1. Sent(0) + 0 * Packets[1] = 0
    BY SentSteps, Sizes
  <2> QED BY <2>1, <1>1, <1>4, <1>5, <1>9, <1>10, <1>11, Stage DEF Counts
<1>13. Protocol(i, f, 0, 0)'
  BY <1>2, <1>3, <1>9, <1>12
<1>14. Wipes(f, 0, First(s))'
  <2>1. First(s) + (Len(work') - 1) * SectorLen = Beyond(s)
    BY <1>6, <1>9 DEF Beyond
  <2>2. \A n \in 1 .. Len(work') - 1 : work'[n] = Erase(First(s) + (n - 1) * SectorLen, SectorLen)
    BY <1>6, <1>7, <1>9
  <2>3. \A x \in Region(s) : ~ (x < First(s))
    BY <1>6 DEF Region
  <2>4. Len(work') >= 1
    BY <1>6, <1>9
  <2> QED BY <2>1, <2>2, <2>3, <2>4, <1>5, <1>8, <1>9 DEF Wipes
<1>15. First(s) \in First(s) .. Beyond(s)
  BY <1>6, SlotSizes
<1>16. Wiping(f, 0, 0)'
  BY <1>4, <1>5, <1>14, <1>15 DEF Wiping
<1>17. Types'
  BY <1>1, <1>5, <1>6, <1>9 DEF Types
<1> QED BY <1>9, <1>13, <1>16, <1>17 DEF Update

LEMMA OnResetKeeps ==
  ASSUME Types, NEW i \in Images, NEW f \in Nat, NEW h \in -1 .. ResetStage, NEW u \in Nat,
         Update(i, f, h, u), Bt_SPPCallBack, OnReset
  PROVE  Update(i, f, ResetStage, 0)' /\ Types' /\ ~ Saving'
<1>1. /\ up /\ work = << >> /\ received # << >>
      /\ UNCHANGED << up, phone, repeats, flash >>
  BY MessageHandled
<1>2. PICK k \in (0 .. ResetStage) \cap {h, h + 1, ResetStage} :
        /\ Head(received) = Said(i, f, k)
        /\ \A v \in Nat : v <= u + 1 /\ (k # h => v <= u) /\ Counts(f, k, v)' /\ ~ Switching'
             => Protocol(i, f, k, v)'
  BY MessageHandled
<1>3. k = ResetStage
  <2>1. k \in 0 .. ResetStage /\ Said(i, f, k).evt = "RESET"
    BY <1>2 DEF OnReset
  <2> QED BY <2>1, SaidIs
<1>4. /\ addr' = 0 /\ datalen' = 0 /\ datasum' = 0 /\ packetid' = 0 /\ armed' = armed /\ work' = << >>
  BY <1>1 DEF OnReset, OTA_Init, Begin
<1>5. ~ Switching' /\ ~ Saving' /\ IsSeq(work')
  BY <1>4, NothingLeft
<1>6. 0 \notin Slots
  BY SlotSizes
<1>7. Counts(f, ResetStage, 0)'
  BY <1>4, <1>5, <1>6, Stage DEF Counts
<1>8. Protocol(i, f, ResetStage, 0)'
  BY <1>2, <1>3, <1>5, <1>7
<1>9. Settled(i, f, ResetStage, 0)'
  BY <1>4, <1>6 DEF Settled
<1>10. Types'
  BY <1>1, <1>4, <1>5 DEF Types
<1> QED BY <1>5, <1>8, <1>9, <1>10 DEF Update

LEMMA OnEndKeeps ==
  ASSUME Types, NEW i \in Images, NEW f \in Nat, NEW h \in -1 .. ResetStage, NEW u \in Nat,
         Update(i, f, h, u), Bt_SPPCallBack, OnEnd
  PROVE  Update(i, f, EndStage, 0)' /\ Types' /\ ~ Saving'
<1>1. /\ up /\ work = << >> /\ received # << >> /\ Settled(i, f, h, u) /\ Pointer \in Slots
      /\ UNCHANGED << up, phone, repeats, flash >>
  BY MessageHandled
<1>2. PICK k \in (0 .. ResetStage) \cap {h, h + 1, ResetStage} :
        /\ Head(received) = Said(i, f, k)
        /\ \A v \in Nat : v <= u + 1 /\ (k # h => v <= u) /\ Counts(f, k, v)' /\ ~ Switching'
             => Protocol(i, f, k, v)'
  BY MessageHandled
<1>3. k = EndStage /\ h \in {Count, EndStage} /\ Head(received).len = ImageLen
  <2>1. k = EndStage
    <3>1. k \in 0 .. ResetStage /\ Said(i, f, k).evt = "END"
      BY <1>2 DEF OnEnd
    <3> QED BY <3>1, SaidIs
  <2>2. Head(received).len = ImageLen
    <3>1. EndStage \in 0 .. ResetStage
      BY Stage
    <3>2. Said(i, f, EndStage).len = ImageLen
      BY <3>1, SaidIs
    <3> QED BY <2>1, <3>2, <1>2
  <2> QED BY <2>1, <2>2, Stage
<1> DEFINE total == datasum + Total(InFlash(addr, datalen))
           ok == Announced(total, Head(received))
<1>4. /\ IF ok THEN armed' = TRUE /\ datasum' = total /\ UNCHANGED << addr, datalen, packetid >>
         ELSE OTA_Init /\ UNCHANGED armed
      /\ work' = Append(<< >>, Answer("END", ok))
  BY DEF OnEnd, Doing
<1>5. ok \in BOOLEAN /\ (ok => datalen = ImageLen)
  BY <1>3 DEF Announced
<1>6. Answer("END", ok).cmd = "answer" /\ AnswersTo(f, EndStage, Answer("END", ok))
  <2> HIDE DEF ok
  <2>1. Answer("END", ok).cmd = "answer" /\ Answer("END", ok).evt = "END" /\ Answer("END", ok).with = ok
    BY DEF Answer
  <2> QED BY <2>1, <1>5, Stage DEF AnswersTo
<1> HIDE DEF ok, total
<1>7. /\ IsSeq(work') /\ Len(work') = 1 /\ work'[1] = Answer("END", ok)
      /\ ~ Switching' /\ ~ Saving'
  BY <1>4, <1>6, SeqNone, Answered
<1>8. Counts(f, h, u) /\ ~ Switching
  BY <1>1, SwitchingIs DEF Update, Protocol
<1>9. Pointer' = Pointer /\ 0 \notin Slots
  BY <1>1, PointerKept, SlotSizes
<1>10. ok => addr = 0 \/ (addr \in Slots /\ u = 0)
  <2> SUFFICES ASSUME ok, h = Count PROVE addr \in Slots /\ u = 0
    BY <1>3, <1>8 DEF Counts
  <2>1. h \in 0 .. Count
    BY Stage
  <2>2. addr \in Slots /\ datalen = Sent(h) + u * Packets[1] /\ datalen = ImageLen /\ Sent(h) = ImageLen
    BY <1>5, <1>8, <2>1, SentSteps DEF Counts
  <2>3. u * Packets[1] = 0
    BY <2>2, Sizes
  <2> QED BY <2>2, <2>3, Sizes
<1>11. ok => total \in Nat
  <2> SUFFICES ASSUME ok PROVE total \in Nat
    OBVIOUS
  <2>1. \A n \in 1 .. ImageLen : addr + n - 1 \in Address
    <3>1. CASE addr \in Slots
      BY <3>1, Body, Apart
    <3>2. CASE addr = 0
      <4>1. PICK s \in Slots : TRUE
        BY DEF Slots
      <4>2. s + ImageLen - 1 \in Address \/ ImageLen = 0
        <5>1. ImageLen # 0 => s + ImageLen - 1 \in Region(s)
          <6>1. ImageLen # 0 => ImageLen \in 1 .. ImageLen
            BY Sizes
          <6> QED BY <6>1, Body
        <5> QED BY <5>1, Apart
      <4> QED BY <3>2, <4>2, Sizes, SlotSizes DEF Address
    <3> QED BY <1>10, <3>1, <3>2
  <2>2. InFlash(addr, datalen) \in Seq(Nat)
    <3>1. \A n \in 1 .. ImageLen : flash[addr + n - 1] \in Nat
      BY <2>1 DEF Types, Byte
    <3>2. [n \in 1 .. ImageLen |-> flash[addr + n - 1]] \in Seq(Nat)
      BY <3>1, Sizes
    <3>3. datalen = ImageLen
      BY <1>5
    <3> QED BY <3>2, <3>3 DEF InFlash, QSPI_ReadFlashData
  <2>3. Total(InFlash(addr, datalen)) \in Nat
    BY <2>2, TotalSteps
  <2> QED BY <2>3 DEF total, Types
<1>12. addr' \in Slots => ok /\ addr' = addr /\ addr \in Slots /\ u = 0
  BY <1>4, <1>9, <1>10 DEF OTA_Init, Begin
<1>13. addr' = 0 \/ addr' \in Slots
  BY <1>4, <1>10 DEF OTA_Init, Begin
<1>14. Counts(f, EndStage, 0)'
  <2>1. addr' \in Slots => addr' # Pointer'
    BY <1>3, <1>8, <1>9, <1>12, Stage DEF Counts
  <2> QED BY <2>1, <1>7, <1>13, Stage DEF Counts
<1>15. Protocol(i, f, EndStage, 0)'
  BY <1>2, <1>3, <1>7, <1>14
<1>16. Settled(i, f, EndStage, 0)'
  <2> SUFFICES ASSUME addr' \in Slots PROVE \A x \in Region(addr') : flash'[x] = Filled(i, EndStage)'[x]
    BY <1>6, <1>7 DEF Settled
  <2>1. addr' = addr /\ addr \in Slots /\ u = 0
    BY <1>12
  <2>2. \A x \in Region(addr) : flash[x] = Filled(i, h)[x]
    BY <1>1, <1>3, <2>1, Stage DEF Settled
  <2>3. Filled(i, h) = Goal(i, addr, ImageLen) /\ Filled(i, EndStage)' = Goal(i, addr, ImageLen)
    BY <1>3, <2>1, SentSteps, Stage DEF Filled
  <2> QED BY <1>1, <2>1, <2>2, <2>3
<1>17. Types'
  <2>1. datasum' \in Nat /\ datalen' \in Nat /\ packetid' \in Nat /\ armed' \in BOOLEAN /\ addr' \in Nat
    <3>1. CASE ok
      BY <3>1, <1>4, <1>11 DEF Types
    <3>2. CASE ~ ok
      BY <3>2, <1>4 DEF OTA_Init, Begin, Types
    <3> QED BY <3>1, <3>2
  <2> QED BY <2>1, <1>1, <1>7 DEF Types
<1> QED BY <1>7, <1>15, <1>16, <1>17 DEF Update
-----------------------------------------------------------------------------
(* A packet, and the pages it is written to. *)

\* The packets that may still come twice fit in what START erased.
LEMMA Room ==
  ASSUME NEW s \in Slots, NEW n \in Nat, n <= ImageLen, NEW u \in Nat, u <= MaxRepeats + 2
  PROVE  /\ n + u * Packets[1] \in Nat
         /\ s + (n + u * Packets[1]) <= Beyond(s) /\ s + (n + u * Packets[1]) <= FlashLen
         /\ First(s) <= s + (n + u * Packets[1])
<1>1. s + ImageLen + (MaxRepeats + 2) * Packets[1] <= Beyond(s)
  BY OtaAssumption
<1>2. /\ s \in Nat /\ First(s) \in Nat /\ Beyond(s) \in Nat /\ First(s) <= s /\ Beyond(s) <= FlashLen
      /\ ImageLen \in Nat /\ Packets[1] \in Nat /\ MaxRepeats \in Nat /\ FlashLen \in Nat
  BY SlotSizes, Sizes
<1> DEFINE p == u * Packets[1]
           q == (MaxRepeats + 2) * Packets[1]
<1>3. p \in Nat /\ q \in Nat /\ p <= q
  BY <1>2
<1> HIDE DEF p, q
<1>4. n + p \in Nat /\ s + (n + p) <= Beyond(s) /\ s + (n + p) <= FlashLen /\ First(s) <= s + (n + p)
  <2>1. s + ImageLen + q <= Beyond(s)
    BY <1>1 DEF q
  <2> QED BY <2>1, <1>2, <1>3
<1> QED BY <1>4 DEF p

LEMMA PageInSlot ==
  ASSUME NEW s \in Slots, NEW a \in Nat, First(s) <= a, a < Beyond(s)
  PROVE  /\ a - (a % PageLen) \in Nat /\ a % PageLen \in 0 .. PageLen - 1
         /\ First(s) <= a - (a % PageLen) /\ a - (a % PageLen) + PageLen <= Beyond(s)
<1>1. PICK p \in Nat, q \in Nat : First(s) = SectorLen * p /\ Beyond(s) = SectorLen * q
  BY SlotSizes
<1>2. SectorLen * p <= a /\ a < SectorLen * q
  BY <1>1
<1> QED BY <1>1, <1>2, PageWithin

Gives(w, at, a, b) ==
  /\ IsSeq(w) /\ Len(w) \in Nat /\ Len(w) >= 2 /\ w[1] = Erase(at, PageLen)
  /\ a + Len(b) <= at + (Len(w) - 1) * PageLen
  /\ \A n \in 1 .. Len(w) - 1 :
       LET x == at + (n - 1) * PageLen
           rest == a + Len(b) - x
       IN \E c \in Seq(Byte) :
            /\ w[n + 1] = Program(x, c)
            /\ rest > 0 /\ Len(c) = IF rest < PageLen THEN rest ELSE PageLen
            /\ \A k \in 1 .. Len(c) : c[k] = Written(a, b, x + k - 1)

LEMMA WriteGives ==
  ASSUME flash \in Flashes, NEW a \in Nat, NEW b \in Seq(Byte), Len(b) # 0, a + Len(b) <= FlashLen,
         NEW at, at = a - (a % PageLen), NEW w, w = QSPI_WriteFlashData(a, b)
  PROVE  Gives(w, at, a, b)
  BY WriteIs, ZenonT(60) DEF Gives

LEMMA PacketSizes ==
  ASSUME NEW k \in 1 .. Count
  PROVE  /\ Sent(k - 1) \in Nat /\ Sent(k) \in Nat /\ Packets[k] \in Nat \ {0}
         /\ Sent(k) = Sent(k - 1) + Packets[k] /\ Sent(k - 1) <= Sent(k) /\ Sent(k) <= ImageLen
<1>1. k \in 0 .. Count /\ k - 1 \in 0 .. Count
  BY Stage
<1>2. Sent(k) = Sent(k - 1) + Packets[k] /\ Packets[k] \in Nat \ {0}
  BY SentSteps
<1>3. Sent(k) \in Nat /\ Sent(k) <= ImageLen
  BY <1>1, SentSteps
<1>4. Sent(k - 1) \in Nat
  BY <1>1, SentSteps
<1> QED BY <1>2, <1>3, <1>4

LEMMA PacketBytes ==
  ASSUME NEW i \in Images, NEW k \in 1 .. Count, NEW b, b = SubSeq(i, Sent(k - 1) + 1, Sent(k))
  PROVE  /\ b \in Seq(Byte) /\ Len(b) = Packets[k]
         /\ \A n \in 1 .. Packets[k] : b[n] = i[Sent(k - 1) + n]
<1>1. i \in Seq(Byte) /\ Len(i) = ImageLen
  BY OtaAssumption
<1> DEFINE x == Sent(k - 1)
           y == Sent(k)
<1>2. x \in Nat /\ y \in Nat /\ x <= y /\ y <= Len(i) /\ y - x = Packets[k]
  BY <1>1, PacketSizes
<1> HIDE DEF x, y
<1>3. /\ SubSeq(i, x + 1, y) \in Seq(Byte) /\ Len(SubSeq(i, x + 1, y)) = y - x
      /\ \A n \in 1 .. y - x : SubSeq(i, x + 1, y)[n] = i[x + n]
  BY <1>1, <1>2, SubSeqIs
<1> QED BY <1>2, <1>3 DEF x, y

\* What a packet makes of a slot that holds what was sent before.
LEMMA PacketFills ==
  ASSUME NEW s \in Slots, addr = s, NEW i \in Images, NEW k \in 1 .. Count,
         NEW b, b = SubSeq(i, Sent(k - 1) + 1, Sent(k)), NEW y \in Address, y < s + Sent(k),
         y < s + Sent(k - 1) => flash[y] = Filled(i, k - 1)[y]
  PROVE  Written(s + Sent(k - 1), b, y) = Filled(i, k)[y]
<1>1. /\ Sent(k - 1) \in Nat /\ Sent(k) \in Nat /\ Sent(k - 1) <= Sent(k) /\ Sent(k) <= ImageLen
      /\ k - 1 \in 0 .. EndStage /\ k \in 0 .. EndStage /\ k - 1 <= Count /\ k <= Count
  BY PacketSizes, Stage
<1>2. i \in Seq(Byte) /\ Len(i) = ImageLen /\ s \in Nat /\ y \in Int
  BY OtaAssumption, SlotSizes DEF Address
<1>3. CASE y < s + Sent(k - 1)
  <2>1. Filled(i, k - 1)[y] = Filled(i, k)[y]
    <3>1. CASE y < s
      <4>1. Filled(i, k - 1)[y] = Blank
        BY <1>1, <1>2, <3>1, FilledIs
      <4>2. Filled(i, k)[y] = Blank
        BY <1>1, <1>2, <3>1, FilledIs
      <4> QED BY <4>1, <4>2
    <3>2. CASE s <= y
      <4>1. Filled(i, k - 1)[y] = i[y - s + 1]
        BY <1>1, <1>2, <1>3, <3>2, FilledIs
      <4>2. Filled(i, k)[y] = i[y - s + 1]
        BY <1>1, <1>2, <1>3, <3>2, FilledIs
      <4> QED BY <4>1, <4>2
    <3> QED BY <1>2, <3>1, <3>2
  <2> QED BY <1>3, <2>1 DEF Written
<1>4. CASE s + Sent(k - 1) <= y
  <2> DEFINE a == s + Sent(k - 1)
             n == y - a + 1
  <2>1. n \in 1 .. Sent(k) - Sent(k - 1) /\ Sent(k - 1) + n = y - s + 1 /\ ~ (y < a)
    BY <1>1, <1>2, <1>4, SMTT(30)
  <2>2. Written(a, b, y) = b[n]
    BY <2>1 DEF Written
  <2>3. b[n] = i[Sent(k - 1) + n]
    <3>1. n \in 1 .. Packets[k]
      BY <2>1, PacketSizes
    <3> HIDE DEF n
    <3> QED BY <3>1, PacketBytes
  <2>4. Filled(i, k)[y] = i[y - s + 1]
    BY <1>1, <1>2, <1>4, FilledIs, SMTT(30)
  <2> QED BY <2>1, <2>2, <2>3, <2>4
<1> QED BY <1>1, <1>2, <1>3, <1>4

Around(i, k, s, a, b, at) ==
  /\ \A y \in Address : at <= y /\ y < s + Sent(k) => Written(a, b, y) = Filled(i, k)[y]
  /\ \A x \in Region(s) : x < at => flash[x] = Filled(i, k)[x]
  /\ \A x \in Region(s) : x >= at + PageLen => flash[x] = Blank

\* What a packet's write leaves of a slot, before the page of its first byte and after it.
LEMMA SlotTaken ==
  ASSUME NEW s \in Slots, addr = s, NEW i \in Images, NEW k \in 1 .. Count,
         NEW b \in Seq(Byte), b = SubSeq(i, Sent(k - 1) + 1, Sent(k)),
         \A x \in Region(s) : flash[x] = Filled(i, k - 1)[x],
         NEW a \in Nat, a = s + Sent(k - 1), a <= Beyond(s),
         NEW at \in Nat, First(s) <= at, at <= a, a < at + PageLen
  PROVE  Around(i, k, s, a, b, at)
<1>1. PICK d \in Nat, e \in Nat : d = Sent(k - 1) /\ e = Sent(k) /\ d <= e
  BY PacketSizes
<1>2. s \in Nat /\ First(s) \in Nat /\ Beyond(s) \in Nat /\ First(s) <= s /\ PageLen \in Nat
  BY SlotSizes, Sizes
<1>3. a = s + d
  BY <1>1
<1>4. Region(s) \subseteq Address /\ \A x \in Region(s) : x \in Int /\ First(s) <= x
  BY <1>2, Apart DEF Region
<1>5. ASSUME NEW y \in Address, First(s) <= y, y < s + e PROVE Written(a, b, y) = Filled(i, k)[y]
  <2>1. y < a => y \in Region(s)
    <3>1. y \in Int
      BY DEF Address
    <3> QED BY <1>2, <1>5, <3>1 DEF Region
  <2>2. y < s + Sent(k - 1) => flash[y] = Filled(i, k - 1)[y]
    BY <2>1
  <2>3. y < s + Sent(k)
    BY <1>1, <1>5
  <2>4. Written(s + Sent(k - 1), b, y) = Filled(i, k)[y]
    BY <2>2, <2>3, PacketFills
  <2> QED BY <2>4
<1>6. ASSUME NEW y \in Address, at <= y, y < s + e PROVE Written(a, b, y) = Filled(i, k)[y]
  <2>1. y \in Int
    BY DEF Address
  <2>2. First(s) <= y
    BY <2>1, <1>2, <1>6
  <2> QED BY <1>5, <1>6, <2>2
<1>7. ASSUME NEW x \in Region(s), x < at PROVE flash[x] = Filled(i, k)[x]
  <2>1. x \in Int /\ x \in Address /\ First(s) <= x
    BY <1>4
  <2>2. x < a /\ x < s + e
    <3>1. x < a
      BY <1>7, <2>1
    <3> QED BY <1>1, <1>2, <1>3, <2>1, <3>1, SMTT(30)
  <2>3. Written(a, b, x) = Filled(i, k)[x]
    BY <1>5, <2>1, <2>2
  <2> QED BY <2>2, <2>3 DEF Written
<1>8. ASSUME NEW x \in Region(s), x >= at + PageLen PROVE flash[x] = Blank
  <2>1. x \in Int /\ x \in Address
    BY <1>4
  <2>2. x >= s + d
    BY <1>2, <1>3, <1>8, <2>1
  <2>3. k - 1 \in 0 .. EndStage /\ k - 1 <= Count
    BY Stage
  <2>4. \A z \in Address : z >= addr + Sent(k - 1) => Filled(i, k - 1)[z] = Blank
    BY <1>2, <2>3, FilledIs
  <2>5. Filled(i, k - 1)[x] = Blank
    BY <1>1, <2>1, <2>2, <2>4
  <2> QED BY <2>5
<1> QED BY <1>1, <1>6, <1>7, <1>8 DEF Around

\* A packet whose bytes go to the end of what has come.
Taken(i, f, k, v, b) ==
  /\ addr \in Slots /\ addr' = addr /\ flash' = flash /\ datalen' = datalen + Packets[k]
  /\ b = SubSeq(i, Sent(k - 1) + 1, Sent(k))
  /\ First(addr) <= addr + datalen /\ addr + datalen + Packets[k] <= Beyond(addr)
  /\ v = 0 => /\ datalen = Sent(k - 1)
               /\ \A x \in Region(addr) : flash[x] = Filled(i, k - 1)[x]
  /\ work' = Append(QSPI_WriteFlashData(addr + datalen, b), Answer("DATA", f + k - 1))

LEMMA PacketWrites ==
  ASSUME Types, NEW i \in Images, NEW f \in Nat, NEW k \in 1 .. Count, NEW v \in Nat,
         NEW b, Taken(i, f, k, v, b)
  PROVE  Writing(i, f, k, v)' /\ IsSeq(work') /\ ~ Switching' /\ ~ Saving'
<1> DEFINE P == PageLen
<1>23. PICK e : e = Answer("DATA", f + k - 1)
  OBVIOUS
<1>0. PICK s \in Slots : s = addr
  BY DEF Taken
<1>1. PICK a : s = addr /\ a = addr + datalen
  BY <1>0
<1>22. PICK at, w : at = a - (a % P) /\ w = QSPI_WriteFlashData(a, b)
  OBVIOUS
<1>2. /\ s \in Nat /\ First(s) \in Nat /\ Beyond(s) \in Nat /\ First(s) <= s /\ Beyond(s) <= FlashLen
      /\ datalen \in Nat /\ a = s + datalen /\ a \in Nat /\ FlashLen \in Nat /\ P \in Nat \ {0}
  BY <1>1, SlotSizes, Sizes DEF Types
<1>20. PICK p \in Nat \ {0} : p = Packets[k]
  BY PacketSizes
<1>3. PICK n0 \in Nat, n1 \in Nat : n0 = Sent(k - 1) /\ n1 = Sent(k) /\ n1 = n0 + p
  BY <1>20, PacketSizes
<1>4. b \in Seq(Byte) /\ Len(b) = p
  BY <1>20, PacketBytes, ZenonT(60) DEF Taken
<1>5. First(s) <= a /\ a + p <= Beyond(s) /\ datalen' = datalen + p
  BY <1>1, <1>20 DEF Taken
<1>6. /\ addr' = s /\ flash' = flash /\ work' = Append(w, e) /\ flash \in Flashes
      /\ v = 0 => /\ datalen = Sent(k - 1)
                   /\ \A x \in Region(s) : flash[x] = Filled(i, k - 1)[x]
  BY <1>1, <1>22, <1>23 DEF Taken, Types, Flashes
<1>21. datalen' \in Nat /\ s + datalen' = a + p /\ a + p <= FlashLen
  BY <1>2, <1>5
<1>7. at \in Nat /\ a % P \in 0 .. P - 1 /\ First(s) <= at /\ at + P <= Beyond(s)
  <2>1. a < Beyond(s) /\ First(s) <= a
    BY <1>2, <1>5
  <2> QED BY <1>2, <1>22, <2>1, PageInSlot
<1>8. at <= a /\ a < at + P /\ at \in First(s) .. Beyond(s)
  BY <1>2, <1>7, <1>22
<1>9. Len(b) # 0 /\ a + Len(b) <= FlashLen /\ a + Len(b) = s + datalen' /\ Len(b) \in Nat
  BY <1>4, <1>21
<1>10. /\ IsSeq(w) /\ Len(w) \in Nat /\ Len(w) >= 2 /\ w[1] = Erase(at, P)
      /\ a + Len(b) <= at + (Len(w) - 1) * P
      /\ \A n \in 1 .. Len(w) - 1 :
           LET x == at + (n - 1) * P
               rest == a + Len(b) - x
           IN \E c \in Seq(Byte) :
                /\ w[n + 1] = Program(x, c)
                /\ rest > 0 /\ Len(c) = IF rest < P THEN rest ELSE P
                /\ \A m \in 1 .. Len(c) : c[m] = Written(a, b, x + m - 1)
  <2>1. Gives(w, at, a, b)
    BY <1>2, <1>4, <1>6, <1>9, <1>22, WriteGives
  <2> QED BY <2>1 DEF Gives
<1>11. e.cmd = "answer" /\ AnswersTo(f, k, e)
  BY <1>23 DEF Answer, AnswersTo
<1>12. /\ IsSeq(work') /\ Len(work') = Len(w) + 1 /\ work' # << >>
      /\ (\A n \in 1 .. Len(w) : work'[n] = w[n]) /\ work'[Len(w) + 1] = e
      /\ ~ Switching' /\ ~ Saving'
  BY <1>10, <1>11, <1>6, Answered
<1>24. PICK t : t = Tail(work')
  OBVIOUS
<1>13. /\ IsSeq(t) /\ Len(t) = Len(w) /\ t[Len(t)] = e
       /\ \A n \in 1 .. Len(w) - 1 : t[n] = w[n + 1]
  <2>1. IsSeq(t) /\ Len(t) = Len(work') - 1 /\ \A n \in 1 .. Len(work') - 1 : t[n] = work'[n + 1]
    BY <1>12, <1>24, SeqTail
  <2>2. Len(t) = Len(w) /\ \A n \in 1 .. Len(w) : t[n] = work'[n + 1]
    BY <1>10, <1>12, <2>1
  <2>3. Len(w) \in 1 .. Len(w) /\ \A n \in 1 .. Len(w) - 1 : n \in 1 .. Len(w) /\ n + 1 \in 1 .. Len(w)
    BY <1>10
  <2> QED BY <1>12, <2>1, <2>2, <2>3
<1>14. ASSUME v = 0
       PROVE  /\ \A y \in Address : at <= y /\ y < a + Len(b) => Written(a, b, y) = Filled(i, k)[y]
              /\ \A x \in Region(s) : x < at => flash[x] = Filled(i, k)[x]
              /\ \A x \in Region(s) : x >= at + PageLen => flash[x] = Blank
  <2>1. a = s + Sent(k - 1) /\ \A x \in Region(s) : flash[x] = Filled(i, k - 1)[x]
    BY <1>2, <1>14, <1>6
  <2>2. a + Len(b) = s + Sent(k)
    <3>1. a = s + n0 /\ Len(b) = p /\ n1 = n0 + p
      BY <1>3, <1>4, <2>1
    <3>2. a + p = s + n1
      BY <1>2, <3>1
    <3> QED BY <1>3, <3>1, <3>2
  <2>3. a <= Beyond(s)
    BY <1>2, <1>5
  <2>4. b = SubSeq(i, Sent(k - 1) + 1, Sent(k)) /\ addr = s
    BY <1>1 DEF Taken
  <2>5. at \in Nat /\ First(s) <= at /\ at <= a /\ a < at + PageLen
    BY <1>7, <1>8
  <2>6. a \in Nat /\ b \in Seq(Byte)
    BY <1>2, <1>4
  <2>7. Around(i, k, s, a, b, at)
    BY <2>1, <2>3, <2>4, <2>5, <2>6, SlotTaken
  <2> QED BY <2>2, <2>7 DEF Around
<1>15. Filled(i, k)' = Filled(i, k)
  BY <1>1, <1>6 DEF Filled
<1>16. ASSUME NEW n \in 1 .. Len(t) - 1
       PROVE  /\ PageAt(t[n], at + (n - 1) * P)'
              /\ v = 0 => \A m \in 1 .. Len(t[n].bytes) : t[n].bytes[m] = Filled(i, k)'[at + (n - 1) * P + m - 1]
  <2> DEFINE x == at + (n - 1) * P
             rest == a + Len(b) - x
  <2>1. n \in 1 .. Len(w) - 1
    BY <1>13
  <2>2. PICK c \in Seq(Byte) :
          /\ w[n + 1] = Program(x, c)
          /\ rest > 0 /\ Len(c) = IF rest < P THEN rest ELSE P
          /\ \A m \in 1 .. Len(c) : c[m] = Written(a, b, x + m - 1)
    BY <1>10, <2>1
  <2>3. t[n] = Program(x, c)
    BY <1>13, <2>1, <2>2
  <2> DEFINE d == t[n]
  <2>4. d.cmd = "program" /\ d.at = x /\ d.bytes = c
    <3> HIDE DEF d, x
    <3>1. d = Program(x, c)
      BY <2>3 DEF d
    <3> QED BY <3>1 DEF Program
  <2>5. (n - 1) * P \in Nat /\ x \in Nat /\ at <= x /\ rest = s + datalen' - x
    <3>1. (n - 1) * P \in Nat
      BY <1>2, <1>10, <2>1
    <3>2. PICK z \in Nat : z = (n - 1) * P
      BY <3>1
    <3>3. at + z \in Nat /\ at <= at + z
      BY <3>2, <1>7
    <3>4. x \in Nat /\ at <= x
      BY <3>2, <3>3
    <3>5. rest = s + datalen' - x
      <4>1. PICK l \in Nat, j \in Nat : l = Len(b) /\ j = datalen' /\ a + l = s + j
        BY <1>9, <1>21
      <4>2. PICK m \in Nat, o \in Nat, y \in Nat : m = a /\ o = s /\ y = x
        BY <1>2, <3>4
      <4>3. m + l - y = o + j - y
        <5>1. m + l = o + j
          BY <4>1, <4>2
        <5> QED BY <5>1
      <4> QED BY <4>1, <4>2, <4>3
    <3> QED BY <3>1, <3>4, <3>5
  <2> HIDE DEF x
  <2>6. PageAt(t[n], x)'
    <3>1. rest > 0 /\ d.bytes \in Seq(Byte) /\ Len(d.bytes) = IF rest < P THEN rest ELSE P
      BY <2>2, <2>4
    <3> HIDE DEF d, rest
    <3>2. addr' + datalen' - x = rest
      BY <2>5, <1>6
    <3>3. PICK z : z = t[n]
      OBVIOUS
    <3>4. z.cmd = "program" /\ z.at = x /\ z.bytes \in Seq(Byte) /\ Len(z.bytes) = IF rest < P THEN rest ELSE P
      BY <2>4, <3>1, <3>3 DEF d
    <3> HIDE DEF P
    <3>5. PageAt(z, x)'
      BY <3>1, <3>2, <3>4 DEF PageAt, P
    <3> QED BY <3>3, <3>5
  <2>7. ASSUME v = 0, NEW m \in 1 .. Len(c) PROVE c[m] = Filled(i, k)[x + m - 1]
    <3> DEFINE y == x + m - 1
    <3>1. Len(c) \in Nat /\ Len(c) <= a + Len(b) - x
      <4>1. rest \in Int /\ Len(c) \in Nat
        BY <1>2, <1>9, <2>5
      <4> HIDE DEF rest
      <4>2. Len(c) <= rest
        BY <1>2, <2>2, <4>1
      <4> QED BY <4>1, <4>2 DEF rest
    <3>2. y \in Nat /\ at <= y /\ y < a + Len(b)
      <4>1. m \in Nat /\ 1 <= m /\ m <= Len(c) /\ x \in Nat /\ at <= x /\ at \in Nat
        BY <3>1, <2>5, <1>7
      <4>2. a \in Nat /\ Len(b) \in Nat
        BY <1>2, <1>9
      <4> QED BY <3>1, <4>1, <4>2
    <3>3. y \in Address
      BY <3>2, <1>2, <1>4, <1>9, SMTT(30) DEF Address
    <3> HIDE DEF y
    <3>4. Written(a, b, y) = Filled(i, k)[y]
      BY <1>14, <2>7, <3>2, <3>3
    <3> QED BY <2>2, <3>4 DEF y
  <2> QED BY <1>15, <2>4, <2>6, <2>7 DEF x
<1>17. Pages(i, f, k, v, Tail(work), at)'
  <2>1. Len(t) >= 1 /\ AnswersTo(f, k, t[Len(t)]) /\ addr' + datalen' <= at + (Len(t) - 1) * P
    <3>1. Len(t) >= 1 /\ AnswersTo(f, k, t[Len(t)])
      BY <1>10, <1>11, <1>13
    <3>2. s + datalen' <= at + (Len(w) - 1) * P
      BY <1>9, <1>10
    <3> QED BY <3>1, <3>2, <1>13, <1>6
  <2>2. \A n \in 1 .. Len(t) - 1 :
          /\ PageAt(t[n], at + (n - 1) * PageLen)'
          /\ v = 0 => \A m \in 1 .. Len(t[n].bytes) :
               t[n].bytes[m] = Filled(i, k)'[at + (n - 1) * PageLen + m - 1]
    BY <1>16
  <2> QED BY <2>1, <2>2, <1>24 DEF Pages
<1>18. work'[1] = Erase(at, P)
  BY <1>10, <1>12
<1>19. Writing(i, f, k, v)'
  <2>1. addr' \in Slots /\ k \in 1 .. Count
    BY <1>6
  <2>2. v = 0 => \A x \in Region(addr') :
          /\ x < at => flash'[x] = Filled(i, k)'[x]
          /\ x >= at + PageLen => flash'[x] = Blank
    BY <1>14, <1>15, <1>6
  <2>3. at \in First(addr') .. Beyond(addr') + PageLen /\ at + PageLen <= Beyond(addr')
    <3>1. at \in First(s) .. Beyond(s) + PageLen
      <4>1. First(s) \in Nat /\ Beyond(s) \in Nat /\ PageLen \in Nat /\ at \in Nat
        BY <1>2, <1>7
      <4> QED BY <4>1, <1>8
    <3> QED BY <3>1, <1>6, <1>7
  <2> QED BY <2>1, <2>2, <2>3, <1>12, <1>17, <1>18 DEF Writing
<1> QED BY <1>12, <1>19

LEMMA OnDataKeeps ==
  ASSUME Types, NEW i \in Images, NEW f \in Nat, NEW h \in -1 .. ResetStage, NEW u \in Nat,
         Update(i, f, h, u), Bt_SPPCallBack, OnData
  PROVE  /\ \E k \in 1 .. Count, v \in Nat : Update(i, f, k, v)'
         /\ Types' /\ ~ Saving'
<1>1. /\ up /\ work = << >> /\ received # << >> /\ Settled(i, f, h, u) /\ Pointer \in Slots
      /\ u + 1 <= MaxRepeats + 2
      /\ UNCHANGED << up, phone, repeats, flash >>
  BY MessageHandled
<1>2. PICK k \in (0 .. ResetStage) \cap {h, h + 1, ResetStage} :
        /\ Head(received) = Said(i, f, k)
        /\ \A v \in Nat : v <= u + 1 /\ (k # h => v <= u) /\ Counts(f, k, v)' /\ ~ Switching'
             => Protocol(i, f, k, v)'
  BY MessageHandled
<1> DEFINE m == Head(received)
           b == SubSeq(i, Sent(k - 1) + 1, Sent(k))
<1>3. k \in 1 .. Count /\ m.id = f + k - 1 /\ m.bytes = b /\ h \in {k - 1, k}
  <2>1. k \in 0 .. ResetStage /\ Said(i, f, k).evt = "DATA" /\ m = Said(i, f, k)
    BY <1>2 DEF OnData
  <2>2. k \in 1 .. Count
    BY <2>1, SaidIs
  <2>3. Said(i, f, k).id = f + k - 1 /\ Said(i, f, k).bytes = b
    BY <2>1, <2>2, SaidIs
  <2>4. h \in {k - 1, k}
    BY <2>2, <1>2, Stage
  <2> QED BY <2>1, <2>2, <2>3, <2>4
<1>4. IF Follows(m.id)
      THEN /\ packetid' = m.id
           /\ datalen' = datalen + Len(m.bytes)
           /\ work' = Append(QSPI_WriteFlashData(addr + datalen, m.bytes), Answer("DATA", m.id))
      ELSE UNCHANGED << packetid, datalen, work >>
  BY DEF OnData, Doing
<1>5. UNCHANGED << addr, datasum, armed >>
  BY DEF OnData
<1> HIDE DEF m, b
<1>6. /\ up /\ ~ armed /\ ~ Switching /\ addr \in Slots
      /\ packetid = (IF h = 0 THEN 0 ELSE f + h - 1)
      /\ datalen = Sent(h) + u * Packets[1] /\ (u > 0 => h >= 1 /\ f = 0)
      /\ addr # Pointer /\ h \in 0 .. Count
  <2>1. h \in 0 .. Count
    BY <1>3, Stage
  <2>2. Counts(f, h, u)
    BY DEF Update, Protocol
  <2>3. h >= 0
    BY <2>1
  <2> QED BY <2>1, <2>2, <2>3 DEF Counts
<1>7. /\ Sent(h) \in Nat /\ Sent(k - 1) \in Nat /\ Sent(k) \in Nat /\ Sent(k) <= ImageLen /\ Sent(h) <= ImageLen
      /\ Sent(k) = Sent(k - 1) + Packets[k] /\ Packets[k] \in Nat \ {0}
      /\ Packets[1] \in Nat \ {0} /\ Count \in Nat /\ h \in 0 .. Count /\ Sent(0) = 0
  BY <1>3, <1>6, SentSteps, Sizes
<1>8. Len(b) = Packets[k]
  <2>1. i \in Seq(Byte) /\ Len(i) = ImageLen
    BY OtaAssumption
  <2>2. Len(b) = Sent(k) - Sent(k - 1)
    BY <1>7, <2>1, SubSeqIs, SMTT(30) DEF b
  <2> QED BY <1>7, <2>2
<1>9. Pointer' = Pointer
  BY <1>1, PointerKept
<1>10. CASE ~ Follows(m.id)
  <2>1. UNCHANGED << packetid, datalen, work >> /\ k = h
    <3>1. k = h + 1 => Follows(m.id)
      BY <1>3, <1>6 DEF Follows
    <3> QED BY <3>1, <1>3, <1>4, <1>10
  <2>2. ~ Switching' /\ ~ Saving' /\ IsSeq(work')
    BY <1>1, <2>1, NothingLeft
  <2>3. Counts(f, k, u)'
    BY <1>1, <1>3, <1>5, <1>6, <1>9, <2>1, <2>2, Stage DEF Counts
  <2>4. Protocol(i, f, k, u)'
    BY <1>2, <2>2, <2>3
  <2>5. Settled(i, f, k, u)'
    <3>1. Filled(i, h)' = Filled(i, h)
      BY <1>5, <2>1 DEF Filled
    <3> QED BY <1>1, <1>5, <2>1, <3>1 DEF Settled
  <2>6. Types'
    BY <1>1, <1>5, <2>1, <2>2 DEF Types
  <2>7. Update(i, f, k, u)'
    BY <2>4, <2>5 DEF Update
  <2> QED BY <1>3, <2>2, <2>6, <2>7
<1>11. CASE Follows(m.id)
  <2> DEFINE v == IF k = h THEN u + 1 ELSE u
  <2>1. v \in Nat /\ v <= u + 1 /\ (k # h => v = u) /\ (k = h => v = u + 1) /\ v <= MaxRepeats + 2
    <3>1. u + 1 <= MaxRepeats + 2 /\ MaxRepeats \in Nat
      BY <1>1, Sizes
    <3>2. u + 1 \in Nat /\ u <= u + 1 /\ u <= MaxRepeats + 2
      BY <3>1
    <3>3. CASE k = h
      BY <3>1, <3>2, <3>3
    <3>4. CASE k # h
      BY <3>2, <3>4
    <3> QED BY <3>3, <3>4
  <2>2. k = h => k = 1 /\ f = 0
    <3> SUFFICES ASSUME k = h PROVE k = 1 /\ f = 0
      OBVIOUS
    <3>1. packetid = m.id /\ packetid = f + k - 1
      BY <1>3, <1>6
    <3>2. packetid = 0
      BY <1>11, <3>1, <1>3 DEF Follows
    <3> QED BY <1>3, <3>1, <3>2
  <2>3. /\ packetid' = f + k - 1 /\ datalen' = datalen + Packets[k]
        /\ work' = Append(QSPI_WriteFlashData(addr + datalen, b), Answer("DATA", f + k - 1))
    BY <1>3, <1>4, <1>8, <1>11
  <2> HIDE DEF v
  <2>12. PICK p1 \in Nat, d \in Nat : p1 = Packets[1] /\ d = u * p1 /\ (u + 1) * p1 = d + p1
    <3>1. PICK p1 \in Nat : p1 = Packets[1]
      BY <1>7
    <3>2. u * p1 \in Nat /\ (u + 1) * p1 = u * p1 + p1
      OBVIOUS
    <3> QED BY <3>1, <3>2
  <2>13. PICK x0 \in Nat, y0 \in Nat, z0 \in Nat :
           x0 = Sent(h) /\ y0 = Sent(k) /\ z0 = Packets[k] /\ y0 = Sent(k - 1) + z0
    BY <1>7
  <2>4. datalen' = Sent(k) + v * Packets[1]
    <3>1. datalen = x0 + d
      BY <1>6, <2>12, <2>13
    <3>2. datalen' = x0 + d + z0
      BY <2>3, <2>13, <3>1
    <3>3. CASE k = h
      <4>1. x0 = y0 /\ z0 = p1 /\ v * p1 = d + p1
        BY <3>3, <2>1, <2>2, <2>12, <2>13
      <4>2. datalen' = y0 + v * p1
        BY <3>2, <4>1
      <4> QED BY <4>2, <2>12, <2>13
    <3>4. CASE k # h
      <4>1. h = k - 1 /\ v * p1 = d
        BY <1>3, <3>4, <2>1, <2>12
      <4>2. y0 = x0 + z0
        BY <2>13, <4>1
      <4>3. datalen' = y0 + v * p1
        BY <3>2, <4>1, <4>2
      <4> QED BY <4>3, <2>12, <2>13
    <3> QED BY <3>3, <3>4
  <2>5. /\ First(addr) <= addr + datalen /\ addr + datalen + Packets[k] <= Beyond(addr)
    <3>1. /\ Sent(k) + v * Packets[1] \in Nat
          /\ addr + (Sent(k) + v * Packets[1]) <= Beyond(addr)
      BY <1>6, <1>7, <2>1, Room
    <3>2. /\ addr \in Nat /\ First(addr) \in Nat /\ Beyond(addr) \in Nat /\ datalen \in Nat /\ First(addr) <= addr
      BY <1>6, SlotSizes DEF Types
    <3>3. PICK g \in Nat : g = Sent(k) + v * Packets[1] /\ datalen' = g
      BY <2>4, <3>1
    <3>4. g = datalen + z0 /\ addr + g <= Beyond(addr)
      BY <2>3, <2>13, <3>1, <3>3
    <3>5. addr + datalen + z0 <= Beyond(addr) /\ First(addr) <= addr + datalen
      BY <3>2, <3>4
    <3> QED BY <2>13, <3>5
  <2>6. v = 0 => /\ datalen = Sent(k - 1)
                 /\ \A x \in Region(addr) : flash[x] = Filled(i, k - 1)[x]
    <3> SUFFICES ASSUME v = 0 PROVE /\ datalen = Sent(k - 1)
                                    /\ \A x \in Region(addr) : flash[x] = Filled(i, k - 1)[x]
      OBVIOUS
    <3>1. k # h /\ u = 0
      BY <2>1
    <3>2. h = k - 1 /\ datalen = Sent(k - 1)
      BY <3>1, <1>3, <1>6, <1>7
    <3> QED BY <3>1, <3>2, <1>1, <1>6 DEF Settled
  <2>7. Writing(i, f, k, v)' /\ IsSeq(work') /\ ~ Switching' /\ ~ Saving'
    BY <1>1, <1>3, <1>5, <1>6, <2>1, <2>3, <2>5, <2>6, PacketWrites DEF Taken, b
  <2>8. Counts(f, k, v)'
    <3>1. v > 0 => k >= 1 /\ f = 0
      BY <2>1, <2>2, <1>3, <1>6 DEF v
    <3>2. k \in 0 .. Count /\ k # 0 /\ k >= 0 /\ k # -1 /\ k # EndStage /\ k # ResetStage
      BY <1>3, Stage
    <3> QED BY <3>1, <3>2, <1>1, <1>5, <1>6, <1>9, <2>3, <2>4, <2>7 DEF Counts
  <2>9. Protocol(i, f, k, v)'
    BY <1>2, <2>1, <2>7, <2>8
  <2>10. Types'
    <3>1. packetid' \in Nat
      BY <1>3, <2>3
    <3>2. datalen \in Nat
      BY DEF Types
    <3>3. datalen' \in Nat
      BY <2>3, <2>13, <3>2, SMTT(30)
    <3> QED BY <3>1, <3>3, <1>1, <1>5, <2>7 DEF Types
  <2>11. Update(i, f, k, v)'
    BY <2>7, <2>9 DEF Update
  <2> QED BY <1>3, <2>1, <2>7, <2>10, <2>11
<1> QED BY <1>10, <1>11

LEMMA MessageKeeps ==
  ASSUME Types, NEW i \in Images, NEW f \in Nat, NEW h \in -1 .. ResetStage, NEW u \in Nat,
         Update(i, f, h, u), Bt_SPPCallBack
  PROVE  /\ \E k \in -1 .. ResetStage, v \in Nat : Update(i, f, k, v)'
         /\ Types' /\ ~ Saving' /\ flash' = flash
<1>1. flash' = flash
  BY DEF Bt_SPPCallBack
<1>2. 0 \in -1 .. ResetStage /\ EndStage \in -1 .. ResetStage /\ ResetStage \in -1 .. ResetStage
      /\ \A k \in 1 .. Count : k \in -1 .. ResetStage
  BY Stage
<1>3. CASE OnStart
  BY <1>1, <1>2, <1>3, OnStartKeeps
<1>4. CASE OnData
  BY <1>1, <1>2, <1>4, OnDataKeeps
<1>5. CASE OnEnd
  BY <1>1, <1>2, <1>5, OnEndKeeps
<1>6. CASE OnReset
  BY <1>1, <1>2, <1>6, OnResetKeeps
<1> QED BY <1>3, <1>4, <1>5, <1>6 DEF Bt_SPPCallBack
-----------------------------------------------------------------------------
(* What a command to the flash may change. *)

RecordSector == RecordBase .. RecordBase + SectorLen - 1
PointerSector == 0 .. SectorLen - 1

Only(X) == flash' \in Flashes /\ \A x \in Address \ X : flash'[x] = flash[x]

LEMMA OnlySubset ==
  ASSUME NEW X, NEW Y, X \subseteq Y, Only(X)
  PROVE  Only(Y)
  BY DEF Only

LEMMA OnlyRecord ==
  ASSUME Only(RecordSector)
  PROVE  /\ Pointer' = Pointer
         /\ \A s \in Slots : \A x \in Region(s) : flash'[x] = flash[x]
<1>1. /\ SectorLen \in Nat /\ SectorLen <= FlashLen /\ FlashLen \in Nat /\ PointerLen <= SectorLen
      /\ RecordBase \in Nat /\ SectorLen <= RecordBase /\ PointerLen \in Nat
  BY RecordSizes, Apart, Sizes DEF PointerLen
<1>2. \A x \in 0 .. PointerLen - 1 : x \in Address /\ x \notin RecordSector
  BY <1>1 DEF Address, RecordSector
<1>3. Pointer' = Pointer
  BY <1>2, PointerKept DEF Only
<1>4. \A s \in Slots : \A x \in Region(s) : x \in Address /\ x \notin RecordSector
  BY Apart DEF RecordSector
<1> QED BY <1>3, <1>4 DEF Only

LEMMA OnlySlot ==
  ASSUME NEW s \in Slots, Only(Region(s))
  PROVE  /\ Pointer' = Pointer
         /\ \A x \in RecordSector : flash'[x] = flash[x]
         /\ \A t \in Slots \ {s} : \A x \in Region(t) : flash'[x] = flash[x]
<1>1. /\ SectorLen \in Nat /\ SectorLen <= FlashLen /\ FlashLen \in Nat /\ PointerLen <= SectorLen
      /\ RecordBase \in Nat /\ PointerLen \in Nat /\ RecordBase + SectorLen <= FlashLen
  BY RecordSizes, Apart, Sizes DEF PointerLen
<1>2. \A x \in 0 .. PointerLen - 1 : x \in Address /\ x \in 0 .. SectorLen - 1
  BY <1>1 DEF Address
<1>3. Pointer' = Pointer
  BY <1>2, Apart, PointerKept DEF Only
<1>4. \A x \in RecordSector : x \in Address /\ x \notin Region(s)
  BY <1>1, Apart DEF RecordSector, Address
<1>5. \A t \in Slots \ {s} : \A x \in Region(t) : x \in Address /\ x \notin Region(s)
  BY Apart
<1> QED BY <1>3, <1>4, <1>5 DEF Only

LEMMA OnlyPointer ==
  ASSUME Only(PointerSector)
  PROVE  /\ \A x \in RecordSector : flash'[x] = flash[x]
         /\ \A s \in Slots : \A x \in Region(s) : flash'[x] = flash[x]
<1>1. /\ SectorLen \in Nat /\ FlashLen \in Nat /\ RecordBase \in Nat /\ RecordBase + SectorLen <= FlashLen
  BY RecordSizes, Sizes
<1>2. \A x \in RecordSector : x \in Address /\ x \notin PointerSector
  BY <1>1, Apart DEF RecordSector, PointerSector, Address
<1>3. \A s \in Slots : \A x \in Region(s) : x \in Address /\ x \notin PointerSector
  BY Apart DEF PointerSector
<1> QED BY <1>2, <1>3 DEF Only

\* A command done, or broken off by a power failure.
LEMMA OnlyTouched ==
  ASSUME flash \in Flashes, work # << >>, IsCommand(Head(work)),
         flash' = Done(flash, Head(work)) \/ flash' \in Left,
         NEW X, Touched(Head(work)) \subseteq X
  PROVE  Only(X)
<1>1. CASE flash' = Done(flash, Head(work))
  BY <1>1, DoneOutside DEF Only
<1>2. CASE flash' \in Left
  <2>1. flash' = flash \/ (flash' \in Flashes /\ \A x \in Address \ Touched(Head(work)) : flash'[x] = flash[x])
    BY <1>2, LeftOutside
  <2> QED BY <2>1 DEF Only
<1> QED BY <1>1, <1>2

LEMMA UpTo ==
  ASSUME Types, NEW i, NEW f, NEW h \in Int, NEW u \in Nat, Protocol(i, f, h, u)
  PROVE  u <= MaxRepeats + 2
<1>1. repeats \in 0 .. MaxRepeats /\ MaxRepeats \in Nat /\ Len(received) \in Nat
  BY Sizes, SeqEmpty DEF Types, Protocol
<1>2. PICK ks : Talks(i, f, h, u, ks)
  BY DEF Protocol
<1>3. CASE u + Len(received) <= repeats + 2
  BY <1>1, <1>3
<1>4. ASSUME NEW c \in {h, h + 1}, u + Len(received) <= repeats + c - h PROVE u <= MaxRepeats + 2
  <2>1. c - h \in {0, 1}
    BY <1>4
  <2>2. repeats + c - h = repeats + (c - h)
    BY <1>1
  <2>3. u + Len(received) <= repeats + 1
    BY <1>1, <1>4, <2>1, <2>2
  <2> QED BY <1>1, <2>3
<1> QED BY <1>2, <1>3, <1>4 DEF Talks

LEMMA SaveErases ==
  ASSUME NEW j \in 0 .. SaveLen - 1, Saves(j), IsFlash(work[1])
  PROVE  \/ j = DataLen + 1 /\ work[1] = Erase(RecordBase, SectorLen)
         \/ j = DataLen + 2 /\ work[1] = Erase(RecordBase, PageLen)
<1>1. DataLen \in Nat /\ SaveLen = 2 * DataLen + 6 /\ 1 \in 1 .. SaveLen - j
  BY SaveLens
<1>2. work[1] = SaveCommand(j + 1)
  BY <1>1 DEF Saves
<1> DEFINE n == j + 1
<1>3. CASE n \in 1 .. DataLen
  <2>1. work[1].cmd = "add"
    BY <1>2, <1>3, SaveCommands DEF Add
  <2> QED BY <2>1 DEF IsFlash
<1>4. CASE n = DataLen + 1
  <2>1. work[1] = StoreSum
    BY <1>2, <1>4, SaveCommands
  <2>2. StoreSum.cmd = "store"
    BY DEF StoreSum
  <2> QED BY <2>1, <2>2 DEF IsFlash
<1>5. CASE n \in DataLen + 4 .. SaveLen - 1
  <2>1. work[1].cmd = "copy"
    BY <1>2, <1>5, SaveCommands DEF Copy
  <2> QED BY <2>1 DEF IsFlash
<1>6. CASE n = SaveLen
  <2>1. work[1].cmd = "write"
    BY <1>2, <1>6, SaveCommands DEF Write
  <2> QED BY <2>1 DEF IsFlash
<1>7. n \in 1 .. DataLen \/ n = DataLen + 1 \/ n = DataLen + 2 \/ n = DataLen + 3
        \/ n \in DataLen + 4 .. SaveLen - 1 \/ n = SaveLen
  BY <1>1
<1>8. CASE n = DataLen + 2
  BY <1>1, <1>2, <1>8, SaveCommands
<1>9. CASE n = DataLen + 3
  BY <1>1, <1>2, <1>9, SaveCommands
<1> QED BY <1>3, <1>4, <1>5, <1>6, <1>7, <1>8, <1>9

\* A save writes to the record's sector.
LEMMA SaveTouches ==
  ASSUME Types, handed \in [1 .. RecordLen -> Byte], Saving, IsFlash(Head(work))
  PROVE  IsCommand(Head(work)) /\ Touched(Head(work)) \subseteq RecordSector
<1>1. Head(work) = work[1] /\ IsSeq(work)
  BY SavingEnds, SeqTail DEF Types
<1>2. /\ RecordBase \in Nat /\ RecordLen \in Nat /\ RecordLen <= SectorLen /\ PageLen <= SectorLen
      /\ SectorLen \in Nat /\ PageLen \in Nat
  BY RecordSizes, Sizes
<1>3. CASE ProgramsRecord
  <2>1. work[1] = Program(RecordBase, handed) /\ handed \in Seq(Byte) /\ Len(handed) = RecordLen
    BY <1>2, <1>3 DEF ProgramsRecord
  <2>2. work[1].cmd = "program" /\ work[1].at = RecordBase /\ work[1].bytes = handed
    BY <2>1 DEF Program
  <2> QED BY <1>1, <1>2, <2>1, <2>2, SMTT(30) DEF IsCommand, Touched, RecordSector
<1>4. ASSUME NEW j \in 0 .. SaveLen - 1, Saves(j)
      PROVE  IsCommand(work[1]) /\ Touched(work[1]) \subseteq RecordSector
  <2>1. work[1] = Erase(RecordBase, SectorLen) \/ work[1] = Erase(RecordBase, PageLen)
    BY <1>1, <1>4, SaveErases
  <2>2. work[1].cmd = "erase" /\ work[1].at = RecordBase /\ work[1].len \in {SectorLen, PageLen}
    BY <2>1 DEF Erase
  <2> QED BY <1>2, <2>2 DEF IsCommand, Touched, RecordSector
<1> QED BY <1>1, <1>3, <1>4 DEF Saving

\* START erases in the slot.
LEMMA WipeTouches ==
  ASSUME Types, NEW f, NEW h, addr \in Slots, NEW at \in First(addr) .. Beyond(addr), Wipes(f, h, at),
         IsFlash(Head(work)), work # << >>
  PROVE  /\ Head(work) = Erase(at, SectorLen) /\ IsCommand(Head(work)) /\ Len(work) >= 2
         /\ at \in Nat /\ at + SectorLen <= Beyond(addr)
         /\ Touched(Head(work)) \subseteq Region(addr)
<1>1. Head(work) = work[1] /\ Len(work) \in Nat /\ Len(work) >= 1
  BY SeqTail DEF Types
<1>2. First(addr) \in Nat /\ Beyond(addr) \in Nat /\ SectorLen \in Nat \ {0}
  BY SlotSizes, Sizes
<1>3. Len(work) # 1
  BY <1>1 DEF Wipes, AnswersTo, IsFlash
<1>4. PICK l \in Nat : l = Len(work) - 1 /\ l >= 1
  BY <1>1, <1>3
<1>5. at + l * SectorLen = Beyond(addr) /\ 1 \in 1 .. l
  BY <1>4 DEF Wipes
<1>6. work[1] = Erase(at + (1 - 1) * SectorLen, SectorLen)
  BY <1>4, <1>5 DEF Wipes
<1>7. at + (1 - 1) * SectorLen = at /\ at \in Nat /\ First(addr) <= at
  BY <1>2
<1>8. l * SectorLen >= SectorLen
  BY <1>2, <1>4
<1>9. at + SectorLen <= Beyond(addr)
  <2>1. PICK z \in Nat : z = l * SectorLen
    BY <1>2
  <2> QED BY <1>2, <1>5, <1>7, <1>8, <2>1
<1>10. work[1] = Erase(at, SectorLen)
  BY <1>6, <1>7
<1>11. work[1].cmd = "erase" /\ work[1].at = at /\ work[1].len = SectorLen
  BY <1>10 DEF Erase
<1>12. at .. at + SectorLen - 1 \subseteq Region(addr)
  BY <1>2, <1>7, <1>9 DEF Region
<1>13. IsCommand(work[1]) /\ Touched(work[1]) = at .. at + SectorLen - 1
  BY <1>2, <1>7, <1>11 DEF IsCommand, Touched
<1>14. Len(work) >= 2
  <2>1. PICK m \in Nat : m = Len(work)
    BY <1>1
  <2>2. l = m - 1 /\ l >= 1
    BY <1>4, <2>1
  <2>3. m >= 2
    BY <2>2
  <2> QED BY <2>1, <2>3
<1>15. Head(work) = work[1]
  BY <1>1
<1>16. at \in Nat
  BY <1>7
<1> QED BY <1>9, <1>10, <1>12, <1>13, <1>14, <1>15, <1>16

\* A packet's write stays in the slot.
LEMMA EndInSlot ==
  ASSUME Types, NEW i, NEW f, NEW h \in 0 .. Count, NEW u \in Nat, Protocol(i, f, h, u)
  PROVE  /\ addr \in Slots /\ addr \in Nat /\ datalen \in Nat
         /\ addr + datalen <= Beyond(addr) /\ datalen = Sent(h) + u * Packets[1]
<1>1. addr \in Slots /\ datalen = Sent(h) + u * Packets[1]
  <2>1. h \in 0 .. Count
    OBVIOUS
  <2> QED BY <2>1 DEF Protocol, Counts
<1>2. Sent(h) \in Nat /\ Sent(h) <= ImageLen
  BY SentSteps
<1>3. u <= MaxRepeats + 2
  BY UpTo
<1>4. addr + (Sent(h) + u * Packets[1]) <= Beyond(addr)
  BY <1>1, <1>2, <1>3, Room
<1> QED BY <1>1, <1>4, SlotSizes DEF Types

LEMMA WriteTouches ==
  ASSUME Types, NEW i, NEW f, NEW h \in 1 .. Count, NEW u \in Nat, Protocol(i, f, h, u),
         NEW at \in First(addr) .. Beyond(addr) + PageLen, Pages(i, f, h, u, work, at),
         IsFlash(Head(work)), work # << >>
  PROVE  /\ PageAt(Head(work), at) /\ IsCommand(Head(work)) /\ Len(work) >= 2
         /\ addr \in Slots /\ at \in Nat
         /\ at + Len(Head(work).bytes) <= addr + datalen
         /\ Touched(Head(work)) \subseteq Region(addr)
<1>1. Head(work) = work[1] /\ Len(work) \in Nat /\ Len(work) >= 1
  BY SeqTail DEF Types
<1>2. h \in 0 .. Count
  BY Stage
<1>3. addr \in Slots /\ addr \in Nat /\ datalen \in Nat /\ addr + datalen <= Beyond(addr)
  BY <1>2, EndInSlot
<1>4. First(addr) \in Nat /\ Beyond(addr) \in Nat /\ PageLen \in Nat \ {0}
  BY <1>3, SlotSizes, Sizes
<1>5. Len(work) # 1
  BY <1>1 DEF Pages, AnswersTo, IsFlash
<1>6. 1 \in 1 .. Len(work) - 1 /\ at + (1 - 1) * PageLen = at /\ at \in Nat /\ First(addr) <= at
  <2>1. 1 \in 1 .. Len(work) - 1
    BY <1>1, <1>5, SMTT(30)
  <2>2. at \in Nat /\ First(addr) <= at
    BY <1>4
  <2>3. (1 - 1) * PageLen = 0
    BY <1>4
  <2> QED BY <2>1, <2>2, <2>3
<1>7. PageAt(work[1], at + (1 - 1) * PageLen)
  BY <1>6 DEF Pages
<1>8. PageAt(work[1], at)
  BY <1>6, <1>7
<1> DEFINE b == work[1].bytes
<1>9. /\ work[1].cmd = "program" /\ work[1].at = at /\ b \in Seq(Byte) /\ addr + datalen - at > 0
      /\ Len(b) = IF addr + datalen - at < PageLen THEN addr + datalen - at ELSE PageLen
  BY <1>8 DEF PageAt
<1>10. PICK l \in Nat, e \in Nat : l = Len(b) /\ e = addr + datalen
  BY <1>3, <1>9
<1>11. addr + datalen - at = e - at
  BY <1>3, <1>6, <1>10
<1>12. at + l <= e /\ e <= Beyond(addr)
  BY <1>3, <1>4, <1>6, <1>9, <1>10, <1>11
<1>13. IsCommand(work[1]) /\ Touched(work[1]) = at .. at + l - 1
  BY <1>6, <1>9, <1>10 DEF IsCommand, Touched
<1>14. at .. at + l - 1 \subseteq Region(addr)
  BY <1>4, <1>6, <1>12 DEF Region
<1> QED BY <1>1, <1>3, <1>5, <1>6, <1>8, <1>10, <1>12, <1>13, <1>14, SMTT(30)

LEMMA PageEraseTouches ==
  ASSUME Types, addr \in Slots, NEW at \in First(addr) .. Beyond(addr) + PageLen, work # << >>,
         work[1] = Erase(at, PageLen), at + PageLen <= Beyond(addr)
  PROVE  /\ Head(work) = Erase(at, PageLen) /\ IsCommand(Head(work)) /\ at \in Nat
         /\ Touched(Head(work)) \subseteq Region(addr)
<1>1. Head(work) = work[1]
  BY SeqTail DEF Types
<1>2. First(addr) \in Nat /\ Beyond(addr) \in Nat /\ PageLen \in Nat \ {0}
  BY SlotSizes, Sizes
<1>3. work[1].cmd = "erase" /\ work[1].at = at /\ work[1].len = PageLen
  BY DEF Erase
<1>4. at \in Nat /\ at .. at + PageLen - 1 \subseteq Region(addr)
  BY <1>2 DEF Region
<1>5. IsCommand(work[1]) /\ Touched(work[1]) = at .. at + PageLen - 1
  BY <1>2, <1>3, <1>4 DEF IsCommand, Touched
<1> QED BY <1>1, <1>4, <1>5

\* The switch erases the record, then writes to the sector of the pointer.
LEMMA SwitchTouches ==
  ASSUME Types, NEW j \in 0 .. 4, Switches(j), addr \in Slots, work # << >>, IsFlash(Head(work))
  PROVE  /\ Head(work) = SwitchCommand(j + 1) /\ j \in 0 .. 3 /\ IsCommand(Head(work))
         /\ j = 0 => Touched(Head(work)) \subseteq RecordSector
         /\ j # 0 => Touched(Head(work)) \subseteq PointerSector
<1>1. Head(work) = work[1] /\ 1 \in 1 .. 5 - j
  BY SeqTail DEF Types
<1>2. work[1] = SwitchCommand(j + 1)
  BY <1>1 DEF Switches
<1>3. /\ RecordBase \in Nat /\ SectorLen \in Nat /\ PageLen \in Nat /\ PageLen <= SectorLen
      /\ PointerLen <= SectorLen /\ PointerTo(addr) \in Seq(Byte) /\ Len(PointerTo(addr)) = PointerLen
  BY RecordSizes, Sizes, Apart, SlotPointer DEF PointerLen
<1>4. CASE j = 0
  <2>1. work[1] = Erase(RecordBase, SectorLen)
    BY <1>2, <1>4 DEF SwitchCommand
  <2>2. work[1].cmd = "erase" /\ work[1].at = RecordBase /\ work[1].len = SectorLen
    BY <2>1 DEF Erase
  <2> QED BY <1>1, <1>2, <1>3, <1>4, <2>2 DEF IsCommand, Touched, RecordSector
<1>5. CASE j \in {1, 2}
  <2>1. work[1] = Erase(0, SectorLen) \/ work[1] = Erase(0, PageLen)
    BY <1>2, <1>5 DEF SwitchCommand
  <2>2. work[1].cmd = "erase" /\ work[1].at = 0 /\ work[1].len \in {SectorLen, PageLen}
    BY <2>1 DEF Erase
  <2>3. IsCommand(work[1]) /\ Touched(work[1]) \subseteq PointerSector
    BY <1>3, <2>2 DEF IsCommand, Touched, PointerSector
  <2> QED BY <1>1, <1>2, <1>5, <2>3
<1>6. CASE j = 3
  <2>1. work[1] = Program(0, PointerTo(addr))
    BY <1>2, <1>6 DEF SwitchCommand
  <2>2. work[1].cmd = "program" /\ work[1].at = 0 /\ work[1].bytes = PointerTo(addr)
    BY <2>1 DEF Program
  <2>3. PICK l \in Nat : l = Len(work[1].bytes) /\ l <= SectorLen
    BY <1>3, <2>2 DEF PointerLen
  <2>4. Touched(work[1]) = 0 .. 0 + l - 1
    BY <2>2, <2>3 DEF Touched
  <2>5. 0 .. 0 + l - 1 \subseteq PointerSector
    BY <1>3, <2>3 DEF PointerSector
  <2>6. IsCommand(work[1])
    BY <1>3, <2>2 DEF IsCommand
  <2> QED BY <1>1, <1>2, <1>6, <2>4, <2>5, <2>6
<1>7. j # 4
  <2>1. j = 4 => work[1].cmd = "reset"
    BY <1>2 DEF SwitchCommand
  <2> QED BY <1>1, <2>1 DEF IsFlash
<1> QED BY <1>4, <1>5, <1>6, <1>7

\* What an update, a save or a switch may write to.
Place == IF Saving THEN RecordSector
         ELSE IF ~ Switching THEN Region(addr)
         ELSE IF \E j \in 0 .. 4 : j = 0 /\ Switches(j) THEN RecordSector ELSE PointerSector

LEMMA Touches ==
  ASSUME Types, handed \in [1 .. RecordLen -> Byte],
         NEW i, NEW f, NEW h \in -1 .. ResetStage, NEW u \in Nat,
         Update(i, f, h, u), work # << >>, IsFlash(Head(work))
  PROVE  /\ IsCommand(Head(work)) /\ Touched(Head(work)) \subseteq Place
         /\ Saving \/ addr \in Slots
<1>1. IsSeq(work) /\ Head(work) = work[1] /\ Shape(i, f, h, u)
  BY SeqTail DEF Types, Update, Shape
<1>2. CASE Saving
  BY <1>2, SaveTouches DEF Place
<1>3. CASE ~ Saving /\ ~ Switching
  <2>1. ~ Settled(i, f, h, u)
    BY <1>1, <1>3 DEF Settled, IsFlash, AnswersTo
  <2>2. CASE Wiping(f, h, u)
    BY <1>3, <2>2, WipeTouches DEF Wiping, Place
  <2>3. CASE Writing(i, f, h, u)
    <3>1. h \in 1 .. Count /\ addr \in Slots /\ Protocol(i, f, h, u)
      BY <2>3 DEF Writing, Update
    <3>2. PICK at \in First(addr) .. Beyond(addr) + PageLen :
            \/ Pages(i, f, h, u, work, at)
            \/ work[1] = Erase(at, PageLen) /\ at + PageLen <= Beyond(addr)
      BY <2>3 DEF Writing
    <3>3. IsCommand(Head(work)) /\ Touched(Head(work)) \subseteq Region(addr)
      <4>1. CASE Pages(i, f, h, u, work, at)
        BY <3>1, <4>1, WriteTouches
      <4>2. CASE work[1] = Erase(at, PageLen) /\ at + PageLen <= Beyond(addr)
        BY <3>1, <4>2, PageEraseTouches
      <4> QED BY <3>2, <4>1, <4>2
    <3> QED BY <1>3, <3>1, <3>3 DEF Place
  <2>4. ~ Changing(i, h)
    BY <1>1, <1>3, Shapes
  <2> QED BY <1>1, <2>1, <2>2, <2>3, <2>4 DEF Shape
<1>4. CASE ~ Saving /\ Switching
  <2>1. Changing(i, h)
    BY <1>1, <1>4, Shapes
  <2>2. PICK j \in 0 .. 4 : Switches(j)
    BY <2>1 DEF Changing
  <2>3. addr \in Slots
    BY <2>1 DEF Changing
  <2>4. \A k \in 0 .. 4 : Switches(k) => k = j
    BY <2>2 DEF Switches
  <2> QED BY <1>4, <2>2, <2>3, <2>4, SwitchTouches DEF Place
<1> QED BY <1>2, <1>3, <1>4
-----------------------------------------------------------------------------
(* A command to the flash is done. *)

LEMMA TailEnds ==
  ASSUME IsSeq(work), Len(work) >= 2, work' = Tail(work)
  PROVE  /\ IsSeq(work') /\ work' # << >> /\ Len(work) \in Nat /\ Len(work') = Len(work) - 1
         /\ (\A n \in 1 .. Len(work) - 1 : work'[n] = work[n + 1])
         /\ work'[Len(work')] = work[Len(work)]
         /\ Switching' <=> Switching
         /\ work[Len(work)].cmd \notin {"write", "program"} => ~ Saving'
<1>0. work # << >>
  BY SeqNone
<1>1. /\ Len(work) \in Nat /\ IsSeq(work') /\ Len(work') = Len(work) - 1
      /\ (\A n \in 1 .. Len(work) - 1 : work'[n] = work[n + 1])
  BY <1>0, SeqTail
<1>2. Len(work) - 1 \in 1 .. Len(work) - 1 /\ Len(work) - 1 + 1 = Len(work)
  BY <1>1
<1>3. work'[Len(work')] = work[Len(work)] /\ work' # << >>
  <2>1. work'[Len(work) - 1] = work[Len(work) - 1 + 1]
    BY <1>1, <1>2
  <2> QED BY <2>1, <1>1, <1>2, SeqEmpty
<1>4. (Saving => work[Len(work)].cmd \in {"write", "program"})'
  BY SavingEnds, PTL
<1> QED BY <1>0, <1>1, <1>3, <1>4, SwitchingIs

LEMMA ProtocolStays ==
  ASSUME NEW i, NEW f, NEW h, NEW u, Protocol(i, f, h, u), up \/ work # << >>,
         UNCHANGED otaVars, Switching' <=> Switching, Switching \/ Pointer' = Pointer
  PROVE  Protocol(i, f, h, u)'
<1>1. UNCHANGED << addr, datalen, datasum, packetid, armed, up, received, answers, phone, repeats >>
  BY DEF otaVars
<1>2. PICK ks : Stages(i, f, h, ks) /\ Talks(i, f, h, u, ks)
  BY DEF Protocol
<1>3. Stages(i, f, h, ks)' /\ Talks(i, f, h, u, ks)'
  BY <1>1, <1>2 DEF Stages, Talks
<1>4. Counts(f, h, u)'
  BY <1>1 DEF Protocol, Counts
<1>5. IsSeq(received)' /\ IsSeq(answers)' /\ \A n \in 1 .. Len(answers') : AnswersTo(f, h, answers'[n])
  BY <1>1 DEF Protocol
<1>6. up /\ up' /\ (up /\ ~ Switching => Pointer \in Slots)'
  BY <1>1 DEF Protocol
<1> QED BY <1>3, <1>4, <1>5, <1>6 DEF Protocol

\* The next sector of the slot is erased.
LEMMA WipeStep ==
  ASSUME Types, NEW i, NEW f, NEW h, NEW u, Protocol(i, f, h, u), Wiping(f, h, u), FlashStep, UNCHANGED otaVars
  PROVE  /\ Protocol(i, f, h, u)' /\ Wiping(f, h, u)' /\ IsSeq(work')
         /\ ~ Switching' /\ ~ Saving'
<1>1. work # << >> /\ IsFlash(Head(work)) /\ flash' = Done(flash, Head(work)) /\ work' = Tail(work)
  BY DEF FlashStep
<1>2. PICK at \in First(addr) .. Beyond(addr) : Wipes(f, h, at)
  BY DEF Wiping
<1>3. h = 0 /\ u = 0 /\ addr \in Slots /\ addr' = addr
  BY DEF Wiping, otaVars
<1>4. /\ Head(work) = Erase(at, SectorLen) /\ IsCommand(Head(work)) /\ Len(work) >= 2
      /\ at \in Nat /\ at + SectorLen <= Beyond(addr) /\ Touched(Head(work)) \subseteq Region(addr)
  BY <1>1, <1>2, <1>3, WipeTouches
<1>5. /\ IsSeq(work') /\ work' # << >> /\ Len(work) \in Nat /\ Len(work') = Len(work) - 1
      /\ (\A n \in 1 .. Len(work) - 1 : work'[n] = work[n + 1])
      /\ work'[Len(work')] = work[Len(work)] /\ (Switching' <=> Switching)
      /\ (work[Len(work)].cmd \notin {"write", "program"} => ~ Saving')
  BY <1>1, <1>4, TailEnds DEF Types
<1>6. AnswersTo(f, h, work[Len(work)]) /\ work[Len(work)].cmd = "answer"
  BY <1>2 DEF Wipes, AnswersTo
<1>7. ~ Switching /\ ~ Switching' /\ ~ Saving'
  BY <1>1, <1>5, <1>6, SwitchingIs
<1>8. flash \in Flashes
  BY DEF Types, Flashes
<1>9. Only(Region(addr))
  BY <1>1, <1>4, <1>8, OnlyTouched
<1>10. Pointer' = Pointer
  BY <1>3, <1>9, OnlySlot
<1>11. Protocol(i, f, h, u)'
  BY <1>1, <1>5, <1>10, ProtocolStays
<1> DEFINE S == SectorLen
<1>12. S \in Nat \ {0} /\ First(addr) \in Nat /\ Beyond(addr) \in Nat
  BY <1>3, SlotSizes, Sizes
<1>13. PICK l \in Nat : l = Len(work) - 2
  <2>1. Len(work) \in Nat /\ Len(work) >= 2
    BY <1>4, <1>5
  <2>2. Len(work) - 2 \in Nat
    BY <2>1
  <2> QED BY <2>2
<1>14. at + S + (Len(work') - 1) * S = Beyond(addr)
  <2>1. at + (Len(work) - 1) * S = Beyond(addr)
    BY <1>2 DEF Wipes
  <2>2. Len(work) - 1 = l + 1 /\ Len(work') - 1 = l
    BY <1>5, <1>13
  <2>3. (l + 1) * S = l * S + S /\ l * S \in Nat
    BY <1>12
  <2> QED BY <2>1, <2>2, <2>3, <1>4, <1>12
<1>15. ASSUME NEW n \in 1 .. Len(work') - 1 PROVE work'[n] = Erase(at + S + (n - 1) * S, S)
  <2>1. n + 1 \in 1 .. Len(work) - 1 /\ n \in 1 .. Len(work) - 1 /\ n \in Nat
    BY <1>5
  <2>2. work'[n] = Erase(at + (n + 1 - 1) * S, S)
    BY <2>1, <1>2, <1>5 DEF Wipes
  <2>3. at + (n + 1 - 1) * S = at + S + (n - 1) * S
    BY <2>1, <1>4, <1>12
  <2> QED BY <2>2, <2>3
<1>16. ASSUME NEW x \in Region(addr), x < at + S PROVE flash'[x] = Blank
  <2>1. x \in Address /\ x \in Int
    BY <1>3, Apart DEF Address
  <2>2. flash' = Erased(flash, at, S)
    <3>1. Head(work).cmd = "erase" /\ Head(work).at = at /\ Head(work).len = S
      BY <1>4 DEF Erase
    <3> QED BY <3>1, <1>1 DEF Done
  <2>3. CASE x < at
    <3>1. flash[x] = Blank
      BY <1>2, <2>3 DEF Wipes
    <3>2. at \in Nat /\ S \in Nat
      BY <1>4, <1>12
    <3>3. Erased(flash, at, S)[x] = flash[x]
      BY <2>1, <2>3, <3>2, <1>8, ErasedIs
    <3> QED BY <2>2, <3>1, <3>3
  <2>4. CASE at <= x
    <3>1. at \in Nat /\ S \in Nat /\ x < at + S
      BY <1>4, <1>12, <1>16
    <3> QED BY <3>1, <2>1, <2>2, <2>4, <1>8, ErasedIs
  <2> QED BY <2>1, <2>3, <2>4, <1>4
<1>17. at + S \in First(addr) .. Beyond(addr)
  BY <1>4, <1>12
<1>18. PICK b : b = at + S
  OBVIOUS
<1>19. Wipes(f, h, b)'
  <2>1. Len(work') >= 1 /\ AnswersTo(f, h, work'[Len(work')])
    BY <1>4, <1>5, <1>6
  <2>2. b + (Len(work') - 1) * SectorLen = Beyond(addr')
    BY <1>3, <1>14, <1>18
  <2>3. \A n \in 1 .. Len(work') - 1 : work'[n] = Erase(b + (n - 1) * SectorLen, SectorLen)
    BY <1>15, <1>18
  <2>4. \A x \in Region(addr') : x < b => flash'[x] = Blank
    BY <1>3, <1>16, <1>18
  <2> QED BY <2>1, <2>2, <2>3, <2>4 DEF Wipes
<1>20. Wiping(f, h, u)'
  <2>1. b \in First(addr') .. Beyond(addr')
    BY <1>3, <1>17, <1>18
  <2> QED BY <2>1, <1>3, <1>19 DEF Wiping
<1> QED BY <1>5, <1>7, <1>11, <1>20

\* A page is programmed.
LEMMA ProgramStep ==
  ASSUME Types, NEW i \in Images, NEW f, NEW h \in 1 .. Count, NEW u \in Nat, Protocol(i, f, h, u),
         NEW at \in First(addr) .. Beyond(addr) + PageLen, Pages(i, f, h, u, work, at),
         u = 0 => \A x \in Region(addr) : flash[x] = IF x < at THEN Filled(i, h)[x] ELSE Blank,
         FlashStep, UNCHANGED otaVars
  PROVE  /\ Protocol(i, f, h, u)' /\ Writing(i, f, h, u)' /\ IsSeq(work')
         /\ ~ Switching' /\ ~ Saving'
<1>1. work # << >> /\ IsFlash(Head(work)) /\ flash' = Done(flash, Head(work)) /\ work' = Tail(work)
  BY DEF FlashStep
<1>2. PICK c : c = Head(work)
  OBVIOUS
<1>3. /\ PageAt(c, at) /\ IsCommand(c) /\ Len(work) >= 2 /\ addr \in Slots /\ at \in Nat
      /\ at + Len(c.bytes) <= addr + datalen /\ Touched(c) \subseteq Region(addr)
  BY <1>1, <1>2, WriteTouches
<1>4. /\ IsSeq(work') /\ work' # << >> /\ Len(work) \in Nat /\ Len(work') = Len(work) - 1
      /\ (\A n \in 1 .. Len(work) - 1 : work'[n] = work[n + 1])
      /\ work'[Len(work')] = work[Len(work)] /\ (Switching' <=> Switching)
      /\ (work[Len(work)].cmd \notin {"write", "program"} => ~ Saving')
  BY <1>1, <1>3, TailEnds DEF Types
<1>5. AnswersTo(f, h, work[Len(work)]) /\ work[Len(work)].cmd = "answer"
  BY DEF Pages, AnswersTo
<1>6. ~ Switching /\ ~ Switching' /\ ~ Saving'
  BY <1>1, <1>4, <1>5, SwitchingIs
<1>7. flash \in Flashes
  BY DEF Types, Flashes
<1>8. Only(Region(addr))
  BY <1>1, <1>2, <1>3, <1>7, OnlyTouched
<1>9. Pointer' = Pointer
  BY <1>3, <1>8, OnlySlot
<1>10. Protocol(i, f, h, u)'
  BY <1>1, <1>4, <1>9, ProtocolStays
<1>11. addr' = addr /\ datalen' = datalen /\ Filled(i, h)' = Filled(i, h)
  BY DEF otaVars, Filled
<1>12. h \in 0 .. Count /\ h \in 0 .. EndStage /\ h <= Count
  BY Stage
<1>13. /\ addr \in Nat /\ datalen \in Nat /\ addr + datalen <= Beyond(addr)
       /\ datalen = Sent(h) + u * Packets[1] /\ Sent(h) \in Nat
  BY <1>12, EndInSlot, SentSteps
<1> DEFINE P == PageLen
<1>14. P \in Nat \ {0} /\ First(addr) \in Nat /\ Beyond(addr) \in Nat /\ First(addr) <= at
  BY <1>3, SlotSizes, Sizes
<1>15. PICK b : b = c.bytes
  OBVIOUS
<1>16. /\ c.cmd = "program" /\ c.at = at /\ b \in Seq(Byte) /\ addr + datalen - at > 0
       /\ Len(b) = IF addr + datalen - at < P THEN addr + datalen - at ELSE P
  BY <1>3, <1>15 DEF PageAt
<1>17. PICK e \in Nat, l \in Nat : e = addr + datalen /\ l = Len(b) /\ addr + datalen - at = e - at
  <2>1. addr + datalen \in Nat /\ Len(b) \in Nat
    BY <1>13, <1>16
  <2>2. PICK e \in Nat, l \in Nat : e = addr + datalen /\ l = Len(b)
    BY <2>1
  <2>3. addr \in Nat /\ datalen \in Nat /\ at \in Nat
    BY <1>3, <1>13
  <2>4. addr + datalen - at = e - at
    BY <2>2, <2>3
  <2> QED BY <2>2, <2>4
<1>18. at < e /\ l \in Nat \ {0} /\ (l = P \/ at + l = e) /\ l <= P /\ at + l <= e
  <2>1. /\ e \in Nat /\ l \in Nat /\ P \in Nat \ {0} /\ at \in Nat
        /\ e - at > 0 /\ l = IF e - at < P THEN e - at ELSE P
    BY <1>3, <1>14, <1>16, <1>17
  <2> QED BY <2>1
<1>19. PICK a : a = at + P
  OBVIOUS
<1>20. a \in Nat /\ First(addr) <= a /\ a <= Beyond(addr) + P
  <2>1. at \in Nat /\ at < e /\ e <= Beyond(addr)
    BY <1>3, <1>13, <1>17, <1>18
  <2> QED BY <2>1, <1>14, <1>17, <1>19
<1>21. ASSUME NEW n \in 1 .. Len(work') - 1
       PROVE  /\ n + 1 \in 1 .. Len(work) - 1 /\ work'[n] = work[n + 1]
              /\ a + (n - 1) * P = at + (n + 1 - 1) * P
  <2>1. n \in Nat /\ n + 1 \in 1 .. Len(work) - 1 /\ n \in 1 .. Len(work) - 1
    BY <1>4
  <2>2. at + P + (n - 1) * P = at + (n + 1 - 1) * P
    BY <2>1, <1>3, <1>14
  <2> QED BY <2>1, <2>2, <1>4, <1>19
<1>22. ASSUME NEW n \in 1 .. Len(work') - 1
       PROVE  /\ PageAt(work[n], a + (n - 1) * P)'
              /\ u = 0 => \A k \in 1 .. Len(work'[n].bytes) :
                   work'[n].bytes[k] = Filled(i, h)'[a + (n - 1) * P + k - 1]
  <2>1. PICK d, x : d = work'[n] /\ x = a + (n - 1) * P
    OBVIOUS
  <2>2. /\ PageAt(work[n + 1], at + (n + 1 - 1) * P)
        /\ u = 0 => \A k \in 1 .. Len(work[n + 1].bytes) :
             work[n + 1].bytes[k] = Filled(i, h)[at + (n + 1 - 1) * P + k - 1]
    <3>1. n + 1 \in 1 .. Len(work) - 1
      BY <1>21
    <3>2. PICK m : m = n + 1
      OBVIOUS
    <3>3. /\ PageAt(work[m], at + (m - 1) * P)
          /\ u = 0 => \A k \in 1 .. Len(work[m].bytes) :
               work[m].bytes[k] = Filled(i, h)[at + (m - 1) * P + k - 1]
      BY <3>1, <3>2 DEF Pages
    <3> QED BY <3>2, <3>3
  <2>3. /\ PageAt(d, x)
        /\ u = 0 => \A k \in 1 .. Len(d.bytes) : d.bytes[k] = Filled(i, h)[x + k - 1]
    <3>1. d = work[n + 1] /\ x = at + (n + 1 - 1) * P
      BY <2>1, <1>21
    <3> QED BY <2>2, <3>1
  <2>4. PageAt(d, x)'
    BY <2>3, <1>11 DEF PageAt
  <2>5. u = 0 => \A k \in 1 .. Len(d.bytes) : d.bytes[k] = Filled(i, h)'[x + k - 1]
    BY <2>3, <1>11
  <2>6. PageAt(work[n], a + (n - 1) * P)'
    BY <2>1, <2>4 DEF PageAt
  <2> QED BY <2>1, <2>5, <2>6
<1>23. addr' + datalen' <= a + (Len(work') - 1) * P
  <2>1. addr + datalen <= at + (Len(work) - 1) * P
    BY DEF Pages
  <2>2. PICK m \in Nat : m = Len(work) - 2
    <3>1. Len(work) \in Nat /\ Len(work) >= 2
      BY <1>3, <1>4
    <3>2. Len(work) - 2 \in Nat
      BY <3>1
    <3> QED BY <3>2
  <2>3. Len(work) - 1 = m + 1 /\ Len(work') - 1 = m
    BY <2>2, <1>4
  <2>4. at + (m + 1) * P = at + P + m * P
    BY <1>3, <1>14
  <2> QED BY <2>1, <2>3, <2>4, <1>11, <1>19
<1>24. Len(work') >= 1 /\ AnswersTo(f, h, work'[Len(work')])
  BY <1>3, <1>4, <1>5
<1>25. Pages(i, f, h, u, work, a)'
  BY <1>22, <1>23, <1>24 DEF Pages
<1>26. ASSUME u = 0, NEW x \in Region(addr)
       PROVE  flash'[x] = IF x < a THEN Filled(i, h)[x] ELSE Blank
  <2>1. x \in Address /\ x \in Int
    BY <1>3, Apart DEF Address
  <2>2. flash' = Programmed(flash, at, b)
    BY <1>1, <1>2, <1>15, <1>16 DEF Done
  <2>3. /\ x < at \/ x >= at + l => flash'[x] = flash[x]
        /\ at <= x /\ x < at + l /\ flash[x] = Blank => flash'[x] = b[x - at + 1]
    BY <2>1, <2>2, <1>3, <1>7, <1>16, <1>17, ProgrammedIs, SMTT(30)
  <2>4. flash[x] = IF x < at THEN Filled(i, h)[x] ELSE Blank
    BY <1>26
  <2>5. \A y \in Address : y >= addr + Sent(h) => Filled(i, h)[y] = Blank
    BY <1>12, <1>13, FilledIs
  <2>6. e = addr + Sent(h)
    <3>1. u * Packets[1] = 0
      BY <1>26, Sizes
    <3> QED BY <3>1, <1>13, <1>17
  <2>7. CASE x < at
    BY <2>1, <2>3, <2>4, <2>7, <1>3, <1>14, <1>19
  <2>8. CASE at <= x /\ x < at + l
    <3>1. flash'[x] = b[x - at + 1] /\ x < a
      BY <2>1, <2>3, <2>4, <2>8, <1>3, <1>14, <1>18, <1>19
    <3>2. PICK k : k = x - at + 1
      OBVIOUS
    <3>3. k \in 1 .. l /\ at + k - 1 = x
      BY <2>1, <2>8, <3>2, <1>3, <1>18
    <3>4. b[k] = Filled(i, h)[x]
      <4>1. 1 \in 1 .. Len(work) - 1 /\ at + (1 - 1) * PageLen + k - 1 = x
        BY <3>3, <1>3, <1>4, <1>14
      <4>2. \A m \in 1 .. Len(work[1].bytes) : work[1].bytes[m] = Filled(i, h)[at + (1 - 1) * PageLen + m - 1]
        BY <4>1, <1>26 DEF Pages
      <4>3. b = work[1].bytes
        BY <1>1, <1>2, <1>15, SeqTail DEF Types
      <4> QED BY <3>3, <4>1, <4>2, <4>3, <1>17
    <3> QED BY <3>1, <3>2, <3>4
  <2>9. CASE x >= at + l
    <3>1. flash'[x] = Blank
      BY <2>1, <2>3, <2>4, <2>9, <1>3, <1>18
    <3>2. x < a => x >= e
      BY <2>1, <2>9, <1>3, <1>14, <1>18, <1>19
    <3>3. x < a => Filled(i, h)[x] = Blank
      BY <3>2, <2>1, <2>5, <2>6
    <3> QED BY <3>1, <3>3
  <2> QED BY <2>1, <2>7, <2>8, <2>9, <1>3, <1>18
<1>27. Writing(i, f, h, u)'
  <2>1. u = 0 => \A x \in Region(addr') : flash'[x] = IF x < a THEN Filled(i, h)'[x] ELSE Blank
    BY <1>11, <1>26
  <2>2. a \in First(addr') .. Beyond(addr') + PageLen
    BY <1>11, <1>14, <1>20
  <2>3. addr' \in Slots
    BY <1>3, <1>11
  <2> QED BY <2>1, <2>2, <2>3, <1>25 DEF Writing
<1> QED BY <1>4, <1>6, <1>10, <1>27

\* The page of the packet's first byte is erased.
LEMMA PageEraseStep ==
  ASSUME Types, NEW i \in Images, NEW f, NEW h \in 1 .. Count, NEW u \in Nat, Protocol(i, f, h, u),
         NEW at \in First(addr) .. Beyond(addr) + PageLen, Pages(i, f, h, u, Tail(work), at),
         work # << >>, work[1] = Erase(at, PageLen), at + PageLen <= Beyond(addr),
         u = 0 => \A x \in Region(addr) :
                    /\ x < at => flash[x] = Filled(i, h)[x]
                    /\ x >= at + PageLen => flash[x] = Blank,
         FlashStep, UNCHANGED otaVars
  PROVE  /\ Protocol(i, f, h, u)' /\ Writing(i, f, h, u)' /\ IsSeq(work')
         /\ ~ Switching' /\ ~ Saving'
<1>1. IsFlash(Head(work)) /\ flash' = Done(flash, Head(work)) /\ work' = Tail(work)
  BY DEF FlashStep
<1>2. h \in 0 .. Count
  BY Stage
<1>3. addr \in Slots
  BY <1>2, EndInSlot
<1>4. /\ Head(work) = Erase(at, PageLen) /\ IsCommand(Head(work)) /\ at \in Nat
      /\ Touched(Head(work)) \subseteq Region(addr)
  BY <1>3, PageEraseTouches
<1>5. Len(Tail(work)) >= 1 /\ AnswersTo(f, h, Tail(work)[Len(Tail(work))])
  BY DEF Pages
<1>6. Len(work) >= 2
  <2>1. Len(Tail(work)) = Len(work) - 1 /\ Len(work) \in Nat
    BY SeqTail DEF Types
  <2> QED BY <2>1, <1>5
<1>7. /\ IsSeq(work') /\ work' # << >> /\ work'[Len(work')] = work[Len(work)] /\ (Switching' <=> Switching)
      /\ (work[Len(work)].cmd \notin {"write", "program"} => ~ Saving')
  BY <1>1, <1>6, TailEnds DEF Types
<1>8. work[Len(work)].cmd = "answer"
  BY <1>1, <1>5, <1>7 DEF AnswersTo
<1>9. ~ Switching /\ ~ Switching' /\ ~ Saving'
  BY <1>7, <1>8, SwitchingIs
<1>10. flash \in Flashes
  BY DEF Types, Flashes
<1>11. Only(Region(addr))
  BY <1>1, <1>4, <1>10, OnlyTouched
<1>12. Pointer' = Pointer
  BY <1>3, <1>11, OnlySlot
<1>13. Protocol(i, f, h, u)'
  BY <1>7, <1>12, ProtocolStays
<1>14. addr' = addr /\ datalen' = datalen /\ Filled(i, h)' = Filled(i, h)
  BY DEF otaVars, Filled
<1>15. \A c, x : PageAt(c, x)' <=> PageAt(c, x)
  BY <1>14 DEF PageAt
<1>16. Pages(i, f, h, u, work, at)'
  <2>1. PICK w : w = Tail(work)
    OBVIOUS
  <2>2. Pages(i, f, h, u, w, at)
    BY <2>1
  <2>3. Pages(i, f, h, u, w, at)'
    BY <2>2, <1>14, <1>15, SMTT(30) DEF Pages
  <2>4. w = work'
    BY <2>1, <1>1
  <2> QED BY <2>3, <2>4 DEF Pages
<1>17. ASSUME u = 0, NEW x \in Region(addr)
       PROVE  flash'[x] = IF x < at THEN Filled(i, h)[x] ELSE Blank
  <2>1. x \in Address /\ x \in Int /\ PageLen \in Nat
    BY <1>3, Apart DEF Address
  <2>2. flash' = Erased(flash, at, PageLen)
    <3>1. Head(work).cmd = "erase" /\ Head(work).at = at /\ Head(work).len = PageLen
      BY <1>4 DEF Erase
    <3> QED BY <3>1, <1>1 DEF Done
  <2>3. /\ x < at \/ x >= at + PageLen => flash'[x] = flash[x]
        /\ at <= x /\ x < at + PageLen => flash'[x] = Blank
    BY <2>1, <2>2, <1>4, <1>10, ErasedIs, ZenonT(60)
  <2>4. /\ x < at => flash[x] = Filled(i, h)[x]
        /\ x >= at + PageLen => flash[x] = Blank
    BY <1>17
  <2>5. x < at \/ (at <= x /\ x < at + PageLen) \/ (x >= at + PageLen /\ ~ (x < at))
    BY <2>1, <1>4
  <2> QED BY <2>3, <2>4, <2>5
<1>18. Writing(i, f, h, u)'
  <2>1. u = 0 => \A x \in Region(addr') : flash'[x] = IF x < at THEN Filled(i, h)'[x] ELSE Blank
    BY <1>14, <1>17
  <2>2. at \in First(addr') .. Beyond(addr') + PageLen /\ addr' \in Slots
    BY <1>3, <1>14
  <2> QED BY <2>1, <2>2, <1>16 DEF Writing
<1> QED BY <1>7, <1>9, <1>13, <1>18

\* What the pointer names when its bytes are erased, or its last one is.
LEMMA BlankPointer ==
  ASSUME NEW f \in Flashes, f[2] = Blank
  PROVE  AddressIn(QSPI_ReadFlashData(f, 0, PointerLen)) \notin Slots
<1>1. PICK b : b = QSPI_ReadFlashData(f, 0, PointerLen)
  OBVIOUS
<1>2. 0 \in Address /\ 1 \in Address /\ 2 \in Address
  BY Apart, RecordSizes, Sizes DEF Address, PointerLen
<1>3. b = [n \in 1 .. 3 |-> f[0 + n - 1]]
  BY <1>1 DEF QSPI_ReadFlashData, PointerLen
<1>4. b[1] = f[0 + 1 - 1] /\ b[2] = f[0 + 2 - 1] /\ b[3] = f[0 + 3 - 1]
  BY <1>3
<1>5. b[1] = f[0] /\ b[2] = f[1] /\ b[3] = Blank
  BY <1>4
<1>6. b[1] \in Byte /\ b[2] \in Byte
  BY <1>2, <1>5 DEF Flashes
<1> QED BY <1>1, <1>5, <1>6, ErasedPointer

LEMMA WrittenPointer ==
  ASSUME NEW f \in Flashes, NEW s \in Slots, \A x \in 0 .. PointerLen - 1 : f[x] = PointerTo(s)[x + 1]
  PROVE  AddressIn(QSPI_ReadFlashData(f, 0, PointerLen)) = s
<1>1. PICK b, p : b = QSPI_ReadFlashData(f, 0, PointerLen) /\ p = PointerTo(s)
  OBVIOUS
<1>2. b = [n \in 1 .. 3 |-> f[0 + n - 1]]
  BY <1>1 DEF QSPI_ReadFlashData, PointerLen
<1>3. b[1] = f[0 + 1 - 1] /\ b[2] = f[0 + 2 - 1] /\ b[3] = f[0 + 3 - 1]
  BY <1>2
<1>4. b[1] = f[0] /\ b[2] = f[1] /\ b[3] = f[2]
  BY <1>3
<1>5. f[0] = p[0 + 1] /\ f[1] = p[1 + 1] /\ f[2] = p[2 + 1]
  BY <1>1 DEF PointerLen
<1>6. b[1] = p[1] /\ b[2] = p[2] /\ b[3] = p[3]
  BY <1>4, <1>5
<1>7. AddressIn(p) = s
  BY <1>1, SlotPointer
<1>8. AddressIn(b) = AddressIn(p)
  BY <1>6 DEF AddressIn
<1> QED BY <1>1, <1>7, <1>8

\* One command of the switch.
LEMMA SwitchStep ==
  ASSUME Types, NEW i, NEW f, NEW h, NEW u, Protocol(i, f, h, u), Changing(i, h), Switching,
         FlashStep, UNCHANGED otaVars
  PROVE  /\ Protocol(i, f, h, u)' /\ Changing(i, h)' /\ IsSeq(work')
         /\ Switching' /\ ~ Saving'
         /\ \A s \in Slots : \A x \in Region(s) : flash'[x] = flash[x]
         /\ \/ flash' = Erased(flash, RecordBase, SectorLen)
            \/ \A x \in RecordSector : flash'[x] = flash[x]
         /\ Pointer' = Pointer \/ Pointer' \notin Slots \/ Pointer' = addr
<1>1. work # << >> /\ IsFlash(Head(work)) /\ flash' = Done(flash, Head(work)) /\ work' = Tail(work)
  BY DEF FlashStep
<1>2. PICK j \in 0 .. 4 : Switches(j)
  BY DEF Changing
<1>3. addr \in Slots /\ addr' = addr /\ Filled(i, h)' = Filled(i, h)
  BY DEF Changing, otaVars, Filled
<1>4. /\ Head(work) = SwitchCommand(j + 1) /\ j \in 0 .. 3 /\ IsCommand(Head(work))
      /\ (j = 0 => Touched(Head(work)) \subseteq RecordSector)
      /\ (j # 0 => Touched(Head(work)) \subseteq PointerSector)
  BY <1>1, <1>2, <1>3, SwitchTouches
<1>5. flash \in Flashes
  BY DEF Types, Flashes
<1>6. /\ j = 0 => Only(RecordSector)
      /\ j # 0 => Only(PointerSector)
  BY <1>1, <1>4, <1>5, OnlyTouched
<1>7. Len(work) = 5 - j /\ Len(work) >= 2
  BY <1>2, <1>4 DEF Switches
<1>8. /\ IsSeq(work') /\ work' # << >> /\ Len(work') = Len(work) - 1
      /\ (\A n \in 1 .. Len(work) - 1 : work'[n] = work[n + 1])
      /\ work'[Len(work')] = work[Len(work)] /\ (Switching' <=> Switching)
      /\ (work[Len(work)].cmd \notin {"write", "program"} => ~ Saving')
  BY <1>1, <1>7, TailEnds DEF Types
<1>9. Switching' /\ ~ Saving'
  BY <1>8, SwitchingIs
<1>10. Protocol(i, f, h, u)'
  BY <1>1, <1>8, ProtocolStays
<1>11. \A s \in Slots : \A x \in Region(s) : flash'[x] = flash[x]
  BY <1>6, OnlyRecord, OnlyPointer
<1>12. /\ \A x \in 0 .. PointerLen - 1 : x \in Address /\ x \in Int
       /\ PointerLen \in Nat /\ PointerLen <= PageLen /\ PageLen <= SectorLen
       /\ PageLen \in Nat /\ SectorLen \in Nat /\ 2 \in 0 .. PointerLen - 1
       /\ PointerTo(addr) \in Seq(Byte) /\ Len(PointerTo(addr)) = PointerLen
  <2>1. PointerLen <= FlashLen /\ PointerLen = 3 /\ FlashLen \in Nat
    BY Apart, RecordSizes, Sizes DEF PointerLen
  <2> QED BY <2>1, <1>3, Apart, RecordSizes, Sizes, SlotPointer DEF Address
<1>13. /\ j + 1 <= 1 => Pointer' = Pointer
       /\ j + 1 \in {2, 3} => \A x \in 0 .. PointerLen - 1 : flash'[x] = Blank
       /\ j + 1 = 4 => Pointer' = addr
       /\ j = 0 => flash' = Erased(flash, RecordBase, SectorLen)
  <2>1. CASE j = 0
    <3>1. Head(work) = Erase(RecordBase, SectorLen)
      BY <2>1, <1>4 DEF SwitchCommand
    <3>2. Head(work).cmd = "erase" /\ Head(work).at = RecordBase /\ Head(work).len = SectorLen
      BY <3>1 DEF Erase
    <3>3. flash' = Erased(flash, RecordBase, SectorLen)
      BY <3>2, <1>1 DEF Done
    <3> QED BY <2>1, <3>3, <1>6, OnlyRecord
  <2>2. CASE j \in {1, 2}
    <3>1. Head(work) = Erase(0, SectorLen) \/ Head(work) = Erase(0, PageLen)
      BY <2>2, <1>4 DEF SwitchCommand
    <3>2. Head(work).cmd = "erase" /\ Head(work).at = 0 /\ Head(work).len \in {SectorLen, PageLen}
      BY <3>1 DEF Erase
    <3>3. PICK l \in {SectorLen, PageLen} : flash' = Erased(flash, 0, l)
      BY <3>2, <1>1 DEF Done
    <3>4. \A x \in 0 .. PointerLen - 1 : x \in Address /\ 0 <= x /\ x < 0 + l
      BY <1>12
    <3>5. l \in Nat /\ 0 \in Nat
      BY <1>12
    <3>6. \A x \in 0 .. PointerLen - 1 : flash'[x] = Blank
      BY <3>3, <3>4, <3>5, <1>5, ErasedIs
    <3> QED BY <2>2, <3>6
  <2>3. CASE j = 3
    <3> DEFINE p == PointerTo(addr)
    <3>1. Head(work) = Program(0, p)
      BY <2>3, <1>4 DEF SwitchCommand
    <3>2. Head(work).cmd = "program" /\ Head(work).at = 0 /\ Head(work).bytes = p
      BY <3>1 DEF Program
    <3>3. flash' = Programmed(flash, 0, p)
      BY <3>2, <1>1 DEF Done
    <3>4. \A x \in 0 .. PointerLen - 1 : flash[x] = Blank
      BY <2>3, <1>2 DEF Switches
    <3>5. p \in Seq(Byte) /\ Len(p) = PointerLen /\ 0 \in Nat
      BY <1>12
    <3> HIDE DEF p
    <3>6. \A x \in 0 .. PointerLen - 1 : x \in Address /\ 0 <= x /\ x < 0 + Len(p) /\ x - 0 + 1 = x + 1
      BY <3>5, <1>12
    <3>7. \A x \in 0 .. PointerLen - 1 : flash'[x] = p[x - 0 + 1]
      BY <3>3, <3>4, <3>5, <3>6, <1>5, ProgrammedIs, ZenonT(60)
    <3>8. \A x \in 0 .. PointerLen - 1 : flash'[x] = p[x + 1]
      BY <3>6, <3>7
    <3>9. flash' \in Flashes
      BY <2>3, <1>6 DEF Only
    <3>10. Pointer' = addr
      BY <3>8, <3>9, <1>3, WrittenPointer DEF p, Pointer, PointerBytes
    <3> QED BY <2>3, <3>10
  <2> QED BY <1>4, <2>1, <2>2, <2>3
<1>14. Pointer' = Pointer \/ Pointer' \notin Slots \/ Pointer' = addr
  <2>1. ASSUME j + 1 \in {2, 3} PROVE Pointer' \notin Slots
    <3>1. flash' \in Flashes /\ flash'[2] = Blank
      BY <2>1, <1>6, <1>12, <1>13 DEF Only
    <3> QED BY <3>1, BlankPointer DEF Pointer, PointerBytes
  <2> QED BY <2>1, <1>4, <1>13
<1>15. Switches(j + 1)'
  <2>1. Len(work') = 5 - (j + 1)
    BY <1>7, <1>8
  <2>2. ASSUME NEW n \in 1 .. 5 - (j + 1) PROVE work'[n] = SwitchCommand(j + 1 + n)'
    <3>1. n \in 1 .. Len(work) - 1 /\ n + 1 \in 1 .. 5 - j /\ j + (n + 1) = j + 1 + n
      BY <1>7, <2>1
    <3>2. work'[n] = SwitchCommand(j + (n + 1))
      BY <3>1, <1>2, <1>8 DEF Switches
    <3> QED BY <3>1, <3>2, <1>3 DEF SwitchCommand
  <2>3. j + 1 <= 1 => Pointer' \in Slots /\ Pointer' # addr'
    <3>1. j <= 1 => Pointer \in Slots /\ Pointer # addr
      BY <1>2 DEF Switches
    <3> QED BY <3>1, <1>3, <1>4, <1>13
  <2>4. j + 1 = 4 => Pointer' = addr'
    BY <1>3, <1>13
  <2> QED BY <2>1, <2>2, <2>3, <2>4, <1>13 DEF Switches
<1>16. Changing(i, h)'
  <2>1. j + 1 \in 0 .. 4
    BY <1>4
  <2>2. \A x \in Region(addr') : flash'[x] = Filled(i, h)'[x]
    BY <1>3, <1>11 DEF Changing
  <2> QED BY <2>1, <2>2, <1>3, <1>15 DEF Changing
<1>17. \/ flash' = Erased(flash, RecordBase, SectorLen)
       \/ \A x \in RecordSector : flash'[x] = flash[x]
  BY <1>6, <1>13, OnlyPointer
<1> QED BY <1>8, <1>9, <1>10, <1>11, <1>13, <1>14, <1>16, <1>17

\* The save goes on.
LEMMA SaveAdvances ==
  ASSUME IsSeq(work), NEW j \in 0 .. SaveLen - 2, Saves(j), work' = Tail(work)
  PROVE  Saves(j + 1)' /\ IsSeq(work') /\ j + 1 \in 0 .. SaveLen - 1 /\ ~ Switching' /\ Saving'
<1>1. SaveLen \in Nat /\ Len(work) = SaveLen - j /\ j + 1 \in 0 .. SaveLen - 1 /\ Len(work) >= 2
      /\ \A n \in 1 .. SaveLen - j : work[n] = SaveCommand(j + n)
  BY SaveLens DEF Saves
<1>2. /\ IsSeq(work') /\ Len(work') = Len(work) - 1 /\ (Switching' <=> Switching)
      /\ (\A n \in 1 .. Len(work) - 1 : work'[n] = work[n + 1])
  BY <1>1, TailEnds
<1>3. ASSUME NEW n \in 1 .. SaveLen - (j + 1) PROVE work'[n] = SaveCommand(j + 1 + n)
  <2>1. n \in 1 .. Len(work) - 1 /\ n + 1 \in 1 .. SaveLen - j /\ j + (n + 1) = j + 1 + n
    BY <1>1
  <2>2. work'[n] = work[n + 1] /\ work[n + 1] = SaveCommand(j + (n + 1))
    BY <2>1, <1>1, <1>2
  <2> QED BY <2>1, <2>2
<1>4. Len(work') = SaveLen - (j + 1)
  BY <1>1, <1>2
<1>5. Saves(j + 1)'
  <2>1. PICK k : k = j + 1
    OBVIOUS
  <2>2. Saves(k)'
    BY <2>1, <1>1, <1>3, <1>4 DEF Saves
  <2> QED BY <2>1, <2>2
<1>6. Saving /\ Saving'
  <2>1. PICK k \in 0 .. SaveLen - 1 : k = j + 1
    BY <1>1
  <2>2. Saves(k)'
    BY <2>1, <1>5
  <2>3. j \in 0 .. SaveLen - 1
    BY <1>1
  <2> QED BY <2>2, <2>3 DEF Saving
<1>7. ~ Switching
  BY <1>6, SavingEnds, SwitchingIs
<1> QED BY <1>1, <1>2, <1>5, <1>6, <1>7

\* A command of a save to the flash.
LEMMA SaveStepIs ==
  ASSUME Types, handed \in [1 .. RecordLen -> Byte], Saving, FlashStep
  PROVE  /\ Only(RecordSector) /\ IsSeq(work') /\ ~ Switching' /\ (work' = << >> \/ Saving')
         /\ ProgramsRecord => work' = << >> /\ flash' = Programmed(flash, RecordBase, handed)
         /\ \A j \in 0 .. SaveLen - 1 : Saves(j) =>
              /\ j \in {DataLen + 1, DataLen + 2}
              /\ j + 1 \in 0 .. SaveLen - 1 /\ Saves(j + 1)' /\ Saving'
              /\ \/ j = DataLen + 1 /\ flash' = Erased(flash, RecordBase, SectorLen)
                 \/ j = DataLen + 2 /\ flash' = Erased(flash, RecordBase, PageLen)
<1>1. work # << >> /\ IsFlash(Head(work)) /\ flash' = Done(flash, Head(work)) /\ work' = Tail(work)
  BY DEF FlashStep
<1>2. IsSeq(work) /\ flash \in Flashes /\ Head(work) = work[1]
  BY <1>1, SeqTail DEF Types, Flashes
<1>3. Only(RecordSector)
  BY <1>1, <1>2, SaveTouches, OnlyTouched
<1>4. ASSUME ProgramsRecord
      PROVE  work' = << >> /\ IsSeq(work') /\ ~ Switching' /\ flash' = Programmed(flash, RecordBase, handed)
  <2>1. Len(work) = 1 /\ work[1] = Program(RecordBase, handed)
    BY <1>4 DEF ProgramsRecord
  <2>2. IsSeq(work') /\ work' = << >>
    <3>1. IsSeq(work') /\ Len(work') = Len(work) - 1
      BY <1>1, <1>2, SeqTail
    <3> QED BY <2>1, <3>1, SeqEmpty
  <2>3. work[1].cmd = "program" /\ work[1].at = RecordBase /\ work[1].bytes = handed
    BY <2>1 DEF Program
  <2>4. flash' = Programmed(flash, RecordBase, handed)
    BY <1>1, <1>2, <2>3 DEF Done
  <2> QED BY <2>2, <2>4, SwitchingIs
<1>5. ASSUME NEW j \in 0 .. SaveLen - 1, Saves(j)
      PROVE  /\ j \in {DataLen + 1, DataLen + 2}
             /\ j + 1 \in 0 .. SaveLen - 1 /\ Saves(j + 1)' /\ Saving' /\ IsSeq(work') /\ ~ Switching'
             /\ \/ j = DataLen + 1 /\ flash' = Erased(flash, RecordBase, SectorLen)
                \/ j = DataLen + 2 /\ flash' = Erased(flash, RecordBase, PageLen)
  <2>1. \/ j = DataLen + 1 /\ work[1] = Erase(RecordBase, SectorLen)
        \/ j = DataLen + 2 /\ work[1] = Erase(RecordBase, PageLen)
    BY <1>1, <1>2, <1>5, SaveErases
  <2>2. j \in 0 .. SaveLen - 2
    BY <2>1, SaveLens
  <2>3. Saves(j + 1)' /\ IsSeq(work') /\ j + 1 \in 0 .. SaveLen - 1 /\ ~ Switching' /\ Saving'
    BY <1>1, <1>2, <1>5, <2>2, SaveAdvances
  <2>4. \A l : Done(flash, Erase(RecordBase, l)) = Erased(flash, RecordBase, l)
    BY DEF Done, Erase
  <2>5. \/ j = DataLen + 1 /\ flash' = Erased(flash, RecordBase, SectorLen)
        \/ j = DataLen + 2 /\ flash' = Erased(flash, RecordBase, PageLen)
    BY <1>1, <1>2, <2>1, <2>4
  <2> QED BY <2>3, <2>5
<1>6. ProgramsRecord \/ \E j \in 0 .. SaveLen - 1 : Saves(j)
  BY DEF Saving
<1>7. IsSeq(work') /\ ~ Switching' /\ (work' = << >> \/ Saving')
  BY <1>4, <1>5, <1>6
<1> QED BY <1>3, <1>4, <1>5, <1>7

LEMMA FlashDoesUpdate ==
  ASSUME Types, handed \in [1 .. RecordLen -> Byte], handed' = handed,
         NEW i \in Images, NEW f \in Nat, NEW h \in -1 .. ResetStage, NEW u \in Nat,
         Update(i, f, h, u), FlashStep, UNCHANGED otaVars
  PROVE  /\ Update(i, f, h, u)' /\ Types'
         /\ Switching' <=> Switching
         /\ ~ Saving => /\ ~ Saving'
                        /\ \/ flash' = Erased(flash, RecordBase, SectorLen) /\ Switching
                           \/ \A x \in RecordSector : flash'[x] = flash[x]
<1>1. work # << >> /\ IsFlash(Head(work)) /\ flash' = Done(flash, Head(work)) /\ work' = Tail(work)
  BY DEF FlashStep
<1>2. IsSeq(work) /\ flash \in Flashes /\ Head(work) = work[1] /\ Protocol(i, f, h, u) /\ Shape(i, f, h, u)
  BY <1>1, SeqTail DEF Types, Flashes, Update, Shape
<1>3. flash' \in Flashes
  <2>1. IsCommand(Head(work))
    BY <1>1, Touches
  <2> QED BY <1>1, <1>2, <2>1, DoneOutside
<1>4. IsSeq(work') => Types'
  BY <1>3 DEF Types, otaVars, Flashes
<1>5. CASE Saving
  <2>1. Only(RecordSector) /\ IsSeq(work') /\ ~ Switching' /\ (work' = << >> \/ Saving')
    BY <1>5, SaveStepIs
  <2>2. ~ Switching /\ Settled(i, f, h, u)
    BY <1>2, <1>5, Shapes, SavingEnds, SwitchingIs
  <2>3. Pointer' = Pointer /\ \A s \in Slots : \A x \in Region(s) : flash'[x] = flash[x]
    BY <2>1, OnlyRecord
  <2>4. Protocol(i, f, h, u)'
    BY <1>1, <1>2, <2>1, <2>2, <2>3, ProtocolStays
  <2>5. addr' = addr /\ Filled(i, h)' = Filled(i, h)
    BY DEF otaVars, Filled
  <2>6. Settled(i, f, h, u)'
    BY <2>1, <2>2, <2>3, <2>5 DEF Settled
  <2> QED BY <1>4, <1>5, <2>1, <2>2, <2>4, <2>6 DEF Update
<1>6. CASE ~ Saving /\ ~ Switching
  <2>1. ~ Settled(i, f, h, u)
    BY <1>1, <1>2, <1>6 DEF Settled, IsFlash, AnswersTo
  <2>2. ~ Changing(i, h)
    BY <1>2, <1>6, Shapes
  <2>3. addr \in Slots /\ Only(Region(addr))
    <3>1. IsCommand(Head(work)) /\ Touched(Head(work)) \subseteq Region(addr) /\ addr \in Slots
      BY <1>1, <1>6, Touches DEF Place
    <3> QED BY <1>1, <1>2, <3>1, OnlyTouched
  <2>4. \A x \in RecordSector : flash'[x] = flash[x]
    BY <2>3, OnlySlot
  <2>5. CASE Wiping(f, h, u)
    <3>1. Protocol(i, f, h, u)' /\ Wiping(f, h, u)' /\ IsSeq(work') /\ ~ Switching' /\ ~ Saving'
      BY <1>2, <2>5, WipeStep
    <3> QED BY <1>4, <1>6, <2>4, <3>1 DEF Update
  <2>6. CASE Writing(i, f, h, u)
    <3>1. h \in 1 .. Count
      BY <2>6 DEF Writing
    <3>2. PICK at \in First(addr) .. Beyond(addr) + PageLen :
            \/ /\ Pages(i, f, h, u, work, at)
               /\ u = 0 => \A x \in Region(addr) :
                             flash[x] = IF x < at THEN Filled(i, h)[x] ELSE Blank
            \/ /\ work # << >> /\ Pages(i, f, h, u, Tail(work), at)
               /\ work[1] = Erase(at, PageLen) /\ at + PageLen <= Beyond(addr)
               /\ u = 0 => \A x \in Region(addr) :
                             /\ x < at => flash[x] = Filled(i, h)[x]
                             /\ x >= at + PageLen => flash[x] = Blank
      BY <2>6 DEF Writing
    <3>3. Protocol(i, f, h, u)' /\ Writing(i, f, h, u)' /\ IsSeq(work') /\ ~ Switching' /\ ~ Saving'
      <4>1. CASE /\ Pages(i, f, h, u, work, at)
                 /\ u = 0 => \A x \in Region(addr) :
                               flash[x] = IF x < at THEN Filled(i, h)[x] ELSE Blank
        BY <1>2, <3>1, <4>1, ProgramStep
      <4>2. CASE /\ work # << >> /\ Pages(i, f, h, u, Tail(work), at)
                 /\ work[1] = Erase(at, PageLen) /\ at + PageLen <= Beyond(addr)
                 /\ u = 0 => \A x \in Region(addr) :
                               /\ x < at => flash[x] = Filled(i, h)[x]
                               /\ x >= at + PageLen => flash[x] = Blank
        BY <1>2, <3>1, <4>2, PageEraseStep
      <4> QED BY <3>2, <4>1, <4>2
    <3> QED BY <1>4, <1>6, <2>4, <3>3 DEF Update
  <2> QED BY <1>2, <2>1, <2>2, <2>5, <2>6 DEF Shape
<1>7. CASE Switching
  <2>1. Changing(i, h) /\ ~ Saving
    BY <1>2, <1>7, Shapes
  <2>2. /\ Protocol(i, f, h, u)' /\ Changing(i, h)' /\ IsSeq(work')
        /\ Switching' /\ ~ Saving'
        /\ \/ flash' = Erased(flash, RecordBase, SectorLen)
           \/ \A x \in RecordSector : flash'[x] = flash[x]
    BY <1>2, <1>7, <2>1, SwitchStep
  <2> QED BY <1>4, <1>7, <2>1, <2>2 DEF Update
<1> QED BY <1>5, <1>6, <1>7
-----------------------------------------------------------------------------
(* The record in the flash and the record in memory. *)

LEMMA TornErased ==
  ASSUME flash \in Flashes, NEW l \in {SectorLen, PageLen}, flash' = Erased(flash, RecordBase, l),
         l = SectorLen \/ TornAt(0)
  PROVE  TornAt(0)'
<1>1. /\ RecordBase \in Nat /\ RecordLen \in Nat /\ RecordLen <= SectorLen /\ l \in Nat
      /\ SectorLen \in Nat /\ RecordBase + SectorLen <= FlashLen /\ FlashLen \in Nat
  BY RecordSizes, Sizes
<1>2. ASSUME NEW k \in 1 .. RecordLen PROVE flash'[RecordBase + k - 1] = Blank
  <2>1. PICK x : x = RecordBase + k - 1
    OBVIOUS
  <2>2. x \in Address /\ x \in Int /\ RecordBase <= x /\ x < RecordBase + SectorLen
    BY <2>1, <1>1 DEF Address
  <2>3. CASE x < RecordBase + l
    BY <2>1, <2>2, <2>3, <1>1, ErasedIs
  <2>4. CASE x >= RecordBase + l
    <3>1. TornAt(0)
      BY <2>2, <2>4, <1>1
    <3>2. ~ (k <= 0)
      BY <1>1
    <3>3. flash[x] = Blank
      BY <2>1, <3>1, <3>2 DEF TornAt
    <3> QED BY <2>1, <2>2, <2>4, <3>3, <1>1, ErasedIs, ZenonT(60)
  <2> QED BY <2>2, <2>3, <2>4, <1>1
<1>3. \A k \in 1 .. RecordLen : ~ (k <= 0)
  BY <1>1
<1> QED BY <1>2, <1>3 DEF TornAt

\* What programming the first n bytes of a record leaves.
LEMMA TornProgrammed ==
  ASSUME flash \in Flashes, handed \in [1 .. RecordLen -> Byte], handed' = handed, TornAt(0),
         NEW n \in 0 .. RecordLen, NEW b \in Seq(Byte), Len(b) = n, \A k \in 1 .. n : b[k] = handed[k],
         flash' = Programmed(flash, RecordBase, b)
  PROVE  TornAt(n)'
<1>1. /\ RecordBase \in Nat /\ RecordLen \in Nat /\ RecordLen <= SectorLen
      /\ SectorLen \in Nat /\ RecordBase + SectorLen <= FlashLen /\ FlashLen \in Nat
  BY RecordSizes, Sizes
<1>2. ASSUME NEW k \in 1 .. RecordLen
      PROVE  flash'[RecordBase + k - 1] = IF k <= n THEN handed[k] ELSE Blank
  <2>1. PICK x : x = RecordBase + k - 1
    OBVIOUS
  <2>2. x \in Address /\ x \in Int /\ RecordBase <= x
    BY <2>1, <1>1 DEF Address
  <2>3. flash[x] = Blank
    <3>1. ~ (k <= 0)
      BY <1>1
    <3> QED BY <2>1, <3>1 DEF TornAt
  <2>4. CASE k <= n
    <3>1. x < RecordBase + Len(b)
      BY <2>1, <2>4, <1>1
    <3>2. flash'[x] = b[x - RecordBase + 1]
      BY <2>2, <2>3, <3>1, <1>1, ProgrammedIs
    <3>3. x - RecordBase + 1 = k /\ k \in 1 .. n
      BY <2>1, <2>4, <1>1
    <3>4. flash'[x] = handed[k]
      BY <3>2, <3>3
    <3> QED BY <2>1, <2>4, <3>4
  <2>5. CASE ~ (k <= n)
    <3>1. x >= RecordBase + Len(b)
      BY <2>1, <2>5, <1>1
    <3>2. flash'[x] = flash[x]
      BY <2>2, <3>1, <1>1, ProgrammedIs
    <3> QED BY <2>1, <2>3, <2>5, <3>2
  <2> QED BY <2>4, <2>5
<1> QED BY <1>2 DEF TornAt

\* A record that is there as a whole.
LEMMA WholeRecord ==
  ASSUME flash \in Flashes, handed \in [1 .. RecordLen -> Byte], TornAt(RecordLen)
  PROVE  Saved = handed
<1>1. Saved = [k \in 1 .. RecordLen |-> flash[RecordBase + k - 1]]
  BY SavedIs
<1>2. \A k \in 1 .. RecordLen : k <= RecordLen
  BY RecordSizes, Sizes
<1> QED BY <1>1, <1>2 DEF TornAt

LEMMA RecordUndisturbed ==
  ASSUME Record, UNCHANGED << flash, work, recVars >>
  PROVE  Record'
<1>1. UNCHANGED << nv, sum, buffer, on, change, written, events, handed, flash, work >>
  BY DEF recVars
<1>2. /\ Saved' = Saved /\ (Saving' <=> Saving) /\ (Switching' <=> Switching) /\ (Quiet' <=> Quiet)
      /\ \A n : TornAt(n)' <=> TornAt(n)
  BY <1>1, SavingKept DEF Saved, QSPI_ReadFlashData, Switching, Quiet, TornAt
<1>3. ProgramsWell => ProgramsWell'
  BY <1>1, <1>2 DEF ProgramsWell, ProgramsRecord
<1>4. \A j \in 0 .. SaveLen - 1 : SavesWell(j) => SavesWell(j)'
  BY <1>1, <1>2 DEF SavesWell, Saves
<1>5. Kept => Kept'
  BY <1>1, <1>2 DEF Kept
<1> QED BY <1>1, <1>2, <1>3, <1>4, <1>5 DEF Record

\* Handlers of the update, and what they have the flash do, outside a save.
LEMMA RecordApart ==
  ASSUME Record, Types, UNCHANGED recVars, ~ Saving, ~ Saving', Switching => Switching' \/ ~ on,
         \/ flash' = Erased(flash, RecordBase, SectorLen) /\ Switching
         \/ \A x \in RecordSector : flash'[x] = flash[x]
  PROVE  Record'
<1>1. UNCHANGED << nv, sum, buffer, on, change, written, events, handed >>
  BY DEF recVars
<1>2. Quiet' <=> Quiet
  BY <1>1 DEF Quiet
<1>3. \E n \in 0 .. RecordLen : TornAt(n)'
  <2>1. CASE flash' = Erased(flash, RecordBase, SectorLen)
    <3>1. 0 \in 0 .. RecordLen
      BY RecordSizes, Sizes
    <3> QED BY <2>1, <3>1, TornErased DEF Types, Flashes
  <2>2. CASE \A x \in RecordSector : flash'[x] = flash[x]
    <3>1. PICK n \in 0 .. RecordLen : TornAt(n)
      BY DEF Record
    <3>2. TornAt(n)'
      BY <2>2, <3>1, <1>1, SavedKept DEF RecordSector
    <3> QED BY <3>2
  <2> QED BY <2>1, <2>2
<1>4. ~ Switching' /\ on' /\ Quiet' => Kept'
  <2> SUFFICES ASSUME ~ Switching', on', Quiet' PROVE Kept'
    OBVIOUS
  <2>1. ~ Switching /\ on /\ Quiet
    BY <1>1, <1>2
  <2>2. Saved' = Saved
    BY <2>1, SavedKept DEF RecordSector
  <2>3. Kept
    BY <2>1 DEF Record, ProgramsWell, SavesWell, Saving
  <2> QED BY <1>1, <2>2, <2>3 DEF Kept
<1> QED BY <1>1, <1>3, <1>4 DEF Record
-----------------------------------------------------------------------------
(* The flash's part of a step, for the record. *)

\* A save that has not come to its program.
LEMMA SaveStarts ==
  ASSUME NEW j \in 0 .. SaveLen - 1, Saves(j)
  PROVE  /\ work # << >> /\ work[1] = SaveCommand(j + 1) /\ Len(work) \in Nat
         /\ ~ ProgramsRecord
<1>1. SaveLen \in Nat /\ Len(work) = SaveLen - j /\ 1 \in 1 .. SaveLen - j /\ j + 1 \in 1 .. SaveLen
      /\ \A n \in 1 .. SaveLen - j : work[n] = SaveCommand(j + n)
  BY SaveLens DEF Saves
<1>2. work[1] = SaveCommand(j + 1)
  BY <1>1
<1>3. SaveCommand(j + 1).cmd \in {"add", "store", "copy", "write", "erase"}
  BY <1>1, SaveKinds
<1>4. ~ ProgramsRecord
  <2> SUFFICES ASSUME ProgramsRecord PROVE FALSE
    OBVIOUS
  <2>1. work[1].cmd = "program"
    BY DEF ProgramsRecord, Program
  <2> QED BY <2>1, <1>2, <1>3
<1>5. Len(work) \in Nat /\ Len(work) >= 1
  BY <1>1
<1>6. work # << >>
  BY <1>5, SeqNone
<1> QED BY <1>2, <1>4, <1>5, <1>6

\* The command of a save the headset has come to, and how far it is then.
LEMMA SaveAt ==
  ASSUME NEW j \in 0 .. SaveLen - 1, Saves(j)
  PROVE  /\ j < DataLen => work[1] = Add(j + 1)
         /\ j = DataLen => work[1] = StoreSum
         /\ j = DataLen + 1 => work[1] = Erase(RecordBase, SectorLen)
         /\ j = DataLen + 2 => work[1] = Erase(RecordBase, PageLen)
         /\ j \in DataLen + 3 .. SaveLen - 2 => work[1] = Copy(j - DataLen - 2)
         /\ j = SaveLen - 1 => work[1] = Write
<1>1. work[1] = SaveCommand(j + 1)
  BY SaveStarts
<1>2. DataLen \in Nat \ {0} /\ SaveLen = 2 * DataLen + 6 /\ SaveLen \in Nat
  BY SaveLens
<1>3. PICK n \in 1 .. SaveLen : n = j + 1
  BY <1>2
<1>4. ASSUME j < DataLen PROVE work[1] = Add(j + 1)
  <2>1. n \in 1 .. DataLen
    BY <1>2, <1>3, <1>4
  <2> QED BY <2>1, <1>1, <1>3, SaveCommands
<1>5. ASSUME j \in DataLen + 3 .. SaveLen - 2 PROVE work[1] = Copy(j - DataLen - 2)
  <2>1. n \in DataLen + 4 .. SaveLen - 1 /\ n - DataLen - 3 = j - DataLen - 2
    BY <1>2, <1>3, <1>5
  <2>2. SaveCommand(n) = Copy(n - DataLen - 3)
    BY <2>1, SaveCommands
  <2> QED BY <2>1, <2>2, <1>1, <1>3
<1>6. ASSUME j = SaveLen - 1 PROVE work[1] = Write
  <2>1. n = SaveLen
    BY <1>2, <1>3, <1>6
  <2> QED BY <2>1, <1>1, <1>3, SaveCommands
<1>7. /\ j = DataLen => work[1] = StoreSum
      /\ j = DataLen + 1 => work[1] = Erase(RecordBase, SectorLen)
      /\ j = DataLen + 2 => work[1] = Erase(RecordBase, PageLen)
  <2>1. /\ j = DataLen => n = DataLen + 1
        /\ j = DataLen + 1 => n = DataLen + 2
        /\ j = DataLen + 2 => n = DataLen + 3
    BY <1>2, <1>3
  <2> QED BY <2>1, <1>1, <1>3, SaveCommands
<1> QED BY <1>4, <1>5, <1>6, <1>7

LEMMA SavingRecord ==
  ASSUME Record, Saving
  PROVE  \/ ProgramsRecord /\ ProgramsWell
         \/ \E j \in 0 .. SaveLen - 1 : SavesWell(j) /\ Saves(j)
  BY DEF Record, ProgramsWell, SavesWell

\* A command of the flash keeps the record.
LEMMA FlashDoesRecord ==
  ASSUME Types, Record, UNCHANGED << otaVars, recVars >>,
         NEW i \in Images, NEW f \in Nat, NEW h \in -1 .. ResetStage, NEW u \in Nat,
         Update(i, f, h, u), FlashStep
  PROVE  Record'
<1>1. UNCHANGED << nv, sum, buffer, on, change, written, events, handed >>
  BY DEF recVars
<1>2. handed \in [1 .. RecordLen -> Byte] /\ flash \in Flashes /\ RecordLen \in Nat
  BY RecordSizes, Sizes, SMTT(30) DEF Record, Types, Flashes
<1>3. CASE ~ Saving
  <2>1. /\ Switching' <=> Switching
        /\ ~ Saving'
        /\ \/ flash' = Erased(flash, RecordBase, SectorLen) /\ Switching
           \/ \A x \in RecordSector : flash'[x] = flash[x]
    BY <1>1, <1>2, <1>3, FlashDoesUpdate
  <2> QED BY <1>3, <2>1, RecordApart
<1>4. Quiet' <=> Quiet
  BY <1>1 DEF Quiet
<1>5. CASE Saving /\ ProgramsRecord /\ ProgramsWell
  <2>1. work' = << >> /\ flash' = Programmed(flash, RecordBase, handed)
    BY <1>2, <1>5, SaveStepIs
  <2>2. handed \in Seq(Byte) /\ Len(handed) = RecordLen
    BY <1>2
  <2>3. PICK n \in 0 .. RecordLen : n = RecordLen
    BY <1>2
  <2>4. TornAt(n)'
    BY <1>1, <1>2, <1>5, <2>1, <2>2, <2>3, TornProgrammed DEF ProgramsWell
  <2>5. flash' \in Flashes
    BY <1>2, <2>1, <2>2, ProgrammedIs, RecordSizes
  <2>6. Saved' = handed
    <3>1. Saved' = [k \in 1 .. RecordLen |-> flash'[RecordBase + k - 1]]
      BY <2>5 DEF Saved, QSPI_ReadFlashData
    <3>2. \A k \in 1 .. RecordLen : flash'[RecordBase + k - 1] = handed[k]
      BY <1>1, <2>3, <2>4 DEF TornAt
    <3> QED BY <1>2, <3>1, <3>2
  <2>7. Quiet' => Kept'
    <3> SUFFICES ASSUME Quiet' PROVE Kept'
      OBVIOUS
    <3>1. nv = handed /\ SumHolds(nv)
      BY <1>4, <1>5 DEF ProgramsWell
    <3> QED BY <1>1, <2>6, <3>1 DEF Kept
  <2>8. ~ Saving'
    BY <2>1, NothingLeft
  <2> QED BY <1>1, <2>4, <2>7, <2>8 DEF Record
<1>6. ASSUME NEW j \in 0 .. SaveLen - 1, Saving, SavesWell(j), Saves(j)
      PROVE  Record'
  <2>1. /\ j \in {DataLen + 1, DataLen + 2}
        /\ j + 1 \in 0 .. SaveLen - 1 /\ Saves(j + 1)' /\ Saving'
        /\ \/ j = DataLen + 1 /\ flash' = Erased(flash, RecordBase, SectorLen)
           \/ j = DataLen + 2 /\ flash' = Erased(flash, RecordBase, PageLen)
    BY <1>2, <1>6, SaveStepIs
  <2>2. DataLen \in Nat
    BY SaveLens
  <2>3. TornAt(0)'
    <3>1. CASE j = DataLen + 1 /\ flash' = Erased(flash, RecordBase, SectorLen)
      BY <1>2, <3>1, TornErased
    <3>2. CASE j = DataLen + 2 /\ flash' = Erased(flash, RecordBase, PageLen)
      <4>1. TornAt(0)
        BY <1>6, <2>2, <3>2 DEF SavesWell
      <4> QED BY <1>2, <3>2, <4>1, TornErased
    <3> QED BY <2>1, <3>1, <3>2
  <2>4. /\ Quiet => SumHolds(nv)
        /\ Len(buffer) = 0
    BY <1>6, <2>1, <2>2 DEF SavesWell
  <2>5. SavesWell(j + 1)'
    <3>1. PICK m : m = j + 1
      OBVIOUS
    <3>2. Saves(m)'
      BY <2>1, <3>1
    <3>3. m \in {DataLen + 2, DataLen + 3}
      BY <2>1, <2>2, <3>1
    <3>4. /\ ~ (m <= DataLen)
          /\ m <= DataLen + 3
          /\ 1 .. Len(buffer) = {}
      BY <2>2, <2>4, <3>3
    <3>5. SavesWell(m)'
      BY <1>1, <1>4, <2>3, <2>4, <3>2, <3>4 DEF SavesWell
    <3> QED BY <3>1, <3>5
  <2>6. \E m \in 0 .. SaveLen - 1 : SavesWell(m)'
    BY <2>1, <2>5
  <2>7. 0 \in 0 .. RecordLen
    BY <1>2
  <2>8. \E m \in 0 .. RecordLen : TornAt(m)'
    BY <2>3, <2>7
  <2> QED BY <1>1, <2>6, <2>8 DEF Record
<1> QED BY <1>3, <1>5, <1>6, SavingRecord
-----------------------------------------------------------------------------
(* The steps of the pairing record. *)

\* What they are to the update: nothing happens, or a save begins or goes on.
LEMMA RecordStepUpdate ==
  ASSUME Types, NEW i \in Images, NEW f \in Nat, NEW h \in -1 .. ResetStage, NEW u \in Nat,
         Update(i, f, h, u), up, UNCHANGED otaVars, flash' = flash,
         \/ work' = work /\ handed' = handed
         \/ (work = << >> \/ Saving) /\ Saving' /\ IsSeq(work')
  PROVE  Update(i, f, h, u)' /\ Types'
<1>1. Protocol(i, f, h, u) /\ Shape(i, f, h, u) /\ IsSeq(work)
  BY DEF Update, Shape, Types
<1>2. Pointer' = Pointer /\ UNCHANGED << addr, datalen >>
  BY DEF Pointer, PointerBytes, QSPI_ReadFlashData, otaVars
<1>3. CASE work' = work /\ handed' = handed
  <2>1. Switching' <=> Switching
    BY <1>3 DEF Switching
  <2>2. Protocol(i, f, h, u)'
    BY <1>1, <1>2, <2>1, ProtocolStays
  <2>3. Shape(i, f, h, u)'
    BY <1>1, <1>2, <1>3, ShapeKept
  <2> QED BY <1>1, <1>3, <2>2, <2>3 DEF Update, Shape, Types, otaVars
<1>4. CASE (work = << >> \/ Saving) /\ Saving' /\ IsSeq(work')
  <2>1. ~ Switching
    BY <1>4, SavingEnds, SwitchingIs
  <2>2. (Saving => work # << >> /\ work[Len(work)].cmd \in {"write", "program"})'
    BY SavingEnds, PTL
  <2>3. ~ Switching'
    BY <1>4, <2>2, SwitchingIs
  <2>4. Settled(i, f, h, u)
    BY <1>1, <1>4, Shapes
  <2>5. Protocol(i, f, h, u)'
    BY <1>1, <1>2, <2>1, <2>3, ProtocolStays
  <2>6. Filled(i, h)' = Filled(i, h)
    BY <1>2 DEF Filled
  <2>7. Settled(i, f, h, u)'
    BY <1>2, <1>4, <2>4, <2>6 DEF Settled
  <2> QED BY <1>4, <2>5, <2>7 DEF Update, Types, otaVars
<1> QED BY <1>3, <1>4

\* Outside a save the headset's next command is of the flash, an answer or the reset.
LEMMA UpdateKinds ==
  ASSUME Types, NEW i \in Images, NEW f \in Nat, NEW h \in -1 .. ResetStage, NEW u \in Nat,
         Update(i, f, h, u), ~ Saving, work # << >>
  PROVE  work[1].cmd \in {"answer", "erase", "program", "reset"}
<1>0. Len(work) \in Nat /\ Len(work) >= 1 /\ (Len(work) # 1 => 1 \in 1 .. Len(work) - 1)
  <2>1. PICK l \in Nat : l = Len(work) /\ l >= 1
    BY SeqTail DEF Types
  <2>2. l # 1 => 1 \in 1 .. l - 1
    BY <2>1
  <2> QED BY <2>1, <2>2
<1>1. Protocol(i, f, h, u)
      /\ \/ Settled(i, f, h, u) \/ Wiping(f, h, u)
         \/ Writing(i, f, h, u) \/ Changing(i, h)
  BY SeqTail DEF Types, Update
<1>2. CASE Settled(i, f, h, u)
  BY <1>2 DEF Settled, AnswersTo
<1>3. CASE Wiping(f, h, u)
  <2>1. PICK at \in First(addr) .. Beyond(addr) : Wipes(f, h, at)
    BY <1>3 DEF Wiping
  <2>2. CASE Len(work) = 1
    BY <2>1, <2>2 DEF Wipes, AnswersTo
  <2>3. CASE Len(work) # 1
    <3>1. 1 \in 1 .. Len(work) - 1
      BY <1>0, <2>3
    <3>2. work[1] = Erase(at + (1 - 1) * SectorLen, SectorLen)
      BY <2>1, <3>1 DEF Wipes
    <3> QED BY <3>2 DEF Erase
  <2> QED BY <2>2, <2>3
<1>4. CASE Writing(i, f, h, u)
  <2>1. \/ \E at : Pages(i, f, h, u, work, at)
        \/ \E at : work[1] = Erase(at, PageLen)
    BY <1>4 DEF Writing
  <2>2. ASSUME NEW at, work[1] = Erase(at, PageLen)
        PROVE  work[1].cmd = "erase"
    BY <2>2 DEF Erase
  <2>3. ASSUME NEW at, Pages(i, f, h, u, work, at)
        PROVE  work[1].cmd \in {"answer", "program"}
    <3>1. CASE Len(work) = 1
      BY <2>3, <3>1 DEF Pages, AnswersTo
    <3>2. CASE Len(work) # 1
      <4>1. 1 \in 1 .. Len(work) - 1
        BY <1>0, <3>2
      <4>2. PageAt(work[1], at + (1 - 1) * PageLen)
        BY <2>3, <4>1 DEF Pages
      <4> QED BY <4>2 DEF PageAt
    <3> QED BY <3>1, <3>2
  <2> QED BY <2>1, <2>2, <2>3
<1>5. CASE Changing(i, h)
  <2>1. PICK j \in 0 .. 4 : Switches(j)
    BY <1>5 DEF Changing
  <2>2. work[1] = SwitchCommand(j + 1) /\ j + 1 \in 1 .. 5
    <3>1. 1 \in 1 .. 5 - j
      BY <1>1, <2>1
    <3> QED BY <2>1, <3>1 DEF Switches
  <2>3. \A n \in 1 .. 5 : SwitchCommand(n).cmd \in {"erase", "program", "reset"}
    <3>1. /\ SwitchCommand(1).cmd = "erase" /\ SwitchCommand(2).cmd = "erase"
          /\ SwitchCommand(3).cmd = "erase" /\ SwitchCommand(4).cmd = "program"
          /\ SwitchCommand(5).cmd = "reset"
      BY DEF SwitchCommand, Erase, Program
    <3>2. \A n \in 1 .. 5 : n = 1 \/ n = 2 \/ n = 3 \/ n = 4 \/ n = 5
      OBVIOUS
    <3> QED BY <3>1, <3>2
  <2> QED BY <2>2, <2>3
<1> QED BY <1>1, <1>2, <1>3, <1>4, <1>5

\* A save's own steps, by the command they take.
LEMMA SaveSteps ==
  ASSUME Types, Record, NEW i \in Images, NEW f \in Nat, NEW h \in -1 .. ResetStage, NEW u \in Nat,
         Update(i, f, h, u), work # << >>,
         Head(work).cmd \in {"add", "store", "copy", "write"}
  PROVE  /\ Saving /\ Head(work) = work[1] /\ IsSeq(work)
         /\ \E j \in 0 .. SaveLen - 1 :
              /\ SavesWell(j) /\ Saves(j)
              /\ Head(work).cmd = "add" => j < DataLen /\ Head(work).i = j + 1
              /\ Head(work).cmd = "store" => j = DataLen
              /\ Head(work).cmd = "copy" =>
                   j \in DataLen + 3 .. SaveLen - 2 /\ Head(work).i = j - DataLen - 2
              /\ Head(work).cmd = "write" => j = SaveLen - 1
<1>1. IsSeq(work) /\ Head(work) = work[1]
  BY SeqTail DEF Types
<1>2. Saving
  BY <1>1, UpdateKinds
<1>3. ~ ProgramsRecord
  BY <1>1 DEF ProgramsRecord, Program
<1>4. PICK j \in 0 .. SaveLen - 1 : SavesWell(j) /\ Saves(j)
  BY <1>2, <1>3, SavingRecord
<1>5. DataLen \in Nat \ {0} /\ SaveLen = 2 * DataLen + 6 /\ SaveLen \in Nat
  BY SaveLens
<1>6. \/ j < DataLen \/ j = DataLen \/ j = DataLen + 1 \/ j = DataLen + 2
      \/ j \in DataLen + 3 .. SaveLen - 2 \/ j = SaveLen - 1
  BY <1>4, <1>5
<1>7. CASE j < DataLen
  <2>1. work[1] = Add(j + 1)
    BY <1>4, <1>7, SaveAt
  <2>2. work[1].cmd = "add" /\ work[1].i = j + 1
    BY <2>1 DEF Add
  <2> QED BY <1>1, <1>2, <1>4, <1>7, <2>2
<1>8. CASE j = DataLen
  <2>1. work[1].cmd = "store"
    BY <1>4, <1>8, SaveAt DEF StoreSum
  <2> QED BY <1>1, <1>2, <1>4, <1>8, <2>1
<1>9. CASE j = DataLen + 1 \/ j = DataLen + 2
  <2>1. work[1].cmd = "erase"
    BY <1>4, <1>9, SaveAt DEF Erase
  <2> QED BY <1>1, <2>1
<1>10. CASE j \in DataLen + 3 .. SaveLen - 2
  <2>1. work[1] = Copy(j - DataLen - 2)
    BY <1>4, <1>10, SaveAt
  <2>2. work[1].cmd = "copy" /\ work[1].i = j - DataLen - 2
    BY <2>1 DEF Copy
  <2> QED BY <1>1, <1>2, <1>4, <1>10, <2>2
<1>11. CASE j = SaveLen - 1
  <2>1. work[1].cmd = "write"
    BY <1>4, <1>11, SaveAt DEF Write
  <2> QED BY <1>1, <1>2, <1>4, <1>11, <2>1
<1> QED BY <1>6, <1>7, <1>8, <1>9, <1>10, <1>11
-----------------------------------------------------------------------------
(* The record, step by step. *)

\* A step of the core, or another that leaves a change not yet saved.
LEMMA RecordNoisy ==
  ASSUME Record, UNCHANGED << flash, work, sum, buffer, on, handed >>, ~ Quiet',
         nv' \in [1 .. RecordLen -> Byte], change' \in RecordData \cup {<< >>}, written' \in Nat,
         IsSeq(events')
  PROVE  Record'
<1>1. /\ (Saving' <=> Saving) /\ (Switching' <=> Switching)
      /\ \A n : TornAt(n)' <=> TornAt(n)
  BY SavingKept DEF Switching, TornAt
<1>2. ProgramsWell => ProgramsWell'
  BY <1>1 DEF ProgramsWell, ProgramsRecord
<1>3. \A j \in 0 .. SaveLen - 1 : SavesWell(j) => SavesWell(j)'
  BY <1>1 DEF SavesWell, Saves
<1> QED BY <1>1, <1>2, <1>3 DEF Record

LEMMA CoreBeginsKeeps ==
  ASSUME Record, CoreBegins
  PROVE  Record' /\ work' = work /\ handed' = handed /\ flash' = flash
<1>1. change' \in RecordData /\ UNCHANGED << nv, sum, buffer, on, written, events, handed, flash, work >>
  BY DEF CoreBegins
<1>2. change' # << >>
  <2>1. Len(change') = DataLen /\ DataLen # 0
    BY <1>1, RecAssumption, SaveLens
  <2> QED BY <2>1, SeqNone
<1> QED BY <1>1, <1>2, RecordNoisy DEF Record, Quiet

LEMMA CoreWritesKeeps ==
  ASSUME Record, CoreWrites
  PROVE  Record' /\ work' = work /\ handed' = handed /\ flash' = flash
<1>1. /\ written < Len(change) /\ written' = written + 1
      /\ nv' = [nv EXCEPT ![written + 1] = change[written + 1]]
      /\ UNCHANGED << sum, buffer, on, change, events, handed, flash, work >>
  BY DEF CoreWrites
<1>2. written \in Nat /\ change \in RecordData \cup {<< >>} /\ nv \in [1 .. RecordLen -> Byte]
  BY DEF Record
<1>3. change # << >>
  BY <1>1, <1>2, SeqNone
<1>4. change \in Seq(Byte)
  BY <1>2, <1>3, RecAssumption
<1>5. change[written + 1] \in Byte
  BY <1>1, <1>2, <1>4
<1>6. nv' \in [1 .. RecordLen -> Byte]
  BY <1>1, <1>2, <1>5
<1>7. written' \in Nat
  BY <1>1, <1>2
<1> QED BY <1>1, <1>2, <1>3, <1>6, <1>7, RecordNoisy DEF Record, Quiet

LEMMA CoreReportsKeeps ==
  ASSUME Record, CoreReports
  PROVE  Record' /\ work' = work /\ handed' = handed /\ flash' = flash
<1>1. PICK e : events' = Append(events, e)
  BY DEF CoreReports
<1>2. change' = << >> /\ written' = 0 /\ UNCHANGED << nv, sum, buffer, on, handed, flash, work >>
  BY DEF CoreReports
<1>3. IsSeq(events') /\ Len(events') = Len(events) + 1 /\ Len(events) \in Nat
  BY <1>1, SeqAppend DEF Record
<1>4. events' # << >>
  BY <1>3, SeqEmpty, SeqNone
<1> QED BY <1>2, <1>3, <1>4, RecordNoisy DEF Record, Quiet

\* The commands of a save.
LEMMA SaveBuilt ==
  ASSUME work' = Bt_calReconInfoCRC \o Bt_UpdateDeviceInfo
  PROVE  Saves(0)' /\ IsSeq(work')
<1>1. DataLen \in Nat \ {0} /\ SaveLen = 2 * DataLen + 6 /\ SaveLen \in Nat /\ RecordLen = DataLen + 2
  BY SaveLens
<1>2. PICK S : S = {SaveCommand(n) : n \in 1 .. SaveLen}
  OBVIOUS
<1>3. PICK a : a = [n \in 1 .. DataLen |-> Add(n)]
  OBVIOUS
<1>4. PICK b : b = << StoreSum >>
  OBVIOUS
<1>5. PICK c : c = << Erase(RecordBase, SectorLen), Erase(RecordBase, PageLen) >>
  OBVIOUS
<1>6. PICK d : d = [n \in 1 .. RecordLen |-> Copy(n)]
  OBVIOUS
<1>7. PICK e : e = << Write >>
  OBVIOUS
<1>8. work' = (a \o b) \o (c \o d \o e)
  BY <1>3, <1>4, <1>5, <1>6, <1>7, RecordSizes DEF Bt_calReconInfoCRC, Bt_UpdateDeviceInfo
<1>9. \A n \in 1 .. SaveLen : SaveCommand(n) \in S
  BY <1>2
<1>10. a \in Seq(S) /\ Len(a) = DataLen /\ \A n \in 1 .. DataLen : a[n] = SaveCommand(n)
  <2>1. \A n \in 1 .. DataLen : Add(n) = SaveCommand(n) /\ Add(n) \in S
    <3>1. \A n \in 1 .. DataLen : n \in 1 .. SaveLen
      BY <1>1
    <3> QED BY <3>1, <1>9, SaveCommands
  <2> QED BY <1>1, <1>3, <2>1
<1>11. b \in Seq(S) /\ Len(b) = 1 /\ b[1] = SaveCommand(DataLen + 1)
  <2>1. DataLen + 1 \in 1 .. SaveLen
    BY <1>1
  <2>2. StoreSum \in S /\ StoreSum = SaveCommand(DataLen + 1)
    BY <2>1, <1>9, SaveCommands
  <2> QED BY <1>4, <2>2
<1>12. /\ c \in Seq(S) /\ Len(c) = 2
       /\ c[1] = SaveCommand(DataLen + 2) /\ c[2] = SaveCommand(DataLen + 3)
  <2>1. DataLen + 2 \in 1 .. SaveLen /\ DataLen + 3 \in 1 .. SaveLen
    BY <1>1
  <2>2. PICK x, y : x = Erase(RecordBase, SectorLen) /\ y = Erase(RecordBase, PageLen)
    OBVIOUS
  <2>3. x = SaveCommand(DataLen + 2) /\ y = SaveCommand(DataLen + 3) /\ x \in S /\ y \in S
    BY <2>1, <2>2, <1>9, SaveCommands
  <2>4. c = << x, y >>
    BY <1>5, <2>2
  <2> QED BY <2>3, <2>4
<1>13. /\ d \in Seq(S) /\ Len(d) = RecordLen
       /\ \A n \in 1 .. RecordLen : d[n] = SaveCommand(DataLen + 3 + n)
  <2>1. ASSUME NEW n \in 1 .. RecordLen PROVE Copy(n) = SaveCommand(DataLen + 3 + n) /\ Copy(n) \in S
    <3>1. PICK m : m = DataLen + 3 + n
      OBVIOUS
    <3>2. m \in DataLen + 4 .. SaveLen - 1 /\ m \in 1 .. SaveLen /\ m - DataLen - 3 = n
      BY <3>1, <1>1
    <3>3. SaveCommand(m) = Copy(m - DataLen - 3)
      BY <3>2, SaveCommands
    <3> QED BY <3>1, <3>2, <3>3, <1>9
  <2>2. RecordLen \in Nat
    BY <1>1
  <2> QED BY <1>6, <2>1, <2>2
<1>14. e \in Seq(S) /\ Len(e) = 1 /\ e[1] = SaveCommand(SaveLen)
  <2>1. SaveLen \in 1 .. SaveLen
    BY <1>1
  <2>2. Write \in S /\ Write = SaveCommand(SaveLen)
    BY <2>1, <1>9, SaveCommands
  <2> QED BY <1>7, <2>2
<1>15. PICK ab : ab = a \o b
  OBVIOUS
<1>16. /\ ab \in Seq(S) /\ Len(ab) = DataLen + 1
       /\ (\A n \in 1 .. DataLen : ab[n] = SaveCommand(n)) /\ ab[DataLen + 1] = SaveCommand(DataLen + 1)
  <2>1. /\ ab \in Seq(S) /\ Len(ab) = Len(a) + Len(b)
        /\ (\A n \in 1 .. Len(a) : ab[n] = a[n]) /\ (\A n \in 1 .. Len(b) : ab[Len(a) + n] = b[n])
    <3>1. a \in Seq(S) /\ b \in Seq(S)
      BY <1>10, <1>11
    <3>2. /\ a \o b \in Seq(S) /\ Len(a \o b) = Len(a) + Len(b)
          /\ (\A n \in 1 .. Len(a) : (a \o b)[n] = a[n])
          /\ (\A n \in 1 .. Len(b) : (a \o b)[Len(a) + n] = b[n])
      BY <3>1, ConcatIs
    <3> QED BY <3>2, <1>15
  <2>2. 1 \in 1 .. Len(b)
    BY <1>11
  <2> QED BY <1>10, <1>11, <2>1, <2>2
<1>17. PICK cd : cd = c \o d
  OBVIOUS
<1>18. /\ cd \in Seq(S) /\ Len(cd) = RecordLen + 2
       /\ cd[1] = SaveCommand(DataLen + 2) /\ cd[2] = SaveCommand(DataLen + 3)
       /\ \A n \in 1 .. RecordLen : cd[2 + n] = SaveCommand(DataLen + 3 + n)
  <2>1. /\ cd \in Seq(S) /\ Len(cd) = Len(c) + Len(d)
        /\ (\A n \in 1 .. Len(c) : cd[n] = c[n]) /\ (\A n \in 1 .. Len(d) : cd[Len(c) + n] = d[n])
    <3>1. c \in Seq(S) /\ d \in Seq(S)
      BY <1>12, <1>13
    <3>2. /\ c \o d \in Seq(S) /\ Len(c \o d) = Len(c) + Len(d)
          /\ (\A n \in 1 .. Len(c) : (c \o d)[n] = c[n])
          /\ (\A n \in 1 .. Len(d) : (c \o d)[Len(c) + n] = d[n])
      BY <3>1, ConcatIs
    <3> QED BY <3>2, <1>17
  <2>2. 1 \in 1 .. Len(c) /\ 2 \in 1 .. Len(c)
    BY <1>12
  <2>3. Len(cd) = RecordLen + 2
    BY <1>1, <1>12, <1>13, <2>1
  <2> QED BY <1>12, <1>13, <2>1, <2>2, <2>3
<1>19. PICK cde : cde = cd \o e
  OBVIOUS
<1>20. /\ cde \in Seq(S) /\ Len(cde) = RecordLen + 3
       /\ (\A n \in 1 .. RecordLen + 2 : cde[n] = cd[n]) /\ cde[RecordLen + 3] = SaveCommand(SaveLen)
  <2>1. /\ cde \in Seq(S) /\ Len(cde) = Len(cd) + Len(e)
        /\ (\A n \in 1 .. Len(cd) : cde[n] = cd[n]) /\ (\A n \in 1 .. Len(e) : cde[Len(cd) + n] = e[n])
    <3>1. cd \in Seq(S) /\ e \in Seq(S)
      BY <1>14, <1>18
    <3>2. /\ cd \o e \in Seq(S) /\ Len(cd \o e) = Len(cd) + Len(e)
          /\ (\A n \in 1 .. Len(cd) : (cd \o e)[n] = cd[n])
          /\ (\A n \in 1 .. Len(e) : (cd \o e)[Len(cd) + n] = e[n])
      BY <3>1, ConcatIs
    <3> QED BY <3>2, <1>19
  <2>2. 1 \in 1 .. Len(e) /\ (RecordLen + 2) + 1 = RecordLen + 3
    BY <1>1, <1>14
  <2>3. cde[Len(cd) + 1] = e[1]
    BY <2>1, <2>2
  <2> QED BY <1>14, <1>18, <2>1, <2>2, <2>3
<1>21. work' = ab \o cde
  BY <1>8, <1>15, <1>17, <1>19
<1>22. /\ work' \in Seq(S) /\ Len(work') = Len(ab) + Len(cde)
       /\ (\A n \in 1 .. Len(ab) : work'[n] = ab[n]) /\ (\A n \in 1 .. Len(cde) : work'[Len(ab) + n] = cde[n])
  <2>1. ab \in Seq(S) /\ cde \in Seq(S)
    BY <1>16, <1>20
  <2>2. /\ ab \o cde \in Seq(S) /\ Len(ab \o cde) = Len(ab) + Len(cde)
        /\ (\A n \in 1 .. Len(ab) : (ab \o cde)[n] = ab[n])
        /\ (\A n \in 1 .. Len(cde) : (ab \o cde)[Len(ab) + n] = cde[n])
    BY <2>1, ConcatIs
  <2> QED BY <2>2, <1>21
<1>23. Len(work') = SaveLen
  BY <1>1, <1>16, <1>20, <1>22
<1>24. ASSUME NEW n \in 1 .. SaveLen PROVE work'[n] = SaveCommand(n)
  <2>1. CASE n \in 1 .. DataLen + 1
    <3>1. work'[n] = ab[n]
      BY <2>1, <1>16, <1>22
    <3>2. n \in 1 .. DataLen \/ n = DataLen + 1
      BY <2>1, <1>1
    <3> QED BY <3>1, <3>2, <1>16
  <2>2. CASE ~ (n \in 1 .. DataLen + 1)
    <3>1. PICK m \in 1 .. RecordLen + 3 : n = (DataLen + 1) + m
      <4>1. n - (DataLen + 1) \in 1 .. RecordLen + 3 /\ n = (DataLen + 1) + (n - (DataLen + 1))
        BY <2>2, <1>1
      <4> QED BY <4>1
    <3>2. work'[n] = cde[m]
      BY <3>1, <1>16, <1>20, <1>22
    <3>3. CASE m = RecordLen + 3
      <4>1. n = SaveLen
        BY <3>1, <3>3, <1>1
      <4> QED BY <4>1, <3>2, <3>3, <1>20
    <3>4. CASE m = 1
      <4>1. cde[1] = cd[1] /\ n = DataLen + 2
        BY <3>1, <3>4, <1>1, <1>20
      <4> QED BY <4>1, <3>2, <3>4, <1>18
    <3>5. CASE m = 2
      <4>1. cde[2] = cd[2] /\ n = DataLen + 3
        BY <3>1, <3>5, <1>1, <1>20
      <4> QED BY <4>1, <3>2, <3>5, <1>18
    <3>6. CASE m \notin {1, 2, RecordLen + 3}
      <4>1. PICK k \in 1 .. RecordLen : m = 2 + k
        <5>1. m - 2 \in 1 .. RecordLen /\ m = 2 + (m - 2)
          BY <3>1, <3>6, <1>1
        <5> QED BY <5>1
      <4>2. m \in 1 .. RecordLen + 2 /\ n = DataLen + 3 + k
        BY <4>1, <3>1, <1>1
      <4> QED BY <4>1, <4>2, <3>2, <1>18, <1>20
    <3> QED BY <3>3, <3>4, <3>5, <3>6
  <2> QED BY <2>1, <2>2
<1>25. IsSeq(work')
  BY <1>22, SeqIsSeq
<1>26. Saves(0)'
  <2>1. PICK z : z = 0
    OBVIOUS
  <2>2. z \in 0 .. SaveLen - 1 /\ SaveLen - z = SaveLen /\ \A n \in 1 .. SaveLen : z + n = n
    BY <2>1, <1>1
  <2>3. Saves(z)'
    BY <2>2, <1>23, <1>24 DEF Saves
  <2> QED BY <2>1, <2>3
<1> QED BY <1>25, <1>26
-----------------------------------------------------------------------------
(* The M0's steps for the record. *)

LEMMA Bytes == Byte \subseteq Nat /\ Radix \in Nat \ {0} /\ 0 .. Radix - 1 = Byte
BY Sizes DEF Byte, Radix

\* What a step of the record's handlers leaves.
SaveGoesOn ==
  \/ work' = work /\ handed' = handed
  \/ (work = << >> \/ Saving) /\ Saving' /\ IsSeq(work')

LEMMA NoSaving ==
  ASSUME work = << >>
  PROVE  ~ Saving /\ ~ Switching
BY SavingEnds, SwitchingIs

LEMMA DispatchKeeps ==
  ASSUME Types, Record, Dispatch
  PROVE  Record' /\ SaveGoesOn /\ flash' = flash
<1>1. /\ work = << >> /\ events # << >> /\ events' = Tail(events)
      /\ UNCHANGED << on, change, written, handed, flash >>
  BY DEF Dispatch
<1>2. /\ nv \in [1 .. RecordLen -> Byte] /\ handed \in [1 .. RecordLen -> Byte]
      /\ sum \in Nat /\ buffer \in Seq(Byte) /\ on \in BOOLEAN
      /\ change \in RecordData \cup {<< >>} /\ written \in Nat
      /\ IsSeq(events')
      /\ \E n \in 0 .. RecordLen : TornAt(n)'
  BY <1>1, SeqTail DEF Record, TornAt
<1>3. CASE ~ on
  <2>1. UNCHANGED << nv, sum, buffer, work >>
    BY <1>3 DEF Dispatch
  <2>2. ~ Saving'
    BY <1>1, <2>1, NothingLeft
  <2>3. ~ on'
    BY <1>1, <1>3
  <2>4. Record'
    BY <1>1, <1>2, <2>1, <2>2, <2>3 DEF Record
  <2>5. SaveGoesOn
    BY <1>1, <2>1 DEF SaveGoesOn
  <2> QED BY <1>1, <2>4, <2>5
<1>4. CASE on
  <2>1. /\ nv' = IF Head(events) = "TWS_EVT_MASTER_CONNECTED" THEN [nv EXCEPT ![1] = MasterMark] ELSE nv
        /\ work' = Bt_calReconInfoCRC \o Bt_UpdateDeviceInfo
        /\ sum' = 0 /\ buffer' = << >>
    BY <1>4 DEF Dispatch
  <2>2. nv' \in [1 .. RecordLen -> Byte]
    BY <1>2, <2>1, RecAssumption
  <2>3. Saves(0)' /\ IsSeq(work')
    BY <2>1, SaveBuilt
  <2>4. DataLen \in Nat \ {0} /\ SaveLen = 2 * DataLen + 6 /\ RecordLen \in Nat
    BY SaveLens
  <2>5. Total(SubSeq(nv', 1, 0)) = 0
    <3>1. nv' \in Seq(Nat)
      BY <2>2, <2>4, Bytes
    <3> QED BY <3>1, TotalSteps
  <2>6. Len(buffer') = 0 /\ buffer' \in Seq(Byte) /\ 1 .. Len(buffer') = {} /\ sum' \in Nat
    BY <2>1
  <2>7. PICK z \in 0 .. SaveLen - 1 : z = 0
    BY <2>4
  <2>8. SavesWell(z)'
    <3>1. z <= DataLen /\ ~ (z > DataLen) /\ ~ (z >= DataLen + 2) /\ z <= DataLen + 3
      BY <2>4, <2>7
    <3>2. Saves(z)' /\ sum' = Total(SubSeq(nv', 1, z))
      BY <2>1, <2>3, <2>5, <2>7
    <3> QED BY <2>6, <3>1, <3>2 DEF SavesWell
  <2>9. Saving'
    BY <2>8 DEF SavesWell, Saving
  <2> QED BY <1>1, <1>2, <2>2, <2>3, <2>6, <2>8, <2>9 DEF Record, SaveGoesOn
<1> QED BY <1>2, <1>3, <1>4

LEMMA AddByteKeeps ==
  ASSUME Types, Record, NEW i \in Images, NEW f \in Nat, NEW h \in -1 .. ResetStage, NEW u \in Nat,
         Update(i, f, h, u), AddByte
  PROVE  Record' /\ SaveGoesOn /\ flash' = flash
<1>1. /\ work # << >> /\ Head(work).cmd = "add" /\ sum' = sum + nv[Head(work).i] /\ work' = Tail(work)
      /\ UNCHANGED << nv, buffer, on, change, written, events, handed, flash >>
  BY DEF AddByte
<1>2. Saving /\ IsSeq(work)
  BY <1>1, SaveSteps
<1>3. PICK j \in 0 .. SaveLen - 1 : SavesWell(j) /\ Saves(j) /\ j < DataLen /\ Head(work).i = j + 1
  BY <1>1, SaveSteps
<1>4. DataLen \in Nat \ {0} /\ SaveLen = 2 * DataLen + 6 /\ RecordLen \in Nat /\ RecordLen = DataLen + 2
  BY SaveLens
<1>5. PICK k \in 0 .. SaveLen - 1 : k = j + 1 /\ j \in 0 .. SaveLen - 2 /\ k \in 1 .. RecordLen /\ k <= DataLen
  BY <1>3, <1>4
<1>6. Saves(k)' /\ IsSeq(work') /\ Saving'
  BY <1>1, <1>2, <1>3, <1>5, SaveAdvances
<1>7. nv \in [1 .. RecordLen -> Byte] /\ sum \in Nat /\ buffer \in Seq(Byte)
  BY DEF Record
<1>8. sum' = sum + nv[k] /\ sum' \in Nat
  <2>1. nv[k] \in Nat
    <3>1. nv[k] \in Byte
      BY <1>5, <1>7
    <3> QED BY <3>1, Bytes
  <2> QED BY <1>1, <1>3, <1>5, <1>7, <2>1, SMTT(30)
<1>9. Quiet => sum' = Total(SubSeq(nv, 1, k))
  <2>1. Quiet => sum = Total(SubSeq(nv, 1, j))
    BY <1>3, <1>5, <1>4 DEF SavesWell
  <2>2. nv \in Seq(Nat) /\ Len(nv) = RecordLen
    <3>1. nv \in [1 .. RecordLen -> Nat]
      BY <1>7, Bytes
    <3> QED BY <1>4, <3>1
  <2>3. Total(SubSeq(nv, 1, k)) = Total(SubSeq(nv, 1, k - 1)) + nv[k]
    BY <1>5, <2>2, TotalSteps
  <2>4. k - 1 = j
    BY <1>3, <1>5
  <2> QED BY <1>8, <2>1, <2>3, <2>4
<1>10. Len(buffer) = 0
  BY <1>3, <1>4, <1>5 DEF SavesWell
<1>11. SavesWell(k)'
  <2>1. ~ (k > DataLen) /\ ~ (k >= DataLen + 2) /\ k <= DataLen + 3
    BY <1>4, <1>5
  <2>2. 1 .. Len(buffer') = {} /\ Len(buffer') = 0
    BY <1>1, <1>10
  <2>3. (Quiet' <=> Quiet) /\ nv' = nv
    BY <1>1 DEF Quiet
  <2> QED BY <1>6, <1>9, <2>1, <2>2, <2>3 DEF SavesWell
<1>12. \E n \in 0 .. RecordLen : TornAt(n)'
  BY <1>1 DEF Record, TornAt
<1> QED BY <1>1, <1>2, <1>6, <1>8, <1>11, <1>12 DEF Record, SaveGoesOn

LEMMA WriteSumKeeps ==
  ASSUME Types, Record, NEW i \in Images, NEW f \in Nat, NEW h \in -1 .. ResetStage, NEW u \in Nat,
         Update(i, f, h, u), WriteSum
  PROVE  Record' /\ SaveGoesOn /\ flash' = flash
<1>1. /\ work # << >> /\ Head(work).cmd = "store" /\ nv' = SubSeq(nv, 1, DataLen) \o SumBytes(sum)
      /\ sum' = 0 /\ work' = Tail(work)
      /\ UNCHANGED << buffer, on, change, written, events, handed, flash >>
  BY DEF WriteSum, StoreSum
<1>2. Saving /\ IsSeq(work)
  BY <1>1, SaveSteps
<1>3. PICK j \in 0 .. SaveLen - 1 : SavesWell(j) /\ Saves(j) /\ j = DataLen
  BY <1>1, SaveSteps
<1>4. DataLen \in Nat \ {0} /\ SaveLen = 2 * DataLen + 6 /\ RecordLen \in Nat /\ RecordLen = DataLen + 2
  BY SaveLens
<1>5. PICK k \in 0 .. SaveLen - 1 : k = j + 1 /\ j \in 0 .. SaveLen - 2
  BY <1>3, <1>4
<1>6. Saves(k)' /\ IsSeq(work') /\ Saving'
  BY <1>1, <1>2, <1>3, <1>5, SaveAdvances
<1>7. nv \in [1 .. RecordLen -> Byte] /\ sum \in Nat /\ buffer \in Seq(Byte)
  BY DEF Record
<1>8. PICK a, b : a = SubSeq(nv, 1, DataLen) /\ b = SumBytes(sum)
  OBVIOUS
<1>9. a \in Seq(Byte) /\ Len(a) = DataLen /\ \A n \in 1 .. DataLen : a[n] = nv[n]
  <2>1. nv \in Seq(Byte) /\ Len(nv) = RecordLen
    BY <1>4, <1>7
  <2> QED BY <1>4, <1>8, <2>1
<1>10. b \in Seq(Byte) /\ Len(b) = 2
  <2>1. Radix \in Nat \ {0} /\ 0 .. Radix - 1 = Byte
    BY Bytes
  <2>2. sum \div Radix \in Nat
    BY <1>7, <2>1, Division
  <2>3. LowByte(sum) \in Byte /\ LowByte(sum \div Radix) \in Byte
    BY <1>7, <2>1, <2>2 DEF LowByte
  <2> QED BY <1>8, <2>3 DEF SumBytes
<1>11. /\ nv' \in Seq(Byte) /\ Len(nv') = RecordLen
       /\ (\A n \in 1 .. DataLen : nv'[n] = a[n]) /\ nv'[DataLen + 1] = b[1] /\ nv'[DataLen + 2] = b[2]
  <2>1. /\ a \o b \in Seq(Byte) /\ Len(a \o b) = Len(a) + Len(b)
        /\ (\A n \in 1 .. Len(a) : (a \o b)[n] = a[n])
        /\ (\A n \in 1 .. Len(b) : (a \o b)[Len(a) + n] = b[n])
    <3>1. a \in Seq(Byte) /\ b \in Seq(Byte)
      BY <1>9, <1>10
    <3> QED BY <3>1, ConcatIs
  <2>2. nv' = a \o b
    BY <1>1, <1>8
  <2>3. 1 \in 1 .. Len(b) /\ 2 \in 1 .. Len(b)
    BY <1>10
  <2> QED BY <1>4, <1>9, <1>10, <2>1, <2>2, <2>3
<1>12. nv' \in [1 .. RecordLen -> Byte]
  BY <1>4, <1>11
<1>13. Quiet => SumHolds(nv')
  <2>1. Quiet => sum = Total(a)
    BY <1>3, <1>4, <1>8 DEF SavesWell
  <2>2. PICK r : r = nv'
    OBVIOUS
  <2>3. SubSeq(r, 1, DataLen) = a
    <3>1. SubSeq(r, 1, DataLen) \in Seq(Byte) /\ Len(SubSeq(r, 1, DataLen)) = DataLen
          /\ \A n \in 1 .. DataLen : SubSeq(r, 1, DataLen)[n] = r[n]
      BY <1>4, <1>11, <2>2
    <3> QED BY <1>9, <1>11, <2>2, <3>1
  <2>4. SubSeq(r, DataLen + 1, RecordLen) = b
    <3>1. /\ SubSeq(r, DataLen + 1, RecordLen) \in Seq(Byte)
          /\ Len(SubSeq(r, DataLen + 1, RecordLen)) = 2
          /\ SubSeq(r, DataLen + 1, RecordLen)[1] = r[DataLen + 1]
          /\ SubSeq(r, DataLen + 1, RecordLen)[2] = r[DataLen + 2]
      <4>1. r \in Seq(Byte) /\ Len(r) = RecordLen /\ DataLen <= RecordLen /\ RecordLen - DataLen = 2
        BY <1>4, <1>11, <2>2
      <4>2. /\ SubSeq(r, DataLen + 1, RecordLen) \in Seq(Byte)
            /\ Len(SubSeq(r, DataLen + 1, RecordLen)) = RecordLen - DataLen
            /\ \A n \in 1 .. RecordLen - DataLen : SubSeq(r, DataLen + 1, RecordLen)[n] = r[DataLen + n]
        BY <1>4, <4>1, SubSeqIs
      <4>3. 1 \in 1 .. 2 /\ 2 \in 1 .. 2
        OBVIOUS
      <4> QED BY <4>1, <4>2, <4>3
    <3>2. PICK t : t = SubSeq(r, DataLen + 1, RecordLen)
      OBVIOUS
    <3>3. t \in Seq(Byte) /\ Len(t) = 2 /\ t[1] = b[1] /\ t[2] = b[2]
      BY <1>11, <2>2, <3>1, <3>2
    <3>4. t = b
      BY <1>10, <3>3
    <3> QED BY <3>2, <3>4
  <2> QED BY <1>8, <2>1, <2>2, <2>3, <2>4 DEF SumHolds
<1>14. Len(buffer) = 0
  BY <1>3, <1>4 DEF SavesWell
<1>15. SavesWell(k)'
  <2>1. ~ (k <= DataLen) /\ ~ (k >= DataLen + 2) /\ k <= DataLen + 3
    BY <1>3, <1>4, <1>5
  <2>2. 1 .. Len(buffer') = {} /\ Len(buffer') = 0
    BY <1>1, <1>14
  <2>3. Quiet' <=> Quiet
    BY <1>1, SMTT(30) DEF Quiet
  <2>4. Quiet' => SumHolds(nv)'
    BY <1>13, <2>3 DEF SumHolds, SumBytes, LowByte, Radix, Total
  <2> QED BY <1>6, <2>1, <2>2, <2>4 DEF SavesWell
<1>16. \E n \in 0 .. RecordLen : TornAt(n)'
  BY <1>1 DEF Record, TornAt
<1> QED BY <1>1, <1>2, <1>6, <1>12, <1>15, <1>16 DEF Record, SaveGoesOn

LEMMA CopyByteKeeps ==
  ASSUME Types, Record, NEW i \in Images, NEW f \in Nat, NEW h \in -1 .. ResetStage, NEW u \in Nat,
         Update(i, f, h, u), CopyByte
  PROVE  Record' /\ SaveGoesOn /\ flash' = flash
<1>1. /\ work # << >> /\ Head(work).cmd = "copy" /\ buffer' = Append(buffer, nv[Head(work).i])
      /\ work' = Tail(work)
      /\ UNCHANGED << nv, sum, on, change, written, events, handed, flash >>
  BY DEF CopyByte
<1>2. Saving /\ IsSeq(work)
  BY <1>1, SaveSteps
<1>3. PICK j \in 0 .. SaveLen - 1 :
        SavesWell(j) /\ Saves(j) /\ j \in DataLen + 3 .. SaveLen - 2 /\ Head(work).i = j - DataLen - 2
  BY <1>1, SaveSteps
<1>4. DataLen \in Nat \ {0} /\ SaveLen = 2 * DataLen + 6 /\ RecordLen \in Nat /\ RecordLen = DataLen + 2
  BY SaveLens
<1>5. PICK k \in 0 .. SaveLen - 1 : k = j + 1 /\ j \in 0 .. SaveLen - 2
  BY <1>3, <1>4
<1>6. Saves(k)' /\ IsSeq(work') /\ Saving'
  BY <1>1, <1>2, <1>3, <1>5, SaveAdvances
<1>7. nv \in [1 .. RecordLen -> Byte] /\ sum \in Nat /\ buffer \in Seq(Byte)
  BY DEF Record
<1>8. PICK l \in 1 .. RecordLen : l = j - DataLen - 2
  <2>1. j - DataLen - 2 \in 1 .. RecordLen
    BY <1>3, <1>4
  <2> QED BY <2>1
<1>9. /\ Quiet => SumHolds(nv)
      /\ TornAt(0)
      /\ Len(buffer) = IF j <= DataLen + 3 THEN 0 ELSE j - DataLen - 3
      /\ Quiet => \A n \in 1 .. Len(buffer) : buffer[n] = nv[n]
  <2>1. j > DataLen /\ j >= DataLen + 2
    BY <1>3, <1>4
  <2> QED BY <1>3, <2>1 DEF SavesWell
<1>10. Len(buffer) = l - 1
  <2>1. j = DataLen + 3 => l - 1 = 0
    BY <1>4, <1>8
  <2>2. j <= DataLen + 3 => j = DataLen + 3
    BY <1>3, <1>4
  <2>3. j - DataLen - 3 = l - 1
    BY <1>3, <1>4, <1>8
  <2> QED BY <1>9, <2>1, <2>2, <2>3
<1>11. nv[l] \in Byte /\ buffer' = Append(buffer, nv[l])
  BY <1>1, <1>3, <1>7, <1>8
<1>12. /\ buffer' \in Seq(Byte) /\ Len(buffer') = l
       /\ (\A n \in 1 .. l - 1 : buffer'[n] = buffer[n]) /\ buffer'[l] = nv[l]
  <2>1. Len(Append(buffer, nv[l])) = Len(buffer) + 1
    BY <1>7, <1>11
  <2>2. Append(buffer, nv[l]) \in Seq(Byte)
    BY <1>7, <1>11
  <2>3. /\ \A n \in 1 .. Len(buffer) : Append(buffer, nv[l])[n] = buffer[n]
        /\ Append(buffer, nv[l])[Len(buffer) + 1] = nv[l]
    BY <1>7, <1>11
  <2> QED BY <1>8, <1>10, <1>11, <2>1, <2>2, <2>3
<1>13. Quiet => \A n \in 1 .. l : buffer'[n] = nv[n]
  <2> SUFFICES ASSUME Quiet, NEW n \in 1 .. l PROVE buffer'[n] = nv[n]
    OBVIOUS
  <2>1. CASE n = l
    BY <1>12, <2>1
  <2>2. CASE n # l
    <3>1. n \in 1 .. l - 1
      BY <2>2
    <3>2. buffer[n] = nv[n]
      BY <1>9, <1>10, <3>1
    <3> QED BY <3>1, <3>2, <1>12
  <2> QED BY <2>1, <2>2
<1>14. SavesWell(k)'
  <2>1. /\ ~ (k <= DataLen) /\ k > DataLen /\ ~ (k <= DataLen + 3)
        /\ k - DataLen - 3 = l
    BY <1>3, <1>4, <1>5, <1>8
  <2>2. Quiet' <=> Quiet
    BY <1>1 DEF Quiet
  <2>3. TornAt(0)' /\ (SumHolds(nv)' <=> SumHolds(nv))
    BY <1>1, <1>9 DEF TornAt, SumHolds
  <2> QED BY <1>1, <1>6, <1>9, <1>12, <1>13, <2>1, <2>2, <2>3 DEF SavesWell
<1>15. \E n \in 0 .. RecordLen : TornAt(n)'
  BY <1>1 DEF Record, TornAt
<1> QED BY <1>1, <1>2, <1>6, <1>12, <1>14, <1>15 DEF Record, SaveGoesOn

LEMMA CopyByteFits ==
  ASSUME Types, Record, NEW i \in Images, NEW f \in Nat, NEW h \in -1 .. ResetStage, NEW u \in Nat,
         Update(i, f, h, u), CopyByte
  PROVE  Len(buffer') <= RecordLen
<1>1. work # << >> /\ Head(work).cmd = "copy" /\ buffer' = Append(buffer, nv[Head(work).i])
  BY DEF CopyByte
<1>2. PICK j \in 0 .. SaveLen - 1 : SavesWell(j) /\ j \in DataLen + 3 .. SaveLen - 2
  BY <1>1, SaveSteps
<1>3. DataLen \in Nat \ {0} /\ SaveLen = 2 * DataLen + 6 /\ RecordLen = DataLen + 2
  BY SaveLens
<1>4. buffer \in Seq(Byte) /\ Len(buffer) = IF j <= DataLen + 3 THEN 0 ELSE j - DataLen - 3
  BY <1>2 DEF Record, SavesWell
<1>5. Len(buffer) <= DataLen + 1 /\ Len(buffer) \in Nat
  BY <1>2, <1>3, <1>4
<1>6. Len(buffer') = Len(buffer) + 1
  <2>1. IsSeq(buffer)
    BY <1>4, SeqIsSeq
  <2> QED BY <1>1, <2>1, SeqAppend
<1> QED BY <1>3, <1>5, <1>6

LEMMA ProgramRecordKeeps ==
  ASSUME Types, Record, NEW i \in Images, NEW f \in Nat, NEW h \in -1 .. ResetStage, NEW u \in Nat,
         Update(i, f, h, u), ProgramRecord
  PROVE  Record' /\ SaveGoesOn /\ flash' = flash
<1>1. /\ work # << >> /\ Head(work).cmd = "write"
      /\ work' = << Program(RecordBase, buffer) >> /\ handed' = buffer /\ buffer' = << >>
      /\ UNCHANGED << nv, sum, on, change, written, events, flash >>
  BY DEF ProgramRecord, Write
<1>2. Saving /\ IsSeq(work)
  BY <1>1, SaveSteps
<1>3. PICK j \in 0 .. SaveLen - 1 : SavesWell(j) /\ Saves(j) /\ j = SaveLen - 1
  BY <1>1, SaveSteps
<1>4. DataLen \in Nat \ {0} /\ SaveLen = 2 * DataLen + 6 /\ RecordLen \in Nat /\ RecordLen = DataLen + 2
  BY SaveLens
<1>5. nv \in [1 .. RecordLen -> Byte] /\ sum \in Nat /\ buffer \in Seq(Byte)
  BY DEF Record
<1>6. /\ Quiet => SumHolds(nv)
      /\ TornAt(0) /\ Len(buffer) = RecordLen
      /\ Quiet => \A n \in 1 .. RecordLen : buffer[n] = nv[n]
  <2>1. j > DataLen /\ j >= DataLen + 2 /\ ~ (j <= DataLen + 3) /\ j - DataLen - 3 = RecordLen
    BY <1>3, <1>4
  <2> QED BY <1>3, <2>1 DEF SavesWell
<1>7. buffer \in [1 .. RecordLen -> Byte]
  BY <1>5, <1>6
<1>8. Quiet => nv = buffer
  BY <1>5, <1>6, <1>7
<1>9. TornAt(0)'
  <2>1. \A n \in 1 .. RecordLen : ~ (n <= 0)
    BY <1>4
  <2> QED BY <1>1, <1>6, <2>1 DEF TornAt
<1>10. ProgramsRecord' /\ IsSeq(work')
  <2>1. PICK c : c = Program(RecordBase, buffer)
    OBVIOUS
  <2>2. work' = << c >>
    BY <1>1, <2>1
  <2>3. Len(work') = 1 /\ work'[1] = c /\ work' \in Seq({c})
    BY <2>2
  <2>4. work'[1] = Program(RecordBase, handed')
    BY <1>1, <2>1, <2>3
  <2>5. ProgramsRecord'
    BY <2>3, <2>4 DEF ProgramsRecord, Program
  <2> QED BY <2>3, <2>5, SeqIsSeq
<1>11. ProgramsWell'
  <2>1. Quiet' <=> Quiet
    BY <1>1 DEF Quiet
  <2>2. SumHolds(nv)' <=> SumHolds(nv)
    BY <1>1 DEF SumHolds
  <2> QED BY <1>1, <1>6, <1>8, <1>9, <1>10, <2>1, <2>2 DEF ProgramsWell
<1>12. Saving'
  BY <1>10 DEF Saving
<1>13. 0 \in 0 .. RecordLen /\ buffer' \in Seq(Byte)
  BY <1>1, <1>4
<1>14. \E n \in 0 .. RecordLen : TornAt(n)'
  BY <1>9, <1>13
<1> QED BY <1>1, <1>2, <1>5, <1>7, <1>10, <1>11, <1>12, <1>13, <1>14 DEF Record, SaveGoesOn

LEMMA PowerOnKeeps ==
  ASSUME Types, Record, Bt_PowerOn
  PROVE  Record' /\ SaveGoesOn /\ flash' = flash
<1>1. /\ work = << >> /\ on' = TRUE /\ nv' = IF SumHolds(Saved) THEN Saved ELSE BlankRecord
      /\ UNCHANGED << sum, buffer, change, written, events, handed, flash, work >>
  BY DEF Bt_PowerOn
<1>2. Saved \in [1 .. RecordLen -> Byte]
  BY SavedIs DEF Types, Flashes
<1>3. BlankRecord \in [1 .. RecordLen -> Byte]
  BY Sizes DEF BlankRecord
<1>4. nv' \in [1 .. RecordLen -> Byte]
  BY <1>1, <1>2, <1>3
<1>5. Saved' = Saved /\ BlankRecord' = BlankRecord
  BY <1>1 DEF Saved, QSPI_ReadFlashData, BlankRecord
<1>6. Kept'
  <2>1. CASE SumHolds(Saved)
    <3>1. nv' = Saved /\ nv' = Saved'
      BY <1>1, <1>5, <2>1
    <3>2. SumHolds(Saved)'
      BY <1>5, <2>1 DEF SumHolds
    <3> QED BY <3>1, <3>2 DEF Kept
  <2>2. CASE ~ SumHolds(Saved)
    BY <1>1, <1>5, <2>2 DEF Kept
  <2> QED BY <2>1, <2>2
<1>7. ~ Saving'
  BY <1>1, NothingLeft
<1>8. \E n \in 0 .. RecordLen : TornAt(n)'
  BY <1>1 DEF Record, TornAt
<1> QED BY <1>1, <1>4, <1>6, <1>7, <1>8 DEF Record, SaveGoesOn

LEMMA PowerOffKeeps ==
  ASSUME Record, PowerOff
  PROVE  Record' /\ SaveGoesOn /\ flash' = flash
<1>1. /\ work = << >> /\ on' = FALSE
      /\ UNCHANGED << nv, sum, buffer, change, written, events, handed, flash, work >>
  BY DEF PowerOff
<1>2. ~ Saving'
  BY <1>1, NothingLeft
<1>3. \E n \in 0 .. RecordLen : TornAt(n)'
  BY <1>1 DEF Record, TornAt
<1> QED BY <1>1, <1>2, <1>3 DEF Record, SaveGoesOn

LEMMA RecordStepKeeps ==
  ASSUME Types, Record, NEW i \in Images, NEW f \in Nat, NEW h \in -1 .. ResetStage, NEW u \in Nat,
         Update(i, f, h, u), RecordStep
  PROVE  Record' /\ Update(i, f, h, u)' /\ Types' /\ flash' = flash /\ SaveGoesOn
<1>1. up /\ UNCHANGED otaVars
  BY DEF RecordStep
<1>2. Record' /\ SaveGoesOn /\ flash' = flash
  <2>1. CASE CoreBegins \/ CoreWrites \/ CoreReports
    BY <2>1, CoreBeginsKeeps, CoreWritesKeeps, CoreReportsKeeps DEF SaveGoesOn
  <2>2. CASE Dispatch
    BY <2>2, DispatchKeeps
  <2>3. CASE AddByte
    BY <2>3, AddByteKeeps
  <2>4. CASE WriteSum
    BY <2>4, WriteSumKeeps
  <2>5. CASE CopyByte
    BY <2>5, CopyByteKeeps
  <2>6. CASE ProgramRecord
    BY <2>6, ProgramRecordKeeps
  <2>7. CASE Bt_PowerOn
    BY <2>7, PowerOnKeeps
  <2>8. CASE PowerOff
    BY <2>8, PowerOffKeeps
  <2> QED BY <2>1, <2>2, <2>3, <2>4, <2>5, <2>6, <2>7, <2>8 DEF RecordStep, RecNext, SaveStep
<1> QED BY <1>1, <1>2, RecordStepUpdate DEF SaveGoesOn
-----------------------------------------------------------------------------
(* The steps of the update. *)

LEMMA UpdateStepKeeps ==
  ASSUME Types, Record, NEW i \in Images, NEW f \in Nat, NEW h \in -1 .. ResetStage, NEW u \in Nat,
         Update(i, f, h, u), UpdateStep
  PROVE  /\ Record' /\ Types'
         /\ \E j \in Images, g \in Nat, k \in -1 .. ResetStage, v \in Nat : Update(j, g, k, v)'
<1>1. UNCHANGED recVars /\ handed' = handed
  BY DEF UpdateStep, recVars
<1>2. ASSUME UNCHANGED << flash, work >> PROVE Record'
  BY <1>1, <1>2, RecordUndisturbed
<1>3. ASSUME ~ Saving, ~ Saving', ~ Switching, flash' = flash PROVE Record'
  BY <1>1, <1>3, RecordApart
<1>4. ASSUME Update(i, f, h, u)'
      PROVE  \E j \in Images, g \in Nat, k \in -1 .. ResetStage, v \in Nat : Update(j, g, k, v)'
  BY <1>4
<1>5. CASE TakeAnswer
  <2>1. UNCHANGED << repeats, otaState, armed, up, flash, work >>
    BY <1>5 DEF TakeAnswer
  <2>2. Types'
    BY <2>1 DEF Types, otaState
  <2>3. Update(i, f, h, u)'
    BY <1>1, <1>5, TakeAnswerKeeps
  <2> QED BY <1>2, <1>4, <2>1, <2>2, <2>3
<1>6. CASE Repeat
  <2>1. UNCHANGED << otaState, armed, up, flash, work >>
    BY <1>6 DEF Repeat
  <2>2. Update(i, f, h, u)' /\ repeats' \in 0 .. MaxRepeats
    BY <1>1, <1>6, RepeatKeeps
  <2>3. Types'
    BY <2>1, <2>2 DEF Types, otaState
  <2> QED BY <1>2, <1>4, <2>1, <2>2, <2>3
<1>7. CASE CancelUpdate
  <2>1. UNCHANGED << repeats, otaState, armed, up, flash, work >>
    BY <1>7 DEF CancelUpdate
  <2>2. Types'
    BY <2>1 DEF Types, otaState
  <2>3. Update(i, f, h, u)'
    BY <1>1, <1>7, CancelUpdateKeeps
  <2> QED BY <1>2, <1>4, <2>1, <2>2, <2>3
<1>8. CASE LinkLoss
  <2>1. UNCHANGED << repeats, otaState, armed, up, flash, work >>
    BY <1>8 DEF LinkLoss
  <2>2. Types'
    BY <2>1 DEF Types, otaState
  <2>3. Update(i, f, h, u)'
    BY <1>1, <1>8, LinkLossKeeps
  <2> QED BY <1>2, <1>4, <2>1, <2>2, <2>3
<1>9. CASE StartUpdate
  <2>1. UNCHANGED << otaState, armed, up, flash, work >>
    BY <1>9 DEF StartUpdate
  <2>2. /\ \E j \in Images, g \in Nat : Update(j, g, -1, 0)'
        /\ repeats' \in 0 .. MaxRepeats
    BY <1>1, <1>9, StartUpdateKeeps
  <2>3. Types'
    BY <2>1, <2>2 DEF Types, otaState
  <2>4. -1 \in -1 .. ResetStage /\ 0 \in Nat
    BY Stage
  <2>5. PICK j \in Images, g \in Nat : Update(j, g, -1, 0)'
    BY <2>2
  <2>6. \E k \in -1 .. ResetStage, v \in Nat : Update(j, g, k, v)'
    BY <2>4, <2>5
  <2> QED BY <1>2, <2>1, <2>3, <2>5, <2>6
<1>10. CASE Bt_SPPCallBack
  <2>1. /\ \E k \in -1 .. ResetStage, v \in Nat : Update(i, f, k, v)'
        /\ Types' /\ ~ Saving' /\ flash' = flash
    BY <1>10, MessageKeeps
  <2>2. work = << >>
    BY <1>10 DEF Bt_SPPCallBack
  <2>3. ~ Saving /\ ~ Switching
    BY <2>2, NoSaving
  <2> QED BY <1>3, <2>1, <2>3
<1>11. CASE SendAnswer
  <2>1. Update(i, f, h, u)' /\ work' = << >> /\ ~ Switching
    BY <1>1, <1>11, SendAnswerKeeps
  <2>2. /\ UNCHANGED << repeats, otaState, armed, up, flash >>
        /\ work # << >> /\ Head(work).cmd = "answer"
    BY <1>11 DEF SendAnswer
  <2>3. ~ Saving
    <3>1. Head(work) = work[1]
      BY <2>2, SeqTail DEF Types
    <3> QED BY <2>2, <3>1, SavingEnds
  <2>4. ~ Saving' /\ IsSeq(work')
    BY <2>1, NothingLeft
  <2>5. Types'
    BY <2>2, <2>4 DEF Types, otaState
  <2> QED BY <1>3, <1>4, <2>1, <2>2, <2>3, <2>4, <2>5
<1>12. CASE Bt_CBChangeCode
  <2>1. Update(i, f, h, u)' /\ IsSeq(work') /\ ~ Saving'
    BY <1>1, <1>12, ChangeCodeKeeps
  <2>2. work = << >> /\ armed' = FALSE /\ UNCHANGED << otaState, up, repeats, flash >>
    BY <1>12 DEF Bt_CBChangeCode
  <2>3. ~ Saving /\ ~ Switching
    BY <2>2, NoSaving
  <2>4. Types'
    BY <2>1, <2>2 DEF Types, otaState
  <2> QED BY <1>3, <1>4, <2>1, <2>2, <2>3, <2>4
<1>13. CASE Boot
  <2>1. UNCHANGED << otaState, armed, repeats, flash, work >> /\ up' = TRUE
    BY <1>13 DEF Boot
  <2>2. Types'
    BY <2>1 DEF Types, otaState
  <2>3. Update(i, f, h, u)'
    BY <1>1, <1>13, BootKeeps
  <2> QED BY <1>2, <1>4, <2>1, <2>2, <2>3
<1> QED BY <1>5, <1>6, <1>7, <1>8, <1>9, <1>10, <1>11, <1>12, <1>13 DEF UpdateStep, OtaNext
-----------------------------------------------------------------------------
(* The reset and the power failure. *)

\* A record that nobody wants any more.
LEMMA RecordForgotten ==
  ASSUME Record, Forgets, Down, \E n \in 0 .. RecordLen : TornAt(n)'
  PROVE  Record'
<1>1. /\ nv' = BlankRecord /\ sum' = 0 /\ buffer' = << >> /\ on' = FALSE
      /\ change' = << >> /\ written' = 0 /\ events' = << >>
      /\ handed' = handed /\ work' = << >>
  BY DEF Forgets, Down
<1>2. BlankRecord \in [1 .. RecordLen -> Byte]
  BY Sizes DEF BlankRecord
<1>3. ~ Saving' /\ IsSeq(events')
  BY <1>1, NothingLeft, SeqNone
<1>4. /\ nv' \in [1 .. RecordLen -> Byte] /\ handed' \in [1 .. RecordLen -> Byte]
      /\ sum' \in Nat /\ buffer' \in Seq(Byte) /\ on' \in BOOLEAN /\ ~ on'
      /\ change' \in RecordData \cup {<< >>} /\ written' \in Nat
  <2>1. handed \in [1 .. RecordLen -> Byte]
    BY DEF Record
  <2>2. on' \in BOOLEAN /\ ~ on'
    BY <1>1
  <2>3. sum' \in Nat /\ buffer' \in Seq(Byte) /\ written' \in Nat
    BY <1>1
  <2>4. nv' \in [1 .. RecordLen -> Byte] /\ handed' \in [1 .. RecordLen -> Byte]
    BY <1>1, <1>2, <2>1
  <2>5. change' \in RecordData \cup {<< >>}
    BY <1>1
  <2> QED BY <2>2, <2>3, <2>4, <2>5
<1> QED BY <1>3, <1>4 DEF Record

LEMMA ResetKeeps ==
  ASSUME Types, Record, NEW i \in Images, NEW f \in Nat, Reset
  PROVE  Record' /\ Types' /\ Update(i, f, ResetStage, 0)'
<1>1. Down /\ Forgets /\ flash' = flash /\ handed' = handed
  BY DEF Reset, Forgets
<1>2. \E n \in 0 .. RecordLen : TornAt(n)'
  BY <1>1 DEF Record, TornAt
<1>3. flash' \in Flashes
  BY <1>1 DEF Types, Flashes
<1> QED BY <1>1, <1>2, <1>3, RecordForgotten, DownKeeps

\* What a power failure leaves of the record is one that was handed to the flash, or the
\* first bytes of it.
LEMMA TornByFailure ==
  ASSUME Types, Record, NEW i \in Images, NEW f \in Nat, NEW h \in -1 .. ResetStage, NEW u \in Nat,
         Update(i, f, h, u), flash' \in Left, handed' = handed
  PROVE  flash' \in Flashes /\ \E n \in 0 .. RecordLen : TornAt(n)'
<1>1. flash \in Flashes /\ handed \in [1 .. RecordLen -> Byte] /\ RecordLen \in Nat /\ IsSeq(work)
  BY RecordSizes, Sizes, SMTT(30) DEF Types, Flashes, Record
<1>2. PICK m \in 0 .. RecordLen : TornAt(m)
  BY DEF Record
<1>3. CASE flash' = flash
  <2>1. TornAt(m)'
    BY <1>2, <1>3 DEF TornAt
  <2> QED BY <1>1, <1>3, <2>1
<1>4. CASE flash' # flash
  <2>1. work # << >> /\ IsFlash(Head(work))
    BY <1>1, <1>4, LeftOutside
  <2>2. IsCommand(Head(work)) /\ Touched(Head(work)) \subseteq Place /\ (Saving \/ addr \in Slots)
    BY <1>1, <2>1, Touches
  <2>3. flash' \in Flashes
    BY <1>1, <1>4, <2>1, <2>2, LeftOutside
  <2>4. Head(work) = work[1]
    BY <2>1, SeqTail DEF Types
  <2>5. \/ Head(work).cmd = "erase" /\ flash' = Erased(flash, Head(work).at, Head(work).len)
        \/ /\ Head(work).cmd = "program"
           /\ \E n \in 0 .. Len(Head(work).bytes) :
                flash' = Programmed(flash, Head(work).at, SubSeq(Head(work).bytes, 1, n))
    BY <1>4, <2>1 DEF Left, Done, IsFlash
  <2>6. CASE Saving
    <3>1. CASE ProgramsRecord /\ ProgramsWell
      <4>1. work[1] = Program(RecordBase, handed)
        BY <3>1 DEF ProgramsRecord
      <4>2. Head(work).cmd = "program" /\ Head(work).at = RecordBase /\ Head(work).bytes = handed
        BY <2>4, <4>1 DEF Program
      <4>3. Len(handed) = RecordLen /\ handed \in Seq(Byte) /\ IsSeq(handed)
        <5>1. Len(handed) = RecordLen /\ handed \in Seq(Byte)
          BY <1>1
        <5> QED BY <5>1, SeqIsSeq
      <4>4. PICK n \in 0 .. RecordLen : flash' = Programmed(flash, RecordBase, SubSeq(handed, 1, n))
        BY <2>5, <4>2, <4>3
      <4>5. PICK b : b = SubSeq(handed, 1, n)
        OBVIOUS
      <4>6. b \in Seq(Byte) /\ Len(b) = n /\ \A k \in 1 .. n : b[k] = handed[k]
        BY <4>3, <4>4, <4>5
      <4>7. TornAt(0)
        BY <3>1 DEF ProgramsWell
      <4>8. TornAt(n)'
        BY <1>1, <4>4, <4>5, <4>6, <4>7, TornProgrammed
      <4> QED BY <2>3, <4>8
    <3>2. ASSUME NEW j \in 0 .. SaveLen - 1, SavesWell(j), Saves(j)
          PROVE  \E n \in 0 .. RecordLen : TornAt(n)'
      <4>1. \/ j = DataLen + 1 /\ work[1] = Erase(RecordBase, SectorLen)
            \/ j = DataLen + 2 /\ work[1] = Erase(RecordBase, PageLen)
        BY <2>1, <2>4, <3>2, SaveErases
      <4>2. \/ j = DataLen + 1 /\ flash' = Erased(flash, RecordBase, SectorLen)
            \/ j = DataLen + 2 /\ flash' = Erased(flash, RecordBase, PageLen)
        <5>1. Head(work).cmd = "erase" /\ Head(work).at = RecordBase
          BY <2>4, <4>1 DEF Erase
        <5>2. j = DataLen + 1 => Head(work).len = SectorLen
          BY <2>4, <4>1, SaveLens DEF Erase
        <5>3. j = DataLen + 2 => Head(work).len = PageLen
          BY <2>4, <4>1, SaveLens DEF Erase
        <5> QED BY <2>5, <4>1, <5>1, <5>2, <5>3
      <4>3. j = DataLen + 2 => TornAt(0)
        <5>1. DataLen \in Nat
          BY SaveLens
        <5>2. j = DataLen + 2 => j >= DataLen + 2
          BY <5>1
        <5> QED BY <3>2, <5>2 DEF SavesWell
      <4>4. TornAt(0)'
        <5>1. CASE flash' = Erased(flash, RecordBase, SectorLen)
          BY <1>1, <5>1, TornErased
        <5>2. CASE j = DataLen + 2 /\ flash' = Erased(flash, RecordBase, PageLen)
          BY <1>1, <4>3, <5>2, TornErased
        <5> QED BY <4>2, <5>1, <5>2
      <4>5. 0 \in 0 .. RecordLen
        BY <1>1
      <4> QED BY <4>4, <4>5
    <3> QED BY <2>3, <2>6, <3>1, <3>2, SavingRecord
  <2>7. CASE ~ Saving /\ ~ Switching
    <3>1. addr \in Slots /\ Touched(Head(work)) \subseteq Region(addr)
      BY <2>2, <2>7 DEF Place
    <3>2. Only(Region(addr))
      BY <1>1, <2>1, <2>2, <3>1, OnlyTouched
    <3>3. \A x \in RecordSector : flash'[x] = flash[x]
      BY <3>1, <3>2, OnlySlot
    <3>4. TornAt(m)'
      BY <1>2, <3>3, SavedKept DEF RecordSector
    <3> QED BY <2>3, <3>4
  <2>8. CASE Switching /\ ~ Saving
    <3>1. Changing(i, h)
      <4>1. Shape(i, f, h, u)
        BY DEF Update, Shape
      <4> QED BY <1>1, <2>8, <4>1, Shapes
    <3>2. PICK j \in 0 .. 4 : Switches(j) /\ addr \in Slots
      BY <3>1 DEF Changing
    <3>3. /\ Head(work) = SwitchCommand(j + 1) /\ j \in 0 .. 3 /\ IsCommand(Head(work))
          /\ j # 0 => Touched(Head(work)) \subseteq PointerSector
      BY <2>1, <3>2, SwitchTouches
    <3>4. CASE j = 0
      <4>1. Head(work) = Erase(RecordBase, SectorLen)
        <5>1. SwitchCommand(0 + 1) = Erase(RecordBase, SectorLen)
          BY DEF SwitchCommand
        <5> QED BY <3>3, <3>4, <5>1
      <4>2. flash' = Erased(flash, RecordBase, SectorLen)
        <5>1. Head(work).cmd = "erase" /\ Head(work).at = RecordBase /\ Head(work).len = SectorLen
          BY <4>1 DEF Erase
        <5> QED BY <2>5, <5>1
      <4>3. TornAt(0)'
        BY <1>1, <4>2, TornErased
      <4>4. 0 \in 0 .. RecordLen
        BY <1>1
      <4> QED BY <2>3, <4>3, <4>4
    <3>5. CASE j # 0
      <4>1. Only(PointerSector)
        BY <1>1, <2>1, <2>2, <3>3, <3>5, OnlyTouched
      <4>2. \A x \in RecordSector : flash'[x] = flash[x]
        BY <4>1, OnlyPointer
      <4>3. TornAt(m)'
        BY <1>2, <4>2, SavedKept DEF RecordSector
      <4> QED BY <2>3, <4>3
    <3> QED BY <3>4, <3>5
  <2> QED BY <2>6, <2>7, <2>8
<1> QED BY <1>3, <1>4

LEMMA PowerFailureKeeps ==
  ASSUME Types, Record, NEW i \in Images, NEW f \in Nat, NEW h \in -1 .. ResetStage, NEW u \in Nat,
         Update(i, f, h, u), PowerFailure
  PROVE  Record' /\ Types' /\ Update(i, f, ResetStage, 0)'
<1>1. Down /\ Forgets /\ flash' \in Left /\ handed' = handed
  BY DEF PowerFailure, Forgets
<1>2. flash' \in Flashes /\ \E n \in 0 .. RecordLen : TornAt(n)'
  BY <1>1, TornByFailure
<1> QED BY <1>1, <1>2, RecordForgotten, DownKeeps
-----------------------------------------------------------------------------
(* The invariant. *)

\* A headset that boots the image it was made with.
LEMMA InitIInv == Init => IInv
<1> SUFFICES ASSUME Init PROVE IInv
  OBVIOUS
<1>1. /\ work = << >> /\ addr = 0 /\ datalen = 0 /\ datasum = 0 /\ packetid = 0
      /\ armed = FALSE /\ up = TRUE
      /\ received = << >> /\ answers = << >> /\ phone = Idle /\ repeats = 0
      /\ nv = BlankRecord /\ sum = 0 /\ buffer = << >> /\ on = FALSE
      /\ change = << >> /\ written = 0 /\ events = << >> /\ handed = BlankRecord
  BY DEF Init, OtaInit, RecInit
<1>2. PICK old \in Images, s \in Slots :
        flash = Programmed(Programmed([a \in Address |-> Blank], 0, PointerTo(s)), s, old)
  BY DEF Init, OtaInit
<1>3. PICK p : p = PointerTo(s)
  OBVIOUS
<1>4. PICK e : e = [a \in Address |-> Blank]
  OBVIOUS
<1>5. PICK g : g = Programmed(e, 0, p)
  OBVIOUS
<1>6. flash = Programmed(g, s, old)
  BY <1>2, <1>3, <1>4, <1>5
<1>7. /\ s \in Slots /\ s \in Nat /\ SectorLen \in Nat /\ SectorLen <= s /\ PointerLen <= SectorLen
      /\ PointerLen = 3 /\ SectorLen <= FlashLen /\ FlashLen \in Nat
  <2>1. /\ s \in Nat /\ First(s) \in Nat /\ SectorLen <= First(s) /\ First(s) <= s
    BY SlotSizes
  <2>2. SectorLen \in Nat /\ PageLen \in Nat /\ PointerLen <= PageLen /\ PageLen <= SectorLen
        /\ FlashLen \in Nat /\ SectorLen <= FlashLen /\ PointerLen = 3
    BY Apart, Sizes, RecordSizes DEF PointerLen
  <2>3. SectorLen <= s /\ PointerLen <= SectorLen
    BY <2>1, <2>2
  <2> QED BY <2>1, <2>2, <2>3
<1>8. p \in Seq(Byte) /\ Len(p) = PointerLen
  BY <1>3, SlotPointer
<1>9. e \in Flashes /\ \A x \in Address : e[x] = Blank
  BY <1>4, Sizes DEF Flashes
<1>10. old \in Seq(Byte) /\ Len(old) = ImageLen
  BY OtaAssumption
<1>11. /\ g \in Flashes
       /\ \A x \in Address :
            /\ x >= PointerLen => g[x] = Blank
            /\ x < PointerLen => g[x] = p[x + 1]
  <2>1. /\ g \in Flashes
        /\ \A x \in Address :
             /\ x < 0 \/ x >= 0 + Len(p) => g[x] = e[x]
             /\ 0 <= x /\ x < 0 + Len(p) /\ e[x] = Blank => g[x] = p[x - 0 + 1]
    <3>1. 0 \in Nat
      OBVIOUS
    <3> QED BY <1>5, <1>8, <1>9, <3>1, ProgrammedIs
  <2>2. \A x \in Address : x \in Nat /\ 0 <= x /\ x - 0 + 1 = x + 1
    BY <1>7 DEF Address
  <2>3. 0 + Len(p) = PointerLen
    BY <1>7, <1>8
  <2> QED BY <1>9, <2>1, <2>2, <2>3
<1>12. /\ flash \in Flashes
       /\ \A x \in Address : x < s \/ x >= s + ImageLen => flash[x] = g[x]
  BY <1>6, <1>7, <1>10, <1>11, ProgrammedIs
<1>13. Pointer = s
  <2>1. ASSUME NEW x \in 0 .. PointerLen - 1 PROVE flash[x] = p[x + 1]
    <3>1. x \in Address /\ x < s /\ x < PointerLen
      BY <1>7 DEF Address
    <3> QED BY <3>1, <1>11, <1>12
  <2>2. AddressIn(QSPI_ReadFlashData(flash, 0, PointerLen)) = s
    BY <1>3, <1>12, <2>1, WrittenPointer
  <2> QED BY <2>2 DEF Pointer, PointerBytes
<1>14. TornAt(0)
  <2>1. ASSUME NEW k \in 1 .. RecordLen PROVE flash[RecordBase + k - 1] = Blank
    <3>1. PICK x : x = RecordBase + k - 1
      OBVIOUS
    <3>2. /\ RecordBase \in Nat /\ RecordLen \in Nat /\ RecordLen <= SectorLen
          /\ SectorLen <= RecordBase /\ RecordBase + SectorLen <= FlashLen
      BY RecordSizes, Sizes
    <3>3. x \in Nat /\ x \in Address /\ x \in RecordBase .. RecordBase + SectorLen - 1 /\ x >= PointerLen
      BY <1>7, <3>1, <3>2 DEF Address
    <3>4. x \notin Region(s)
      BY <3>3, Apart
    <3>5. x < s \/ x >= s + ImageLen
      <4> SUFFICES ASSUME ~ (x < s), ~ (x >= s + ImageLen) PROVE FALSE
        OBVIOUS
      <4>1. ImageLen \in Nat
        BY Sizes
      <4>2. PICK n \in 1 .. ImageLen : n = x - s + 1
        <5>1. x - s + 1 \in 1 .. ImageLen
          BY <1>7, <3>3, <4>1
        <5> QED BY <5>1
      <4>3. s + n - 1 \in Region(s)
        BY <4>2, Body
      <4>4. s + n - 1 = x
        BY <1>7, <3>3, <4>2
      <4> QED BY <3>4, <4>3, <4>4
    <3>6. flash[x] = Blank
      BY <1>11, <1>12, <3>3, <3>5
    <3> QED BY <3>1, <3>6
  <2>2. \A k \in 1 .. RecordLen : ~ (k <= 0)
    BY RecordSizes
  <2> QED BY <2>1, <2>2 DEF TornAt
<1>15. 0 \notin Slots
  BY SlotSizes
<1>16. ~ Switching /\ ~ Saving
  BY <1>1, NoSaving
<1>17. Update(old, 0, ResetStage, 0)
  <2>1. PICK ks : ks = [n \in 1 .. 0 |-> 0]
    OBVIOUS
  <2>2. Stages(old, 0, ResetStage, ks)
    BY <1>1, <2>1, SeqNone DEF Stages
  <2>3. Talks(old, 0, ResetStage, 0, ks)
    BY <1>1, SeqNone DEF Talks
  <2>4. Counts(0, ResetStage, 0)
    BY <1>1, <1>15, <1>16, Stage DEF Counts
  <2>5. up /\ Pointer \in Slots
    BY <1>1, <1>7, <1>13
  <2>6. Protocol(old, 0, ResetStage, 0)
    BY <1>1, <2>2, <2>3, <2>4, <2>5, SeqNone DEF Protocol
  <2>7. Settled(old, 0, ResetStage, 0)
    BY <1>1, <1>15 DEF Settled
  <2> QED BY <2>6, <2>7 DEF Update
<1>18. Types
  <2>1. repeats \in 0 .. MaxRepeats
    BY <1>1, Sizes
  <2>2. armed \in BOOLEAN /\ up \in BOOLEAN
    BY <1>1
  <2>3. addr \in Nat /\ datalen \in Nat /\ datasum \in Nat /\ packetid \in Nat /\ IsSeq(work)
    BY <1>1, SeqNone
  <2> QED BY <1>12, <2>1, <2>2, <2>3 DEF Types, Flashes
<1>19. Record
  <2>1. BlankRecord \in [1 .. RecordLen -> Byte] /\ 0 \in 0 .. RecordLen
    BY RecordSizes, Sizes DEF BlankRecord
  <2>2. ~ on /\ on \in BOOLEAN
    BY <1>1
  <2>3. sum \in Nat /\ buffer \in Seq(Byte) /\ written \in Nat /\ change \in RecordData \cup {<< >>} /\ IsSeq(events)
    BY <1>1, SeqNone
  <2>4. nv \in [1 .. RecordLen -> Byte] /\ handed \in [1 .. RecordLen -> Byte]
    BY <1>1, <2>1
  <2> QED BY <1>14, <1>16, <2>1, <2>2, <2>3, <2>4 DEF Record
<1>20. old \in Images /\ 0 \in Nat /\ ResetStage \in -1 .. ResetStage
  BY Stage
<1>21. \E i \in Images, f \in Nat, h \in -1 .. ResetStage, u \in Nat : Update(i, f, h, u)
  BY <1>17, <1>20
<1> QED BY <1>18, <1>19, <1>21 DEF IInv

LEMMA Stutters ==
  ASSUME Types, NEW i, NEW f, NEW h, NEW u, Update(i, f, h, u), UNCHANGED vars
  PROVE  Types' /\ Update(i, f, h, u)'
<1>1. /\ UNCHANGED << addr, datalen, datasum, packetid, armed, up, received, answers, phone, repeats >>
      /\ UNCHANGED << flash, work, handed >>
  BY DEF vars, otaVars, recVars
<1>2. Types'
  BY <1>1 DEF Types
<1>3. Shape(i, f, h, u)'
  <2>1. Shape(i, f, h, u)
    BY DEF Update, Shape
  <2> QED BY <1>1, <2>1, ShapeKept
<1>4. PICK ks : Stages(i, f, h, ks) /\ Talks(i, f, h, u, ks)
  BY DEF Update, Protocol
<1>5. Stages(i, f, h, ks)' /\ Talks(i, f, h, u, ks)'
  BY <1>1, <1>4 DEF Stages, Talks
<1>6. (Switching' <=> Switching) /\ Pointer' = Pointer
  BY <1>1 DEF Switching, Pointer, PointerBytes
<1>7. Counts(f, h, u)'
  BY <1>1, <1>6 DEF Update, Protocol, Counts
<1>8. /\ IsSeq(received)' /\ IsSeq(answers)'
      /\ \A n \in 1 .. Len(answers') : AnswersTo(f, h, answers'[n])
  BY <1>1 DEF Update, Protocol
<1>9. /\ ~ up' => h = ResetStage /\ received' = << >> /\ phone' = Idle /\ work' = << >>
      /\ up' /\ ~ Switching' => Pointer' \in Slots
  BY <1>1, <1>6 DEF Update, Protocol
<1>10. Protocol(i, f, h, u)'
  BY <1>5, <1>7, <1>8, <1>9 DEF Protocol
<1> QED BY <1>2, <1>3, <1>10 DEF Update, Shape

\* Every step of the two users keeps it.
LEMMA NextIInv == IInv /\ [Next]_vars => IInv'
<1> SUFFICES ASSUME IInv, [Next]_vars PROVE IInv'
  OBVIOUS
<1>1. PICK i \in Images, f \in Nat, h \in -1 .. ResetStage, u \in Nat : Update(i, f, h, u)
  BY DEF IInv
<1>2. Types /\ Record
  BY DEF IInv
<1>3. ResetStage \in -1 .. ResetStage /\ 0 \in Nat
  BY Stage
<1>4. CASE UpdateStep
  BY <1>1, <1>2, <1>4, UpdateStepKeeps DEF IInv
<1>5. CASE RecordStep
  <2>1. Record' /\ Update(i, f, h, u)' /\ Types'
    BY <1>1, <1>2, <1>5, RecordStepKeeps
  <2> QED BY <2>1 DEF IInv
<1>6. CASE FlashDoes
  <2>1. FlashStep /\ UNCHANGED << otaVars, recVars >> /\ handed' = handed
    BY <1>6 DEF FlashDoes, recVars
  <2>2. handed \in [1 .. RecordLen -> Byte]
    BY <1>2 DEF Record
  <2>3. Record'
    BY <1>1, <1>2, <2>1, FlashDoesRecord
  <2>4. Update(i, f, h, u)' /\ Types'
    BY <1>1, <1>2, <2>1, <2>2, FlashDoesUpdate
  <2> QED BY <2>3, <2>4 DEF IInv
<1>7. CASE Reset
  <2>1. Record' /\ Types' /\ Update(i, f, ResetStage, 0)'
    BY <1>1, <1>2, <1>7, ResetKeeps
  <2> QED BY <1>3, <2>1 DEF IInv
<1>8. CASE PowerFailure
  <2>1. Record' /\ Types' /\ Update(i, f, ResetStage, 0)'
    BY <1>1, <1>2, <1>8, PowerFailureKeeps
  <2> QED BY <1>3, <2>1 DEF IInv
<1>9. CASE UNCHANGED vars
  <2>1. Types' /\ Update(i, f, h, u)'
    BY <1>1, <1>2, <1>9, Stutters
  <2>2. Record'
    BY <1>2, <1>9, RecordUndisturbed DEF vars
  <2> QED BY <2>1, <2>2 DEF IInv
<1> QED BY <1>4, <1>5, <1>6, <1>7, <1>8, <1>9 DEF Next
-----------------------------------------------------------------------------
(* What the invariant says of the record. *)

LEMMA SumTooHigh ==
  ASSUME NEW r \in [1 .. RecordLen -> Byte], r[RecordLen] = Blank
  PROVE  ~ SumHolds(r)
<1> SUFFICES ASSUME SumHolds(r) PROVE FALSE
  OBVIOUS
<1>1. /\ DataLen \in Nat \ {0} /\ DataLen <= Blank /\ RecordLen = DataLen + 2 /\ RecordLen \in Nat
      /\ Blank \in Nat \ {0} /\ Radix = Blank + 1
  BY SaveLens, RecordSizes, Sizes DEF Radix
<1>2. r \in Seq(Byte) /\ Len(r) = RecordLen
  BY <1>1
<1>3. PICK d : d = SubSeq(r, 1, DataLen)
  OBVIOUS
<1>4. d \in Seq(0 .. Blank) /\ d \in Seq(Nat) /\ Len(d) = DataLen
  <2>1. d \in Seq(Byte) /\ Len(d) = DataLen
    BY <1>1, <1>2, <1>3
  <2>2. d \in [1 .. DataLen -> Byte]
    BY <2>1
  <2>3. d \in [1 .. DataLen -> Nat]
    BY <2>2, Bytes
  <2> QED BY <1>1, <2>1, <2>3 DEF Byte
<1>5. PICK t \in Nat : t = Total(d) /\ t <= Blank * DataLen
  <2>1. Total(d) \in Nat
    BY <1>4, TotalSteps
  <2>2. Total(d) <= Blank * Len(d)
    BY <1>1, <1>4, TotalBound
  <2> QED BY <1>4, <2>1, <2>2
<1>6. PICK q \in Nat : q = t \div Radix /\ Radix * q <= t
  <2>1. Radix \in Nat \ {0}
    BY Bytes
  <2>2. PICK q \in Nat, m \in Nat : q = t \div Radix /\ m = t % Radix /\ t = Radix * q + m
    <3>1. /\ t % Radix \in 0 .. Radix - 1 /\ t \div Radix \in Nat
          /\ t = Radix * (t \div Radix) + (t % Radix)
      BY <2>1, Division
    <3>2. t % Radix \in Nat
      BY <2>1, <3>1
    <3> QED BY <3>1, <3>2
  <2>3. Radix * q \in Nat
    BY <2>1
  <2> QED BY <2>2, <2>3
<1>7. q < Blank
  <2>1. Blank * DataLen <= Blank * Blank
    <3>1. PICK k \in Nat : Blank = DataLen + k
      <4>1. Blank - DataLen \in Nat /\ Blank = DataLen + (Blank - DataLen)
        BY <1>1
      <4> QED BY <4>1
    <3>2. Blank * Blank = Blank * DataLen + Blank * k
      BY <1>1, <3>1
    <3>3. Blank * k \in Nat /\ Blank * DataLen \in Nat /\ Blank * Blank \in Nat
      BY <1>1, <3>1
    <3> QED BY <3>2, <3>3
  <2> SUFFICES ASSUME q >= Blank PROVE FALSE
    BY <1>1
  <2>2. PICK k \in Nat : q = Blank + k
    <3>1. q - Blank \in Nat /\ q = Blank + (q - Blank)
      BY <1>1
    <3> QED BY <3>1
  <2>3. Radix * q = Blank * Blank + Blank * k + Blank + k
    BY <1>1, <2>2
  <2>4. Blank * k \in Nat /\ Blank * DataLen \in Nat /\ Blank * Blank \in Nat
    BY <1>1, <2>2
  <2>5. Radix * q <= t /\ t <= Blank * DataLen
    BY <1>5, <1>6
  <2>6. Radix * q \in Nat
    BY <1>1
  <2> QED BY <1>1, <2>1, <2>2, <2>3, <2>4, <2>5, <2>6
<1>8. q % Radix = q
  <2>1. q = Radix * 0 + q /\ q \in 0 .. Radix - 1 /\ Radix \in Nat \ {0}
    BY <1>1, <1>7
  <2> QED BY <2>1, DivisionIs
<1>9. SumBytes(t)[2] = q
  BY <1>6, <1>8 DEF SumBytes, LowByte
<1>10. SubSeq(r, DataLen + 1, RecordLen)[2] = r[RecordLen]
  <2>1. \A n \in 1 .. RecordLen - DataLen : SubSeq(r, DataLen + 1, RecordLen)[n] = r[DataLen + n]
    BY <1>1, <1>2, SubSeqIs
  <2>2. 2 \in 1 .. RecordLen - DataLen /\ DataLen + 2 = RecordLen
    BY <1>1
  <2> QED BY <2>1, <2>2
<1>11. SumBytes(t) = SubSeq(r, DataLen + 1, RecordLen)
  BY <1>3, <1>5 DEF SumHolds
<1> QED BY <1>1, <1>7, <1>9, <1>10, <1>11

LEMMA Torn == IInv => TornRecordRejected
<1> SUFFICES ASSUME IInv, SumHolds(Saved) PROVE Saved = handed
  BY DEF TornRecordRejected
<1>1. flash \in Flashes /\ handed \in [1 .. RecordLen -> Byte] /\ RecordLen \in Nat \ {0}
  BY RecordSizes, Sizes, SMTT(30) DEF IInv, Types, Flashes, Record
<1>2. PICK n \in 0 .. RecordLen : TornAt(n)
  BY DEF IInv, Record
<1>3. CASE n = RecordLen
  BY <1>1, <1>2, <1>3, WholeRecord
<1>4. CASE n # RecordLen
  <2>1. RecordLen \in 1 .. RecordLen /\ ~ (RecordLen <= n)
    BY <1>1, <1>4
  <2>2. flash[RecordBase + RecordLen - 1] = Blank
    BY <1>2, <2>1 DEF TornAt
  <2>3. Saved[RecordLen] = Blank /\ Saved \in [1 .. RecordLen -> Byte]
    BY <1>1, <2>1, <2>2, SavedIs
  <2> QED BY <2>3, SumTooHigh
<1> QED BY <1>3, <1>4

LEMMA SavedWhenQuiet == IInv => RecordSaved
<1> SUFFICES ASSUME IInv, on, work = << >>, change = << >>, events = << >> PROVE Kept
  BY DEF RecordSaved, Kept
<1>1. ~ Saving /\ ~ Switching
  BY NoSaving
<1>2. ~ ProgramsWell /\ ~ \E j \in 0 .. SaveLen - 1 : SavesWell(j)
  BY <1>1 DEF Saving, ProgramsWell, SavesWell
<1> QED BY <1>1, <1>2 DEF IInv, Record, Quiet
-----------------------------------------------------------------------------
(* What the update promises: the image that is booted, and the one that is ready. *)

Boots == ImageAt(Pointer)
Ready == IF armed \/ Switching THEN ImageAt(addr) ELSE None

\* An image that was taken as a whole is there until the headset boots it.
LEMMA ReadyIs ==
  ASSUME Types, NEW i \in Images, NEW f \in Nat, NEW h \in -1 .. ResetStage, NEW u \in Nat,
         Update(i, f, h, u)
  PROVE  /\ (armed \/ Switching) /\ addr \in Slots => ImageAt(addr) = i
         /\ Ready \in {None, i} /\ i # None
<1>1. ASSUME armed \/ Switching, addr \in Slots
      PROVE  ImageAt(addr) = i
  <2>1. Counts(f, h, u) /\ Shape(i, f, h, u) /\ IsSeq(work)
    BY DEF Update, Shape, Protocol, Types
  <2>2. addr # 0
    BY <1>1, SlotSizes
  <2>3. h = EndStage /\ u = 0
    <3>1. h # -1 /\ h \notin 0 .. Count
      BY <1>1, <2>1, Stage DEF Counts
    <3>2. h # ResetStage
      BY <2>1, <2>2 DEF Counts
    <3>3. h = EndStage
      BY <3>1, <3>2, Stage
    <3> QED BY <2>1, <2>2, <3>3 DEF Counts
  <2>4. h \in Int /\ h >= 0 /\ ~ (h <= Count) /\ h # 0 /\ h \notin 1 .. Count
    BY <2>3, Stage
  <2>5. \A x \in Region(addr) : flash[x] = Filled(i, h)[x]
    BY <1>1, <2>1, <2>3, <2>4 DEF Shape, Settled, Wiping, Writing, Changing
  <2>6. PICK s \in Slots : s = addr
    BY <1>1
  <2>7. \A x \in Region(s) : flash[x] = Goal(i, s, ImageLen)[x]
    BY <2>4, <2>5, <2>6 DEF Filled
  <2>8. ImageAt(s) = i
    BY <2>7, ImageFilled
  <2> QED BY <2>6, <2>8
<1>2. addr \notin Slots => ImageAt(addr) = None
  BY DEF ImageAt
<1>3. i # None
  BY FlashUsersAssumption
<1> QED BY <1>1, <1>2, <1>3 DEF Ready

\* The image that is booted stays as long as the pointer and its slot do.
LEMMA BootsKept ==
  ASSUME Pointer' = Pointer, Pointer \in Slots => \A x \in Region(Pointer) : flash'[x] = flash[x]
  PROVE  Boots' = Boots
<1>1. CASE Pointer \notin Slots
  BY <1>1 DEF Boots, ImageAt
<1>2. CASE Pointer \in Slots
  <2>1. PICK s \in Slots : s = Pointer
    BY <1>2
  <2>2. ImageAt(s)' = ImageAt(s)
    BY <2>1, ImageKept
  <2>3. Boots = ImageAt(s)
    BY <2>1 DEF Boots, ImageAt
  <2>4. Boots' = ImageAt(s)'
    BY <2>1 DEF Boots, ImageAt
  <2> QED BY <2>2, <2>3, <2>4
<1> QED BY <1>1, <1>2

LEMMA BootsSame == ASSUME flash' = flash PROVE Boots' = Boots
<1>1. Pointer' = Pointer
  BY DEF Pointer, PointerBytes, QSPI_ReadFlashData
<1> QED BY <1>1, BootsKept

LEMMA BootsNone ==
  ASSUME Pointer' \notin Slots
  PROVE  Boots' = None
BY DEF Boots, ImageAt

\* The image that was taken is booted when the pointer names its slot.
LEMMA BootsReady ==
  ASSUME Types, NEW i \in Images, NEW f \in Nat, NEW h \in -1 .. ResetStage, NEW u \in Nat,
         Update(i, f, h, u), Switching, addr \in Slots,
         Pointer' = addr, \A x \in Region(addr) : flash'[x] = flash[x]
  PROVE  Boots' = Ready
<1>1. PICK s \in Slots : s = addr
  OBVIOUS
<1>2. ImageAt(s)' = ImageAt(s)
  BY <1>1, ImageKept
<1>3. Ready = ImageAt(s)
  BY <1>1 DEF Ready
<1>4. Boots' = ImageAt(s)'
  BY <1>1 DEF Boots, ImageAt
<1> QED BY <1>2, <1>3, <1>4
-----------------------------------------------------------------------------
(* The steps of the update, as ABUpdate's. *)

\* A step that leaves what is booted, outside a switch: an image passes or is given up.
LEMMA OutsideSwitch ==
  ASSUME NEW i \in Images, i # None, Ready \in {None, i}, Ready' \in {None, i},
         ~ Switching, ~ Switching', Boots' = Boots
  PROVE  [AB!Next]_(AB!vars)
<1>0. Switching' = Switching
  BY DEF Switching
<1>1. CASE Ready = Ready'
  BY <1>0, <1>1 DEF AB!vars, Ready, Boots
<1>2. CASE Ready = None /\ Ready' = i
  <2>1. AB!Pass(i)
    BY <1>0, <1>2 DEF AB!Pass, Ready, Boots
  <2> QED BY <2>1 DEF AB!Next
<1>3. CASE Ready = i /\ Ready' = None
  <2>1. AB!GiveUp
    BY <1>0, <1>3 DEF AB!GiveUp, Ready, Boots
  <2> QED BY <2>1 DEF AB!Next
<1> QED BY <1>1, <1>2, <1>3

LEMMA ABStutters ==
  ASSUME flash' = flash, addr' = addr, armed' = armed, Switching' <=> Switching
  PROVE  [AB!Next]_(AB!vars)
<1>1. Boots' = Boots
  BY BootsSame
<1>2. ImageAt(addr)' = ImageAt(addr)
  BY DEF ImageAt, InFlash, QSPI_ReadFlashData
<1>3. Ready' = Ready
  BY <1>2 DEF Ready
<1> QED BY <1>1, <1>3 DEF AB!vars, Ready, Boots
LEMMA ReadyAfter ==
  ASSUME Types', NEW i \in Images, NEW f \in Nat, NEW h \in -1 .. ResetStage, NEW u \in Nat,
         Update(i, f, h, u)'
  PROVE  Ready' \in {None, i}
<1>1. (Types /\ Update(i, f, h, u) => Ready \in {None, i})'
  BY ReadyIs, PTL
<1> QED BY <1>1

LEMMA ChangingSwitches ==
  ASSUME NEW i, NEW h
  PROVE  /\ IsSeq(work) /\ Changing(i, h) => Switching
         /\ (IsSeq(work) /\ Changing(i, h) => Switching)'
<1>1. ASSUME IsSeq(work), Changing(i, h) PROVE Switching
  <2>1. Shape(i, 0, h, 0)
    BY <1>1 DEF Shape
  <2> QED BY <1>1, <2>1, Shapes
<1> QED BY <1>1, PTL

\* A step of the update keeps its promise.
LEMMA UpdateStepImplements ==
  ASSUME Types, NEW i \in Images, NEW f \in Nat, NEW h \in -1 .. ResetStage, NEW u \in Nat,
         Update(i, f, h, u), Record, UpdateStep
  PROVE  [AB!Next]_(AB!vars)
<1>1. handed' = handed
  BY DEF UpdateStep, recVars
<1>2. Ready \in {None, i} /\ i # None
  BY ReadyIs
<1>3. CASE StartUpdate \/ TakeAnswer \/ Repeat \/ CancelUpdate \/ LinkLoss \/ Boot
  <2>1. UNCHANGED << otaState, armed, flash, work >>
    BY <1>3 DEF StartUpdate, TakeAnswer, Repeat, CancelUpdate, LinkLoss, Boot
  <2> QED BY <2>1, ABStutters DEF otaState, Switching
<1>4. CASE SendAnswer \/ Bt_SPPCallBack \/ (Bt_CBChangeCode /\ addr \notin Slots)
  <2>1. flash' = flash
    BY <1>4 DEF SendAnswer, Bt_SPPCallBack, Bt_CBChangeCode
  <2>2. Boots' = Boots
    BY <2>1, BootsSame
  <2>3. ~ Switching /\ ~ Switching'
    <3>1. CASE SendAnswer
      <4>1. work' = << >> /\ ~ Switching
        BY <1>1, <3>1, SendAnswerKeeps
      <4> QED BY <4>1, NothingLeft
    <3>2. CASE Bt_SPPCallBack
      <4>1. work = << >>
        BY <3>2 DEF Bt_SPPCallBack
      <4>2. (OnStart \/ OnData \/ OnEnd \/ OnReset) => ~ Switching'
        <5>1. work' = work => ~ Switching'
          BY <4>1, NothingLeft
        <5>2. ASSUME NEW w, NEW a, a.cmd = "answer", work' = Append(w, a)
              PROVE  ~ Switching'
          <6>1. work' # << >> => Last(work') = a
            BY <5>2 DEF Last
          <6> QED BY <5>2, <6>1 DEF Switching
        <5>3. \A e, b : Answer(e, b).cmd = "answer"
          BY DEF Answer
        <5>4. \A w, e, b : Doing(w, Answer(e, b)) => ~ Switching'
          BY <5>2, <5>3 DEF Doing
        <5> QED BY <5>1, <5>4 DEF OnStart, OnData, OnEnd, OnReset
      <4> QED BY <3>2, <4>1, <4>2, NoSaving DEF Bt_SPPCallBack
    <3>3. CASE Bt_CBChangeCode /\ addr \notin Slots
      <4>1. work' = << >>
        BY <1>1, <3>3, ChangeCodeKeeps
      <4>2. work = << >>
        BY <3>3 DEF Bt_CBChangeCode
      <4> QED BY <4>1, <4>2, NoSaving, NothingLeft
    <3> QED BY <1>4, <3>1, <3>2, <3>3
  <2>4. Types' /\ \E k \in -1 .. ResetStage, v \in Nat : Update(i, f, k, v)'
    <3>1. CASE SendAnswer
      <4>1. Update(i, f, h, u)'
        BY <1>1, <3>1, SendAnswerKeeps
      <4> QED BY <4>1, UpdateStepKeeps
    <3>2. CASE Bt_SPPCallBack
      BY <3>2, MessageKeeps
    <3>3. CASE Bt_CBChangeCode
      <4>1. Update(i, f, h, u)'
        BY <1>1, <3>3, ChangeCodeKeeps
      <4> QED BY <4>1, UpdateStepKeeps
    <3> QED BY <1>4, <3>1, <3>2, <3>3
  <2>5. PICK k \in -1 .. ResetStage, v \in Nat : Update(i, f, k, v)'
    BY <2>4
  <2>7. Ready' \in {None, i}
    BY <2>4, <2>5, ReadyAfter
  <2> QED BY <1>2, <2>2, <2>3, <2>7, OutsideSwitch
<1>5. CASE Bt_CBChangeCode /\ addr \in Slots
  <2>1. /\ work = << >> /\ armed /\ UNCHANGED << otaState, flash >>
    BY <1>5 DEF Bt_CBChangeCode
  <2>2. Update(i, f, h, u)' /\ Changing(i, h)'
    BY <1>1, <1>5, ChangeCodeKeeps
  <2>3. addr' = addr /\ ImageAt(addr)' = ImageAt(addr)
    BY <2>1 DEF otaState, ImageAt, InFlash, QSPI_ReadFlashData
  <2>4. Ready = ImageAt(addr) /\ Ready # None
    <3>1. Ready = ImageAt(addr)
      BY <2>1 DEF Ready
    <3> QED BY <1>2, <1>5, <2>1, <3>1, ReadyIs
  <2>5. Switching'
    <3>1. IsSeq(work')
      BY <1>1, <1>5, ChangeCodeKeeps
    <3> QED BY <2>2, <3>1, ChangingSwitches
  <2>6. Ready' = Ready
    BY <2>3, <2>4, <2>5 DEF Ready
  <2>7. Boots' = Boots
    BY <2>1, BootsSame
  <2>8. Switching' = TRUE
    BY <2>5 DEF Switching
  <2>9. AB!Switch
    BY <2>4, <2>6, <2>7, <2>8 DEF AB!Switch, Ready, Boots
  <2> QED BY <2>9 DEF AB!Next
<1> QED BY <1>3, <1>4, <1>5 DEF UpdateStep, OtaNext

LEMMA RecordStepImplements ==
  ASSUME Types, Record, NEW i \in Images, NEW f \in Nat, NEW h \in -1 .. ResetStage, NEW u \in Nat,
         Update(i, f, h, u), RecordStep
  PROVE  [AB!Next]_(AB!vars)
<1>1. flash' = flash /\ SaveGoesOn
  BY RecordStepKeeps
<1>2. addr' = addr /\ armed' = armed
  BY DEF RecordStep, otaVars
<1>3. Switching' <=> Switching
  <2>1. CASE work' = work
    BY <2>1 DEF Switching
  <2>2. CASE (work = << >> \/ Saving) /\ Saving'
    <3>1. ~ Switching
      BY <2>2, NoSaving, SavingEnds, SwitchingIs
    <3>2. (Saving => work # << >> /\ work[Len(work)].cmd \in {"write", "program"})'
      BY SavingEnds, PTL
    <3>3. ~ Switching'
      BY <2>2, <3>2, SwitchingIs
    <3> QED BY <3>1, <3>3
  <2> QED BY <1>1, <2>1, <2>2 DEF SaveGoesOn
<1> QED BY <1>1, <1>2, <1>3, ABStutters

\* What a command of the flash, or the part of one that a power failure left of it,
\* does to the image that is booted.
LEMMA OutsideBoots ==
  ASSUME Types, Record, NEW i \in Images, NEW f \in Nat, NEW h \in -1 .. ResetStage, NEW u \in Nat,
         Update(i, f, h, u), ~ Switching, work # << >>, IsFlash(Head(work)),
         flash' = Done(flash, Head(work)) \/ flash' \in Left
  PROVE  /\ Boots' = Boots
         /\ Saving \/ ~ armed
         /\ Saving => \A s \in Slots : \A x \in Region(s) : flash'[x] = flash[x]
<1>1. flash \in Flashes /\ handed \in [1 .. RecordLen -> Byte] /\ IsSeq(work) /\ Shape(i, f, h, u)
      /\ Protocol(i, f, h, u) /\ Head(work) = work[1]
  BY SeqTail DEF Types, Flashes, Record, Update, Shape
<1>2. IsCommand(Head(work)) /\ Touched(Head(work)) \subseteq Place /\ (Saving \/ addr \in Slots)
  BY <1>1, Touches
<1>3. CASE Saving
  <2>1. Only(RecordSector)
    BY <1>1, <1>2, <1>3, OnlyTouched DEF Place
  <2>2. Pointer' = Pointer /\ \A s \in Slots : \A x \in Region(s) : flash'[x] = flash[x]
    BY <2>1, OnlyRecord
  <2> QED BY <1>3, <2>2, BootsKept
<1>4. CASE ~ Saving
  <2>1. addr \in Slots /\ Only(Region(addr))
    <3>1. Touched(Head(work)) \subseteq Region(addr)
      BY <1>2, <1>4 DEF Place
    <3> QED BY <1>1, <1>2, <1>4, <3>1, OnlyTouched
  <2>2. /\ Pointer' = Pointer
        /\ \A t \in Slots \ {addr} : \A x \in Region(t) : flash'[x] = flash[x]
    BY <2>1, OnlySlot
  <2>3. h \in 0 .. Count
    <3>1. ~ Settled(i, f, h, u)
      BY <1>1, <1>4 DEF Settled, IsFlash, AnswersTo
    <3>2. ~ Changing(i, h)
      BY <1>1, Shapes
    <3> QED BY <1>1, <3>1, <3>2, Stage DEF Shape, Wiping, Writing
  <2>4. ~ armed /\ addr # Pointer
    BY <1>1, <2>1, <2>3 DEF Protocol, Counts
  <2>5. Pointer \in Slots => \A x \in Region(Pointer) : flash'[x] = flash[x]
    BY <2>2, <2>4
  <2> QED BY <2>2, <2>4, <2>5, <1>4, BootsKept
<1> QED BY <1>3, <1>4

LEMMA FlashDoesImplements ==
  ASSUME Types, Record, NEW i \in Images, NEW f \in Nat, NEW h \in -1 .. ResetStage, NEW u \in Nat,
         Update(i, f, h, u), FlashDoes
  PROVE  [AB!Next]_(AB!vars)
<1>1. work # << >> /\ IsFlash(Head(work)) /\ flash' = Done(flash, Head(work)) /\ FlashStep
      /\ UNCHANGED << otaVars, recVars >> /\ handed' = handed /\ addr' = addr /\ armed' = armed
  BY DEF FlashDoes, FlashStep, otaVars, recVars
<1>2. Ready \in {None, i} /\ i # None
  BY ReadyIs
<1>3. handed \in [1 .. RecordLen -> Byte] /\ Protocol(i, f, h, u) /\ Shape(i, f, h, u) /\ IsSeq(work)
  BY DEF Record, Update, Shape, Types
<1>4. Update(i, f, h, u)' /\ Types' /\ (Switching' <=> Switching)
  BY <1>1, <1>3, FlashDoesUpdate
<1>5. Ready' \in {None, i}
  BY <1>4, ReadyAfter
<1>6. CASE ~ Switching
  <2>1. Boots' = Boots
    BY <1>1, <1>6, OutsideBoots
  <2> QED BY <1>2, <1>4, <1>5, <1>6, <2>1, OutsideSwitch
<1>7. CASE Switching
  <2>1. Changing(i, h) /\ addr \in Slots
    BY <1>3, <1>7, Shapes DEF Changing
  <2>2. /\ \A s \in Slots : \A x \in Region(s) : flash'[x] = flash[x]
        /\ Pointer' = Pointer \/ Pointer' \notin Slots \/ Pointer' = addr
    BY <1>1, <1>3, <1>7, <2>1, SwitchStep
  <2>3. Boots' = Boots \/ Boots' = None \/ Boots' = Ready
    <3>1. CASE Pointer' = Pointer
      BY <2>2, <3>1, BootsKept
    <3>2. CASE Pointer' \notin Slots
      BY <3>2, BootsNone
    <3>3. CASE Pointer' = addr
      BY <1>7, <2>1, <2>2, <3>3, BootsReady
    <3> QED BY <2>2, <3>1, <3>2, <3>3
  <2>4. Ready' = Ready
    <3>1. PICK s \in Slots : s = addr
      BY <2>1
    <3>2. ImageAt(s)' = ImageAt(s)
      BY <2>2, ImageKept
    <3>3. Ready = ImageAt(s) /\ Ready' = ImageAt(s)'
      BY <1>1, <1>4, <1>7, <3>1 DEF Ready, ImageAt
    <3> QED BY <3>2, <3>3
  <2>5. Switching' = Switching
    BY <1>4, <1>7 DEF Switching
  <2>6. CASE Boots' = Boots
    BY <2>4, <2>5, <2>6 DEF AB!vars, Boots, Ready
  <2>7. CASE Boots' = None \/ Boots' = Ready
    <3>1. AB!Replace
      BY <1>7, <2>4, <2>5, <2>7 DEF AB!Replace, Boots, Ready
    <3> QED BY <3>1 DEF AB!Next
  <2> QED BY <2>3, <2>6, <2>7
<1> QED BY <1>6, <1>7

\* The reset that ends a switch.
LEMMA ResetImplements ==
  ASSUME Types, Record, NEW i \in Images, NEW f \in Nat, NEW h \in -1 .. ResetStage, NEW u \in Nat,
         Update(i, f, h, u), Reset
  PROVE  [AB!Next]_(AB!vars)
<1>1. /\ work # << >> /\ Head(work).cmd = "reset" /\ flash' = flash
      /\ armed' = FALSE /\ work' = << >>
  BY DEF Reset, Down
<1>2. IsSeq(work) /\ Len(work) \in Nat /\ Head(work) = work[1]
  BY <1>1, SeqTail DEF Types
<1>3. Switching /\ Changing(i, h) /\ addr \in Slots /\ Pointer = addr
  <2>1. Shape(i, f, h, u) /\ ~ Saving
    BY <1>1, <1>2, SavingEnds DEF Update, Shape
  <2>2. ~ Settled(i, f, h, u)
    BY <1>1, <1>2, <2>1 DEF Settled, AnswersTo
  <2>3. ~ Wiping(f, h, u)
    <3> SUFFICES ASSUME Wiping(f, h, u) PROVE FALSE
      OBVIOUS
    <3>1. PICK at \in First(addr) .. Beyond(addr) : Wipes(f, h, at)
      BY DEF Wiping
    <3>2. Len(work) = 1 => work[1].cmd = "answer"
      BY <3>1 DEF Wipes, AnswersTo
    <3>3. Len(work) # 1 => work[1].cmd = "erase"
      <4>1. PICK l \in Nat : l = Len(work) /\ l >= 1
        BY <1>1, <1>2, SeqTail
      <4>2. l # 1 => 1 \in 1 .. l - 1
        BY <4>1
      <4>3. 1 \in 1 .. Len(work) - 1 => work[1] = Erase(at + (1 - 1) * SectorLen, SectorLen)
        BY <3>1 DEF Wipes
      <4> QED BY <4>1, <4>2, <4>3 DEF Erase
    <3> QED BY <1>1, <1>2, <3>2, <3>3
  <2>4. ~ Writing(i, f, h, u)
    <3> SUFFICES ASSUME Writing(i, f, h, u) PROVE FALSE
      OBVIOUS
    <3>1. \/ \E at : Pages(i, f, h, u, work, at)
          \/ \E at : work[1] = Erase(at, PageLen)
      BY DEF Writing
    <3>2. ASSUME NEW at, work[1] = Erase(at, PageLen)
          PROVE  FALSE
      BY <1>1, <1>2, <3>2 DEF Erase
    <3>3. ASSUME NEW at, Pages(i, f, h, u, work, at)
          PROVE  FALSE
      <4>1. Len(work) = 1 => work[1].cmd = "answer"
        BY <3>3 DEF Pages, AnswersTo
      <4>2. PICK l \in Nat : l = Len(work) /\ l >= 1
        BY <1>1, <1>2, SeqTail
      <4>3. l # 1 => 1 \in 1 .. l - 1
        BY <4>2
      <4>4. 1 \in 1 .. Len(work) - 1 => PageAt(work[1], at + (1 - 1) * PageLen)
        BY <3>3 DEF Pages
      <4> QED BY <1>1, <1>2, <4>1, <4>2, <4>3, <4>4 DEF PageAt
    <3> QED BY <3>1, <3>2, <3>3
  <2>5. Changing(i, h)
    BY <2>1, <2>2, <2>3, <2>4 DEF Shape
  <2>6. PICK j \in 0 .. 4 : Switches(j)
    BY <2>5 DEF Changing
  <2>7. work[1] = SwitchCommand(j + 1) /\ j + 1 \in 1 .. 5
    <3>1. 1 \in 1 .. 5 - j
      OBVIOUS
    <3> QED BY <2>6, <3>1 DEF Switches
  <2>8. /\ SwitchCommand(1).cmd = "erase" /\ SwitchCommand(2).cmd = "erase"
        /\ SwitchCommand(3).cmd = "erase" /\ SwitchCommand(4).cmd = "program"
    BY DEF SwitchCommand, Erase, Program
  <2>9. j = 4
    <3>1. j + 1 = 1 \/ j + 1 = 2 \/ j + 1 = 3 \/ j + 1 = 4 \/ j = 4
      OBVIOUS
    <3> QED BY <1>1, <1>2, <2>7, <2>8, <3>1
  <2>10. Switching
    BY <1>2, <2>5, ChangingSwitches
  <2> QED BY <2>5, <2>6, <2>9, <2>10 DEF Switches, Changing
<1>4. Boots = Ready
  BY <1>3 DEF Boots, Ready
<1>5. Boots' = Boots
  BY <1>1, BootsSame
<1>6. ~ Switching' /\ Ready' = None
  BY <1>1, NothingLeft DEF Ready
<1>7. Switching' = FALSE
  BY <1>6 DEF Switching
<1>8. AB!Restart
  BY <1>3, <1>4, <1>5, <1>6, <1>7 DEF AB!Restart, Boots, Ready
<1> QED BY <1>8 DEF AB!Next

LEMMA PowerFailureImplements ==
  ASSUME Types, Record, NEW i \in Images, NEW f \in Nat, NEW h \in -1 .. ResetStage, NEW u \in Nat,
         Update(i, f, h, u), PowerFailure
  PROVE  [AB!Next]_(AB!vars)
<1>1. flash' \in Left /\ armed' = FALSE /\ work' = << >>
  BY DEF PowerFailure, Down
<1>2. ~ Switching' /\ Ready' = None
  BY <1>1, NothingLeft DEF Ready
<1>3. flash \in Flashes /\ IsSeq(work) /\ Shape(i, f, h, u) /\ handed \in [1 .. RecordLen -> Byte]
  BY DEF Types, Flashes, Update, Shape, Record
<1>4. Boots' = Boots \/ (Switching /\ Boots' \in {None, Ready})
  <2>1. CASE flash' = flash
    BY <2>1, BootsSame
  <2>2. CASE flash' # flash
    <3>1. work # << >> /\ IsFlash(Head(work))
      BY <1>1, <1>3, <2>2, LeftOutside
    <3>2. CASE ~ Switching
      BY <1>1, <3>1, <3>2, OutsideBoots
    <3>3. CASE Switching
      <4>1. Changing(i, h) /\ addr \in Slots
        BY <1>3, <3>3, Shapes DEF Changing
      <4>2. PICK j \in 0 .. 4 : Switches(j)
        BY <4>1 DEF Changing
      <4>3. /\ Head(work) = SwitchCommand(j + 1) /\ j \in 0 .. 3 /\ IsCommand(Head(work))
            /\ j = 0 => Touched(Head(work)) \subseteq RecordSector
            /\ j # 0 => Touched(Head(work)) \subseteq PointerSector
        BY <3>1, <4>1, <4>2, SwitchTouches
      <4>4. /\ j = 0 => Only(RecordSector)
            /\ j # 0 => Only(PointerSector)
        BY <1>1, <1>3, <3>1, <4>3, OnlyTouched
      <4>5. \A s \in Slots : \A x \in Region(s) : flash'[x] = flash[x]
        BY <4>4, OnlyRecord, OnlyPointer
      <4>6. CASE j = 0
        BY <4>4, <4>5, <4>6, OnlyRecord, BootsKept
      <4>7. CASE j \in {1, 2}
        <5>1. Head(work) = Erase(0, SectorLen) \/ Head(work) = Erase(0, PageLen)
          BY <4>3, <4>7 DEF SwitchCommand
        <5>2. Head(work).cmd = "erase" /\ Head(work).at = 0 /\ Head(work).len \in {SectorLen, PageLen}
          BY <5>1 DEF Erase
        <5>3. PICK l \in {SectorLen, PageLen} : flash' = Erased(flash, 0, l)
          BY <1>1, <2>2, <3>1, <5>2 DEF Left, Done
        <5>4. 2 \in Address /\ 0 <= 2 /\ 2 < 0 + l /\ l \in Nat
          BY Apart, RecordSizes, Sizes DEF Address, PointerLen
        <5>5. flash'[2] = Blank /\ flash' \in Flashes
          <6>1. /\ Erased(flash, 0, l) \in Flashes
                /\ \A x \in Address : 0 <= x /\ x < 0 + l => Erased(flash, 0, l)[x] = Blank
            <7>1. PICK m \in Nat, z \in Nat : m = l /\ z = 0
              BY <5>4
            <7>2. /\ Erased(flash, z, m) \in Flashes
                  /\ \A x \in Address : z <= x /\ x < z + m => Erased(flash, z, m)[x] = Blank
              BY <1>3, ErasedIs
            <7> QED BY <7>1, <7>2
          <6>2. Erased(flash, 0, l)[2] = Blank
            BY <5>4, <6>1
          <6> QED BY <5>3, <6>1, <6>2
        <5>6. Pointer' \notin Slots
          BY <5>5, BlankPointer DEF Pointer, PointerBytes
        <5> QED BY <3>3, <5>6, BootsNone
      <4>8. CASE j = 3
        <5>1. PICK p : p = PointerTo(addr)
          OBVIOUS
        <5>2. Head(work) = Program(0, p)
          BY <4>3, <4>8, <5>1 DEF SwitchCommand
        <5>3. Head(work).cmd = "program" /\ Head(work).at = 0 /\ Head(work).bytes = p
          BY <5>2 DEF Program
        <5>4. p \in Seq(Byte) /\ Len(p) = PointerLen /\ PointerLen = 3
          BY <4>1, <5>1, SlotPointer DEF PointerLen
        <5>5. PICK n \in 0 .. 3 : flash' = Programmed(flash, 0, SubSeq(p, 1, n))
          BY <1>1, <2>2, <3>1, <5>3, <5>4 DEF Left, Done
        <5>6. PICK b : b = SubSeq(p, 1, n)
          OBVIOUS
        <5>7. b \in Seq(Byte) /\ Len(b) = n /\ \A k \in 1 .. n : b[k] = p[k]
          BY <5>4, <5>5, <5>6
        <5>8. \A x \in 0 .. 2 : flash[x] = Blank
          BY <4>2, <4>8 DEF Switches, PointerLen
        <5>9. \A x \in 0 .. 2 : x \in Address
          BY Apart, RecordSizes, Sizes DEF Address, PointerLen
        <5>10. /\ flash' \in Flashes
               /\ \A x \in 0 .. 2 : /\ x >= n => flash'[x] = Blank
                                    /\ x < n => flash'[x] = p[x + 1]
          <6>1. /\ Programmed(flash, 0, b) \in Flashes
                /\ \A x \in Address :
                     /\ x < 0 \/ x >= 0 + Len(b) => Programmed(flash, 0, b)[x] = flash[x]
                     /\ 0 <= x /\ x < 0 + Len(b) /\ flash[x] = Blank
                          => Programmed(flash, 0, b)[x] = b[x - 0 + 1]
            <7>1. 0 \in Nat
              OBVIOUS
            <7> QED BY <1>3, <5>7, <7>1, ProgrammedIs
          <6>2. flash' = Programmed(flash, 0, b)
            BY <5>5, <5>6
          <6>3. ASSUME NEW x \in 0 .. 2, x < n
                PROVE  flash'[x] = p[x + 1]
            <7>1. x - 0 + 1 = x + 1 /\ x + 1 \in 1 .. n /\ 0 <= x /\ x < 0 + Len(b)
              BY <5>7, <6>3
            <7>2. flash'[x] = b[x + 1]
              BY <5>8, <5>9, <6>1, <6>2, <7>1
            <7> QED BY <5>7, <7>1, <7>2
          <6>4. ASSUME NEW x \in 0 .. 2, x >= n
                PROVE  flash'[x] = Blank
            <7>1. x >= 0 + Len(b)
              BY <5>7, <6>4
            <7> QED BY <5>8, <5>9, <6>1, <6>2, <7>1
          <6> QED BY <6>1, <6>2, <6>3, <6>4
        <5>11. CASE n = 3
          <6>1. \A x \in 0 .. PointerLen - 1 : flash'[x] = PointerTo(addr)[x + 1]
            <7>1. \A x \in 0 .. 2 : x < 3
              OBVIOUS
            <7>2. PointerLen - 1 = 2
              BY DEF PointerLen
            <7> QED BY <5>1, <5>10, <5>11, <7>1, <7>2
          <6>2. PICK s \in Slots : s = addr
            BY <4>1
          <6>3. Pointer' = s
            BY <5>10, <6>1, <6>2, WrittenPointer DEF Pointer, PointerBytes
          <6>4. Boots' = Ready
            BY <3>3, <4>1, <4>5, <6>2, <6>3, BootsReady
          <6> QED BY <3>3, <6>4
        <5>12. CASE n # 3
          <6>1. 2 \in 0 .. 2 /\ 2 >= n
            BY <5>12
          <6>2. flash'[2] = Blank
            BY <5>10, <6>1
          <6>3. Pointer' \notin Slots
            BY <5>10, <6>2, BlankPointer DEF Pointer, PointerBytes
          <6> QED BY <3>3, <6>3, BootsNone
        <5> QED BY <5>11, <5>12
      <4> QED BY <4>3, <4>6, <4>7, <4>8
    <3> QED BY <3>2, <3>3
  <2> QED BY <2>1, <2>2
<1>5. Switching' = FALSE
  BY <1>2 DEF Switching
<1>6. AB!PowerFailure
  BY <1>2, <1>4, <1>5 DEF AB!PowerFailure, Boots, Ready
<1> QED BY <1>6 DEF AB!Next

\* What the headset boots at first, and that no update is ready.
LEMMA InitImplements == Init => AB!Init
<1> SUFFICES ASSUME Init PROVE AB!Init
  OBVIOUS
<1>1. PICK old \in Images, s \in Slots :
        flash = Programmed(Programmed([a \in Address |-> Blank], 0, PointerTo(s)), s, old)
  BY DEF Init, OtaInit
<1>2. work = << >> /\ armed = FALSE
  BY DEF Init, OtaInit
<1>3. PICK p, e, g : p = PointerTo(s) /\ e = [a \in Address |-> Blank] /\ g = Programmed(e, 0, p)
  OBVIOUS
<1>4. p \in Seq(Byte) /\ Len(p) = PointerLen /\ e \in Flashes /\ \A x \in Address : e[x] = Blank
  BY <1>3, SlotPointer, Sizes DEF Flashes
<1>5. /\ s \in Nat /\ First(s) \in Nat /\ SectorLen <= First(s) /\ First(s) <= s
      /\ PointerLen = 3 /\ PointerLen <= PageLen /\ PageLen <= SectorLen
      /\ SectorLen \in Nat /\ PageLen \in Nat
  BY SlotSizes, Apart DEF PointerLen
<1>6. old \in Seq(Byte) /\ Len(old) = ImageLen /\ ImageLen \in Nat
  BY OtaAssumption, Sizes
<1>7. /\ g \in Flashes
      /\ \A x \in Address :
           /\ x >= PointerLen => g[x] = Blank
           /\ x < PointerLen => g[x] = p[x + 1]
  <2>1. /\ g \in Flashes
        /\ \A x \in Address :
             /\ x < 0 \/ x >= 0 + Len(p) => g[x] = e[x]
             /\ 0 <= x /\ x < 0 + Len(p) /\ e[x] = Blank => g[x] = p[x - 0 + 1]
    <3>1. 0 \in Nat
      OBVIOUS
    <3> QED BY <1>3, <1>4, <3>1, ProgrammedIs
  <2>2. \A x \in Address : x \in Nat /\ 0 <= x /\ x - 0 + 1 = x + 1
    BY Sizes DEF Address
  <2>3. 0 + Len(p) = PointerLen
    BY <1>4, <1>5
  <2> QED BY <1>4, <2>1, <2>2, <2>3
<1>8. /\ flash \in Flashes
      /\ \A x \in Address :
           /\ x < s \/ x >= s + ImageLen => flash[x] = g[x]
           /\ s <= x /\ x < s + ImageLen /\ g[x] = Blank => flash[x] = old[x - s + 1]
  <2>1. flash = Programmed(g, s, old)
    BY <1>1, <1>3
  <2>2. /\ Programmed(g, s, old) \in Flashes
        /\ \A x \in Address :
             /\ x < s \/ x >= s + Len(old) => Programmed(g, s, old)[x] = g[x]
             /\ s <= x /\ x < s + Len(old) /\ g[x] = Blank
                  => Programmed(g, s, old)[x] = old[x - s + 1]
    BY <1>5, <1>6, <1>7, ProgrammedIs
  <2> QED BY <1>6, <2>1, <2>2
<1>9. Pointer = s
  <2>1. ASSUME NEW x \in 0 .. PointerLen - 1
        PROVE  flash[x] = PointerTo(s)[x + 1]
    <3>1. x \in Address /\ x < s /\ x < PointerLen
      BY <1>5, RecordSizes, Sizes DEF Address
    <3> QED BY <3>1, <1>3, <1>7, <1>8
  <2>2. AddressIn(QSPI_ReadFlashData(flash, 0, PointerLen)) = s
    BY <1>8, <2>1, WrittenPointer
  <2> QED BY <2>2 DEF Pointer, PointerBytes
<1>10. InFlash(s, ImageLen) = old
  <2>1. ASSUME NEW n \in 1 .. ImageLen
        PROVE  flash[s + n - 1] = old[n]
    <3>1. PICK x : x = s + n - 1
      OBVIOUS
    <3>2. x \in Address
      BY <3>1, Body, Apart
    <3>3. s <= x /\ x < s + ImageLen /\ x - s + 1 = n /\ x >= PointerLen
      BY <3>1, <1>5, <1>6
    <3>4. flash[x] = old[x - s + 1]
      BY <1>7, <1>8, <3>2, <3>3
    <3> QED BY <3>1, <3>3, <3>4
  <2>2. old = [n \in 1 .. ImageLen |-> old[n]]
    BY <1>6
  <2> QED BY <2>1, <2>2 DEF InFlash, QSPI_ReadFlashData
<1>11. Boots = old
  BY <1>9, <1>10 DEF Boots, ImageAt
<1>12. ~ Switching /\ Ready = None
  BY <1>2, NoSaving DEF Ready
<1>13. Switching = FALSE
  BY <1>12 DEF Switching
<1> QED BY <1>11, <1>12, <1>13 DEF AB!Init, Boots, Ready

LEMMA NextImplements == IInv /\ [Next]_vars => [AB!Next]_(AB!vars)
<1> SUFFICES ASSUME IInv, [Next]_vars PROVE [AB!Next]_(AB!vars)
  OBVIOUS
<1>1. PICK i \in Images, f \in Nat, h \in -1 .. ResetStage, u \in Nat : Update(i, f, h, u)
  BY DEF IInv
<1>2. Types /\ Record
  BY DEF IInv
<1>3. CASE UpdateStep
  BY <1>1, <1>2, <1>3, UpdateStepImplements
<1>4. CASE RecordStep
  BY <1>1, <1>2, <1>4, RecordStepImplements
<1>5. CASE FlashDoes
  BY <1>1, <1>2, <1>5, FlashDoesImplements
<1>6. CASE Reset
  BY <1>1, <1>2, <1>6, ResetImplements
<1>7. CASE PowerFailure
  BY <1>1, <1>2, <1>7, PowerFailureImplements
<1>8. CASE UNCHANGED vars
  <2>1. flash' = flash /\ addr' = addr /\ armed' = armed /\ (Switching' <=> Switching)
    BY <1>8 DEF vars, otaVars, Switching
  <2> QED BY <2>1, ABStutters
<1> QED BY <1>3, <1>4, <1>5, <1>6, <1>7, <1>8 DEF Next
-----------------------------------------------------------------------------
(* The types of the record's state. *)

\* A report waits for its place before the core begins the change.
RecTypes == RecTypeOK /\ (change # << >> => Len(events) < MaxEvents)

LEMMA InitRecTypes == Init => RecTypes
<1> SUFFICES ASSUME Init PROVE RecTypes
  OBVIOUS
<1>1. /\ nv = BlankRecord /\ sum = 0 /\ buffer = << >> /\ on = FALSE
      /\ change = << >> /\ written = 0 /\ events = << >>
  BY DEF Init, RecInit
<1>2. BlankRecord \in [1 .. RecordLen -> Byte] /\ 0 \in 0 .. DataLen /\ RecordLen \in Nat
      /\ MaxEvents \in Nat
  BY SaveLens, RecordSizes, Sizes, RecAssumption DEF BlankRecord
<1>3. Len(buffer) = 0 /\ Len(events) = 0
  BY <1>1
<1>4. on \in BOOLEAN
  BY <1>1
<1> QED BY <1>1, <1>2, <1>3, <1>4 DEF RecTypes, RecTypeOK

LEMMA NextRecTypes == IInv /\ IInv' /\ RecTypes /\ [Next]_vars => RecTypes'
<1> SUFFICES ASSUME IInv, IInv', RecTypes, [Next]_vars PROVE RecTypes'
  OBVIOUS
<1>1. /\ nv' \in [1 .. RecordLen -> Byte] /\ sum' \in Nat /\ on' \in BOOLEAN
      /\ buffer' \in Seq(Byte) /\ IsSeq(events') /\ change' \in RecordData \cup {<< >>}
  BY DEF IInv, Record
<1>2. /\ DataLen \in Nat \ {0} /\ SaveLen = 2 * DataLen + 6 /\ RecordLen \in Nat /\ RecordLen = DataLen + 2
      /\ MaxEvents \in Nat
  BY SaveLens, RecAssumption
<1>3. /\ Len(buffer) <= RecordLen /\ written \in 0 .. DataLen /\ Len(events) <= MaxEvents
      /\ change # << >> => Len(events) < MaxEvents
      /\ IsSeq(events) /\ Len(events) \in Nat /\ change \in RecordData \cup {<< >>}
  BY SeqEmpty DEF RecTypes, RecTypeOK, IInv, Record
<1>4. ASSUME Len(buffer') <= RecordLen, written' \in 0 .. DataLen, Len(events') <= MaxEvents,
             change' # << >> => Len(events') < MaxEvents
      PROVE  RecTypes'
  BY <1>1, <1>4 DEF RecTypes, RecTypeOK
<1>5. CASE UNCHANGED << buffer, written, events, change >>
  BY <1>3, <1>4, <1>5
<1>6. CASE CoreBegins
  <2>1. Len(events) < MaxEvents /\ UNCHANGED << buffer, written, events >>
    BY <1>6 DEF CoreBegins
  <2> QED BY <1>3, <1>4, <2>1
<1>7. CASE CoreWrites
  <2>1. written < Len(change) /\ written' = written + 1 /\ UNCHANGED << buffer, events, change >>
    BY <1>7 DEF CoreWrites
  <2>2. change # << >>
    BY <1>3, <2>1
  <2>3. Len(change) = DataLen
    BY <1>3, <2>2, RecAssumption
  <2>4. written' \in 0 .. DataLen
    BY <1>2, <1>3, <2>1, <2>3
  <2> QED BY <1>3, <1>4, <2>1, <2>4
<1>8. CASE CoreReports
  <2>1. change # << >> /\ change' = << >> /\ written' = 0 /\ buffer' = buffer
        /\ \E e : events' = Append(events, e)
    BY <1>8 DEF CoreReports
  <2>2. Len(events') = Len(events) + 1
    BY <1>3, <2>1, SeqAppend
  <2>3. Len(events') <= MaxEvents
    BY <1>2, <1>3, <2>1, <2>2
  <2>4. written' \in 0 .. DataLen
    BY <1>2, <2>1
  <2> QED BY <1>3, <1>4, <2>1, <2>3, <2>4
<1>9. CASE Dispatch
  <2>1. events # << >> /\ events' = Tail(events) /\ UNCHANGED << change, written >>
        /\ (buffer' = buffer \/ buffer' = << >>)
    BY <1>9 DEF Dispatch
  <2>2. Len(events') = Len(events) - 1
    BY <1>3, <2>1, SeqTail
  <2>3. Len(events') <= MaxEvents /\ (change' # << >> => Len(events') < MaxEvents)
    BY <1>2, <1>3, <2>1, <2>2
  <2>4. Len(buffer') <= RecordLen
    BY <1>2, <1>3, <2>1
  <2> QED BY <1>3, <1>4, <2>1, <2>3, <2>4
<1>10. CASE CopyByte /\ RecordStep
  <2>1. UNCHANGED << written, events, change >>
    BY <1>10 DEF CopyByte
  <2>2. PICK i \in Images, f \in Nat, h \in -1 .. ResetStage, u \in Nat : Update(i, f, h, u)
    BY DEF IInv
  <2>3. Len(buffer') <= RecordLen
    BY <1>10, <2>2, CopyByteFits DEF IInv
  <2> QED BY <1>3, <1>4, <2>1, <2>3
<1>11. CASE ProgramRecord
  <2>1. buffer' = << >> /\ UNCHANGED << written, events, change >>
    BY <1>11 DEF ProgramRecord
  <2>2. Len(buffer') <= RecordLen
    BY <1>2, <2>1
  <2> QED BY <1>3, <1>4, <2>1, <2>2
<1>12. CASE Forgets
  <2>1. buffer' = << >> /\ change' = << >> /\ written' = 0 /\ events' = << >>
    BY <1>12 DEF Forgets
  <2>2. Len(buffer') = 0 /\ Len(events') = 0
    BY <2>1
  <2>3. written' \in 0 .. DataLen
    BY <1>2, <2>1
  <2> QED BY <1>2, <1>4, <2>1, <2>2, <2>3
<1>13. CASE RecordStep
  <2>1. CASE AddByte \/ WriteSum \/ Bt_PowerOn \/ PowerOff
    <3>1. UNCHANGED << buffer, written, events, change >>
      BY <2>1 DEF AddByte, WriteSum, Bt_PowerOn, PowerOff
    <3> QED BY <3>1, <1>5
  <2> QED BY <1>6, <1>7, <1>8, <1>9, <1>10, <1>11, <1>13, <2>1 DEF RecordStep, RecNext, SaveStep
<1>14. CASE UpdateStep \/ FlashDoes \/ UNCHANGED vars
  <2>1. UNCHANGED << buffer, written, events, change >>
    BY <1>14 DEF UpdateStep, FlashDoes, vars, recVars
  <2> QED BY <2>1, <1>5
<1> QED BY <1>12, <1>13, <1>14 DEF Next, Reset, PowerFailure
-----------------------------------------------------------------------------
(* The theorems. *)

\* The session of the update, what the flash has been told to do and what it holds fit
\* together at every step of Drv_bt.c's handlers, and so do the record in memory and the
\* record in the flash.
THEOREM Invariant == Spec => []IInv
<1>1. Init => IInv
  BY InitIInv
<1>2. IInv /\ [Next]_vars => IInv'
  BY NextIInv
<1> QED BY <1>1, <1>2, PTL DEF Spec

\* Both users keep the types of their state: what the update counts, the bytes of the
\* record and of its copy, which never outgrows the record, and the reports that wait.
THEOREM TypeCorrect == Spec => [](OtaTypeOK /\ RecTypeOK)
<1>1. Init => RecTypes
  BY InitRecTypes
<1>2. IInv /\ IInv' /\ RecTypes /\ [Next]_vars => RecTypes'
  BY NextRecTypes
<1>3. IInv => OtaTypeOK
  BY DEF IInv, Types, OtaTypeOK
<1>4. RecTypes => RecTypeOK
  BY DEF RecTypes
<1> QED BY <1>1, <1>2, <1>3, <1>4, Invariant, PTL DEF Spec

\* A record that passes the check of Bt_PowerOn is the one last handed to the flash as a
\* whole: what a power failure leaves of Bt_UpdateDeviceInfo never passes.
THEOREM TornRecordIsRejected == Spec => []TornRecordRejected
BY Invariant, Torn, PTL

\* When the core's reports have been dealt with, the flash has the record in memory, with
\* its sum, unless the record was blanked.
THEOREM RecordIsSaved == Spec => []RecordSaved
BY Invariant, SavedWhenQuiet, PTL

\* The update over the air boots the image it had until another is there, complete and
\* checked, whatever the phone repeats, loses or gives up; only a power failure inside
\* Bt_CBChangeCode leaves it with none.
THEOREM UpdateImplements == Spec => ImplementsABUpdate
<1>1. Init => AB!Init
  BY InitImplements
<1>2. IInv /\ [Next]_vars => [AB!Next]_(AB!vars)
  BY NextImplements
<1> QED BY <1>1, <1>2, Invariant, PTL DEF Spec, AB!Spec, ImplementsABUpdate
=============================================================================
