---------------------------- MODULE Keypad_proofs ----------------------------
(***************************************************************************)
(* Proofs about Keypad, for any number of keys, any polarity and any       *)
(* timing of them; that no event is lost, for two keys and timers that are *)
(* not too short.                                                          *)
(*                                                                         *)
(* The stage a key is in tells whether it is held and whether its timer    *)
(* runs (Shape).  Two keys in a gesture at a time know of each other       *)
(* (Overlap), so that a key nobody overlaps is alone: the lock is given    *)
(* back by nobody else, and the shared counter counts its clicks (Counted).*)
(*                                                                         *)
(* Room in the queue is a matter of time: what is queued is never more     *)
(* than what the ticks of the turns that took an event have paid for       *)
(* (Roomy).                                                                *)
(***************************************************************************)
EXTENDS Keypad, SequenceTheorems, TLAPS

Busy(k) == press_type[k] # "NONE"
Collects(k) == press_type[k] = "MULTI" /\ key_timer[k] # Off

Shape ==
  \A k \in Key :
    /\ press_type[k] = "NONE" => key_timer[k] = Off /\ ~ Held(k)
    /\ press_type[k] = "MULTI" /\ key_timer[k] = Off => Held(k)
    /\ press_type[k] \notin {"NONE", "MULTI"} => key_timer[k] # Off /\ Held(k)

Overlap == \A j, k \in Key : j # k /\ Busy(j) /\ Busy(k) => j \in overlapped

Counted ==
  /\ multi_count > 0 => \E k \in Key : Collects(k)
  /\ \A k \in Key : Collects(k) =>
       /\ ~ Held(k) => own[k] > 0
       /\ k \notin overlapped => multi_count = own[k]

IInv == TypeOK /\ Shape /\ Overlap /\ Counted /\ GestureKeepsAwake
-----------------------------------------------------------------------------
(* The queue. *)

LEMMA OfferType ==
  ASSUME NEW q \in Seq(Key \X Event), NEW k \in Key, NEW e \in Event
  PROVE  Offer(q, << k, e >>) \in Seq(Key \X Event)
BY DEF Offer

LEMMA ClickEvents ==
  ASSUME NEW n \in Nat
  PROVE  /\ ClickEvent(n) \in {"NON", "TAP", "DOUBLE", "TRIPLE"}
         /\ n > 0 => ClickEvent(n) \in {"TAP", "DOUBLE", "TRIPLE"}
<1>1. n = 0 \/ n = 1 \/ n = 2 \/ n >= 3
  OBVIOUS
<1> QED BY <1>1 DEF ClickEvent
-----------------------------------------------------------------------------
(* What the scan has seen of the keys. *)

LEMMA ScanHeld ==
  ASSUME TypeOK, NEW k \in Key, Scans(k)
  PROVE  /\ Held(k) <=> k \in mappingOld
         /\ Held(k)' <=> k \in mapping
         /\ \A j \in Key \ {k} : Held(j)' <=> Held(j)
BY DEF TypeOK, Scans, Held, Idle, Key

LEMMA IdleHeld ==
  ASSUME TypeOK, Idle, KeyNum \in Nat
  PROVE  \A k \in Key : Held(k) <=> k \in mapping
BY DEF TypeOK, Held, Idle, Key

LEMMA SameHeld ==
  ASSUME UNCHANGED sample
  PROVE  \A k \in Key : Held(k)' <=> Held(k)
BY DEF sample, Held
-----------------------------------------------------------------------------
(* Steps of the scan. *)

LEMMA ScanSameStep ==
  ASSUME IInv, NEW k \in Key, ScanSame(k)
  PROVE  IInv'
<1> USE KeypadAssumption DEF IInv
<1>1. /\ Held(k) <=> k \in mappingOld
      /\ Held(k)' <=> k \in mapping
      /\ \A j \in Key \ {k} : Held(j)' <=> Held(j)
  BY ScanHeld DEF ScanSame
<1>2. TypeOK'
  <2>2. queue' \in Seq(Key \X Event)
    BY DEF TypeOK, ScanSame, keys, lpm
  <2>3. scan' \in 0 .. KeyNum
    BY DEF TypeOK, Scans, Idle, Key, ScanSame
  <2> QED BY <2>2, <2>3 DEF TypeOK, Scans, ScanSame, keys, lpm, history
<1>3. Shape'
  BY <1>1 DEF Shape, TypeOK, Scans, Idle, Key, ScanSame, keys, lpm, history
<1>4. Overlap'
  BY <1>1 DEF Overlap, Busy, TypeOK, Scans, Idle, Key, ScanSame, keys, lpm, history
<1>5. Counted'
  BY <1>1 DEF Counted, Collects, Shape, Overlap, Busy, TypeOK, Scans, Idle, Key, ScanSame,
     keys, lpm, history
<1>6. GestureKeepsAwake'
  BY <1>1 DEF GestureKeepsAwake, Overlap, Busy, TypeOK, Scans, Idle, Key, ScanSame, keys, lpm,
     history
<1> QED BY <1>2, <1>3, <1>4, <1>5, <1>6

LEMMA ScanDownStep ==
  ASSUME IInv, NEW k \in Key, ScanDown(k)
  PROVE  IInv'
<1> USE KeypadAssumption DEF IInv
<1>1. /\ ~ Held(k) /\ Held(k)'
      /\ \A j \in Key \ {k} : Held(j)' <=> Held(j)
  BY ScanHeld DEF ScanDown
<1>2. queue' \in Seq(Key \X Event)
  <2>1. "DOWN" \in Event
    BY DEF Event
  <2> QED BY <2>1, OfferType DEF TypeOK, ScanDown, Sends
<1>3. scan' \in 0 .. KeyNum /\ UNCHANGED << mapping, mappingOld, polling, lateness >>
  BY DEF TypeOK, Scans, ScanDown, Key
<1>4. lpmLocked' /\ delayLpm' = Off /\ multi_count' = multi_count
  BY DEF ScanDown, LockForPress
<1>5. GestureKeepsAwake'
  BY <1>4 DEF GestureKeepsAwake
<1>6. CASE press_type[k] = "NONE"
  <2>1. /\ press_type' = [press_type EXCEPT ![k] = "MULTI"]
        /\ key_timer' = [key_timer EXCEPT ![k] = Multi[k]]
        /\ own' = [own EXCEPT ![k] = 0]
    BY <1>6 DEF ScanDown, Becomes, Arms
  <2>2. IF Others(k) = {} THEN overlapped' = overlapped \ {k}
        ELSE overlapped' = overlapped \cup Others(k) \cup {k}
    BY <1>6 DEF ScanDown
  <2>3. /\ press_type'[k] = "MULTI" /\ key_timer'[k] \in Nat /\ key_timer'[k] # Off /\ own'[k] = 0
        /\ \A j \in Key \ {k} : /\ press_type'[j] = press_type[j]
                                /\ key_timer'[j] = key_timer[j] /\ own'[j] = own[j]
    BY <2>1 DEF TypeOK
  <2>4. overlapped' \subseteq Key
    BY <2>2 DEF TypeOK, Others
  <2>5. TypeOK'
    BY <1>2, <1>3, <1>4, <2>1, <2>3, <2>4 DEF TypeOK, PressType
  <2>6. Shape'
    BY <1>1, <2>3 DEF Shape
  <2>7. Overlap'
    BY <1>6, <2>2, <2>3 DEF Overlap, Busy, Others
  <2>8. Others(k) = {} => multi_count = 0
    <3>1. \A j \in Key : Collects(j) => j \in Others(k)
      BY <1>6 DEF Collects, Others
    <3> QED BY <3>1 DEF Counted, TypeOK
  <2>9. Counted'
    <3>1. multi_count' > 0 => \E j \in Key : Collects(j)'
      BY <2>3 DEF Collects
    <3>2. \A j \in Key \ {k} : Collects(j)' => Collects(j) /\ j \in Others(k)
      BY <2>3 DEF Collects, Others
    <3> QED BY <1>1, <1>4, <2>2, <2>3, <2>8, <3>1, <3>2 DEF Counted
  <2> QED BY <1>5, <2>5, <2>6, <2>7, <2>9
<1>7. CASE press_type[k] # "NONE"
  <2>1. UNCHANGED << press_type, key_timer, own, overlapped >>
    BY <1>7 DEF ScanDown, history
  <2>2. TypeOK'
    BY <1>2, <1>3, <1>4, <2>1 DEF TypeOK
  <2>3. press_type[k] = "MULTI" /\ key_timer[k] # Off
    BY <1>1, <1>7 DEF Shape
  <2>4. Shape'
    BY <1>1, <2>1, <2>3 DEF Shape
  <2>5. Overlap'
    BY <2>1 DEF Overlap, Busy
  <2>6. Counted'
    BY <1>1, <1>4, <2>1 DEF Counted, Collects
  <2> QED BY <1>5, <2>2, <2>4, <2>5, <2>6
<1> QED BY <1>6, <1>7

LEMMA ScanClickStep ==
  ASSUME IInv, NEW k \in Key, ScanClick(k)
  PROVE  IInv'
<1> USE KeypadAssumption DEF IInv
<1>1. /\ Held(k) /\ ~ Held(k)'
      /\ \A j \in Key \ {k} : Held(j)' <=> Held(j)
  BY ScanHeld DEF ScanClick
<1>2. TypeOK'
  <2>1. "UP" \in Event
    BY DEF Event
  <2>2. queue' \in Seq(Key \X Event)
    BY <2>1, OfferType DEF TypeOK, ScanClick, Sends
  <2>3. scan' \in 0 .. KeyNum
    BY DEF TypeOK, Scans, Key, ScanClick
  <2>4. multi_count' \in Nat /\ own' \in [Key -> Nat]
    BY DEF TypeOK, ScanClick
  <2>5. UNCHANGED << mapping, mappingOld, polling, lateness, press_type, key_timer,
                     lpmLocked, delayLpm, overlapped >>
    BY DEF Scans, ScanClick, lpm
  <2> QED BY <2>2, <2>3, <2>4, <2>5 DEF TypeOK
<1>3. Shape'
  BY <1>1 DEF Shape, TypeOK, ScanClick
<1>4. Overlap'
  BY DEF Overlap, Busy, ScanClick
<1>5. Counted'
  <2>1. /\ Collects(k) /\ \A j \in Key : Collects(j)' <=> Collects(j)
        /\ multi_count' = multi_count + 1 /\ overlapped' = overlapped
    BY DEF ScanClick, Collects
  <2>2. own'[k] = own[k] + 1 /\ \A j \in Key \ {k} : own'[j] = own[j]
    BY DEF ScanClick, TypeOK
  <2>3. \A j \in Key \ {k} : Collects(j) => j \in overlapped
    BY <2>1 DEF Overlap, Busy, Collects
  <2>4. multi_count \in Nat /\ own[k] \in Nat
    BY DEF TypeOK
  <2> QED BY <1>1, <2>1, <2>2, <2>3, <2>4 DEF Counted
<1>6. GestureKeepsAwake'
  BY DEF GestureKeepsAwake, ScanClick, lpm
<1> QED BY <1>2, <1>3, <1>4, <1>5, <1>6

LEMMA ScanLetGoStep ==
  ASSUME IInv, NEW k \in Key, ScanLetGo(k)
  PROVE  IInv'
<1> USE KeypadAssumption DEF IInv
<1>1. /\ Held(k) <=> k \in mappingOld
      /\ Held(k)' <=> k \in mapping
      /\ \A j \in Key \ {k} : Held(j)' <=> Held(j)
  BY ScanHeld DEF ScanLetGo
<1>2. TypeOK'
  <2>1. {"UP"} \subseteq Event
    BY DEF Event
  <2>2. queue' \in Seq(Key \X Event)
    BY <2>1, OfferType DEF TypeOK, Scans, ScanLetGo, Sends, PressType
  <2>3. scan' \in 0 .. KeyNum
    BY DEF TypeOK, Scans, Idle, Key, ScanLetGo
  <2> QED BY <2>2, <2>3 DEF TypeOK, Scans, ScanLetGo, Sends, Becomes, keypad_delayLpm, history,
     PressType
<1>3. Shape'
  BY <1>1 DEF Shape, TypeOK, Scans, Idle, Key, ScanLetGo, Sends, Becomes, keypad_delayLpm,
     history, Event, PressType
<1>4. Overlap'
  BY <1>1 DEF Overlap, Busy, TypeOK, Scans, Idle, Key, ScanLetGo, Sends, Becomes,
     keypad_delayLpm, history, Event, PressType
<1>5. Counted'
  BY <1>1 DEF Counted, Collects, Shape, Overlap, Busy, TypeOK, Scans, Idle, Key, ScanLetGo,
     Sends, Becomes, keypad_delayLpm, history, Event, PressType
<1>6. GestureKeepsAwake'
  BY <1>1 DEF GestureKeepsAwake, Overlap, Busy, TypeOK, Scans, Idle, Key, ScanLetGo, Sends,
     Becomes, keypad_delayLpm, history, Event, PressType
<1> QED BY <1>2, <1>3, <1>4, <1>5, <1>6

LEMMA ScanReleaseStep ==
  ASSUME IInv, NEW k \in Key, ScanRelease(k)
  PROVE  IInv'
<1> USE KeypadAssumption DEF IInv
<1>1. /\ Held(k) <=> k \in mappingOld
      /\ Held(k)' <=> k \in mapping
      /\ \A j \in Key \ {k} : Held(j)' <=> Held(j)
  BY ScanHeld DEF ScanRelease
<1>2. TypeOK'
  <2>1. {"UP", "TAP", "PRESS_RELEASE", "LONG_RELEASE", "LONGLONG_RELEASE"} \subseteq Event
    BY DEF Event
  <2>a. ReleaseEvent[press_type[k]] \in Event
    BY <2>1 DEF TypeOK, ScanRelease, ReleaseEvent, PressType
  <2>b. Offer(queue, << k, "UP" >>) \in Seq(Key \X Event)
    BY <2>1, OfferType DEF TypeOK
  <2>2. queue' \in Seq(Key \X Event)
    BY <2>a, <2>b, OfferType DEF ScanRelease
  <2>3. scan' \in 0 .. KeyNum
    BY DEF TypeOK, Scans, Idle, Key, ScanRelease
  <2> QED BY <2>2, <2>3 DEF TypeOK, Scans, ScanRelease, ReleaseEvent, Arms, Becomes,
     keypad_delayLpm, history, PressType
<1>3. Shape'
  BY <1>1 DEF Shape, TypeOK, Scans, Idle, Key, ScanRelease, ReleaseEvent, Arms, Becomes,
     keypad_delayLpm, history, Event, PressType
<1>4. Overlap'
  BY <1>1 DEF Overlap, Busy, TypeOK, Scans, Idle, Key, ScanRelease, ReleaseEvent, Arms,
     Becomes, keypad_delayLpm, history, Event, PressType
<1>5. Counted'
  BY <1>1 DEF Counted, Collects, Shape, Overlap, Busy, TypeOK, Scans, Idle, Key, ScanRelease,
     ReleaseEvent, Arms, Becomes, keypad_delayLpm, history, Event, PressType
<1>6. GestureKeepsAwake'
  BY <1>1 DEF GestureKeepsAwake, Overlap, Busy, TypeOK, Scans, Idle, Key, ScanRelease,
     ReleaseEvent, Arms, Becomes, keypad_delayLpm, history, Event, PressType
<1> QED BY <1>2, <1>3, <1>4, <1>5, <1>6

-----------------------------------------------------------------------------
(* Steps of a timer. *)

LEMMA ExpireHeldStep ==
  ASSUME IInv, NEW k \in Key, ExpireHeld(k)
  PROVE  IInv'
<1> USE KeypadAssumption DEF IInv
<1>1. /\ Held(k) <=> k \in mapping
      /\ \A j \in Key : Held(j)' <=> Held(j)
  BY IdleHeld, SameHeld DEF Expires, ExpireHeld
<1>2. TypeOK'
  <2>2. queue' \in Seq(Key \X Event)
    BY DEF TypeOK, ExpireHeld, lpm
  <2>3. scan' \in 0 .. KeyNum
    BY DEF TypeOK, Expires, sample, ExpireHeld
  <2> QED BY <2>2, <2>3 DEF TypeOK, Expires, sample, ExpireHeld, Becomes, Arms, lpm, history,
     PressType
<1>3. Shape'
  BY <1>1 DEF Shape, TypeOK, Expires, sample, ExpireHeld, Becomes, Arms, lpm, history, PressType
<1>4. Overlap'
  BY <1>1 DEF Overlap, Busy, TypeOK, Expires, sample, ExpireHeld, Becomes, Arms, lpm, history,
     PressType
<1>5. Counted'
  BY <1>1 DEF Counted, Collects, Shape, Overlap, Busy, TypeOK, Expires, sample, ExpireHeld,
     Becomes, Arms, lpm, history, PressType
<1>6. GestureKeepsAwake'
  BY <1>1 DEF GestureKeepsAwake, Overlap, Busy, TypeOK, Expires, sample, ExpireHeld, Becomes,
     Arms, lpm, history, PressType
<1> QED BY <1>2, <1>3, <1>4, <1>5, <1>6

LEMMA ExpireClickedHeldStep ==
  ASSUME IInv, NEW k \in Key, ExpireClickedHeld(k)
  PROVE  IInv'
<1> USE KeypadAssumption DEF IInv
<1>1. /\ Held(k) <=> k \in mapping
      /\ \A j \in Key : Held(j)' <=> Held(j)
  BY IdleHeld, SameHeld DEF Expires, ExpireClickedHeld
<1>2. TypeOK'
  <2>1. {"NON", "TAP", "DOUBLE", "TRIPLE"} \subseteq Event
    BY DEF Event
  <2>2. queue' \in Seq(Key \X Event)
    BY <2>1, OfferType, ClickEvents DEF TypeOK, Expires, ExpireClickedHeld, Sends
  <2>3. scan' \in 0 .. KeyNum
    BY DEF TypeOK, Expires, sample, ExpireClickedHeld
  <2> QED BY <2>2, <2>3 DEF TypeOK, Expires, sample, ExpireClickedHeld, Sends, Arms, lpm
<1>3. Shape'
  BY <1>1 DEF Shape, TypeOK, Expires, sample, ExpireClickedHeld, Sends, Arms, lpm, Event
<1>4. Overlap'
  BY <1>1 DEF Overlap, Busy, TypeOK, Expires, sample, ExpireClickedHeld, Sends, Arms, lpm, Event
<1>5. Counted'
  BY <1>1 DEF Counted, Collects, Shape, Overlap, Busy, TypeOK, Expires, sample,
     ExpireClickedHeld, Sends, Arms, lpm, Event
<1>6. GestureKeepsAwake'
  BY <1>1 DEF GestureKeepsAwake, Overlap, Busy, TypeOK, Expires, sample, ExpireClickedHeld,
     Sends, Arms, lpm, Event
<1> QED BY <1>2, <1>3, <1>4, <1>5, <1>6

LEMMA ExpireClickedStep ==
  ASSUME IInv, NEW k \in Key, ExpireClicked(k)
  PROVE  IInv'
<1> USE KeypadAssumption DEF IInv
<1>1. /\ Held(k) <=> k \in mapping
      /\ \A j \in Key : Held(j)' <=> Held(j)
  BY IdleHeld, SameHeld DEF Expires, ExpireClicked
<1>2. TypeOK'
  <2>1. {"NON", "TAP", "DOUBLE", "TRIPLE"} \subseteq Event
    BY DEF Event
  <2>2. queue' \in Seq(Key \X Event)
    BY <2>1, OfferType, ClickEvents DEF TypeOK, Expires, ExpireClicked, Sends, PressType
  <2>3. scan' \in 0 .. KeyNum
    BY DEF TypeOK, Expires, sample, ExpireClicked
  <2> QED BY <2>2, <2>3 DEF TypeOK, Expires, sample, ExpireClicked, Sends, Becomes, Arms,
     keypad_delayLpm, PressType
<1>3. Shape'
  BY <1>1 DEF Shape, TypeOK, Expires, sample, ExpireClicked, Sends, Becomes, Arms,
     keypad_delayLpm, Event, PressType
<1>4. Overlap'
  BY <1>1 DEF Overlap, Busy, TypeOK, Expires, sample, ExpireClicked, Sends, Becomes, Arms,
     keypad_delayLpm, Event, PressType
<1>5. Counted'
  BY <1>1 DEF Counted, Collects, Shape, Overlap, Busy, TypeOK, Expires, sample, ExpireClicked,
     Sends, Becomes, Arms, keypad_delayLpm, Event, PressType
<1>6. GestureKeepsAwake'
  BY <1>1 DEF GestureKeepsAwake, Overlap, Busy, TypeOK, Expires, sample, ExpireClicked, Sends,
     Becomes, Arms, keypad_delayLpm, Event, PressType
<1> QED BY <1>2, <1>3, <1>4, <1>5, <1>6

LEMMA ExpirePressStep ==
  ASSUME IInv, NEW k \in Key, ExpirePress(k)
  PROVE  IInv'
<1> USE KeypadAssumption DEF IInv
<1>1. /\ Held(k) <=> k \in mapping
      /\ \A j \in Key : Held(j)' <=> Held(j)
  BY IdleHeld, SameHeld DEF Expires, ExpirePress
<1>2. TypeOK'
  <2>1. {"PRESS"} \subseteq Event
    BY DEF Event
  <2>2. queue' \in Seq(Key \X Event)
    BY <2>1, OfferType DEF TypeOK, Expires, ExpirePress, Advance, Sends, PressType
  <2>3. scan' \in 0 .. KeyNum
    BY DEF TypeOK, Expires, sample, ExpirePress
  <2> QED BY <2>2, <2>3 DEF TypeOK, Expires, sample, ExpirePress, Advance, Sends, Becomes,
     Arms, lpm, history, PressType
<1>3. Shape'
  BY <1>1 DEF Shape, TypeOK, Expires, sample, ExpirePress, Advance, Sends, Becomes, Arms, lpm,
     history, Event, PressType
<1>4. Overlap'
  BY <1>1 DEF Overlap, Busy, TypeOK, Expires, sample, ExpirePress, Advance, Sends, Becomes,
     Arms, lpm, history, Event, PressType
<1>5. Counted'
  BY <1>1 DEF Counted, Collects, Shape, Overlap, Busy, TypeOK, Expires, sample, ExpirePress,
     Advance, Sends, Becomes, Arms, lpm, history, Event, PressType
<1>6. GestureKeepsAwake'
  BY <1>1 DEF GestureKeepsAwake, Overlap, Busy, TypeOK, Expires, sample, ExpirePress, Advance,
     Sends, Becomes, Arms, lpm, history, Event, PressType
<1> QED BY <1>2, <1>3, <1>4, <1>5, <1>6

LEMMA ExpireLongPressStep ==
  ASSUME IInv, NEW k \in Key, ExpireLongPress(k)
  PROVE  IInv'
<1> USE KeypadAssumption DEF IInv
<1>1. /\ Held(k) <=> k \in mapping
      /\ \A j \in Key : Held(j)' <=> Held(j)
  BY IdleHeld, SameHeld DEF Expires, ExpireLongPress
<1>2. TypeOK'
  <2>1. {"LONG_PRESS"} \subseteq Event
    BY DEF Event
  <2>2. queue' \in Seq(Key \X Event)
    BY <2>1, OfferType DEF TypeOK, Expires, ExpireLongPress, Advance, Sends, PressType
  <2>3. scan' \in 0 .. KeyNum
    BY DEF TypeOK, Expires, sample, ExpireLongPress
  <2> QED BY <2>2, <2>3 DEF TypeOK, Expires, sample, ExpireLongPress, Advance, Sends, Becomes,
     Arms, lpm, history, PressType
<1>3. Shape'
  BY <1>1 DEF Shape, TypeOK, Expires, sample, ExpireLongPress, Advance, Sends, Becomes, Arms,
     lpm, history, Event, PressType
<1>4. Overlap'
  BY <1>1 DEF Overlap, Busy, TypeOK, Expires, sample, ExpireLongPress, Advance, Sends, Becomes,
     Arms, lpm, history, Event, PressType
<1>5. Counted'
  BY <1>1 DEF Counted, Collects, Shape, Overlap, Busy, TypeOK, Expires, sample,
     ExpireLongPress, Advance, Sends, Becomes, Arms, lpm, history, Event, PressType
<1>6. GestureKeepsAwake'
  BY <1>1 DEF GestureKeepsAwake, Overlap, Busy, TypeOK, Expires, sample, ExpireLongPress,
     Advance, Sends, Becomes, Arms, lpm, history, Event, PressType
<1> QED BY <1>2, <1>3, <1>4, <1>5, <1>6

LEMMA ExpireLonglongPressStep ==
  ASSUME IInv, NEW k \in Key, ExpireLonglongPress(k)
  PROVE  IInv'
<1> USE KeypadAssumption DEF IInv
<1>1. /\ Held(k) <=> k \in mapping
      /\ \A j \in Key : Held(j)' <=> Held(j)
  BY IdleHeld, SameHeld DEF Expires, ExpireLonglongPress
<1>2. TypeOK'
  <2>1. {"LONGLONG_PRESS"} \subseteq Event
    BY DEF Event
  <2>2. queue' \in Seq(Key \X Event)
    BY <2>1, OfferType DEF TypeOK, Expires, ExpireLonglongPress, Advance, Sends, PressType
  <2>3. scan' \in 0 .. KeyNum
    BY DEF TypeOK, Expires, sample, ExpireLonglongPress
  <2> QED BY <2>2, <2>3 DEF TypeOK, Expires, sample, ExpireLonglongPress, Advance, Sends,
     Becomes, Arms, lpm, history, PressType
<1>3. Shape'
  BY <1>1 DEF Shape, TypeOK, Expires, sample, ExpireLonglongPress, Advance, Sends, Becomes,
     Arms, lpm, history, Event, PressType
<1>4. Overlap'
  BY <1>1 DEF Overlap, Busy, TypeOK, Expires, sample, ExpireLonglongPress, Advance, Sends,
     Becomes, Arms, lpm, history, Event, PressType
<1>5. Counted'
  BY <1>1 DEF Counted, Collects, Shape, Overlap, Busy, TypeOK, Expires, sample,
     ExpireLonglongPress, Advance, Sends, Becomes, Arms, lpm, history, Event, PressType
<1>6. GestureKeepsAwake'
  BY <1>1 DEF GestureKeepsAwake, Overlap, Busy, TypeOK, Expires, sample, ExpireLonglongPress,
     Advance, Sends, Becomes, Arms, lpm, history, Event, PressType
<1> QED BY <1>2, <1>3, <1>4, <1>5, <1>6

LEMMA DefaultHandleStep ==
  ASSUME IInv, NEW k \in Key, SYS_TimerExpireDefaultHandle(k)
  PROVE  IInv'
<1> USE KeypadAssumption DEF IInv
<1>1. /\ Held(k) <=> k \in mapping
      /\ \A j \in Key : Held(j)' <=> Held(j)
  BY IdleHeld, SameHeld DEF Expires, SYS_TimerExpireDefaultHandle
<1>2. TypeOK'
  <2>2. queue' \in Seq(Key \X Event)
    BY DEF TypeOK, SYS_TimerExpireDefaultHandle, lpm
  <2>3. scan' \in 0 .. KeyNum
    BY DEF TypeOK, Expires, sample, SYS_TimerExpireDefaultHandle
  <2> QED BY <2>2, <2>3 DEF TypeOK, Expires, sample, SYS_TimerExpireDefaultHandle, Arms, lpm,
     history
<1>3. Shape'
  BY <1>1 DEF Shape, TypeOK, Expires, sample, SYS_TimerExpireDefaultHandle, Arms, lpm, history
<1>4. Overlap'
  BY <1>1 DEF Overlap, Busy, TypeOK, Expires, sample, SYS_TimerExpireDefaultHandle, Arms, lpm,
     history
<1>5. Counted'
  BY <1>1 DEF Counted, Collects, Shape, Overlap, Busy, TypeOK, Expires, sample,
     SYS_TimerExpireDefaultHandle, Arms, lpm, history
<1>6. GestureKeepsAwake'
  BY <1>1 DEF GestureKeepsAwake, Overlap, Busy, TypeOK, Expires, sample,
     SYS_TimerExpireDefaultHandle, Arms, lpm, history
<1> QED BY <1>2, <1>3, <1>4, <1>5, <1>6

-----------------------------------------------------------------------------
(* The other steps. *)

LEMMA SampleStep ==
  ASSUME IInv, NEW first, NEW second, Sample(first, second) \/ WakeupSample(first, second)
  PROVE  IInv'
<1> USE KeypadAssumption DEF IInv
<1>1. keypad_gpio_mapping_process(first) \subseteq Key
  BY DEF keypad_gpio_mapping_process, LowKeys, HighKeys
<1>2. UNCHANGED << keys, queue, lpm, lateness, history >> /\ polling' \in Nat /\ Idle
  BY DEF Sample, WakeupSample, TypeOK
<1>3. keypad_check_keypress(first, second)
  BY DEF Sample, WakeupSample
<1>4. mapping' \subseteq Key /\ mappingOld' \subseteq Key /\ scan' \in 0 .. KeyNum
  BY <1>1, <1>3 DEF keypad_check_keypress, sample, TypeOK
<1>5. \A k \in Key : Held(k)' <=> Held(k)
  BY <1>2, <1>3, SameHeld, IdleHeld DEF keypad_check_keypress, Held, Key
<1>6. TypeOK'
  BY <1>2, <1>4 DEF TypeOK, keys, lpm, history
<1> QED BY <1>2, <1>5, <1>6 DEF Shape, Overlap, Counted, Collects, Busy, GestureKeepsAwake,
       keys, lpm, history

LEMMA CblpmStep ==
  ASSUME IInv, keypad_Cblpm
  PROVE  IInv'
<1> USE KeypadAssumption DEF IInv
<1>1. \A k \in Key : Held(k)' <=> Held(k)
  BY SameHeld DEF keypad_Cblpm
<1>2. delayLpm # Off /\ delayLpm' # Off
  BY DEF keypad_Cblpm
<1>3. TypeOK'
  BY DEF TypeOK, keypad_Cblpm, sample, keys, history
<1> QED BY <1>1, <1>2, <1>3 DEF Shape, Overlap, Counted, Collects, Busy, GestureKeepsAwake,
       keypad_Cblpm, keys, history

LEMMA PollingStep ==
  ASSUME IInv, keypad_polling_keyQueue
  PROVE  IInv'
<1> USE DEF IInv
<1>1. \A k \in Key : Held(k)' <=> Held(k)
  BY SameHeld DEF keypad_polling_keyQueue
<1>2. queue' \in Seq(Key \X Event)
  BY HeadTailProperties, EmptySeq DEF TypeOK, keypad_polling_keyQueue
<1>3. TypeOK'
  BY <1>2 DEF TypeOK, keypad_polling_keyQueue, sample, keys, lpm, history
<1> QED BY <1>1, <1>3 DEF Shape, Overlap, Counted, Collects, Busy, GestureKeepsAwake,
       keypad_polling_keyQueue, keys, lpm, history

LEMMA ElapseFacts ==
  ASSUME NEW t \in Nat \cup {Off}
  PROVE  /\ Elapse(t) \in Nat \cup {Off} /\ (Elapse(t) = Off <=> t = Off)
         /\ t \in Nat => Elapse(t) \in Nat
BY KeypadAssumption DEF Elapse

LEMMA TickStep ==
  ASSUME IInv, SYStick_handle
  PROVE  IInv'
<1> USE KeypadAssumption DEF IInv
<1>1. \A k \in Key : Held(k)' <=> Held(k)
  BY SameHeld DEF SYStick_handle
<1>2. \A k \in Key : key_timer'[k] \in Nat \cup {Off} /\ (key_timer'[k] = Off <=> key_timer[k] = Off)
  BY ElapseFacts DEF SYStick_handle, TypeOK
<1>3. delayLpm' \in Nat \cup {Off} /\ (delayLpm' = Off <=> delayLpm = Off) /\ polling' \in Nat
  BY ElapseFacts DEF SYStick_handle, TypeOK
<1>4. TypeOK'
  BY <1>2, <1>3 DEF TypeOK, SYStick_handle, sample, history
<1> QED BY <1>1, <1>2, <1>3, <1>4 DEF Shape, Overlap, Counted, Collects, Busy,
       GestureKeepsAwake, SYStick_handle, history

LEMMA InitIInv == Init => IInv
<1> SUFFICES ASSUME Init PROVE IInv
  OBVIOUS
<1> USE KeypadAssumption
<1>1. queue \in Seq(Key \X Event)
  BY EmptySeq DEF Init
<1>2. /\ press_type \in [Key -> PressType] /\ key_timer \in [Key -> Nat \cup {Off}]
      /\ own \in [Key -> Nat]
  BY DEF Init, PressType
<1>3. TypeOK
  <2>1. scan \in 0 .. KeyNum
    BY DEF Init
  <2>3. lpmLocked \in BOOLEAN
    BY Zenon DEF Init
  <2>2. mapping \subseteq Key /\ mappingOld \subseteq Key /\ overlapped \subseteq Key
        /\ multi_count \in Nat /\ delayLpm \in Nat \cup {Off} /\ polling \in Nat /\ lateness \in Nat
    BY DEF Init
  <2> QED BY <1>1, <1>2, <2>1, <2>2, <2>3 DEF TypeOK
<1> QED BY <1>3 DEF IInv, Init, Shape, Held, Overlap, Counted, Collects, Busy,
   GestureKeepsAwake, Key

LEMMA NextIInv == IInv /\ [Next]_vars => IInv'
<1> SUFFICES ASSUME IInv, [Next]_vars PROVE IInv'
  OBVIOUS
<1>1. CASE UNCHANGED vars
  <2>1. \A k \in Key : Held(k)' <=> Held(k)
    BY <1>1, SameHeld DEF vars
  <2> QED BY <1>1, <2>1 DEF IInv, TypeOK, Shape, Overlap, Counted, Collects, Busy,
         GestureKeepsAwake, vars, sample, keys, lpm, history
<1>2. ASSUME NEW first \in SUBSET Pin, NEW second \in SUBSET Pin,
             Sample(first, second) \/ WakeupSample(first, second)
      PROVE  IInv'
  BY <1>2, SampleStep
<1>3. ASSUME NEW k \in Key, Scan(k) PROVE IInv'
  BY <1>3, ScanSameStep, ScanDownStep, ScanClickStep, ScanLetGoStep, ScanReleaseStep DEF Scan
<1>4. ASSUME NEW k \in Key, keypad_keyExpired(k) PROVE IInv'
  BY <1>4, ExpireHeldStep, ExpireClickedHeldStep, ExpireClickedStep, ExpirePressStep,
     ExpireLongPressStep, ExpireLonglongPressStep, DefaultHandleStep DEF keypad_keyExpired
<1>5. CASE keypad_Cblpm
  BY <1>5, CblpmStep
<1>6. CASE keypad_polling_keyQueue
  BY <1>6, PollingStep
<1>7. CASE SYStick_handle
  BY <1>7, TickStep
<1> QED BY <1>1, <1>2, <1>3, <1>4, <1>5, <1>6, <1>7 DEF Next, Serve
-----------------------------------------------------------------------------
\* The inductive invariant holds in every reachable state.
THEOREM InductiveInvariant == Spec => []IInv
BY InitIInv, NextIInv, PTL DEF Spec

\* The types hold.
THEOREM TypeCorrect == Spec => []TypeOK
BY InductiveInvariant, PTL DEF IInv

\* A key in the middle of a gesture keeps the chip awake, unless another key's gesture
\* that overlaps it has just ended.
THEOREM KeepsAwake == Spec => []GestureKeepsAwake
BY InductiveInvariant, PTL DEF IInv

\* A key whose gesture no other overlaps is credited with its own clicks, all of them.
THEOREM CreditsClicks == Spec => ClicksCredited
<1>1. ASSUME IInv, NEW k \in Key, ExpireClickedHeld(k) \/ ExpireClicked(k), k \notin overlapped
      PROVE  own[k] > 0 /\ queue' = Offer(queue, << k, ClickEvent(own[k]) >>)
  <2>1. press_type[k] = "MULTI" /\ key_timer[k] = 0 /\ Idle
        /\ queue' = Offer(queue, << k, ClickEvent(multi_count) >>)
    BY <1>1 DEF ExpireClickedHeld, ExpireClicked, Expires, Sends
  <2>2. Collects(k) /\ multi_count = own[k]
    BY <1>1, <2>1, KeypadAssumption DEF IInv, Counted, Collects
  <2>3. Held(k) <=> k \in mapping
    BY <1>1, <2>1, IdleHeld, KeypadAssumption DEF IInv
  <2>4. own[k] > 0
    BY <1>1, <2>2, <2>3 DEF ExpireClickedHeld, ExpireClicked, IInv, Counted
  <2> QED BY <2>1, <2>2, <2>4
<1>2. IInv => \A k \in Key : (ExpireClickedHeld(k) \/ ExpireClicked(k)) /\ k \notin overlapped
        => own[k] > 0 /\ queue' = Offer(queue, << k, ClickEvent(own[k]) >>)
  BY <1>1
<1> QED BY <1>2, InductiveInvariant, PTL DEF ClicksCredited
-----------------------------------------------------------------------------
(* Keypad implements KeyGestures. *)

LEMMA PhaseFacts ==
  ASSUME NEW k \in Key
  PROVE  /\ press_type[k] = "NONE" => Phase(k) = "idle"
         /\ press_type[k] = "MULTI" /\ key_timer[k] = Off => Phase(k) = "spent"
         /\ press_type[k] = "MULTI" /\ key_timer[k] # Off /\ Held(k) => Phase(k) = "down"
         /\ press_type[k] = "MULTI" /\ key_timer[k] # Off /\ ~ Held(k) => Phase(k) = "up"
         /\ press_type[k] = "PRESS" => Phase(k) = "held"
         /\ press_type[k] = "LONG_PRESS" => Phase(k) = "pressed"
         /\ press_type[k] = "LONGLONG_PRESS" => Phase(k) = "long"
         /\ press_type[k] = "EXTREME" => Phase(k) = "longlong"
BY DEF Phase

LEMMA PhaseFactsNext ==
  ASSUME NEW k \in Key
  PROVE  /\ press_type'[k] = "NONE" => Phase(k)' = "idle"
         /\ press_type'[k] = "MULTI" /\ key_timer'[k] = Off => Phase(k)' = "spent"
         /\ press_type'[k] = "MULTI" /\ key_timer'[k] # Off /\ Held(k)' => Phase(k)' = "down"
         /\ press_type'[k] = "MULTI" /\ key_timer'[k] # Off /\ ~ Held(k)' => Phase(k)' = "up"
         /\ press_type'[k] = "PRESS" => Phase(k)' = "held"
         /\ press_type'[k] = "LONG_PRESS" => Phase(k)' = "pressed"
         /\ press_type'[k] = "LONGLONG_PRESS" => Phase(k)' = "long"
         /\ press_type'[k] = "EXTREME" => Phase(k)' = "longlong"
BY DEF Phase

\* A key none of whose state changes keeps its phase.
LEMMA PhaseSame ==
  ASSUME NEW k \in Key, press_type'[k] = press_type[k],
         key_timer'[k] = Off <=> key_timer[k] = Off, Held(k)' <=> Held(k)
  PROVE  Phase(k)' = Phase(k)
BY DEF Phase

Phases == [k \in Key |-> Phase(k)]

\* A step of one key moves the phase of that key only.
LEMMA PhaseMoves ==
  ASSUME NEW k \in Key, NEW p, Phase(k)' = p, \A j \in Key \ {k} : Phase(j)' = Phase(j)
  PROVE  Gestures!Moves(k, p)
BY DEF Gestures!Moves

LEMMA PhasesSame ==
  ASSUME \A k \in Key : Phase(k)' = Phase(k)
  PROVE  Phases' = Phases
BY DEF Phases

LEMMA ScanDownMaps ==
  ASSUME IInv, NEW k \in Key, ScanDown(k)
  PROVE  Gestures!Down(k)
<1>1. ~ Held(k) /\ Held(k)' /\ \A j \in Key \ {k} : Held(j)' <=> Held(j)
  BY ScanHeld DEF ScanDown, IInv
<1>2. \A j \in Key \ {k} : press_type'[j] = press_type[j] /\ key_timer'[j] = key_timer[j]
  BY DEF ScanDown, Becomes, Arms, IInv, TypeOK
<1>3. /\ press_type[k] = "NONE" \/ (press_type[k] = "MULTI" /\ key_timer[k] # Off)
      /\ press_type'[k] = "MULTI" /\ key_timer'[k] # Off
  BY <1>1, KeypadAssumption DEF ScanDown, Becomes, Arms, IInv, TypeOK, Shape
<1>4. Phase(k) \in {"idle", "up"} /\ Phase(k)' = "down"
  BY <1>1, <1>3, PhaseFacts, PhaseFactsNext
<1>5. Gestures!Moves(k, "down")
  BY <1>1, <1>2, <1>4, PhaseSame, PhaseMoves
<1> QED BY <1>4, <1>5 DEF Gestures!Down, Gestures!Sends, Gestures!Offer, ScanDown, Sends, Offer

LEMMA ReleaseMaps ==
  ASSUME IInv, NEW k \in Key, ScanClick(k) \/ ScanLetGo(k) \/ ScanRelease(k)
  PROVE  Gestures!Click(k) \/ Gestures!LetGo(k) \/ Gestures!Release(k)
<1>1. Held(k) /\ ~ Held(k)' /\ \A j \in Key \ {k} : Held(j)' <=> Held(j)
  BY ScanHeld DEF ScanClick, ScanLetGo, ScanRelease, IInv
<1>2. \A j \in Key \ {k} : press_type'[j] = press_type[j] /\ key_timer'[j] = key_timer[j]
  BY DEF ScanClick, ScanLetGo, ScanRelease, Becomes, Arms, IInv, TypeOK
<1>3. \A j \in Key \ {k} : Phase(j)' = Phase(j)
  BY <1>1, <1>2, PhaseSame
<1>4. CASE ScanClick(k)
  <2>1. Phase(k) = "down" /\ Phase(k)' = "up"
    BY <1>1, <1>4, PhaseFacts, PhaseFactsNext DEF ScanClick
  <2> QED BY <1>3, <1>4, <2>1, PhaseMoves
       DEF Gestures!Click, Gestures!Sends, Gestures!Offer, ScanClick, Sends, Offer
<1>5. CASE ScanLetGo(k)
  <2>1. press_type'[k] = "NONE"
    BY <1>5 DEF ScanLetGo, Becomes, IInv, TypeOK
  <2>2. Phase(k) = "spent" /\ Phase(k)' = "idle"
    BY <1>5, <2>1, PhaseFacts, PhaseFactsNext DEF ScanLetGo
  <2> QED BY <1>3, <1>5, <2>2, PhaseMoves
       DEF Gestures!LetGo, Gestures!Sends, Gestures!Offer, ScanLetGo, Sends, Offer
<1>6. CASE ScanRelease(k)
  <2>1. press_type[k] \in {"PRESS", "LONG_PRESS", "LONGLONG_PRESS", "EXTREME"}
    BY <1>6 DEF ScanRelease, IInv, TypeOK, PressType
  <2>2. press_type'[k] = "NONE"
    BY <1>6 DEF ScanRelease, Becomes, IInv, TypeOK
  <2>3. /\ Phase(k) \in Gestures!Stage /\ Phase(k)' = "idle"
        /\ Gestures!Closing[Phase(k)] = ReleaseEvent[press_type[k]]
    BY <2>1, <2>2, PhaseFacts, PhaseFactsNext DEF Gestures!Stage, Gestures!Closing, ReleaseEvent
  <2> QED BY <1>3, <1>6, <2>3, PhaseMoves DEF Gestures!Release, Gestures!Offer, ScanRelease,
     Offer
<1> QED BY <1>4, <1>5, <1>6

LEMMA ExpiryMaps ==
  ASSUME IInv, NEW k \in Key, keypad_keyExpired(k)
  PROVE  \/ Gestures!Hold(k) \/ Gestures!ReportClicks(k) \/ Gestures!ReportStage(k)
         \/ UNCHANGED << Phases, queue >>
<1> USE KeypadAssumption
<1>1. /\ Held(k) <=> k \in mapping
      /\ \A j \in Key : Held(j)' <=> Held(j)
  BY IdleHeld, SameHeld DEF IInv, keypad_keyExpired, ExpireHeld, ExpireClickedHeld,
     ExpireClicked,
     ExpirePress, ExpireLongPress, ExpireLonglongPress, SYS_TimerExpireDefaultHandle, Expires
<1>2. \A j \in Key \ {k} : press_type'[j] = press_type[j] /\ key_timer'[j] = key_timer[j]
  BY DEF IInv, TypeOK, keypad_keyExpired, ExpireHeld, ExpireClickedHeld, ExpireClicked,
     ExpirePress, ExpireLongPress, ExpireLonglongPress, SYS_TimerExpireDefaultHandle,
     Advance, Becomes, Arms
<1>3. \A j \in Key \ {k} : Phase(j)' = Phase(j)
  BY <1>1, <1>2, PhaseSame
<1>4. CASE ExpireHeld(k)
  <2>1. press_type[k] = "MULTI" /\ key_timer[k] # Off /\ press_type'[k] = "PRESS"
    BY <1>4 DEF ExpireHeld, Expires, Becomes, IInv, TypeOK
  <2>2. Phase(k) = "down" /\ Phase(k)' = "held"
    BY <1>1, <1>4, <2>1, PhaseFacts, PhaseFactsNext DEF ExpireHeld
  <2> QED BY <1>3, <1>4, <2>2, PhaseMoves DEF Gestures!Hold, ExpireHeld
<1>5. CASE ExpireClickedHeld(k)
  <2>1. /\ press_type[k] = "MULTI" /\ key_timer[k] # Off
        /\ press_type'[k] = "MULTI" /\ key_timer'[k] = Off
    BY <1>5 DEF ExpireClickedHeld, Expires, Arms, IInv, TypeOK
  <2>2. Phase(k) = "down" /\ Phase(k)' = "spent"
    BY <1>1, <1>5, <2>1, PhaseFacts, PhaseFactsNext DEF ExpireClickedHeld
  <2>3. ClickEvent(multi_count) \in Gestures!Clicks
    BY <1>5, ClickEvents DEF ExpireClickedHeld, IInv, TypeOK, Gestures!Clicks
  <2>4. Gestures!Sends(k, ClickEvent(multi_count))
    BY <1>5 DEF ExpireClickedHeld, Sends, Offer, Gestures!Sends, Gestures!Offer
  <2> QED BY <1>3, <2>2, <2>3, <2>4, PhaseMoves DEF Gestures!ReportClicks
<1>6. CASE ExpireClicked(k)
  <2>1. press_type[k] = "MULTI" /\ key_timer[k] # Off /\ press_type'[k] = "NONE"
    BY <1>6 DEF ExpireClicked, Expires, Becomes, IInv, TypeOK
  <2>2. Phase(k) = "up" /\ Phase(k)' = "idle"
    BY <1>1, <1>6, <2>1, PhaseFacts, PhaseFactsNext DEF ExpireClicked
  <2>3. ClickEvent(multi_count) \in Gestures!Clicks \cup {"NON"}
    BY ClickEvents DEF IInv, TypeOK, Gestures!Clicks
  <2>4. Gestures!Sends(k, ClickEvent(multi_count))
    BY <1>6 DEF ExpireClicked, Sends, Offer, Gestures!Sends, Gestures!Offer
  <2> QED BY <1>3, <2>2, <2>3, <2>4, PhaseMoves DEF Gestures!ReportClicks
<1>7. CASE ExpirePress(k) \/ ExpireLongPress(k) \/ ExpireLonglongPress(k)
  <2>1. /\ ExpirePress(k) => press_type[k] = "PRESS" /\ press_type'[k] = "LONG_PRESS"
        /\ ExpireLongPress(k) => press_type[k] = "LONG_PRESS" /\ press_type'[k] = "LONGLONG_PRESS"
        /\ ExpireLonglongPress(k) => press_type[k] = "LONGLONG_PRESS" /\ press_type'[k] = "EXTREME"
    BY DEF ExpirePress, ExpireLongPress, ExpireLonglongPress, Expires, Advance, Becomes, IInv,
       TypeOK
  <2>2. /\ ExpirePress(k) => Phase(k) = "held" /\ Phase(k)' = "pressed" /\ Sends(k, "PRESS")
        /\ ExpireLongPress(k) => Phase(k) = "pressed" /\ Phase(k)' = "long" /\ Sends(k, "LONG_PRESS")
        /\ ExpireLonglongPress(k) =>
             Phase(k) = "long" /\ Phase(k)' = "longlong" /\ Sends(k, "LONGLONG_PRESS")
    BY <2>1, PhaseFacts, PhaseFactsNext DEF ExpirePress, ExpireLongPress, ExpireLonglongPress,
       Advance
  <2>3. /\ Phase(k) \in DOMAIN Gestures!NextStage /\ Phase(k)' = Gestures!NextStage[Phase(k)]
        /\ Sends(k, Gestures!Report[Phase(k)])
    BY <1>7, <2>2 DEF Gestures!NextStage, Gestures!Report
  <2> QED BY <1>3, <2>3, PhaseMoves DEF Gestures!ReportStage, Gestures!Sends, Gestures!Offer,
     Sends, Offer
<1>8. CASE SYS_TimerExpireDefaultHandle(k)
  <2>1. press_type'[k] = press_type[k] /\ key_timer[k] # Off /\ key_timer'[k] # Off
    BY <1>8 DEF SYS_TimerExpireDefaultHandle, Expires, Arms, IInv, TypeOK
  <2>2. \A j \in Key : Phase(j)' = Phase(j)
    BY <1>1, <1>3, <2>1, PhaseSame
  <2> QED BY <1>8, <2>2, PhasesSame DEF SYS_TimerExpireDefaultHandle
<1> QED BY <1>4, <1>5, <1>6, <1>7, <1>8 DEF keypad_keyExpired

\* Samples, ticks and the lock are nothing to the gestures.
LEMMA OtherMaps ==
  ASSUME IInv, \/ \E first, second : Sample(first, second) \/ WakeupSample(first, second)
               \/ \E k \in Key : ScanSame(k)
               \/ keypad_Cblpm \/ SYStick_handle
  PROVE  UNCHANGED << Phases, queue >>
<1> USE KeypadAssumption
<1>1. UNCHANGED << press_type, queue >>
  BY DEF Sample, WakeupSample, ScanSame, keypad_Cblpm, SYStick_handle, keys
<1>2. \A k \in Key : key_timer'[k] = Off <=> key_timer[k] = Off
  <2>1. CASE SYStick_handle
    BY <2>1, ElapseFacts DEF IInv, TypeOK, SYStick_handle
  <2>2. CASE ~ SYStick_handle
    BY <2>2 DEF Sample, WakeupSample, ScanSame, keypad_Cblpm, keys
  <2> QED BY <2>1, <2>2
<1>3. \A k \in Key : Held(k)' <=> Held(k)
  <2>1. CASE \E first, second : Sample(first, second) \/ WakeupSample(first, second)
    <3>1. Idle /\ \E first, second : keypad_check_keypress(first, second)
      BY <2>1 DEF Sample, WakeupSample
    <3> QED BY <3>1, SameHeld, IdleHeld DEF IInv, keypad_check_keypress, Held, Key
  <2>2. CASE \E k \in Key : ScanSame(k)
    BY <2>2, ScanHeld DEF ScanSame, IInv
  <2>3. CASE keypad_Cblpm \/ SYStick_handle
    BY <2>3, SameHeld DEF keypad_Cblpm, SYStick_handle
  <2> QED BY <2>1, <2>2, <2>3
<1> QED BY <1>1, <1>2, <1>3, PhaseSame, PhasesSame

\* What is queued for each key is a series of gestures: clicks that end in one event for
\* their number, or a hold reported stage by stage that ends with the stage it reached.
THEOREM ReportsGestures == Spec => ImplementsKeyGestures
<1>1. Init => Gestures!Init
  <2>1. Init => IInv
    BY InitIInv
  <2>2. Init => \A k \in Key : press_type[k] = "NONE"
    BY DEF Init
  <2> QED BY <2>2, PhaseFacts DEF Gestures!Init, Init
<1>2. IInv /\ [Next]_vars => [Gestures!Next]_(Gestures!vars)
  <2> SUFFICES ASSUME IInv, [Next]_vars PROVE [Gestures!Next]_(Gestures!vars)
    OBVIOUS
  <2>1. CASE UNCHANGED vars
    BY <2>1, SameHeld, PhaseSame, PhasesSame DEF vars, keys, Gestures!vars, Phases
  <2>2. ASSUME NEW k \in Key, Scan(k) PROVE [Gestures!Next]_(Gestures!vars)
    BY <2>2, ScanDownMaps, ReleaseMaps, OtherMaps DEF Scan, Gestures!Next, Gestures!vars, Phases
  <2>3. ASSUME NEW k \in Key, keypad_keyExpired(k) PROVE [Gestures!Next]_(Gestures!vars)
    BY <2>3, ExpiryMaps DEF Gestures!Next, Gestures!vars, Phases
  <2>4. CASE \E first, second \in SUBSET Pin : Sample(first, second) \/ WakeupSample(first, second)
    BY <2>4, OtherMaps DEF Gestures!vars, Phases
  <2>5. CASE keypad_Cblpm \/ SYStick_handle
    BY <2>5, OtherMaps DEF Gestures!vars, Phases
  <2>6. CASE keypad_polling_keyQueue
    <3>1. Phases' = Phases
      BY <2>6, SameHeld, PhaseSame, PhasesSame DEF keypad_polling_keyQueue, keys
    <3> QED BY <2>6, <3>1 DEF keypad_polling_keyQueue, Gestures!Next, Gestures!Take,
       Gestures!vars, Phases
  <2> QED BY <2>1, <2>2, <2>3, <2>4, <2>5, <2>6 DEF Next, Serve
<1> QED BY <1>1, <1>2, InductiveInvariant, PTL DEF Spec, ImplementsKeyGestures, Gestures!Spec
-----------------------------------------------------------------------------
(* Room in the queue.  A turn takes an event and lasts a tick, so that     *)
(* each event stands for a tick, and a tick is split in four: one part for *)
(* the timer of each key and two for the samples.  A debt is what a timer  *)
(* or the samples still have to pay for before they report again; events   *)
(* are reported out of what has been paid.                                 *)

\* What is assumed of the timing; the code has 10, 4 and 15 ticks, and 15 or more.
Timing ==
  /\ KeyNum = 2 /\ TicksPerTurn = 1 /\ QueueLen >= 9
  /\ PollTicks >= 4 /\ LpmTicks >= 10
  /\ \A k \in Key : /\ Multi[k] >= 4 /\ Press[k] >= 4
                    /\ LongPress[k] >= 4 /\ LonglongPress[k] >= 4

\* The ticks a timer still pays for, at most n; one that is off or longer pays for n.
Ahead(t, n) == IF t = Off \/ t >= n THEN n ELSE t

\* The timer of a key reports one event at the end of a stage and one when a hold ends.
KeyDebt(type, t) ==
  CASE type = "NONE"  -> 8
    [] type = "MULTI" -> 4 + Ahead(t, 4)
    [] type \notin {"NONE", "MULTI"} -> Ahead(t, 4)

\* A timed sample reports at most one change of each key.  From here s keys are scanned.
ScanDebt(p, s) == 2 * Ahead(p, 4) - 4 * (KeyNum - s)

\* A wakeup samples at any time, but only without the lock, which the last change gave
\* back LpmTicks before: from then on a key that is held can only be let go.
RestDebt(locked, d, h) == (IF locked THEN 2 * Ahead(d, 10) ELSE 0) - 8 - 4 * h

SampleDebt(locked, d, p, s, h) ==
  CASE ~ locked           -> RestDebt(locked, d, h)
    [] locked /\ d = Off  -> ScanDebt(p, s)
    [] locked /\ d # Off  -> IF ScanDebt(p, s) <= RestDebt(locked, d, h)
                             THEN ScanDebt(p, s) ELSE RestDebt(locked, d, h)

One(k)   == IF Held(k) THEN 1 ELSE 0
HeldKeys == One(0) + One(1)

KeyOwes(k)  == KeyDebt(press_type[k], key_timer[k])
SamplesOwe == SampleDebt(lpmLocked, delayLpm, polling, scan, HeldKeys)
Debt == KeyOwes(0) + KeyOwes(1) + SamplesOwe

Covered == 4 * Len(queue) <= 4 * lateness + Debt + 6

\* A press cancels the give-back of the lock, so that one is only due after a release.
Rested == (lpmLocked /\ delayLpm = Off) \/ HeldKeys <= 1

Roomy == lateness <= 1 /\ Rested /\ Covered
-----------------------------------------------------------------------------
(* The debts. *)

Times == Nat \cup {Off}

LEMMA AheadFacts ==
  ASSUME NEW t \in Times, NEW n \in {4, 10}
  PROVE  /\ Ahead(t, n) \in 0 .. n /\ Ahead(Off, n) = n
         /\ Ahead(Elapse(t), n) \in 0 .. n /\ Ahead(Elapse(t), n) >= Ahead(t, n) - 1
         /\ t \in Nat /\ t >= n => Ahead(t, n) = n
         /\ t = 0 => Ahead(t, n) = 0
         /\ t # 0 => Ahead(t, n) >= 1
<1> USE KeypadAssumption
<1>1. CASE t = Off
  BY <1>1 DEF Ahead, Elapse
<1>2. CASE t \in Nat
  BY <1>2 DEF Ahead, Elapse
<1> QED BY <1>1, <1>2 DEF Times

LEMMA KeyDebtFacts ==
  ASSUME NEW type \in PressType, NEW t \in Times
  PROVE  /\ KeyDebt(type, t) \in 0 .. 8
         /\ KeyDebt("NONE", t) = 8
         /\ KeyDebt("MULTI", t) = 4 + Ahead(t, 4)
         /\ type \notin {"NONE", "MULTI"} => KeyDebt(type, t) = Ahead(t, 4)
<1>1. Ahead(t, 4) \in 0 .. 4
  BY AheadFacts
<1> QED BY <1>1 DEF KeyDebt, PressType

LEMMA ScanDebtFacts ==
  ASSUME KeyNum = 2, NEW p \in Nat, NEW s \in 0 .. 2
  PROVE  /\ ScanDebt(p, s) \in Int /\ ScanDebt(p, s) <= 8
         /\ s = 2 /\ p # 0 => ScanDebt(p, s) >= 2
         /\ s < 2 => ScanDebt(p, s + 1) = ScanDebt(p, s) + 4 /\ ScanDebt(p, s + 1) >= -4
                     /\ ScanDebt(p, s) <= 4
<1>1. p \in Times
  BY DEF Times
<1>2. Ahead(p, 4) \in 0 .. 4 /\ (p # 0 => Ahead(p, 4) >= 1)
  BY <1>1, AheadFacts
<1> QED BY <1>2 DEF ScanDebt

LEMMA RestDebtFacts ==
  ASSUME NEW l \in BOOLEAN, NEW d \in Times, NEW h \in 0 .. 2
  PROVE  /\ RestDebt(l, d, h) \in Int
         /\ ~ l => RestDebt(l, d, h) = 0 - 8 - 4 * h
         /\ l => RestDebt(l, d, h) = 2 * Ahead(d, 10) - 8 - 4 * h
         /\ h > 0 => RestDebt(l, d, h - 1) = RestDebt(l, d, h) + 4
<1>1. Ahead(d, 10) \in 0 .. 10
  BY AheadFacts
<1> QED BY <1>1 DEF RestDebt

\* What happens to the debt of the samples.
LEMMA SampleDebtFacts ==
  ASSUME Timing, NEW l \in BOOLEAN, NEW d \in Times, NEW p \in Nat, NEW s \in 0 .. 2,
         NEW h \in 0 .. 2
  PROVE  /\ SampleDebt(l, d, p, s, h) \in Int /\ SampleDebt(l, d, p, s, h) <= 8
         /\ s < 2 =>
              /\ SampleDebt(l, d, p, s + 1, h) >= SampleDebt(l, d, p, s, h)
              /\ h < 2 =>
                   SampleDebt(TRUE, Off, p, s + 1, h + 1) >= SampleDebt(l, d, p, s, h) + 4
              /\ h > 0 =>
                   /\ SampleDebt(l, d, p, s + 1, h - 1) >= SampleDebt(l, d, p, s, h) + 4
                   /\ SampleDebt(l, LpmTicks, p, s + 1, h - 1) >= SampleDebt(l, d, p, s, h) + 4
         /\ h < 2 => SampleDebt(l, LpmTicks, p, s, h) >= SampleDebt(l, d, p, s, h)
         /\ p = 0 /\ s = 2 => /\ SampleDebt(l, d, PollTicks, 0, h) >= SampleDebt(l, d, p, s, h)
                              /\ SampleDebt(l, d, PollTicks, s, h) >= SampleDebt(l, d, p, s, h)
         /\ d = 0 => SampleDebt(FALSE, LpmTicks, p, s, h) >= SampleDebt(l, d, p, s, h)
         /\ SampleDebt(l, Elapse(d), Elapse(p), s, h) >= SampleDebt(l, d, p, s, h) - 2
<1> DEFINE A == ScanDebt(p, s)
           B == RestDebt(l, d, h)
           S == SampleDebt(l, d, p, s, h)
<1> USE DEF Timing
<1>1. /\ A \in Int /\ A <= 8
      /\ s < 2 => ScanDebt(p, s + 1) = A + 4 /\ ScanDebt(p, s + 1) >= -4 /\ A <= 4
  BY ScanDebtFacts
<1>2. /\ B \in Int /\ (~ l => B = 0 - 8 - 4 * h)
      /\ l => B = 2 * Ahead(d, 10) - 8 - 4 * h
      /\ h > 0 => RestDebt(l, d, h - 1) = B + 4
  BY RestDebtFacts
<1>3. /\ LpmTicks \in Nat /\ LpmTicks \in Times /\ LpmTicks # Off
      /\ PollTicks \in Nat /\ PollTicks \in Times
      /\ Off \in Times /\ Off \notin Nat /\ p \in Times
  BY KeypadAssumption DEF Times
<1>4. /\ Ahead(d, 10) \in 0 .. 10 /\ Ahead(LpmTicks, 10) = 10 /\ (d = 0 => Ahead(d, 10) = 0)
      /\ Ahead(Elapse(d), 10) \in 0 .. 10 /\ Ahead(Elapse(d), 10) >= Ahead(d, 10) - 1
  BY <1>3, AheadFacts
<1>5. /\ ~ l => S = B
      /\ l /\ d = Off => S = A
      /\ l /\ d # Off => S \in {A, B} /\ S <= A /\ S <= B
  BY <1>1, <1>2 DEF SampleDebt
<1>6. S \in Int /\ S <= 8
  BY <1>1, <1>2, <1>5
<1>7. ASSUME s < 2 PROVE SampleDebt(l, d, p, s + 1, h) >= S
  <2>1. /\ ~ l => SampleDebt(l, d, p, s + 1, h) = B
        /\ l /\ d = Off => SampleDebt(l, d, p, s + 1, h) = ScanDebt(p, s + 1)
        /\ l /\ d # Off => SampleDebt(l, d, p, s + 1, h) \in {ScanDebt(p, s + 1), B}
    BY DEF SampleDebt
  <2> HIDE DEF A, B, S
  <2> QED BY <1>1, <1>2, <1>5, <1>7, <2>1
<1>8. ASSUME s < 2, h < 2 PROVE SampleDebt(TRUE, Off, p, s + 1, h + 1) >= S + 4
  <2> DEFINE N == SampleDebt(TRUE, Off, p, s + 1, h + 1)
  <2>1. N = ScanDebt(p, s + 1)
    BY DEF SampleDebt
  <2> HIDE DEF A, B, S, N
  <2>2. N >= S + 4
    BY <1>1, <1>2, <1>5, <1>8, <2>1
  <2> QED BY <2>2, Zenon DEF N
<1>9. ASSUME s < 2, h > 0 PROVE SampleDebt(l, d, p, s + 1, h - 1) >= S + 4
  <2>1. /\ ~ l => SampleDebt(l, d, p, s + 1, h - 1) = RestDebt(l, d, h - 1)
        /\ l /\ d = Off => SampleDebt(l, d, p, s + 1, h - 1) = ScanDebt(p, s + 1)
        /\ l /\ d # Off => SampleDebt(l, d, p, s + 1, h - 1)
                              \in {ScanDebt(p, s + 1), RestDebt(l, d, h - 1)}
    BY DEF SampleDebt
  <2> HIDE DEF A, B, S
  <2> QED BY <1>1, <1>2, <1>5, <1>9, <2>1
<1>10. ASSUME s < 2, h > 0 PROVE SampleDebt(l, LpmTicks, p, s + 1, h - 1) >= S + 4
  <2> DEFINE R == RestDebt(l, LpmTicks, h - 1)
  <2>1. /\ ~ l => SampleDebt(l, LpmTicks, p, s + 1, h - 1) = R
        /\ l => SampleDebt(l, LpmTicks, p, s + 1, h - 1) \in {ScanDebt(p, s + 1), R}
    BY <1>3 DEF SampleDebt
  <2>2. h - 1 \in 0 .. 2
    BY <1>10
  <2>3. (~ l => R = 0 - 8 - 4 * (h - 1)) /\ (l => R = 20 - 8 - 4 * (h - 1))
    BY <1>3, <1>4, <2>2, RestDebtFacts
  <2> HIDE DEF A, B, S, R
  <2> QED BY <1>1, <1>2, <1>4, <1>5, <1>10, <2>1, <2>3
<1>11. ASSUME h < 2 PROVE SampleDebt(l, LpmTicks, p, s, h) >= S
  <2> DEFINE R == RestDebt(l, LpmTicks, h)
  <2>1. /\ ~ l => SampleDebt(l, LpmTicks, p, s, h) = R
        /\ l => SampleDebt(l, LpmTicks, p, s, h) \in {A, R}
    BY <1>3 DEF SampleDebt
  <2>2. (~ l => R = 0 - 8 - 4 * h) /\ (l => R = 20 - 8 - 4 * h)
    BY <1>3, <1>4, RestDebtFacts
  <2> HIDE DEF A, B, S, R
  <2> QED BY <1>1, <1>2, <1>4, <1>5, <1>11, <2>1, <2>2
<1>12. ASSUME p = 0, s = 2
       PROVE  SampleDebt(l, d, PollTicks, 0, h) >= S /\ SampleDebt(l, d, PollTicks, s, h) >= S
  <2>1. Ahead(PollTicks, 4) = 4 /\ Ahead(p, 4) = 0
    BY <1>3, <1>12, AheadFacts
  <2>2. A = 0 /\ ScanDebt(PollTicks, 0) = 0 /\ ScanDebt(PollTicks, 2) = 8
    BY <1>12, <2>1 DEF ScanDebt
  <2>3. \A r \in {0, 2} :
          /\ ~ l => SampleDebt(l, d, PollTicks, r, h) = B
          /\ l /\ d = Off => SampleDebt(l, d, PollTicks, r, h) = ScanDebt(PollTicks, r)
          /\ l /\ d # Off => SampleDebt(l, d, PollTicks, r, h) \in {ScanDebt(PollTicks, r), B}
    BY DEF SampleDebt
  <2> HIDE DEF A, B, S
  <2> QED BY <1>1, <1>2, <1>5, <1>12, <2>2, <2>3
<1>13. ASSUME d = 0 PROVE SampleDebt(FALSE, LpmTicks, p, s, h) >= S
  <2> DEFINE N == SampleDebt(FALSE, LpmTicks, p, s, h)
  <2>1. N = 0 - 8 - 4 * h
    BY <1>3, RestDebtFacts DEF SampleDebt
  <2>2. d # Off
    BY <1>3, <1>13
  <2> HIDE DEF A, B, S, N
  <2>3. N >= S
    BY <1>1, <1>2, <1>4, <1>5, <1>13, <2>1, <2>2
  <2> QED BY <2>3, Zenon DEF N
<1>14. SampleDebt(l, Elapse(d), Elapse(p), s, h) >= S - 2
  <2> DEFINE N == RestDebt(l, Elapse(d), h)
             M == ScanDebt(Elapse(p), s)
  <2>1. /\ Elapse(d) \in Times /\ (Elapse(d) = Off <=> d = Off)
        /\ Elapse(p) \in Nat
    BY ElapseFacts DEF Times
  <2>2. /\ ~ l => SampleDebt(l, Elapse(d), Elapse(p), s, h) = N
        /\ l /\ d = Off => SampleDebt(l, Elapse(d), Elapse(p), s, h) = M
        /\ l /\ d # Off => SampleDebt(l, Elapse(d), Elapse(p), s, h) \in {M, N}
    BY <2>1 DEF SampleDebt
  <2>3. N >= B - 2 /\ N \in Int
    BY <1>2, <1>4, <2>1, RestDebtFacts
  <2>4. M >= A - 2 /\ M \in Int
    <3>1. /\ Ahead(p, 4) \in Nat /\ Ahead(Elapse(p), 4) \in Nat
          /\ Ahead(Elapse(p), 4) >= Ahead(p, 4) - 1
      BY <1>3, AheadFacts
    <3> QED BY <3>1 DEF ScanDebt
  <2> HIDE DEF A, B, S, M, N
  <2> QED BY <1>1, <1>2, <1>5, <2>2, <2>3, <2>4
<1> QED BY <1>6, <1>7, <1>8, <1>9, <1>10, <1>11, <1>12, <1>13, <1>14
-----------------------------------------------------------------------------
(* The steps and the debts. *)

DebtTypes ==
  /\ \A k \in Key : KeyOwes(k) \in 0 .. 8
  /\ SamplesOwe \in Int /\ SamplesOwe <= 8
  /\ HeldKeys \in 0 .. 2 /\ Len(queue) \in Nat /\ lateness \in Nat

LEMMA HeldKeysType == HeldKeys \in 0 .. 2
BY DEF HeldKeys, One

LEMMA DebtTypesHold == Timing /\ TypeOK => DebtTypes
<1> SUFFICES ASSUME Timing, TypeOK PROVE DebtTypes
  OBVIOUS
<1>1. \A k \in Key : press_type[k] \in PressType /\ key_timer[k] \in Times
  BY DEF TypeOK, Times
<1>2. \A k \in Key : KeyOwes(k) \in 0 .. 8
  BY <1>1, KeyDebtFacts DEF KeyOwes
<1>3. lpmLocked \in BOOLEAN /\ delayLpm \in Times /\ polling \in Nat /\ scan \in 0 .. 2
  BY DEF TypeOK, Times, Timing
<1>4. SamplesOwe \in Int /\ SamplesOwe <= 8
  BY <1>3, HeldKeysType, SampleDebtFacts DEF SamplesOwe
<1>5. Len(queue) \in Nat /\ lateness \in Nat
  BY DEF TypeOK
<1> QED BY <1>2, <1>4, <1>5, HeldKeysType DEF DebtTypes

LEMMA DebtTypesNext ==
  ASSUME Timing PROVE TypeOK' => DebtTypes'
<1>1. TypeOK => DebtTypes
  BY DebtTypesHold
<1> QED BY <1>1, PTL

LEMMA Room ==
  ASSUME Timing, TypeOK, Roomy
  PROVE  NoEventLost
<1>1. /\ KeyOwes(0) \in 0 .. 8 /\ KeyOwes(1) \in 0 .. 8 /\ SamplesOwe \in Int
      /\ SamplesOwe <= 8 /\ Len(queue) \in Nat /\ lateness \in Nat
  BY DebtTypesHold DEF DebtTypes, Timing, Key
<1>2. lateness <= 1 /\ 4 * Len(queue) <= 4 * lateness + Debt + 6
  BY DEF Roomy, Covered
<1>3. Debt <= 24 /\ Debt \in Int
  <2> DEFINE k0 == KeyOwes(0)
             k1 == KeyOwes(1)
             sa == SamplesOwe
  <2>1. k0 \in 0 .. 8 /\ k1 \in 0 .. 8 /\ sa \in Int /\ sa <= 8 /\ Debt = k0 + k1 + sa
    BY <1>1 DEF Debt
  <2> HIDE DEF k0, k1, sa
  <2> QED BY <2>1
<1>4. Len(queue) <= 8
  BY <1>1, <1>2, <1>3
<1>5. QueueLen \in Nat /\ QueueLen >= 9
  BY KeypadAssumption DEF Timing
<1> QED BY <1>1, <1>4, <1>5 DEF NoEventLost

LEMMA HeldChange ==
  ASSUME Timing, NEW k \in Key, \A j \in Key \ {k} : Held(j)' <=> Held(j)
  PROVE  /\ (Held(k)' <=> Held(k)) => HeldKeys' = HeldKeys
         /\ ~ Held(k) /\ Held(k)' => HeldKeys' = HeldKeys + 1 /\ HeldKeys < 2
         /\ Held(k) /\ ~ Held(k)' => HeldKeys' = HeldKeys - 1 /\ HeldKeys > 0
<1>1. k \in {0, 1} /\ Key = {0, 1}
  BY DEF Timing, Key
<1>2. CASE k = 0
  <2>1. Held(1)' <=> Held(1)
    BY <1>1, <1>2
  <2> QED BY <1>2, <2>1 DEF HeldKeys, One
<1>3. CASE k = 1
  <2>1. Held(0)' <=> Held(0)
    BY <1>1, <1>3
  <2> QED BY <1>3, <2>1 DEF HeldKeys, One
<1> QED BY <1>1, <1>2, <1>3

\* What is queued is covered as long as the debt grows by four for each event.
LEMMA Balance ==
  ASSUME NEW n \in Nat, NEW m \in Nat, NEW late \in Nat, NEW x \in Int, NEW y \in Int,
         NEW more \in 0 .. 2,
         4 * n <= 4 * late + x + 6, m <= n + more, y >= x + 4 * more
  PROVE  4 * m <= 4 * late + y + 6
OBVIOUS

\* What a key reports is paid for by what it and the samples owe more.
LEMMA Pays ==
  ASSUME Timing, TypeOK, TypeOK', Roomy, Rested', lateness' = lateness,
         NEW k \in Key, \A j \in Key \ {k} : KeyOwes(j)' = KeyOwes(j),
         NEW a \in 0 .. 1, NEW b \in 0 .. 1,
         Len(queue') <= Len(queue) + (a + b),
         KeyOwes(k)' >= KeyOwes(k) + 4 * a, SamplesOwe' >= SamplesOwe + 4 * b
  PROVE  Roomy'
<1> DEFINE x == Debt
           y == Debt'
           k0 == KeyOwes(0)
           k1 == KeyOwes(1)
           sa == SamplesOwe
           l0 == KeyOwes(0)'
           l1 == KeyOwes(1)'
           sb == SamplesOwe'
<1>1. /\ k0 \in Int /\ k1 \in Int /\ l0 \in Int /\ l1 \in Int /\ sa \in Int /\ sb \in Int
      /\ Len(queue) \in Nat /\ Len(queue') \in Nat /\ lateness \in Nat
  <2>1. 0 \in Key /\ 1 \in Key
    BY DEF Timing, Key
  <2>2. DebtTypes /\ DebtTypes'
    BY DebtTypesHold, DebtTypesNext
  <2>3. /\ k0 \in 0 .. 8 /\ k1 \in 0 .. 8 /\ sa \in Int
        /\ Len(queue) \in Nat /\ lateness \in Nat
    BY <2>1, <2>2 DEF DebtTypes
  <2>4. l0 \in 0 .. 8 /\ l1 \in 0 .. 8 /\ sb \in Int /\ Len(queue') \in Nat
    BY <2>1, <2>2 DEF DebtTypes
  <2> HIDE DEF k0, k1, sa, l0, l1, sb
  <2> QED BY <2>3, <2>4
<1>2. \/ l1 = k1 /\ l0 >= k0 + 4 * a
      \/ l0 = k0 /\ l1 >= k1 + 4 * a
  <2>1. k \in {0, 1} /\ Key = {0, 1}
    BY DEF Timing, Key
  <2>2. CASE k = 0
    BY <2>1, <2>2
  <2>3. CASE k = 1
    BY <2>1, <2>3
  <2> QED BY <2>1, <2>2, <2>3
<1>3. x = k0 + k1 + sa /\ y = l0 + l1 + sb
  BY DEF Debt
<1>4. 4 * Len(queue) <= 4 * lateness + x + 6
  BY DEF Roomy, Covered
<1>5. sb >= sa + 4 * b
  OBVIOUS
<1> HIDE DEF x, y, k0, k1, sa, l0, l1, sb
<1>6. x \in Int /\ y \in Int /\ y >= x + 4 * (a + b) /\ a + b \in 0 .. 2
  BY <1>1, <1>2, <1>3, <1>5
<1>7. 4 * Len(queue') <= 4 * lateness + y + 6
  BY <1>1, <1>4, <1>6, Balance
<1> QED BY <1>7 DEF Roomy, Covered, y

LEMMA OfferLen ==
  ASSUME NEW q \in Seq(Key \X Event), NEW x \in Key \X Event
  PROVE  Offer(q, x) \in Seq(Key \X Event) /\ Len(Offer(q, x)) <= Len(q) + 1
BY DEF Offer

LEMMA NotHeld ==
  ASSUME Timing, NEW k \in Key, ~ Held(k)
  PROVE  HeldKeys <= 1
<1>1. k = 0 \/ k = 1
  BY DEF Timing, Key
<1> QED BY <1>1 DEF HeldKeys, One

\* The debt of a key none of whose state changes.
LEMMA KeySame ==
  ASSUME NEW k \in Key, press_type'[k] = press_type[k], key_timer'[k] = key_timer[k]
  PROVE  KeyOwes(k)' = KeyOwes(k)
BY DEF KeyOwes

\* The debt of a key by the stage it is in.
LEMMA KeyOwesFacts ==
  ASSUME Timing, TypeOK, NEW k \in Key
  PROVE  /\ KeyOwes(k) \in 0 .. 8
         /\ press_type[k] = "NONE" => KeyOwes(k) = 8
         /\ press_type[k] = "MULTI" =>
              /\ key_timer[k] = Off => KeyOwes(k) = 8
              /\ key_timer[k] = 0 => KeyOwes(k) = 4
              /\ key_timer[k] # 0 => KeyOwes(k) >= 5
         /\ press_type[k] \notin {"NONE", "MULTI"} =>
              /\ key_timer[k] = 0 => KeyOwes(k) = 0
              /\ key_timer[k] # 0 => KeyOwes(k) >= 1
              /\ key_timer[k] \in Nat /\ key_timer[k] >= 4 => KeyOwes(k) = 4
<1>1. press_type[k] \in PressType /\ key_timer[k] \in Times
  BY DEF TypeOK, Times
<1>2. /\ Ahead(key_timer[k], 4) \in 0 .. 4
      /\ key_timer[k] = Off => Ahead(key_timer[k], 4) = 4
      /\ key_timer[k] = 0 => Ahead(key_timer[k], 4) = 0
      /\ key_timer[k] # 0 => Ahead(key_timer[k], 4) >= 1
      /\ key_timer[k] \in Nat /\ key_timer[k] >= 4 => Ahead(key_timer[k], 4) = 4
  BY <1>1, AheadFacts
<1>3. /\ KeyOwes(k) \in 0 .. 8
      /\ press_type[k] = "NONE" => KeyOwes(k) = 8
      /\ press_type[k] = "MULTI" => KeyOwes(k) = 4 + Ahead(key_timer[k], 4)
      /\ press_type[k] \notin {"NONE", "MULTI"} => KeyOwes(k) = Ahead(key_timer[k], 4)
  BY <1>1, KeyDebtFacts DEF KeyOwes
<1> QED BY <1>2, <1>3

LEMMA KeyOwesFactsNext ==
  ASSUME Timing, TypeOK', NEW k \in Key
  PROVE  /\ KeyOwes(k)' \in 0 .. 8
         /\ press_type'[k] = "NONE" => KeyOwes(k)' = 8
         /\ press_type'[k] = "MULTI" /\ key_timer'[k] = Off => KeyOwes(k)' = 8
         /\ press_type'[k] = "MULTI" /\ key_timer'[k] \in Nat /\ key_timer'[k] >= 4
              => KeyOwes(k)' = 8
         /\ press_type'[k] \notin {"NONE", "MULTI"} /\ key_timer'[k] \in Nat /\ key_timer'[k] >= 4
              => KeyOwes(k)' = 4
<1>1. press_type'[k] \in PressType /\ key_timer'[k] \in Times
  BY DEF TypeOK, Times
<1>2. /\ key_timer'[k] = Off => Ahead(key_timer'[k], 4) = 4
      /\ key_timer'[k] \in Nat /\ key_timer'[k] >= 4 => Ahead(key_timer'[k], 4) = 4
  BY <1>1, AheadFacts
<1>3. /\ KeyOwes(k)' \in 0 .. 8
      /\ press_type'[k] = "NONE" => KeyOwes(k)' = 8
      /\ press_type'[k] = "MULTI" => KeyOwes(k)' = 4 + Ahead(key_timer'[k], 4)
      /\ press_type'[k] \notin {"NONE", "MULTI"} => KeyOwes(k)' = Ahead(key_timer'[k], 4)
  BY <1>1, KeyDebtFacts DEF KeyOwes
<1> QED BY <1>2, <1>3

LEMMA SampleTypes ==
  ASSUME Timing, TypeOK
  PROVE  /\ lpmLocked \in BOOLEAN /\ delayLpm \in Times /\ polling \in Nat /\ scan \in 0 .. 2
         /\ HeldKeys \in 0 .. 2 /\ SamplesOwe \in Int
BY HeldKeysType, DebtTypesHold DEF TypeOK, Times, Timing, DebtTypes

\* A step of the scan pays for the change it finds.
LEMMA ScanPays ==
  ASSUME Timing, TypeOK, Rested, NEW k \in Key, Scans(k)
  PROVE  /\ (k \in mapping <=> k \in mappingOld) /\ UNCHANGED lpm =>
              SamplesOwe' >= SamplesOwe /\ Rested'
         /\ k \in mapping \ mappingOld /\ LockForPress =>
              SamplesOwe' >= SamplesOwe + 4 /\ Rested'
         /\ k \in mappingOld \ mapping /\ (UNCHANGED lpm \/ keypad_delayLpm) =>
              SamplesOwe' >= SamplesOwe + 4 /\ Rested'
<1> DEFINE h == HeldKeys
           S(l, d, g) == SampleDebt(l, d, polling, scan + 1, g)
<1>1. /\ lpmLocked \in BOOLEAN /\ delayLpm \in Times /\ polling \in Nat /\ scan \in 0 .. 2
      /\ h \in 0 .. 2
  BY SampleTypes
<1>2. scan < 2 /\ scan' = scan + 1 /\ polling' = polling
  BY <1>1 DEF Scans, Timing, Key
<1>3. /\ Held(k) <=> k \in mappingOld
      /\ Held(k)' <=> k \in mapping
      /\ \A j \in Key \ {k} : Held(j)' <=> Held(j)
  BY ScanHeld
<1>4. SamplesOwe' = S(lpmLocked', delayLpm', HeldKeys')
  BY <1>2 DEF SamplesOwe
<1>5. ASSUME k \in mapping <=> k \in mappingOld, UNCHANGED lpm
      PROVE  SamplesOwe' >= SamplesOwe /\ Rested'
  <2>1. HeldKeys' = h
    BY <1>3, <1>5, HeldChange
  <2>2. SamplesOwe' = S(lpmLocked, delayLpm, h)
    BY <1>4, <1>5, <2>1 DEF lpm
  <2>3. S(lpmLocked, delayLpm, h) >= SamplesOwe
    BY <1>1, <1>2, SampleDebtFacts DEF SamplesOwe
  <2> QED BY <1>5, <2>1, <2>2, <2>3 DEF lpm, Rested
<1>6. ASSUME k \in mapping \ mappingOld, LockForPress
      PROVE  SamplesOwe' >= SamplesOwe + 4 /\ Rested'
  <2>1. HeldKeys' = h + 1 /\ h < 2
    BY <1>3, <1>6, HeldChange
  <2>2. lpmLocked' = TRUE /\ delayLpm' = Off
    BY <1>6 DEF LockForPress
  <2>3. SamplesOwe' = S(TRUE, Off, h + 1)
    BY <1>4, <2>1, <2>2, Zenon
  <2>4. S(TRUE, Off, h + 1) >= SamplesOwe + 4
    BY <1>1, <1>2, <2>1, SampleDebtFacts, Zenon DEF SamplesOwe
  <2> HIDE DEF S
  <2>5. SamplesOwe' >= SamplesOwe + 4
    BY <2>3, <2>4, Zenon
  <2> QED BY <2>2, <2>5 DEF Rested
<1>7. ASSUME k \in mappingOld \ mapping, UNCHANGED lpm \/ keypad_delayLpm
      PROVE  SamplesOwe' >= SamplesOwe + 4 /\ Rested'
  <2>1. HeldKeys' = h - 1 /\ h > 0
    BY <1>3, <1>7, HeldChange
  <2>2. lpmLocked' = lpmLocked /\ delayLpm' \in {delayLpm, LpmTicks}
    BY <1>7 DEF keypad_delayLpm, lpm
  <2>3. SamplesOwe' = S(lpmLocked, delayLpm', h - 1)
    BY <1>4, <2>1, <2>2
  <2>4. /\ S(lpmLocked, delayLpm, h - 1) >= SamplesOwe + 4
        /\ S(lpmLocked, LpmTicks, h - 1) >= SamplesOwe + 4
    BY <1>1, <1>2, <2>1, SampleDebtFacts DEF SamplesOwe
  <2>5. HeldKeys' <= 1
    BY <1>1, <2>1
  <2> QED BY <2>2, <2>3, <2>4, <2>5 DEF Rested
<1> QED BY <1>5, <1>6, <1>7

\* The timer of a key reports while the samples rest.
LEMMA ExpiryPays ==
  ASSUME Timing, TypeOK, Rested, NEW k \in Key, NEW type, Expires(k, type)
  PROVE  /\ UNCHANGED lpm => SamplesOwe' >= SamplesOwe /\ Rested'
         /\ k \notin mapping /\ keypad_delayLpm => SamplesOwe' >= SamplesOwe /\ Rested'
<1>1. /\ lpmLocked \in BOOLEAN /\ delayLpm \in Times /\ polling \in Nat /\ scan \in 0 .. 2
      /\ HeldKeys \in 0 .. 2 /\ SamplesOwe \in Int
  BY SampleTypes
<1>2. /\ scan' = scan /\ polling' = polling
      /\ \A j \in Key : Held(j)' <=> Held(j)
  BY SameHeld DEF Expires, sample
<1>3. HeldKeys' = HeldKeys
  BY <1>2, HeldChange
<1>4. SamplesOwe' = SampleDebt(lpmLocked', delayLpm', polling, scan, HeldKeys)
  BY <1>2, <1>3 DEF SamplesOwe
<1>5. ASSUME UNCHANGED lpm PROVE SamplesOwe' >= SamplesOwe /\ Rested'
  <2>1. SamplesOwe' = SamplesOwe
    BY <1>4, <1>5 DEF lpm, SamplesOwe
  <2> QED BY <1>1, <1>3, <1>5, <2>1 DEF lpm, Rested
<1>6. ASSUME k \notin mapping, keypad_delayLpm PROVE SamplesOwe' >= SamplesOwe /\ Rested'
  <2>1. ~ Held(k)
    BY <1>6, IdleHeld, KeypadAssumption DEF Expires
  <2>2. HeldKeys <= 1 /\ HeldKeys < 2
    BY <1>1, <2>1, NotHeld
  <2>3. SamplesOwe' = SampleDebt(lpmLocked, LpmTicks, polling, scan, HeldKeys)
    BY <1>4, <1>6 DEF keypad_delayLpm
  <2>4. SampleDebt(lpmLocked, LpmTicks, polling, scan, HeldKeys) >= SamplesOwe
    BY <1>1, <2>2, SampleDebtFacts DEF SamplesOwe
  <2> QED BY <1>3, <2>2, <2>3, <2>4 DEF Rested
<1> QED BY <1>5, <1>6

-----------------------------------------------------------------------------
(* The invariant, step by step. *)

RInv == IInv /\ Roomy

\* An event more in the queue, or none.
LEMMA SendsLen ==
  ASSUME TypeOK, NEW k \in Key, NEW e \in Event, Sends(k, e)
  PROVE  Len(queue') <= Len(queue) + 1
BY OfferLen DEF Sends, TypeOK

LEMMA OtherKeys ==
  ASSUME TypeOK, NEW k \in Key, NEW type, NEW t,
         press_type' = press_type \/ Becomes(k, type),
         key_timer' = key_timer \/ Arms(k, t)
  PROVE  \A j \in Key \ {k} : KeyOwes(j)' = KeyOwes(j)
<1>1. \A j \in Key \ {k} : press_type'[j] = press_type[j] /\ key_timer'[j] = key_timer[j]
  BY DEF TypeOK, Becomes, Arms
<1> QED BY <1>1, KeySame

LEMMA PayTypes ==
  ASSUME Timing, TypeOK, TypeOK', NEW k \in Key
  PROVE  /\ KeyOwes(k) \in 0 .. 8 /\ KeyOwes(k)' \in 0 .. 8
         /\ SamplesOwe \in Int /\ SamplesOwe' \in Int
         /\ Len(queue) \in Nat /\ Len(queue') \in Nat
BY DebtTypesHold, DebtTypesNext DEF DebtTypes

LEMMA ScanSameRoom ==
  ASSUME Timing, RInv, TypeOK', NEW k \in Key, ScanSame(k)
  PROVE  Roomy'
<1> USE DEF RInv, IInv
<1>1. UNCHANGED << press_type, key_timer, queue, lpm, lateness >>
  BY DEF ScanSame, Scans, keys
<1>2. \A j \in Key : KeyOwes(j)' = KeyOwes(j)
  BY <1>1, KeySame
<1>3. SamplesOwe' >= SamplesOwe /\ Rested'
  BY ScanPays DEF ScanSame, Roomy
<1>4. /\ Len(queue') = Len(queue) /\ Len(queue) \in Nat /\ KeyOwes(k) \in 0 .. 8
      /\ SamplesOwe \in Int /\ SamplesOwe' \in Int
  BY <1>1, PayTypes
<1>5. /\ Len(queue') <= Len(queue) + (0 + 0)
      /\ KeyOwes(k)' >= KeyOwes(k) + 4 * 0 /\ SamplesOwe' >= SamplesOwe + 4 * 0
  BY <1>2, <1>3, <1>4
<1> QED BY <1>1, <1>2, <1>3, <1>5, Pays

LEMMA ScanDownRoom ==
  ASSUME Timing, RInv, TypeOK', NEW k \in Key, ScanDown(k)
  PROVE  Roomy'
<1> USE DEF RInv, IInv
<1>1. SamplesOwe' >= SamplesOwe + 4 /\ Rested' /\ lateness' = lateness
  BY ScanPays DEF ScanDown, Roomy, Scans
<1>2. Len(queue') <= Len(queue) + 1
  <2>1. "DOWN" \in Event
    BY DEF Event
  <2> QED BY <2>1, SendsLen DEF ScanDown
<1>3. \A j \in Key \ {k} : KeyOwes(j)' = KeyOwes(j)
  BY OtherKeys DEF ScanDown
<1>4. KeyOwes(k)' >= KeyOwes(k)
  <2>1. KeyOwes(k) \in 0 .. 8 /\ KeyOwes(k)' \in 0 .. 8
    BY KeyOwesFacts, KeyOwesFactsNext
  <2>2. CASE press_type[k] = "NONE"
    <3>1. press_type'[k] = "MULTI" /\ key_timer'[k] = Multi[k] /\ Multi[k] \in Nat /\ Multi[k] >= 4
      BY <2>2, KeypadAssumption DEF ScanDown, Becomes, Arms, TypeOK, Timing
    <3>2. KeyOwes(k)' = 8
      BY <3>1, KeyOwesFactsNext
    <3> QED BY <2>1, <3>2
  <2>3. CASE press_type[k] # "NONE"
    <3>1. KeyOwes(k)' = KeyOwes(k)
      BY <2>3, KeySame DEF ScanDown
    <3> QED BY <2>1, <3>1
  <2> QED BY <2>2, <2>3
<1>5. /\ Len(queue) \in Nat /\ Len(queue') \in Nat
      /\ KeyOwes(k) \in 0 .. 8 /\ KeyOwes(k)' \in 0 .. 8
  BY PayTypes
<1>6. /\ Len(queue') <= Len(queue) + (0 + 1)
      /\ KeyOwes(k)' >= KeyOwes(k) + 4 * 0 /\ SamplesOwe' >= SamplesOwe + 4 * 1
  BY <1>1, <1>2, <1>4, <1>5
<1> QED BY <1>1, <1>3, <1>6, Pays

LEMMA LetGoRoom ==
  ASSUME Timing, RInv, TypeOK', NEW k \in Key, ScanClick(k) \/ ScanLetGo(k)
  PROVE  Roomy'
<1> USE DEF RInv, IInv
<1>1. SamplesOwe' >= SamplesOwe + 4 /\ Rested' /\ lateness' = lateness
  BY ScanPays DEF ScanClick, ScanLetGo, Roomy, Scans
<1>2. Len(queue') <= Len(queue) + 1
  <2>1. "UP" \in Event
    BY DEF Event
  <2> QED BY <2>1, SendsLen DEF ScanClick, ScanLetGo
<1>3. \A j \in Key \ {k} : KeyOwes(j)' = KeyOwes(j)
  BY OtherKeys DEF ScanClick, ScanLetGo
<1>4. KeyOwes(k)' >= KeyOwes(k)
  <2>1. KeyOwes(k) \in 0 .. 8
    BY KeyOwesFacts
  <2>2. CASE ScanClick(k)
    <3>1. KeyOwes(k)' = KeyOwes(k)
      BY <2>2, KeySame DEF ScanClick
    <3> QED BY <2>1, <3>1
  <2>3. CASE ScanLetGo(k)
    <3>1. press_type'[k] = "NONE"
      BY <2>3 DEF ScanLetGo, Becomes, TypeOK
    <3>2. KeyOwes(k)' = 8
      BY <3>1, KeyOwesFactsNext
    <3> QED BY <2>1, <3>2
  <2> QED BY <2>2, <2>3
<1>5. /\ Len(queue) \in Nat /\ Len(queue') \in Nat
      /\ KeyOwes(k) \in 0 .. 8 /\ KeyOwes(k)' \in 0 .. 8
  BY PayTypes
<1>6. /\ Len(queue') <= Len(queue) + (0 + 1)
      /\ KeyOwes(k)' >= KeyOwes(k) + 4 * 0 /\ SamplesOwe' >= SamplesOwe + 4 * 1
  BY <1>1, <1>2, <1>4, <1>5
<1> QED BY <1>1, <1>3, <1>6, Pays

\* The end of a hold queues two events: the hold paid for one with its timer, the sample
\* for the other.
LEMMA ScanReleaseRoom ==
  ASSUME Timing, RInv, TypeOK', NEW k \in Key, ScanRelease(k)
  PROVE  Roomy'
<1> USE DEF RInv, IInv
<1>1. SamplesOwe' >= SamplesOwe + 4 /\ Rested' /\ lateness' = lateness
  BY ScanPays DEF ScanRelease, Roomy, Scans
<1>2. Len(queue') <= Len(queue) + 2
  <2>1. {"UP", "TAP", "PRESS_RELEASE", "LONG_RELEASE", "LONGLONG_RELEASE"} \subseteq Event
    BY DEF Event
  <2>2. ReleaseEvent[press_type[k]] \in Event
    BY <2>1 DEF TypeOK, ScanRelease, ReleaseEvent, PressType
  <2>3. << k, "UP" >> \in Key \X Event /\ << k, ReleaseEvent[press_type[k]] >> \in Key \X Event
    BY <2>1, <2>2
  <2>4. /\ Offer(queue, << k, "UP" >>) \in Seq(Key \X Event)
        /\ Len(Offer(queue, << k, "UP" >>)) <= Len(queue) + 1
        /\ Len(queue') <= Len(Offer(queue, << k, "UP" >>)) + 1
    BY <2>3, OfferLen DEF TypeOK, ScanRelease
  <2>5. Len(queue) \in Nat /\ Len(queue') \in Nat /\ Len(Offer(queue, << k, "UP" >>)) \in Nat
    BY <2>4 DEF TypeOK
  <2> QED BY <2>4, <2>5
<1>3. \A j \in Key \ {k} : KeyOwes(j)' = KeyOwes(j)
  BY OtherKeys DEF ScanRelease
<1>4. KeyOwes(k)' >= KeyOwes(k) + 4
  <2>1. press_type'[k] = "NONE"
    BY DEF ScanRelease, Becomes, TypeOK
  <2>2. KeyOwes(k)' = 8
    BY <2>1, KeyOwesFactsNext
  <2>3. press_type[k] \in PressType /\ key_timer[k] \in Times
    BY DEF TypeOK, Times
  <2>4. KeyOwes(k) = Ahead(key_timer[k], 4) /\ Ahead(key_timer[k], 4) \in 0 .. 4
    BY <2>3, KeyDebtFacts, AheadFacts DEF ScanRelease, KeyOwes
  <2> QED BY <2>2, <2>4
<1>5. Len(queue) \in Nat /\ Len(queue') \in Nat
  BY DEF TypeOK
<1>6. /\ Len(queue') <= Len(queue) + (1 + 1)
      /\ KeyOwes(k)' >= KeyOwes(k) + 4 * 1 /\ SamplesOwe' >= SamplesOwe + 4 * 1
  BY <1>1, <1>2, <1>4, <1>5
<1> QED BY <1>1, <1>3, <1>6, Pays

\* A stage that ends, reported or not, starts another that the timer pays for.
LEMMA ExpiryRoom ==
  ASSUME Timing, RInv, TypeOK', NEW k \in Key, keypad_keyExpired(k)
  PROVE  Roomy'
<1> USE DEF RInv, IInv
<1>1. SamplesOwe' >= SamplesOwe /\ Rested' /\ lateness' = lateness
  <2>1. \E type : Expires(k, type)
    BY DEF keypad_keyExpired, ExpireHeld, ExpireClickedHeld, ExpireClicked, ExpirePress,
       ExpireLongPress, ExpireLonglongPress, SYS_TimerExpireDefaultHandle
  <2>2. UNCHANGED lpm \/ (k \notin mapping /\ keypad_delayLpm)
    BY DEF keypad_keyExpired, ExpireHeld, ExpireClickedHeld, ExpireClicked, ExpirePress,
       ExpireLongPress, ExpireLonglongPress, SYS_TimerExpireDefaultHandle, Advance, lpm
  <2> QED BY <2>1, <2>2, ExpiryPays DEF Roomy, Expires
<1>2. \A j \in Key \ {k} : KeyOwes(j)' = KeyOwes(j)
  BY OtherKeys DEF keypad_keyExpired, ExpireHeld, ExpireClickedHeld, ExpireClicked,
     ExpirePress, ExpireLongPress, ExpireLonglongPress, SYS_TimerExpireDefaultHandle, Advance
<1>3. /\ KeyOwes(k) \in 0 .. 8 /\ KeyOwes(k)' \in 0 .. 8 /\ SamplesOwe \in Int
      /\ SamplesOwe' \in Int /\ Len(queue) \in Nat /\ Len(queue') \in Nat
  BY PayTypes
<1>4. CASE \/ ExpireHeld(k) \/ SYS_TimerExpireDefaultHandle(k)
  <2>1. /\ ExpireHeld(k) => key_timer[k] = 0 /\ press_type[k] = "MULTI"
                            /\ press_type'[k] = "PRESS" /\ key_timer'[k] = Press[k]
        /\ SYS_TimerExpireDefaultHandle(k) =>
             /\ key_timer[k] = 0 /\ press_type[k] = "EXTREME"
             /\ press_type'[k] = "EXTREME" /\ key_timer'[k] = LonglongPress[k]
    BY DEF ExpireHeld, SYS_TimerExpireDefaultHandle, Expires, Becomes, Arms, TypeOK
  <2>2. /\ Press[k] \in Nat /\ Press[k] >= 4
        /\ LonglongPress[k] \in Nat /\ LonglongPress[k] >= 4
    BY KeypadAssumption DEF Timing
  <2>3. KeyOwes(k) <= 4 /\ KeyOwes(k)' = 4
    BY <1>3, <1>4, <2>1, <2>2, KeyOwesFacts, KeyOwesFactsNext
  <2>4. Len(queue') = Len(queue)
    BY <1>4 DEF ExpireHeld, SYS_TimerExpireDefaultHandle
  <2>5. /\ Len(queue') <= Len(queue) + (0 + 0)
        /\ KeyOwes(k)' >= KeyOwes(k) + 4 * 0 /\ SamplesOwe' >= SamplesOwe + 4 * 0
    BY <1>1, <1>3, <2>3, <2>4
  <2> QED BY <1>1, <1>2, <2>5, Pays
<1>5. CASE ~ (ExpireHeld(k) \/ SYS_TimerExpireDefaultHandle(k))
  <2>1. Len(queue') <= Len(queue) + 1
    <3>1. {"NON", "TAP", "DOUBLE", "TRIPLE", "PRESS", "LONG_PRESS", "LONGLONG_PRESS"}
            \subseteq Event
      BY DEF Event
    <3>2. ClickEvent(multi_count) \in Event
      BY <3>1, ClickEvents DEF TypeOK
    <3>3. \E e \in Event : Sends(k, e)
      BY <1>5, <3>1, <3>2 DEF keypad_keyExpired, ExpireClickedHeld, ExpireClicked,
         ExpirePress, ExpireLongPress, ExpireLonglongPress, Advance
    <3> QED BY <3>3, SendsLen
  <2>2. KeyOwes(k)' >= KeyOwes(k) + 4
    <3>1. CASE ExpireClickedHeld(k) \/ ExpireClicked(k)
      <4>1. /\ key_timer[k] = 0 /\ press_type[k] = "MULTI" /\ key_timer'[k] = Off
            /\ press_type'[k] \in {"NONE", "MULTI"}
        BY <3>1 DEF ExpireClickedHeld, ExpireClicked, Expires, Becomes, Arms, TypeOK
      <4>2. KeyOwes(k) = 4 /\ KeyOwes(k)' = 8
        BY <4>1, KeyOwesFacts, KeyOwesFactsNext
      <4> QED BY <4>2
    <3>2. CASE ExpirePress(k) \/ ExpireLongPress(k) \/ ExpireLonglongPress(k)
      <4>1. /\ key_timer[k] = 0 /\ press_type[k] \notin {"NONE", "MULTI"}
            /\ press_type'[k] \notin {"NONE", "MULTI"}
            /\ key_timer'[k] \in {LongPress[k], LonglongPress[k]}
        BY <3>2 DEF ExpirePress, ExpireLongPress, ExpireLonglongPress, Advance, Expires,
           Becomes, Arms, TypeOK
      <4>2. /\ LongPress[k] \in Nat /\ LongPress[k] >= 4
            /\ LonglongPress[k] \in Nat /\ LonglongPress[k] >= 4
        BY KeypadAssumption DEF Timing
      <4>3. KeyOwes(k) = 0 /\ KeyOwes(k)' = 4
        BY <4>1, <4>2, KeyOwesFacts, KeyOwesFactsNext
      <4> QED BY <4>3
    <3> QED BY <1>5, <3>1, <3>2 DEF keypad_keyExpired
  <2>3. /\ Len(queue') <= Len(queue) + (1 + 0)
        /\ KeyOwes(k)' >= KeyOwes(k) + 4 * 1 /\ SamplesOwe' >= SamplesOwe + 4 * 0
    BY <1>1, <1>3, <2>1, <2>2
  <2> QED BY <1>1, <1>2, <2>3, Pays
<1> QED BY <1>4, <1>5

\* A timed sample starts the time to the next one; what it finds is scanned from there.
LEMMA SampleRoom ==
  ASSUME Timing, RInv, TypeOK', NEW first, NEW second, Sample(first, second)
  PROVE  Roomy'
<1> USE DEF RInv, IInv
<1>1. UNCHANGED << press_type, key_timer, queue, lpmLocked, delayLpm, lateness >>
  BY DEF Sample, keys, lpm
<1>2. KeyNum \in Nat /\ 0 \in Key
  BY KeypadAssumption DEF Timing, Key
<1>3. \A k \in Key : KeyOwes(k)' = KeyOwes(k)
  BY <1>1, KeySame
<1>4. polling = 0 /\ scan = 2 /\ polling' = PollTicks /\ scan' \in {0, scan}
  BY DEF Sample, Idle, Timing, keypad_check_keypress, sample
<1>5. HeldKeys' = HeldKeys
  <2>1. \A k \in Key : Held(k)' <=> Held(k)
    <3>1. \A k \in Key : Held(k) <=> k \in mapping
      BY <1>2, IdleHeld DEF Sample
    <3> QED BY <3>1, SameHeld DEF Sample, keypad_check_keypress, Held, Key
  <2> QED BY <1>2, <2>1, HeldChange
<1>6. SamplesOwe' >= SamplesOwe
  <2>1. /\ lpmLocked \in BOOLEAN /\ delayLpm \in Times /\ polling \in Nat /\ scan \in 0 .. 2
        /\ HeldKeys \in 0 .. 2
    BY SampleTypes
  <2>2. /\ SampleDebt(lpmLocked, delayLpm, PollTicks, 0, HeldKeys) >= SamplesOwe
        /\ SampleDebt(lpmLocked, delayLpm, PollTicks, scan, HeldKeys) >= SamplesOwe
    BY <1>4, <2>1, SampleDebtFacts DEF SamplesOwe
  <2>3. SamplesOwe' = SampleDebt(lpmLocked, delayLpm, PollTicks, scan', HeldKeys)
    BY <1>1, <1>4, <1>5 DEF SamplesOwe
  <2> QED BY <1>4, <2>2, <2>3
<1>7. Rested'
  BY <1>1, <1>5 DEF Roomy, Rested
<1>8. /\ Len(queue') <= Len(queue) + (0 + 0)
      /\ KeyOwes(0)' >= KeyOwes(0) + 4 * 0 /\ SamplesOwe' >= SamplesOwe + 4 * 0
  <2>1. /\ KeyOwes(0) \in 0 .. 8 /\ Len(queue) \in Nat
        /\ SamplesOwe \in Int /\ SamplesOwe' \in Int
    BY <1>2, PayTypes
  <2> QED BY <1>1, <1>2, <1>3, <1>6, <2>1
<1> QED BY <1>1, <1>2, <1>3, <1>7, <1>8, Pays

\* A sample after a wakeup: without the lock it is not the timer that pays.
LEMMA WakeupRoom ==
  ASSUME Timing, RInv, TypeOK', NEW first, NEW second, WakeupSample(first, second)
  PROVE  Roomy'
<1> USE DEF RInv, IInv
<1>1. UNCHANGED << press_type, key_timer, queue, lpmLocked, delayLpm, polling, lateness >>
  BY DEF WakeupSample, keys, lpm
<1>2. KeyNum \in Nat /\ 0 \in Key
  BY KeypadAssumption DEF Timing, Key
<1>3. \A k \in Key : KeyOwes(k)' = KeyOwes(k)
  BY <1>1, KeySame
<1>4. scan' \in 0 .. 2 /\ ~ lpmLocked
  BY DEF WakeupSample, Timing, TypeOK
<1>5. HeldKeys' = HeldKeys
  <2>1. \A k \in Key : Held(k)' <=> Held(k)
    <3>1. \A k \in Key : Held(k) <=> k \in mapping
      BY <1>2, IdleHeld DEF WakeupSample
    <3> QED BY <3>1, SameHeld DEF WakeupSample, keypad_check_keypress, Held, Key
  <2> QED BY <1>2, <2>1, HeldChange
<1>6. SamplesOwe' = SamplesOwe
  BY <1>1, <1>4, <1>5 DEF SamplesOwe, SampleDebt
<1>7. Rested'
  BY <1>1, <1>5 DEF Roomy, Rested
<1>8. /\ Len(queue') <= Len(queue) + (0 + 0)
      /\ KeyOwes(0)' >= KeyOwes(0) + 4 * 0 /\ SamplesOwe' >= SamplesOwe + 4 * 0
  <2>1. /\ KeyOwes(0) \in 0 .. 8 /\ Len(queue) \in Nat
        /\ SamplesOwe \in Int /\ SamplesOwe' \in Int
    BY <1>2, PayTypes
  <2> QED BY <1>1, <1>2, <1>3, <1>6, <2>1
<1> QED BY <1>1, <1>2, <1>3, <1>7, <1>8, Pays

LEMMA CblpmRoom ==
  ASSUME Timing, RInv, TypeOK', keypad_Cblpm
  PROVE  Roomy'
<1> USE DEF RInv, IInv
<1>1. /\ UNCHANGED << press_type, key_timer, queue, polling, scan, lateness >>
      /\ delayLpm = 0 /\ delayLpm' = LpmTicks /\ lpmLocked' = FALSE
  BY DEF keypad_Cblpm, keys, sample
<1>2. 0 \in Key
  BY DEF Timing, Key
<1>3. \A k \in Key : KeyOwes(k)' = KeyOwes(k)
  BY <1>1, KeySame
<1>5. HeldKeys' = HeldKeys
  BY <1>2, SameHeld, HeldChange DEF keypad_Cblpm
<1>6. SamplesOwe' >= SamplesOwe
  <2> DEFINE N == SampleDebt(FALSE, LpmTicks, polling, scan, HeldKeys)
  <2>1. /\ lpmLocked \in BOOLEAN /\ delayLpm \in Times /\ polling \in Nat /\ scan \in 0 .. 2
        /\ HeldKeys \in 0 .. 2
    BY SampleTypes
  <2>2. N >= SamplesOwe
    BY <1>1, <2>1, SampleDebtFacts, Zenon DEF SamplesOwe
  <2>3. SamplesOwe' = N
    BY <1>1, <1>5, Zenon DEF SamplesOwe
  <2> HIDE DEF N
  <2> QED BY <2>2, <2>3
<1>7. Rested'
  BY <1>1, <1>5, KeypadAssumption DEF Roomy, Rested
<1>8. /\ Len(queue') <= Len(queue) + (0 + 0)
      /\ KeyOwes(0)' >= KeyOwes(0) + 4 * 0 /\ SamplesOwe' >= SamplesOwe + 4 * 0
  <2>1. /\ KeyOwes(0) \in 0 .. 8 /\ Len(queue) \in Nat
        /\ SamplesOwe \in Int /\ SamplesOwe' \in Int
    BY <1>2, PayTypes
  <2> QED BY <1>1, <1>2, <1>3, <1>6, <2>1
<1> QED BY <1>1, <1>2, <1>3, <1>7, <1>8, Pays

\* When nothing is due, what an empty queue needs is not owed.
LEMMA Slack ==
  ASSUME Timing, RInv, Idle, NoneDue
  PROVE  Debt \in Int /\ Debt >= -6
<1> USE DEF RInv, IInv
<1>1. 0 \in Key /\ 1 \in Key
  BY DEF Timing, Key
<1>2. \A k \in Key : /\ KeyOwes(k) \in 0 .. 8 /\ KeyOwes(k) >= 1
                     /\ ~ Held(k) => KeyOwes(k) >= 5
  <2> SUFFICES ASSUME NEW k \in Key
               PROVE  /\ KeyOwes(k) \in 0 .. 8 /\ KeyOwes(k) >= 1
                      /\ ~ Held(k) => KeyOwes(k) >= 5
    OBVIOUS
  <2>1. key_timer[k] # 0 /\ (~ Held(k) => press_type[k] \in {"NONE", "MULTI"})
    BY DEF NoneDue, Shape
  <2> QED BY <2>1, KeyOwesFacts
<1>3. KeyOwes(0) + KeyOwes(1) >= 10 - 4 * HeldKeys /\ HeldKeys \in 0 .. 2
  <2>1. /\ One(0) \in 0 .. 1 /\ KeyOwes(0) >= 5 - 4 * One(0)
        /\ One(1) \in 0 .. 1 /\ KeyOwes(1) >= 5 - 4 * One(1)
    BY <1>1, <1>2 DEF One
  <2> QED BY <1>1, <1>2, <2>1 DEF HeldKeys
<1>4. /\ lpmLocked \in BOOLEAN /\ delayLpm \in Times /\ polling \in Nat /\ scan \in 0 .. 2
      /\ SamplesOwe \in Int
  BY SampleTypes
<1>5. ScanDebt(polling, scan) >= 2 /\ ScanDebt(polling, scan) \in Int
  BY <1>4, ScanDebtFacts DEF NoneDue, Idle, Timing
<1>6. RestDebt(lpmLocked, delayLpm, HeldKeys) >= 0 - 8 - 4 * HeldKeys
  <2>1. Ahead(delayLpm, 10) \in 0 .. 10
    BY <1>4, AheadFacts
  <2> QED BY <1>3, <1>4, <2>1, RestDebtFacts
<1>7. \/ SamplesOwe >= 2
      \/ SamplesOwe >= 0 - 8 - 4 * HeldKeys /\ HeldKeys <= 1
  <2>1. CASE lpmLocked /\ delayLpm = Off
    BY <1>5, <2>1 DEF SamplesOwe, SampleDebt
  <2>2. CASE ~ (lpmLocked /\ delayLpm = Off)
    <3>1. HeldKeys <= 1
      BY <2>2 DEF Roomy, Rested
    <3>2. SamplesOwe \in {ScanDebt(polling, scan), RestDebt(lpmLocked, delayLpm, HeldKeys)}
      BY <1>4, <2>2 DEF SamplesOwe, SampleDebt
    <3> QED BY <1>5, <1>6, <3>1, <3>2
  <2> QED BY <2>1, <2>2
<1>8. KeyOwes(0) \in 0 .. 8 /\ KeyOwes(1) \in 0 .. 8
  BY <1>1, <1>2
<1> QED BY <1>3, <1>4, <1>7, <1>8 DEF Debt

LEMMA PollingRoom ==
  ASSUME Timing, RInv, keypad_polling_keyQueue
  PROVE  Roomy'
<1> USE DEF RInv, IInv
<1>1. /\ UNCHANGED << press_type, key_timer, sample, lpmLocked, delayLpm, polling >>
      /\ lateness' = 0
  BY DEF keypad_polling_keyQueue, keys, lpm
<1>2. HeldKeys' = HeldKeys
  <2>1. 0 \in Key
    BY DEF Timing, Key
  <2> QED BY <1>1, <2>1, SameHeld, HeldChange
<1>3. Debt' = Debt
  <2>1. KeyOwes(0)' = KeyOwes(0) /\ KeyOwes(1)' = KeyOwes(1)
    BY <1>1, KeySame DEF Timing, Key
  <2>2. SamplesOwe' = SamplesOwe
    BY <1>1, <1>2 DEF SamplesOwe, sample
  <2> QED BY <2>1, <2>2 DEF Debt
<1>4. Debt \in Int /\ Debt >= -6
  BY Slack DEF keypad_polling_keyQueue
<1>5. Rested'
  BY <1>1, <1>2 DEF Roomy, Rested
<1>6. 4 * Len(queue') <= Debt + 6
  <2>1. CASE queue = << >>
    <3>1. Len(queue') = 0
      BY <2>1 DEF keypad_polling_keyQueue
    <3> QED BY <1>4, <3>1
  <2>2. CASE queue # << >>
    <3>1. Len(queue) \in Nat /\ Len(queue') = Len(queue) - 1
      BY <2>2 DEF keypad_polling_keyQueue, TypeOK
    <3>2. lateness \in Nat /\ lateness <= 1 /\ 4 * Len(queue) <= 4 * lateness + Debt + 6
      BY DEF Roomy, Covered, TypeOK
    <3> QED BY <1>4, <3>1, <3>2
  <2> QED BY <2>1, <2>2
<1>7. Covered'
  <2>1. 4 * Len(queue') <= 4 * lateness' + Debt' + 6
    BY <1>1, <1>3, <1>4, <1>6
  <2> QED BY <2>1 DEF Covered
<1> QED BY <1>1, <1>5, <1>7 DEF Roomy

\* A tick gives the turn four, and takes one from each key and two from the samples.
LEMMA TickRoom ==
  ASSUME Timing, RInv, TypeOK', SYStick_handle
  PROVE  Roomy'
<1> USE DEF RInv, IInv
<1>1. /\ UNCHANGED << sample, press_type, queue, lpmLocked >>
      /\ lateness = 0 /\ lateness' = 1
      /\ polling' = Elapse(polling) /\ delayLpm' = Elapse(delayLpm)
      /\ \A k \in Key : key_timer'[k] = Elapse(key_timer[k])
  BY DEF SYStick_handle, Timing, TypeOK
<1>2. 0 \in Key /\ 1 \in Key
  BY DEF Timing, Key
<1>3. HeldKeys' = HeldKeys
  BY <1>1, <1>2, SameHeld, HeldChange
<1>4. \A k \in Key : KeyOwes(k)' >= KeyOwes(k) - 1
  <2> SUFFICES ASSUME NEW k \in Key PROVE KeyOwes(k)' >= KeyOwes(k) - 1
    OBVIOUS
  <2>1. press_type[k] \in PressType /\ key_timer[k] \in Times /\ Elapse(key_timer[k]) \in Times
    <3>1. key_timer'[k] \in Times
      BY DEF TypeOK, Times
    <3> QED BY <1>1, <3>1 DEF TypeOK, Times
  <2>2. /\ Ahead(key_timer[k], 4) \in 0 .. 4 /\ Ahead(Elapse(key_timer[k]), 4) \in 0 .. 4
        /\ Ahead(Elapse(key_timer[k]), 4) >= Ahead(key_timer[k], 4) - 1
    BY <2>1, AheadFacts
  <2>3. KeyDebt(press_type[k], Elapse(key_timer[k])) >= KeyDebt(press_type[k], key_timer[k]) - 1
    BY <2>1, <2>2, KeyDebtFacts
  <2> QED BY <1>1, <2>3 DEF KeyOwes
<1>5. SamplesOwe' >= SamplesOwe - 2
  <2>1. /\ lpmLocked \in BOOLEAN /\ delayLpm \in Times /\ polling \in Nat /\ scan \in 0 .. 2
        /\ HeldKeys \in 0 .. 2
    BY SampleTypes
  <2>2. SampleDebt(lpmLocked, Elapse(delayLpm), Elapse(polling), scan, HeldKeys) >= SamplesOwe - 2
    BY <2>1, SampleDebtFacts DEF SamplesOwe
  <2>3. SamplesOwe' = SampleDebt(lpmLocked, Elapse(delayLpm), Elapse(polling), scan, HeldKeys)
    BY <1>1, <1>3 DEF SamplesOwe, sample
  <2> QED BY <2>2, <2>3
<1>6. Rested'
  <2>1. delayLpm = Off => delayLpm' = Off
    BY <1>1 DEF Elapse
  <2> QED BY <1>1, <1>3, <2>1 DEF Roomy, Rested
<1>7. Covered'
  <2> DEFINE x == Debt
             y == Debt'
             k0 == KeyOwes(0)
             k1 == KeyOwes(1)
             sa == SamplesOwe
             l0 == KeyOwes(0)'
             l1 == KeyOwes(1)'
             sb == SamplesOwe'
  <2>1. /\ k0 \in 0 .. 8 /\ k1 \in 0 .. 8 /\ l0 \in 0 .. 8 /\ l1 \in 0 .. 8
        /\ sa \in Int /\ sb \in Int /\ Len(queue) \in Nat
    BY <1>2, PayTypes
  <2>2. l0 >= k0 - 1 /\ l1 >= k1 - 1 /\ sb >= sa - 2
    BY <1>2, <1>4, <1>5
  <2>3. x = k0 + k1 + sa /\ y = l0 + l1 + sb
    BY DEF Debt
  <2>4. 4 * Len(queue) <= 4 * lateness + x + 6
    BY DEF Roomy, Covered
  <2> HIDE DEF x, y, k0, k1, sa, l0, l1, sb
  <2>5. x \in Int /\ y \in Int /\ y >= x - 4
    BY <2>1, <2>2, <2>3
  <2>6. 4 * Len(queue') <= 4 * lateness' + y + 6
    BY <1>1, <2>1, <2>4, <2>5
  <2> QED BY <2>6 DEF Covered, y
<1> QED BY <1>1, <1>6, <1>7 DEF Roomy

LEMMA InitRoom ==
  ASSUME Timing, Init
  PROVE  Roomy
<1> USE KeypadAssumption
<1>1. /\ scan = 2 /\ mapping = {} /\ ~ lpmLocked /\ delayLpm = Off /\ lateness = 0
      /\ Len(queue) = 0
  BY DEF Init, Timing
<1>2. ~ Held(0) /\ ~ Held(1)
  BY <1>1 DEF Held
<1>3. HeldKeys = 0
  BY <1>2 DEF HeldKeys, One
<1>4. KeyOwes(0) = 8 /\ KeyOwes(1) = 8
  <2>1. TypeOK
    BY InitIInv DEF IInv
  <2>2. 0 \in Key /\ 1 \in Key /\ press_type[0] = "NONE" /\ press_type[1] = "NONE"
    BY DEF Init, Timing, Key
  <2> QED BY <2>1, <2>2, KeyOwesFacts
<1>5. SamplesOwe = -8
  BY <1>1, <1>3 DEF SamplesOwe, SampleDebt, RestDebt
<1> QED BY <1>1, <1>3, <1>4, <1>5 DEF Roomy, Rested, Covered, Debt

LEMMA NextRInv ==
  ASSUME Timing, RInv, [Next]_vars
  PROVE  RInv'
<1>1. IInv' /\ TypeOK'
  BY NextIInv DEF RInv, IInv
<1>2. CASE UNCHANGED vars
  <2>1. Debt' = Debt
    <3>1. HeldKeys' = HeldKeys /\ KeyOwes(0)' = KeyOwes(0) /\ KeyOwes(1)' = KeyOwes(1)
      BY <1>2 DEF vars, sample, keys, HeldKeys, One, Held, KeyOwes
    <3>2. SamplesOwe' = SamplesOwe
      BY <1>2, <3>1 DEF vars, sample, lpm, SamplesOwe
    <3> QED BY <3>1, <3>2 DEF Debt
  <2>2. Rested'
    BY <1>2 DEF RInv, Roomy, Rested, vars, sample, lpm, HeldKeys, One, Held
  <2> QED BY <1>1, <1>2, <2>1, <2>2 DEF RInv, Roomy, Covered, vars
<1>3. ASSUME NEW first \in SUBSET Pin, NEW second \in SUBSET Pin,
             Sample(first, second) \/ WakeupSample(first, second)
      PROVE  RInv'
  BY <1>1, <1>3, SampleRoom, WakeupRoom DEF RInv
<1>4. ASSUME NEW k \in Key, Scan(k) \/ keypad_keyExpired(k) PROVE RInv'
  BY <1>1, <1>4, ScanSameRoom, ScanDownRoom, LetGoRoom, ScanReleaseRoom, ExpiryRoom DEF RInv, Scan
<1>5. CASE keypad_Cblpm \/ keypad_polling_keyQueue \/ SYStick_handle
  BY <1>1, <1>5, CblpmRoom, PollingRoom, TickRoom DEF RInv
<1> QED BY <1>2, <1>3, <1>4, <1>5 DEF Next, Serve

\* As long as a turn of main() takes no longer than a tick, no event of the keys is lost:
\* for two keys, whatever they do, if no timer is shorter than four ticks, the lock is
\* given back ten ticks after a release at the earliest, and nine events fit the queue.
THEOREM NoEventIsLost ==
  ASSUME Timing
  PROVE  Spec => []NoEventLost
<1>1. Init => RInv
  BY InitIInv, InitRoom DEF RInv
<1>2. RInv /\ [Next]_vars => RInv'
  BY NextRInv
<1>3. RInv => NoEventLost
  BY Room DEF RInv, IInv
<1> QED BY <1>1, <1>2, <1>3, PTL DEF Spec
=============================================================================
