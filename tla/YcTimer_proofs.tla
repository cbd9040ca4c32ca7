--------------------------- MODULE YcTimer_proofs ---------------------------
(***************************************************************************)
(* Proofs about YcTimer, for every set of timers and every way callbacks   *)
(* and the main loop arm and release them.  The list is reasoned about     *)
(* through the sets that are closed under the links, which needs no        *)
(* induction along the list.                                               *)
(***************************************************************************)
EXTENDS YcTimer, TLAPS

\* What a link can hold.
Cell == Timer \cup {Header, Null}

\* Nodes that were in the list at some time.
Linked == {p \in Timer : pNextTimer[p] # Null}

\* Nodes that were linked once lead to such nodes, and never in a ring; those in the
\* list are armed.
LinksInv ==
  /\ pheader \in Linked \cup {Header}
  /\ cursor \in Linked \cup {Header}
  /\ \A p \in Linked : pNextTimer[p] \in Linked \cup {Header}
  /\ Acyclic(pNextTimer)
  /\ \A t \in Listed : mTimerStatus[t] = "START"

\* What the walk still owes is in the list, ahead of the cursor; what is ahead of the
\* cursor and no longer in the list is stopped.
WalkInv ==
  /\ \A t \in owed : t \in Listed /\ due[t] = 0
  /\ pc \in {"idle", "enter"} => owed = {}
  /\ pc \in {"walk", "callback"} =>
       /\ owed \subseteq From(pNextTimer, cursor)
       /\ \A p \in From(pNextTimer, cursor) : p \in Listed \/ mTimerStatus[p] = "STOP"
  /\ pc = "callback" => cursor \in Timer /\ cursor \notin owed

IInv == TimerTypeOK /\ LinksInv /\ WalkInv

USE YcTimerAssumption
-----------------------------------------------------------------------------
(* Reachability along a function of links. *)

\* What is reached lies in every closed set that holds the beginning.
LEMMA FromLeast ==
  ASSUME NEW f, NEW n, NEW S \in SUBSET Timer, n \in Timer => n \in S, Closed(f, S)
  PROVE  From(f, n) \subseteq S
BY DEF From

LEMMA FromInTimer ==
  ASSUME NEW f, NEW n
  PROVE  From(f, n) \subseteq Timer
BY DEF From

\* What is reached is such a set.
LEMMA FromClosed ==
  ASSUME NEW f, NEW n
  PROVE  Closed(f, From(f, n)) /\ (n \in Timer => n \in From(f, n))
BY DEF From, Closed

LEMMA FromHeader ==
  ASSUME NEW f, NEW n, n \notin Timer
  PROVE  From(f, n) = {}
<1>1. Closed(f, {})
      BY DEF Closed
<1> QED BY <1>1, FromLeast

\* A search goes on at the next node.
LEMMA FromNext ==
  ASSUME NEW f, NEW n \in Timer
  PROVE  /\ From(f, n) \subseteq {n} \cup From(f, f[n])
         /\ From(f, f[n]) \subseteq From(f, n)
<1>1. Closed(f, From(f, f[n])) /\ (f[n] \in Timer => f[n] \in From(f, f[n]))
      BY FromClosed
<1>2. Closed(f, {n} \cup From(f, f[n]))
      BY <1>1 DEF Closed
<1>3. {n} \cup From(f, f[n]) \in SUBSET Timer
      BY FromInTimer
<1>4. From(f, n) \subseteq {n} \cup From(f, f[n])
      BY <1>2, <1>3, FromLeast
<1>5. Closed(f, From(f, n)) /\ n \in From(f, n)
      BY FromClosed
<1>6. f[n] \in Timer => f[n] \in From(f, n)
      BY <1>5 DEF Closed
<1>7. From(f, n) \in SUBSET Timer
      BY FromInTimer
<1>8. From(f, f[n]) \subseteq From(f, n)
      BY <1>5, <1>6, <1>7, FromLeast
<1> QED BY <1>4, <1>8

\* Pushing t in front of the list that begins at h adds t to the list, and to the nodes
\* reached from elsewhere at most what is in the list.
PushedOnto(f, g, h, t) ==
  /\ Acyclic(g)
  /\ From(g, t) = From(f, h) \cup {t}
  /\ \A n : From(g, n) \subseteq From(f, n) \cup From(f, h) \cup {t}
  /\ \A n : From(f, n) \cap From(f, h) \subseteq From(g, n)

LEMMA Pushed ==
  ASSUME NEW f, NEW g, NEW h, NEW t \in Timer, t \notin From(f, h), Acyclic(f),
         g[t] = h, \A p \in Timer : p # t => g[p] = f[p]
  PROVE  PushedOnto(f, g, h, t)
<1> DEFINE L == From(f, h)
<1>1. /\ L \subseteq Timer /\ t \notin L
      /\ h \in Timer => h \in L
      /\ \A p \in L : f[p] \in Timer => f[p] \in L
      BY FromInTimer, FromClosed DEF Closed
<1>2. g[t] = h /\ \A p \in Timer : p # t => g[p] = f[p]
      OBVIOUS
<1>3. \A S \in SUBSET Timer : t \in S /\ Closed(g, S) => L \subseteq S
  <2>1. SUFFICES ASSUME NEW S \in SUBSET Timer, t \in S, Closed(g, S)
                 PROVE  L \subseteq S
        OBVIOUS
  <2>2. Closed(f, S \cap L)
        BY <2>1, <1>1, <1>2 DEF Closed
  <2>3. h \in Timer => h \in S \cap L
        BY <2>1, <1>1, <1>2 DEF Closed
  <2>4. S \cap L \in SUBSET Timer
        OBVIOUS
  <2>5. L \subseteq S \cap L
        BY <2>2, <2>3, <2>4, FromLeast
  <2> QED BY <2>5
<1>4. Acyclic(g)
  <2>1. SUFFICES ASSUME NEW S \in (SUBSET Timer) \ {{}}
                 PROVE  \E p \in S : g[p] \notin S
        BY DEF Acyclic
  <2>2. CASE t \notin S
    <3>1. PICK p \in S : f[p] \notin S
          BY DEF Acyclic
    <3> QED BY <3>1, <2>2, <1>2
  <2>3. CASE t \in S /\ h \notin S
        BY <2>3, <1>2
  <2>4. CASE t \in S /\ h \in S
    <3>1. h \in S \cap L
          BY <2>4, <1>1
    <3>2. PICK p \in S \cap L : f[p] \notin S \cap L
          BY <3>1 DEF Acyclic
    <3>3. f[p] \notin S
          BY <3>2, <1>1
    <3> QED BY <3>2, <3>3, <1>1, <1>2
  <2> QED BY <2>2, <2>3, <2>4
<1>5. \A n : From(g, n) \subseteq From(f, n) \cup L \cup {t}
  <2>1. TAKE n
  <2>2. /\ From(f, n) \subseteq Timer
        /\ n \in Timer => n \in From(f, n)
        /\ \A p \in From(f, n) : f[p] \in Timer => f[p] \in From(f, n)
        BY FromInTimer, FromClosed DEF Closed
  <2>3. Closed(g, From(f, n) \cup L \cup {t})
        BY <2>2, <1>1, <1>2 DEF Closed
  <2>4. From(f, n) \cup L \cup {t} \in SUBSET Timer
        BY <2>2, <1>1
  <2> QED BY <2>2, <2>3, <2>4, FromLeast
<1>6. \A n : From(f, n) \cap L \subseteq From(g, n)
  <2>1. TAKE n
  <2> DEFINE S == From(g, n)
  <2>2. Closed(g, S) /\ (n \in Timer => n \in S) /\ S \in SUBSET Timer
        BY FromInTimer, FromClosed
  <2> HIDE DEF S
  <2>3. CASE t \in S
    <3>1. L \subseteq S
          BY <2>2, <2>3, <1>3
    <3> QED BY <3>1 DEF S
  <2>4. CASE t \notin S
    <3>1. Closed(f, S)
          BY <2>2, <2>4, <1>2 DEF Closed
    <3>2. From(f, n) \subseteq S
          BY <3>1, <2>2, FromLeast
    <3> QED BY <3>2 DEF S
  <2> QED BY <2>3, <2>4
<1>7. From(g, t) = L \cup {t}
  <2>1. Closed(g, From(g, t)) /\ t \in From(g, t) /\ From(g, t) \in SUBSET Timer
        BY FromInTimer, FromClosed
  <2>2. L \subseteq From(g, t)
        BY <2>1, <1>3
  <2>3. Closed(g, L \cup {t})
        BY <1>1, <1>2 DEF Closed
  <2>4. L \cup {t} \in SUBSET Timer
        BY <1>1
  <2>5. From(g, t) \subseteq L \cup {t}
        BY <2>3, <2>4, FromLeast
  <2> QED BY <2>1, <2>2, <2>5
<1> QED BY <1>4, <1>5, <1>6, <1>7 DEF PushedOnto

\* Taking t out of the list that begins at h, which then begins at k, takes at most t
\* from the nodes reached from anywhere, and adds none.
TakenFrom(f, g, h, k, t) ==
  /\ Acyclic(g)
  /\ From(g, k) = From(f, h) \ {t}
  /\ \A n : From(g, n) \subseteq From(f, n)
  /\ \A n : From(f, n) \ {t} \subseteq From(g, n)

LEMMA Unlinked ==
  ASSUME NEW f, NEW g, NEW h, NEW k, NEW t \in From(f, h), Acyclic(f),
         \A p \in Timer : g[p] = IF p \in From(f, h) /\ f[p] = t THEN f[t] ELSE f[p],
         k = IF h = t THEN f[t] ELSE h
  PROVE  TakenFrom(f, g, h, k, t)
<1> DEFINE L == From(f, h)
<1>1. /\ L \subseteq Timer /\ t \in L /\ t \in Timer
      /\ h \in Timer => h \in L
      /\ \A p \in L : f[p] \in Timer => f[p] \in L
      BY FromInTimer, FromClosed DEF Closed
<1>2. \A p \in Timer : g[p] = IF p \in L /\ f[p] = t THEN f[t] ELSE f[p]
      OBVIOUS
<1>3. f[t] # t /\ g[t] = f[t]
  <2>1. {t} \in (SUBSET Timer) \ {{}}
        BY <1>1
  <2>2. f[t] # t
        BY <2>1 DEF Acyclic
  <2> QED BY <2>2, <1>1, <1>2
<1> HIDE DEF L
<1>4. Acyclic(g)
  <2>1. SUFFICES ASSUME NEW S \in (SUBSET Timer) \ {{}}
                 PROVE  \E p \in S : g[p] \notin S
        BY DEF Acyclic
  <2>2. PICK p \in S : f[p] \notin S
        BY DEF Acyclic
  <2>3. CASE g[p] = f[p]
        BY <2>2, <2>3
  <2>4. CASE g[p] # f[p]
    <3>1. f[p] = t /\ g[p] = f[t] /\ t \notin S
          BY <2>2, <2>4, <1>2
    <3>2. S \cup {t} \in (SUBSET Timer) \ {{}}
          BY <1>1
    <3>3. PICK q \in S \cup {t} : f[q] \notin S \cup {t}
          BY <3>2 DEF Acyclic
    <3>4. CASE q = t
          BY <3>1, <3>3, <3>4, <2>2
    <3>5. CASE q # t
          BY <3>3, <3>5, <1>2
    <3> QED BY <3>4, <3>5
  <2> QED BY <2>3, <2>4
<1>5. \A n : From(g, n) \subseteq From(f, n)
  <2>1. TAKE n
  <2>2. /\ From(f, n) \in SUBSET Timer
        /\ n \in Timer => n \in From(f, n)
        /\ \A p \in From(f, n) : f[p] \in Timer => f[p] \in From(f, n)
        BY FromInTimer, FromClosed DEF Closed
  <2>3. Closed(g, From(f, n))
        BY <2>2, <1>1, <1>2 DEF Closed
  <2> QED BY <2>2, <2>3, FromLeast
<1>6. \A n : From(f, n) \ {t} \subseteq From(g, n)
  <2>1. TAKE n
  <2> DEFINE S == From(g, n)
  <2>2. /\ S \in SUBSET Timer
        /\ n \in Timer => n \in S
        /\ \A p \in S : g[p] \in Timer => g[p] \in S
        BY FromInTimer, FromClosed DEF Closed
  <2> HIDE DEF S
  <2>3. CASE f[t] \in Timer => f[t] \in S
    <3>1. Closed(f, S \cup {t})
          BY <2>2, <2>3, <1>1, <1>2 DEF Closed
    <3>2. S \cup {t} \in SUBSET Timer
          BY <2>2, <1>1
    <3>3. From(f, n) \subseteq S \cup {t}
          BY <2>2, <3>1, <3>2, FromLeast
    <3> QED BY <3>3 DEF S
  <2>4. CASE f[t] \in Timer /\ f[t] \notin S
    <3>1. t \notin S
          BY <2>2, <2>4, <1>3
    <3>2. \A p \in S : g[p] = f[p]
          BY <2>2, <2>4, <3>1, <1>2
    <3>3. Closed(f, S)
          BY <2>2, <3>2 DEF Closed
    <3>4. From(f, n) \subseteq S
          BY <2>2, <3>3, FromLeast
    <3> QED BY <3>4 DEF S
  <2> QED BY <2>3, <2>4
<1>7. From(g, k) \subseteq L \ {t}
  <2>1. Closed(g, L \ {t})
        BY <1>1, <1>2, <1>3 DEF Closed
  <2>2. k \in Timer => k \in L \ {t}
        BY <1>1, <1>3
  <2>3. L \ {t} \in SUBSET Timer
        BY <1>1
  <2> QED BY <2>1, <2>2, <2>3, FromLeast
<1>8. L \ {t} \subseteq From(g, k)
  <2>1. L \ {t} \subseteq From(g, h)
        BY <1>6 DEF L
  <2>2. CASE h = t
    <3>1. From(g, t) \subseteq {t} \cup From(g, f[t])
          BY <1>1, <1>3, FromNext
    <3> QED BY <2>1, <2>2, <3>1
  <2>3. CASE h # t
        BY <2>1, <2>3
  <2> QED BY <2>2, <2>3
<1> QED BY <1>4, <1>5, <1>6, <1>7, <1>8 DEF L, TakenFrom
-----------------------------------------------------------------------------
(* The inductive invariant. *)

\* Reading the links of the list through Linked.
LEMMA ListedLinked ==
  ASSUME TimerTypeOK, LinksInv
  PROVE  /\ Listed \subseteq Linked
         /\ From(pNextTimer, cursor) \subseteq Linked
         /\ Listed \subseteq Timer
         /\ Listed = From(pNextTimer, pheader)
<1>1. Closed(pNextTimer, Linked) /\ Linked \in SUBSET Timer
      BY DEF Closed, LinksInv, Linked
<1>2. \A n \in Linked \cup {Header} : From(pNextTimer, n) \subseteq Linked
      BY <1>1, FromLeast
<1>3. Listed = From(pNextTimer, pheader)
      BY DEF Listed
<1> QED BY <1>1, <1>2, <1>3 DEF LinksInv

\* The list after a node was armed.
LEMMA LinkStep ==
  ASSUME TimerTypeOK, LinksInv, NEW t \in Timer, Link(t)
  PROVE  /\ pheader' \in Timer
         /\ pNextTimer' \in [Timer -> Cell]
         /\ \A p \in Linked : p \in Linked'
         /\ pheader' \in Linked'
         /\ \A p \in Linked' : pNextTimer'[p] \in Linked' \cup {Header}
         /\ Acyclic(pNextTimer')
         /\ Listed' = Listed \cup {t}
         /\ \A n : From(pNextTimer', n) \subseteq From(pNextTimer, n) \cup Listed'
         /\ \A n : (From(pNextTimer, n) \cap Listed) \subseteq From(pNextTimer', n)
<1>1. /\ Listed \subseteq Linked /\ Listed = From(pNextTimer, pheader)
      /\ Listed' = From(pNextTimer', pheader')
      /\ pNextTimer \in [Timer -> Cell]
      BY ListedLinked DEF Listed, TimerTypeOK, Cell
<1>2. CASE t \in Listed
  <2>1. UNCHANGED << pheader, pNextTimer >>
        BY <1>2 DEF Link, SYS_TimerisExist
  <2>2. Listed' = Listed /\ Linked' = Linked
        BY <2>1, <1>1 DEF Linked
  <2>3. pheader \in Timer
    <3>1. pheader \notin Timer => Listed = {}
          BY <1>1, FromHeader
    <3> QED BY <3>1, <1>2
  <2>4. pheader \in Linked
        BY <2>3 DEF LinksInv
  <2> QED BY <2>1, <2>2, <2>3, <2>4, <1>1, <1>2 DEF LinksInv
<1>3. CASE t \notin Listed
  <2>1. pheader' = t /\ pNextTimer' = [pNextTimer EXCEPT ![t] = pheader]
        BY <1>3 DEF Link, SYS_TimerisExist
  <2>2. pheader \in Timer \cup {Header} /\ Acyclic(pNextTimer)
        BY DEF LinksInv, TimerTypeOK
  <2>3. /\ Acyclic(pNextTimer')
        /\ From(pNextTimer', t) = Listed \cup {t}
        /\ \A n : From(pNextTimer', n) \subseteq From(pNextTimer, n) \cup Listed \cup {t}
        /\ \A n : From(pNextTimer, n) \cap Listed \subseteq From(pNextTimer', n)
    <3>1. pNextTimer \in [Timer -> Cell] /\ t \notin From(pNextTimer, pheader)
          BY <1>1, <1>3
    <3>2. pNextTimer'[t] = pheader /\ \A p \in Timer : p # t => pNextTimer'[p] = pNextTimer[p]
          BY <1>1, <2>1
    <3>3. PushedOnto(pNextTimer, pNextTimer', pheader, t)
          BY <3>1, <3>2, <2>2, Pushed
    <3> QED BY <3>3, <1>1 DEF PushedOnto
  <2>4. Listed' = Listed \cup {t}
        BY <2>1, <2>3, <1>1
  <2>5. pNextTimer' \in [Timer -> Cell]
        BY <1>1, <2>1, <2>2 DEF Cell
  <2>6. /\ pNextTimer'[t] = pheader
        /\ \A p \in Timer : p # t => pNextTimer'[p] = pNextTimer[p]
        BY <1>1, <2>1
  <2>7. Linked' = Linked \cup {t}
    <3>1. pheader # Null
          BY <2>2
    <3>2. \A p \in Timer : p \in Linked' <=> p \in Linked \/ p = t
          BY <2>6, <3>1 DEF Linked
    <3> QED BY <3>2 DEF Linked
  <2>8. \A p \in Linked' : pNextTimer'[p] \in Linked' \cup {Header}
        BY <2>6, <2>7 DEF LinksInv, Linked
  <2> QED BY <2>1, <2>3, <2>4, <2>5, <2>7, <2>8
<1> QED BY <1>2, <1>3

\* The list after a node was released.
LEMMA UnlinkStep ==
  ASSUME TimerTypeOK, LinksInv, NEW t \in Listed, Unlink(t)
  PROVE  /\ pheader' \in Timer \cup {Header}
         /\ pNextTimer' \in [Timer -> Cell]
         /\ Linked' = Linked
         /\ pheader' \in Linked' \cup {Header}
         /\ \A p \in Linked' : pNextTimer'[p] \in Linked' \cup {Header}
         /\ Acyclic(pNextTimer')
         /\ Listed' = Listed \ {t}
         /\ \A n : From(pNextTimer', n) \subseteq From(pNextTimer, n)
         /\ \A n : From(pNextTimer, n) \ {t} \subseteq From(pNextTimer', n)
         /\ mTimerStatus' \in [Timer -> {"START", "STOP"}]
         /\ \A p \in Timer : mTimerStatus'[p] = IF p = t THEN "STOP" ELSE mTimerStatus[p]
<1>1. /\ Listed \subseteq Linked /\ Listed = From(pNextTimer, pheader)
      /\ Listed' = From(pNextTimer', pheader')
      /\ pNextTimer \in [Timer -> Cell]
      /\ t \in Linked /\ t \in Timer
      BY ListedLinked DEF Listed, TimerTypeOK, Cell
<1>2. /\ pheader' = IF pheader = t THEN pNextTimer[t] ELSE pheader
      /\ pNextTimer' = [p \in Timer |->
                          IF p \in Listed /\ pNextTimer[p] = t THEN pNextTimer[t]
                          ELSE pNextTimer[p]]
      BY DEF Unlink
<1>3. /\ pNextTimer[t] \in Linked \cup {Header}
      /\ pheader \in Timer \cup {Header} /\ Acyclic(pNextTimer)
      BY <1>1 DEF LinksInv, TimerTypeOK
<1>4. /\ Acyclic(pNextTimer')
      /\ From(pNextTimer', pheader') = Listed \ {t}
      /\ \A n : From(pNextTimer', n) \subseteq From(pNextTimer, n)
      /\ \A n : From(pNextTimer, n) \ {t} \subseteq From(pNextTimer', n)
  <2>1. t \in From(pNextTimer, pheader)
        BY <1>1
  <2>2. \A p \in Timer :
          pNextTimer'[p] = IF p \in From(pNextTimer, pheader) /\ pNextTimer[p] = t
                           THEN pNextTimer[t] ELSE pNextTimer[p]
        BY <1>1, <1>2
  <2>3. TakenFrom(pNextTimer, pNextTimer', pheader, pheader', t)
        BY <1>2, <1>3, <2>1, <2>2, Unlinked
  <2> QED BY <2>3, <1>1 DEF TakenFrom
<1>5. \A p \in Timer : pNextTimer'[p] =
        IF p \in Listed /\ pNextTimer[p] = t THEN pNextTimer[t] ELSE pNextTimer[p]
      BY <1>2
<1>6. pNextTimer' \in [Timer -> Cell]
      BY <1>1, <1>2, <1>3 DEF Cell, Linked
<1>7. Linked' = Linked
  <2>1. \A p \in Timer : pNextTimer'[p] = Null <=> pNextTimer[p] = Null
        BY <1>1, <1>3, <1>5 DEF Linked
  <2> QED BY <2>1 DEF Linked
<1>8. \A p \in Linked' : pNextTimer'[p] \in Linked' \cup {Header}
      BY <1>3, <1>5, <1>7 DEF LinksInv, Linked
<1>9. pheader' \in Linked' \cup {Header}
      BY <1>2, <1>3, <1>7 DEF LinksInv
<1>10. pheader' \in Timer \cup {Header}
      BY <1>7, <1>9 DEF Linked
<1>11. /\ mTimerStatus' \in [Timer -> {"START", "STOP"}]
       /\ \A p \in Timer : mTimerStatus'[p] = IF p = t THEN "STOP" ELSE mTimerStatus[p]
      BY <1>1 DEF Unlink, TimerTypeOK
<1> QED BY <1>1, <1>4, <1>6, <1>7, <1>8, <1>9, <1>10, <1>11

\* Steps that leave the list alone.
LEMMA ListKept ==
  ASSUME UNCHANGED list
  PROVE  /\ Listed' = Listed /\ Linked' = Linked
         /\ \A n : From(pNextTimer', n) = From(pNextTimer, n)
         /\ Acyclic(pNextTimer) => Acyclic(pNextTimer')
<1>1. pheader' = pheader /\ pNextTimer' = pNextTimer
      BY DEF list
<1> QED BY <1>1 DEF Listed, Linked

LEMMA InitInv == Init => IInv
<1> SUFFICES ASSUME Init PROVE IInv
    OBVIOUS
<1>1. pheader = Header /\ cursor = Header /\ \A p \in Timer : pNextTimer[p] = Null
      BY DEF Init
<1>2. Listed = {}
      BY <1>1, FromHeader DEF Listed
<1>3. Linked = {}
      BY <1>1 DEF Linked
<1>4. Acyclic(pNextTimer)
      BY <1>1 DEF Acyclic
<1>5. TimerTypeOK
  <2>1. walkTicks \in 0 .. TicksPerWalk
        BY DEF Init
  <2>2. /\ pNextTimer \in [Timer -> Timer \cup {Header, Null}]
        /\ mTimerStatus \in [Timer -> {"START", "STOP"}]
        /\ due \in [Timer -> Nat] /\ mTick \in [Timer -> Nat]
        BY DEF Init
  <2> QED BY <2>1, <2>2 DEF Init, TimerTypeOK
<1>6. LinksInv
      BY <1>1, <1>2, <1>3, <1>4 DEF LinksInv
<1>7. WalkInv
      BY DEF Init, WalkInv
<1> QED BY <1>5, <1>6, <1>7 DEF IInv

LEMMA SetStep ==
  ASSUME IInv, NEW t \in Timer, NEW k \in Ticks[t], SYS_SetTimer(t, k)
  PROVE  IInv'
<1>1. /\ TimerTypeOK /\ LinksInv /\ WalkInv
      /\ Link(t) /\ pc \in {"idle", "callback"} /\ k \in Nat
      /\ due' = [due EXCEPT ![t] = k] /\ mTick' = [mTick EXCEPT ![t] = k]
      /\ mTimerStatus' = [mTimerStatus EXCEPT ![t] = "START"]
      /\ owed' = owed \ {t}
      /\ pc' = pc /\ cursor' = cursor /\ flag' = flag /\ walkTicks' = walkTicks
      BY DEF IInv, SYS_SetTimer, InMain, walk
<1>2. /\ pheader' \in Timer /\ pNextTimer' \in [Timer -> Cell]
      /\ \A p \in Linked : p \in Linked'
      /\ pheader' \in Linked'
      /\ \A p \in Linked' : pNextTimer'[p] \in Linked' \cup {Header}
      /\ Acyclic(pNextTimer')
      /\ Listed' = Listed \cup {t}
      /\ \A n : From(pNextTimer', n) \subseteq From(pNextTimer, n) \cup Listed'
      /\ \A n : (From(pNextTimer, n) \cap Listed) \subseteq From(pNextTimer', n)
      BY <1>1, LinkStep
<1>3. /\ \A p \in Timer : mTimerStatus'[p] = IF p = t THEN "START" ELSE mTimerStatus[p]
      /\ \A p \in Timer : p # t => due'[p] = due[p]
      BY <1>1 DEF TimerTypeOK
<1>4. TimerTypeOK'
      BY <1>1, <1>2 DEF TimerTypeOK, Cell
<1>5. Listed \subseteq Timer /\ From(pNextTimer, cursor) \subseteq Timer
      BY <1>1, ListedLinked, FromInTimer
<1>6. LinksInv'
  <2>1. \A p \in Listed' : mTimerStatus'[p] = "START"
        BY <1>1, <1>2, <1>3, <1>5 DEF LinksInv
  <2>2. cursor' \in Linked' \cup {Header}
        BY <1>1, <1>2 DEF LinksInv
  <2> QED BY <1>2, <2>1, <2>2 DEF LinksInv
<1>7. WalkInv'
  <2>1. \A p \in owed' : p \in Listed' /\ due'[p] = 0
        BY <1>1, <1>2, <1>3, <1>5 DEF WalkInv
  <2>2. ASSUME pc = "callback"
        PROVE  /\ owed' \subseteq From(pNextTimer', cursor')
               /\ \A p \in From(pNextTimer', cursor') :
                    p \in Listed' \/ mTimerStatus'[p] = "STOP"
               /\ cursor' \in Timer /\ cursor' \notin owed'
    <3>1. owed' \subseteq From(pNextTimer, cursor) \cap Listed
          BY <1>1, <2>2 DEF WalkInv
    <3>2. owed' \subseteq From(pNextTimer', cursor)
          BY <3>1, <1>2
    <3>3. \A p \in From(pNextTimer, cursor) : p \in Listed' \/ mTimerStatus'[p] = "STOP"
          BY <1>1, <1>2, <1>3, <1>5, <2>2 DEF WalkInv
    <3>4. From(pNextTimer', cursor) \subseteq From(pNextTimer, cursor) \cup Listed'
          BY <1>2
    <3> QED BY <3>2, <3>3, <3>4, <1>1, <2>2 DEF WalkInv
  <2>3. pc = "idle" => owed' = {}
        BY <1>1 DEF WalkInv
  <2> QED BY <2>1, <2>2, <2>3, <1>1 DEF WalkInv
<1> QED BY <1>4, <1>6, <1>7 DEF IInv

LEMMA ResetStep ==
  ASSUME IInv, NEW t \in Timer, SYS_ResetTimer(t)
  PROVE  IInv'
<1>1. /\ TimerTypeOK /\ LinksInv /\ WalkInv
      /\ due' = [due EXCEPT ![t] = mTick[t]] /\ owed' = owed \ {t}
      /\ UNCHANGED list /\ pheader' = pheader /\ pNextTimer' = pNextTimer
      /\ mTimerStatus' = mTimerStatus /\ mTick' = mTick
      /\ pc' = pc /\ cursor' = cursor /\ flag' = flag /\ walkTicks' = walkTicks
      BY DEF IInv, SYS_ResetTimer, walk, list
<1>2. /\ Listed' = Listed /\ Linked' = Linked
      /\ \A n : From(pNextTimer', n) = From(pNextTimer, n)
      /\ Acyclic(pNextTimer')
      BY <1>1, ListKept DEF LinksInv
<1>3. TimerTypeOK'
      BY <1>1 DEF TimerTypeOK
<1>4. LinksInv'
      BY <1>1, <1>2 DEF LinksInv
<1>5. \A p \in Timer : p # t => due'[p] = due[p]
      BY <1>1 DEF TimerTypeOK
<1>6. \A p \in owed' : p \in Timer /\ p # t /\ p \in owed
      BY <1>1 DEF TimerTypeOK
<1>7. WalkInv'
      BY <1>1, <1>2, <1>5, <1>6 DEF WalkInv
<1> QED BY <1>3, <1>4, <1>7 DEF IInv

\* A node is unlinked, by a caller or by the walk that is about to run its callback.
LEMMA UnlinkInv ==
  ASSUME IInv, NEW t \in Listed, Unlink(t), owed' = owed \ {t},
         due' = due, mTick' = mTick, flag' = flag, cursor' = cursor,
         walkTicks' = walkTicks, pc' \in {"idle", "callback"},
         pc' # pc => pc = "walk" /\ pc' = "callback" /\ cursor = t
  PROVE  IInv'
<1>1. TimerTypeOK /\ LinksInv /\ WalkInv
      BY DEF IInv
<1>2. /\ pheader' \in Timer \cup {Header} /\ pNextTimer' \in [Timer -> Cell]
      /\ Linked' = Linked
      /\ pheader' \in Linked' \cup {Header}
      /\ \A p \in Linked' : pNextTimer'[p] \in Linked' \cup {Header}
      /\ Acyclic(pNextTimer')
      /\ Listed' = Listed \ {t}
      /\ \A n : From(pNextTimer', n) \subseteq From(pNextTimer, n)
      /\ \A n : From(pNextTimer, n) \ {t} \subseteq From(pNextTimer', n)
      /\ mTimerStatus' \in [Timer -> {"START", "STOP"}]
      /\ \A p \in Timer : mTimerStatus'[p] = IF p = t THEN "STOP" ELSE mTimerStatus[p]
      BY <1>1, UnlinkStep
<1>3. Listed \subseteq Timer /\ From(pNextTimer, cursor) \subseteq Timer
      BY <1>1, ListedLinked, FromInTimer
<1>4. TimerTypeOK'
      BY <1>1, <1>2 DEF TimerTypeOK, Cell
<1>5. LinksInv'
  <2>1. \A p \in Listed' : mTimerStatus'[p] = "START"
        BY <1>1, <1>2, <1>3 DEF LinksInv
  <2> QED BY <1>1, <1>2, <2>1 DEF LinksInv
<1>6. WalkInv'
  <2>1. \A p \in owed' : p \in Listed' /\ due'[p] = 0
        BY <1>1, <1>2 DEF WalkInv
  <2>2. pc' = "idle" => owed' = {}
        BY <1>1 DEF WalkInv
  <2>3. ASSUME pc' = "callback"
        PROVE  /\ owed' \subseteq From(pNextTimer', cursor')
               /\ \A p \in From(pNextTimer', cursor') :
                    p \in Listed' \/ mTimerStatus'[p] = "STOP"
               /\ cursor' \in Timer /\ cursor' \notin owed'
    <3>1. pc \in {"walk", "callback"}
          BY <2>3
    <3>2. owed' \subseteq From(pNextTimer, cursor) \ {t}
          BY <1>1, <3>1 DEF WalkInv
    <3>3. owed' \subseteq From(pNextTimer', cursor)
          BY <3>2, <1>2
    <3>4. From(pNextTimer', cursor) \subseteq From(pNextTimer, cursor)
          BY <1>2
    <3>5. \A p \in From(pNextTimer, cursor) : p \in Listed' \/ mTimerStatus'[p] = "STOP"
          BY <1>1, <1>2, <1>3, <3>1 DEF WalkInv
    <3>6. cursor \in Timer /\ cursor \notin owed'
          BY <1>1, <1>3, <2>3 DEF WalkInv
    <3> QED BY <3>3, <3>4, <3>5, <3>6
  <2> QED BY <2>1, <2>2, <2>3 DEF WalkInv
<1> QED BY <1>4, <1>5, <1>6 DEF IInv

LEMMA ReleaseStep ==
  ASSUME IInv, NEW t \in Timer, SYS_ReleaseTimer(t)
  PROVE  IInv'
<1>1. /\ t \in Listed /\ Unlink(t) /\ owed' = owed \ {t}
      /\ due' = due /\ mTick' = mTick /\ flag' = flag /\ cursor' = cursor
      /\ walkTicks' = walkTicks /\ pc' = pc /\ pc \in {"idle", "callback"}
      BY DEF SYS_ReleaseTimer, SYS_TimerisExist, InMain, walk
<1> QED BY <1>1, UnlinkInv

LEMMA ReleaseAllStep ==
  ASSUME IInv, SYS_ReleaseAllTimer
  PROVE  IInv'
<1>1. /\ TimerTypeOK /\ LinksInv /\ WalkInv
      /\ pheader' = Header /\ owed' = {} /\ pNextTimer' = pNextTimer
      /\ mTimerStatus' =
           [t \in Timer |-> IF t \in Listed THEN "STOP" ELSE mTimerStatus[t]]
      /\ due' = due /\ mTick' = mTick /\ flag' = flag /\ cursor' = cursor
      /\ walkTicks' = walkTicks /\ pc' = pc
      BY DEF IInv, SYS_ReleaseAllTimer, walk
<1>2. Listed' = {}
      BY <1>1, FromHeader DEF Listed
<1>3. Linked' = Linked /\ Acyclic(pNextTimer')
      BY <1>1 DEF Linked, LinksInv
<1>4. TimerTypeOK'
      BY <1>1 DEF TimerTypeOK
<1>5. LinksInv'
      BY <1>1, <1>2, <1>3 DEF LinksInv
<1>6. \A p \in Timer :
        mTimerStatus'[p] = IF p \in Listed THEN "STOP" ELSE mTimerStatus[p]
      BY <1>1
<1>7. From(pNextTimer', cursor') = From(pNextTimer, cursor)
      BY <1>1
<1>8. From(pNextTimer, cursor) \subseteq Timer
      BY FromInTimer
<1>9. WalkInv'
      BY <1>1, <1>6, <1>7, <1>8 DEF WalkInv
<1> QED BY <1>4, <1>5, <1>9 DEF IInv

LEMMA TimerInitStep ==
  ASSUME IInv, SYS_TimerInit
  PROVE  IInv'
<1>1. /\ TimerTypeOK /\ LinksInv /\ WalkInv
      /\ pc = "idle" /\ pc' = pc /\ pheader' = Header /\ owed' = owed
      /\ pNextTimer' = pNextTimer /\ mTimerStatus' = mTimerStatus
      /\ due' = due /\ mTick' = mTick /\ flag' = flag /\ cursor' = cursor
      /\ walkTicks' = walkTicks
      BY DEF IInv, SYS_TimerInit, walk
<1>2. Listed' = {}
      BY <1>1, FromHeader DEF Listed
<1>3. Linked' = Linked /\ Acyclic(pNextTimer')
      BY <1>1 DEF Linked, LinksInv
<1>4. TimerTypeOK'
      BY <1>1 DEF TimerTypeOK
<1>5. LinksInv'
      BY <1>1, <1>2, <1>3 DEF LinksInv
<1>6. WalkInv'
      BY <1>1 DEF WalkInv
<1> QED BY <1>4, <1>5, <1>6 DEF IInv

\* The walk moves on from a node whose successor it reads now.
LEMMA AdvanceInv ==
  ASSUME IInv, pc \in {"walk", "callback"}, cursor \in Timer, cursor \notin owed,
         cursor' = pNextTimer[cursor], pc' = "walk",
         UNCHANGED << list, due, mTick, flag, walkTicks, owed >>
  PROVE  IInv'
<1>1. /\ TimerTypeOK /\ LinksInv /\ WalkInv
      /\ UNCHANGED list /\ pheader' = pheader /\ pNextTimer' = pNextTimer
      /\ mTimerStatus' = mTimerStatus /\ due' = due /\ mTick' = mTick /\ flag' = flag
      /\ walkTicks' = walkTicks /\ owed' = owed
      BY DEF IInv, list
<1>2. Listed' = Listed /\ Linked' = Linked /\ Acyclic(pNextTimer')
      BY <1>1, ListKept DEF LinksInv
<1>3. cursor' \in Linked \cup {Header}
      BY <1>1 DEF LinksInv, Linked
<1>4. TimerTypeOK'
      BY <1>1, <1>3 DEF TimerTypeOK, Linked
<1>5. LinksInv'
      BY <1>1, <1>2, <1>3 DEF LinksInv
<1>6. /\ From(pNextTimer, cursor) \subseteq {cursor} \cup From(pNextTimer, cursor')
      /\ From(pNextTimer, cursor') \subseteq From(pNextTimer, cursor)
      BY FromNext
<1>7. From(pNextTimer', cursor') = From(pNextTimer, cursor')
      BY <1>1
<1>8. WalkInv'
  <2>1. /\ owed \subseteq From(pNextTimer, cursor)
        /\ \A p \in From(pNextTimer, cursor) : p \in Listed \/ mTimerStatus[p] = "STOP"
        /\ \A t \in owed : t \in Listed /\ due[t] = 0
        BY <1>1 DEF WalkInv
  <2>2. owed \subseteq From(pNextTimer, cursor')
        BY <2>1, <1>6
  <2>3. \A p \in From(pNextTimer, cursor') : p \in Listed \/ mTimerStatus[p] = "STOP"
        BY <2>1, <1>6
  <2> QED BY <1>1, <1>2, <1>7, <2>1, <2>2, <2>3 DEF WalkInv
<1> QED BY <1>4, <1>5, <1>8 DEF IInv

LEMMA PollStep ==
  ASSUME IInv, Poll
  PROVE  IInv'
<1>1. TimerTypeOK /\ LinksInv /\ WalkInv
      BY DEF IInv
<1>2. CASE PollCheck
  <2>1. /\ UNCHANGED list /\ pheader' = pheader /\ pNextTimer' = pNextTimer
        /\ mTimerStatus' = mTimerStatus /\ due' = due /\ mTick' = mTick /\ flag' = flag
        /\ walkTicks' = walkTicks /\ owed' = owed /\ cursor' = cursor
        /\ pc = "idle" /\ pc' = "enter"
        BY <1>2 DEF PollCheck, list
  <2>2. Listed' = Listed /\ Linked' = Linked /\ Acyclic(pNextTimer')
        BY <1>1, <2>1, ListKept DEF LinksInv
  <2>3. TimerTypeOK' /\ LinksInv' /\ WalkInv'
        BY <1>1, <2>1, <2>2 DEF TimerTypeOK, LinksInv, WalkInv
  <2> QED BY <2>3 DEF IInv
<1>3. CASE PollEnter
  <2>1. /\ UNCHANGED list /\ pheader' = pheader /\ pNextTimer' = pNextTimer
        /\ mTimerStatus' = mTimerStatus /\ due' = due /\ mTick' = mTick /\ flag' = FALSE
        /\ walkTicks' = 0 /\ owed' = {t \in Listed : IsDue(t)} /\ cursor' = pheader
        /\ pc' = "walk"
        BY <1>3 DEF PollEnter, list
  <2>2. Listed' = Listed /\ Linked' = Linked /\ Acyclic(pNextTimer')
        BY <1>1, <2>1, ListKept DEF LinksInv
  <2>3. Listed \subseteq Timer
        BY <1>1, ListedLinked
  <2>4. TimerTypeOK'
    <3>1. walkTicks' \in 0 .. TicksPerWalk
          BY <2>1
    <3>2. owed' \subseteq Timer
          BY <2>1, <2>3
    <3> QED BY <1>1, <2>1, <3>1, <3>2 DEF TimerTypeOK
  <2>5. LinksInv'
        BY <1>1, <2>1, <2>2 DEF LinksInv
  <2>6. From(pNextTimer', cursor') = Listed
        BY <2>1 DEF Listed
  <2>7. WalkInv'
        BY <2>1, <2>2, <2>6 DEF WalkInv, IsDue
  <2> QED BY <2>4, <2>5, <2>7 DEF IInv
<1>4. CASE WalkSkip
  <2>1. /\ pc = "walk" /\ cursor \in Timer /\ ~ IsDue(cursor) /\ pc' = "walk"
        /\ cursor' = pNextTimer[cursor]
        /\ UNCHANGED << list, due, mTick, flag, walkTicks, owed >>
        BY <1>4 DEF WalkSkip
  <2>2. cursor \notin owed
        BY <1>1, <2>1 DEF WalkInv, LinksInv, IsDue
  <2> QED BY <2>1, <2>2, AdvanceInv
<1>5. CASE WalkFire
  <2>1. /\ pc = "walk" /\ cursor \in Timer /\ IsDue(cursor) /\ Fire
        /\ pc' = "callback" /\ owed' = owed \ {cursor}
        /\ mTick' = mTick /\ flag' = flag /\ cursor' = cursor /\ walkTicks' = walkTicks
        BY <1>5 DEF WalkFire
  <2>2. cursor \in Listed
    <3>1. cursor \in From(pNextTimer, cursor)
          BY <2>1, FromClosed
    <3> QED BY <1>1, <2>1, <3>1 DEF WalkInv, IsDue
  <2>3. CASE Kind[cursor] = "single"
    <3>1. Unlink(cursor) /\ due' = due
          BY <2>1, <2>2, <2>3 DEF Fire, SYS_TimerisExist
    <3> QED BY <2>1, <2>2, <3>1, UnlinkInv
  <2>4. CASE Kind[cursor] # "single"
    <3>1. /\ due' = [due EXCEPT ![cursor] = mTick[cursor]] /\ UNCHANGED list
          /\ pheader' = pheader /\ pNextTimer' = pNextTimer
          /\ mTimerStatus' = mTimerStatus
          BY <2>1, <2>4 DEF Fire, list
    <3>2. /\ Listed' = Listed /\ Linked' = Linked /\ Acyclic(pNextTimer')
          /\ From(pNextTimer', cursor') = From(pNextTimer, cursor)
          BY <1>1, <2>1, <3>1, ListKept DEF LinksInv
    <3>3. TimerTypeOK'
          BY <1>1, <2>1, <3>1 DEF TimerTypeOK
    <3>4. LinksInv'
          BY <1>1, <2>1, <3>1, <3>2 DEF LinksInv
    <3>5. \A p \in Timer : p # cursor => due'[p] = due[p]
          BY <3>1, <1>1 DEF TimerTypeOK
    <3>6. \A p \in owed' : p \in owed /\ p \in Timer /\ p # cursor
          BY <1>1, <2>1 DEF TimerTypeOK
    <3>7. WalkInv'
          BY <1>1, <2>1, <3>1, <3>2, <3>5, <3>6 DEF WalkInv
    <3> QED BY <3>3, <3>4, <3>7 DEF IInv
  <2> QED BY <2>3, <2>4
<1>6. CASE CallbackReturn
  <2>1. /\ pc = "callback" /\ pc' = "walk" /\ cursor' = pNextTimer[cursor]
        /\ UNCHANGED << list, due, mTick, flag, walkTicks, owed >>
        BY <1>6 DEF CallbackReturn
  <2>2. cursor \in Timer /\ cursor \notin owed
        BY <1>1, <2>1 DEF WalkInv
  <2> QED BY <2>1, <2>2, AdvanceInv
<1>7. CASE WalkEnd
  <2>1. /\ UNCHANGED list /\ pheader' = pheader /\ pNextTimer' = pNextTimer
        /\ mTimerStatus' = mTimerStatus /\ due' = due /\ mTick' = mTick /\ flag' = flag
        /\ walkTicks' = 0 /\ owed' = {} /\ cursor' = cursor /\ pc' = "idle"
        BY <1>7 DEF WalkEnd, list
  <2>2. Listed' = Listed /\ Linked' = Linked /\ Acyclic(pNextTimer')
        BY <1>1, <2>1, ListKept DEF LinksInv
  <2>3. TimerTypeOK' /\ LinksInv' /\ WalkInv'
        BY <1>1, <2>1, <2>2 DEF TimerTypeOK, LinksInv, WalkInv
  <2> QED BY <2>3 DEF IInv
<1> QED BY <1>2, <1>3, <1>4, <1>5, <1>6, <1>7 DEF Poll

\* Time goes by.
LEMMA ElapseStep ==
  ASSUME IInv, NEW b, NEW n \in Nat, Elapse(b, n), flag' \in BOOLEAN,
         walkTicks' \in 0 .. TicksPerWalk, UNCHANGED << list, mTick, walk, owed >>
  PROVE  IInv'
<1>1. /\ TimerTypeOK /\ LinksInv /\ WalkInv
      /\ UNCHANGED list /\ pheader' = pheader /\ pNextTimer' = pNextTimer
      /\ mTimerStatus' = mTimerStatus /\ mTick' = mTick
      /\ owed' = owed /\ cursor' = cursor /\ pc' = pc
      BY DEF IInv, list, walk
<1>2. /\ Listed' = Listed /\ Linked' = Linked /\ Acyclic(pNextTimer')
      /\ From(pNextTimer', cursor') = From(pNextTimer, cursor)
      BY <1>1, ListKept DEF LinksInv
<1>3. /\ due' \in [Timer -> Nat]
      /\ \A t \in Timer : due[t] = 0 => due'[t] = 0
      BY <1>1 DEF Elapse, TimerTypeOK
<1>4. TimerTypeOK'
      BY <1>1, <1>3 DEF TimerTypeOK
<1>5. LinksInv'
      BY <1>1, <1>2 DEF LinksInv
<1>6. owed \subseteq Timer
      BY <1>1 DEF TimerTypeOK
<1>7. WalkInv'
      BY <1>1, <1>2, <1>3, <1>6 DEF WalkInv
<1> QED BY <1>4, <1>5, <1>7 DEF IInv

LEMMA NextInv == IInv /\ [Next]_vars => IInv'
<1> SUFFICES ASSUME IInv, [Next]_vars PROVE IInv'
    OBVIOUS
<1>1. CASE \E t \in Timer : \E k \in Ticks[t] : SYS_SetTimer(t, k)
      BY <1>1, SetStep
<1>2. CASE \E t \in Timer : SYS_ResetTimer(t)
      BY <1>2, ResetStep
<1>3. CASE \E t \in Timer : SYS_ReleaseTimer(t)
      BY <1>3, ReleaseStep
<1>4. CASE SYS_ReleaseAllTimer
      BY <1>4, ReleaseAllStep
<1>5. CASE SYS_TimerInit
      BY <1>5, TimerInitStep
<1>6. CASE Poll
      BY <1>6, PollStep
<1>7. CASE SYStick_handle
  <2>1. walkTicks' \in 0 .. TicksPerWalk
        BY <1>7 DEF SYStick_handle, IInv, TimerTypeOK
  <2> QED BY <1>7, <2>1, ElapseStep DEF SYStick_handle
<1>8. CASE \E n \in BtCounts : Bt_100ms_timer(n)
  <2>1. PICK n \in BtCounts : Bt_100ms_timer(n)
        BY <1>8
  <2>2. n \in Nat /\ Elapse("bt", n) /\ flag' \in BOOLEAN
        /\ walkTicks' = walkTicks /\ UNCHANGED << list, mTick, walk, owed >>
        BY <2>1 DEF Bt_100ms_timer
  <2>3. walkTicks' \in 0 .. TicksPerWalk
        BY <2>2 DEF IInv, TimerTypeOK
  <2> QED BY <2>2, <2>3, ElapseStep
<1>9. CASE UNCHANGED vars
  <2>1. /\ TimerTypeOK /\ LinksInv /\ WalkInv
        /\ UNCHANGED list /\ pheader' = pheader /\ pNextTimer' = pNextTimer
        /\ mTimerStatus' = mTimerStatus /\ due' = due /\ mTick' = mTick /\ flag' = flag
        /\ walkTicks' = walkTicks /\ owed' = owed /\ cursor' = cursor /\ pc' = pc
        BY <1>9 DEF IInv, vars, list, walk
  <2>2. /\ Listed' = Listed /\ Linked' = Linked /\ Acyclic(pNextTimer')
        /\ From(pNextTimer', cursor') = From(pNextTimer, cursor)
        BY <2>1, ListKept DEF LinksInv
  <2>3. TimerTypeOK' /\ LinksInv' /\ WalkInv'
        BY <2>1, <2>2 DEF TimerTypeOK, LinksInv, WalkInv
  <2> QED BY <2>3 DEF IInv
<1> QED BY <1>1, <1>2, <1>3, <1>4, <1>5, <1>6, <1>7, <1>8, <1>9 DEF Next, Poll

\* The strengthening of the invariants below holds of every behaviour of
\* drivers/timer/yc_timer.c.
THEOREM Invariance == Spec => []IInv
BY InitInv, NextInv, PTL DEF Spec

\* The fields of the timers, the list and the walk stay in their types.
THEOREM TypeCorrect == Spec => []TimerTypeOK
<1>1. IInv => TimerTypeOK
      BY DEF IInv
<1> QED BY <1>1, Invariance, PTL

\* A walk of SYS_timerPolling, and every search of the list, ends at header_Timer,
\* whatever was armed and released under it.
THEOREM ListAlwaysEnds == Spec => []ListEnds
<1>1. IInv => ListEnds
  <2> SUFFICES ASSUME IInv PROVE ListEnds
      OBVIOUS
  <2>1. TimerTypeOK /\ LinksInv
        BY DEF IInv
  <2>2. Listed \subseteq Linked /\ From(pNextTimer, cursor) \subseteq Linked
        BY <2>1, ListedLinked
  <2> QED BY <2>1, <2>2 DEF ListEnds, LinksInv, Linked
<1> QED BY <1>1, Invariance, PTL

\* SYS_timerPolling serves every timer that was due when its walk began, unless a
\* callback armed or released it meanwhile.
THEOREM WalkAlwaysServes == Spec => []WalkServesAll
<1>1. IInv => WalkServesAll
  <2> SUFFICES ASSUME IInv, pc = "walk", cursor = Header PROVE owed = {}
      BY DEF WalkServesAll
  <2>1. From(pNextTimer, Header) = {}
        BY FromHeader
  <2>2. owed \subseteq From(pNextTimer, cursor)
        BY DEF IInv, WalkInv
  <2> QED BY <2>1, <2>2
<1> QED BY <1>1, Invariance, PTL
-----------------------------------------------------------------------------
(* The timer service. *)

LEMMA LeftFacts ==
  ASSUME TimerTypeOK, TimerTypeOK'
  PROVE  /\ Left \in [Timer -> Nat \cup {Null}] /\ Left' \in [Timer -> Nat \cup {Null}]
         /\ \A t \in Timer : Left[t] = IF t \in Listed THEN due[t] ELSE Null
         /\ \A t \in Timer : Left'[t] = IF t \in Listed' THEN due'[t] ELSE Null
<1>1. \A t \in Timer : due[t] \in Nat /\ due'[t] \in Nat
      BY DEF TimerTypeOK
<1> QED BY <1>1 DEF Left

\* A step that changes neither the list nor the delays is not seen by the service.
LEMMA LeftKept ==
  ASSUME UNCHANGED << list, due >>
  PROVE  Left' = Left
<1>1. Listed' = Listed /\ due' = due
      BY ListKept
<1> QED BY <1>1 DEF Left

LEMMA InitService == Init => Service!Init
<1> SUFFICES ASSUME Init PROVE Service!Init
    OBVIOUS
<1>1. Listed = {}
      BY FromHeader DEF Listed, Init
<1>2. Left = [t \in Timer |-> Null]
      BY <1>1 DEF Left
<1>3. Running = Null /\ mTick = [t \in Timer |-> 0]
      BY DEF Running, Init
<1> QED BY <1>2, <1>3 DEF Service!Init

LEMMA SetService ==
  ASSUME IInv, IInv', NEW t \in Timer, NEW k \in Ticks[t], SYS_SetTimer(t, k)
  PROVE  Service!Set(t, k)
<1>1. /\ TimerTypeOK /\ TimerTypeOK' /\ LinksInv /\ Link(t) /\ k \in Nat
      /\ due' = [due EXCEPT ![t] = k] /\ mTick' = [mTick EXCEPT ![t] = k]
      /\ pc' = pc /\ cursor' = cursor
      BY DEF IInv, SYS_SetTimer, walk
<1>2. Listed' = Listed \cup {t}
      BY <1>1, LinkStep
<1>3. /\ due'[t] = k
      /\ \A p \in Timer : p # t => due'[p] = due[p]
      BY <1>1 DEF TimerTypeOK
<1>4. Left' = [Left EXCEPT ![t] = k]
      BY <1>1, <1>2, <1>3, LeftFacts
<1>5. Running' = Running
      BY <1>1 DEF Running
<1> QED BY <1>1, <1>4, <1>5 DEF Service!Set

LEMMA RestartService ==
  ASSUME IInv, IInv', NEW t \in Timer, SYS_ResetTimer(t)
  PROVE  Service!Restart(t)
<1>1. /\ TimerTypeOK /\ TimerTypeOK' /\ t \in Listed /\ UNCHANGED list
      /\ due' = [due EXCEPT ![t] = mTick[t]] /\ mTick' = mTick
      /\ pc' = pc /\ cursor' = cursor
      BY DEF IInv, SYS_ResetTimer, SYS_TimerisExist, walk
<1>2. Listed' = Listed
      BY <1>1, ListKept
<1>3. /\ due'[t] = mTick[t] /\ due[t] \in Nat
      /\ \A p \in Timer : p # t => due'[p] = due[p]
      BY <1>1 DEF TimerTypeOK
<1>4. Left' = [Left EXCEPT ![t] = mTick[t]]
      BY <1>1, <1>2, <1>3, LeftFacts
<1>5. Left[t] # Null
      BY <1>1, <1>3, LeftFacts
<1>6. Running' = Running
      BY <1>1 DEF Running
<1> QED BY <1>1, <1>4, <1>5, <1>6 DEF Service!Restart

\* Some timers leave the list.
LEMMA ReleaseService ==
  ASSUME TimerTypeOK, TimerTypeOK', Listed' \subseteq Listed, due' = due, mTick' = mTick,
         pc' = pc, cursor' = cursor
  PROVE  Service!Release
<1>1. Left' \in [Timer -> {Null} \cup Nat]
      BY LeftFacts
<1>2. \A t \in Timer : Left'[t] \in {Left[t], Null}
      BY LeftFacts
<1>3. Running' = Running
      BY DEF Running
<1> QED BY <1>1, <1>2, <1>3 DEF Service!Release

LEMMA TickService ==
  ASSUME IInv, IInv', NEW b \in {"m0", "bt"}, NEW n \in BtCounts \cup {1}, Elapse(b, n),
         UNCHANGED << list, mTick, walk >>
  PROVE  Service!Tick(b, n)
<1>1. /\ TimerTypeOK /\ TimerTypeOK' /\ n \in Nat /\ UNCHANGED list /\ mTick' = mTick
      /\ pc' = pc /\ cursor' = cursor
      BY DEF IInv, walk
<1>2. Listed' = Listed
      BY <1>1, ListKept
<1>3. \A t \in Timer : due'[t] = IF Base[t] # b THEN due[t]
                                 ELSE IF due[t] > n THEN due[t] - n ELSE 0
      BY DEF Elapse
<1>4. \A t \in Timer : due[t] \in Nat /\ due[t] # Null
      BY <1>1 DEF TimerTypeOK
<1>5. \A t \in Timer :
        Left'[t] = IF Left[t] = Null \/ Base[t] # b THEN Left[t]
                   ELSE IF Left[t] > n THEN Left[t] - n ELSE 0
      BY <1>1, <1>2, <1>3, <1>4, LeftFacts
<1>6. Left' = [t \in Timer |-> IF Left[t] = Null \/ Base[t] # b THEN Left[t]
                               ELSE IF Left[t] > n THEN Left[t] - n ELSE 0]
      BY <1>1, <1>5, LeftFacts
<1>7. Running' = Running
      BY <1>1 DEF Running
<1> QED BY <1>1, <1>6, <1>7 DEF Service!Tick

LEMMA FireService ==
  ASSUME IInv, IInv', WalkFire
  PROVE  cursor \in Timer /\ Service!Fire(cursor)
<1>1. /\ TimerTypeOK /\ TimerTypeOK' /\ LinksInv /\ WalkInv
      /\ pc = "walk" /\ cursor \in Timer /\ IsDue(cursor) /\ Fire
      /\ pc' = "callback" /\ mTick' = mTick /\ cursor' = cursor
      BY DEF IInv, WalkFire
<1>2. cursor \in Listed
  <2>1. cursor \in From(pNextTimer, cursor)
        BY <1>1, FromClosed
  <2> QED BY <1>1, <2>1 DEF WalkInv, IsDue
<1>3. Left[cursor] = 0
      BY <1>1, <1>2, LeftFacts DEF IsDue
<1>4. Running = Null /\ Running' = cursor
      BY <1>1 DEF Running
<1>5. CASE Kind[cursor] = "single"
  <2>1. Unlink(cursor) /\ due' = due
        BY <1>1, <1>2, <1>5 DEF Fire, SYS_TimerisExist
  <2>2. Listed' = Listed \ {cursor}
        BY <1>1, <1>2, <2>1, UnlinkStep
  <2>3. Left' = [Left EXCEPT ![cursor] = Null]
        BY <1>1, <2>1, <2>2, LeftFacts
  <2> QED BY <1>1, <1>3, <1>4, <1>5, <2>3 DEF Service!Fire
<1>6. CASE Kind[cursor] # "single"
  <2>1. due' = [due EXCEPT ![cursor] = mTick[cursor]] /\ UNCHANGED list
        BY <1>1, <1>6 DEF Fire
  <2>2. Listed' = Listed
        BY <2>1, ListKept
  <2>3. /\ due'[cursor] = mTick[cursor]
        /\ \A p \in Timer : p # cursor => due'[p] = due[p]
        BY <1>1, <2>1 DEF TimerTypeOK
  <2>4. Left' = [Left EXCEPT ![cursor] = mTick[cursor]]
        BY <1>1, <1>2, <2>2, <2>3, LeftFacts
  <2> QED BY <1>1, <1>3, <1>4, <1>6, <2>4 DEF Service!Fire
<1> QED BY <1>1, <1>5, <1>6

\* The other steps of the walk.
LEMMA WalkService ==
  ASSUME UNCHANGED << list, due, mTick >>, Running' = Null \/ Running' = Running
  PROVE  [Service!Next]_<< Left, mTick, Running >>
<1>1. Left' = Left
      BY LeftKept
<1> QED BY <1>1 DEF Service!Next, Service!Return

LEMMA NextService ==
  IInv /\ IInv' /\ [Next]_vars => [Service!Next]_<< Left, mTick, Running >>
<1> SUFFICES ASSUME IInv, IInv', [Next]_vars
             PROVE  [Service!Next]_<< Left, mTick, Running >>
    OBVIOUS
<1>0. TimerTypeOK /\ TimerTypeOK' /\ LinksInv
      BY DEF IInv
<1>1. CASE \E t \in Timer : \E k \in Ticks[t] : SYS_SetTimer(t, k)
  <2>1. PICK t \in Timer : \E k \in Ticks[t] : SYS_SetTimer(t, k)
        BY <1>1
  <2>2. PICK k \in Ticks[t] : SYS_SetTimer(t, k)
        BY <2>1
  <2>3. Service!Set(t, k)
        BY <2>2, SetService
  <2> QED BY <2>3 DEF Service!Next
<1>2. CASE \E t \in Timer : SYS_ResetTimer(t)
  <2>1. PICK t \in Timer : SYS_ResetTimer(t)
        BY <1>2
  <2>2. Service!Restart(t)
        BY <2>1, RestartService
  <2> QED BY <2>2 DEF Service!Next
<1>3. CASE \E t \in Timer : SYS_ReleaseTimer(t)
  <2>1. PICK t \in Timer : SYS_ReleaseTimer(t)
        BY <1>3
  <2>2. /\ t \in Listed /\ Unlink(t) /\ due' = due /\ mTick' = mTick
        /\ pc' = pc /\ cursor' = cursor
        BY <2>1 DEF SYS_ReleaseTimer, SYS_TimerisExist, walk
  <2>3. Listed' \subseteq Listed
        BY <1>0, <2>2, UnlinkStep
  <2>4. Service!Release
        BY <1>0, <2>2, <2>3, ReleaseService
  <2> QED BY <2>4 DEF Service!Next
<1>4. CASE SYS_ReleaseAllTimer \/ SYS_TimerInit
  <2>1. /\ pheader' = Header /\ due' = due /\ mTick' = mTick
        /\ pc' = pc /\ cursor' = cursor
        BY <1>4 DEF SYS_ReleaseAllTimer, SYS_TimerInit, walk
  <2>2. Listed' \subseteq Listed
        BY <2>1, FromHeader DEF Listed
  <2>3. Service!Release
        BY <1>0, <2>1, <2>2, ReleaseService
  <2> QED BY <2>3 DEF Service!Next
<1>5. CASE WalkFire
  <2>1. cursor \in Timer /\ Service!Fire(cursor)
        BY <1>5, FireService
  <2> QED BY <2>1 DEF Service!Next
<1>6. CASE PollCheck \/ PollEnter \/ WalkSkip \/ CallbackReturn \/ WalkEnd
  <2>1. UNCHANGED << list, due, mTick >>
        BY <1>6 DEF PollCheck, PollEnter, WalkSkip, CallbackReturn, WalkEnd
  <2>2. Running' = Null
        BY <1>6 DEF PollCheck, PollEnter, WalkSkip, CallbackReturn, WalkEnd, Running
  <2> QED BY <2>1, <2>2, WalkService
<1>7. CASE SYStick_handle
  <2>1. Service!Tick("m0", 1)
        BY <1>7, TickService DEF SYStick_handle
  <2> QED BY <2>1 DEF Service!Next
<1>8. CASE \E n \in BtCounts : Bt_100ms_timer(n)
  <2>1. PICK n \in BtCounts : Bt_100ms_timer(n)
        BY <1>8
  <2>2. Service!Tick("bt", n)
        BY <2>1, TickService DEF Bt_100ms_timer
  <2> QED BY <2>2 DEF Service!Next
<1>9. CASE UNCHANGED vars
  <2>1. UNCHANGED << list, due, mTick >> /\ Running' = Running
        BY <1>9 DEF vars, walk, Running
  <2> QED BY <2>1, WalkService
<1> QED BY <1>1, <1>2, <1>3, <1>4, <1>5, <1>6, <1>7, <1>8, <1>9 DEF Next

\* The linked list of drivers/timer/yc_timer.c implements the timer service:
\* callbacks run only for timers that are armed and due, once per expiry.
THEOREM RefinesTimerService == Spec => ImplementsTimerService
BY InitInv, NextInv, InitService, NextService, PTL
   DEF Spec, ImplementsTimerService, Service!Spec
=============================================================================
