--------------------------- MODULE DRAMRankProofs ---------------------------
(***************************************************************************)
(* Proofs about DRAMRank with power-down off, the default: for any number  *)
(* of ranks and banks, any timings in the order of DDR4's and any bubbles  *)
(* that fit between two refreshes.                                         *)
(***************************************************************************)
EXTENDS DRAMRank, SetLemmas, SequenceTheorems, TLAPS

----------------------------------------------------------------------------
(* The invariant *)

EventKinds == {"nextReq", "respond", "refresh", "power", "wakeUp", "activate",
               "precharge", "writeDone"}
Event == [ev : EventKinds, rank : 0 .. numRanks, at : Nat, now : BOOLEAN]

Sorted(q) == \A i, j \in DOMAIN q : i < j => q[i].at <= q[j].at
Once(q)   == \A i, j \in DOMAIN q : q[i].ev = q[j].ev /\ q[i].rank = q[j].rank => i = j
QueueOK(q) == q \in Seq(Event) /\ Sorted(q) /\ Once(q)

(* The event is scheduled for t; it is the next one, and has been          *)
(* scheduled in this tick; it is due, before any other event of its rank.  *)
At(q, ev, r, t)   == \E i \in DOMAIN q : IsEvent(q[i], ev, r) /\ q[i].at = t
AtHead(q, ev, r)  == q # <<>> /\ IsEvent(q[1], ev, r) /\ q[1].at = 0 /\ q[1].now
First(q, ev, r)   == \E i \in DOMAIN q :
    /\ IsEvent(q[i], ev, r) /\ q[i].at = 0
    /\ \A j \in DOMAIN q : q[j].rank = r => i <= j

Bank == [open : BOOLEAN, preAt : Nat, actAt : Nat, colAt : Nat]
PowerStates == {"IDLE", "ACT", "REF"}
RankState ==
    [refreshState : {"REF_IDLE", "REF_DRAIN", "REF_PD_EXIT", "REF_PRE",
                     "REF_START", "REF_RUN"},
     refreshDueAt : Int, pwrState : PowerStates, pwrStateTrans : PowerStates,
     pwrStatePostRefresh : {"IDLE"}, inLowPowerState : {FALSE},
     wakeUpAllowedAt : Nat, outstandingEvents : Int, banks : [Banks -> Bank]]

(* Reads of the rank on their way back. *)
Response == [rank : Ranks, at : Nat]
Flies(resp, r, t) == \E i \in DOMAIN resp : resp[i].rank = r /\ resp[i].at = t
Flying(resp, r)   == Cardinality({i \in DOMAIN resp : resp[i].rank = r})

Closed(k) == \A b \in Banks : ~k.banks[b].open
Busy(q, k, r) == ~Closed(k) \/ Scheduled(q, "precharge", r)

(* Nothing is under way in the rank. *)
Quiet(q, k, r, resp) ==
    /\ Closed(k)
    /\ \A ev \in {"precharge", "activate", "writeDone"} : ~Scheduled(q, ev, r)
    /\ \A t : ~Flies(resp, r, t)

(* A precharge of the rank ends after t: it is scheduled, or a bank is     *)
(* open whose precharge will be.                                           *)
Covered(q, k, r, t) ==
    \/ \E b \in Banks : k.banks[b].open /\ k.banks[b].preAt + tRP > t
    \/ \E p \in Nat : At(q, "precharge", r, p) /\ p > t

(* Whatever is under way ends before the rank's last precharge. *)
AllCovered(q, k, r, resp) ==
    \A t \in Nat :
       At(q, "activate", r, t) \/ At(q, "writeDone", r, t) \/ Flies(resp, r, t)
          => Covered(q, k, r, t)

PowerOK(q, k, r, resp) ==
    /\ k.pwrState = "ACT" /\ ~Scheduled(q, "power", r) => Busy(q, k, r)
    /\ k.pwrState = "REF" <=> k.refreshState \in {"REF_START", "REF_RUN"}
    /\ Scheduled(q, "power", r) =>
          /\ AtHead(q, "power", r)
          /\ k.pwrStateTrans = "ACT" =>
                Busy(q, k, r) /\ k.refreshState \in {"REF_IDLE", "REF_DRAIN", "REF_PRE"}
          /\ k.pwrStateTrans = "IDLE" => Quiet(q, k, r, resp)
          /\ k.pwrStateTrans = "REF" =>
                Quiet(q, k, r, resp) /\ k.refreshState = "REF_PRE"

PhaseOK(q, k, r, resp) ==
    /\ k.refreshState = "REF_IDLE" => Scheduled(q, "refresh", r)
    /\ k.refreshState = "REF_DRAIN" =>
          Scheduled(q, "nextReq", 0) /\ ~Scheduled(q, "refresh", r)
    /\ k.refreshState = "REF_PD_EXIT" => First(q, "refresh", r)
    /\ k.refreshState = "REF_PRE" =>
          /\ Closed(k) /\ ~Scheduled(q, "refresh", r)
          /\ Scheduled(q, "precharge", r) \/ Scheduled(q, "power", r)
    /\ k.refreshState = "REF_START" =>
          AtHead(q, "refresh", r) /\ Quiet(q, k, r, resp)
    /\ k.refreshState = "REF_RUN" =>
          /\ Scheduled(q, "refresh", r) /\ Quiet(q, k, r, resp)
          /\ ~Scheduled(q, "power", r) =>
                \A t \in Nat : At(q, "refresh", r, t) => k.refreshDueAt - tRP > t

Counted(q, k, r, resp) ==
    k.outstandingEvents = Flying(resp, r) + One(Scheduled(q, "precharge", r))
                             + One(Scheduled(q, "writeDone", r))
                             + One(k.refreshState # "REF_IDLE")

RankOK(q, k, r, resp) ==
    /\ k \in RankState
    /\ ~Scheduled(q, "wakeUp", r)
    /\ AllCovered(q, k, r, resp)
    /\ PowerOK(q, k, r, resp)
    /\ PhaseOK(q, k, r, resp)
    /\ Counted(q, k, r, resp)

(* Responses come in order, each with the event of the first; the next     *)
(* burst will not be answered before them.                                 *)
Responses(q, resp, ks) ==
    /\ resp \in Seq(Response)
    /\ \A i, j \in DOMAIN resp : i < j => resp[i].at <= resp[j].at
    /\ resp # <<>> <=> Scheduled(q, "respond", 0)
    /\ \A t \in Nat : At(q, "respond", 0, t) => t = resp[1].at
    /\ \A i \in DOMAIN resp, r \in Ranks, b \in Banks :
          resp[i].at <= ks[r].banks[b].colAt + tCL + tBURST

CtrlOK ==
    /\ activeRank \in Ranks /\ nextBurstAt \in Int
    /\ reads \in [Ranks -> 0 .. readBufferSize]
    /\ writes \in [Ranks -> 0 .. writeBufferSize]
    /\ busStateNext \in {"READ", "WRITE"} /\ draining \in BOOLEAN

Ctl == /\ QueueOK(eventq) /\ CtrlOK /\ Responses(eventq, respQueue, rk)
       /\ rk \in [Ranks -> RankState]
       /\ \A r \in Ranks : RankOK(eventq, rk[r], r, respQueue)

(* The times of a rank, where `last` bounds the column command of a burst. *)
Lag == PrechargeLag - tBURST
RankTime(q, k, r, last) ==
    LET end == last + PrechargeLag
        due == k.refreshDueAt
    IN
    /\ \A b \in Banks : k.banks[b].preAt <= k.banks[b].colAt + Lag
    /\ \A p \in Nat, b \in Banks : At(q, "precharge", r, p) =>
          p <= k.banks[b].colAt + Lag + tRP
    /\ k.refreshState = "REF_IDLE" =>
          \A b \in Banks : k.banks[b].actAt <= k.banks[b].colAt + Lag + tRP
    /\ k.refreshState = "REF_RUN" => \A b \in Banks :
          /\ Scheduled(q, "power", r) => k.banks[b].actAt = 0
          /\ ~Scheduled(q, "power", r) =>
                \A t \in Nat : At(q, "refresh", r, t) => k.banks[b].actAt <= t
    /\ k.refreshState \in {"REF_DRAIN", "REF_PD_EXIT", "REF_PRE", "REF_START"} =>
          /\ due <= 0 /\ due >= -(end + tRP)
          /\ \A p \in Nat : At(q, "precharge", r, p) => p - due <= end + tRP
    /\ k.refreshState \in {"REF_DRAIN", "REF_PD_EXIT"} =>
          /\ due >= -end
          /\ \A b \in Banks : k.banks[b].preAt <= Later(0, end + due)
    /\ k.refreshState = "REF_DRAIN" =>
          \A a \in Nat : At(q, "nextReq", 0, a) => a - due <= last + tBURST

BusTime(q, ks, nb, last) ==
    /\ nb <= last + tBURST
    /\ \A a \in Nat : At(q, "nextReq", 0, a) =>
          nb <= a + tRP + tRCD /\ a <= last + tBURST
    /\ ~Scheduled(q, "nextReq", 0) => nb <= tRP + tRCD
    /\ \A r \in Ranks, b \in Banks :
          /\ ks[r].banks[b].colAt <= Later(0, nb)
          /\ \A r2 \in Ranks, b2 \in Banks :
                ks[r].banks[b].colAt = ks[r2].banks[b2].colAt

Times(last) == /\ BusTime(eventq, rk, nextBurstAt, last)
               /\ \A r \in Ranks : RankTime(eventq, rk[r], r, last)

----------------------------------------------------------------------------
(* The event queue *)

(* The types of a queue's entries. *)
LEMMA QueueTypes ==
    ASSUME NEW q, QueueOK(q)
    PROVE  /\ DOMAIN q = 1 .. Len(q) /\ Len(q) \in Nat
           /\ \A i \in DOMAIN q :
                 /\ q[i] \in Event /\ q[i].at \in Nat /\ q[i].ev \in EventKinds
                 /\ q[i].rank \in 0 .. numRanks /\ q[i].now \in BOOLEAN
<1>1. q \in Seq(Event)
  BY DEF QueueOK
<1>2. DOMAIN q = 1 .. Len(q) /\ Len(q) \in Nat
  BY <1>1
<1>3. \A i \in DOMAIN q : q[i] \in Event
  BY <1>1, <1>2
<1> QED
  BY <1>2, <1>3 DEF Event

(* InsertAt and RemoveAt of SequencesExt, by positions. *)
LEMMA InsertAtFacts ==
    ASSUME NEW S, NEW q \in Seq(S), NEW e \in S, NEW p \in 1 .. Len(q) + 1
    PROVE  LET q2 == InsertAt(q, p, e)
           IN  /\ q2 \in Seq(S) /\ Len(q2) = Len(q) + 1
               /\ \A i \in 1 .. Len(q) + 1 :
                     q2[i] = IF i < p THEN q[i] ELSE IF i = p THEN e ELSE q[i - 1]
<1> DEFINE a == SubSeq(q, 1, p - 1)
           c == SubSeq(q, p, Len(q))
           d == a \o <<e>>
           q2 == d \o c
<1>1. Len(q) \in Nat /\ p \in Nat
  BY LenProperties
<1>2. /\ a \in Seq(S) /\ Len(a) = p - 1
      /\ \A i \in 1 .. p - 1 : a[i] = q[i]
  BY <1>1
<1>3. /\ c \in Seq(S) /\ Len(c) = Len(q) - p + 1
      /\ \A i \in 1 .. Len(q) - p + 1 : c[i] = q[p + i - 1]
  BY <1>1
<1>4. InsertAt(q, p, e) = q2
  BY DEF InsertAt
<1> HIDE DEF a, c
<1>5. /\ d \in Seq(S) /\ Len(d) = p
      /\ \A i \in 1 .. p : d[i] = IF i < p THEN q[i] ELSE e
  BY <1>1, <1>2
<1> HIDE DEF d
<1>6. /\ q2 \in Seq(S) /\ Len(q2) = Len(q) + 1
      /\ \A i \in 1 .. Len(q) + 1 : q2[i] = IF i <= p THEN d[i] ELSE c[i - p]
  BY <1>1, <1>3, <1>5
<1> HIDE DEF q2
<1>7. ASSUME NEW i \in 1 .. Len(q) + 1
      PROVE  q2[i] = IF i < p THEN q[i] ELSE IF i = p THEN e ELSE q[i - 1]
  <2>1. CASE i <= p
    BY <1>1, <1>5, <1>6, <2>1
  <2>2. CASE i > p
    <3>1. i - p \in 1 .. Len(q) - p + 1 /\ p + (i - p) - 1 = i - 1
      BY <1>1, <2>2
    <3>2. c[i - p] = q[p + (i - p) - 1]
      BY <1>3, <3>1
    <3> QED
      BY <1>1, <1>6, <2>2, <3>1, <3>2
  <2> QED
    BY <1>1, <2>1, <2>2
<1> QED
  BY <1>4, <1>6, <1>7

(* What an index of a sequence holds when one element was taken out. *)
LEMMA RemoveAtFacts ==
    ASSUME NEW S, NEW q \in Seq(S), NEW p \in 1 .. Len(q)
    PROVE  LET q2 == RemoveAt(q, p)
           IN  /\ q2 \in Seq(S) /\ Len(q2) = Len(q) - 1
               /\ \A i \in 1 .. Len(q) - 1 : q2[i] = IF i < p THEN q[i] ELSE q[i + 1]
<1> DEFINE a == SubSeq(q, 1, p - 1)
           c == SubSeq(q, p + 1, Len(q))
           q2 == a \o c
<1>1. Len(q) \in Nat /\ p \in Nat
  BY LenProperties
<1>2. /\ a \in Seq(S) /\ Len(a) = p - 1
      /\ \A i \in 1 .. p - 1 : a[i] = q[i]
  BY <1>1
<1>3. /\ c \in Seq(S) /\ Len(c) = Len(q) - p
      /\ \A i \in 1 .. Len(q) - p : c[i] = q[p + i]
  BY <1>1
<1>4. RemoveAt(q, p) = q2
  BY DEF RemoveAt
<1> HIDE DEF a, c
<1>5. /\ q2 \in Seq(S) /\ Len(q2) = Len(q) - 1
      /\ \A i \in 1 .. Len(q) - 1 : q2[i] = IF i < p THEN a[i] ELSE c[i - p + 1]
  BY <1>1, <1>2, <1>3, SMTT(30)
<1> HIDE DEF q2
<1>6. ASSUME NEW i \in 1 .. Len(q) - 1
      PROVE  q2[i] = IF i < p THEN q[i] ELSE q[i + 1]
  <2>1. CASE i < p
    BY <1>1, <1>2, <1>5, <2>1
  <2>2. CASE i >= p
    <3>1. i - p + 1 \in 1 .. Len(q) - p /\ p + (i - p + 1) = i + 1
      BY <1>1, <2>2
    <3>2. c[i - p + 1] = q[p + (i - p + 1)]
      BY <1>3, <3>1
    <3> QED
      BY <1>1, <1>5, <2>2, <3>1, <3>2
  <2> QED
    BY <1>1, <2>1, <2>2
<1> QED
  BY <1>4, <1>5, <1>6

(* In a sorted queue the events before `at` are the first ones. *)
LEMMA EarlierFirst ==
    ASSUME NEW q, QueueOK(q), NEW at \in Nat
    PROVE  \E n \in 0 .. Len(q) :
              /\ Cardinality({i \in DOMAIN q : q[i].at < at}) = n
              /\ \A i \in 1 .. n : q[i].at < at
              /\ \A i \in n + 1 .. Len(q) : at <= q[i].at
<1> DEFINE E == {i \in DOMAIN q : q[i].at < at}
           D == {i \in DOMAIN q : at <= q[i].at}
<1>1. /\ DOMAIN q = 1 .. Len(q) /\ Len(q) \in Nat
      /\ \A i \in DOMAIN q : q[i].at \in Nat
  BY QueueTypes
<1>2. CASE D = {}
  <2>1. E = 1 .. Len(q)
    BY <1>1, <1>2
  <2>2. Cardinality(E) = Len(q)
    BY <1>1, <2>1, FirstN
  <2>3. \A i \in 1 .. Len(q) : q[i].at < at
    BY <2>1
  <2>4. Len(q) \in 0 .. Len(q) /\ Len(q) + 1 .. Len(q) = {}
    BY <1>1
  <2> QED
    BY <2>2, <2>3, <2>4
<1>3. CASE D # {}
  <2>1. Min(D) \in D /\ \A y \in D : Min(D) <= y
    <3>1. D \in SUBSET Nat
      BY <1>1
    <3> HIDE DEF D
    <3> QED
      BY <1>3, <3>1, MinIsMember
  <2>2. PICK m \in D : \A y \in D : m <= y
    BY <2>1
  <2>3. E = 1 .. m - 1
    BY <1>1, <2>2 DEF QueueOK, Sorted
  <2>4. m - 1 \in 0 .. Len(q) /\ m - 1 + 1 = m
    BY <1>1, <2>2
  <2>5. Cardinality(E) = m - 1
    <3>1. m - 1 \in Nat
      BY <1>1, <2>2
    <3>2. Cardinality(1 .. m - 1) = m - 1
      BY <3>1, FirstN
    <3> QED
      BY <2>3, <3>2, Zenon
  <2>6. \A i \in m .. Len(q) : at <= q[i].at
    BY <1>1, <2>2 DEF QueueOK, Sorted
  <2>7. \A i \in 1 .. m - 1 : q[i].at < at
    BY <2>3
  <2>8. PICK n \in 0 .. Len(q) : n = m - 1
    BY <2>4
  <2> QED
    BY <1>1, <2>4, <2>5, <2>6, <2>7, <2>8
<1> QED
  BY <1>2, <1>3

(* Nothing changes for the rank r2. *)
Untouched(q, q2, r2) ==
    /\ \A ev, t : At(q2, ev, r2, t) <=> At(q, ev, r2, t)
    /\ First(q, "refresh", r2) => First(q2, "refresh", r2)

(* A new event keeps the queue ordered and each event in it once; one      *)
(* scheduled for the current tick is the next to fire.                     *)
LEMMA ScheduleOK ==
    ASSUME NEW q, QueueOK(q), NEW ev \in EventKinds, NEW r \in 0 .. numRanks,
           NEW at \in Nat, ~Scheduled(q, ev, r)
    PROVE  LET q2 == Schedule(q, ev, r, at)
           IN  /\ QueueOK(q2)
               /\ \A e2, r2, t : At(q2, e2, r2, t) <=>
                     At(q, e2, r2, t) \/ (e2 = ev /\ r2 = r /\ t = at)
               /\ \A r2 : r2 # r => Untouched(q, q2, r2)
               /\ at = 0 => AtHead(q2, ev, r) /\ First(q2, ev, r)
               /\ \A e2, r2 : at > 0 /\ AtHead(q, e2, r2) => AtHead(q2, e2, r2)
<1> DEFINE e == [ev |-> ev, rank |-> r, at |-> at, now |-> at = 0]
           q2 == Schedule(q, ev, r, at)
<1>1. /\ DOMAIN q = 1 .. Len(q) /\ Len(q) \in Nat
      /\ \A i \in DOMAIN q : q[i].at \in Nat
  BY QueueTypes
<1>2. e \in Event /\ e.ev = ev /\ e.rank = r /\ e.at = at /\ e.now = (at = 0)
  BY DEF Event
<1>3. PICK n \in 0 .. Len(q) :
              /\ Cardinality({i \in DOMAIN q : q[i].at < at}) = n
              /\ \A i \in 1 .. n : q[i].at < at
              /\ \A i \in n + 1 .. Len(q) : at <= q[i].at
  BY EarlierFirst
<1>4. n \in Nat /\ 1 + n \in 1 .. Len(q) + 1
  BY <1>1
<1>5. q2 = InsertAt(q, 1 + n, e)
  BY <1>3, Zenon DEF Schedule
<1> HIDE DEF e, q2
<1>6. /\ q2 \in Seq(Event) /\ Len(q2) = Len(q) + 1
      /\ \A i \in 1 .. Len(q) + 1 :
            q2[i] = IF i < 1 + n THEN q[i] ELSE IF i = 1 + n THEN e ELSE q[i - 1]
  <2>1. q \in Seq(Event)
    BY DEF QueueOK
  <2>2. PICK p \in 1 .. Len(q) + 1 : p = 1 + n
    BY <1>4
  <2>3. LET q3 == InsertAt(q, p, e)
        IN  /\ q3 \in Seq(Event) /\ Len(q3) = Len(q) + 1
            /\ \A i \in 1 .. Len(q) + 1 :
                  q3[i] = IF i < p THEN q[i] ELSE IF i = p THEN e ELSE q[i - 1]
    <3>1. e \in Event
      BY <1>2
    <3> QED
      BY <2>1, <3>1, InsertAtFacts
  <2> QED
    BY <1>5, <2>2, <2>3
<1>7. DOMAIN q2 = 1 .. Len(q) + 1
  BY <1>1, <1>6
<1>8. /\ \A i \in 1 .. n : q2[i] = q[i]
      /\ q2[1 + n] = e
      /\ \A i \in n + 1 .. Len(q) : q2[i + 1] = q[i]
  BY <1>1, <1>4, <1>6
<1>9. \A i \in DOMAIN q2 : \/ i \in 1 .. n
                           \/ i = 1 + n
                           \/ i - 1 \in n + 1 .. Len(q) /\ q2[i] = q[i - 1]
  BY <1>1, <1>4, <1>6, <1>7
<1>10. Sorted(q2)
  <2> SUFFICES ASSUME NEW i \in DOMAIN q2, NEW j \in DOMAIN q2, i < j
               PROVE  q2[i].at <= q2[j].at
    BY DEF Sorted
  <2>1. Sorted(q)
    BY DEF QueueOK
  <2>2. CASE j \in 1 .. n
    BY <1>1, <1>4, <1>7, <1>8, <2>1, <2>2 DEF Sorted
  <2>3. CASE j = 1 + n
    BY <1>1, <1>2, <1>3, <1>4, <1>7, <1>8, <2>3
  <2>4. CASE j - 1 \in n + 1 .. Len(q) /\ q2[j] = q[j - 1]
    <3>1. j - 1 \in DOMAIN q /\ at <= q[j - 1].at
      BY <1>1, <1>3, <1>4, <2>4
    <3>2. CASE i = 1 + n
      BY <1>2, <1>8, <2>4, <3>1, <3>2
    <3>3. CASE i \in 1 .. n
      BY <1>1, <1>3, <1>4, <1>8, <2>4, <3>1, <3>3
    <3>4. CASE i - 1 \in n + 1 .. Len(q) /\ q2[i] = q[i - 1]
      <4>1. i - 1 \in DOMAIN q /\ i - 1 < j - 1
        BY <1>1, <1>4, <1>7, <3>4
      <4> QED
        BY <2>1, <2>4, <3>1, <3>4, <4>1 DEF Sorted
    <3> QED
      BY <1>9, <3>2, <3>3, <3>4
  <2> QED
    BY <1>9, <2>2, <2>3, <2>4
<1>11. \A i \in DOMAIN q : ~(q[i].ev = ev /\ q[i].rank = r)
  BY DEF Scheduled, IsEvent
<1>12. Once(q2)
  <2> SUFFICES ASSUME NEW i \in DOMAIN q2, NEW j \in DOMAIN q2,
                      q2[i].ev = q2[j].ev /\ q2[i].rank = q2[j].rank
               PROVE  i = j
    BY DEF Once
  <2>1. Once(q)
    BY DEF QueueOK
  <2>2. CASE i = 1 + n \/ j = 1 + n
    BY <1>1, <1>2, <1>4, <1>8, <1>9, <1>11, <2>2
  <2>3. CASE i # 1 + n /\ j # 1 + n
    <3>1. PICK i0 \in DOMAIN q : /\ q2[i] = q[i0]
                                 /\ i0 = IF i <= n THEN i ELSE i - 1
      BY <1>1, <1>4, <1>7, <1>8, <1>9, <2>3
    <3>2. PICK j0 \in DOMAIN q : /\ q2[j] = q[j0]
                                 /\ j0 = IF j <= n THEN j ELSE j - 1
      BY <1>1, <1>4, <1>7, <1>8, <1>9, <2>3
    <3>3. i0 = j0
      BY <2>1, <3>1, <3>2 DEF Once
    <3> QED
      BY <1>1, <1>4, <1>7, <2>3, <3>1, <3>2, <3>3
  <2> QED
    BY <2>2, <2>3
<1>13. QueueOK(q2)
  BY <1>6, <1>10, <1>12 DEF QueueOK
<1>14. ASSUME NEW e2, NEW r2, NEW t
       PROVE  At(q2, e2, r2, t) <=>
                     At(q, e2, r2, t) \/ (e2 = ev /\ r2 = r /\ t = at)
  <2>1. ASSUME At(q2, e2, r2, t)
        PROVE  At(q, e2, r2, t) \/ (e2 = ev /\ r2 = r /\ t = at)
    BY <1>1, <1>2, <1>4, <1>8, <1>9, <2>1 DEF At, IsEvent
  <2>2. ASSUME At(q, e2, r2, t) PROVE At(q2, e2, r2, t)
    <3>1. PICK i \in DOMAIN q : IsEvent(q[i], e2, r2) /\ q[i].at = t
      BY <2>2 DEF At
    <3>2. CASE i \in 1 .. n
      BY <1>1, <1>4, <1>7, <1>8, <3>1, <3>2 DEF At
    <3>3. CASE i \in n + 1 .. Len(q)
      <4>1. i + 1 \in DOMAIN q2 /\ q2[i + 1] = q[i]
        BY <1>1, <1>4, <1>7, <1>8, <3>3
      <4> QED
        BY <3>1, <4>1 DEF At
    <3> QED
      BY <1>1, <1>4, <3>2, <3>3
  <2>3. ASSUME e2 = ev /\ r2 = r /\ t = at PROVE At(q2, e2, r2, t)
    BY <1>2, <1>4, <1>7, <1>8, <2>3 DEF At, IsEvent
  <2> QED
    BY <2>1, <2>2, <2>3
<1>15. ASSUME NEW r2, r2 # r, First(q, "refresh", r2)
       PROVE  First(q2, "refresh", r2)
  <2>1. PICK i \in DOMAIN q :
           /\ IsEvent(q[i], "refresh", r2) /\ q[i].at = 0
           /\ \A j \in DOMAIN q : q[j].rank = r2 => i <= j
    BY <1>15 DEF First
  <2>2. PICK p \in DOMAIN q2 : q2[p] = q[i] /\ p = (IF i <= n THEN i ELSE i + 1)
    BY <1>1, <1>4, <1>7, <1>8
  <2>3. ASSUME NEW j \in DOMAIN q2, q2[j].rank = r2 PROVE p <= j
    <3>1. CASE j \in 1 .. n
      BY <1>1, <1>4, <1>8, <2>1, <2>2, <2>3, <3>1
    <3>2. CASE j = 1 + n
      BY <1>2, <1>8, <1>15, <2>3, <3>2
    <3>3. CASE j - 1 \in n + 1 .. Len(q) /\ q2[j] = q[j - 1]
      <4>1. i <= j - 1
        BY <1>1, <1>4, <2>1, <2>3, <3>3
      <4> QED
        BY <1>1, <1>4, <1>7, <2>2, <3>3, <4>1
    <3> QED
      BY <1>9, <3>1, <3>2, <3>3
  <2> QED
    BY <2>1, <2>2, <2>3 DEF First
<1>16. ASSUME at = 0 PROVE AtHead(q2, ev, r) /\ First(q2, ev, r)
  <2>1. n = 0
    BY <1>1, <1>3, <1>4, <1>16
  <2>2. 1 \in DOMAIN q2 /\ q2[1] = e /\ \A j \in DOMAIN q2 : 1 <= j
    BY <1>1, <1>7, <1>8, <2>1
  <2>3. q2 # <<>>
    BY <1>1, <1>6
  <2>4. IsEvent(e, ev, r) /\ e.at = 0 /\ e.now
    BY <1>2, <1>16 DEF IsEvent
  <2> QED
    BY <2>2, <2>3, <2>4 DEF AtHead, First
<1>17. ASSUME NEW e2, NEW r2, at > 0, AtHead(q, e2, r2) PROVE AtHead(q2, e2, r2)
  <2>1. 1 \in DOMAIN q /\ q[1].at = 0
    BY <1>1, <1>17 DEF AtHead, QueueOK
  <2>2. n >= 1
    BY <1>1, <1>3, <1>4, <1>17, <2>1
  <2>3. q2[1] = q[1] /\ q2 # <<>>
    BY <1>1, <1>4, <1>6, <1>8, <2>2
  <2> QED
    BY <1>17, <2>3 DEF AtHead
<1>18. ASSUME NEW r2, r2 # r PROVE Untouched(q, q2, r2)
  <2>1. \A e2, t : At(q2, e2, r2, t) <=> At(q, e2, r2, t)
    BY <1>14, <1>18
  <2> QED
    BY <1>15, <1>18, <2>1 DEF Untouched
<1> QED
  BY <1>13, <1>14, <1>16, <1>17, <1>18, Zenon DEF q2

(* Taking an event out leaves the others, in their order. *)
LEMMA RemovedOK ==
    ASSUME NEW q, QueueOK(q), NEW p \in DOMAIN q
    PROVE  LET q2 == RemoveAt(q, p)
           IN  /\ QueueOK(q2)
               /\ \A e2, r2, t : At(q2, e2, r2, t) <=>
                     At(q, e2, r2, t) /\ ~IsEvent(q[p], e2, r2)
               /\ \A r2 : r2 # q[p].rank => Untouched(q, q2, r2)
<1> DEFINE q2 == RemoveAt(q, p)
<1>1. /\ DOMAIN q = 1 .. Len(q) /\ Len(q) \in Nat /\ p \in Nat
      /\ \A i \in DOMAIN q : q[i].at \in Nat
  BY QueueTypes
<1>2. /\ q2 \in Seq(Event) /\ Len(q2) = Len(q) - 1
      /\ \A i \in 1 .. Len(q) - 1 : q2[i] = IF i < p THEN q[i] ELSE q[i + 1]
  <2>1. q \in Seq(Event) /\ p \in 1 .. Len(q)
    BY <1>1 DEF QueueOK
  <2> QED
    BY <2>1, RemoveAtFacts
<1> HIDE DEF q2
<1>3. DOMAIN q2 = 1 .. Len(q) - 1
  BY <1>1, <1>2
<1>4. \A i \in DOMAIN q2 : \E i0 \in DOMAIN q :
         /\ q2[i] = q[i0] /\ i0 # p
         /\ i0 = IF i < p THEN i ELSE i + 1
  BY <1>1, <1>2, <1>3
<1>5. \A i0 \in DOMAIN q : i0 # p => \E i \in DOMAIN q2 :
         /\ q2[i] = q[i0]
         /\ i = IF i0 < p THEN i0 ELSE i0 - 1
  <2> SUFFICES ASSUME NEW i0 \in DOMAIN q, i0 # p
               PROVE  \E i \in DOMAIN q2 : /\ q2[i] = q[i0]
                                           /\ i = IF i0 < p THEN i0 ELSE i0 - 1
    OBVIOUS
  <2>1. CASE i0 < p
    BY <1>1, <1>2, <1>3, <2>1
  <2>2. CASE i0 > p
    <3>1. i0 - 1 \in DOMAIN q2 /\ ~(i0 - 1 < p) /\ i0 - 1 + 1 = i0
      BY <1>1, <1>3, <2>2
    <3>2. q2[i0 - 1] = q[i0]
      BY <1>2, <1>3, <3>1
    <3> QED
      BY <1>1, <2>2, <3>1, <3>2
  <2> QED
    BY <1>1, <2>1, <2>2
<1>6. Sorted(q2)
  <2> SUFFICES ASSUME NEW i \in DOMAIN q2, NEW j \in DOMAIN q2, i < j
               PROVE  q2[i].at <= q2[j].at
    BY DEF Sorted
  <2>1. PICK i0 \in DOMAIN q : q2[i] = q[i0] /\ i0 = IF i < p THEN i ELSE i + 1
    BY <1>4
  <2>2. PICK j0 \in DOMAIN q : q2[j] = q[j0] /\ j0 = IF j < p THEN j ELSE j + 1
    BY <1>4
  <2>3. i0 < j0
    BY <1>1, <1>3, <2>1, <2>2
  <2> QED
    BY <2>1, <2>2, <2>3 DEF QueueOK, Sorted
<1>7. Once(q2)
  <2> SUFFICES ASSUME NEW i \in DOMAIN q2, NEW j \in DOMAIN q2,
                      q2[i].ev = q2[j].ev /\ q2[i].rank = q2[j].rank
               PROVE  i = j
    BY DEF Once
  <2>1. PICK i0 \in DOMAIN q : q2[i] = q[i0] /\ i0 = IF i < p THEN i ELSE i + 1
    BY <1>4
  <2>2. PICK j0 \in DOMAIN q : q2[j] = q[j0] /\ j0 = IF j < p THEN j ELSE j + 1
    BY <1>4
  <2>3. i0 = j0
    BY <2>1, <2>2 DEF QueueOK, Once
  <2> QED
    BY <1>1, <1>3, <2>1, <2>2, <2>3
<1>8. ASSUME NEW e2, NEW r2, NEW t
      PROVE  At(q2, e2, r2, t) <=> At(q, e2, r2, t) /\ ~IsEvent(q[p], e2, r2)
  <2>1. ASSUME At(q2, e2, r2, t)
        PROVE  At(q, e2, r2, t) /\ ~IsEvent(q[p], e2, r2)
    <3>1. PICK i \in DOMAIN q2 : IsEvent(q2[i], e2, r2) /\ q2[i].at = t
      BY <2>1 DEF At
    <3>2. PICK i0 \in DOMAIN q : q2[i] = q[i0] /\ i0 # p
      BY <1>4
    <3>3. ~IsEvent(q[p], e2, r2)
      BY <3>1, <3>2 DEF QueueOK, Once, IsEvent
    <3> QED
      BY <3>1, <3>2, <3>3 DEF At
  <2>2. ASSUME At(q, e2, r2, t), ~IsEvent(q[p], e2, r2) PROVE At(q2, e2, r2, t)
    <3>1. PICK i0 \in DOMAIN q : IsEvent(q[i0], e2, r2) /\ q[i0].at = t
      BY <2>2 DEF At
    <3>2. PICK i \in DOMAIN q2 : q2[i] = q[i0]
      BY <1>5, <2>2, <3>1
    <3> QED
      BY <3>1, <3>2 DEF At
  <2> QED
    BY <2>1, <2>2
<1>9. ASSUME NEW r2, r2 # q[p].rank PROVE Untouched(q, q2, r2)
  <2>1. \A e2, t : At(q2, e2, r2, t) <=> At(q, e2, r2, t)
    BY <1>8, <1>9 DEF IsEvent
  <2>2. ASSUME First(q, "refresh", r2) PROVE First(q2, "refresh", r2)
    <3>1. PICK i0 \in DOMAIN q :
             /\ IsEvent(q[i0], "refresh", r2) /\ q[i0].at = 0
             /\ \A j \in DOMAIN q : q[j].rank = r2 => i0 <= j
      BY <2>2 DEF First
    <3>2. i0 # p
      BY <1>9, <3>1 DEF IsEvent
    <3>3. PICK i \in DOMAIN q2 :
             q2[i] = q[i0] /\ i = IF i0 < p THEN i0 ELSE i0 - 1
      BY <1>5, <3>2
    <3>4. ASSUME NEW j \in DOMAIN q2, q2[j].rank = r2 PROVE i <= j
      <4>1. PICK j0 \in DOMAIN q :
               /\ q2[j] = q[j0] /\ j0 # p /\ j0 = IF j < p THEN j ELSE j + 1
        BY <1>4
      <4>2. i0 <= j0
        BY <3>1, <3>4, <4>1
      <4> QED
        BY <1>1, <1>3, <3>2, <3>3, <4>1, <4>2
    <3> QED
      BY <3>1, <3>3, <3>4 DEF First
  <2> QED
    BY <2>1, <2>2 DEF Untouched
<1>10. QueueOK(q2)
  BY <1>2, <1>6, <1>7 DEF QueueOK
<1> QED
  BY <1>8, <1>9, <1>10, Zenon DEF q2

(* When an event is scheduled for. *)
LEMMA WhenOK ==
    ASSUME NEW q, QueueOK(q), NEW ev, NEW r
    PROVE  /\ Scheduled(q, ev, r) <=> \E t \in Nat : At(q, ev, r, t)
           /\ \A t : At(q, ev, r, t) => t \in Nat /\ t = When(q, ev, r)
           /\ Scheduled(q, ev, r) =>
                 When(q, ev, r) \in Nat /\ At(q, ev, r, When(q, ev, r))
<1>1. \A i \in DOMAIN q : q[i].at \in Nat
  BY QueueTypes
<1>2. ASSUME Scheduled(q, ev, r)
      PROVE  /\ Place(q, ev, r) \in DOMAIN q
             /\ IsEvent(q[Place(q, ev, r)], ev, r)
  BY <1>2 DEF Scheduled, Place
<1>3. ASSUME Scheduled(q, ev, r), NEW i \in DOMAIN q, IsEvent(q[i], ev, r)
      PROVE  i = Place(q, ev, r)
  BY <1>2, <1>3 DEF QueueOK, Once, IsEvent
<1>4. \A t : At(q, ev, r, t) => Scheduled(q, ev, r)
  BY DEF At, Scheduled
<1>5. \A t : At(q, ev, r, t) => t \in Nat /\ t = When(q, ev, r)
  BY <1>1, <1>3, <1>4 DEF At, When
<1>6. ASSUME Scheduled(q, ev, r)
      PROVE  When(q, ev, r) \in Nat /\ At(q, ev, r, When(q, ev, r))
  BY <1>1, <1>2, <1>6 DEF At, When
<1> QED
  BY <1>4, <1>5, <1>6

(* So does descheduling a scheduled event. *)
LEMMA DescheduleOK ==
    ASSUME NEW q, QueueOK(q), NEW ev, NEW r, Scheduled(q, ev, r)
    PROVE  LET q2 == Deschedule(q, ev, r)
           IN  /\ QueueOK(q2)
               /\ ~Scheduled(q2, ev, r)
               /\ \A e2, r2, t : At(q2, e2, r2, t) <=>
                     At(q, e2, r2, t) /\ ~(e2 = ev /\ r2 = r)
               /\ \A r2 : r2 # r => Untouched(q, q2, r2)
<1> DEFINE q2 == Deschedule(q, ev, r)
           p  == Place(q, ev, r)
<1>1. p \in DOMAIN q /\ IsEvent(q[p], ev, r)
  BY DEF Scheduled, Place
<1> HIDE DEF p
<1>2. q2 = RemoveAt(q, p)
  BY DEF Deschedule, p
<1> HIDE DEF q2
<1>3. /\ QueueOK(q2)
      /\ \A e2, r2, t : At(q2, e2, r2, t) <=>
            At(q, e2, r2, t) /\ ~IsEvent(q[p], e2, r2)
      /\ \A r2 : r2 # q[p].rank => Untouched(q, q2, r2)
  BY <1>1, <1>2, RemovedOK
<1>4. \A e2, r2 : IsEvent(q[p], e2, r2) <=> e2 = ev /\ r2 = r
  BY <1>1 DEF IsEvent
<1>5. ~Scheduled(q2, ev, r)
  BY <1>3, <1>4, WhenOK
<1>6. q[p].rank = r
  BY <1>1 DEF IsEvent
<1> QED
  BY <1>3, <1>4, <1>5, <1>6, Zenon DEF q2

(* The first event fires. *)
LEMMA TailOK ==
    ASSUME NEW q, QueueOK(q), NEW ev, NEW r, q # <<>>, IsEvent(q[1], ev, r)
    PROVE  LET q2 == Tail(q)
           IN  /\ QueueOK(q2)
               /\ ~Scheduled(q2, ev, r)
               /\ \A e2, r2, t : At(q2, e2, r2, t) <=>
                     At(q, e2, r2, t) /\ ~(e2 = ev /\ r2 = r)
               /\ \A r2 : r2 # r => Untouched(q, q2, r2)
<1>1. q \in Seq(Event) /\ DOMAIN q = 1 .. Len(q) /\ Len(q) \in Nat
  BY QueueTypes DEF QueueOK
<1>2. 1 \in DOMAIN q
  BY <1>1
<1>3. Scheduled(q, ev, r) /\ Place(q, ev, r) = 1
  <2>1. Scheduled(q, ev, r)
    BY <1>2 DEF Scheduled
  <2>2. /\ Place(q, ev, r) \in DOMAIN q
        /\ IsEvent(q[Place(q, ev, r)], ev, r)
    BY <2>1 DEF Scheduled, Place
  <2> QED
    BY <1>2, <2>1, <2>2 DEF QueueOK, Once, IsEvent
<1>4. Tail(q) = RemoveAt(q, 1)
  <2>1. SubSeq(q, 1, 0) = <<>>
    BY SubSeqEmpty
  <2>2. Tail(q) = SubSeq(q, 2, Len(q)) /\ Tail(q) \in Seq(Event)
    BY <1>1, TailIsSubSeq, HeadTailProperties
  <2>3. <<>> \o Tail(q) = Tail(q)
    BY <2>2, ConcatEmptySeq
  <2> QED
    BY <2>1, <2>2, <2>3 DEF RemoveAt
<1>5. Tail(q) = Deschedule(q, ev, r)
  BY <1>3, <1>4 DEF Deschedule
<1>6. LET q2 == Deschedule(q, ev, r)
      IN  /\ QueueOK(q2)
          /\ ~Scheduled(q2, ev, r)
          /\ \A e2, r2, t : At(q2, e2, r2, t) <=>
                At(q, e2, r2, t) /\ ~(e2 = ev /\ r2 = r)
          /\ \A r2 : r2 # r => Untouched(q, q2, r2)
  BY <1>3, DescheduleOK
<1> QED
  BY <1>5, <1>6, Zenon

----------------------------------------------------------------------------
(* What leaves a rank's invariant alone *)

SameScalars(k, k2) ==
    /\ k2.refreshState = k.refreshState /\ k2.refreshDueAt = k.refreshDueAt
    /\ k2.pwrState = k.pwrState /\ k2.pwrStateTrans = k.pwrStateTrans

(* At most constraints of the banks are raised. *)
SameRank(k, k2) ==
    /\ k2 \in RankState /\ SameScalars(k, k2)
    /\ \A b \in Banks : /\ k2.banks[b].open = k.banks[b].open
                        /\ k2.banks[b].preAt >= k.banks[b].preAt

(* No read of the rank is new, and those that were answered are no longer  *)
(* counted.                                                                *)
SameReads(k, k2, resp, resp2, r) ==
    /\ Flying(resp, r) \in Nat /\ Flying(resp2, r) \in Nat
    /\ k2.outstandingEvents - Flying(resp2, r) = k.outstandingEvents - Flying(resp, r)
    /\ \A t : Flies(resp2, r, t) => Flies(resp, r, t)

(* The rank's times are as they were, except that a precharge may be over. *)
KeptRank(q, k, q2, k2, r) ==
    /\ k2.refreshState = k.refreshState /\ k2.refreshDueAt = k.refreshDueAt
    /\ k2.banks = k.banks
    /\ \A p : At(q2, "precharge", r, p) => At(q, "precharge", r, p)
    /\ k.refreshState = "REF_RUN" =>
          \A ev \in {"refresh", "power"} : \A t : At(q2, ev, r, t) <=> At(q, ev, r, t)
KeptOthers(r) ==
    \A r2 \in Ranks : r2 # r => KeptRank(eventq, rk[r2], eventq', rk'[r2], r2)

(* ... for every rank, and the next turn is still due, or due at once.     *)
Kept ==
    /\ nextBurstAt' = nextBurstAt
    /\ \A r \in Ranks : KeptRank(eventq, rk[r], eventq', rk'[r], r)
    /\ nextReqScheduled(eventq) => nextReqScheduled(eventq')
    /\ \A a : At(eventq', "nextReq", 0, a) =>
          At(eventq, "nextReq", 0, a) \/ (~nextReqScheduled(eventq) /\ a = 0)

(* Events of other ranks come and go, responses too. *)
LEMMA Frame ==
    ASSUME NEW q, NEW q2, QueueOK(q), QueueOK(q2), NEW k, NEW k2, NEW r \in Ranks,
           NEW resp, NEW resp2, RankOK(q, k, r, resp),
           Untouched(q, q2, r), SameRank(k, k2), SameReads(k, k2, resp, resp2, r),
           Scheduled(q, "power", r) => AtHead(q2, "power", r),
           k.refreshState # "REF_START",
           k.refreshState = "REF_DRAIN" => Scheduled(q2, "nextReq", 0)
    PROVE  RankOK(q2, k2, r, resp2)
<1>1. \A ev : Scheduled(q2, ev, r) <=> Scheduled(q, ev, r)
  BY WhenOK DEF Untouched
<1>2. \A ev, t : At(q2, ev, r, t) <=> At(q, ev, r, t)
  BY DEF Untouched
<1>3. /\ k \in RankState /\ k2 \in RankState
      /\ \A b \in Banks : /\ k.banks[b] \in Bank /\ k2.banks[b] \in Bank
                          /\ k2.banks[b].open = k.banks[b].open
                          /\ k2.banks[b].preAt >= k.banks[b].preAt
                          /\ k.banks[b].preAt \in Nat /\ k2.banks[b].preAt \in Nat
  BY DEF RankOK, SameRank, RankState, Bank
<1>4. tRP \in Nat
  BY RankAssumption
<1>5. ASSUME NEW t \in Nat, Covered(q, k, r, t) PROVE Covered(q2, k2, r, t)
  BY <1>2, <1>3, <1>4, <1>5 DEF Covered
<1>6. AllCovered(q2, k2, r, resp2)
  BY <1>2, <1>5 DEF AllCovered, RankOK, SameReads
<1>7. /\ Closed(k2) <=> Closed(k)
      /\ Busy(q2, k2, r) <=> Busy(q, k, r)
      /\ Quiet(q, k, r, resp) => Quiet(q2, k2, r, resp2)
  BY <1>1, <1>3 DEF Closed, Busy, Quiet, SameReads
<1>8. SameScalars(k, k2)
  BY DEF SameRank
<1>9. PowerOK(q2, k2, r, resp2)
  BY <1>1, <1>7, <1>8 DEF PowerOK, RankOK, SameScalars
<1>10. PhaseOK(q2, k2, r, resp2)
  <2>1. PhaseOK(q, k, r, resp)
    BY DEF RankOK
  <2>2. First(q, "refresh", r) => First(q2, "refresh", r)
    BY DEF Untouched
  <2> QED
    BY <1>1, <1>2, <1>7, <1>8, <2>1, <2>2 DEF PhaseOK, SameScalars
<1>11. Counted(q2, k2, r, resp2)
  <2>1. Counted(q, k, r, resp)
    BY DEF RankOK
  <2>2. /\ One(Scheduled(q2, "precharge", r)) = One(Scheduled(q, "precharge", r))
        /\ One(Scheduled(q2, "writeDone", r)) = One(Scheduled(q, "writeDone", r))
        /\ One(k2.refreshState # "REF_IDLE") = One(k.refreshState # "REF_IDLE")
    BY <1>1, <1>8 DEF One, SameScalars
  <2>3. /\ k.outstandingEvents \in Int /\ k2.outstandingEvents \in Int
        /\ Flying(resp, r) \in Nat /\ Flying(resp2, r) \in Nat
        /\ k2.outstandingEvents - Flying(resp2, r) = k.outstandingEvents - Flying(resp, r)
    BY <1>3 DEF RankState, SameReads
  <2>4. \A c : One(c) \in Nat
    BY DEF One
  <2> DEFINE n1 == One(Scheduled(q, "precharge", r))
             n2 == One(Scheduled(q, "writeDone", r))
             n3 == One(k.refreshState # "REF_IDLE")
             o  == k.outstandingEvents
             o2 == k2.outstandingEvents
             f  == Flying(resp, r)
             f2 == Flying(resp2, r)
  <2>5. n1 \in Nat /\ n2 \in Nat /\ n3 \in Nat
    BY <2>4
  <2>6. o = f + n1 + n2 + n3
    BY <2>1 DEF Counted
  <2> HIDE DEF n1, n2, n3, o, o2, f, f2
  <2>7. o2 = f2 + n1 + n2 + n3
    BY <2>3, <2>5, <2>6 DEF o, o2, f, f2
  <2> QED
    BY <2>2, <2>7 DEF Counted, n1, n2, n3, o2, f2
<1> QED
  BY <1>1, <1>3, <1>6, <1>9, <1>10, <1>11 DEF RankOK

----------------------------------------------------------------------------
(* The steps of a burst *)

StepType == [q : Seq(Event), k : RankState]

(* An event that stands for the last of its kind: prechargeEvent and       *)
(* writeDoneEvent.                                                         *)
LastEventAt(s, ev, r, at) ==
    IF ~Scheduled(s.q, ev, r)
    THEN [s EXCEPT !.q = Schedule(@, ev, r, at),
                   !.k.outstandingEvents = @ + 1]
    ELSE IF When(s.q, ev, r) < at
    THEN [s EXCEPT !.q = Schedule(Deschedule(@, ev, r), ev, r, at)]
    ELSE s

(* An event moved to a later tick, or scheduled: a precharge or the end of *)
(* a write, of which the rank keeps the last.                              *)
LEMMA LastEventOK ==
    ASSUME NEW s \in StepType, QueueOK(s.q), NEW ev \in EventKinds,
           NEW r \in 0 .. numRanks, NEW at \in Nat
    PROVE  LET s2 == LastEventAt(s, ev, r, at)
           IN  /\ s2 \in StepType /\ QueueOK(s2.q)
               /\ \E p \in Nat :
                     /\ at <= p /\ At(s2.q, ev, r, p)
                     /\ p = at \/ At(s.q, ev, r, p)
                     /\ \A p0 \in Nat : At(s.q, ev, r, p0) => p0 <= p
               /\ \A e2, r2, t : e2 # ev => (At(s2.q, e2, r2, t) <=> At(s.q, e2, r2, t))
               /\ \A r2 : r2 # r => Untouched(s.q, s2.q, r2)
               /\ SameScalars(s.k, s2.k) /\ s2.k.banks = s.k.banks
               /\ s2.k.outstandingEvents =
                     s.k.outstandingEvents + One(~Scheduled(s.q, ev, r))
<1> DEFINE s2 == LastEventAt(s, ev, r, at)
<1>1. s.q \in Seq(Event) /\ s.k \in RankState /\ s.k.outstandingEvents \in Int
  BY DEF StepType, RankState
<1>2. CASE ~Scheduled(s.q, ev, r)
  <2> DEFINE q2 == Schedule(s.q, ev, r, at)
             k2 == [s.k EXCEPT !.outstandingEvents = @ + 1]
  <2>1. /\ QueueOK(q2)
        /\ \A e2, r2, t : At(q2, e2, r2, t) <=>
              At(s.q, e2, r2, t) \/ (e2 = ev /\ r2 = r /\ t = at)
        /\ \A r2 : r2 # r => Untouched(s.q, q2, r2)
    BY <1>2, ScheduleOK
  <2> HIDE DEF q2
  <2>2. s2.q = q2 /\ s2.k = k2 /\ s2 = [q |-> q2, k |-> k2]
    BY <1>1, <1>2 DEF LastEventAt, StepType, q2
  <2>3. k2 \in RankState /\ SameScalars(s.k, k2) /\ k2.banks = s.k.banks
        /\ k2.outstandingEvents = s.k.outstandingEvents + 1
    <3>1. s.k.outstandingEvents + 1 \in Int
      BY <1>1
    <3> DEFINE n == s.k.outstandingEvents + 1
    <3>2. k2 = [s.k EXCEPT !.outstandingEvents = n]
      OBVIOUS
    <3> HIDE DEF n, k2
    <3>3. k2 \in RankState
      BY <1>1, <3>1, <3>2 DEF RankState, n
    <3> QED
      BY <1>1, <3>2, <3>3 DEF RankState, SameScalars, n
  <2> HIDE DEF k2, s2
  <2>4. q2 \in Seq(Event) /\ s2 \in StepType
    BY <2>1, <2>2, <2>3 DEF StepType, QueueOK
  <2>5. \A p0 \in Nat : ~At(s.q, ev, r, p0)
    BY <1>2, WhenOK
  <2>6. \E p \in Nat :
                     /\ at <= p /\ At(q2, ev, r, p)
                     /\ p = at \/ At(s.q, ev, r, p)
                     /\ \A p0 \in Nat : At(s.q, ev, r, p0) => p0 <= p
    BY <2>1, <2>5
  <2>7. One(~Scheduled(s.q, ev, r)) = 1
    BY <1>2 DEF One
  <2> QED
    BY <2>1, <2>2, <2>3, <2>4, <2>6, <2>7 DEF s2
<1>3. CASE Scheduled(s.q, ev, r) /\ When(s.q, ev, r) < at
  <2> DEFINE q1 == Deschedule(s.q, ev, r)
             q2 == Schedule(q1, ev, r, at)
  <2>1. /\ QueueOK(q1) /\ ~Scheduled(q1, ev, r)
        /\ \A e2, r2, t : At(q1, e2, r2, t) <=>
              At(s.q, e2, r2, t) /\ ~(e2 = ev /\ r2 = r)
        /\ \A r2 : r2 # r => Untouched(s.q, q1, r2)
    BY <1>3, DescheduleOK
  <2> HIDE DEF q1
  <2>2. /\ QueueOK(q2)
        /\ \A e2, r2, t : At(q2, e2, r2, t) <=>
              At(q1, e2, r2, t) \/ (e2 = ev /\ r2 = r /\ t = at)
        /\ \A r2 : r2 # r => Untouched(q1, q2, r2)
    BY <2>1, ScheduleOK
  <2> HIDE DEF q2
  <2>3. s2.q = q2 /\ s2.k = s.k /\ s2 = [q |-> q2, k |-> s.k]
    BY <1>1, <1>3 DEF LastEventAt, StepType, q1, q2
  <2> HIDE DEF s2
  <2>4. q2 \in Seq(Event) /\ s2 \in StepType
    BY <1>1, <2>2, <2>3 DEF StepType, QueueOK
  <2>5. \A p0 \in Nat : At(s.q, ev, r, p0) => p0 <= at
    BY <1>3, WhenOK
  <2>6. \E p \in Nat :
                     /\ at <= p /\ At(q2, ev, r, p)
                     /\ p = at \/ At(s.q, ev, r, p)
                     /\ \A p0 \in Nat : At(s.q, ev, r, p0) => p0 <= p
    BY <2>2, <2>5
  <2>7. \A r2 : r2 # r => Untouched(s.q, q2, r2)
    BY <2>1, <2>2 DEF Untouched
  <2>8. One(~Scheduled(s.q, ev, r)) = 0 /\ SameScalars(s.k, s.k)
        /\ s.k.outstandingEvents = s.k.outstandingEvents + 0
    BY <1>1, <1>3 DEF One, SameScalars
  <2>9. \A e2, r2, t : e2 # ev => (At(q2, e2, r2, t) <=> At(s.q, e2, r2, t))
    BY <2>1, <2>2
  <2> QED
    BY <2>2, <2>3, <2>4, <2>6, <2>7, <2>8, <2>9 DEF s2
<1>4. CASE Scheduled(s.q, ev, r) /\ ~(When(s.q, ev, r) < at)
  <2>1. s2 = s
    BY <1>4 DEF LastEventAt
  <2>2. PICK p \in Nat : p = When(s.q, ev, r) /\ At(s.q, ev, r, p)
    BY <1>4, WhenOK
  <2>3. /\ at <= p
        /\ \A p0 \in Nat : At(s.q, ev, r, p0) => p0 <= p
    BY <1>4, <2>2, WhenOK
  <2>4. One(~Scheduled(s.q, ev, r)) = 0 /\ SameScalars(s.k, s.k)
        /\ s.k.outstandingEvents = s.k.outstandingEvents + 0
    BY <1>1, <1>4 DEF One, SameScalars
  <2>5. \A r2 : Untouched(s.q, s.q, r2)
    BY DEF Untouched
  <2> HIDE DEF s2
  <2> QED
    BY <2>1, <2>2, <2>3, <2>4, <2>5 DEF s2
<1> QED
  BY <1>2, <1>3, <1>4

----------------------------------------------------------------------------
(* The parts of a state *)

(* The types and the order of the constants. *)
LEMMA Constants ==
    /\ numRanks \in Nat \ {0}
    /\ tRP \in Nat /\ tRCD \in Nat /\ tRAS \in Nat /\ tRTP \in Nat /\ tWR \in Nat
    /\ tCL \in Nat /\ tBURST \in Nat /\ tRFC \in Nat /\ tREFI \in Nat
    /\ tRP < tREFI /\ tRFC + tRP < tREFI
    /\ bubbleLimit \in Nat /\ bubbleCap \in Nat
    /\ readBufferSize \in Nat /\ writeBufferSize \in Nat
    /\ Slack \subseteq Nat /\ Bubbles \subseteq Nat
<1> QED
  BY RankAssumption

(* The largest bubble is one of them. *)
LEMMA MaxBubbleNat ==
    MaxBubble \in Nat /\ \A x \in Bubbles : x <= MaxBubble
<1> DEFINE f == [x \in Bubbles |-> x]
<1>1. /\ IsFiniteSet(Bubbles) /\ Bubbles # {} /\ Bubbles \subseteq Nat
      /\ f \in [Bubbles -> Int]
  BY RankAssumption
<1>2. {f[x] : x \in Bubbles} = Bubbles
  OBVIOUS
<1>3. /\ \E x \in Bubbles : Max({f[y] : y \in Bubbles}) = f[x]
      /\ \A x \in Bubbles : f[x] <= Max({f[y] : y \in Bubbles})
  <2> HIDE DEF f
  <2> QED
    BY <1>1, MaxOfImage
<1>4. \A x \in Bubbles : f[x] = x
  OBVIOUS
<1> HIDE DEF f
<1> QED
  BY <1>1, <1>2, <1>3, <1>4 DEF MaxBubble

(* The types of the fields of a rank. *)
LEMMA RankTypes ==
    ASSUME NEW k \in RankState
    PROVE  /\ k.refreshDueAt \in Int /\ k.outstandingEvents \in Int
           /\ k.pwrState \in PowerStates /\ k.pwrStateTrans \in PowerStates
           /\ k.pwrStatePostRefresh = "IDLE" /\ ~k.inLowPowerState
           /\ k.banks \in [Banks -> Bank]
           /\ \A b \in Banks :
                 /\ k.banks[b] \in Bank /\ k.banks[b].open \in BOOLEAN
                 /\ k.banks[b].preAt \in Nat /\ k.banks[b].actAt \in Nat
                 /\ k.banks[b].colAt \in Nat
<1>1. k.banks \in [Banks -> Bank]
  BY DEF RankState
<1>2. \A b \in Banks : k.banks[b] \in Bank
  BY <1>1
<1> QED
  BY <1>1, <1>2 DEF RankState, Bank

(* The reads on their way back are finitely many. *)
LEMMA FlyingNat ==
    ASSUME NEW S, NEW resp \in Seq(S), NEW r
    PROVE  /\ IsFiniteSet({i \in DOMAIN resp : resp[i].rank = r})
           /\ Flying(resp, r) \in Nat
           /\ Flying(resp, r) = 0 => \A t : ~Flies(resp, r, t)
           /\ (\A t : ~Flies(resp, r, t)) => Flying(resp, r) = 0
<1> DEFINE F == {i \in DOMAIN resp : resp[i].rank = r}
<1>1. Len(resp) \in Nat /\ DOMAIN resp = 1 .. Len(resp)
  OBVIOUS
<1>2. IsFiniteSet(1 .. Len(resp))
  BY <1>1, FirstN
<1>3. F \subseteq 1 .. Len(resp)
  BY <1>1
<1>4. IsFiniteSet(F) /\ Cardinality(F) \in Nat
  BY <1>2, <1>3, FS_Subset, FS_CardinalityType
<1>5. Cardinality(F) = 0 <=> F = {}
  BY <1>4, FS_EmptySet
<1>6. F = {} <=> \A t : ~Flies(resp, r, t)
  BY DEF Flies
<1> QED
  BY <1>4, <1>5, <1>6 DEF Flying

(* The types of the responses. *)
LEMMA ResponseTypes ==
    ASSUME NEW resp \in Seq(Response)
    PROVE  /\ DOMAIN resp = 1 .. Len(resp) /\ Len(resp) \in Nat
           /\ \A i \in DOMAIN resp : resp[i].rank \in Ranks /\ resp[i].at \in Nat
<1>1. DOMAIN resp = 1 .. Len(resp) /\ Len(resp) \in Nat
  OBVIOUS
<1>2. \A i \in DOMAIN resp : resp[i] \in Response
  BY <1>1
<1> QED
  BY <1>1, <1>2 DEF Response

(* An event can only be first in one queue position. *)
LEMMA FireFacts ==
    ASSUME Ctl, NEW ev, NEW r \in 0 .. numRanks, Fire(ev, r)
    PROVE  /\ At(eventq, ev, r, 0) /\ Scheduled(eventq, ev, r)
           /\ \A r2 \in Ranks : ~(ev = "power" /\ r = r2) =>
                 ~Scheduled(eventq, "power", r2)
           /\ \A r2 \in Ranks : ~(ev = "refresh" /\ r = r2) =>
                 rk[r2].refreshState # "REF_START"
           /\ ev # "refresh" /\ r \in Ranks => rk[r].refreshState # "REF_PD_EXIT"
           /\ QueueOK(Tail(eventq)) /\ ~Scheduled(Tail(eventq), ev, r)
           /\ \A e2, r2, t : At(Tail(eventq), e2, r2, t) <=>
                 At(eventq, e2, r2, t) /\ ~(e2 = ev /\ r2 = r)
           /\ \A e2, r2 : Scheduled(Tail(eventq), e2, r2) <=>
                 Scheduled(eventq, e2, r2) /\ ~(e2 = ev /\ r2 = r)
           /\ \A r2 : r2 # r => Untouched(eventq, Tail(eventq), r2)
<1> DEFINE q == eventq
           q2 == Tail(eventq)
<1>1. QueueOK(q) /\ q # <<>> /\ IsEvent(q[1], ev, r) /\ q[1].at = 0
  BY DEF Ctl, Fire
<1>2. 1 \in DOMAIN q /\ DOMAIN q \subseteq Nat \ {0}
  <2>1. q \in Seq(Event)
    BY <1>1 DEF QueueOK
  <2> QED
    BY <1>1, <2>1
<1>3. At(q, ev, r, 0) /\ Scheduled(q, ev, r)
  BY <1>1, <1>2 DEF At, Scheduled
<1>4. /\ QueueOK(q2) /\ ~Scheduled(q2, ev, r)
      /\ \A e2, r2, t : At(q2, e2, r2, t) <=>
            At(q, e2, r2, t) /\ ~(e2 = ev /\ r2 = r)
      /\ \A r2 : r2 # r => Untouched(q, q2, r2)
  BY <1>1, TailOK
<1>5. \A r2 \in Ranks : RankOK(q, rk[r2], r2, respQueue)
  BY DEF Ctl
<1>6. \A e2, r2 : AtHead(q, e2, r2) => e2 = ev /\ r2 = r
  BY <1>1 DEF AtHead, IsEvent
<1>7. \A r2 \in Ranks : ~(ev = "power" /\ r = r2) => ~Scheduled(q, "power", r2)
  BY <1>5, <1>6 DEF RankOK, PowerOK
<1>8. \A r2 \in Ranks : ~(ev = "refresh" /\ r = r2) => rk[r2].refreshState # "REF_START"
  BY <1>5, <1>6 DEF RankOK, PhaseOK
<1>9. ASSUME ev # "refresh", r \in Ranks, rk[r].refreshState = "REF_PD_EXIT"
      PROVE  FALSE
  <2>1. First(q, "refresh", r)
    BY <1>5, <1>9 DEF RankOK, PhaseOK
  <2>2. PICK i \in DOMAIN q : IsEvent(q[i], "refresh", r) /\ i <= 1
    BY <1>1, <1>2, <2>1 DEF First, IsEvent
  <2>3. i = 1
    BY <1>2, <2>2
  <2> QED
    BY <1>1, <1>9, <2>2, <2>3 DEF IsEvent
<1>10. \A e2, r2 : Scheduled(q2, e2, r2) <=>
          Scheduled(q, e2, r2) /\ ~(e2 = ev /\ r2 = r)
  BY <1>1, <1>4, WhenOK
<1> QED
  BY <1>3, <1>4, <1>7, <1>8, <1>9, <1>10

(* A step of one rank, in one of its events. *)
LEMMA RankStep ==
    ASSUME Ctl, NEW ev, NEW r \in Ranks, Fire(ev, r), NEW s, Become(r, s),
           QueueOK(s.q), RankOK(s.q, s.k, r, respQueue), UNCHANGED ctrl,
           \A r2 : r2 # r /\ r2 # 0 => Untouched(Tail(eventq), s.q, r2),
           nextReqScheduled(eventq) => nextReqScheduled(s.q),
           \A t : At(s.q, "respond", 0, t) <=> At(Tail(eventq), "respond", 0, t),
           \A b \in Banks : s.k.banks[b].colAt = rk[r].banks[b].colAt
    PROVE  Ctl' /\ KeptOthers(r)
<1>1. eventq' = s.q /\ rk' = [rk EXCEPT ![r] = s.k]
  BY DEF Become
<1>2. rk \in [Ranks -> RankState] /\ s.k \in RankState
  BY DEF Ctl, RankOK
<1>3. rk' \in [Ranks -> RankState]
  BY <1>1, <1>2
<1>4. Ranks \subseteq 0 .. numRanks /\ 0 \notin Ranks
  BY Constants DEF Ranks
<1>5. QueueOK(eventq)
  BY DEF Ctl
<1>6. /\ QueueOK(Tail(eventq))
      /\ \A r2 \in Ranks : r2 # r =>
            /\ ~Scheduled(eventq, "power", r2) /\ rk[r2].refreshState # "REF_START"
            /\ Untouched(eventq, Tail(eventq), r2)
      /\ \A t : At(Tail(eventq), "respond", 0, t) <=> At(eventq, "respond", 0, t)
  <2>1. r \in 0 .. numRanks /\ r # 0
    BY <1>4
  <2> QED
    BY <2>1, FireFacts
<1>7. respQueue \in Seq(Response)
  BY DEF Ctl, Responses
<1>8. ASSUME NEW r2 \in Ranks PROVE RankOK(eventq', rk'[r2], r2, respQueue')
  <2>1. respQueue' = respQueue
    BY DEF ctrl
  <2>2. CASE r2 = r
    BY <1>1, <1>2, <2>1, <2>2
  <2>3. CASE r2 # r
    <3>1. rk'[r2] = rk[r2] /\ RankOK(eventq, rk[r2], r2, respQueue)
      BY <1>1, <1>2, <2>3 DEF Ctl
    <3>2. Untouched(eventq, s.q, r2)
      BY <1>4, <1>6, <2>3 DEF Untouched
    <3>3. SameRank(rk[r2], rk[r2])
      BY <3>1, RankTypes DEF SameRank, SameScalars, RankOK
    <3>4. SameReads(rk[r2], rk[r2], respQueue, respQueue, r2)
      <4>1. Flying(respQueue, r2) \in Nat
        BY <1>7, FlyingNat
      <4>2. rk[r2].outstandingEvents \in Int
        BY <3>1, RankTypes DEF RankOK
      <4> QED
        BY <4>1, <4>2 DEF SameReads
    <3>5. rk[r2].refreshState = "REF_DRAIN" => Scheduled(s.q, "nextReq", 0)
      BY <3>1 DEF RankOK, PhaseOK, nextReqScheduled
    <3>6. RankOK(s.q, rk[r2], r2, respQueue)
      BY <1>5, <1>6, <2>3, <3>1, <3>2, <3>3, <3>4, <3>5, Frame
    <3> QED
      BY <1>1, <2>1, <3>1, <3>6
  <2> QED
    BY <2>2, <2>3
<1>9. CtrlOK'
  BY DEF Ctl, CtrlOK, ctrl
<1>10. Responses(eventq', respQueue', rk')
  <2>1. Scheduled(s.q, "respond", 0) <=> Scheduled(eventq, "respond", 0)
    BY <1>5, <1>6, WhenOK
  <2>2. respQueue' = respQueue
    BY DEF ctrl
  <2>3. \A r2 \in Ranks, b \in Banks : rk'[r2].banks[b].colAt = rk[r2].banks[b].colAt
    BY <1>1, <1>2
  <2>4. Responses(eventq, respQueue, rk)
    BY DEF Ctl
  <2> QED
    BY <1>1, <1>6, <2>1, <2>2, <2>3, <2>4 DEF Responses
<1>11. KeptOthers(r)
  <2> SUFFICES ASSUME NEW r2 \in Ranks, r2 # r
               PROVE  KeptRank(eventq, rk[r2], eventq', rk'[r2], r2)
    BY DEF KeptOthers
  <2>1. rk'[r2] = rk[r2]
    BY <1>1, <1>2
  <2>2. \A ev2, t : At(eventq', ev2, r2, t) <=> At(eventq, ev2, r2, t)
    BY <1>1, <1>4, <1>6 DEF Untouched
  <2> QED
    BY <2>1, <2>2 DEF KeptRank
<1> QED
  BY <1>1, <1>3, <1>8, <1>9, <1>10, <1>11 DEF Ctl

----------------------------------------------------------------------------
(* Activates, precharges and writes that are done *)

(* What is covered before an event of the rank fires is covered after it. *)
LEMMA CoveredAfter ==
    ASSUME Ctl, NEW ev \in {"activate", "precharge", "writeDone"}, NEW r \in Ranks,
           Fire(ev, r), NEW t \in Nat, Covered(eventq, rk[r], r, t)
    PROVE  Covered(Tail(eventq), rk[r], r, t)
<1>1. QueueOK(eventq) /\ r \in 0 .. numRanks
  BY Constants DEF Ctl, Ranks
<1>2. /\ At(eventq, ev, r, 0)
      /\ \A e2, r2, u : At(Tail(eventq), e2, r2, u) <=>
            At(eventq, e2, r2, u) /\ ~(e2 = ev /\ r2 = r)
  BY <1>1, FireFacts
<1>3. ASSUME NEW p \in Nat, At(eventq, "precharge", r, p), p > t
      PROVE  At(Tail(eventq), "precharge", r, p)
  <2>1. ev # "precharge"
    BY <1>1, <1>2, <1>3, WhenOK
  <2> QED
    BY <1>2, <1>3, <2>1
<1> QED
  BY <1>3 DEF Covered

(* An event of a burst fires, and may change the power state. *)
LEMMA EventDone ==
    ASSUME Ctl, NEW ev \in {"activate", "precharge", "writeDone"}, NEW r \in Ranks,
           Fire(ev, r), NEW s, Become(r, s), UNCHANGED ctrl,
           s.k \in RankState, NEW power \in BOOLEAN,
           s.q = IF power THEN Schedule(Tail(eventq), "power", r, 0)
                          ELSE Tail(eventq),
           s.k.refreshState = rk[r].refreshState,
           s.k.refreshDueAt = rk[r].refreshDueAt,
           s.k.pwrState = rk[r].pwrState, s.k.banks = rk[r].banks,
           s.k.outstandingEvents = rk[r].outstandingEvents - One(ev # "activate"),
           power => \/ /\ s.k.pwrStateTrans = "ACT"
                       /\ Busy(Tail(eventq), rk[r], r) /\ rk[r].pwrState # "ACT"
                    \/ /\ s.k.pwrStateTrans = "IDLE"
                       /\ Quiet(Tail(eventq), rk[r], r, respQueue),
           ~power => Busy(Tail(eventq), rk[r], r)
    PROVE  Ctl' /\ Kept
<1> DEFINE q == eventq
           q1 == Tail(eventq)
           k  == rk[r]
<1>1. QueueOK(q) /\ RankOK(q, k, r, respQueue) /\ r \in 0 .. numRanks /\ r # 0
  BY Constants DEF Ctl, Ranks
<1>2. /\ Scheduled(q, ev, r)
      /\ ~Scheduled(q, "power", r)
      /\ k.refreshState # "REF_START" /\ k.refreshState # "REF_PD_EXIT"
      /\ QueueOK(q1) /\ ~Scheduled(q1, ev, r)
      /\ \A e2, r2, t : At(q1, e2, r2, t) <=>
            At(q, e2, r2, t) /\ ~(e2 = ev /\ r2 = r)
      /\ \A e2, r2 : Scheduled(q1, e2, r2) <=>
            Scheduled(q, e2, r2) /\ ~(e2 = ev /\ r2 = r)
  BY <1>1, FireFacts
<1>3. k.refreshState \in {"REF_IDLE", "REF_DRAIN", "REF_PRE"}
  BY <1>1, <1>2 DEF RankOK, PhaseOK, Quiet, RankState
<1>4. /\ QueueOK(s.q)
      /\ \A e2, r2, t : e2 # "power" => (At(s.q, e2, r2, t) <=> At(q1, e2, r2, t))
      /\ \A r2 : r2 # r => Untouched(q1, s.q, r2)
      /\ power => AtHead(s.q, "power", r)
      /\ ~power => ~Scheduled(s.q, "power", r)
  <2>1. CASE power
    <3>1. ~Scheduled(q1, "power", r) /\ "power" \in EventKinds /\ 0 \in Nat
      BY <1>2 DEF EventKinds
    <3> QED
      BY <1>1, <1>2, <2>1, <3>1, ScheduleOK
  <2>2. CASE ~power
    BY <1>2, <2>2 DEF Untouched
  <2> QED
    BY <2>1, <2>2
<1>5. \A e2, r2 : e2 # "power" => (Scheduled(s.q, e2, r2) <=> Scheduled(q1, e2, r2))
  BY <1>2, <1>4, WhenOK
<1>6. power <=> Scheduled(s.q, "power", r)
  <2>1. AtHead(s.q, "power", r) => Scheduled(s.q, "power", r)
    <3>1. s.q \in Seq(Event)
      BY <1>4 DEF QueueOK
    <3> QED
      BY <3>1 DEF AtHead, Scheduled
  <2> QED
    BY <1>4, <2>1
<1>7. /\ Closed(s.k) <=> Closed(k)
      /\ Busy(s.q, s.k, r) <=> Busy(q1, k, r)
      /\ Quiet(s.q, s.k, r, respQueue) <=> Quiet(q1, k, r, respQueue)
  <2>1. \A e2 \in {"precharge", "activate", "writeDone"} : e2 # "power"
    OBVIOUS
  <2> QED
    BY <1>5, <2>1 DEF Closed, Busy, Quiet
<1>8. AllCovered(s.q, s.k, r, respQueue)
  <2> SUFFICES ASSUME NEW t \in Nat,
                      \/ At(s.q, "activate", r, t) \/ At(s.q, "writeDone", r, t)
                      \/ Flies(respQueue, r, t)
               PROVE  Covered(s.q, s.k, r, t)
    BY DEF AllCovered
  <2>1. Covered(q, k, r, t)
    BY <1>1, <1>2, <1>4 DEF RankOK, AllCovered
  <2>2. Covered(q1, k, r, t)
    BY <2>1, CoveredAfter
  <2> QED
    BY <1>4, <2>2 DEF Covered
<1>9. PowerOK(s.q, s.k, r, respQueue)
  <2>1. PowerOK(q, k, r, respQueue)
    BY <1>1 DEF RankOK
  <2>2. k.pwrState # "REF" /\ s.k.refreshState \in {"REF_IDLE", "REF_DRAIN", "REF_PRE"}
    BY <1>3, <2>1 DEF PowerOK
  <2>3. CASE power
    BY <1>4, <1>6, <1>7, <2>2, <2>3 DEF PowerOK
  <2>4. CASE ~power
    BY <1>4, <1>6, <1>7, <2>2, <2>4 DEF PowerOK
  <2> QED
    BY <2>3, <2>4
<1>10. PhaseOK(s.q, s.k, r, respQueue)
  <2>1. PhaseOK(q, k, r, respQueue)
    BY <1>1 DEF RankOK
  <2>2. CASE k.refreshState = "REF_IDLE"
    BY <1>2, <1>5, <2>1, <2>2 DEF PhaseOK
  <2>3. CASE k.refreshState = "REF_DRAIN"
    BY <1>1, <1>2, <1>5, <2>1, <2>3 DEF PhaseOK
  <2>4. CASE k.refreshState = "REF_PRE"
    <3>1. Scheduled(s.q, "precharge", r) \/ Scheduled(s.q, "power", r)
      BY <1>6, <1>7, <2>1, <2>4 DEF PhaseOK, Busy
    <3> QED
      BY <1>2, <1>5, <1>7, <2>1, <2>4, <3>1 DEF PhaseOK
  <2> QED
    BY <1>3, <2>2, <2>3, <2>4
<1>11. Counted(s.q, s.k, r, respQueue)
  <2>1. Counted(q, k, r, respQueue) /\ k \in RankState
    BY <1>1 DEF RankOK
  <2>2. One(k.refreshState # "REF_IDLE") \in Nat
    BY DEF One
  <2>3. Flying(respQueue, r) \in Nat /\ k.outstandingEvents \in Int
    BY <2>1, FlyingNat, RankTypes DEF Ctl, Responses
  <2>4. CASE ev = "activate"
    <3>1. /\ One(Scheduled(s.q, "precharge", r)) = One(Scheduled(q, "precharge", r))
          /\ One(Scheduled(s.q, "writeDone", r)) = One(Scheduled(q, "writeDone", r))
          /\ One(ev # "activate") = 0
      BY <1>2, <1>5, <2>4 DEF One
    <3> QED
      BY <2>1, <2>3, <3>1 DEF Counted
  <2>5. CASE ev = "precharge"
    <3>1. /\ One(Scheduled(s.q, "precharge", r)) = 0 /\ One(Scheduled(q, "precharge", r)) = 1
          /\ One(Scheduled(s.q, "writeDone", r)) = One(Scheduled(q, "writeDone", r))
          /\ One(ev # "activate") = 1 /\ One(Scheduled(q, "writeDone", r)) \in Nat
      BY <1>2, <1>5, <2>5 DEF One
    <3> QED
      BY <2>1, <2>2, <2>3, <3>1 DEF Counted
  <2>6. CASE ev = "writeDone"
    <3>1. /\ One(Scheduled(s.q, "writeDone", r)) = 0 /\ One(Scheduled(q, "writeDone", r)) = 1
          /\ One(Scheduled(s.q, "precharge", r)) = One(Scheduled(q, "precharge", r))
          /\ One(ev # "activate") = 1 /\ One(Scheduled(q, "precharge", r)) \in Nat
      BY <1>2, <1>5, <2>6 DEF One
    <3> QED
      BY <2>1, <2>2, <2>3, <3>1 DEF Counted
  <2> QED
    BY <2>4, <2>5, <2>6
<1>12. RankOK(s.q, s.k, r, respQueue)
  BY <1>1, <1>2, <1>5, <1>8, <1>9, <1>10, <1>11 DEF RankOK
<1>13. nextReqScheduled(q) => nextReqScheduled(s.q)
  BY <1>1, <1>2, <1>5 DEF nextReqScheduled
<1>14. Ctl' /\ KeptOthers(r)
  BY <1>4, <1>12, <1>13, RankStep
<1>15. eventq' = s.q /\ rk'[r] = s.k /\ nextBurstAt' = nextBurstAt
  BY DEF Become, Ctl, ctrl
<1>16. KeptRank(eventq, rk[r], eventq', rk'[r], r)
  BY <1>2, <1>3, <1>4, <1>15 DEF KeptRank
<1>17. \A a : At(eventq', "nextReq", 0, a) => At(eventq, "nextReq", 0, a)
  BY <1>2, <1>4, <1>15
<1> QED
  BY <1>13, <1>14, <1>15, <1>16, <1>17 DEF Kept, KeptOthers

(* numBanksActive counts the open banks. *)
LEMMA ClosedCount ==
    ASSUME NEW k
    PROVE  numBanksActive(k) = 0 <=> Closed(k)
<1> DEFINE O == {b \in Banks : k.banks[b].open}
<1>1. IsFiniteSet(Banks) /\ O \subseteq Banks
  BY RankAssumption
<1>2. IsFiniteSet(O)
  BY <1>1, FS_Subset
<1>3. Cardinality(O) = 0 <=> O = {}
  BY <1>2, FS_EmptySet
<1> QED
  BY <1>3 DEF Closed, numBanksActive

(* The parts of the step that schedules a power event. *)
LEMMA PowerEventFields ==
    ASSUME NEW s0 \in StepType, NEW r, NEW state \in PowerStates, NEW at \in Nat,
           NEW s, s = schedulePowerEvent(s0, r, state, at)
    PROVE  /\ s = [q |-> s.q, k |-> s.k]
           /\ s.q = Schedule(s0.q, "power", r, at) /\ s.k \in RankState
           /\ s.k.refreshState = s0.k.refreshState
           /\ s.k.refreshDueAt = s0.k.refreshDueAt
           /\ s.k.pwrState = s0.k.pwrState /\ s.k.banks = s0.k.banks
           /\ s.k.pwrStateTrans = state
           /\ s.k.outstandingEvents = s0.k.outstandingEvents
<1> DEFINE k  == s0.k
           k2 == [k EXCEPT !.pwrStateTrans = state]
           q2 == Schedule(s0.q, "power", r, at)
<1>1. s.q = q2 /\ s.k = k2 /\ s = [q |-> q2, k |-> k2]
  <2>1. s0.q \in Seq(Event) /\ s0.k \in RankState
    BY DEF StepType
  <2> QED
    BY <2>1 DEF schedulePowerEvent, StepType
<1>2. /\ k2 \in RankState
      /\ k2.refreshState = k.refreshState
      /\ k2.refreshDueAt = k.refreshDueAt
      /\ k2.pwrState = k.pwrState /\ k2.banks = k.banks
      /\ k2.pwrStateTrans = state
      /\ k2.outstandingEvents = k.outstandingEvents
  <2>1. k \in RankState
    BY DEF StepType
  <2> HIDE DEF k
  <2> QED
    BY <2>1 DEF RankState
<1> HIDE DEF k2
<1> QED
  BY <1>1, <1>2

(* The parts of the step that takes an event off the count. *)
LEMMA UncountFields ==
    ASSUME NEW q, NEW k \in RankState
    PROVE  LET k2 == [k EXCEPT !.outstandingEvents = @ - 1]
           IN  /\ [[q |-> q, k |-> k] EXCEPT !.k.outstandingEvents = @ - 1]
                     = [q |-> q, k |-> k2]
               /\ k2 \in RankState
               /\ k2.refreshState = k.refreshState
               /\ k2.refreshDueAt = k.refreshDueAt
               /\ k2.pwrState = k.pwrState /\ k2.banks = k.banks
               /\ k2.pwrStateTrans = k.pwrStateTrans
               /\ k2.outstandingEvents = k.outstandingEvents - 1
<1> DEFINE n == k.outstandingEvents - 1
           k2 == [k EXCEPT !.outstandingEvents = n]
<1>1. n \in Int
  BY RankTypes
<1> HIDE DEF n
<1>2. /\ k2 \in RankState
      /\ k2.refreshState = k.refreshState
      /\ k2.refreshDueAt = k.refreshDueAt
      /\ k2.pwrState = k.pwrState /\ k2.banks = k.banks
      /\ k2.pwrStateTrans = k.pwrStateTrans
      /\ k2.outstandingEvents = n
  BY <1>1 DEF RankState
<1>3. [[q |-> q, k |-> k] EXCEPT !.k.outstandingEvents = @ - 1] = [q |-> q, k |-> k2]
  BY DEF n
<1> QED
  BY <1>2, <1>3 DEF n

(* The activate event schedules the rank's change to its active state. *)
LEMMA ActivateCtl ==
    ASSUME Ctl, NEW r \in Ranks, processActivateEvent(r)
    PROVE  Ctl' /\ Kept
<1> DEFINE q1 == Tail(eventq)
           k  == rk[r]
<1>1. Fire("activate", r) /\ UNCHANGED ctrl
  BY DEF processActivateEvent
<1>2. RankOK(eventq, k, r, respQueue) /\ k \in RankState /\ r \in 0 .. numRanks
  BY Constants DEF Ctl, Ranks, RankOK
<1>3. At(eventq, "activate", r, 0)
  BY <1>1, <1>2, FireFacts
<1>4. QueueOK(q1) /\ Covered(q1, k, r, 0)
  <2>1. Covered(eventq, k, r, 0)
    BY <1>2, <1>3 DEF RankOK, AllCovered
  <2> QED
    BY <1>1, <1>2, <2>1, FireFacts, CoveredAfter
<1>5. Busy(q1, k, r)
  BY <1>4, WhenOK DEF Covered, Busy, Closed
<1>6. One("activate" # "activate") = 0 /\ k.outstandingEvents - 0 = k.outstandingEvents
  BY <1>2, RankTypes DEF One
<1>7. CASE k.pwrState = "ACT"
  <2> DEFINE s == [q |-> q1, k |-> k]
  <2>1. Become(r, s)
    BY <1>7 DEF processActivateEvent, Step
  <2>2. s.q = q1 /\ s.k = k
    OBVIOUS
  <2> HIDE DEF s
  <2> QED
    BY <1>1, <1>2, <1>5, <1>6, <2>1, <2>2, EventDone
<1>8. CASE k.pwrState # "ACT"
  <2> DEFINE s0 == [q |-> q1, k |-> k]
             s == schedulePowerEvent(s0, r, "ACT", 0)
  <2>1. Become(r, s)
    BY <1>8 DEF processActivateEvent, Step
  <2>3. s0 \in StepType /\ s0.q = q1 /\ s0.k = k
    BY <1>2, <1>4 DEF StepType, QueueOK
  <2>4. s = schedulePowerEvent(s0, r, "ACT", 0)
    OBVIOUS
  <2> HIDE DEF s0, s, q1
  <2>2. /\ s.q = Schedule(q1, "power", r, 0) /\ s.k \in RankState
        /\ s.k.refreshState = k.refreshState
        /\ s.k.refreshDueAt = k.refreshDueAt
        /\ s.k.pwrState = k.pwrState /\ s.k.banks = k.banks
        /\ s.k.pwrStateTrans = "ACT"
        /\ s.k.outstandingEvents = k.outstandingEvents
    <3>1. "ACT" \in PowerStates
      BY DEF PowerStates
    <3> QED
      BY <2>3, <2>4, <3>1, PowerEventFields
  <2> HIDE DEF s
  <2> QED
    BY <1>1, <1>2, <1>5, <1>6, <1>8, <2>1, <2>2, EventDone DEF q1
<1> QED
  BY <1>7, <1>8

(* A write that is done is counted off. *)
LEMMA WriteDoneCtl ==
    ASSUME Ctl, NEW r \in Ranks, processWriteDoneEvent(r)
    PROVE  Ctl' /\ Kept
<1> DEFINE q1 == Tail(eventq)
           k  == rk[r]
           k2 == [k EXCEPT !.outstandingEvents = @ - 1]
           s  == [q |-> q1, k |-> k2]
<1>1. Fire("writeDone", r) /\ UNCHANGED ctrl
  BY DEF processWriteDoneEvent
<1>2. RankOK(eventq, k, r, respQueue) /\ k \in RankState /\ r \in 0 .. numRanks
  BY Constants DEF Ctl, Ranks, RankOK
<1>3. At(eventq, "writeDone", r, 0)
  BY <1>1, <1>2, FireFacts
<1>4. QueueOK(q1) /\ Covered(q1, k, r, 0)
  <2>1. Covered(eventq, k, r, 0)
    BY <1>2, <1>3 DEF RankOK, AllCovered
  <2> QED
    BY <1>1, <1>2, <2>1, FireFacts, CoveredAfter
<1>5. Busy(q1, k, r)
  BY <1>4, WhenOK DEF Covered, Busy, Closed

<1>7. /\ [[q |-> q1, k |-> k] EXCEPT !.k.outstandingEvents = @ - 1]
                     = [q |-> q1, k |-> k2]
      /\ k2 \in RankState
      /\ k2.refreshState = k.refreshState
      /\ k2.refreshDueAt = k.refreshDueAt
      /\ k2.pwrState = k.pwrState /\ k2.banks = k.banks
      /\ k2.pwrStateTrans = k.pwrStateTrans
      /\ k2.outstandingEvents = k.outstandingEvents - 1
  BY <1>2, UncountFields
<1>8. Become(r, s)
  BY <1>7 DEF processWriteDoneEvent, Step
<1>9. s.q = q1 /\ s.k = k2
  OBVIOUS
<1>10. k2.outstandingEvents = k.outstandingEvents - One("writeDone" # "activate")
  BY <1>7 DEF One
<1> HIDE DEF s, k2
<1> QED
  BY <1>1, <1>2, <1>5, <1>7, <1>8, <1>9, <1>10, EventDone

(* A precharge that is done lets the rank go idle or start its refresh,    *)
(* when nothing else of it is under way.                                   *)
LEMMA PrechargeCtl ==
    ASSUME Ctl, ~enableDRAMPowerdown, NEW r \in Ranks, processPrechargeEvent(r)
    PROVE  Ctl' /\ Kept
<1> DEFINE q1 == Tail(eventq)
           k  == rk[r]
           k2 == [k EXCEPT !.outstandingEvents = @ - 1]
           s0 == [q |-> q1, k |-> k2]
<1>1. Fire("precharge", r) /\ UNCHANGED ctrl
  BY DEF processPrechargeEvent
<1>2. RankOK(eventq, k, r, respQueue) /\ k \in RankState /\ r \in 0 .. numRanks
      /\ QueueOK(eventq)
  BY Constants DEF Ctl, Ranks, RankOK
<1>3. /\ At(eventq, "precharge", r, 0) /\ QueueOK(q1)
      /\ ~Scheduled(q1, "precharge", r)
      /\ \A e2, r2, t : At(q1, e2, r2, t) <=>
            At(eventq, e2, r2, t) /\ ~(e2 = "precharge" /\ r2 = r)
  BY <1>1, <1>2, FireFacts
<1>5. /\ [[q |-> q1, k |-> k] EXCEPT !.k.outstandingEvents = @ - 1] = s0
      /\ k2 \in RankState
      /\ k2.refreshState = k.refreshState
      /\ k2.refreshDueAt = k.refreshDueAt
      /\ k2.pwrState = k.pwrState /\ k2.banks = k.banks
      /\ k2.pwrStateTrans = k.pwrStateTrans
      /\ k2.outstandingEvents = k.outstandingEvents - 1
  BY <1>2, UncountFields
<1>6. s0.q = q1 /\ s0.k = k2
  OBVIOUS
<1>7. Become(r, IF numBanksActive(k2) # 0 THEN s0
                ELSE schedulePowerEvent(s0, r, "IDLE", 0))
  BY <1>5, <1>6 DEF processPrechargeEvent, Step
<1>8. Closed(k2) <=> Closed(k)
  BY <1>5 DEF Closed
<1>4. k2.outstandingEvents = k.outstandingEvents - One("precharge" # "activate")
  BY <1>5 DEF One
<1> HIDE DEF k2
<1>9. CASE ~Closed(k)
  <2>1. Become(r, s0) /\ Busy(q1, k, r)
    BY <1>7, <1>8, <1>9, ClosedCount DEF Busy
  <2> HIDE DEF s0
  <2> QED
    BY <1>1, <1>2, <1>4, <1>5, <1>6, <2>1, EventDone
<1>10. CASE Closed(k)
  <2> DEFINE s == schedulePowerEvent(s0, r, "IDLE", 0)
  <2>1. Become(r, s)
    BY <1>7, <1>8, <1>10, ClosedCount
  <2>3. s0 \in StepType
    BY <1>3, <1>5 DEF StepType, QueueOK
  <2>7. s = schedulePowerEvent(s0, r, "IDLE", 0)
    OBVIOUS
  <2> HIDE DEF s0, s, q1
  <2>2. /\ s.q = Schedule(q1, "power", r, 0) /\ s.k \in RankState
        /\ s.k.refreshState = k2.refreshState
        /\ s.k.refreshDueAt = k2.refreshDueAt
        /\ s.k.pwrState = k2.pwrState /\ s.k.banks = k2.banks
        /\ s.k.pwrStateTrans = "IDLE"
        /\ s.k.outstandingEvents = k2.outstandingEvents
    <3>1. "IDLE" \in PowerStates
      BY DEF PowerStates
    <3> QED
      BY <1>6, <2>3, <2>7, <3>1, PowerEventFields
  <2>6. \A t \in Nat : ~Covered(eventq, k, r, t)
    <3>1. \A p \in Nat : At(eventq, "precharge", r, p) => p = 0
      BY <1>2, <1>3, WhenOK
    <3> QED
      BY <1>10, <3>1 DEF Covered, Closed
  <2>4. Quiet(q1, k, r, respQueue)
    <3>1. \A t \in Nat : /\ ~At(eventq, "activate", r, t) /\ ~Flies(respQueue, r, t)
                         /\ ~At(eventq, "writeDone", r, t)
      BY <1>2, <2>6 DEF RankOK, AllCovered
    <3>2. \A t : ~Flies(respQueue, r, t)
      <4>1. respQueue \in Seq(Response)
        BY DEF Ctl, Responses
      <4>2. \A i \in DOMAIN respQueue : respQueue[i].at \in Nat
        BY <4>1, ResponseTypes
      <4> QED
        BY <3>1, <4>2 DEF Flies
    <3>3. ~Scheduled(q1, "activate", r) /\ ~Scheduled(q1, "writeDone", r)
      BY <1>2, <1>3, <3>1, WhenOK
    <3> QED
      BY <1>3, <1>10, <3>2, <3>3 DEF Quiet
  <2> HIDE DEF s
  <2>5. /\ s.k.refreshState = k.refreshState
        /\ s.k.refreshDueAt = k.refreshDueAt
        /\ s.k.pwrState = k.pwrState /\ s.k.banks = k.banks
        /\ s.k.outstandingEvents = k.outstandingEvents - One("precharge" # "activate")
    BY <1>4, <1>5, <2>2
  <2> QED
    BY <1>1, <2>1, <2>2, <2>4, <2>5, EventDone DEF q1
<1> QED
  BY <1>9, <1>10

----------------------------------------------------------------------------
(* The refresh *)

(* The rank may start to precharge for its refresh. *)
MayPrecharge(s, r, resp) ==
    /\ s \in StepType /\ QueueOK(s.q) /\ resp \in Seq(Response)
    /\ s.k.refreshState = "REF_PRE" /\ s.k.pwrState # "REF"
    /\ \A ev \in {"refresh", "power", "wakeUp"} : ~Scheduled(s.q, ev, r)
    /\ AllCovered(s.q, s.k, r, resp)
    /\ s.k.pwrState = "ACT" => Busy(s.q, s.k, r)
    /\ Counted(s.q, s.k, r, resp)

(* What PrechargeAll leaves of the rank and its precharges. *)
Precharging(s, s2, r) ==
    /\ \A r2 : r2 # r => Untouched(s.q, s2.q, r2)
    /\ s2.k.refreshState = "REF_PRE" /\ s2.k.refreshDueAt = s.k.refreshDueAt
    /\ \A b \in Banks :
          /\ s2.k.banks[b].colAt = s.k.banks[b].colAt
          /\ \E c \in Banks : s2.k.banks[b].preAt = s.k.banks[c].preAt
    /\ \A p \in Nat : At(s2.q, "precharge", r, p) =>
          \/ At(s.q, "precharge", r, p)
          \/ \E c \in Banks : p = s.k.banks[c].preAt + tRP

(* The precharge before a refresh closes the open banks with one event,    *)
(* which covers all that is under way.                                     *)
LEMMA PrechargeOpenOK ==
    ASSUME NEW s, NEW r \in Ranks, NEW resp, MayPrecharge(s, r, resp), ~Closed(s.k)
    PROVE  LET s2 == PrechargeAll(s, r)
           IN  QueueOK(s2.q) /\ RankOK(s2.q, s2.k, r, resp) /\ Precharging(s, s2, r)
<1> DEFINE pre_at == Max({s.k.banks[b].preAt : b \in Banks})
           closed == [b \in Banks |->
                        [s.k.banks[b] EXCEPT !.open = FALSE, !.preAt = pre_at,
                                             !.actAt = Later(@, pre_at + tRP)]]
           s1 == [s EXCEPT !.k.banks = closed]
           s2 == LastEventAt(s1, "precharge", r, pre_at + tRP)
<1>1. PrechargeAll(s, r) = s2
  BY ClosedCount DEF PrechargeAll, PrechargeEventAt, LastEventAt
<1>2. /\ s \in StepType /\ s.k \in RankState /\ s.q \in Seq(Event) /\ QueueOK(s.q)
      /\ \A b \in Banks : /\ s.k.banks[b] \in Bank /\ s.k.banks[b].preAt \in Nat
                          /\ s.k.banks[b].actAt \in Nat /\ s.k.banks[b].colAt \in Nat
  BY RankTypes DEF MayPrecharge, StepType
<1>3. /\ \E b \in Banks : pre_at = s.k.banks[b].preAt
      /\ \A b \in Banks : s.k.banks[b].preAt <= pre_at
  <2> DEFINE f == [b \in Banks |-> s.k.banks[b].preAt]
  <2>1. f \in [Banks -> Int] /\ IsFiniteSet(Banks) /\ Banks # {}
    <3>1. \A b \in Banks : s.k.banks[b].preAt \in Int
      BY <1>2
    <3>2. f \in [Banks -> Int]
      BY <3>1, Zenon
    <3> QED
      BY <3>2, RankAssumption
  <2>2. {f[b] : b \in Banks} = {s.k.banks[b].preAt : b \in Banks}
    OBVIOUS
  <2>3. \A b \in Banks : f[b] = s.k.banks[b].preAt
    OBVIOUS
  <2> HIDE DEF f
  <2>4. /\ \E x \in Banks : Max({f[y] : y \in Banks}) = f[x]
        /\ \A x \in Banks : f[x] <= Max({f[y] : y \in Banks})
    BY <2>1, MaxOfImage
  <2> QED
    BY <2>2, <2>3, <2>4
<1>4. pre_at \in Nat /\ tRP \in Nat
  BY <1>2, <1>3, Constants, SMTT(30)
<1> HIDE DEF pre_at
<1>5. /\ closed \in [Banks -> Bank]
      /\ \A b \in Banks : /\ ~closed[b].open /\ closed[b].preAt = pre_at
                          /\ closed[b].colAt = s.k.banks[b].colAt
  <2>1. ASSUME NEW b \in Banks
        PROVE  LET c == [s.k.banks[b] EXCEPT !.open = FALSE, !.preAt = pre_at,
                                             !.actAt = Later(@, pre_at + tRP)]
               IN  /\ c \in Bank /\ ~c.open /\ c.preAt = pre_at
                   /\ c.colAt = s.k.banks[b].colAt
    <3> DEFINE x == s.k.banks[b]
               a == Later(x.actAt, pre_at + tRP)
    <3>1. x \in Bank /\ a \in Nat
      BY <1>2, <1>4 DEF Later
    <3> HIDE DEF x, a
    <3>2. LET c == [x EXCEPT !.open = FALSE, !.preAt = pre_at, !.actAt = a]
          IN  /\ c \in Bank /\ ~c.open /\ c.preAt = pre_at
              /\ c.colAt = x.colAt
      BY <1>4, <3>1 DEF Bank
    <3> QED
      BY <3>2, Zenon DEF x, a
  <2>2. \A b \in Banks : closed[b] = [s.k.banks[b] EXCEPT !.open = FALSE, !.preAt = pre_at,
                                             !.actAt = Later(@, pre_at + tRP)]
    OBVIOUS
  <2>3. \A b \in Banks : /\ closed[b] \in Bank
                         /\ ~closed[b].open /\ closed[b].preAt = pre_at
                         /\ closed[b].colAt = s.k.banks[b].colAt
    BY <2>1, <2>2, Zenon
  <2>4. closed \in [Banks -> Bank]
    <3>1. \A b \in Banks : [s.k.banks[b] EXCEPT !.open = FALSE, !.preAt = pre_at,
                                         !.actAt = Later(@, pre_at + tRP)] \in Bank
      BY <2>1, Zenon
    <3> QED
      BY <3>1, Zenon
  <2> QED
    BY <2>3, <2>4
<1> HIDE DEF closed
<1>6. /\ s1 \in StepType /\ s1.q = s.q /\ s1.k.banks = closed
      /\ SameScalars(s.k, s1.k) /\ s1.k.outstandingEvents = s.k.outstandingEvents
  <2> DEFINE k1 == [s.k EXCEPT !.banks = closed]
  <2>1. /\ k1 \in RankState /\ k1.banks = closed
        /\ SameScalars(s.k, k1) /\ k1.outstandingEvents = s.k.outstandingEvents
    BY <1>2, <1>5 DEF RankState, SameScalars
  <2>2. s1 = [q |-> s.q, k |-> k1]
    BY <1>2 DEF StepType
  <2> HIDE DEF k1, s1
  <2> QED
    BY <1>2, <2>1, <2>2 DEF StepType
<1> HIDE DEF s1
<1>7. pre_at + tRP \in Nat /\ "precharge" \in EventKinds /\ r \in 0 .. numRanks
  BY <1>4, Constants DEF EventKinds, Ranks
<1> DEFINE at == pre_at + tRP
<1>8. at \in Nat /\ s2 = LastEventAt(s1, "precharge", r, at)
  BY <1>7
<1> HIDE DEF at
<1>9. /\ s2 \in StepType /\ QueueOK(s2.q)
      /\ \E p \in Nat :
            /\ at <= p /\ At(s2.q, "precharge", r, p)
            /\ p = at \/ At(s1.q, "precharge", r, p)
            /\ \A p0 \in Nat : At(s1.q, "precharge", r, p0) => p0 <= p
      /\ \A e2, r2, t : e2 # "precharge" => (At(s2.q, e2, r2, t) <=> At(s1.q, e2, r2, t))
      /\ \A r2 : r2 # r => Untouched(s1.q, s2.q, r2)
      /\ SameScalars(s1.k, s2.k) /\ s2.k.banks = s1.k.banks
      /\ s2.k.outstandingEvents =
            s1.k.outstandingEvents + One(~Scheduled(s1.q, "precharge", r))
  BY <1>2, <1>6, <1>7, <1>8, LastEventOK
<1> HIDE DEF s2
<1>10. PICK p \in Nat :
            /\ at <= p /\ At(s2.q, "precharge", r, p)
            /\ p = at \/ At(s.q, "precharge", r, p)
            /\ \A p0 \in Nat : At(s.q, "precharge", r, p0) => p0 <= p
  BY <1>6, <1>9
<1>11. /\ \A e2, r2 : e2 # "precharge" => (Scheduled(s2.q, e2, r2) <=> Scheduled(s.q, e2, r2))
       /\ Scheduled(s2.q, "precharge", r)
  BY <1>2, <1>6, <1>9, <1>10, WhenOK
<1>12. SameScalars(s.k, s2.k) /\ s2.k.refreshState = "REF_PRE" /\ s2.k \in RankState
  BY <1>6, <1>9 DEF SameScalars, MayPrecharge, StepType
<1>13. Closed(s2.k) /\ Busy(s2.q, s2.k, r)
  BY <1>5, <1>6, <1>9, <1>11 DEF Closed, Busy
<1>14. AllCovered(s2.q, s2.k, r, resp)
  <2> SUFFICES ASSUME NEW t \in Nat,
                      \/ At(s2.q, "activate", r, t) \/ At(s2.q, "writeDone", r, t)
                      \/ Flies(resp, r, t)
               PROVE  Covered(s2.q, s2.k, r, t)
    BY DEF AllCovered
  <2>1. Covered(s.q, s.k, r, t)
    BY <1>6, <1>9 DEF MayPrecharge, AllCovered
  <2>2. p > t
    <3>1. CASE \E b \in Banks : s.k.banks[b].open /\ s.k.banks[b].preAt + tRP > t
      <4>1. PICK b \in Banks : s.k.banks[b].preAt + tRP > t
        BY <3>1
      <4>2. s.k.banks[b].preAt <= pre_at /\ at = pre_at + tRP
        BY <1>3 DEF at
      <4> QED
        BY <1>2, <1>4, <1>10, <4>1, <4>2
    <3>2. CASE \E p0 \in Nat : At(s.q, "precharge", r, p0) /\ p0 > t
      BY <1>10, <3>2
    <3> QED
      BY <2>1, <3>1, <3>2 DEF Covered
  <2> QED
    BY <1>10, <2>2 DEF Covered
<1>15. ~Scheduled(s2.q, "refresh", r) /\ ~Scheduled(s2.q, "power", r)
       /\ ~Scheduled(s2.q, "wakeUp", r)
  BY <1>11 DEF MayPrecharge
<1>16. PowerOK(s2.q, s2.k, r, resp)
  <2>1. s2.k.pwrState # "REF"
    BY <1>12 DEF MayPrecharge, SameScalars
  <2> QED
    BY <1>12, <1>13, <1>15, <2>1 DEF PowerOK
<1>17. PhaseOK(s2.q, s2.k, r, resp)
  BY <1>11, <1>12, <1>13, <1>15 DEF PhaseOK
<1>18. Counted(s2.q, s2.k, r, resp)
  <2> DEFINE o  == s.k.outstandingEvents
             f  == Flying(resp, r)
             n1 == One(Scheduled(s.q, "precharge", r))
             n2 == One(Scheduled(s.q, "writeDone", r))
             n3 == One(s.k.refreshState # "REF_IDLE")
  <2>1. o = f + n1 + n2 + n3
    BY DEF MayPrecharge, Counted
  <2>2. /\ One(Scheduled(s2.q, "precharge", r)) = 1
        /\ One(Scheduled(s2.q, "writeDone", r)) = n2
        /\ One(s2.k.refreshState # "REF_IDLE") = n3
        /\ n1 + One(~Scheduled(s.q, "precharge", r)) = 1
    BY <1>11, <1>12 DEF One, MayPrecharge
  <2>3. s2.k.outstandingEvents = o + One(~Scheduled(s.q, "precharge", r))
    BY <1>6, <1>9
  <2>4. o \in Int /\ n1 \in Int /\ n2 \in Int /\ n3 \in Int
        /\ One(~Scheduled(s.q, "precharge", r)) \in Int /\ f \in Int
    <3>1. f \in Nat
      BY FlyingNat DEF MayPrecharge
    <3>2. o \in Int
      BY <1>2, RankTypes
    <3> QED
      BY <3>1, <3>2 DEF One
  <2> DEFINE m1 == One(~Scheduled(s.q, "precharge", r))
  <2>5. f + n1 + n2 + n3 + m1 = f + 1 + n2 + n3
    <3> HIDE DEF n1, n2, n3, m1, f
    <3> QED
      BY <2>2, <2>4 DEF m1
  <2> QED
    BY <2>1, <2>2, <2>3, <2>5 DEF Counted
<1>19. RankOK(s2.q, s2.k, r, resp)
  BY <1>12, <1>14, <1>15, <1>16, <1>17, <1>18 DEF RankOK
<1>20. Precharging(s, s2, r)
  <2>1. \A r2 : r2 # r => Untouched(s.q, s2.q, r2)
    BY <1>6, <1>9
  <2>2. \A b \in Banks : /\ s2.k.banks[b].colAt = s.k.banks[b].colAt
                         /\ \E c \in Banks : s2.k.banks[b].preAt = s.k.banks[c].preAt
    BY <1>3, <1>5, <1>6, <1>9
  <2>3. \A p2 \in Nat : At(s2.q, "precharge", r, p2) =>
          \/ At(s.q, "precharge", r, p2)
          \/ \E c \in Banks : p2 = s.k.banks[c].preAt + tRP
    BY <1>3, <1>9, <1>10, WhenOK DEF at
  <2> QED
    BY <1>12, <2>1, <2>2, <2>3 DEF Precharging, SameScalars
<1> QED
  BY <1>1, <1>9, <1>19, <1>20

(* With all banks closed the rank refreshes at once, or a precharge is     *)
(* under way that will start the loop again.                               *)
LEMMA PrechargeClosedOK ==
    ASSUME NEW s, NEW r \in Ranks, NEW resp, MayPrecharge(s, r, resp), Closed(s.k)
    PROVE  LET s2 == PrechargeAll(s, r)
           IN  QueueOK(s2.q) /\ RankOK(s2.q, s2.k, r, resp) /\ Precharging(s, s2, r)
<1> DEFINE s2 == PrechargeAll(s, r)
<1>1. /\ s \in StepType /\ s.k \in RankState /\ s.q \in Seq(Event) /\ QueueOK(s.q)
      /\ s.k.outstandingEvents \in Int
  BY RankTypes DEF MayPrecharge, StepType
<1>2. Flying(resp, r) \in Nat /\ (Flying(resp, r) = 0 => \A t : ~Flies(resp, r, t))
      /\ \A i \in DOMAIN resp : resp[i].at \in Nat
  BY FlyingNat, ResponseTypes DEF MayPrecharge
<1>3. \A t \in Nat : Covered(s.q, s.k, r, t) => Scheduled(s.q, "precharge", r)
  BY <1>1, WhenOK DEF Closed, Covered
<1>4. \A b \in Banks : \E c \in Banks : s.k.banks[b].preAt = s.k.banks[c].preAt
  OBVIOUS
<1>5. CASE s.k.pwrState = "IDLE" /\ s.k.outstandingEvents = 1
  <2>1. s2 = schedulePowerEvent(s, r, "REF", 0)
    BY <1>5, ClosedCount DEF PrechargeAll
  <2> HIDE DEF s2
  <2>2. /\ s2.q = Schedule(s.q, "power", r, 0) /\ s2.k \in RankState
        /\ s2.k.refreshState = s.k.refreshState
        /\ s2.k.refreshDueAt = s.k.refreshDueAt
        /\ s2.k.pwrState = s.k.pwrState /\ s2.k.banks = s.k.banks
        /\ s2.k.pwrStateTrans = "REF"
        /\ s2.k.outstandingEvents = s.k.outstandingEvents
    <3>1. "REF" \in PowerStates
      BY DEF PowerStates
    <3> QED
      BY <1>1, <2>1, <3>1, PowerEventFields
  <2>3. Flying(resp, r) = 0 /\ ~Scheduled(s.q, "precharge", r)
        /\ ~Scheduled(s.q, "writeDone", r)
    BY <1>1, <1>2, <1>5 DEF MayPrecharge, Counted, One
  <2>4. \A t \in Nat : ~At(s.q, "activate", r, t)
    BY <1>3, <2>3 DEF MayPrecharge, AllCovered
  <2>5. ~Scheduled(s.q, "activate", r)
    BY <1>1, <2>4, WhenOK
  <2>6. /\ QueueOK(s2.q)
        /\ \A e2, r2, t : At(s2.q, e2, r2, t) <=>
              At(s.q, e2, r2, t) \/ (e2 = "power" /\ r2 = r /\ t = 0)
        /\ \A r2 : r2 # r => Untouched(s.q, s2.q, r2)
        /\ AtHead(s2.q, "power", r)
    <3>1. ~Scheduled(s.q, "power", r) /\ "power" \in EventKinds /\ 0 \in Nat
          /\ r \in 0 .. numRanks
      BY Constants DEF MayPrecharge, EventKinds, Ranks
    <3> QED
      BY <1>1, <2>2, <3>1, ScheduleOK
  <2>7. \A e2 : Scheduled(s2.q, e2, r) <=> Scheduled(s.q, e2, r) \/ e2 = "power"
    BY <1>1, <2>6, WhenOK
  <2>8. Quiet(s2.q, s2.k, r, resp)
    <3>1. Closed(s2.k)
      BY <2>2 DEF Closed
    <3> QED
      BY <1>2, <2>3, <2>5, <2>7, <3>1 DEF Quiet
  <2>9. AllCovered(s2.q, s2.k, r, resp)
    <3>1. \A t \in Nat : ~At(s2.q, "activate", r, t) /\ ~At(s2.q, "writeDone", r, t)
      BY <2>6, <2>8, WhenOK DEF Quiet
    <3> QED
      BY <2>8, <3>1 DEF AllCovered, Quiet
  <2>10. PowerOK(s2.q, s2.k, r, resp)
    BY <1>5, <2>2, <2>6, <2>7, <2>8 DEF PowerOK, MayPrecharge
  <2>11. PhaseOK(s2.q, s2.k, r, resp)
    BY <2>2, <2>7, <2>8 DEF PhaseOK, MayPrecharge, Quiet
  <2>12. Counted(s2.q, s2.k, r, resp)
    <3>1. /\ One(Scheduled(s2.q, "precharge", r)) = One(Scheduled(s.q, "precharge", r))
          /\ One(Scheduled(s2.q, "writeDone", r)) = One(Scheduled(s.q, "writeDone", r))
          /\ One(s2.k.refreshState # "REF_IDLE") = One(s.k.refreshState # "REF_IDLE")
      BY <2>2, <2>7 DEF One
    <3> QED
      BY <2>2, <3>1 DEF Counted, MayPrecharge
  <2>13. RankOK(s2.q, s2.k, r, resp)
    <3>1. ~Scheduled(s2.q, "wakeUp", r)
      BY <2>7 DEF MayPrecharge
    <3> QED
      BY <2>2, <2>9, <2>10, <2>11, <2>12, <3>1 DEF RankOK
  <2>14. Precharging(s, s2, r)
    BY <1>4, <2>2, <2>6 DEF Precharging, MayPrecharge
  <2> QED
    BY <2>6, <2>13, <2>14 DEF s2
<1>6. CASE ~(s.k.pwrState = "IDLE" /\ s.k.outstandingEvents = 1)
  <2>1. s2 = s
    BY <1>6, ClosedCount DEF PrechargeAll
  <2> HIDE DEF s2
  <2>2. Scheduled(s.q, "precharge", r)
    <3>1. CASE s.k.pwrState # "IDLE"
      <4>1. s.k.pwrState = "ACT"
        BY <1>1, <3>1, RankTypes DEF MayPrecharge, PowerStates
      <4> QED
        BY <4>1 DEF MayPrecharge, Busy
    <3>2. CASE s.k.outstandingEvents # 1
      <4> SUFFICES ASSUME ~Scheduled(s.q, "precharge", r) PROVE FALSE
        OBVIOUS
      <4>1. One(Scheduled(s.q, "precharge", r)) = 0 /\ One(s.k.refreshState # "REF_IDLE") = 1
        BY DEF One, MayPrecharge
      <4>2. \A t \in Nat : ~At(s.q, "writeDone", r, t) /\ ~Flies(resp, r, t)
        BY <1>3 DEF MayPrecharge, AllCovered
      <4>3. One(Scheduled(s.q, "writeDone", r)) = 0
        BY <1>1, <4>2, WhenOK DEF One
      <4>4. Flying(resp, r) = 0
        <5>1. \A t : ~Flies(resp, r, t)
          BY <1>2, <4>2 DEF Flies
        <5> QED
          BY <5>1, FlyingNat DEF MayPrecharge
      <4> QED
        BY <3>2, <4>1, <4>3, <4>4 DEF MayPrecharge, Counted
    <3> QED
      BY <1>6, <3>1, <3>2
  <2>3. Busy(s.q, s.k, r)
    BY <2>2 DEF Busy
  <2>4. RankOK(s.q, s.k, r, resp)
    <3>1. PowerOK(s.q, s.k, r, resp)
      BY <2>3 DEF PowerOK, MayPrecharge
    <3>2. PhaseOK(s.q, s.k, r, resp)
      BY <2>2 DEF PhaseOK, MayPrecharge
    <3> QED
      BY <1>1, <3>1, <3>2 DEF RankOK, MayPrecharge
  <2>5. Precharging(s, s, r)
    BY <1>4 DEF Precharging, MayPrecharge, Untouched
  <2> QED
    BY <1>1, <2>1, <2>4, <2>5 DEF s2
<1> QED
  BY <1>5, <1>6

(* It waits for the precharge under way when all banks are closed already. *)
LEMMA PrechargeAllOK ==
    ASSUME NEW s, NEW r \in Ranks, NEW resp, MayPrecharge(s, r, resp)
    PROVE  LET s2 == PrechargeAll(s, r)
           IN  QueueOK(s2.q) /\ RankOK(s2.q, s2.k, r, resp) /\ Precharging(s, s2, r)
<1> QED
  BY PrechargeOpenOK, PrechargeClosedOK

(* A refresh starts. *)
LEMMA StartRefreshOK ==
    ASSUME Ctl, RefreshInTime, NEW r \in Ranks, Fire("refresh", r), UNCHANGED ctrl,
           rk[r].refreshState = "REF_START", Become(r, StartRefresh(Step(r), r))
    PROVE  /\ Ctl' /\ KeptOthers(r)
           /\ rk'[r].refreshState = "REF_RUN"
           /\ rk'[r].refreshDueAt = rk[r].refreshDueAt + tREFI
           /\ \A b \in Banks : /\ rk'[r].banks[b].preAt = rk[r].banks[b].preAt
                               /\ rk'[r].banks[b].colAt = rk[r].banks[b].colAt
                               /\ rk'[r].banks[b].actAt = tRFC
           /\ \A e2, r2, t : At(eventq', e2, r2, t) <=>
                 \/ At(eventq, e2, r2, t) /\ ~(e2 = "refresh" /\ r2 = r)
                 \/ e2 = "refresh" /\ r2 = r /\ t = tRFC
<1> DEFINE q1 == Tail(eventq)
           k  == rk[r]
           bs == [b \in Banks |-> [k.banks[b] EXCEPT !.actAt = tRFC]]
           due == k.refreshDueAt + tREFI
           k2 == [k EXCEPT !.refreshState = "REF_RUN", !.refreshDueAt = due,
                           !.banks = bs]
           q2 == Schedule(q1, "refresh", r, tRFC)
           s  == [q |-> q2, k |-> k2]
<1>1. /\ RankOK(eventq, k, r, respQueue) /\ k \in RankState /\ r \in 0 .. numRanks
      /\ QueueOK(eventq) /\ tRFC \in Nat /\ tRP \in Nat /\ tREFI \in Nat /\ r # 0
  BY Constants DEF Ctl, Ranks, RankOK
<1>2. /\ QueueOK(q1) /\ ~Scheduled(q1, "refresh", r)
      /\ ~Scheduled(eventq, "power", r)
      /\ \A e2, r2, t : At(q1, e2, r2, t) <=>
            At(eventq, e2, r2, t) /\ ~(e2 = "refresh" /\ r2 = r)
      /\ \A e2, r2 : Scheduled(q1, e2, r2) <=>
            Scheduled(eventq, e2, r2) /\ ~(e2 = "refresh" /\ r2 = r)
  BY <1>1, FireFacts
<1>3. StartRefresh(Step(r), r) = s
  <2> DEFINE k3 == [k EXCEPT !.refreshState = "REF_RUN"]
             k4 == [k3 EXCEPT !.refreshDueAt = @ + tREFI]
             k5 == [k4 EXCEPT !.banks = [b \in Banks |-> [@[b] EXCEPT !.actAt = tRFC]]]
  <2>1. StartRefresh(Step(r), r) = [q |-> q2, k |-> k5]
    BY DEF StartRefresh, Step
  <2>2. k3.refreshDueAt = k.refreshDueAt /\ k3.banks = k.banks
    BY <1>1 DEF RankState
  <2>3. k4 = [k3 EXCEPT !.refreshDueAt = due]
    BY <2>2
  <2>4. k4.banks = k.banks
    BY <2>2
  <2>5. k5 = k2
    BY <2>3, <2>4
  <2> QED
    BY <2>1, <2>5
<1>4. s.q = q2 /\ s.k = k2
  OBVIOUS
<1>5. /\ bs \in [Banks -> Bank]
      /\ \A b \in Banks : /\ bs[b].open = k.banks[b].open
                          /\ bs[b].preAt = k.banks[b].preAt
                          /\ bs[b].colAt = k.banks[b].colAt
                          /\ bs[b].actAt = tRFC
  <2>1. ASSUME NEW b \in Banks
        PROVE  LET c == [k.banks[b] EXCEPT !.actAt = tRFC]
               IN  /\ c \in Bank /\ c.open = k.banks[b].open
                   /\ c.preAt = k.banks[b].preAt /\ c.colAt = k.banks[b].colAt
                   /\ c.actAt = tRFC
    <3> DEFINE x == k.banks[b]
    <3>1. x \in Bank
      BY <1>1, RankTypes
    <3> HIDE DEF x
    <3>2. LET c == [x EXCEPT !.actAt = tRFC]
          IN  /\ c \in Bank /\ c.open = x.open
              /\ c.preAt = x.preAt /\ c.colAt = x.colAt /\ c.actAt = tRFC
      BY <1>1, <3>1 DEF Bank
    <3> QED
      BY <3>2, Zenon DEF x
  <2>2. \A b \in Banks : [k.banks[b] EXCEPT !.actAt = tRFC] \in Bank
    BY <2>1, Zenon
  <2>3. bs \in [Banks -> Bank]
    BY <2>2, Zenon
  <2>4. \A b \in Banks : bs[b] = [k.banks[b] EXCEPT !.actAt = tRFC]
    OBVIOUS
  <2> HIDE DEF bs
  <2> QED
    BY <2>1, <2>3, <2>4
<1>6. due \in Int
  BY <1>1, RankTypes
<1> HIDE DEF bs, due, k
<1>7. /\ k2 \in RankState /\ k2.refreshState = "REF_RUN" /\ k2.refreshDueAt = due
      /\ k2.banks = bs /\ k2.pwrState = k.pwrState /\ k2.pwrStateTrans = k.pwrStateTrans
      /\ k2.outstandingEvents = k.outstandingEvents
  BY <1>1, <1>5, <1>6 DEF RankState
<1>8. due - tRP > tRFC
  <2>1. Refreshing(k) /\ k.refreshState # "REF_RUN"
    BY <1>1, RankTypes DEF Refreshing, PowerStates, k
  <2>2. k.refreshDueAt + tREFI - tRP > tRFC
    BY <2>1 DEF RefreshInTime, k
  <2>3. k.refreshDueAt \in Int
    BY <1>1, RankTypes
  <2> QED
    BY <1>1, <2>2, <2>3 DEF due
<1>9. /\ QueueOK(q2)
      /\ \A e2, r2, t : At(q2, e2, r2, t) <=>
            At(q1, e2, r2, t) \/ (e2 = "refresh" /\ r2 = r /\ t = tRFC)
      /\ \A r2 : r2 # r => Untouched(q1, q2, r2)
  BY <1>1, <1>2, ScheduleOK DEF EventKinds
<1> HIDE DEF q2, k2
<1>10. \A e2, r2 : Scheduled(q2, e2, r2) <=>
          Scheduled(eventq, e2, r2) \/ (e2 = "refresh" /\ r2 = r)
  BY <1>1, <1>2, <1>9, WhenOK
<1>11. Quiet(eventq, k, r, respQueue) /\ k.refreshState = "REF_START"
  BY <1>1 DEF RankOK, PhaseOK, k
<1>12. Quiet(q2, k2, r, respQueue)
  <2>1. Closed(k2)
    BY <1>5, <1>7, <1>11 DEF Closed, Quiet
  <2> QED
    BY <1>10, <1>11, <2>1 DEF Quiet
<1>13. AllCovered(q2, k2, r, respQueue)
  BY <1>9, <1>12, WhenOK DEF AllCovered, Quiet
<1>14. PowerOK(q2, k2, r, respQueue)
  <2>1. k2.pwrState = "REF"
    BY <1>1, <1>7, <1>11 DEF RankOK, PowerOK
  <2> QED
    BY <1>2, <1>7, <1>10, <2>1 DEF PowerOK
<1>15. PhaseOK(q2, k2, r, respQueue)
  <2>1. \A t \in Nat : At(q2, "refresh", r, t) => t = tRFC
    BY <1>1, <1>2, <1>9, WhenOK
  <2> QED
    BY <1>7, <1>8, <1>10, <1>12, <2>1 DEF PhaseOK
<1>16. Counted(q2, k2, r, respQueue)
  <2>1. Counted(eventq, k, r, respQueue)
    BY <1>1 DEF RankOK
  <2>2. /\ One(Scheduled(q2, "precharge", r)) = One(Scheduled(eventq, "precharge", r))
        /\ One(Scheduled(q2, "writeDone", r)) = One(Scheduled(eventq, "writeDone", r))
        /\ One(k2.refreshState # "REF_IDLE") = One(k.refreshState # "REF_IDLE")
    BY <1>7, <1>10, <1>11 DEF One
  <2> QED
    BY <1>7, <2>1, <2>2 DEF Counted
<1>17. RankOK(q2, k2, r, respQueue)
  <2>1. ~Scheduled(q2, "wakeUp", r)
    BY <1>1, <1>10 DEF RankOK
  <2> QED
    BY <1>7, <1>13, <1>14, <1>15, <1>16, <2>1 DEF RankOK
<1>18. Ctl' /\ KeptOthers(r)
  <2>1. nextReqScheduled(eventq) => nextReqScheduled(q2)
    BY <1>1, <1>10 DEF nextReqScheduled
  <2>2. \A t : At(q2, "respond", 0, t) <=> At(q1, "respond", 0, t)
    BY <1>9
  <2>3. \A b \in Banks : k2.banks[b].colAt = k.banks[b].colAt
    BY <1>5, <1>7
  <2>4. Become(r, s)
    BY <1>3
  <2> HIDE DEF s, q1
  <2> QED
    BY <1>4, <1>9, <1>17, <2>1, <2>2, <2>3, <2>4, RankStep DEF k, q1
<1>19. rk' = [rk EXCEPT ![r] = k2] /\ rk \in [Ranks -> RankState] /\ eventq' = q2
  BY <1>3, <1>4 DEF Become, Ctl
<1>20. rk'[r] = k2
  BY <1>19
<1>21. \A e2, r2, t : At(q2, e2, r2, t) <=>
          \/ At(eventq, e2, r2, t) /\ ~(e2 = "refresh" /\ r2 = r)
          \/ e2 = "refresh" /\ r2 = r /\ t = tRFC
  BY <1>2, <1>9
<1> HIDE DEF q2
<1> QED
  BY <1>5, <1>7, <1>18, <1>19, <1>20, <1>21 DEF k, due

(* A refresh ends. *)
LEMMA EndRefreshOK ==
    ASSUME Ctl, ~enableDRAMPowerdown, NEW r \in Ranks, Fire("refresh", r),
           UNCHANGED ctrl, OrderedTimings,
           rk[r].refreshState = "REF_RUN", Become(r, EndRefresh(Step(r), r))
    PROVE  /\ Ctl' /\ KeptOthers(r)
           /\ rk'[r].refreshState = "REF_RUN" /\ rk'[r].banks = rk[r].banks
           /\ Scheduled(eventq', "power", r)
           /\ \A e2, r2, t : e2 \notin {"refresh", "power"} =>
                 (At(eventq', e2, r2, t) <=> At(eventq, e2, r2, t))
<1> DEFINE q1 == Tail(eventq)
           k  == rk[r]
           s0 == [q |-> q1, k |-> k]
           s1 == schedulePowerEvent(s0, r, "IDLE", 0)
           at == k.refreshDueAt - tRP
           s  == [s1 EXCEPT !.q = Schedule(@, "refresh", r, at)]
           q2 == Schedule(s1.q, "refresh", r, at)
<1>1. /\ RankOK(eventq, k, r, respQueue) /\ k \in RankState /\ r \in 0 .. numRanks
      /\ QueueOK(eventq) /\ tRP \in Nat /\ r # 0
  BY Constants DEF Ctl, Ranks, RankOK
<1>2. /\ QueueOK(q1) /\ ~Scheduled(q1, "refresh", r)
      /\ At(eventq, "refresh", r, 0)
      /\ ~Scheduled(eventq, "power", r)
      /\ \A e2, r2, t : At(q1, e2, r2, t) <=>
            At(eventq, e2, r2, t) /\ ~(e2 = "refresh" /\ r2 = r)
      /\ \A e2, r2 : Scheduled(q1, e2, r2) <=>
            Scheduled(eventq, e2, r2) /\ ~(e2 = "refresh" /\ r2 = r)
  BY <1>1, FireFacts
<1>3. s0 \in StepType /\ s0.q = q1 /\ s0.k = k
  BY <1>1, <1>2 DEF StepType, QueueOK
<1>4. EndRefresh(Step(r), r) = s
  <2>1. Step(r) = s0
    BY DEF Step
  <2>2. k.pwrStatePostRefresh = "IDLE"
    BY <1>1, RankTypes
  <2> HIDE DEF s0
  <2> QED
    BY <1>3, <2>1, <2>2 DEF EndRefresh
<1>5. at > 0 /\ at \in Nat
  <2>1. at > 0
    BY <1>1, <1>2 DEF RankOK, PhaseOK
  <2> QED
    BY <1>1, <2>1, RankTypes
<1> HIDE DEF at, q1
<1>6. /\ s1 = [q |-> s1.q, k |-> s1.k]
      /\ s1.q = Schedule(q1, "power", r, 0) /\ s1.k \in RankState
      /\ s1.k.refreshState = k.refreshState
      /\ s1.k.refreshDueAt = k.refreshDueAt
      /\ s1.k.pwrState = k.pwrState /\ s1.k.banks = k.banks
      /\ s1.k.pwrStateTrans = "IDLE"
      /\ s1.k.outstandingEvents = k.outstandingEvents
  <2>1. "IDLE" \in PowerStates /\ s1 = schedulePowerEvent(s0, r, "IDLE", 0)
    BY DEF PowerStates
  <2> HIDE DEF s0, s1
  <2> QED
    BY <1>3, <2>1, PowerEventFields
<1>7. s.q = q2 /\ s.k = s1.k
  <2> HIDE DEF s1
  <2> QED
    BY <1>6
<1>8. /\ QueueOK(s1.q)
      /\ \A e2, r2, t : At(s1.q, e2, r2, t) <=>
            At(q1, e2, r2, t) \/ (e2 = "power" /\ r2 = r /\ t = 0)
      /\ \A r2 : r2 # r => Untouched(q1, s1.q, r2)
      /\ AtHead(s1.q, "power", r)
  <2>1. ~Scheduled(q1, "power", r) /\ "power" \in EventKinds /\ 0 \in Nat
    BY <1>2 DEF EventKinds
  <2> QED
    BY <1>1, <1>2, <1>6, <2>1, ScheduleOK
<1> HIDE DEF s1
<1>9. /\ QueueOK(q2)
      /\ \A e2, r2, t : At(q2, e2, r2, t) <=>
            At(s1.q, e2, r2, t) \/ (e2 = "refresh" /\ r2 = r /\ t = at)
      /\ \A r2 : r2 # r => Untouched(s1.q, q2, r2)
      /\ AtHead(q2, "power", r)
  <2>1. ~Scheduled(s1.q, "refresh", r) /\ "refresh" \in EventKinds
    BY <1>2, <1>8, WhenOK DEF EventKinds
  <2> QED
    BY <1>1, <1>5, <1>8, <2>1, ScheduleOK
<1> HIDE DEF q2, s
<1>10. /\ \A e2, r2, t : At(q2, e2, r2, t) <=>
             \/ At(q1, e2, r2, t)
             \/ e2 = "power" /\ r2 = r /\ t = 0
             \/ e2 = "refresh" /\ r2 = r /\ t = at
       /\ \A r2 : r2 # r => Untouched(q1, q2, r2)
  BY <1>8, <1>9 DEF Untouched
<1>11. \A e2, r2 : Scheduled(q2, e2, r2) <=>
          Scheduled(eventq, e2, r2) \/ (e2 = "power" /\ r2 = r)
  <2>1. Scheduled(eventq, "refresh", r) /\ Scheduled(q2, "refresh", r)
    BY <1>1, <1>2, <1>5, <1>9, <1>10, WhenOK
  <2> QED
    BY <1>1, <1>2, <1>5, <1>9, <1>10, <2>1, WhenOK
<1> DEFINE k2 == s1.k
<1>12. Quiet(eventq, k, r, respQueue) /\ k.refreshState = "REF_RUN"
  BY <1>1 DEF RankOK, PhaseOK
<1>13. Quiet(q2, k2, r, respQueue)
  <2>1. Closed(k2)
    BY <1>6, <1>12 DEF Closed, Quiet
  <2> QED
    BY <1>11, <1>12, <2>1 DEF Quiet
<1>14. AllCovered(q2, k2, r, respQueue)
  BY <1>9, <1>13, WhenOK DEF AllCovered, Quiet
<1>15. PowerOK(q2, k2, r, respQueue)
  <2>1. k2.pwrState = "REF"
    BY <1>1, <1>6, <1>12 DEF RankOK, PowerOK
  <2> QED
    BY <1>6, <1>9, <1>11, <1>12, <1>13, <2>1 DEF PowerOK
<1>16. PhaseOK(q2, k2, r, respQueue)
  BY <1>1, <1>6, <1>11, <1>12, <1>13 DEF PhaseOK, RankOK
<1>17. Counted(q2, k2, r, respQueue)
  <2>1. Counted(eventq, k, r, respQueue)
    BY <1>1 DEF RankOK
  <2>2. /\ One(Scheduled(q2, "precharge", r)) = One(Scheduled(eventq, "precharge", r))
        /\ One(Scheduled(q2, "writeDone", r)) = One(Scheduled(eventq, "writeDone", r))
        /\ One(k2.refreshState # "REF_IDLE") = One(k.refreshState # "REF_IDLE")
    BY <1>6, <1>11 DEF One
  <2> QED
    BY <1>6, <2>1, <2>2 DEF Counted
<1>18. RankOK(q2, k2, r, respQueue)
  <2>1. ~Scheduled(q2, "wakeUp", r)
    BY <1>1, <1>11 DEF RankOK
  <2> QED
    BY <1>6, <1>14, <1>15, <1>16, <1>17, <2>1 DEF RankOK
<1>19. Ctl' /\ KeptOthers(r)
  <2>1. nextReqScheduled(eventq) => nextReqScheduled(q2)
    BY <1>11 DEF nextReqScheduled
  <2>2. \A t : At(q2, "respond", 0, t) <=> At(q1, "respond", 0, t)
    BY <1>10
  <2>3. \A b \in Banks : k2.banks[b].colAt = k.banks[b].colAt
    BY <1>6
  <2>4. Become(r, s)
    BY <1>4
  <2> QED
    BY <1>7, <1>9, <1>10, <1>18, <2>1, <2>2, <2>3, <2>4, RankStep DEF q1
<1>20. rk' = [rk EXCEPT ![r] = k2] /\ rk \in [Ranks -> RankState] /\ eventq' = q2
  BY <1>4, <1>7 DEF Become, Ctl
<1>21. rk'[r] = k2
  BY <1>20
<1>22. \A e2, r2, t : e2 \notin {"refresh", "power"} =>
          (At(q2, e2, r2, t) <=> At(eventq, e2, r2, t))
  BY <1>2, <1>10
<1> QED
  BY <1>6, <1>11, <1>12, <1>19, <1>20, <1>21, <1>22

(* What a refresh that is due does to its rank until it starts. *)
Preparing(q, k, q2, k2, r) ==
    /\ k.refreshState \in {"REF_IDLE", "REF_PD_EXIT"}
    /\ k2.refreshState \in {"REF_DRAIN", "REF_PRE"}
    /\ k2.refreshState = "REF_DRAIN" =>
          k.refreshState = "REF_IDLE" /\ nextReqScheduled(q) /\ k2.banks = k.banks
    /\ k2.refreshDueAt = IF k.refreshState = "REF_IDLE" THEN 0 ELSE k.refreshDueAt
    /\ \A b \in Banks :
          /\ k2.banks[b].colAt = k.banks[b].colAt
          /\ \E c \in Banks : k2.banks[b].preAt = k.banks[c].preAt
    /\ \A p \in Nat : At(q2, "precharge", r, p) =>
          \/ At(q, "precharge", r, p)
          \/ k2.refreshState = "REF_PRE"
             /\ \E c \in Banks : p = k.banks[c].preAt + tRP
    /\ \A a : At(q2, "nextReq", 0, a) <=> At(q, "nextReq", 0, a)

(* A refresh event outside the refresh drains the rank, precharges it, or  *)
(* starts the refresh at once.                                             *)
LEMMA PrepareRefreshOK ==
    ASSUME Ctl, NEW r \in Ranks, Fire("refresh", r), UNCHANGED ctrl,
           rk[r].refreshState \notin {"REF_START", "REF_RUN"},
           Become(r, PrepareRefresh(BeginRefresh(Step(r)), r))
    PROVE  Ctl' /\ KeptOthers(r) /\ Preparing(eventq, rk[r], eventq', rk'[r], r)
<1> DEFINE q1 == Tail(eventq)
           k  == rk[r]
           s0 == [q |-> q1, k |-> k]
           s1 == BeginRefresh(s0)
           s2 == [s1 EXCEPT !.k.refreshState = "REF_PRE"]
           s  == IF AwaitsTurn(s1, r) THEN s1 ELSE PrechargeAll(s2, r)
<1>1. /\ RankOK(eventq, k, r, respQueue) /\ k \in RankState /\ r \in 0 .. numRanks
      /\ QueueOK(eventq) /\ r # 0 /\ k.outstandingEvents \in Int
      /\ rk \in [Ranks -> RankState] /\ respQueue \in Seq(Response)
  BY Constants, RankTypes DEF Ctl, Ranks, RankOK, Responses
<1>2. /\ QueueOK(q1) /\ ~Scheduled(q1, "refresh", r)
      /\ Scheduled(eventq, "refresh", r)
      /\ ~Scheduled(eventq, "power", r)
      /\ \A e2, r2, t : At(q1, e2, r2, t) <=>
            At(eventq, e2, r2, t) /\ ~(e2 = "refresh" /\ r2 = r)
      /\ \A e2, r2 : Scheduled(q1, e2, r2) <=>
            Scheduled(eventq, e2, r2) /\ ~(e2 = "refresh" /\ r2 = r)
  BY <1>1, FireFacts
<1>3. k.refreshState \in {"REF_IDLE", "REF_PD_EXIT"} /\ k.pwrState # "REF"
  BY <1>1, <1>2 DEF RankOK, PhaseOK, PowerOK, RankState
<1>4. s0 \in StepType /\ s0.q = q1 /\ s0.k = k
  BY <1>1, <1>2 DEF StepType, QueueOK
<1>5. Step(r) = s0
  BY DEF Step
<1> HIDE DEF s0, q1
<1>6. /\ s1 \in StepType /\ s1.q = q1
      /\ s1.k.refreshState = IF k.refreshState = "REF_IDLE" THEN "REF_DRAIN" ELSE "REF_PD_EXIT"
      /\ s1.k.refreshDueAt = IF k.refreshState = "REF_IDLE" THEN 0 ELSE k.refreshDueAt
      /\ s1.k.pwrState = k.pwrState /\ s1.k.pwrStateTrans = k.pwrStateTrans
      /\ s1.k.banks = k.banks
      /\ s1.k.outstandingEvents =
            IF k.refreshState = "REF_IDLE" THEN k.outstandingEvents + 1
                                           ELSE k.outstandingEvents
  <2>1. CASE k.refreshState = "REF_IDLE"
    <3> DEFINE n  == k.outstandingEvents + 1
               ka == [k EXCEPT !.refreshState = "REF_DRAIN"]
               kb == [ka EXCEPT !.refreshDueAt = 0]
               k1 == [kb EXCEPT !.outstandingEvents = n]
    <3>1. n \in Int
      BY <1>1
    <3>5. /\ ka \in RankState /\ ka.refreshState = "REF_DRAIN"
          /\ ka.pwrState = k.pwrState /\ ka.pwrStateTrans = k.pwrStateTrans
          /\ ka.banks = k.banks /\ ka.outstandingEvents = k.outstandingEvents
      BY <1>1 DEF RankState
    <3> HIDE DEF n, ka
    <3>6. /\ kb \in RankState /\ kb.refreshState = "REF_DRAIN" /\ kb.refreshDueAt = 0
          /\ kb.pwrState = k.pwrState /\ kb.pwrStateTrans = k.pwrStateTrans
          /\ kb.banks = k.banks /\ kb.outstandingEvents = k.outstandingEvents
      <4> DEFINE z == 0
      <4>1. z \in Int /\ kb = [ka EXCEPT !.refreshDueAt = z]
        OBVIOUS
      <4> HIDE DEF z, kb, k
      <4>2. /\ kb \in RankState /\ kb.refreshState = "REF_DRAIN" /\ kb.refreshDueAt = z
            /\ kb.pwrState = k.pwrState /\ kb.pwrStateTrans = k.pwrStateTrans
            /\ kb.banks = k.banks /\ kb.outstandingEvents = k.outstandingEvents
        BY <3>5, <4>1 DEF RankState
      <4> QED
        BY <4>2 DEF z
    <3> HIDE DEF kb
    <3>3. /\ k1 \in RankState /\ k1.refreshState = "REF_DRAIN" /\ k1.refreshDueAt = 0
          /\ k1.pwrState = k.pwrState /\ k1.pwrStateTrans = k.pwrStateTrans
          /\ k1.banks = k.banks /\ k1.outstandingEvents = n
      BY <3>1, <3>6 DEF RankState
    <3>2. s1 = [q |-> q1, k |-> k1]
      <4> DEFINE t1 == [s0 EXCEPT !.k.refreshState = "REF_DRAIN"]
                 t2 == [t1 EXCEPT !.k.refreshDueAt = 0]
                 t3 == [t2 EXCEPT !.k.outstandingEvents = @ + 1]
      <4>1. s1 = t3
        BY <1>4, <2>1 DEF BeginRefresh
      <4>2. t1 = [q |-> q1, k |-> ka]
        BY <1>4 DEF s0, ka
      <4> HIDE DEF t1
      <4>3. t2 = [q |-> q1, k |-> kb]
        BY <4>2 DEF kb
      <4> HIDE DEF t2
      <4>4. t3 = [q |-> q1, k |-> k1]
        BY <3>6, <4>3 DEF n
      <4> QED
        BY <4>1, <4>4
    <3> HIDE DEF k1, s1
    <3>4. q1 \in Seq(Event) /\ s1.q = q1 /\ s1.k = k1
      BY <1>2, <3>2 DEF QueueOK
    <3> QED
      BY <2>1, <3>2, <3>3, <3>4 DEF StepType, n
  <2>2. CASE k.refreshState = "REF_PD_EXIT"
    <3>1. s1 = s0
      BY <1>4, <2>2 DEF BeginRefresh
    <3> QED
      BY <1>4, <2>2, <3>1
  <2> QED
    BY <1>3, <2>1, <2>2
<1> HIDE DEF s1
<1>7. /\ s2 \in StepType /\ s2.q = q1
      /\ s2.k.refreshState = "REF_PRE" /\ s2.k.refreshDueAt = s1.k.refreshDueAt
      /\ s2.k.pwrState = k.pwrState
      /\ s2.k.banks = k.banks
      /\ s2.k.outstandingEvents = s1.k.outstandingEvents
  <2> DEFINE k1 == s1.k
             k2 == [k1 EXCEPT !.refreshState = "REF_PRE"]
  <2>1. k1 \in RankState /\ s1.q \in Seq(Event)
    BY <1>6 DEF StepType
  <2>2. s2 = [q |-> s1.q, k |-> k2]
    BY <1>6 DEF StepType
  <2> HIDE DEF k1, s2
  <2>3. /\ k2 \in RankState /\ k2.refreshState = "REF_PRE"
        /\ k2.refreshDueAt = k1.refreshDueAt /\ k2.pwrState = k1.pwrState
        /\ k2.banks = k1.banks /\ k2.outstandingEvents = k1.outstandingEvents
    BY <2>1 DEF RankState
  <2> HIDE DEF k2
  <2>4. s2.q = s1.q /\ s2.k = k2 /\ s2 \in StepType
    BY <2>1, <2>2, <2>3 DEF StepType
  <2> QED
    BY <1>6, <2>3, <2>4 DEF k1
<1> HIDE DEF s2
<1>8. PrepareRefresh(BeginRefresh(Step(r)), r) = s
  <2>1. BeginRefresh(Step(r)) = s1
    BY <1>5 DEF s1
  <2>2. ~s1.k.inLowPowerState
    BY <1>6, RankTypes DEF StepType
  <2> QED
    BY <2>1, <2>2 DEF PrepareRefresh, s2
<1>9. Become(r, s)
  BY <1>8
<1>10. \A k2 : k2.banks = k.banks => (Closed(k2) <=> Closed(k))
                /\ (Busy(q1, k2, r) <=> Busy(eventq, k, r))
                /\ AllCovered(q1, k2, r, respQueue)
  <2> SUFFICES ASSUME NEW k2, k2.banks = k.banks
               PROVE  (Closed(k2) <=> Closed(k))
                /\ (Busy(q1, k2, r) <=> Busy(eventq, k, r))
                /\ AllCovered(q1, k2, r, respQueue)
    OBVIOUS
  <2>1. \A t \in Nat : Covered(eventq, k, r, t) => Covered(q1, k2, r, t)
    BY <1>2 DEF Covered
  <2>2. AllCovered(q1, k2, r, respQueue)
    BY <1>1, <1>2, <2>1 DEF AllCovered, RankOK
  <2> QED
    BY <1>2, <2>2 DEF Closed, Busy
<1>11. ASSUME NEW k2, k2.refreshState # "REF_IDLE",
              k2.outstandingEvents = s1.k.outstandingEvents
       PROVE  Counted(q1, k2, r, respQueue)
  <2>1. Counted(eventq, k, r, respQueue) /\ Flying(respQueue, r) \in Nat
    BY <1>1, FlyingNat DEF RankOK
  <2>2. /\ One(Scheduled(q1, "precharge", r)) = One(Scheduled(eventq, "precharge", r))
        /\ One(Scheduled(q1, "writeDone", r)) = One(Scheduled(eventq, "writeDone", r))
        /\ One(k2.refreshState # "REF_IDLE") = 1
        /\ One(Scheduled(eventq, "precharge", r)) \in Nat
        /\ One(Scheduled(eventq, "writeDone", r)) \in Nat
    BY <1>2, <1>11 DEF One
  <2>3. CASE k.refreshState = "REF_IDLE"
    <3>1. One(k.refreshState # "REF_IDLE") = 0
      BY <2>3 DEF One
    <3> QED
      BY <1>1, <1>6, <1>11, <2>1, <2>2, <2>3, <3>1 DEF Counted
  <2>4. CASE k.refreshState # "REF_IDLE"
    <3>1. One(k.refreshState # "REF_IDLE") = 1
      BY <2>4 DEF One
    <3> QED
      BY <1>1, <1>6, <1>11, <2>1, <2>2, <2>4, <3>1 DEF Counted
  <2> QED
    BY <2>3, <2>4
<1>12. k.pwrState = "ACT" => Busy(eventq, k, r)
  BY <1>1, <1>2 DEF RankOK, PowerOK
<1>13. /\ QueueOK(s.q) /\ RankOK(s.q, s.k, r, respQueue)
       /\ \A r2 : r2 # r => Untouched(q1, s.q, r2)
       /\ Preparing(eventq, k, s.q, s.k, r)
  <2>1. CASE AwaitsTurn(s1, r)
    <3>1. s = s1 /\ s1.k.refreshState = "REF_DRAIN" /\ k.refreshState = "REF_IDLE"
          /\ Scheduled(q1, "nextReq", 0)
      BY <1>3, <1>6, <2>1 DEF AwaitsTurn, nextReqScheduled
    <3> HIDE DEF s
    <3>2. PowerOK(q1, s1.k, r, respQueue)
      <4>1. ~Scheduled(q1, "power", r) /\ s1.k.pwrState # "REF"
        BY <1>2, <1>3, <1>6
      <4>2. s1.k.pwrState = "ACT" => Busy(q1, s1.k, r)
        BY <1>6, <1>10, <1>12
      <4> QED
        BY <3>1, <4>1, <4>2 DEF PowerOK
    <3>3. PhaseOK(q1, s1.k, r, respQueue)
      BY <1>2, <3>1 DEF PhaseOK
    <3>4. RankOK(q1, s1.k, r, respQueue)
      <4>1. s1.k \in RankState /\ ~Scheduled(q1, "wakeUp", r)
        BY <1>1, <1>2, <1>6 DEF StepType, RankOK
      <4>2. AllCovered(q1, s1.k, r, respQueue) /\ Counted(q1, s1.k, r, respQueue)
        BY <1>6, <1>10, <1>11, <3>1
      <4> QED
        BY <3>2, <3>3, <4>1, <4>2 DEF RankOK
    <3>5. \A r2 : Untouched(q1, q1, r2)
      BY DEF Untouched
    <3>6. Preparing(eventq, k, q1, s1.k, r)
      BY <1>1, <1>2, <1>6, <3>1 DEF Preparing, nextReqScheduled
    <3> QED
      BY <1>2, <1>6, <3>1, <3>4, <3>5, <3>6
  <2>2. CASE ~AwaitsTurn(s1, r)
    <3>1. s = PrechargeAll(s2, r)
      BY <2>2
    <3> HIDE DEF s
    <3>2. MayPrecharge(s2, r, respQueue)
      <4>1. \A ev \in {"refresh", "power", "wakeUp"} : ~Scheduled(q1, ev, r)
        BY <1>1, <1>2 DEF RankOK
      <4>2. s2.k.pwrState = "ACT" => Busy(q1, s2.k, r)
        BY <1>7, <1>10, <1>12
      <4>3. AllCovered(q1, s2.k, r, respQueue)
        BY <1>7, <1>10
      <4>4. Counted(q1, s2.k, r, respQueue)
        BY <1>7, <1>11
      <4> QED
        BY <1>1, <1>2, <1>3, <1>7, <4>1, <4>2, <4>3, <4>4 DEF MayPrecharge
    <3>3. QueueOK(s.q) /\ RankOK(s.q, s.k, r, respQueue) /\ Precharging(s2, s, r)
      BY <3>1, <3>2, PrechargeAllOK
    <3>4. \A r2 : r2 # r => Untouched(q1, s.q, r2)
      BY <1>7, <3>3 DEF Precharging
    <3>5. \A a : At(s.q, "nextReq", 0, a) <=> At(eventq, "nextReq", 0, a)
      BY <1>1, <1>2, <3>4 DEF Untouched
    <3>6. Preparing(eventq, k, s.q, s.k, r)
      BY <1>2, <1>3, <1>6, <1>7, <3>3, <3>5 DEF Preparing, Precharging
    <3> QED
      BY <3>3, <3>4, <3>6
  <2> QED
    BY <2>1, <2>2
<1> HIDE DEF s
<1>14. rk' = [rk EXCEPT ![r] = s.k] /\ eventq' = s.q
  BY <1>9 DEF Become
<1>15. rk'[r] = s.k
  BY <1>1, <1>14
<1>16. Ctl' /\ KeptOthers(r)
  <2>1. nextReqScheduled(eventq) => nextReqScheduled(s.q)
    BY <1>1, <1>13, WhenOK DEF nextReqScheduled, Preparing
  <2>2. \A t : At(s.q, "respond", 0, t) <=> At(q1, "respond", 0, t)
    BY <1>1, <1>13 DEF Untouched
  <2>3. \A b \in Banks : s.k.banks[b].colAt = k.banks[b].colAt
    BY <1>13 DEF Preparing
  <2> QED
    BY <1>9, <1>13, <2>1, <2>2, <2>3, RankStep DEF q1
<1> QED
  BY <1>13, <1>14, <1>15, <1>16

(* Every refresh event. *)
LEMMA RefreshCtl ==
    ASSUME Ctl, RefreshInTime, ~enableDRAMPowerdown, OrderedTimings,
           NEW r \in Ranks, processRefreshEvent(r)
    PROVE  Ctl'
<1>1. Fire("refresh", r) /\ UNCHANGED ctrl
  BY DEF processRefreshEvent
<1>2. CASE rk[r].refreshState = "REF_START"
  BY <1>1, <1>2, StartRefreshOK DEF processRefreshEvent
<1>3. CASE rk[r].refreshState = "REF_RUN"
  BY <1>1, <1>3, EndRefreshOK DEF processRefreshEvent
<1>4. CASE rk[r].refreshState \notin {"REF_START", "REF_RUN"}
  BY <1>1, <1>4, PrepareRefreshOK DEF processRefreshEvent
<1> QED
  BY <1>2, <1>3, <1>4

----------------------------------------------------------------------------
(* Power events *)

(* The controller's request event is scheduled, if it was not. *)
LEMMA KickOK ==
    ASSUME NEW q, QueueOK(q)
    PROVE  LET q2 == KickNextReq(q)
           IN  /\ QueueOK(q2) /\ nextReqScheduled(q2)
               /\ \A e2, r2, t : At(q2, e2, r2, t) <=>
                     \/ At(q, e2, r2, t)
                     \/ ~nextReqScheduled(q) /\ e2 = "nextReq" /\ r2 = 0 /\ t = 0
               /\ \A r2 : r2 # 0 => Untouched(q, q2, r2)
<1> DEFINE q2 == KickNextReq(q)
<1>1. CASE nextReqScheduled(q)
  <2>1. q2 = q
    BY <1>1 DEF KickNextReq
  <2> QED
    BY <1>1, <2>1 DEF Untouched
<1>2. CASE ~nextReqScheduled(q)
  <2>1. q2 = Schedule(q, "nextReq", 0, 0) /\ ~Scheduled(q, "nextReq", 0)
    BY <1>2 DEF KickNextReq, nextReqScheduled
  <2> HIDE DEF q2
  <2>2. "nextReq" \in EventKinds /\ 0 \in 0 .. numRanks /\ 0 \in Nat
    BY Constants DEF EventKinds
  <2>3. /\ QueueOK(q2)
        /\ \A e2, r2, t : At(q2, e2, r2, t) <=>
              At(q, e2, r2, t) \/ (e2 = "nextReq" /\ r2 = 0 /\ t = 0)
        /\ \A r2 : r2 # 0 => Untouched(q, q2, r2)
    BY <2>1, <2>2, ScheduleOK
  <2>4. nextReqScheduled(q2)
    <3>1. At(q2, "nextReq", 0, 0)
      BY <2>3
    <3> QED
      BY <2>3, <3>1, WhenOK DEF nextReqScheduled
  <2> QED
    BY <1>2, <2>3, <2>4 DEF q2
<1> QED
  BY <1>1, <1>2

(* What a power event leaves of a rank. *)
Powered(q, k, q2, k2, r) ==
    /\ k2.refreshDueAt = k.refreshDueAt /\ k2.banks = k.banks
    /\ \/ k.refreshState \in {"REF_IDLE", "REF_DRAIN", "REF_PRE"}
             /\ k2.refreshState = k.refreshState
       \/ k.refreshState = "REF_PRE" /\ k2.refreshState = "REF_START"
       \/ /\ k.refreshState = "REF_RUN" /\ k2.refreshState = "REF_IDLE"
          /\ nextReqScheduled(q2)
    /\ \A p : At(q2, "precharge", r, p) <=> At(q, "precharge", r, p)
    /\ \A a : At(q2, "nextReq", 0, a) <=>
          \/ At(q, "nextReq", 0, a)
          \/ /\ k.refreshState = "REF_RUN" /\ ~nextReqScheduled(q) /\ a = 0

(* A rank in state k, with the queue q, enters the power state and refresh *)
(* state of k2 when its power event fires.                                 *)
LEMMA PowerStepOK ==
    ASSUME Ctl, NEW r \in Ranks, Fire("power", r), NEW s, Become(r, s), UNCHANGED ctrl,
           QueueOK(s.q), RankOK(s.q, s.k, r, respQueue), Powered(eventq, rk[r], s.q, s.k, r),
           \A r2 : r2 # r /\ r2 # 0 => Untouched(Tail(eventq), s.q, r2),
           \A t : At(s.q, "respond", 0, t) <=> At(Tail(eventq), "respond", 0, t)
    PROVE  Ctl' /\ KeptOthers(r) /\ Powered(eventq, rk[r], eventq', rk'[r], r)
<1>1. /\ rk' = [rk EXCEPT ![r] = s.k] /\ eventq' = s.q
      /\ rk \in [Ranks -> RankState] /\ QueueOK(eventq)
  BY DEF Become, Ctl
<1>2. rk'[r] = s.k
  BY <1>1
<1>3. nextReqScheduled(eventq) => nextReqScheduled(s.q)
  BY <1>1, WhenOK DEF nextReqScheduled, Powered
<1>4. \A b \in Banks : s.k.banks[b].colAt = rk[r].banks[b].colAt
  BY DEF Powered
<1>5. Ctl' /\ KeptOthers(r)
  BY <1>3, <1>4, RankStep
<1> QED
  BY <1>1, <1>2, <1>5

(* The facts with which a power event fires. *)
LEMMA PowerFacts ==
    ASSUME Ctl, NEW r \in Ranks, Fire("power", r)
    PROVE  LET q1 == Tail(eventq)
               k  == rk[r]
           IN  /\ RankOK(eventq, k, r, respQueue) /\ k \in RankState
               /\ r \in 0 .. numRanks /\ r # 0 /\ QueueOK(eventq) /\ QueueOK(q1)
               /\ k.refreshState \notin {"REF_START", "REF_PD_EXIT"}
               /\ \A e2, r2, t : At(q1, e2, r2, t) <=>
                     At(eventq, e2, r2, t) /\ ~(e2 = "power" /\ r2 = r)
               /\ \A e2, r2 : Scheduled(q1, e2, r2) <=>
                     Scheduled(eventq, e2, r2) /\ ~(e2 = "power" /\ r2 = r)
               /\ Busy(q1, k, r) <=> Busy(eventq, k, r)
               /\ Quiet(eventq, k, r, respQueue) => Quiet(q1, k, r, respQueue)
               /\ AllCovered(q1, k, r, respQueue) /\ Counted(q1, k, r, respQueue)
               /\ k.pwrStateTrans = "ACT" =>
                     Busy(eventq, k, r) /\ k.refreshState \in {"REF_IDLE", "REF_DRAIN", "REF_PRE"}
               /\ k.pwrStateTrans = "IDLE" => Quiet(eventq, k, r, respQueue)
               /\ k.pwrStateTrans = "REF" =>
                     Quiet(eventq, k, r, respQueue) /\ k.refreshState = "REF_PRE"
               /\ k.pwrState = "REF" <=> k.refreshState = "REF_RUN"
               /\ k.pwrStateTrans \in {"IDLE", "ACT", "REF"}
               /\ k.pwrStatePostRefresh = "IDLE"
<1> DEFINE q1 == Tail(eventq)
           k  == rk[r]
<1>1. /\ RankOK(eventq, k, r, respQueue) /\ k \in RankState /\ r \in 0 .. numRanks
      /\ QueueOK(eventq) /\ r # 0
  BY Constants DEF Ctl, Ranks, RankOK
<1>2. /\ QueueOK(q1) /\ ~Scheduled(q1, "power", r)
      /\ Scheduled(eventq, "power", r)
      /\ k.refreshState \notin {"REF_START", "REF_PD_EXIT"}
      /\ \A e2, r2, t : At(q1, e2, r2, t) <=>
            At(eventq, e2, r2, t) /\ ~(e2 = "power" /\ r2 = r)
      /\ \A e2, r2 : Scheduled(q1, e2, r2) <=>
            Scheduled(eventq, e2, r2) /\ ~(e2 = "power" /\ r2 = r)
  BY <1>1, FireFacts
<1>3. /\ Busy(q1, k, r) <=> Busy(eventq, k, r)
      /\ Quiet(eventq, k, r, respQueue) => Quiet(q1, k, r, respQueue)
  BY <1>2 DEF Busy, Quiet
<1>4. AllCovered(q1, k, r, respQueue)
  <2>1. \A t \in Nat : Covered(eventq, k, r, t) => Covered(q1, k, r, t)
    BY <1>2 DEF Covered
  <2> QED
    BY <1>1, <1>2, <2>1 DEF AllCovered, RankOK
<1>5. Counted(q1, k, r, respQueue)
  <2>1. Counted(eventq, k, r, respQueue)
    BY <1>1 DEF RankOK
  <2>2. /\ One(Scheduled(q1, "precharge", r)) = One(Scheduled(eventq, "precharge", r))
        /\ One(Scheduled(q1, "writeDone", r)) = One(Scheduled(eventq, "writeDone", r))
    BY <1>2 DEF One
  <2> QED
    BY <2>1, <2>2 DEF Counted
<1>6. PowerOK(eventq, k, r, respQueue)
  BY <1>1 DEF RankOK
<1>7. k.pwrStateTrans \in {"IDLE", "ACT", "REF"} /\ k.pwrStatePostRefresh = "IDLE"
  BY <1>1, RankTypes DEF PowerStates
<1>8. /\ k.pwrStateTrans = "ACT" =>
                     Busy(eventq, k, r) /\ k.refreshState \in {"REF_IDLE", "REF_DRAIN", "REF_PRE"}
      /\ k.pwrStateTrans = "IDLE" => Quiet(eventq, k, r, respQueue)
      /\ k.pwrStateTrans = "REF" =>
                     Quiet(eventq, k, r, respQueue) /\ k.refreshState = "REF_PRE"
      /\ k.pwrState = "REF" <=> k.refreshState = "REF_RUN"
  BY <1>2, <1>6 DEF PowerOK
<1> HIDE DEF q1, k
<1> QED
  BY <1>1, <1>2, <1>3, <1>4, <1>5, <1>7, <1>8 DEF q1, k

(* The parts of a rank state with another power state. *)
LEMMA PowerStateFields ==
    ASSUME NEW k \in RankState, NEW state \in PowerStates
    PROVE  LET k2 == [k EXCEPT !.pwrState = state]
           IN  /\ k2 \in RankState /\ k2.pwrState = state
               /\ k2.refreshState = k.refreshState /\ k2.refreshDueAt = k.refreshDueAt
               /\ k2.pwrStateTrans = k.pwrStateTrans /\ k2.banks = k.banks
               /\ k2.outstandingEvents = k.outstandingEvents
<1> QED
  BY DEF RankState

(* The rank stays in the phase of its refresh. *)
LEMMA PowerPlain ==
    ASSUME Ctl, NEW r \in Ranks, Fire("power", r), UNCHANGED ctrl,
           rk[r].refreshState \in {"REF_IDLE", "REF_DRAIN", "REF_PRE"},
           rk[r].pwrStateTrans = "ACT"
              \/ (rk[r].pwrStateTrans = "IDLE" /\ rk[r].refreshState # "REF_PRE"),
           Become(r, [q |-> Tail(eventq),
                      k |-> [rk[r] EXCEPT !.pwrState = rk[r].pwrStateTrans]])
    PROVE  Ctl' /\ KeptOthers(r) /\ Powered(eventq, rk[r], eventq', rk'[r], r)
<1> DEFINE q1 == Tail(eventq)
           k  == rk[r]
           k2 == [k EXCEPT !.pwrState = k.pwrStateTrans]
           s  == [q |-> q1, k |-> k2]
<1>1. /\ RankOK(eventq, k, r, respQueue) /\ k \in RankState
      /\ r # 0 /\ QueueOK(q1)
      /\ \A e2, r2, t : At(q1, e2, r2, t) <=>
            At(eventq, e2, r2, t) /\ ~(e2 = "power" /\ r2 = r)
      /\ \A e2, r2 : Scheduled(q1, e2, r2) <=>
            Scheduled(eventq, e2, r2) /\ ~(e2 = "power" /\ r2 = r)
      /\ Busy(q1, k, r) <=> Busy(eventq, k, r)
      /\ AllCovered(q1, k, r, respQueue) /\ Counted(q1, k, r, respQueue)
      /\ k.pwrStateTrans = "ACT" => Busy(eventq, k, r)
  BY PowerFacts
<1>2. /\ k2 \in RankState /\ k2.pwrState = k.pwrStateTrans
      /\ k2.refreshState = k.refreshState /\ k2.refreshDueAt = k.refreshDueAt
      /\ k2.banks = k.banks /\ k2.outstandingEvents = k.outstandingEvents
  <2>1. k.pwrStateTrans \in PowerStates
    BY <1>1, RankTypes
  <2> QED
    BY <1>1, <2>1, PowerStateFields
<1> HIDE DEF k2
<1>3. AllCovered(q1, k2, r, respQueue)
  BY <1>1, <1>2 DEF AllCovered, Covered
<1>4. Counted(q1, k2, r, respQueue)
  BY <1>1, <1>2 DEF Counted
<1>5. PowerOK(q1, k2, r, respQueue)
  <2>1. Busy(q1, k2, r) <=> Busy(q1, k, r)
    BY <1>2 DEF Busy, Closed
  <2> QED
    BY <1>1, <1>2, <2>1 DEF PowerOK
<1>6. PhaseOK(q1, k2, r, respQueue)
  <2>1. PhaseOK(eventq, k, r, respQueue)
    BY <1>1 DEF RankOK
  <2>2. Closed(k2) <=> Closed(k)
    BY <1>2 DEF Closed
  <2>3. k.refreshState = "REF_PRE" => Scheduled(q1, "precharge", r)
    BY <1>1, <2>1 DEF PhaseOK, Busy
  <2> QED
    BY <1>1, <1>2, <2>1, <2>2, <2>3 DEF PhaseOK
<1>7. RankOK(q1, k2, r, respQueue)
  BY <1>1, <1>2, <1>3, <1>4, <1>5, <1>6 DEF RankOK
<1>8. Powered(eventq, k, q1, k2, r)
  BY <1>1, <1>2 DEF Powered
<1>9. s.q = q1 /\ s.k = k2 /\ Become(r, s)
  BY DEF k2
<1>10. \A r2 : Untouched(q1, q1, r2)
  BY DEF Untouched
<1> HIDE DEF s, q1
<1> QED
  BY <1>1, <1>7, <1>8, <1>9, <1>10, PowerStepOK DEF q1

(* The rank is ready for its refresh. *)
LEMMA PowerRef ==
    ASSUME Ctl, NEW r \in Ranks, Fire("power", r), UNCHANGED ctrl,
           rk[r].refreshState = "REF_PRE", Quiet(eventq, rk[r], r, respQueue),
           Become(r, EnterRef([q |-> Tail(eventq),
                               k |-> [rk[r] EXCEPT !.pwrState = "REF"]], r))
    PROVE  Ctl' /\ KeptOthers(r) /\ Powered(eventq, rk[r], eventq', rk'[r], r)
<1> DEFINE q1 == Tail(eventq)
           k  == rk[r]
           k1 == [k EXCEPT !.pwrState = "REF"]
           k2 == [k1 EXCEPT !.refreshState = "REF_START"]
           s1 == [q |-> q1, k |-> k1]
           q2 == Schedule(q1, "refresh", r, 0)
           s  == [q |-> q2, k |-> k2]
<1>1. /\ RankOK(eventq, k, r, respQueue) /\ k \in RankState
      /\ r \in 0 .. numRanks /\ r # 0 /\ QueueOK(q1)
      /\ \A e2, r2, t : At(q1, e2, r2, t) <=>
            At(eventq, e2, r2, t) /\ ~(e2 = "power" /\ r2 = r)
      /\ \A e2, r2 : Scheduled(q1, e2, r2) <=>
            Scheduled(eventq, e2, r2) /\ ~(e2 = "power" /\ r2 = r)
      /\ Quiet(q1, k, r, respQueue)
      /\ Counted(q1, k, r, respQueue)
      /\ k.pwrStatePostRefresh = "IDLE"
  BY PowerFacts
<1>2. /\ k1 \in RankState /\ k1.pwrState = "REF"
      /\ k1.refreshState = k.refreshState /\ k1.refreshDueAt = k.refreshDueAt
      /\ k1.pwrStateTrans = k.pwrStateTrans
      /\ k1.banks = k.banks /\ k1.outstandingEvents = k.outstandingEvents
  BY <1>1, PowerStateFields DEF PowerStates
<1> HIDE DEF k1
<1>3. /\ k2 \in RankState /\ k2.pwrState = "REF"
      /\ k2.refreshState = "REF_START" /\ k2.refreshDueAt = k.refreshDueAt
      /\ k2.banks = k.banks /\ k2.outstandingEvents = k.outstandingEvents
  BY <1>2 DEF RankState
<1>4. EnterRef(s1, r) = s
  <2>1. k1.pwrStatePostRefresh = "IDLE"
    BY <1>2, RankTypes
  <2>2. s1.k = k1 /\ s1.q = q1
    OBVIOUS
  <2> HIDE DEF q1
  <2>3. [s1 EXCEPT !.q = Schedule(@, "refresh", r, 0), !.k.refreshState = "REF_START"] = s
    <3> DEFINE t1 == [s1 EXCEPT !.q = Schedule(@, "refresh", r, 0)]
    <3> HIDE DEF q2
    <3>1. t1 = [q |-> q2, k |-> k1]
      BY DEF q2
    <3> HIDE DEF t1
    <3>2. [t1 EXCEPT !.k.refreshState = "REF_START"] = s
      BY <3>1
    <3> QED
      BY <3>2 DEF t1
  <2> QED
    BY <2>1, <2>2, <2>3, Zenon DEF EnterRef
<1>5. ~Scheduled(q1, "refresh", r)
  BY <1>1 DEF RankOK, PhaseOK
<1>6. /\ QueueOK(q2)
      /\ \A e2, r2, t : At(q2, e2, r2, t) <=>
            At(q1, e2, r2, t) \/ (e2 = "refresh" /\ r2 = r /\ t = 0)
      /\ \A r2 : r2 # r => Untouched(q1, q2, r2)
      /\ AtHead(q2, "refresh", r)
  BY <1>1, <1>5, ScheduleOK DEF EventKinds
<1> HIDE DEF q2, k2
<1>7. \A e2, r2 : Scheduled(q2, e2, r2) <=>
          Scheduled(q1, e2, r2) \/ (e2 = "refresh" /\ r2 = r)
  BY <1>1, <1>6, WhenOK
<1>8. Quiet(q2, k2, r, respQueue)
  BY <1>1, <1>3, <1>7 DEF Quiet, Closed
<1>9. AllCovered(q2, k2, r, respQueue)
  BY <1>6, <1>8, WhenOK DEF AllCovered, Quiet
<1>10. Counted(q2, k2, r, respQueue)
  <2>1. /\ One(Scheduled(q2, "precharge", r)) = One(Scheduled(q1, "precharge", r))
        /\ One(Scheduled(q2, "writeDone", r)) = One(Scheduled(q1, "writeDone", r))
        /\ One(k2.refreshState # "REF_IDLE") = One(k.refreshState # "REF_IDLE")
    BY <1>3, <1>7 DEF One
  <2> QED
    BY <1>1, <1>3, <2>1 DEF Counted
<1>11. PowerOK(q2, k2, r, respQueue)
  BY <1>1, <1>3, <1>7 DEF PowerOK
<1>12. PhaseOK(q2, k2, r, respQueue)
  BY <1>3, <1>6, <1>8 DEF PhaseOK
<1>13. RankOK(q2, k2, r, respQueue)
  BY <1>1, <1>3, <1>7, <1>9, <1>10, <1>11, <1>12 DEF RankOK
<1>14. Powered(eventq, k, q2, k2, r)
  BY <1>1, <1>3, <1>6 DEF Powered
<1>15. s.q = q2 /\ s.k = k2 /\ Become(r, s)
  BY <1>4 DEF k1
<1>16. \A t : At(q2, "respond", 0, t) <=> At(q1, "respond", 0, t)
  BY <1>6
<1> HIDE DEF s, q1
<1> QED
  BY <1>1, <1>6, <1>13, <1>14, <1>15, <1>16, PowerStepOK DEF q1

(* The refresh is over. *)
LEMMA PowerLeave ==
    ASSUME Ctl, NEW r \in Ranks, Fire("power", r), UNCHANGED ctrl,
           rk[r].refreshState = "REF_RUN", rk[r].pwrStateTrans = "IDLE",
           Become(r, LeaveRefresh([q |-> Tail(eventq),
                                   k |-> [rk[r] EXCEPT !.pwrState = "IDLE"]]))
    PROVE  Ctl' /\ KeptOthers(r) /\ Powered(eventq, rk[r], eventq', rk'[r], r)
<1> DEFINE q1 == Tail(eventq)
           k  == rk[r]
           k1 == [k EXCEPT !.pwrState = "IDLE"]
           n  == k1.outstandingEvents - 1
           ka == [k1 EXCEPT !.outstandingEvents = n]
           k2 == [ka EXCEPT !.refreshState = "REF_IDLE"]
           s1 == [q |-> q1, k |-> k1]
           q2 == KickNextReq(q1)
           s  == [q |-> q2, k |-> k2]
<1>1. /\ RankOK(eventq, k, r, respQueue) /\ k \in RankState
      /\ r \in 0 .. numRanks /\ r # 0 /\ QueueOK(q1) /\ QueueOK(eventq)
      /\ \A e2, r2, t : At(q1, e2, r2, t) <=>
            At(eventq, e2, r2, t) /\ ~(e2 = "power" /\ r2 = r)
      /\ \A e2, r2 : Scheduled(q1, e2, r2) <=>
            Scheduled(eventq, e2, r2) /\ ~(e2 = "power" /\ r2 = r)
      /\ Quiet(q1, k, r, respQueue)
      /\ Counted(q1, k, r, respQueue)
  BY PowerFacts
<1>2. /\ k1 \in RankState /\ k1.pwrState = "IDLE"
      /\ k1.refreshState = k.refreshState /\ k1.refreshDueAt = k.refreshDueAt
      /\ k1.banks = k.banks /\ k1.outstandingEvents = k.outstandingEvents
  BY <1>1, PowerStateFields DEF PowerStates
<1> HIDE DEF k1
<1>3. n \in Int /\ n = k.outstandingEvents - 1
  BY <1>2, RankTypes
<1> HIDE DEF n
<1>4. /\ ka \in RankState /\ ka.pwrState = "IDLE"
      /\ ka.refreshDueAt = k.refreshDueAt
      /\ ka.banks = k.banks /\ ka.outstandingEvents = n
  BY <1>2, <1>3 DEF RankState
<1> HIDE DEF ka
<1>5. /\ k2 \in RankState /\ k2.pwrState = "IDLE" /\ k2.refreshState = "REF_IDLE"
      /\ k2.refreshDueAt = k.refreshDueAt
      /\ k2.banks = k.banks /\ k2.outstandingEvents = n
  BY <1>4 DEF RankState
<1>6. LeaveRefresh(s1) = s
  <2> DEFINE t1 == [s1 EXCEPT !.k.outstandingEvents = @ - 1]
             t2 == [t1 EXCEPT !.k.refreshState = "REF_IDLE"]
             t3 == [t2 EXCEPT !.q = KickNextReq(@)]
  <2> HIDE DEF q1, k2
  <2>1. LeaveRefresh(s1) = t3
    BY DEF LeaveRefresh
  <2>2. t1 = [q |-> q1, k |-> ka]
    BY DEF ka, n
  <2> HIDE DEF t1
  <2>3. t2 = [q |-> q1, k |-> k2]
    BY <2>2 DEF k2
  <2> HIDE DEF t2
  <2>4. t3 = s
    BY <2>3
  <2> QED
    BY <2>1, <2>4
<1>7. /\ QueueOK(q2) /\ nextReqScheduled(q2)
      /\ \A e2, r2, t : At(q2, e2, r2, t) <=>
            \/ At(q1, e2, r2, t)
            \/ ~nextReqScheduled(q1) /\ e2 = "nextReq" /\ r2 = 0 /\ t = 0
      /\ \A r2 : r2 # 0 => Untouched(q1, q2, r2)
  BY <1>1, KickOK
<1> HIDE DEF q2, k2
<1>8. \A e2 : Scheduled(q2, e2, r) <=> Scheduled(q1, e2, r)
  BY <1>1, <1>7, WhenOK
<1>9. Quiet(q2, k2, r, respQueue)
  BY <1>1, <1>5, <1>8 DEF Quiet, Closed
<1>10. AllCovered(q2, k2, r, respQueue)
  BY <1>7, <1>9, WhenOK DEF AllCovered, Quiet
<1>11. Counted(q2, k2, r, respQueue)
  <2>1. /\ One(Scheduled(q2, "precharge", r)) = 0 /\ One(Scheduled(q1, "precharge", r)) = 0
        /\ One(Scheduled(q2, "writeDone", r)) = 0 /\ One(Scheduled(q1, "writeDone", r)) = 0
        /\ One(k2.refreshState # "REF_IDLE") = 0 /\ One(k.refreshState # "REF_IDLE") = 1
    BY <1>1, <1>5, <1>8 DEF One, Quiet
  <2>2. Flying(respQueue, r) \in Nat /\ k.outstandingEvents \in Int
    BY <1>1, FlyingNat, RankTypes DEF Ctl, Responses
  <2> QED
    BY <1>1, <1>3, <1>5, <2>1, <2>2 DEF Counted
<1>12. PowerOK(q2, k2, r, respQueue)
  BY <1>1, <1>5, <1>8 DEF PowerOK
<1>13. PhaseOK(q2, k2, r, respQueue)
  <2>1. Scheduled(eventq, "refresh", r)
    BY <1>1 DEF RankOK, PhaseOK
  <2> QED
    BY <1>1, <1>5, <1>8, <2>1 DEF PhaseOK
<1>14. RankOK(q2, k2, r, respQueue)
  BY <1>1, <1>5, <1>8, <1>10, <1>11, <1>12, <1>13 DEF RankOK
<1>15. Powered(eventq, k, q2, k2, r)
  <2>1. nextReqScheduled(q1) <=> nextReqScheduled(eventq)
    BY <1>1 DEF nextReqScheduled
  <2> QED
    BY <1>1, <1>5, <1>7, <2>1 DEF Powered
<1>16. s.q = q2 /\ s.k = k2 /\ Become(r, s)
  BY <1>6 DEF k1
<1>17. \A t : At(q2, "respond", 0, t) <=> At(q1, "respond", 0, t)
  BY <1>7
<1> HIDE DEF s, q1
<1> QED
  BY <1>1, <1>7, <1>14, <1>15, <1>16, <1>17, PowerStepOK DEF q1

(* A power event reaches the state it was scheduled for; that of a refresh *)
(* has its refresh event next.                                             *)
LEMMA PowerCtl ==
    ASSUME Ctl, NEW r \in Ranks, processPowerEvent(r)
    PROVE  Ctl' /\ KeptOthers(r) /\ Powered(eventq, rk[r], eventq', rk'[r], r)
<1> DEFINE q1 == Tail(eventq)
           k  == rk[r]
           to == k.pwrStateTrans
           s0 == [q |-> q1, k |-> [k EXCEPT !.pwrState = to]]
           s1 == IF k.pwrState = "REF" THEN LeaveRefresh(s0) ELSE s0
           s2 == IF s1.k.pwrState = "ACT" /\ s1.k.refreshState = "REF_PD_EXIT"
                 THEN [s1 EXCEPT !.k.refreshState = "REF_PRE",
                                !.q = Schedule(@, "refresh", r, 0)]
                 ELSE IF s1.k.pwrState = "IDLE" THEN EnterIdle(s1, r, k.pwrState)
                 ELSE s1
           s3 == IF s2.k.pwrState = "REF" THEN EnterRef(s2, r) ELSE s2
<1>1. /\ k \in RankState /\ QueueOK(q1)
      /\ k.refreshState \notin {"REF_START", "REF_PD_EXIT"}
      /\ Quiet(eventq, k, r, respQueue) => Quiet(q1, k, r, respQueue)
      /\ to = "ACT" =>
            Busy(eventq, k, r) /\ k.refreshState \in {"REF_IDLE", "REF_DRAIN", "REF_PRE"}
      /\ to = "IDLE" => Quiet(eventq, k, r, respQueue)
      /\ to = "REF" => Quiet(eventq, k, r, respQueue) /\ k.refreshState = "REF_PRE"
      /\ k.pwrState = "REF" <=> k.refreshState = "REF_RUN"
      /\ to \in {"IDLE", "ACT", "REF"}
      /\ Fire("power", r)
  BY PowerFacts DEF processPowerEvent
<1>2. Fire("power", r) /\ UNCHANGED ctrl /\ Become(r, s3)
  <2>1. [Step(r) EXCEPT !.k.pwrState = rk[r].pwrStateTrans] = s0
    <3>1. Step(r) = [q |-> q1, k |-> k]
      BY DEF Step
    <3> HIDE DEF q1
    <3>2. [[q |-> q1, k |-> k] EXCEPT !.k.pwrState = to] = s0
      <4> HIDE DEF k, to
      <4> QED
        OBVIOUS
    <3> QED
      BY <3>1, <3>2
  <2> HIDE DEF s0
  <2> QED
    BY <2>1, Zenon DEF processPowerEvent
<1>3. /\ s0.q = q1 /\ s0.k \in RankState /\ s0.k.pwrState = to
      /\ s0.k.refreshState = k.refreshState
  <2> DEFINE k1 == [k EXCEPT !.pwrState = to]
  <2>1. to \in PowerStates
    BY <1>1 DEF PowerStates
  <2>2. k1 \in RankState /\ k1.pwrState = to /\ k1.refreshState = k.refreshState
    BY <1>1, <2>1, PowerStateFields
  <2>3. s0.q = q1 /\ s0.k = k1
    OBVIOUS
  <2> HIDE DEF k1, s0
  <2> QED
    BY <2>2, <2>3
<1>4. k.pwrState \in {"IDLE", "ACT", "REF"}
  BY <1>1, RankTypes DEF PowerStates
<1>5. CASE k.pwrState = "REF"
  <2>1. to = "IDLE" /\ k.refreshState = "REF_RUN"
    BY <1>1, <1>5
  <2> HIDE DEF s0
  <2>2. LeaveRefresh(s0).k.pwrState = "IDLE" /\ LeaveRefresh(s0).k.refreshState = "REF_IDLE"
        /\ LeaveRefresh(s0).q = KickNextReq(q1)
    <3> DEFINE t1 == [s0 EXCEPT !.k.outstandingEvents = @ - 1]
               t2 == [t1 EXCEPT !.k.refreshState = "REF_IDLE"]
               t3 == [t2 EXCEPT !.q = KickNextReq(@)]
               ka == [s0.k EXCEPT !.outstandingEvents = @ - 1]
               kb == [ka EXCEPT !.refreshState = "REF_IDLE"]
    <3>1. LeaveRefresh(s0) = t3
      BY DEF LeaveRefresh
    <3>2. s0 = [q |-> q1, k |-> s0.k]
      BY DEF s0
    <3> HIDE DEF q1
    <3>3. t1 = [q |-> q1, k |-> ka]
      BY <3>2
    <3>4. ka.pwrState = "IDLE" /\ DOMAIN ka = DOMAIN s0.k
      BY <1>3, <2>1 DEF RankState
    <3>5. "refreshState" \in DOMAIN s0.k
      BY <1>3 DEF RankState
    <3> HIDE DEF t1, ka
    <3>6. t2 = [q |-> q1, k |-> kb]
      BY <3>3
    <3>7. kb.pwrState = "IDLE" /\ kb.refreshState = "REF_IDLE"
      BY <3>4, <3>5
    <3> HIDE DEF t2, kb
    <3>8. t3.k = kb /\ t3.q = KickNextReq(q1)
      BY <3>6
    <3> QED
      BY <3>1, <3>7, <3>8
  <2>3. ~Scheduled(KickNextReq(q1), "activate", r)
    <3>1. ~Scheduled(q1, "activate", r)
      BY <1>1, <2>1 DEF Quiet
    <3>2. r # 0
      BY Constants DEF Ranks
    <3> HIDE DEF q1
    <3>3. /\ QueueOK(KickNextReq(q1))
          /\ \A e2, r2, t : At(KickNextReq(q1), e2, r2, t) <=>
                \/ At(q1, e2, r2, t)
                \/ ~nextReqScheduled(q1) /\ e2 = "nextReq" /\ r2 = 0 /\ t = 0
      BY <1>1, KickOK
    <3> QED
      BY <1>1, <3>1, <3>2, <3>3, WhenOK
  <2>4. s3 = LeaveRefresh(s0)
    BY <1>5, <2>2, <2>3 DEF EnterIdle
  <2>5. Become(r, LeaveRefresh([q |-> Tail(eventq), k |-> [rk[r] EXCEPT !.pwrState = "IDLE"]]))
    BY <1>2, <2>1, <2>4 DEF s0
  <2> QED
    BY <1>2, <2>1, <2>5, PowerLeave
<1>6. CASE k.pwrState # "REF" /\ to = "ACT"
  <2> HIDE DEF s0
  <2>1. s3 = s0
    BY <1>1, <1>3, <1>6
  <2>2. Become(r, s0)
    BY <1>2, <2>1
  <2> QED
    BY <1>1, <1>2, <1>6, <2>2, PowerPlain DEF s0
<1>7. CASE k.pwrState # "REF" /\ to = "REF"
  <2>1. Become(r, EnterRef([q |-> Tail(eventq), k |-> [rk[r] EXCEPT !.pwrState = "REF"]], r))
    <3> HIDE DEF s0
    <3>1. s3 = EnterRef(s0, r)
      BY <1>1, <1>3, <1>7
    <3>2. Become(r, EnterRef(s0, r))
      BY <1>2, <3>1
    <3> QED
      BY <1>7, <3>2 DEF s0
  <2> QED
    BY <1>1, <1>2, <1>7, <2>1, PowerRef
<1>8. CASE k.pwrState # "REF" /\ to = "IDLE"
  <2>1. s1 = s0 /\ s2 = EnterIdle(s0, r, k.pwrState)
    <3> HIDE DEF s0
    <3> QED
      BY <1>3, <1>8
  <2>2. ~Scheduled(q1, "activate", r) /\ k.pwrState # "SREF"
    BY <1>1, <1>4, <1>8 DEF Quiet
  <2>3. CASE k.refreshState = "REF_PRE"
    <3> DEFINE kr == [k EXCEPT !.pwrState = "REF"]
    <3>1. s2 = [s0 EXCEPT !.k.pwrState = "REF"]
      <4> HIDE DEF s0
      <4> QED
        BY <1>3, <2>1, <2>2, <2>3 DEF EnterIdle
    <3>2. [s0 EXCEPT !.k.pwrState = "REF"] = [q |-> q1, k |-> kr]
      <4> DEFINE k1 == [k EXCEPT !.pwrState = to]
                 x  == [q |-> q1, k |-> k1]
      <4>1. [k1 EXCEPT !.pwrState = "REF"] = kr
        BY <1>1 DEF RankState
      <4>2. s0 = x
        OBVIOUS
      <4> HIDE DEF q1, k1, kr, s0
      <4>3. [x EXCEPT !.k.pwrState = "REF"] = [q |-> q1, k |-> kr]
        BY <4>1
      <4> QED
        BY <4>2, <4>3
    <3>3. kr.pwrState = "REF"
      BY <1>1 DEF RankState
    <3>4. s3 = EnterRef([q |-> q1, k |-> kr], r)
      <4> DEFINE x == [q |-> q1, k |-> kr]
      <4>1. s2 = x /\ x.k = kr
        BY <3>1, <3>2, SMTT(30)
      <4> HIDE DEF s2, x, kr
      <4> QED
        BY <3>3, <4>1, SMTT(30) DEF x
    <3>5. Become(r, EnterRef([q |-> Tail(eventq), k |-> [rk[r] EXCEPT !.pwrState = "REF"]], r))
      BY <1>2, <3>4
    <3> QED
      BY <1>1, <1>2, <1>8, <2>3, <3>5, PowerRef
  <2>4. CASE k.refreshState # "REF_PRE"
    <3>1. k.refreshState \in {"REF_IDLE", "REF_DRAIN"}
      BY <1>1, <1>8, <2>4 DEF RankState
    <3> HIDE DEF s0
    <3>2. s2 = s0
      BY <1>3, <2>1, <2>2, <3>1 DEF EnterIdle
    <3>3. s3 = s0
      BY <1>3, <1>8, <3>2
    <3>4. Become(r, s0)
      BY <1>2, <3>3
    <3> QED
      BY <1>2, <1>8, <3>1, <3>4, PowerPlain DEF s0
  <2> QED
    BY <2>3, <2>4
<1> QED
  BY <1>1, <1>5, <1>6, <1>7, <1>8

----------------------------------------------------------------------------
(* Responses *)

(* A read is issued. *)
LEMMA FlyingAppend ==
    ASSUME NEW resp \in Seq(Response), NEW e \in Response, NEW r
    PROVE  LET resp2 == Append(resp, e)
           IN  /\ resp2 \in Seq(Response)
               /\ Flying(resp2, r) = Flying(resp, r) + One(e.rank = r)
               /\ \A t : Flies(resp2, r, t) <=>
                     Flies(resp, r, t) \/ (e.rank = r /\ e.at = t)
<1> DEFINE resp2 == Append(resp, e)
           n == Len(resp) + 1
           F == {i \in DOMAIN resp : resp[i].rank = r}
           F2 == {i \in DOMAIN resp2 : resp2[i].rank = r}
<1>1. /\ Len(resp) \in Nat /\ DOMAIN resp = 1 .. Len(resp)
      /\ resp2 \in Seq(Response) /\ DOMAIN resp2 = 1 .. n
      /\ \A i \in 1 .. Len(resp) : resp2[i] = resp[i]
      /\ resp2[n] = e
  OBVIOUS
<1> HIDE DEF resp2
<1>2. /\ n \in DOMAIN resp2 /\ n \notin F
      /\ \A i \in DOMAIN resp2 : i = n \/ i \in DOMAIN resp
      /\ \A i \in DOMAIN resp : i \in DOMAIN resp2
  BY <1>1
<1>3. F2 = IF e.rank = r THEN F \cup {n} ELSE F
  BY <1>1, <1>2
<1>4. IsFiniteSet(F) /\ Cardinality(F) \in Nat
  BY FlyingNat DEF Flying
<1>5. Cardinality(F \cup {n}) = Cardinality(F) + 1
  BY <1>2, <1>4, FS_AddElement
<1>6. Cardinality(F2) = Cardinality(F) + One(e.rank = r)
  <2> HIDE DEF F, F2
  <2> QED
    BY <1>3, <1>4, <1>5 DEF One
<1>7. \A t : Flies(resp2, r, t) <=> Flies(resp, r, t) \/ (e.rank = r /\ e.at = t)
  BY <1>1, <1>2 DEF Flies
<1> QED
  BY <1>1, <1>6, <1>7 DEF Flying, resp2

(* A read is answered. *)
LEMMA FlyingTail ==
    ASSUME NEW resp \in Seq(Response), resp # <<>>, NEW r
    PROVE  LET rest == Tail(resp)
           IN  /\ rest \in Seq(Response) /\ Len(rest) = Len(resp) - 1
               /\ \A i \in DOMAIN rest : rest[i] = resp[i + 1] /\ i + 1 \in DOMAIN resp
               /\ Flying(resp, r) = Flying(rest, r) + One(resp[1].rank = r)
               /\ \A t : Flies(rest, r, t) => Flies(resp, r, t)
<1> DEFINE rest == Tail(resp)
           F  == {i \in DOMAIN resp : resp[i].rank = r}
           G  == F \ {1}
           F2 == {i \in DOMAIN rest : rest[i].rank = r}
           f  == [i \in F2 |-> i + 1]
<1>1. /\ Len(resp) \in Nat /\ DOMAIN resp = 1 .. Len(resp) /\ Len(resp) # 0
      /\ rest \in Seq(Response) /\ Len(rest) = Len(resp) - 1
      /\ DOMAIN rest = 1 .. Len(resp) - 1
      /\ \A i \in DOMAIN rest : rest[i] = resp[i + 1]
  OBVIOUS
<1> HIDE DEF rest
<1>2. 1 \in DOMAIN resp /\ \A i \in DOMAIN rest : i + 1 \in DOMAIN resp /\ i + 1 # 1
  BY <1>1
<1>3. \A i \in DOMAIN resp : i # 1 => i - 1 \in DOMAIN rest /\ i - 1 + 1 = i
  BY <1>1
<1>4. f \in [F2 -> G]
  BY <1>1, <1>2
<1>5. \A i, j \in F2 : f[i] = f[j] => i = j
  BY <1>1
<1>6. \A i \in G : \E j \in F2 : f[j] = i
  <2> SUFFICES ASSUME NEW i \in G PROVE \E j \in F2 : f[j] = i
    OBVIOUS
  <2>1. i - 1 \in F2 /\ f[i - 1] = i
    BY <1>1, <1>3
  <2> QED
    BY <2>1
<1>7. IsFiniteSet(F) /\ IsFiniteSet(F2) /\ Cardinality(F) \in Nat
      /\ Cardinality(F2) \in Nat
  BY <1>1, FlyingNat DEF Flying
<1>8. Cardinality(G) = Cardinality(F2)
  <2> HIDE DEF f, F2, G
  <2>1. IsFiniteSet(G)
    BY <1>7, FS_RemoveElement DEF G
  <2> QED
    BY <1>4, <1>5, <1>6, <2>1, SameSize
<1>9. Cardinality(G) = IF 1 \in F THEN Cardinality(F) - 1 ELSE Cardinality(F)
  BY <1>7, FS_RemoveElement
<1>10. 1 \in F <=> resp[1].rank = r
  BY <1>2
<1>11. Cardinality(F) = Cardinality(F2) + One(resp[1].rank = r)
  <2> HIDE DEF F, F2, G
  <2> QED
    BY <1>7, <1>8, <1>9, <1>10 DEF One
<1>12. \A t : Flies(rest, r, t) => Flies(resp, r, t)
  BY <1>1, <1>2 DEF Flies
<1> QED
  BY <1>1, <1>2, <1>11, <1>12 DEF Flying, rest

(* The first read is answered, and the next response scheduled. *)
LEMMA RespondCtl ==
    ASSUME Ctl, ~enableDRAMPowerdown, processRespondEvent
    PROVE  Ctl' /\ Kept /\ (nextReqScheduled(eventq') <=> nextReqScheduled(eventq))
<1> DEFINE r    == Head(respQueue).rank
           rest == Tail(respQueue)
           q1 == Tail(eventq)
           k  == rk[r]
           k2 == [k EXCEPT !.outstandingEvents = @ - 1]
           s1 == [q |-> q1, k |-> k2]
           q2 == IF rest # <<>> THEN Schedule(q1, "respond", 0, rest[1].at) ELSE q1
           s  == [q |-> q2, k |-> k2]
<1>1. /\ Fire("respond", 0) /\ respQueue' = rest
      /\ UNCHANGED <<activeRank, nextBurstAt, reads, writes, busStateNext, draining>>
  BY DEF processRespondEvent
<1>2. /\ QueueOK(eventq) /\ Responses(eventq, respQueue, rk) /\ 0 \in 0 .. numRanks
      /\ rk \in [Ranks -> RankState] /\ 0 \notin Ranks
      /\ \A r2 \in Ranks : RankOK(eventq, rk[r2], r2, respQueue)
  BY Constants DEF Ctl, Ranks
<1>3. /\ At(eventq, "respond", 0, 0) /\ Scheduled(eventq, "respond", 0)
      /\ \A r2 \in Ranks : ~Scheduled(eventq, "power", r2)
                           /\ rk[r2].refreshState # "REF_START"
      /\ QueueOK(q1) /\ ~Scheduled(q1, "respond", 0)
      /\ \A e2, r2, t : At(q1, e2, r2, t) <=>
            At(eventq, e2, r2, t) /\ ~(e2 = "respond" /\ r2 = 0)
      /\ \A e2, r2 : Scheduled(q1, e2, r2) <=>
            Scheduled(eventq, e2, r2) /\ ~(e2 = "respond" /\ r2 = 0)
      /\ \A r2 : r2 # 0 => Untouched(eventq, q1, r2)
  BY <1>1, <1>2, FireFacts
<1>4. /\ respQueue \in Seq(Response) /\ respQueue # <<>> /\ respQueue[1].at = 0
  BY <1>2, <1>3 DEF Responses
<1>5. /\ r = respQueue[1].rank /\ 1 \in DOMAIN respQueue /\ r \in Ranks
      /\ \A i \in DOMAIN respQueue : respQueue[i].at \in Nat
  BY <1>4, ResponseTypes
<1>6. /\ rest \in Seq(Response)
      /\ \A i \in DOMAIN rest : rest[i] = respQueue[i + 1] /\ i + 1 \in DOMAIN respQueue
      /\ \A r2 : /\ Flying(respQueue, r2) = Flying(rest, r2) + One(r = r2)
                 /\ \A t : Flies(rest, r2, t) => Flies(respQueue, r2, t)
  BY <1>4, <1>5, FlyingTail
<1>7. \A r2 : Flying(respQueue, r2) \in Nat /\ Flying(rest, r2) \in Nat
  BY <1>4, <1>6, FlyingNat
<1>8. /\ [[q |-> q1, k |-> k] EXCEPT !.k.outstandingEvents = @ - 1] = s1
      /\ k2 \in RankState
      /\ k2.refreshState = k.refreshState
      /\ k2.refreshDueAt = k.refreshDueAt
      /\ k2.pwrState = k.pwrState /\ k2.banks = k.banks
      /\ k2.pwrStateTrans = k.pwrStateTrans
      /\ k2.outstandingEvents = k.outstandingEvents - 1
  <2>1. k \in RankState
    BY <1>2, <1>5
  <2> QED
    BY <2>1, UncountFields
<1>9. respondEvent(Step(r), r, rest) = s1
  <2>1. Step(r) = [q |-> q1, k |-> k]
    BY DEF Step
  <2>2. [Step(r) EXCEPT !.k.outstandingEvents = @ - 1] = s1
    BY <1>8, <2>1
  <2> HIDE DEF s1
  <2> QED
    BY <2>2 DEF respondEvent
<1>10. rest = <<>> => checkRefreshState(s1, r) = s1
  <2>1. k.refreshState = "REF_PRE" => Scheduled(q1, "precharge", r)
    <3> SUFFICES ASSUME k.refreshState = "REF_PRE" PROVE Scheduled(q1, "precharge", r)
      OBVIOUS
    <3>1. RankOK(eventq, k, r, respQueue)
      BY <1>2, <1>5
    <3>2. Flies(respQueue, r, 0)
      BY <1>4, <1>5 DEF Flies
    <3>3. Covered(eventq, k, r, 0) /\ Closed(k)
      BY <3>1, <3>2 DEF RankOK, AllCovered, PhaseOK
    <3>4. Scheduled(eventq, "precharge", r)
      BY <1>2, <3>3, WhenOK DEF Covered, Closed
    <3> QED
      BY <1>3, <3>4
  <2>2. s1.q = q1 /\ s1.k = k2
    OBVIOUS
  <2> HIDE DEF s1, q1, k2, r, k
  <2> QED
    BY <1>8, <2>1, <2>2 DEF checkRefreshState
<1>11. /\ rest # <<>> => rest[1].at \in Nat /\ 1 \in DOMAIN rest /\ rest[1].at = respQueue[2].at
       /\ \A i, j \in DOMAIN rest : i < j => rest[i].at <= rest[j].at
       /\ \A i \in DOMAIN rest : rest[i].at \in Nat /\ i + 1 \in DOMAIN respQueue
                                 /\ rest[i].at = respQueue[i + 1].at
  <2>1. DOMAIN rest = 1 .. Len(rest) /\ Len(rest) \in Nat /\ (rest # <<>> => Len(rest) # 0)
    BY <1>6
  <2>2. \A i \in DOMAIN rest : rest[i].at \in Nat
    BY <1>6, ResponseTypes
  <2>3. DOMAIN respQueue \subseteq Nat
    BY <1>4
  <2> HIDE DEF rest
  <2>4. ASSUME NEW i \in DOMAIN rest, NEW j \in DOMAIN rest, i < j
        PROVE  rest[i].at <= rest[j].at
    <3>1. i + 1 < j + 1 /\ i + 1 \in DOMAIN respQueue /\ j + 1 \in DOMAIN respQueue
      BY <1>6, <2>1, <2>4
    <3> QED
      BY <1>2, <1>6, <3>1 DEF Responses
  <2>5. rest # <<>> => 1 \in DOMAIN rest /\ 1 + 1 = 2
    BY <2>1
  <2> QED
    BY <1>6, <2>2, <2>4, <2>5
<1>12. Become(r, s)
  <2>1. CASE rest # <<>>
    <3>1. [s1 EXCEPT !.q = Schedule(@, "respond", 0, rest[1].at)] = s
      <4> DEFINE z == Schedule(q1, "respond", 0, rest[1].at)
      <4>1. q2 = z
        BY <2>1
      <4> HIDE DEF q1, k2, q2, rest
      <4>2. [s1 EXCEPT !.q = Schedule(@, "respond", 0, rest[1].at)] = [q |-> z, k |-> k2]
        OBVIOUS
      <4> QED
        BY <4>1, <4>2
    <3> HIDE DEF s, s1
    <3> QED
      BY <1>9, <2>1, <3>1 DEF processRespondEvent
  <2>2. CASE rest = <<>>
    <3>1. s = s1
      BY <2>2
    <3> HIDE DEF s, s1
    <3> QED
      BY <1>9, <1>10, <2>2, <3>1 DEF processRespondEvent
  <2> QED
    BY <2>1, <2>2
<1>13. /\ QueueOK(q2)
       /\ \A e2, r2, t : ~(e2 = "respond" /\ r2 = 0) =>
             (At(q2, e2, r2, t) <=> At(eventq, e2, r2, t))
       /\ \A t : At(q2, "respond", 0, t) <=> rest # <<>> /\ t = rest[1].at
       /\ \A r2 : r2 # 0 => Untouched(eventq, q2, r2)
  <2>1. \A t : ~At(q1, "respond", 0, t)
    BY <1>3
  <2>2. CASE rest # <<>>
    <3> DEFINE z == Schedule(q1, "respond", 0, rest[1].at)
    <3>1. q2 = z
      BY <2>2
    <3>2. "respond" \in EventKinds /\ rest[1].at \in Nat
      BY <1>11, <2>2 DEF EventKinds
    <3> HIDE DEF q1, rest
    <3>3. /\ QueueOK(z)
          /\ \A e2, r2, t : At(z, e2, r2, t) <=>
                At(q1, e2, r2, t) \/ (e2 = "respond" /\ r2 = 0 /\ t = rest[1].at)
          /\ \A r2 : r2 # 0 => Untouched(q1, z, r2)
      BY <1>2, <1>3, <3>2, ScheduleOK
    <3> HIDE DEF z, q2
    <3>4. \A r2 : r2 # 0 => Untouched(eventq, z, r2)
      BY <1>3, <3>3 DEF Untouched
    <3> QED
      BY <1>3, <2>1, <2>2, <3>1, <3>3, <3>4
  <2>3. CASE rest = <<>>
    <3>1. q2 = q1
      BY <2>3
    <3> HIDE DEF q2, q1, rest
    <3> QED
      BY <1>3, <2>1, <2>3, <3>1
  <2> QED
    BY <2>2, <2>3
<1>14. eventq' = q2 /\ rk' = [rk EXCEPT ![r] = k2]
  <2>1. s.q = q2 /\ s.k = k2
    OBVIOUS
  <2> HIDE DEF s
  <2> QED
    BY <1>12, <2>1 DEF Become
<1> HIDE DEF q2, k2, rest, r, q1, s
<1>15. /\ rk' \in [Ranks -> RankState]
       /\ rk'[r] = k2
       /\ \A r2 \in Ranks : r2 # r => rk'[r2] = rk[r2]
  BY <1>2, <1>5, <1>8, <1>14
<1>16. ASSUME NEW r2 \in Ranks
       PROVE  /\ SameRank(rk[r2], rk'[r2]) /\ rk'[r2].banks = rk[r2].banks
              /\ rk'[r2].outstandingEvents = rk[r2].outstandingEvents - One(r = r2)
  <2>1. rk[r2] \in RankState
    BY <1>2
  <2>2. CASE r2 = r
    BY <1>8, <1>15, <2>1, <2>2, RankTypes DEF SameRank, SameScalars, One
  <2>3. CASE r2 # r
    BY <1>15, <2>1, <2>3, RankTypes DEF SameRank, SameScalars, One
  <2> QED
    BY <2>2, <2>3
<1>17. nextReqScheduled(eventq) <=> nextReqScheduled(q2)
  BY <1>2, <1>13, WhenOK DEF nextReqScheduled
<1>18. ASSUME NEW r2 \in Ranks
       PROVE  RankOK(q2, rk'[r2], r2, rest)
  <2>1. SameReads(rk[r2], rk'[r2], respQueue, rest, r2)
    <3>1. rk[r2].outstandingEvents \in Int
      BY <1>2, RankTypes
    <3>2. One(r = r2) \in Int
      BY DEF One
    <3> DEFINE o == rk[r2].outstandingEvents
               f == Flying(rest, r2)
               x == One(r = r2)
    <3>3. /\ rk'[r2].outstandingEvents = o - x /\ Flying(respQueue, r2) = f + x
          /\ f \in Nat /\ f + x \in Nat
      BY <1>6, <1>7, <1>16
    <3> HIDE DEF o, f, x
    <3>4. (o - x) - f = o - (f + x)
      BY <3>1, <3>2, <3>3 DEF o, x
    <3>5. \A t : Flies(rest, r2, t) => Flies(respQueue, r2, t)
      BY <1>6
    <3> QED
      BY <3>3, <3>4, <3>5 DEF SameReads, o, f
  <2>2. rk[r2].refreshState = "REF_DRAIN" => Scheduled(q2, "nextReq", 0)
    BY <1>2, <1>17 DEF RankOK, PhaseOK, nextReqScheduled
  <2>3. Untouched(eventq, q2, r2)
    BY <1>2, <1>13
  <2> QED
    BY <1>2, <1>3, <1>13, <1>16, <2>1, <2>2, <2>3, Frame
<1>19. Responses(q2, rest, rk')
  <2>1. rest # <<>> <=> Scheduled(q2, "respond", 0)
    BY <1>11, <1>13, WhenOK
  <2>2. \A i \in DOMAIN rest, r2 \in Ranks, b \in Banks :
           rest[i].at <= rk'[r2].banks[b].colAt + tCL + tBURST
    BY <1>2, <1>11, <1>16 DEF Responses
  <2> QED
    BY <1>6, <1>11, <1>13, <2>1, <2>2 DEF Responses
<1>20. Ctl'
  <2>1. CtrlOK'
    BY <1>1 DEF Ctl, CtrlOK
  <2> QED
    BY <1>1, <1>13, <1>14, <1>15, <1>18, <1>19, <2>1 DEF Ctl
<1>21. Kept
  <2>1. \A r2 \in Ranks : KeptRank(eventq, rk[r2], eventq', rk'[r2], r2)
    BY <1>2, <1>13, <1>14, <1>16 DEF KeptRank, SameRank, SameScalars
  <2> QED
    BY <1>1, <1>13, <1>14, <1>17, <2>1 DEF Kept
<1> QED
  BY <1>14, <1>17, <1>20, <1>21

----------------------------------------------------------------------------
(* Requests and drains *)

(* No rank has more bursts waiting than all of them. *)
LEMMA TotalBound ==
    ASSUME NEW n \in Nat, NEW count \in [Ranks -> 0 .. n], NEW r \in Ranks
    PROVE  Total(count) \in Nat /\ count[r] <= Total(count)
<1> DEFINE A == {r} \X (1 .. count[r])
           U == UNION {{r2} \X (1 .. count[r2]) : r2 \in Ranks}
           P == Ranks \X (1 .. n)
<1>1. IsFiniteSet(Ranks) /\ IsFiniteSet(1 .. n) /\ IsFiniteSet({r})
  <2>1. numRanks \in Nat
    BY Constants
  <2> QED
    BY <2>1, FirstN, FS_Singleton DEF Ranks
<1>2. \A r2 \in Ranks : count[r2] \in 0 .. n
  OBVIOUS
<1>3. \A r2 \in Ranks : 1 .. count[r2] \subseteq 1 .. n
  BY <1>2
<1>4. U \subseteq P
  <2> SUFFICES ASSUME NEW x \in U PROVE x \in P
    OBVIOUS
  <2>1. PICK r2 \in Ranks : x \in {r2} \X (1 .. count[r2])
    OBVIOUS
  <2>2. PICK i \in 1 .. count[r2] : x = <<r2, i>>
    BY <2>1
  <2> QED
    BY <1>3, <2>2
<1>5. IsFiniteSet(P)
  BY <1>1, FS_Product
<1>6. IsFiniteSet(U) /\ Cardinality(U) \in Nat
  BY <1>4, <1>5, FS_Subset, FS_CardinalityType
<1>7. A \subseteq U
  BY Zenon
<1>8. count[r] \in Nat
  BY <1>2
<1>9. Cardinality(A) = count[r]
  <2>1. IsFiniteSet(1 .. count[r]) /\ Cardinality(1 .. count[r]) = count[r]
    BY <1>8, FirstN
  <2>2. Cardinality({r}) = 1
    BY FS_Singleton
  <2>3. Cardinality(A) = Cardinality({r}) * Cardinality(1 .. count[r])
    BY <1>1, <2>1, FS_Product
  <2>4. Cardinality(A) = 1 * count[r]
    BY <2>1, <2>2, <2>3
  <2> QED
    BY <1>8, <2>4
<1>10. Cardinality(A) <= Cardinality(U)
  BY <1>6, <1>7, FS_Subset
<1> QED
  BY <1>6, <1>9, <1>10 DEF Total

(* Between two events that were scheduled for the tick nothing is pending. *)
LEMMA NothingPending ==
    ASSUME Ctl, CanArrive \/ EndOfTick, NEW r \in Ranks
    PROVE  ~Scheduled(eventq, "power", r) /\ rk[r].refreshState # "REF_START"
<1>1. RankOK(eventq, rk[r], r, respQueue) /\ QueueOK(eventq)
  BY DEF Ctl
<1>2. eventq # <<>> => eventq[1].at \in Nat
  <2>1. eventq \in Seq(Event)
    BY <1>1 DEF QueueOK
  <2>2. eventq # <<>> => 1 \in DOMAIN eventq
    BY <2>1
  <2> QED
    BY <1>1, <2>2, QueueTypes
<1>3. \A ev : ~AtHead(eventq, ev, r)
  BY <1>2 DEF AtHead, CanArrive, EndOfTick
<1> QED
  BY <1>1, <1>3 DEF RankOK, PowerOK, PhaseOK

(* The loop is started. *)
LEMMA KickCtl ==
    ASSUME Ctl, CanArrive \/ EndOfTick, eventq' \in {eventq, KickNextReq(eventq)},
           UNCHANGED <<rk, respQueue, nextBurstAt>>, CtrlOK'
    PROVE  Ctl' /\ Kept
<1>1. /\ QueueOK(eventq) /\ Responses(eventq, respQueue, rk)
      /\ rk \in [Ranks -> RankState] /\ 0 \notin Ranks
      /\ \A r \in Ranks : RankOK(eventq, rk[r], r, respQueue)
  BY Constants DEF Ctl, Ranks
<1>2. /\ QueueOK(eventq')
      /\ nextReqScheduled(eventq) => nextReqScheduled(eventq')
      /\ \A e2, r2, t : e2 # "nextReq" => (At(eventq', e2, r2, t) <=> At(eventq, e2, r2, t))
      /\ \A t : At(eventq', "nextReq", 0, t) =>
            At(eventq, "nextReq", 0, t) \/ (~nextReqScheduled(eventq) /\ t = 0)
      /\ \A r2 : r2 # 0 => Untouched(eventq, eventq', r2)
  <2>1. CASE eventq' = eventq
    BY <1>1, <2>1 DEF Untouched
  <2>2. CASE eventq' = KickNextReq(eventq)
    BY <1>1, <2>2, KickOK
  <2> QED
    BY <2>1, <2>2
<1>3. ASSUME NEW r \in Ranks PROVE RankOK(eventq', rk[r], r, respQueue)
  <2>1. rk[r] \in RankState /\ Flying(respQueue, r) \in Nat
        /\ rk[r].outstandingEvents \in Int
    BY <1>1, RankTypes, FlyingNat DEF Responses
  <2>2. SameRank(rk[r], rk[r]) /\ SameReads(rk[r], rk[r], respQueue, respQueue, r)
    BY <2>1, RankTypes DEF SameRank, SameScalars, SameReads
  <2>3. rk[r].refreshState = "REF_DRAIN" => Scheduled(eventq', "nextReq", 0)
    BY <1>1, <1>2 DEF RankOK, PhaseOK, nextReqScheduled
  <2>4. ~Scheduled(eventq, "power", r) /\ rk[r].refreshState # "REF_START"
    BY NothingPending
  <2> QED
    BY <1>1, <1>2, <2>2, <2>3, <2>4, Frame
<1>4. Responses(eventq', respQueue', rk')
  <2>1. Scheduled(eventq', "respond", 0) <=> Scheduled(eventq, "respond", 0)
    BY <1>1, <1>2, WhenOK
  <2> QED
    BY <1>1, <1>2, <2>1 DEF Responses
<1>5. \A r \in Ranks : KeptRank(eventq, rk[r], eventq', rk'[r], r)
  BY <1>1, <1>2 DEF KeptRank, Untouched
<1> QED
  BY <1>1, <1>2, <1>3, <1>4, <1>5 DEF Ctl, Kept

(* A request arrives. *)
LEMMA ReadCtl ==
    ASSUME Ctl, NEW r \in Ranks, addToReadQueue(r)
    PROVE  Ctl' /\ Kept
<1>1. CtrlOK /\ readBufferSize \in Nat /\ respQueue \in Seq(Response)
  BY Constants DEF Ctl, Responses
<1>2. /\ CanArrive /\ eventq' = KickNextReq(eventq)
      /\ Total(reads) + Len(respQueue) < readBufferSize
      /\ reads' = [reads EXCEPT ![r] = @ + 1]
      /\ UNCHANGED <<rk, respQueue, nextBurstAt>>
      /\ UNCHANGED <<activeRank, writes, busStateNext, draining>>
  BY DEF addToReadQueue
<1>3. reads \in [Ranks -> 0 .. readBufferSize]
  BY <1>1 DEF CtrlOK
<1>4. Total(reads) \in Nat /\ reads[r] <= Total(reads) /\ Len(respQueue) \in Nat
  BY <1>1, <1>3, TotalBound
<1>5. reads[r] + 1 \in 0 .. readBufferSize
  BY <1>1, <1>2, <1>3, <1>4
<1>6. reads' \in [Ranks -> 0 .. readBufferSize]
  BY <1>2, <1>3, <1>5
<1>7. CtrlOK'
  BY <1>1, <1>2, <1>6 DEF CtrlOK
<1> QED
  BY <1>2, <1>7, KickCtl

(* A write that arrives waits, and the scheduling loop runs. *)
LEMMA WriteCtl ==
    ASSUME Ctl, NEW r \in Ranks, addToWriteQueue(r)
    PROVE  Ctl' /\ Kept
<1>1. CtrlOK /\ writeBufferSize \in Nat
  BY Constants DEF Ctl
<1>2. /\ CanArrive /\ eventq' = KickNextReq(eventq)
      /\ Total(writes) < writeBufferSize
      /\ writes' = [writes EXCEPT ![r] = @ + 1]
      /\ UNCHANGED <<rk, respQueue, nextBurstAt>>
      /\ UNCHANGED <<activeRank, reads, busStateNext, draining>>
  BY DEF addToWriteQueue
<1>3. writes \in [Ranks -> 0 .. writeBufferSize]
  BY <1>1 DEF CtrlOK
<1>4. Total(writes) \in Nat /\ writes[r] <= Total(writes)
  BY <1>1, <1>3, TotalBound
<1>5. writes[r] + 1 \in 0 .. writeBufferSize
  BY <1>1, <1>2, <1>3, <1>4
<1>6. writes' \in [Ranks -> 0 .. writeBufferSize]
  BY <1>2, <1>3, <1>5
<1>7. CtrlOK'
  BY <1>1, <1>2, <1>6 DEF CtrlOK
<1> QED
  BY <1>2, <1>7, KickCtl

(* The end of a drain leaves the ranks as they are. *)
LEMMA DrainResumeCtl ==
    ASSUME Ctl, drainResume
    PROVE  Ctl' /\ Kept
<1>1. /\ EndOfTick /\ eventq' = eventq
      /\ UNCHANGED <<rk, respQueue, nextBurstAt>>
      /\ UNCHANGED <<activeRank, reads, writes, busStateNext>> /\ draining' = FALSE
  BY DEF drainResume
<1>2. CtrlOK'
  BY <1>1 DEF Ctl, CtrlOK
<1> QED
  BY <1>1, <1>2, KickCtl

(* No rank is in self-refresh: drainRanks wakes none. *)
LEMMA DrainedNone ==
    ASSUME Ctl
    PROVE  drainRanks = [q |-> DrainKick, rk |-> rk]
<1> DEFINE base == [q |-> DrainKick, rk |-> rk]
           D == 0 .. numRanks
           After(a, n) ==
              LET s == DrainRank([q |-> a.q, k |-> a.rk[n]], n)
              IN  [q |-> s.q, rk |-> [a.rk EXCEPT ![n] = s.k]]
           g == [n \in D |-> base]
<1>1. numRanks \in Nat /\ rk \in [Ranks -> RankState]
  BY Constants DEF Ctl
<1>2. base.q = DrainKick /\ base.rk = rk
  OBVIOUS
<1>3. ASSUME NEW n \in D, n # 0 PROVE After(base, n) = base
  <2> DEFINE s0 == [q |-> base.q, k |-> base.rk[n]]
  <2>1. n \in Ranks /\ rk[n] \in RankState
    BY <1>1, <1>3 DEF Ranks
  <2>2. s0.k = rk[n] /\ s0.q = DrainKick
    BY <1>2
  <2>3. rk[n].pwrState # "SREF"
    BY <2>1, RankTypes DEF PowerStates
  <2>4. DrainRank(s0, n) = s0
    BY <2>2, <2>3 DEF DrainRank
  <2>5. [rk EXCEPT ![n] = rk[n]] = rk
    BY <1>1, <2>1
  <2> HIDE DEF s0
  <2>6. After(base, n) = [q |-> s0.q, rk |-> [base.rk EXCEPT ![n] = s0.k]]
    BY <2>4 DEF s0
  <2> QED
    BY <1>2, <2>2, <2>5, <2>6
<1> HIDE DEF base
<1>4. g = [n \in D |-> IF n = 0 THEN base ELSE After(g[n - 1], n)]
  <2>1. \A n \in D : n # 0 => n - 1 \in D /\ g[n - 1] = base
    BY <1>1
  <2>2. ASSUME NEW n \in D, n # 0 PROVE base = After(g[n - 1], n)
    <3>1. g[n - 1] = base /\ After(base, n) = base
      BY <1>3, <2>1, <2>2
    <3> HIDE DEF g, After
    <3> QED
      BY <3>1
  <2> HIDE DEF After
  <2>3. \A n \in D : base = IF n = 0 THEN base ELSE After(g[n - 1], n)
    <3> HIDE DEF g
    <3> QED
      BY <2>2
  <2> QED
    BY <2>3, Zenon
<1>5. drained = [n \in D |-> IF n = 0 THEN base ELSE After(drained[n - 1], n)]
  <2> DEFINE P(f) == f = [n \in D |-> IF n = 0 THEN base ELSE After(f[n - 1], n)]
  <2>1. drained = CHOOSE f : P(f)
    BY Zenon DEF drained, base
  <2>2. P(g)
    BY <1>4
  <2> HIDE DEF P, g
  <2>3. P(drained)
    BY <2>1, <2>2
  <2> HIDE DEF After
  <2> QED
    BY <2>3, Zenon DEF P
<1>6. /\ drained[0] = base
      /\ \A n \in D : n # 0 => drained[n] = After(drained[n - 1], n)
  <2>1. 0 \in D
    BY <1>1
  <2> HIDE DEF After
  <2> QED
    BY <1>5, <2>1
<1>7. \A n \in D : drained[n] = base
  <2> DEFINE Bad == {n \in D : drained[n] # base}
  <2> SUFFICES ASSUME Bad # {} PROVE FALSE
    OBVIOUS
  <2>1. Bad \in SUBSET Nat
    BY <1>1
  <2>2. Min(Bad) \in Bad /\ \A y \in Bad : Min(Bad) <= y
    <3> HIDE DEF Bad
    <3> QED
      BY <2>1, MinIsMember
  <2>3. PICK m \in Bad : \A y \in Bad : m <= y
    BY <2>2
  <2>4. m # 0 /\ m \in D /\ m - 1 \in D /\ m - 1 \notin Bad
    BY <1>1, <1>6, <2>3
  <2>5. drained[m - 1] = base
    BY <2>4
  <2>6. After(drained[m - 1], m) = base
    BY <1>3, <2>4, <2>5
  <2> HIDE DEF After
  <2> QED
    BY <1>6, <2>3, <2>4, <2>6
<1> QED
  BY <1>1, <1>7 DEF drainRanks, base

(* A drain wakes no rank, none being in self-refresh, and starts the loop  *)
(* when no write waits.                                                    *)
LEMMA DrainCtl ==
    ASSUME Ctl, drain
    PROVE  Ctl' /\ Kept
<1>1. drainRanks = [q |-> DrainKick, rk |-> rk]
  BY DrainedNone
<1>2. /\ EndOfTick /\ eventq' = DrainKick
      /\ UNCHANGED <<rk, respQueue, nextBurstAt>>
      /\ UNCHANGED <<activeRank, reads, writes, busStateNext>> /\ draining' = TRUE
  BY <1>1 DEF drain
<1>3. eventq' \in {eventq, KickNextReq(eventq)}
  BY <1>2 DEF DrainKick
<1>4. CtrlOK'
  BY <1>2 DEF Ctl, CtrlOK
<1> QED
  BY <1>2, <1>3, <1>4, KickCtl

----------------------------------------------------------------------------
(* A tick passes *)

Ticked(q) == [i \in DOMAIN q |-> [q[i] EXCEPT !.at = @ - 1]]

(* Every event comes a tick closer. *)
LEMMA TickedOK ==
    ASSUME NEW q, QueueOK(q), q # <<>> => q[1].at > 0
    PROVE  LET q2 == Ticked(q)
           IN  /\ QueueOK(q2)
               /\ \A ev, r, t : At(q2, ev, r, t) <=> t \in Nat /\ At(q, ev, r, t + 1)
<1> DEFINE q2 == Ticked(q)
<1>1. /\ q \in Seq(Event) /\ DOMAIN q = 1 .. Len(q) /\ Len(q) \in Nat
      /\ \A i \in DOMAIN q : q[i] \in Event /\ q[i].at \in Nat
  BY QueueTypes DEF QueueOK
<1>2. \A i \in DOMAIN q : q[i].at - 1 \in Nat
  <2> SUFFICES ASSUME NEW i \in DOMAIN q PROVE q[i].at > 0
    BY <1>1
  <2>1. 1 \in DOMAIN q /\ q[1].at > 0
    <3>1. q # <<>> /\ 1 \in DOMAIN q
      BY <1>1
    <3> QED
      BY <3>1
  <2> QED
    BY <1>1, <2>1 DEF QueueOK, Sorted
<1>3. ASSUME NEW i \in DOMAIN q
      PROVE  LET e == [q[i] EXCEPT !.at = @ - 1]
             IN  /\ e \in Event /\ e.ev = q[i].ev /\ e.rank = q[i].rank
                 /\ e.at = q[i].at - 1
  <2> DEFINE x == q[i]
             n == x.at - 1
  <2>1. x \in Event /\ n \in Nat
    BY <1>1, <1>2
  <2> HIDE DEF x, n
  <2>2. LET e == [x EXCEPT !.at = n]
        IN  e \in Event /\ e.ev = x.ev /\ e.rank = x.rank /\ e.at = n
    BY <2>1 DEF Event
  <2> QED
    BY <2>2, Zenon DEF x, n
<1>4. /\ DOMAIN q2 = DOMAIN q
      /\ \A i \in DOMAIN q : /\ q2[i] \in Event /\ q2[i].ev = q[i].ev
                             /\ q2[i].rank = q[i].rank /\ q2[i].at = q[i].at - 1
  <2>1. \A i \in DOMAIN q : q2[i] = [q[i] EXCEPT !.at = @ - 1]
    BY Zenon DEF Ticked
  <2>2. DOMAIN q2 = DOMAIN q
    BY Zenon DEF Ticked
  <2> HIDE DEF q2
  <2> QED
    BY <1>3, <2>1, <2>2
<1>5. q2 \in Seq(Event)
  <2>1. q2 \in [1 .. Len(q) -> Event]
    <3>1. \A i \in DOMAIN q : [q[i] EXCEPT !.at = @ - 1] \in Event
      BY <1>3, Zenon
    <3> QED
      BY <1>1, <3>1, Zenon DEF Ticked
  <2> HIDE DEF q2
  <2> QED
    BY <1>1, <2>1
<1> HIDE DEF q2
<1>6. Sorted(q2) /\ Once(q2)
  BY <1>1, <1>4 DEF QueueOK, Sorted, Once
<1>7. ASSUME NEW ev, NEW r, NEW t
      PROVE  At(q2, ev, r, t) <=> t \in Nat /\ At(q, ev, r, t + 1)
  <2>1. ASSUME At(q2, ev, r, t) PROVE t \in Nat /\ At(q, ev, r, t + 1)
    <3>1. PICK i \in DOMAIN q : IsEvent(q2[i], ev, r) /\ q2[i].at = t
      BY <1>4, <2>1 DEF At
    <3>2. t \in Nat /\ q[i].at = t + 1
      BY <1>1, <1>2, <1>4, <3>1
    <3> QED
      BY <1>4, <3>1, <3>2 DEF At, IsEvent
  <2>2. ASSUME t \in Nat, At(q, ev, r, t + 1) PROVE At(q2, ev, r, t)
    <3>1. PICK i \in DOMAIN q : IsEvent(q[i], ev, r) /\ q[i].at = t + 1
      BY <2>2 DEF At
    <3>2. q2[i].at = t
      BY <1>4, <2>2, <3>1
    <3> QED
      BY <1>4, <3>1, <3>2 DEF At, IsEvent
  <2> QED
    BY <2>1, <2>2
<1> QED
  BY <1>5, <1>6, <1>7 DEF QueueOK, q2

(* ... and so does the end of every constraint. *)
LEMMA PassedRankOK ==
    ASSUME NEW k \in RankState
    PROVE  LET k2 == PassedRank(k)
           IN  /\ k2 \in RankState
               /\ k2.refreshState = k.refreshState
               /\ k2.refreshDueAt = Passed(k.refreshDueAt, -tREFI)
               /\ k2.pwrState = k.pwrState /\ k2.pwrStateTrans = k.pwrStateTrans
               /\ k2.outstandingEvents = k.outstandingEvents
               /\ \A b \in Banks :
                     /\ k2.banks[b].open = k.banks[b].open
                     /\ k2.banks[b].preAt = Passed(k.banks[b].preAt, 0)
                     /\ k2.banks[b].actAt = Passed(k.banks[b].actAt, 0)
                     /\ k2.banks[b].colAt = Passed(k.banks[b].colAt, 0)
<1> DEFINE d  == Passed(k.refreshDueAt, -tREFI)
           w  == Passed(k.wakeUpAllowedAt, 0)
           bs == [b \in Banks |-> PassedBank(k.banks[b])]
           k1 == [k EXCEPT !.refreshDueAt = d]
           k2 == [k1 EXCEPT !.wakeUpAllowedAt = w]
           k3 == [k2 EXCEPT !.banks = bs]
<1>1. d \in Int /\ w \in Nat
  <2>1. k.refreshDueAt \in Int /\ k.wakeUpAllowedAt \in Nat /\ tREFI \in Nat
    BY Constants DEF RankState
  <2> QED
    BY <2>1 DEF Passed, Later
<1>2. ASSUME NEW b \in Banks
      PROVE  LET x == k.banks[b]
                 c == PassedBank(x)
             IN  /\ c \in Bank /\ c.open = x.open /\ c.preAt = Passed(x.preAt, 0)
                 /\ c.actAt = Passed(x.actAt, 0) /\ c.colAt = Passed(x.colAt, 0)
  <2> DEFINE x == k.banks[b]
             u == Passed(x.preAt, 0)
             v == Passed(x.actAt, 0)
             z == Passed(x.colAt, 0)
             c == [x EXCEPT !.preAt = u, !.actAt = v, !.colAt = z]
  <2>1. x \in Bank /\ x.preAt \in Nat /\ x.actAt \in Nat /\ x.colAt \in Nat
    BY RankTypes
  <2>2. u \in Nat /\ v \in Nat /\ z \in Nat
    <3> HIDE DEF x
    <3> QED
      BY <2>1 DEF Passed, Later
  <2> HIDE DEF x, u, v, z
  <2>3. c \in Bank /\ c.open = x.open /\ c.preAt = u /\ c.actAt = v /\ c.colAt = z
    BY <2>1, <2>2 DEF Bank
  <2>4. c = PassedBank(x)
    BY <2>1 DEF u, v, z, Bank, PassedBank
  <2> HIDE DEF c
  <2> QED
    BY <2>3, <2>4, Zenon DEF x, u, v, z
<1>3. /\ bs \in [Banks -> Bank]
      /\ \A b \in Banks : /\ bs[b].open = k.banks[b].open
                          /\ bs[b].preAt = Passed(k.banks[b].preAt, 0)
                          /\ bs[b].actAt = Passed(k.banks[b].actAt, 0)
                          /\ bs[b].colAt = Passed(k.banks[b].colAt, 0)
  <2> DEFINE C(b) == PassedBank(k.banks[b])
  <2>1. \A b \in Banks :
           /\ C(b) \in Bank /\ C(b).open = k.banks[b].open
           /\ C(b).preAt = Passed(k.banks[b].preAt, 0)
           /\ C(b).actAt = Passed(k.banks[b].actAt, 0)
           /\ C(b).colAt = Passed(k.banks[b].colAt, 0)
    BY <1>2, Zenon
  <2>2. bs = [b \in Banks |-> C(b)]
    OBVIOUS
  <2> HIDE DEF C, bs
  <2>3. bs \in [Banks -> Bank]
    BY <2>1, <2>2, Zenon
  <2>4. \A b \in Banks : bs[b] = C(b)
    BY <2>2
  <2> QED
    BY <2>1, <2>3, <2>4
<1>4. PassedRank(k) = k3
  <2>1. k1.wakeUpAllowedAt = k.wakeUpAllowedAt
    <3> HIDE DEF d
    <3> QED
      BY DEF RankState
  <2> DEFINE t1 == [k EXCEPT !.refreshDueAt = Passed(@, -tREFI)]
             t2 == [t1 EXCEPT !.wakeUpAllowedAt = Passed(@, 0)]
             t3 == [t2 EXCEPT !.banks = bs]
  <2>2. PassedRank(k) = t3
    <3> HIDE DEF bs
    <3> QED
      BY DEF PassedRank, bs
  <2>3. t1 = k1
    OBVIOUS
  <2> HIDE DEF t1, k1
  <2>4. t2 = k2
    BY <2>1, <2>3
  <2> HIDE DEF t2, k2
  <2> QED
    BY <2>2, <2>4
<1> HIDE DEF d, w, bs
<1>5. /\ k1 \in RankState
      /\ k1.refreshState = k.refreshState /\ k1.refreshDueAt = d
      /\ k1.pwrState = k.pwrState /\ k1.pwrStateTrans = k.pwrStateTrans
      /\ k1.outstandingEvents = k.outstandingEvents
  BY <1>1 DEF RankState
<1> HIDE DEF k1
<1>6. /\ k2 \in RankState
      /\ k2.refreshState = k.refreshState /\ k2.refreshDueAt = d
      /\ k2.pwrState = k.pwrState /\ k2.pwrStateTrans = k.pwrStateTrans
      /\ k2.outstandingEvents = k.outstandingEvents
  BY <1>1, <1>5 DEF RankState
<1> HIDE DEF k2
<1>7. /\ k3 \in RankState
      /\ k3.refreshState = k.refreshState /\ k3.refreshDueAt = d
      /\ k3.pwrState = k.pwrState /\ k3.pwrStateTrans = k.pwrStateTrans
      /\ k3.outstandingEvents = k.outstandingEvents /\ k3.banks = bs
  BY <1>3, <1>6 DEF RankState
<1> HIDE DEF k3
<1> QED
  BY <1>3, <1>4, <1>7 DEF d

(* What is known between two ticks. *)
LEMMA TickFacts ==
    ASSUME Ctl, Advance
    PROVE  /\ EndOfTick /\ eventq' = Ticked(eventq) /\ QueueOK(eventq')
           /\ \A ev, r, t : At(eventq', ev, r, t) <=> t \in Nat /\ At(eventq, ev, r, t + 1)
           /\ \A ev, r, t : At(eventq, ev, r, t) => t \in Nat /\ t - 1 \in Nat
           /\ \A ev, r : Scheduled(eventq', ev, r) <=> Scheduled(eventq, ev, r)
           /\ \A r \in Ranks :
                 /\ rk'[r] = PassedRank(rk[r])
                 /\ ~Scheduled(eventq, "power", r)
                 /\ rk[r].refreshState \in {"REF_IDLE", "REF_DRAIN", "REF_PRE", "REF_RUN"}
<1>1. /\ EndOfTick /\ eventq' = Ticked(eventq) /\ QueueOK(eventq)
      /\ \A r \in Ranks : RankOK(eventq, rk[r], r, respQueue)
      /\ rk' = [r \in Ranks |-> PassedRank(rk[r])]
  BY DEF Advance, Ctl, Ticked
<1>2. /\ QueueOK(eventq')
      /\ \A ev, r, t : At(eventq', ev, r, t) <=> t \in Nat /\ At(eventq, ev, r, t + 1)
  BY <1>1, TickedOK DEF EndOfTick
<1>3. /\ DOMAIN eventq = 1 .. Len(eventq) /\ Len(eventq) \in Nat
      /\ \A i \in DOMAIN eventq : eventq[i].at \in Nat
  BY <1>1, QueueTypes
<1>4. \A i \in DOMAIN eventq : eventq[i].at > 0
  <2> SUFFICES ASSUME NEW i \in DOMAIN eventq PROVE eventq[i].at > 0
    OBVIOUS
  <2>1. 1 \in DOMAIN eventq /\ eventq # <<>> /\ 1 <= i
    BY <1>3
  <2>2. eventq[1].at > 0 /\ eventq[1].at \in Nat /\ eventq[i].at \in Nat
    BY <1>1, <1>3, <2>1 DEF EndOfTick
  <2>3. eventq[1].at <= eventq[i].at
    <3>1. CASE i = 1
      BY <2>2, <3>1
    <3>2. CASE i # 1
      <4>1. 1 < i
        BY <1>3, <3>2
      <4> QED
        BY <1>1, <2>1, <4>1 DEF QueueOK, Sorted
    <3> QED
      BY <3>1, <3>2
  <2> QED
    BY <2>2, <2>3
<1>5. \A ev, r, t : At(eventq, ev, r, t) => t \in Nat /\ t - 1 \in Nat
  BY <1>3, <1>4 DEF At
<1>6. ASSUME NEW ev, NEW r PROVE Scheduled(eventq', ev, r) <=> Scheduled(eventq, ev, r)
  <2>1. \A t : At(eventq, ev, r, t) => At(eventq', ev, r, t - 1)
    <3> SUFFICES ASSUME NEW t, At(eventq, ev, r, t) PROVE At(eventq', ev, r, t - 1)
      OBVIOUS
    <3>1. t - 1 \in Nat /\ t - 1 + 1 = t
      BY <1>5
    <3> QED
      BY <1>2, <3>1
  <2>2. Scheduled(eventq', ev, r) <=> \E t \in Nat : At(eventq', ev, r, t)
    BY <1>2, WhenOK
  <2>3. Scheduled(eventq, ev, r) <=> \E t \in Nat : At(eventq, ev, r, t)
    BY <1>1, WhenOK
  <2>4. Scheduled(eventq, ev, r) => Scheduled(eventq', ev, r)
    BY <1>5, <2>1, <2>2, <2>3
  <2>5. Scheduled(eventq', ev, r) => Scheduled(eventq, ev, r)
    <3> SUFFICES ASSUME NEW t \in Nat, At(eventq', ev, r, t)
                 PROVE  \E u \in Nat : At(eventq, ev, r, u)
      BY <2>2, <2>3
    <3>1. At(eventq, ev, r, t + 1) /\ t + 1 \in Nat
      BY <1>2
    <3> QED
      BY <3>1
  <2> QED
    BY <2>4, <2>5
<1>7. ASSUME NEW r \in Ranks
      PROVE  /\ ~Scheduled(eventq, "power", r)
             /\ rk[r].refreshState \in {"REF_IDLE", "REF_DRAIN", "REF_PRE", "REF_RUN"}
  <2>1. ~Scheduled(eventq, "power", r) /\ rk[r].refreshState # "REF_START"
    BY <1>1, NothingPending
  <2>2. ~First(eventq, "refresh", r)
    BY <1>4 DEF First
  <2>3. rk[r].refreshState # "REF_PD_EXIT" /\ rk[r] \in RankState
    BY <1>1, <2>2 DEF RankOK, PhaseOK
  <2> QED
    BY <2>1, <2>3 DEF RankState
<1> QED
  BY <1>1, <1>2, <1>5, <1>6, <1>7

(* What a rank waits for is a tick nearer, and covers what it did. *)
LEMMA TickedRankOK ==
    ASSUME Ctl, Advance, NEW r \in Ranks, NEW resp \in Seq(Response),
           Flying(resp, r) = Flying(respQueue, r),
           \A t : Flies(resp, r, t) => t \in Nat /\ Flies(respQueue, r, t + 1)
    PROVE  RankOK(eventq', rk'[r], r, resp)
<1> DEFINE q == eventq
           q2 == eventq'
           k == rk[r]
           k2 == rk'[r]
<1>1. /\ QueueOK(q2) /\ k2 = PassedRank(k)
      /\ \A ev, t : At(q2, ev, r, t) <=> t \in Nat /\ At(q, ev, r, t + 1)
      /\ \A ev, t : At(q, ev, r, t) => t \in Nat /\ t - 1 \in Nat
      /\ \A ev, r2 : Scheduled(q2, ev, r2) <=> Scheduled(q, ev, r2)
      /\ ~Scheduled(q, "power", r)
      /\ k.refreshState \in {"REF_IDLE", "REF_DRAIN", "REF_PRE", "REF_RUN"}
  BY TickFacts
<1>2. RankOK(q, k, r, respQueue) /\ k \in RankState /\ tRP \in Nat /\ tREFI \in Nat
      /\ k.refreshDueAt \in Int
  BY Constants, RankTypes DEF Ctl, RankOK
<1>3. /\ k2 \in RankState
      /\ k2.refreshState = k.refreshState
      /\ k2.refreshDueAt = Passed(k.refreshDueAt, -tREFI)
      /\ k2.pwrState = k.pwrState /\ k2.pwrStateTrans = k.pwrStateTrans
      /\ k2.outstandingEvents = k.outstandingEvents
      /\ \A b \in Banks :
            /\ k2.banks[b].open = k.banks[b].open
            /\ k2.banks[b].preAt = Passed(k.banks[b].preAt, 0)
  BY <1>1, <1>2, PassedRankOK
<1> HIDE DEF q, q2, k, k2
<1>4. ASSUME NEW b \in Banks
      PROVE  k.banks[b].preAt \in Nat /\ k2.banks[b].preAt \in Nat
             /\ k2.banks[b].preAt >= k.banks[b].preAt - 1
  <2>1. k.banks[b].preAt \in Nat
    BY <1>2, RankTypes
  <2> QED
    BY <1>3, <2>1 DEF Passed, Later
<1>5. \A t \in Nat : Covered(q, k, r, t + 1) => Covered(q2, k2, r, t)
  <2> SUFFICES ASSUME NEW t \in Nat, Covered(q, k, r, t + 1) PROVE Covered(q2, k2, r, t)
    OBVIOUS
  <2>1. ASSUME NEW b \in Banks, k.banks[b].open, k.banks[b].preAt + tRP > t + 1
        PROVE  Covered(q2, k2, r, t)
    <3> DEFINE x  == k.banks[b].preAt
               x2 == k2.banks[b].preAt
    <3>2. x \in Nat /\ x2 \in Nat /\ x2 >= x - 1 /\ x + tRP > t + 1
      BY <1>4, <2>1
    <3> HIDE DEF x, x2
    <3>3. x2 + tRP > t
      BY <1>2, <3>2
    <3>1. k2.banks[b].preAt + tRP > t
      BY <3>3 DEF x2
    <3> QED
      BY <1>3, <2>1, <3>1 DEF Covered
  <2>2. ASSUME NEW p \in Nat, At(q, "precharge", r, p), p > t + 1
        PROVE  Covered(q2, k2, r, t)
    <3>1. p - 1 \in Nat /\ p - 1 + 1 = p /\ p - 1 > t
      BY <2>2
    <3> QED
      BY <1>1, <2>2, <3>1 DEF Covered
  <2> QED
    BY <2>1, <2>2 DEF Covered
<1>6. AllCovered(q2, k2, r, resp)
  <2> SUFFICES ASSUME NEW t \in Nat,
                      \/ At(q2, "activate", r, t) \/ At(q2, "writeDone", r, t)
                      \/ Flies(resp, r, t)
               PROVE  Covered(q2, k2, r, t)
    BY DEF AllCovered
  <2>1. \/ At(q, "activate", r, t + 1) \/ At(q, "writeDone", r, t + 1)
        \/ Flies(respQueue, r, t + 1)
    BY <1>1
  <2>2. Covered(q, k, r, t + 1)
    BY <1>2, <2>1 DEF RankOK, AllCovered
  <2> QED
    BY <1>5, <2>2
<1>7. /\ Closed(k2) <=> Closed(k)
      /\ Busy(q2, k2, r) <=> Busy(q, k, r)
  BY <1>1, <1>3 DEF Closed, Busy
<1>8. Quiet(q, k, r, respQueue) => Quiet(q2, k2, r, resp)
  BY <1>1, <1>7 DEF Quiet
<1>9. PowerOK(q2, k2, r, resp)
  BY <1>1, <1>2, <1>3, <1>7 DEF PowerOK, RankOK
<1>10. PhaseOK(q2, k2, r, resp)
  <2>1. PhaseOK(q, k, r, respQueue)
    BY <1>2 DEF RankOK
  <2>2. ASSUME k.refreshState = "REF_RUN", NEW t \in Nat, At(q2, "refresh", r, t)
        PROVE  k2.refreshDueAt - tRP > t
    <3>1. At(q, "refresh", r, t + 1)
      BY <1>1, <2>2
    <3>2. k.refreshDueAt - tRP > t + 1
      BY <1>1, <2>1, <2>2, <3>1 DEF PhaseOK
    <3> QED
      BY <1>2, <1>3, <3>2 DEF Passed, Later
  <2> QED
    BY <1>1, <1>3, <1>7, <1>8, <2>1, <2>2 DEF PhaseOK
<1>11. Counted(q2, k2, r, resp)
  <2>1. /\ One(Scheduled(q2, "precharge", r)) = One(Scheduled(q, "precharge", r))
        /\ One(Scheduled(q2, "writeDone", r)) = One(Scheduled(q, "writeDone", r))
    BY <1>1 DEF One
  <2> QED
    BY <1>2, <1>3, <2>1 DEF Counted, RankOK
<1>12. RankOK(q2, k2, r, resp)
  BY <1>1, <1>2, <1>3, <1>6, <1>9, <1>10, <1>11 DEF RankOK
<1> QED
  BY <1>12 DEF q2, k2

(* Time passes only when no event is due: nothing that relies on being     *)
(* first is overtaken.                                                     *)
LEMMA AdvanceCtl ==
    ASSUME Ctl, Advance
    PROVE  Ctl'
<1> DEFINE resp2 == [i \in DOMAIN respQueue |-> [respQueue[i] EXCEPT !.at = @ - 1]]
<1>1. /\ EndOfTick /\ QueueOK(eventq')
      /\ \A ev, r, t : At(eventq', ev, r, t) <=> t \in Nat /\ At(eventq, ev, r, t + 1)
      /\ \A ev, r, t : At(eventq, ev, r, t) => t \in Nat /\ t - 1 \in Nat
      /\ \A ev, r : Scheduled(eventq', ev, r) <=> Scheduled(eventq, ev, r)
      /\ \A r \in Ranks : rk'[r] = PassedRank(rk[r])
  BY TickFacts
<1>2. /\ respQueue' = resp2 /\ nextBurstAt' = Passed(nextBurstAt, -MaxBubble)
      /\ rk' = [r \in Ranks |-> PassedRank(rk[r])]
      /\ UNCHANGED <<activeRank, reads, writes, busStateNext, draining>>
  BY DEF Advance
<1>3. /\ QueueOK(eventq) /\ Responses(eventq, respQueue, rk)
      /\ respQueue \in Seq(Response) /\ rk \in [Ranks -> RankState]
  BY DEF Ctl, Responses
<1>4. /\ DOMAIN respQueue = 1 .. Len(respQueue) /\ Len(respQueue) \in Nat
      /\ \A i \in DOMAIN respQueue : respQueue[i] \in Response
                                     /\ respQueue[i].rank \in Ranks /\ respQueue[i].at \in Nat
  BY <1>3, ResponseTypes
<1>5. \A i \in DOMAIN respQueue : respQueue[i].at - 1 \in Nat
  <2> SUFFICES ASSUME NEW i \in DOMAIN respQueue PROVE respQueue[i].at > 0
    BY <1>4
  <2>1. 1 \in DOMAIN respQueue /\ respQueue # <<>> /\ 1 <= i
    BY <1>4
  <2>2. Scheduled(eventq, "respond", 0)
    BY <1>3, <2>1 DEF Responses
  <2>3. PICK t \in Nat : At(eventq, "respond", 0, t)
    BY <1>3, <2>2, WhenOK
  <2>4. t = respQueue[1].at /\ t - 1 \in Nat
    BY <1>1, <1>3, <2>3 DEF Responses
  <2>5. respQueue[1].at <= respQueue[i].at
    <3>1. CASE i = 1
      BY <1>4, <2>1, <3>1
    <3>2. CASE i # 1
      <4>1. 1 < i
        BY <1>4, <3>2
      <4> QED
        BY <1>3, <2>1, <4>1 DEF Responses
    <3> QED
      BY <3>1, <3>2
  <2> QED
    BY <1>4, <2>1, <2>4, <2>5
<1>6. ASSUME NEW i \in DOMAIN respQueue
      PROVE  LET e == [respQueue[i] EXCEPT !.at = @ - 1]
             IN  e \in Response /\ e.rank = respQueue[i].rank /\ e.at = respQueue[i].at - 1
  <2> DEFINE x == respQueue[i]
             n == x.at - 1
  <2>1. x \in Response /\ n \in Nat
    BY <1>4, <1>5
  <2> HIDE DEF x, n
  <2>2. LET e == [x EXCEPT !.at = n] IN e \in Response /\ e.rank = x.rank /\ e.at = n
    BY <2>1 DEF Response
  <2> QED
    BY <2>2, Zenon DEF x, n
<1>7. /\ DOMAIN resp2 = DOMAIN respQueue
      /\ \A i \in DOMAIN respQueue : resp2[i].rank = respQueue[i].rank
                                     /\ resp2[i].at = respQueue[i].at - 1
  <2>1. \A i \in DOMAIN respQueue : resp2[i] = [respQueue[i] EXCEPT !.at = @ - 1]
    BY Zenon
  <2>2. DOMAIN resp2 = DOMAIN respQueue
    BY Zenon
  <2> HIDE DEF resp2
  <2> QED
    BY <1>6, <2>1, <2>2
<1>8. resp2 \in Seq(Response)
  <2>1. resp2 \in [1 .. Len(respQueue) -> Response]
    <3>1. \A i \in DOMAIN respQueue : [respQueue[i] EXCEPT !.at = @ - 1] \in Response
      BY <1>6, Zenon
    <3> QED
      BY <1>4, <3>1, Zenon
  <2> HIDE DEF resp2
  <2> QED
    BY <1>4, <2>1
<1> HIDE DEF resp2
<1>9. ASSUME NEW r \in Ranks
      PROVE  /\ Flying(resp2, r) = Flying(respQueue, r)
             /\ \A t : Flies(resp2, r, t) => t \in Nat /\ Flies(respQueue, r, t + 1)
  <2>1. {i \in DOMAIN resp2 : resp2[i].rank = r}
           = {i \in DOMAIN respQueue : respQueue[i].rank = r}
    BY <1>7
  <2>2. ASSUME NEW t, Flies(resp2, r, t) PROVE t \in Nat /\ Flies(respQueue, r, t + 1)
    <3>1. PICK i \in DOMAIN respQueue : respQueue[i].rank = r /\ t = respQueue[i].at - 1
      BY <1>7, <2>2 DEF Flies
    <3>2. t \in Nat /\ respQueue[i].at = t + 1
      BY <1>4, <1>5, <3>1
    <3> QED
      BY <3>1, <3>2 DEF Flies
  <2> QED
    BY <2>1, <2>2 DEF Flying
<1>10. \A r \in Ranks : RankOK(eventq', rk'[r], r, resp2)
  BY <1>8, <1>9, TickedRankOK
<1>11. rk' \in [Ranks -> RankState]
  <2>1. \A r \in Ranks : PassedRank(rk[r]) \in RankState
    BY <1>3, PassedRankOK
  <2> QED
    BY <1>2, <2>1
<1>12. Responses(eventq', resp2, rk')
  <2>1. \A i, j \in DOMAIN resp2 : i < j => resp2[i].at <= resp2[j].at
    BY <1>3, <1>4, <1>5, <1>7 DEF Responses
  <2>2. resp2 # <<>> <=> Scheduled(eventq', "respond", 0)
    <3>1. resp2 # <<>> <=> respQueue # <<>>
      BY <1>3, <1>7, <1>8
    <3> QED
      BY <1>1, <1>3, <3>1 DEF Responses
  <2>3. ASSUME NEW t \in Nat, At(eventq', "respond", 0, t) PROVE t = resp2[1].at
    <3>1. At(eventq, "respond", 0, t + 1) /\ t + 1 \in Nat
      BY <1>1, <2>3
    <3>2. t + 1 = respQueue[1].at
      BY <1>3, <3>1 DEF Responses
    <3>3. Scheduled(eventq, "respond", 0)
      BY <1>3, <3>1, WhenOK
    <3>4. 1 \in DOMAIN respQueue
      BY <1>3, <1>4, <3>3 DEF Responses
    <3> QED
      BY <1>4, <1>7, <3>2, <3>4
  <2>4. ASSUME NEW i \in DOMAIN resp2, NEW r \in Ranks, NEW b \in Banks
        PROVE  resp2[i].at <= rk'[r].banks[b].colAt + tCL + tBURST
    <3>1. rk[r] \in RankState /\ rk'[r].banks[b].colAt = Passed(rk[r].banks[b].colAt, 0)
      BY <1>1, <1>3, PassedRankOK
    <3>2. rk[r].banks[b].colAt \in Nat
      BY <3>1, RankTypes
    <3>3. /\ resp2[i].at = respQueue[i].at - 1 /\ respQueue[i].at \in Nat
          /\ respQueue[i].at <= rk[r].banks[b].colAt + tCL + tBURST
      BY <1>3, <1>4, <1>7 DEF Responses
    <3>4. tCL \in Nat /\ tBURST \in Nat
      BY Constants
    <3> QED
      BY <3>1, <3>2, <3>3, <3>4 DEF Passed, Later
  <2> QED
    BY <1>8, <2>1, <2>2, <2>3, <2>4 DEF Responses
<1>13. CtrlOK'
  <2>1. nextBurstAt' \in Int
    <3>1. nextBurstAt \in Int
      BY DEF Ctl, CtrlOK
    <3>2. MaxBubble \in Int
      BY MaxBubbleNat
    <3> QED
      BY <1>2, <3>1, <3>2 DEF Passed, Later
  <2> QED
    BY <1>2, <2>1 DEF Ctl, CtrlOK
<1> QED
  BY <1>1, <1>2, <1>10, <1>11, <1>12, <1>13 DEF Ctl

----------------------------------------------------------------------------
(* The turns of the scheduling loop *)

(* One rank's share of isBusy. *)
CheckNext(a, n) ==
    LET s == CheckRank([q |-> a.q, k |-> a.rk[n]], n)
    IN  [q |-> s.q, rk |-> [a.rk EXCEPT ![n] = s.k]]

(* The recursion of `checked` is well-founded: it has the value it says. *)
LEMMA CheckedDef ==
    /\ checked[0] = [q |-> Tail(eventq), rk |-> rk]
    /\ \A n \in Ranks : checked[n] = CheckNext(checked[n - 1], n)
<1> DEFINE base == [q |-> Tail(eventq), rk |-> rk]
           D(m) == 0 .. m
           Def(f, m) == f = [n \in D(m) |-> IF n = 0 THEN base ELSE CheckNext(f[n - 1], n)]
           Bad == {m \in D(numRanks) : ~\E f : Def(f, m)}
<1>1. numRanks \in Nat
  BY Constants
<1>2. Bad = {}
  <2> SUFFICES ASSUME Bad # {} PROVE FALSE
    OBVIOUS
  <2>1. Bad \in SUBSET Nat
    BY <1>1
  <2>2. Min(Bad) \in Bad /\ \A y \in Bad : Min(Bad) <= y
    <3> HIDE DEF Bad
    <3> QED
      BY <2>1, MinIsMember
  <2>3. PICK m \in Bad : \A y \in Bad : m <= y
    BY <2>2
  <2>4. m \in D(numRanks) /\ m \in Nat /\ ~\E f : Def(f, m)
    <3> HIDE DEF Def
    <3> QED
      BY <1>1, <2>3
  <2>5. CASE m = 0
    <3> DEFINE g == [n \in D(m) |-> base]
    <3>1. \A n \in D(m) : base = IF n = 0 THEN base ELSE CheckNext(g[n - 1], n)
      <4>1. \A n \in D(m) : n = 0
        BY <2>5
      <4> HIDE DEF base, g
      <4> QED
        BY <4>1
    <3>2. Def(g, m)
      <4> HIDE DEF base
      <4> QED
        BY <3>1, Zenon
    <3> HIDE DEF g, Def
    <3> QED
      BY <2>4, <3>2
  <2>6. CASE m # 0
    <3>1. m - 1 \in Nat /\ m - 1 \in D(numRanks) /\ ~(m <= m - 1)
      BY <1>1, <2>4, <2>6
    <3>2. m - 1 \notin Bad
      BY <2>3, <3>1
    <3>3. PICK f : Def(f, m - 1)
      BY <3>1, <3>2
    <3> DEFINE g == [n \in D(m) |-> IF n = m THEN CheckNext(f[m - 1], m) ELSE f[n]]
    <3> HIDE DEF base
    <3>4. ASSUME NEW n \in D(m - 1)
          PROVE  f[n] = IF n = 0 THEN base ELSE CheckNext(f[n - 1], n)
      BY <3>3, Zenon
    <3>5. ASSUME NEW n \in D(m)
          PROVE  g[n] = IF n = 0 THEN base ELSE CheckNext(g[n - 1], n)
      <4>1. CASE n = m
        <5>1. n - 1 \in D(m) /\ n - 1 # m /\ n # 0
          BY <2>4, <2>6, <4>1
        <5>2. g[n - 1] = f[n - 1] /\ g[n] = CheckNext(f[m - 1], m)
          BY <4>1, <5>1
        <5> HIDE DEF g
        <5> QED
          BY <4>1, <5>1, <5>2
      <4>2. CASE n # m
        <5>1. n \in D(m - 1) /\ (n # 0 => n - 1 \in D(m) /\ n - 1 # m)
          BY <2>4, <2>6, <4>2
        <5>2. g[n] = f[n] /\ (n # 0 => g[n - 1] = f[n - 1])
          BY <4>2, <5>1
        <5> HIDE DEF g, D
        <5> QED
          BY <3>4, <5>1, <5>2
      <4> QED
        BY <4>1, <4>2
    <3>6. Def(g, m)
      <4>1. \A n \in D(m) : g[n] = IF n = 0 THEN base ELSE CheckNext(g[n - 1], n)
        BY <3>5
      <4>2. g = [n \in D(m) |-> g[n]]
        OBVIOUS
      <4> HIDE DEF g, D
      <4> QED
        BY <4>1, <4>2, Zenon
    <3> HIDE DEF g, Def
    <3> QED
      BY <2>4, <3>6
  <2> QED
    BY <2>5, <2>6
<1>3. Def(checked, numRanks)
  <2> DEFINE P(f) == f = [n \in 0 .. numRanks |->
                            IF n = 0 THEN base ELSE CheckNext(f[n - 1], n)]
  <2>1. checked = CHOOSE f : P(f)
    BY Zenon DEF checked, CheckNext
  <2>2. numRanks \in D(numRanks)
    BY <1>1
  <2>3. \E f : Def(f, numRanks)
    <3> HIDE DEF D, Def
    <3> QED
      BY <1>2, <2>2
  <2>4. \E f : P(f)
    BY <2>3, Zenon
  <2> HIDE DEF P
  <2>5. P(checked)
    BY <2>1, <2>4
  <2> QED
    BY <2>5, Zenon DEF P
<1> HIDE DEF base
<1>4. \A n \in 0 .. numRanks :
         checked[n] = IF n = 0 THEN base ELSE CheckNext(checked[n - 1], n)
  BY <1>3, Zenon
<1>5. 0 \in 0 .. numRanks /\ \A n \in Ranks : n \in 0 .. numRanks /\ n # 0
  BY <1>1 DEF Ranks
<1> QED
  BY <1>4, <1>5 DEF base

(* What isBusy has done when it has gone through the first n ranks: those  *)
(* that waited for the turn go on, at once.                                *)
GoesOn(k) == [k EXCEPT !.refreshState = "REF_PD_EXIT"]
CheckedUpTo(a, n) ==
    /\ QueueOK(a.q)
    /\ a.rk = [r \in Ranks |-> IF r <= n /\ rk[r].refreshState = "REF_DRAIN"
                               THEN GoesOn(rk[r]) ELSE rk[r]]
    /\ \A ev, r, t : At(a.q, ev, r, t) <=>
          \/ At(Tail(eventq), ev, r, t)
          \/ /\ ev = "refresh" /\ t = 0
             /\ r \in Ranks /\ r <= n /\ rk[r].refreshState = "REF_DRAIN"
    /\ \A r \in Ranks :
          \/ First(Tail(eventq), "refresh", r)
          \/ r <= n /\ rk[r].refreshState = "REF_DRAIN"
          => First(a.q, "refresh", r)

(* The check of the next rank lets its drained refresh go on, as the next  *)
(* event of that rank, and leaves the others.                              *)
LEMMA CheckNextOK ==
    ASSUME Ctl, Fire("nextReq", 0), NEW n \in Ranks, NEW a, CheckedUpTo(a, n - 1)
    PROVE  CheckedUpTo(CheckNext(a, n), n)
<1> DEFINE q1 == Tail(eventq)
           k  == rk[n]
           s0 == [q |-> a.q, k |-> k]
           b  == CheckNext(a, n)
           drain1 == k.refreshState = "REF_DRAIN"
           q2 == IF drain1 THEN Schedule(a.q, "refresh", n, 0) ELSE a.q
           k2 == IF drain1 THEN GoesOn(k) ELSE k
<1>1. /\ QueueOK(eventq) /\ k \in RankState /\ rk \in [Ranks -> RankState]
      /\ RankOK(eventq, k, n, respQueue) /\ numRanks \in Nat
      /\ 0 \in 0 .. numRanks /\ n \in 0 .. numRanks /\ n # 0
      /\ \A r \in Ranks : r \in Nat /\ r # 0
  BY Constants DEF Ctl, Ranks
<1>2. \A e2, r2, t : At(q1, e2, r2, t) <=>
         At(eventq, e2, r2, t) /\ ~(e2 = "nextReq" /\ r2 = 0)
  BY <1>1, FireFacts
<1>3. a.rk[n] = k /\ a.rk \in [Ranks -> RankState]
  <2>1. \A r \in Ranks : GoesOn(rk[r]) \in RankState /\ rk[r] \in RankState
    <3> SUFFICES ASSUME NEW r \in Ranks PROVE GoesOn(rk[r]) \in RankState /\ rk[r] \in RankState
      OBVIOUS
    <3> DEFINE x == rk[r]
    <3>1. x \in RankState
      BY <1>1
    <3> HIDE DEF x
    <3> QED
      BY <3>1 DEF GoesOn, RankState, x
  <2>2. ~(n <= n - 1)
    BY <1>1
  <2> HIDE DEF k
  <2>3. a.rk \in [Ranks -> RankState]
    BY <2>1 DEF CheckedUpTo
  <2>4. a.rk[n] = rk[n]
    BY <2>2 DEF CheckedUpTo
  <2> QED
    BY <2>3, <2>4 DEF k
<1>4. CheckRank(s0, n) = [q |-> q2, k |-> k2]
  <2>1. k.pwrState # "SREF"
    BY <1>1, RankTypes DEF PowerStates
  <2>2. s0.k = k /\ s0.q = a.q
    OBVIOUS
  <2>3. CASE drain1
    <3> DEFINE z  == Schedule(a.q, "refresh", n, 0)
               t1 == [s0 EXCEPT !.k.refreshState = "REF_PD_EXIT"]
    <3>1. CheckRank(s0, n) = [t1 EXCEPT !.q = Schedule(@, "refresh", n, 0)]
      <4> HIDE DEF s0
      <4> QED
        BY <2>1, <2>2, <2>3 DEF CheckRank, checkDrainDone, inRefIdleState
    <3> HIDE DEF k
    <3>2. t1 = [q |-> a.q, k |-> GoesOn(k)]
      BY DEF GoesOn
    <3> HIDE DEF t1
    <3>3. [t1 EXCEPT !.q = Schedule(@, "refresh", n, 0)] = [q |-> z, k |-> GoesOn(k)]
      <4> DEFINE y == GoesOn(k)
      <4> HIDE DEF y
      <4> QED
        BY <3>2 DEF y
    <3> QED
      BY <2>3, <3>1, <3>3
  <2>4. CASE ~drain1
    <3>1. CheckRank(s0, n) = s0
      <4> HIDE DEF s0
      <4> QED
        BY <2>1, <2>2, <2>4 DEF CheckRank, checkDrainDone, inRefIdleState
    <3> QED
      BY <2>4, <3>1
  <2> QED
    BY <2>3, <2>4
<1>5. b.q = q2 /\ b.rk = [a.rk EXCEPT ![n] = k2]
  <2> DEFINE s == [q |-> q2, k |-> k2]
  <2>1. s.q = q2 /\ s.k = k2
    <3> HIDE DEF q2, k2
    <3> QED
      OBVIOUS
  <2>2. b = [q |-> s.q, rk |-> [a.rk EXCEPT ![n] = s.k]]
    <3> HIDE DEF s
    <3> QED
      BY <1>3, <1>4 DEF CheckNext, s
  <2> HIDE DEF s, b
  <2> QED
    BY <2>1, <2>2
<1>6. /\ QueueOK(q2)
      /\ \A e2, r2, t : At(q2, e2, r2, t) <=>
            At(a.q, e2, r2, t) \/ (drain1 /\ e2 = "refresh" /\ r2 = n /\ t = 0)
      /\ \A r2 : r2 # n /\ First(a.q, "refresh", r2) => First(q2, "refresh", r2)
      /\ drain1 => First(q2, "refresh", n)
      /\ ~drain1 /\ First(a.q, "refresh", n) => First(q2, "refresh", n)
  <2>1. QueueOK(a.q)
    BY DEF CheckedUpTo
  <2>2. CASE drain1
    <3>1. ~Scheduled(eventq, "refresh", n)
      BY <1>1, <2>2 DEF RankOK, PhaseOK
    <3>2. ~Scheduled(a.q, "refresh", n)
      <4>1. \A t : ~At(a.q, "refresh", n, t)
        <5>1. ~(n <= n - 1)
          BY <1>1
        <5>2. \A t : ~At(eventq, "refresh", n, t)
          BY <3>1 DEF Scheduled, At
        <5> QED
          BY <1>2, <5>1, <5>2 DEF CheckedUpTo
      <4> QED
        BY <2>1, <4>1, WhenOK
    <3> DEFINE z == Schedule(a.q, "refresh", n, 0)
    <3>3. q2 = z
      BY <2>2
    <3>4. "refresh" \in EventKinds /\ 0 \in Nat
      BY DEF EventKinds
    <3>5. /\ QueueOK(z)
          /\ \A e2, r2, t : At(z, e2, r2, t) <=>
                At(a.q, e2, r2, t) \/ (e2 = "refresh" /\ r2 = n /\ t = 0)
          /\ \A r2 : r2 # n => Untouched(a.q, z, r2)
          /\ First(z, "refresh", n)
      BY <1>1, <2>1, <3>2, <3>4, ScheduleOK
    <3> HIDE DEF z, q2
    <3> QED
      BY <2>2, <3>3, <3>5 DEF Untouched
  <2>3. CASE ~drain1
    <3>1. q2 = a.q
      BY <2>3
    <3> HIDE DEF q2
    <3> QED
      BY <2>1, <2>3, <3>1
  <2> QED
    BY <2>2, <2>3
<1> HIDE DEF q2, b, q1
<1>7. b.rk = [r \in Ranks |-> IF r <= n /\ rk[r].refreshState = "REF_DRAIN"
                              THEN GoesOn(rk[r]) ELSE rk[r]]
  <2> DEFINE Old(r) == IF r <= n - 1 /\ rk[r].refreshState = "REF_DRAIN"
                       THEN GoesOn(rk[r]) ELSE rk[r]
             New(r) == IF r <= n /\ rk[r].refreshState = "REF_DRAIN"
                       THEN GoesOn(rk[r]) ELSE rk[r]
  <2>1. a.rk = [r \in Ranks |-> Old(r)]
    BY DEF CheckedUpTo
  <2>2. New(n) = k2
    BY <1>1
  <2>3. \A r \in Ranks : r # n => New(r) = Old(r)
    <3>1. \A r \in Ranks : r # n => (r <= n <=> r <= n - 1)
      BY <1>1
    <3> QED
      BY <3>1
  <2> HIDE DEF Old, New, k2
  <2>4. b.rk = [r \in Ranks |-> New(r)]
    BY <1>5, <2>1, <2>2, <2>3
  <2> QED
    BY <2>4 DEF New
<1>8. \A ev, r, t : At(b.q, ev, r, t) <=>
         \/ At(q1, ev, r, t)
         \/ /\ ev = "refresh" /\ t = 0
            /\ r \in Ranks /\ r <= n /\ rk[r].refreshState = "REF_DRAIN"
  <2>1. \A ev, r, t : At(a.q, ev, r, t) <=>
           \/ At(q1, ev, r, t)
           \/ /\ ev = "refresh" /\ t = 0
              /\ r \in Ranks /\ r <= n - 1 /\ rk[r].refreshState = "REF_DRAIN"
    BY DEF CheckedUpTo, q1
  <2>2. \A r \in Ranks : r <= n <=> r <= n - 1 \/ r = n
    BY <1>1
  <2> QED
    BY <1>5, <1>6, <2>1, <2>2
<1>9. \A r \in Ranks :
          \/ First(q1, "refresh", r)
          \/ r <= n /\ rk[r].refreshState = "REF_DRAIN"
          => First(b.q, "refresh", r)
  <2>1. \A r \in Ranks :
          \/ First(q1, "refresh", r)
          \/ r <= n - 1 /\ rk[r].refreshState = "REF_DRAIN"
          => First(a.q, "refresh", r)
    BY DEF CheckedUpTo, q1
  <2>2. \A r \in Ranks : r <= n <=> r <= n - 1 \/ r = n
    BY <1>1
  <2> QED
    BY <1>5, <1>6, <2>1, <2>2
<1> QED
  BY <1>5, <1>6, <1>7, <1>8, <1>9 DEF CheckedUpTo, b, q1

(* After isBusy no rank waits for the loop to go on with its refresh. *)
LEMMA CheckedAll ==
    ASSUME Ctl, Fire("nextReq", 0)
    PROVE  CheckedUpTo(isBusyEffect, numRanks)
<1> DEFINE Bad == {n \in 0 .. numRanks : ~CheckedUpTo(checked[n], n)}
<1>1. numRanks \in Nat /\ 0 \in 0 .. numRanks /\ rk \in [Ranks -> RankState]
      /\ \A r \in Ranks : r \in Nat /\ r # 0 /\ ~(r <= 0)
  BY Constants DEF Ctl, Ranks
<1>2. CheckedUpTo(checked[0], 0)
  <2> DEFINE base == [q |-> Tail(eventq), rk |-> rk]
  <2>1. checked[0] = base /\ base.q = Tail(eventq) /\ base.rk = rk
    BY CheckedDef
  <2> HIDE DEF base
  <2>2. rk = [r \in Ranks |-> IF r <= 0 /\ rk[r].refreshState = "REF_DRAIN"
                              THEN GoesOn(rk[r]) ELSE rk[r]]
    BY <1>1
  <2>3. QueueOK(Tail(eventq))
    BY <1>1, FireFacts
  <2>4. CheckedUpTo(base, 0)
    BY <1>1, <2>1, <2>2, <2>3 DEF CheckedUpTo
  <2> QED
    BY <2>1, <2>4
<1>3. Bad = {}
  <2> SUFFICES ASSUME Bad # {} PROVE FALSE
    OBVIOUS
  <2>1. Bad \in SUBSET Nat
    BY <1>1
  <2>2. Min(Bad) \in Bad /\ \A y \in Bad : Min(Bad) <= y
    <3> HIDE DEF Bad
    <3> QED
      BY <2>1, MinIsMember
  <2>3. PICK m \in Bad : \A y \in Bad : m <= y
    BY <2>2
  <2>4. m # 0
    BY <1>2, <2>3
  <2>5. m \in Ranks /\ m - 1 \in 0 .. numRanks /\ ~(m <= m - 1)
    BY <1>1, <2>3, <2>4 DEF Ranks
  <2>6. CheckedUpTo(checked[m - 1], m - 1)
    BY <2>3, <2>5
  <2>7. checked[m] = CheckNext(checked[m - 1], m)
    BY <2>5, CheckedDef
  <2>8. CheckedUpTo(checked[m], m)
    BY <2>5, <2>6, <2>7, CheckNextOK
  <2> QED
    BY <2>3, <2>8
<1>4. numRanks \in 0 .. numRanks
  BY <1>1
<1> QED
  BY <1>3, <1>4 DEF isBusyEffect

(* A turn starts: no rank waits for it any longer. *)
LEMMA BusyOK ==
    ASSUME Ctl, Fire("nextReq", 0), NEW t, t = isBusyEffect
    PROVE  /\ QueueOK(t.q) /\ t.rk \in [Ranks -> RankState]
           /\ ~Scheduled(t.q, "nextReq", 0)
           /\ \A ev, r, u : ev # "refresh" /\ ~(ev = "nextReq" /\ r = 0) =>
                 (At(t.q, ev, r, u) <=> At(eventq, ev, r, u))
           /\ \A r \in Ranks :
                 /\ RankOK(t.q, t.rk[r], r, respQueue)
                 /\ ~Scheduled(t.q, "power", r)
                 /\ t.rk[r].refreshState \notin {"REF_DRAIN", "REF_START"}
                 /\ t.rk[r].refreshState =
                       IF rk[r].refreshState = "REF_DRAIN" THEN "REF_PD_EXIT"
                                                           ELSE rk[r].refreshState
                 /\ t.rk[r].refreshDueAt = rk[r].refreshDueAt
                 /\ t.rk[r].banks = rk[r].banks
                 /\ rk[r].refreshState = "REF_RUN" =>
                       \A u : At(t.q, "refresh", r, u) <=> At(eventq, "refresh", r, u)
<1> DEFINE q1 == Tail(eventq)
<1>1. /\ QueueOK(eventq) /\ rk \in [Ranks -> RankState] /\ numRanks \in Nat
      /\ respQueue \in Seq(Response)
      /\ 0 \in 0 .. numRanks /\ \A r \in Ranks : r # 0 /\ r <= numRanks
      /\ \A r \in Ranks : RankOK(eventq, rk[r], r, respQueue)
  BY Constants, SMTT(30) DEF Ctl, Ranks, Responses
<1>2. /\ QueueOK(q1)
      /\ \A r \in Ranks : ~Scheduled(eventq, "power", r)
                          /\ rk[r].refreshState # "REF_START"
      /\ \A e2, r2, u : At(q1, e2, r2, u) <=>
            At(eventq, e2, r2, u) /\ ~(e2 = "nextReq" /\ r2 = 0)
      /\ \A r2 : r2 # 0 => Untouched(eventq, q1, r2)
  BY <1>1, FireFacts
<1>3. /\ QueueOK(t.q)
      /\ t.rk = [r \in Ranks |-> IF r <= numRanks /\ rk[r].refreshState = "REF_DRAIN"
                                 THEN GoesOn(rk[r]) ELSE rk[r]]
      /\ \A ev, r, u : At(t.q, ev, r, u) <=>
          \/ At(q1, ev, r, u)
          \/ /\ ev = "refresh" /\ u = 0
             /\ r \in Ranks /\ r <= numRanks /\ rk[r].refreshState = "REF_DRAIN"
      /\ \A r \in Ranks :
          \/ First(q1, "refresh", r)
          \/ r <= numRanks /\ rk[r].refreshState = "REF_DRAIN"
          => First(t.q, "refresh", r)
  BY CheckedAll DEF CheckedUpTo
<1> HIDE DEF q1
<1>4. ASSUME NEW r \in Ranks
      PROVE  /\ t.rk[r] \in RankState
             /\ t.rk[r] = IF rk[r].refreshState = "REF_DRAIN" THEN GoesOn(rk[r]) ELSE rk[r]
             /\ t.rk[r].refreshState =
                       IF rk[r].refreshState = "REF_DRAIN" THEN "REF_PD_EXIT"
                                                           ELSE rk[r].refreshState
             /\ t.rk[r].refreshDueAt = rk[r].refreshDueAt
             /\ t.rk[r].banks = rk[r].banks
             /\ t.rk[r].pwrState = rk[r].pwrState
             /\ t.rk[r].pwrStateTrans = rk[r].pwrStateTrans
             /\ t.rk[r].outstandingEvents = rk[r].outstandingEvents
  <2> DEFINE x == rk[r]
             y == GoesOn(x)
  <2>1. x \in RankState
    BY <1>1
  <2>2. t.rk[r] = IF x.refreshState = "REF_DRAIN" THEN y ELSE x
    BY <1>1, <1>3
  <2>3. /\ y \in RankState /\ y.refreshState = "REF_PD_EXIT"
        /\ y.refreshDueAt = x.refreshDueAt /\ y.banks = x.banks
        /\ y.pwrState = x.pwrState /\ y.pwrStateTrans = x.pwrStateTrans
        /\ y.outstandingEvents = x.outstandingEvents
    <3> HIDE DEF x
    <3> QED
      BY <2>1 DEF GoesOn, RankState
  <2> HIDE DEF y
  <2>4. CASE x.refreshState = "REF_DRAIN"
    BY <2>1, <2>2, <2>3, <2>4 DEF y
  <2>5. CASE x.refreshState # "REF_DRAIN"
    BY <2>1, <2>2, <2>5 DEF y
  <2> QED
    BY <2>4, <2>5
<1>5. t.rk \in [Ranks -> RankState]
  BY <1>3, <1>4
<1>6. \A ev, r, u : ev # "refresh" /\ ~(ev = "nextReq" /\ r = 0) =>
                 (At(t.q, ev, r, u) <=> At(eventq, ev, r, u))
  BY <1>2, <1>3
<1>7. ~Scheduled(t.q, "nextReq", 0)
  BY <1>2, <1>3, WhenOK
<1>8. ASSUME NEW r \in Ranks
      PROVE  \A ev : ev # "refresh" => (Scheduled(t.q, ev, r) <=> Scheduled(eventq, ev, r))
  BY <1>1, <1>3, <1>6, WhenOK
<1>9. ASSUME NEW r \in Ranks, rk[r].refreshState # "REF_DRAIN"
      PROVE  /\ RankOK(t.q, t.rk[r], r, respQueue)
             /\ \A u : At(t.q, "refresh", r, u) <=> At(eventq, "refresh", r, u)
  <2>1. t.rk[r] = rk[r] /\ rk[r] \in RankState
    BY <1>1, <1>4, <1>9
  <2>2. \A ev, u : At(t.q, ev, r, u) <=> At(eventq, ev, r, u)
    BY <1>1, <1>2, <1>3, <1>9
  <2>3. Untouched(eventq, t.q, r)
    BY <1>1, <1>2, <1>3, <2>2 DEF Untouched
  <2>4. SameRank(rk[r], rk[r]) /\ SameReads(rk[r], rk[r], respQueue, respQueue, r)
    <3>1. Flying(respQueue, r) \in Nat /\ rk[r].outstandingEvents \in Int
      BY <1>1, <2>1, FlyingNat, RankTypes
    <3> QED
      BY <2>1, <3>1, RankTypes DEF SameRank, SameScalars, SameReads
  <2>5. RankOK(t.q, rk[r], r, respQueue)
    BY <1>1, <1>2, <1>3, <1>9, <2>3, <2>4, Frame
  <2> QED
    BY <2>1, <2>2, <2>5
<1>10. ASSUME NEW r \in Ranks, rk[r].refreshState = "REF_DRAIN"
       PROVE  RankOK(t.q, t.rk[r], r, respQueue)
  <2> DEFINE k == rk[r]
             k2 == t.rk[r]
  <2>1. /\ k2 \in RankState /\ k2.refreshState = "REF_PD_EXIT" /\ k2.banks = k.banks
        /\ k2.pwrState = k.pwrState /\ k2.pwrStateTrans = k.pwrStateTrans
        /\ k2.outstandingEvents = k.outstandingEvents
    BY <1>4, <1>10
  <2>2. RankOK(eventq, k, r, respQueue) /\ ~Scheduled(eventq, "power", r)
    BY <1>1, <1>2
  <2>3. First(t.q, "refresh", r)
    BY <1>1, <1>3, <1>10
  <2>4. AllCovered(t.q, k2, r, respQueue)
    BY <1>6, <2>1, <2>2 DEF AllCovered, Covered, RankOK
  <2>5. PowerOK(t.q, k2, r, respQueue)
    <3>1. Busy(t.q, k2, r) <=> Busy(eventq, k, r)
      BY <1>8, <2>1 DEF Busy, Closed
    <3>2. ~Scheduled(t.q, "power", r)
      BY <1>8, <2>2
    <3> QED
      BY <1>10, <2>1, <2>2, <3>1, <3>2 DEF PowerOK, RankOK
  <2>6. PhaseOK(t.q, k2, r, respQueue)
    BY <2>1, <2>3 DEF PhaseOK
  <2>7. Counted(t.q, k2, r, respQueue)
    <3>1. /\ One(Scheduled(t.q, "precharge", r)) = One(Scheduled(eventq, "precharge", r))
          /\ One(Scheduled(t.q, "writeDone", r)) = One(Scheduled(eventq, "writeDone", r))
          /\ One(k2.refreshState # "REF_IDLE") = One(k.refreshState # "REF_IDLE")
      BY <1>8, <1>10, <2>1 DEF One
    <3> QED
      BY <2>1, <2>2, <3>1 DEF Counted, RankOK
  <2>8. ~Scheduled(t.q, "wakeUp", r)
    BY <1>8, <2>2 DEF RankOK
  <2> QED
    BY <2>1, <2>4, <2>5, <2>6, <2>7, <2>8 DEF RankOK
<1>11. ASSUME NEW r \in Ranks
       PROVE  /\ RankOK(t.q, t.rk[r], r, respQueue)
              /\ ~Scheduled(t.q, "power", r)
              /\ t.rk[r].refreshState \notin {"REF_DRAIN", "REF_START"}
              /\ rk[r].refreshState = "REF_RUN" =>
                    \A u : At(t.q, "refresh", r, u) <=> At(eventq, "refresh", r, u)
  BY <1>2, <1>4, <1>8, <1>9, <1>10
<1> QED
  BY <1>3, <1>4, <1>5, <1>6, <1>7, <1>11

(* A turn that issues no burst leaves a rank's times as they were. *)
TurnRank(q, k, q2, k2, r) ==
    /\ k2.refreshState = IF k.refreshState = "REF_DRAIN" THEN "REF_PD_EXIT"
                                                         ELSE k.refreshState
    /\ k2.refreshDueAt = k.refreshDueAt /\ k2.banks = k.banks
    /\ \A p : At(q2, "precharge", r, p) => At(q, "precharge", r, p)
    /\ k.refreshState = "REF_RUN" =>
          \A ev \in {"refresh", "power"} : \A t : At(q2, ev, r, t) <=> At(q, ev, r, t)

(* A turn of the loop that gives no burst, with the event of the next. *)
LEMMA TurnCtl ==
    ASSUME Ctl, Fire("nextReq", 0), rk' = isBusyEffect.rk, NEW at \in Nat,
           NEW again \in BOOLEAN,
           eventq' = IF again THEN Schedule(isBusyEffect.q, "nextReq", 0, at)
                              ELSE isBusyEffect.q,
           CtrlOK', respQueue' = respQueue
    PROVE  /\ Ctl'
           /\ \A r \in Ranks : TurnRank(eventq, rk[r], eventq', rk'[r], r)
           /\ \A a : At(eventq', "nextReq", 0, a) => again /\ a = at
           /\ again => nextReqScheduled(eventq')
<1> DEFINE t == isBusyEffect
<1>1. /\ QueueOK(t.q) /\ t.rk \in [Ranks -> RankState]
      /\ ~Scheduled(t.q, "nextReq", 0)
      /\ \A ev, r, u : ev # "refresh" /\ ~(ev = "nextReq" /\ r = 0) =>
            (At(t.q, ev, r, u) <=> At(eventq, ev, r, u))
      /\ \A r \in Ranks :
            /\ RankOK(t.q, t.rk[r], r, respQueue)
            /\ ~Scheduled(t.q, "power", r)
            /\ t.rk[r].refreshState \notin {"REF_DRAIN", "REF_START"}
            /\ t.rk[r].refreshState =
                  IF rk[r].refreshState = "REF_DRAIN" THEN "REF_PD_EXIT"
                                                      ELSE rk[r].refreshState
            /\ t.rk[r].refreshDueAt = rk[r].refreshDueAt
            /\ t.rk[r].banks = rk[r].banks
            /\ rk[r].refreshState = "REF_RUN" =>
                  \A u : At(t.q, "refresh", r, u) <=> At(eventq, "refresh", r, u)
  BY BusyOK
<1>2. /\ QueueOK(eventq) /\ Responses(eventq, respQueue, rk) /\ 0 \in 0 .. numRanks
      /\ 0 \notin Ranks /\ "nextReq" \in EventKinds /\ respQueue \in Seq(Response)
  BY Constants DEF Ctl, Ranks, EventKinds, Responses
<1> HIDE DEF t
<1>3. /\ QueueOK(eventq')
      /\ \A e2, r2, u : At(eventq', e2, r2, u) <=>
            At(t.q, e2, r2, u) \/ (again /\ e2 = "nextReq" /\ r2 = 0 /\ u = at)
      /\ \A r2 : r2 # 0 => Untouched(t.q, eventq', r2)
  <2>1. CASE again
    <3>1. eventq' = Schedule(t.q, "nextReq", 0, at)
      BY <2>1 DEF t
    <3> QED
      BY <1>1, <1>2, <2>1, <3>1, ScheduleOK
  <2>2. CASE ~again
    <3>1. eventq' = t.q
      BY <2>2 DEF t
    <3> QED
      BY <1>1, <2>2, <3>1 DEF Untouched
  <2> QED
    BY <2>1, <2>2
<1>4. rk' = t.rk
  BY DEF t
<1>5. ASSUME NEW r \in Ranks PROVE RankOK(eventq', rk'[r], r, respQueue)
  <2>1. t.rk[r] \in RankState /\ Flying(respQueue, r) \in Nat
        /\ t.rk[r].outstandingEvents \in Int
    BY <1>1, <1>2, RankTypes, FlyingNat
  <2>2. SameRank(t.rk[r], t.rk[r]) /\ SameReads(t.rk[r], t.rk[r], respQueue, respQueue, r)
    BY <2>1, RankTypes DEF SameRank, SameScalars, SameReads
  <2>3. Untouched(t.q, eventq', r)
    BY <1>2, <1>3
  <2> QED
    BY <1>1, <1>3, <1>4, <2>2, <2>3, Frame
<1>6. Responses(eventq', respQueue', rk')
  <2>1. \A u : At(eventq', "respond", 0, u) <=> At(eventq, "respond", 0, u)
    BY <1>1, <1>3
  <2>2. Scheduled(eventq', "respond", 0) <=> Scheduled(eventq, "respond", 0)
    BY <1>2, <1>3, <2>1, WhenOK
  <2>3. \A r \in Ranks : rk'[r].banks = rk[r].banks
    BY <1>1, <1>4
  <2> QED
    BY <1>2, <2>1, <2>2, <2>3 DEF Responses
<1>7. Ctl'
  BY <1>1, <1>3, <1>4, <1>5, <1>6 DEF Ctl
<1>8. ASSUME NEW r \in Ranks PROVE TurnRank(eventq, rk[r], eventq', rk'[r], r)
  <2>1. \A u : At(eventq', "precharge", r, u) <=> At(eventq, "precharge", r, u)
    BY <1>1, <1>3
  <2>2. \A u : At(eventq', "power", r, u) <=> At(eventq, "power", r, u)
    BY <1>1, <1>3
  <2>3. rk[r].refreshState = "REF_RUN" =>
           \A u : At(eventq', "refresh", r, u) <=> At(eventq, "refresh", r, u)
    BY <1>1, <1>3
  <2> QED
    BY <1>1, <1>4, <2>1, <2>2, <2>3 DEF TurnRank
<1>9. \A a : At(eventq', "nextReq", 0, a) => again /\ a = at
  <2>1. \A a : ~At(t.q, "nextReq", 0, a)
    BY <1>1 DEF At, Scheduled
  <2> QED
    BY <1>3, <2>1
<1>10. again => nextReqScheduled(eventq')
  BY <1>3, WhenOK DEF nextReqScheduled
<1> QED
  BY <1>7, <1>8, <1>9, <1>10

(* The loop stops when there is nothing to schedule: no refresh waits for  *)
(* it.                                                                     *)
LEMMA StopLoopCtl ==
    ASSUME Ctl, StopLoop
    PROVE  /\ Ctl' /\ nextBurstAt' = nextBurstAt
           /\ \A r \in Ranks : TurnRank(eventq, rk[r], eventq', rk'[r], r)
           /\ \A a : ~At(eventq', "nextReq", 0, a)
<1>1. /\ Fire("nextReq", 0) /\ rk' = isBusyEffect.rk /\ eventq' = isBusyEffect.q
      /\ UNCHANGED ctrl
  BY DEF StopLoop
<1>2. CtrlOK' /\ respQueue' = respQueue /\ nextBurstAt' = nextBurstAt
  BY <1>1 DEF Ctl, CtrlOK, ctrl
<1>3. 0 \in Nat /\ FALSE \in BOOLEAN
  OBVIOUS
<1> QED
  BY <1>1, <1>2, <1>3, TurnCtl

(* A switch to writes gives the loop a next turn before the bus is free. *)
LEMMA SwitchCtl ==
    ASSUME Ctl, SwitchToWrites
    PROVE  /\ Ctl' /\ nextBurstAt' = nextBurstAt
           /\ \A r \in Ranks : TurnRank(eventq, rk[r], eventq', rk'[r], r)
           /\ \A a : At(eventq', "nextReq", 0, a) =>
                 a = Later(nextBurstAt - tRP - tRCD, 0)
           /\ nextReqScheduled(eventq')
<1> DEFINE at == Later(nextBurstAt - tRP - tRCD, 0)
<1>1. /\ Fire("nextReq", 0) /\ rk' = isBusyEffect.rk
      /\ eventq' = Schedule(isBusyEffect.q, "nextReq", 0, at)
      /\ busStateNext' = "WRITE"
      /\ UNCHANGED <<activeRank, nextBurstAt, respQueue, reads, writes, draining>>
  BY DEF SwitchToWrites
<1>2. CtrlOK' /\ respQueue' = respQueue /\ nextBurstAt' = nextBurstAt
  BY <1>1 DEF Ctl, CtrlOK
<1>3. at \in Nat
  <2>1. nextBurstAt \in Int /\ tRP \in Nat /\ tRCD \in Nat
    BY Constants DEF Ctl, CtrlOK
  <2> QED
    BY <2>1 DEF Later
<1> HIDE DEF at
<1>4. TRUE \in BOOLEAN
  OBVIOUS
<1>5. /\ Ctl'
      /\ \A r \in Ranks : TurnRank(eventq, rk[r], eventq', rk'[r], r)
      /\ \A a : At(eventq', "nextReq", 0, a) => a = at
      /\ nextReqScheduled(eventq')
  BY <1>1, <1>2, <1>3, <1>4, TurnCtl
<1> QED
  BY <1>2, <1>5 DEF at

----------------------------------------------------------------------------
(* A burst *)

(* The rank of a burst, between two steps of doBurstAccess. *)
Bursting(s, r, resp) ==
    /\ s \in StepType /\ QueueOK(s.q) /\ resp \in Seq(Response)
    /\ s.k.refreshState = "REF_IDLE" /\ s.k.pwrState # "REF"
    /\ ~Scheduled(s.q, "power", r) /\ ~Scheduled(s.q, "wakeUp", r)
    /\ Scheduled(s.q, "refresh", r)
    /\ AllCovered(s.q, s.k, r, resp)
    /\ s.k.pwrState = "ACT" => Busy(s.q, s.k, r)
    /\ Counted(s.q, s.k, r, resp)

(* What every step of a burst leaves alone: other ranks, the refresh that  *)
(* is to come, and the precharges to come.                                 *)
BurstStep(s, s2, r) ==
    /\ \A r2 : r2 # r => Untouched(s.q, s2.q, r2)
    /\ s2.k.refreshDueAt = s.k.refreshDueAt
    /\ \A t \in Nat : Covered(s.q, s.k, r, t) => Covered(s2.q, s2.k, r, t)

(* The precharges of the rank come by m, and its activates after them. *)
Within(s, r, m) ==
    /\ \A b \in Banks : s.k.banks[b].preAt <= m /\ s.k.banks[b].actAt <= m + tRP
    /\ \A p \in Nat : At(s.q, "precharge", r, p) => p <= m + tRP

(* A burst starts with the invariant of its rank, and ends with it. *)
LEMMA BurstingRank ==
    ASSUME NEW s \in StepType, QueueOK(s.q), NEW r, NEW resp \in Seq(Response)
    PROVE  /\ /\ RankOK(s.q, s.k, r, resp) /\ s.k.refreshState = "REF_IDLE"
              /\ ~Scheduled(s.q, "power", r)
              => Bursting(s, r, resp)
           /\ Bursting(s, r, resp) => RankOK(s.q, s.k, r, resp)
<1>1. ASSUME RankOK(s.q, s.k, r, resp), s.k.refreshState = "REF_IDLE",
             ~Scheduled(s.q, "power", r)
      PROVE  Bursting(s, r, resp)
  BY <1>1 DEF Bursting, RankOK, PowerOK, PhaseOK
<1>2. ASSUME Bursting(s, r, resp) PROVE RankOK(s.q, s.k, r, resp)
  <2>1. PowerOK(s.q, s.k, r, resp)
    BY <1>2 DEF Bursting, PowerOK
  <2>2. PhaseOK(s.q, s.k, r, resp)
    BY <1>2 DEF Bursting, PhaseOK
  <2>3. s.k \in RankState
    BY DEF StepType
  <2> QED
    BY <1>2, <2>1, <2>2, <2>3 DEF Bursting, RankOK
<1> QED
  BY <1>1, <1>2

(* Only the banks of a rank change. *)
LEMMA BanksSet ==
    ASSUME NEW s \in StepType, NEW B \in [Banks -> Bank]
    PROVE  LET s2 == [s EXCEPT !.k.banks = B]
           IN  /\ s2 \in StepType /\ s2.q = s.q /\ s2.k.banks = B
               /\ SameScalars(s.k, s2.k)
               /\ s2.k.outstandingEvents = s.k.outstandingEvents
<1> DEFINE s2 == [s EXCEPT !.k.banks = B]
           k2 == [s.k EXCEPT !.banks = B]
<1>1. s.q \in Seq(Event) /\ s.k \in RankState
  BY DEF StepType
<1>2. /\ k2 \in RankState /\ k2.banks = B
      /\ SameScalars(s.k, k2) /\ k2.outstandingEvents = s.k.outstandingEvents
  BY <1>1 DEF RankState, SameScalars
<1>3. s2 = [q |-> s.q, k |-> k2]
  BY <1>1 DEF StepType
<1> HIDE DEF k2, s2
<1>4. s2 \in StepType /\ s2.q = s.q /\ s2.k = k2
  BY <1>1, <1>2, <1>3 DEF StepType
<1> QED
  BY <1>2, <1>4 DEF s2

(* A bank is precharged when its constraint allows it. *)
LEMMA PrechargeBankOK ==
    ASSUME NEW s, NEW r \in Ranks, NEW resp, Bursting(s, r, resp), NEW b \in Banks,
           s.k.banks[b].open, NEW explicit \in BOOLEAN
    PROVE  LET s2 == prechargeBank(s, r, b, s.k.banks[b].preAt, explicit)
           IN  /\ Bursting(s2, r, resp) /\ BurstStep(s, s2, r)
               /\ ~s2.k.banks[b].open
               /\ \A c \in Banks : s2.k.banks[c].colAt = s.k.banks[c].colAt
               /\ \A m \in Int : Within(s, r, m) => Within(s2, r, m)
<1> DEFINE at == s.k.banks[b].preAt
           B == [c \in Banks |->
            IF c = b
            THEN [s.k.banks[b] EXCEPT !.open = FALSE, !.preAt = Later(@, at),
                                      !.actAt = Later(@, at + tRP)]
            ELSE [s.k.banks[c] EXCEPT
                    !.preAt = IF explicit THEN Later(@, at) ELSE @]]
           s1 == [s EXCEPT !.k.banks = B]
           s2 == LastEventAt(s1, "precharge", r, at + tRP)
<1>1. prechargeBank(s, r, b, s.k.banks[b].preAt, explicit) = s2
  BY DEF prechargeBank, PrechargeEventAt, LastEventAt
<1>2. /\ s \in StepType /\ s.k \in RankState /\ s.q \in Seq(Event) /\ QueueOK(s.q)
      /\ resp \in Seq(Response) /\ s.k.outstandingEvents \in Int
      /\ \A c \in Banks : /\ s.k.banks[c] \in Bank /\ s.k.banks[c].preAt \in Nat
                          /\ s.k.banks[c].actAt \in Nat /\ s.k.banks[c].colAt \in Nat
  BY RankTypes DEF Bursting, StepType
<1>3. at \in Nat /\ tRP \in Nat
  BY <1>2, Constants
<1>4. ASSUME NEW c \in Banks
      PROVE  /\ B[c] \in Bank /\ B[c].colAt = s.k.banks[c].colAt
             /\ B[c].open = (c # b /\ s.k.banks[c].open)
             /\ s.k.banks[c].preAt <= B[c].preAt
             /\ B[c].preAt \in {s.k.banks[c].preAt, at}
             /\ B[c].actAt \in {s.k.banks[c].actAt, at + tRP}
  <2> DEFINE x == s.k.banks[c]
             p == IF c = b THEN Later(x.preAt, at)
                  ELSE IF explicit THEN Later(x.preAt, at) ELSE x.preAt
             a == Later(x.actAt, at + tRP)
             y == IF c = b THEN [x EXCEPT !.open = FALSE, !.preAt = p, !.actAt = a]
                           ELSE [x EXCEPT !.preAt = p]
  <2>1. B[c] = y
    OBVIOUS
  <2>2. x \in Bank /\ x.preAt \in Nat /\ x.actAt \in Nat /\ x.open \in BOOLEAN
    BY <1>2 DEF Bank
  <2> HIDE DEF x, at, B
  <2>3. /\ p \in Nat /\ a \in Nat /\ p \in {x.preAt, at} /\ x.preAt <= p
        /\ a \in {x.actAt, at + tRP}
    BY <1>3, <2>2 DEF Later
  <2> HIDE DEF p, a
  <2>4. CASE c = b
    <3>1. y = [x EXCEPT !.open = FALSE, !.preAt = p, !.actAt = a]
      BY <2>4
    <3> HIDE DEF y
    <3>2. y \in Bank /\ ~y.open /\ y.preAt = p /\ y.actAt = a /\ y.colAt = x.colAt
          /\ y.open \in BOOLEAN
      BY <2>2, <2>3, <3>1 DEF Bank
    <3> QED
      BY <2>1, <2>3, <2>4, <3>2 DEF x
  <2>5. CASE c # b
    <3>1. y = [x EXCEPT !.preAt = p]
      BY <2>5
    <3> HIDE DEF y
    <3>2. y \in Bank /\ y.open = x.open /\ y.preAt = p /\ y.actAt = x.actAt
          /\ y.colAt = x.colAt
      BY <2>2, <2>3, <3>1 DEF Bank
    <3> QED
      BY <2>1, <2>2, <2>3, <2>5, <3>2 DEF x
  <2> QED
    BY <2>4, <2>5
<1>5. B \in [Banks -> Bank]
  <2>1. B = [c \in Banks |-> B[c]]
    OBVIOUS
  <2> HIDE DEF B
  <2> QED
    BY <1>4, <2>1
<1> HIDE DEF B
<1>6. /\ s1 \in StepType /\ s1.q = s.q /\ s1.k.banks = B
      /\ SameScalars(s.k, s1.k) /\ s1.k.outstandingEvents = s.k.outstandingEvents
  BY <1>2, <1>5, BanksSet
<1> HIDE DEF s1, at
<1>7. at + tRP \in Nat /\ "precharge" \in EventKinds /\ r \in 0 .. numRanks
  BY <1>3, Constants DEF EventKinds, Ranks
<1> DEFINE end == at + tRP
<1>8. end \in Nat /\ s2 = LastEventAt(s1, "precharge", r, end)
  BY <1>7
<1> HIDE DEF end
<1>9. /\ s2 \in StepType /\ QueueOK(s2.q)
      /\ \E p \in Nat :
            /\ end <= p /\ At(s2.q, "precharge", r, p)
            /\ p = end \/ At(s1.q, "precharge", r, p)
            /\ \A p0 \in Nat : At(s1.q, "precharge", r, p0) => p0 <= p
      /\ \A e2, r2, t : e2 # "precharge" => (At(s2.q, e2, r2, t) <=> At(s1.q, e2, r2, t))
      /\ \A r2 : r2 # r => Untouched(s1.q, s2.q, r2)
      /\ SameScalars(s1.k, s2.k) /\ s2.k.banks = s1.k.banks
      /\ s2.k.outstandingEvents =
            s1.k.outstandingEvents + One(~Scheduled(s1.q, "precharge", r))
  <2> HIDE DEF s2
  <2>1. QueueOK(s1.q) /\ s1 \in StepType
    BY <1>2, <1>6
  <2> QED
    BY <1>7, <1>8, <2>1, LastEventOK
<1> HIDE DEF s2
<1>10. PICK p \in Nat :
            /\ end <= p /\ At(s2.q, "precharge", r, p)
            /\ p = end \/ At(s.q, "precharge", r, p)
            /\ \A p0 \in Nat : At(s.q, "precharge", r, p0) => p0 <= p
  BY <1>6, <1>9
<1>11. /\ \A e2, r2 : e2 # "precharge" => (Scheduled(s2.q, e2, r2) <=> Scheduled(s.q, e2, r2))
       /\ Scheduled(s2.q, "precharge", r)
  BY <1>2, <1>6, <1>9, <1>10, WhenOK
<1>12. SameScalars(s.k, s2.k) /\ s2.k.banks = B
  BY <1>6, <1>9 DEF SameScalars
<1>13. ASSUME NEW t \in Nat, Covered(s.q, s.k, r, t) PROVE Covered(s2.q, s2.k, r, t)
  <2>1. ASSUME NEW c \in Banks, s.k.banks[c].open, s.k.banks[c].preAt + tRP > t
        PROVE  Covered(s2.q, s2.k, r, t)
    <3>1. CASE c = b
      <4>1. p > t
        BY <1>3, <1>10, <2>1, <3>1 DEF end, at
      <4> QED
        BY <1>10, <4>1 DEF Covered
    <3>2. CASE c # b
      <4>1. s2.k.banks[c].open /\ s.k.banks[c].preAt <= s2.k.banks[c].preAt
            /\ s2.k.banks[c].preAt \in Nat
        BY <1>2, <1>3, <1>4, <1>12, <2>1, <3>2
      <4>2. s2.k.banks[c].preAt + tRP > t
        <5> DEFINE x == s.k.banks[c].preAt
                   y == s2.k.banks[c].preAt
        <5>1. x \in Nat /\ y \in Nat /\ x <= y /\ x + tRP > t
          BY <1>2, <2>1, <4>1
        <5> HIDE DEF x, y
        <5>2. y + tRP > t
          BY <1>3, <5>1
        <5> QED
          BY <5>2 DEF y
      <4> QED
        BY <4>1, <4>2 DEF Covered
    <3> QED
      BY <3>1, <3>2
  <2>2. ASSUME NEW p0 \in Nat, At(s.q, "precharge", r, p0), p0 > t
        PROVE  Covered(s2.q, s2.k, r, t)
    <3>1. p > t
      BY <1>10, <2>2
    <3> QED
      BY <1>10, <3>1 DEF Covered
  <2> QED
    BY <1>13, <2>1, <2>2 DEF Covered
<1>14. AllCovered(s2.q, s2.k, r, resp)
  <2>1. AllCovered(s.q, s.k, r, resp)
    BY DEF Bursting
  <2> QED
    BY <1>6, <1>9, <1>13, <2>1 DEF AllCovered
<1>15. Busy(s2.q, s2.k, r)
  BY <1>11 DEF Busy
<1>16. Counted(s2.q, s2.k, r, resp)
  <2> DEFINE o  == s.k.outstandingEvents
             f  == Flying(resp, r)
             n1 == One(Scheduled(s.q, "precharge", r))
             n2 == One(Scheduled(s.q, "writeDone", r))
             n3 == One(s.k.refreshState # "REF_IDLE")
             m1 == One(~Scheduled(s.q, "precharge", r))
  <2>1. o = f + n1 + n2 + n3
    BY DEF Bursting, Counted
  <2>2. /\ One(Scheduled(s2.q, "precharge", r)) = 1
        /\ One(Scheduled(s2.q, "writeDone", r)) = n2
        /\ One(s2.k.refreshState # "REF_IDLE") = n3
        /\ n1 + m1 = 1
    BY <1>11, <1>12 DEF One, SameScalars
  <2>3. s2.k.outstandingEvents = o + m1
    BY <1>6, <1>9
  <2>4. o \in Int /\ n1 \in Int /\ n2 \in Int /\ n3 \in Int /\ m1 \in Int /\ f \in Int
    <3>1. f \in Nat
      BY <1>2, FlyingNat
    <3> QED
      BY <1>2, <3>1 DEF One
  <2>5. f + n1 + n2 + n3 + m1 = f + 1 + n2 + n3
    <3> HIDE DEF n1, n2, n3, m1, f
    <3> QED
      BY <2>2, <2>4
  <2> QED
    BY <2>1, <2>2, <2>3, <2>5 DEF Counted
<1>17. Bursting(s2, r, resp)
  BY <1>2, <1>9, <1>11, <1>12, <1>14, <1>15, <1>16 DEF Bursting, SameScalars
<1>18. BurstStep(s, s2, r)
  BY <1>6, <1>9, <1>12, <1>13 DEF BurstStep, SameScalars
<1>19. ASSUME NEW m \in Int, Within(s, r, m) PROVE Within(s2, r, m)
  <2>1. at <= m
    BY <1>19 DEF Within, at
  <2>2. ASSUME NEW c \in Banks PROVE B[c].preAt <= m /\ B[c].actAt <= m + tRP
    <3>1. /\ s.k.banks[c].preAt <= m /\ s.k.banks[c].actAt <= m + tRP
          /\ at + tRP <= m + tRP
      BY <1>3, <1>19, <2>1 DEF Within
    <3> QED
      BY <1>4, <2>1, <3>1
  <2>3. end <= m + tRP
    BY <1>3, <2>1 DEF end
  <2>4. \A p2 \in Nat : At(s2.q, "precharge", r, p2) => p2 = p
    BY <1>9, <1>10, WhenOK
  <2>5. p <= m + tRP
    BY <1>10, <1>19, <2>3 DEF Within
  <2> QED
    BY <1>12, <2>2, <2>4, <2>5 DEF Within
<1> QED
  BY <1>1, <1>4, <1>12, <1>17, <1>18, <1>19 DEF at

(* The activate event, moved to where an earlier activate needs it.        *)
FirstEventAt(q, ev, r, at) ==
    IF ~Scheduled(q, ev, r) THEN Schedule(q, ev, r, at)
    ELSE IF When(q, ev, r) > at THEN Schedule(Deschedule(q, ev, r), ev, r, at)
    ELSE q

(* An event moved to an earlier tick, or scheduled: the activate of a row, *)
(* of which the rank keeps the first.                                      *)
LEMMA FirstEventOK ==
    ASSUME NEW q, QueueOK(q), NEW ev \in EventKinds, NEW r \in 0 .. numRanks,
           NEW at \in Nat
    PROVE  LET q2 == FirstEventAt(q, ev, r, at)
           IN  /\ QueueOK(q2)
               /\ \A t : At(q2, ev, r, t) => t = at \/ At(q, ev, r, t)
               /\ \A e2, r2, t : e2 # ev => (At(q2, e2, r2, t) <=> At(q, e2, r2, t))
               /\ \A r2 : r2 # r => Untouched(q, q2, r2)
<1> DEFINE q2 == FirstEventAt(q, ev, r, at)
<1>1. CASE ~Scheduled(q, ev, r)
  <2>1. q2 = Schedule(q, ev, r, at)
    BY <1>1 DEF FirstEventAt
  <2> HIDE DEF q2
  <2> QED
    BY <1>1, <2>1, ScheduleOK DEF q2
<1>2. CASE Scheduled(q, ev, r) /\ When(q, ev, r) > at
  <2> DEFINE q1 == Deschedule(q, ev, r)
  <2>1. q2 = Schedule(q1, ev, r, at)
    BY <1>2 DEF FirstEventAt
  <2>2. /\ QueueOK(q1) /\ ~Scheduled(q1, ev, r)
        /\ \A e2, r2, t : At(q1, e2, r2, t) <=>
              At(q, e2, r2, t) /\ ~(e2 = ev /\ r2 = r)
        /\ \A r2 : r2 # r => Untouched(q, q1, r2)
    BY <1>2, DescheduleOK
  <2> HIDE DEF q1, q2
  <2>3. /\ QueueOK(q2)
        /\ \A e2, r2, t : At(q2, e2, r2, t) <=>
              At(q1, e2, r2, t) \/ (e2 = ev /\ r2 = r /\ t = at)
        /\ \A r2 : r2 # r => Untouched(q1, q2, r2)
    BY <2>1, <2>2, ScheduleOK
  <2>4. \A r2 : r2 # r => Untouched(q, q2, r2)
    BY <2>2, <2>3 DEF Untouched
  <2> QED
    BY <2>2, <2>3, <2>4 DEF q2
<1>3. CASE Scheduled(q, ev, r) /\ ~(When(q, ev, r) > at)
  <2>1. q2 = q
    BY <1>3 DEF FirstEventAt
  <2>2. \A r2 : Untouched(q, q, r2)
    BY DEF Untouched
  <2> HIDE DEF q2
  <2> QED
    BY <2>1, <2>2 DEF q2
<1> QED
  BY <1>1, <1>2, <1>3

(* A closed bank is activated when its constraint allows it: its precharge *)
(* will come after that.                                                   *)
LEMMA ActivateBankOK ==
    ASSUME 0 < tRP, NEW s, NEW r \in Ranks, NEW resp, Bursting(s, r, resp),
           NEW b \in Banks, ~s.k.banks[b].open
    PROVE  LET s2 == activateBank(s, r, b)
               x  == s.k.banks[b]
           IN  /\ Bursting(s2, r, resp) /\ BurstStep(s, s2, r)
               /\ s2.k.banks[b].open
               /\ s2.k.banks[b].colAt = Later(x.colAt, x.actAt + tRCD)
               /\ \A c \in Banks : c # b => s2.k.banks[c].colAt = s.k.banks[c].colAt
               /\ \A m \in Int, m2 \in Int :
                     Within(s, r, m) /\ m <= m2 /\ x.actAt + tRAS <= m2
                        => Within(s2, r, m2)
<1> DEFINE x  == s.k.banks[b]
           at == x.actAt
           q2 == FirstEventAt(s.q, "activate", r, at)
           y  == Activated(x, at)
           B  == [s.k.banks EXCEPT ![b] = y]
           s1 == [s EXCEPT !.k.banks = B]
           s2 == activateBank(s, r, b)
<1>1. /\ s \in StepType /\ s.k \in RankState /\ s.q \in Seq(Event) /\ QueueOK(s.q)
      /\ resp \in Seq(Response) /\ s.k.banks \in [Banks -> Bank]
      /\ \A c \in Banks : /\ s.k.banks[c] \in Bank /\ s.k.banks[c].preAt \in Nat
                          /\ s.k.banks[c].actAt \in Nat /\ s.k.banks[c].colAt \in Nat
  BY RankTypes DEF Bursting, StepType
<1>2. at \in Nat /\ tRP \in Nat /\ tRAS \in Nat /\ tRCD \in Nat
      /\ "activate" \in EventKinds /\ r \in 0 .. numRanks
  BY <1>1, Constants DEF EventKinds, Ranks
<1>3. /\ y \in Bank /\ y.open /\ y.preAt = at + tRAS /\ y.actAt = at
      /\ y.colAt = Later(x.colAt, at + tRCD)
  <2>1. x \in Bank /\ x.actAt = at
    BY <1>1
  <2>2. at + tRAS \in Nat /\ Later(x.colAt, at + tRCD) \in Nat
    <3> DEFINE col == x.colAt
    <3>1. col \in Nat
      BY <1>1
    <3> HIDE DEF col, at
    <3>2. Later(col, at + tRCD) \in Nat /\ at + tRAS \in Nat
      BY <1>2, <3>1 DEF Later
    <3> QED
      BY <3>2 DEF col
  <2> HIDE DEF x, at
  <2>3. \A pre \in Nat, col \in Nat :
           LET z == [x EXCEPT !.open = TRUE, !.preAt = pre, !.colAt = col]
           IN  /\ z \in Bank /\ z.open /\ z.preAt = pre /\ z.colAt = col
               /\ z.actAt = x.actAt
    BY <2>1 DEF Bank
  <2>4. y = [x EXCEPT !.open = TRUE, !.preAt = at + tRAS,
                      !.colAt = Later(x.colAt, at + tRCD)]
    BY <2>1 DEF Activated, Bank
  <2> DEFINE pre == at + tRAS
             col == Later(x.colAt, at + tRCD)
  <2>5. pre \in Nat /\ col \in Nat /\ y = [x EXCEPT !.open = TRUE, !.preAt = pre, !.colAt = col]
    BY <2>2, <2>4
  <2> HIDE DEF y, pre, col
  <2>6. y \in Bank /\ y.open /\ y.preAt = pre /\ y.colAt = col /\ y.actAt = x.actAt
    BY <2>3, <2>5, ZenonT(30)
  <2> QED
    BY <2>1, <2>6 DEF pre, col
<1> HIDE DEF y
<1>4. /\ B \in [Banks -> Bank] /\ B[b] = y
      /\ \A c \in Banks : c # b => B[c] = s.k.banks[c]
  BY <1>1, <1>3
<1> HIDE DEF B
<1>5. /\ s1 \in StepType /\ s1.q = s.q /\ s1.k.banks = B
      /\ SameScalars(s.k, s1.k) /\ s1.k.outstandingEvents = s.k.outstandingEvents
  BY <1>1, <1>4, BanksSet
<1>6. s2.q = q2 /\ s2.k = s1.k /\ s2 = [q |-> q2, k |-> s1.k]
  <2> DEFINE k1 == [s.k EXCEPT !.banks = B]
  <2>1. s1.k = k1
    BY <1>1 DEF StepType
  <2>2. s2 = [s EXCEPT !.q = q2, !.k.banks[b] = Activated(@, at)]
    BY DEF activateBank, FirstEventAt
  <2>3. [s.k EXCEPT !.banks[b] = Activated(@, at)] = k1
    BY DEF B, y
  <2>4. s2 = [q |-> q2, k |-> [s.k EXCEPT !.banks[b] = Activated(@, at)]]
    <3> HIDE DEF q2, at
    <3> QED
      BY <1>1, <2>2 DEF StepType
  <2> HIDE DEF k1, s2, q2, s1
  <2> QED
    BY <2>1, <2>3, <2>4
<1> HIDE DEF s1, s2
<1>7. /\ QueueOK(q2)
      /\ \A t : At(q2, "activate", r, t) => t = at \/ At(s.q, "activate", r, t)
      /\ \A e2, r2, t : e2 # "activate" => (At(q2, e2, r2, t) <=> At(s.q, e2, r2, t))
      /\ \A r2 : r2 # r => Untouched(s.q, q2, r2)
  <2> HIDE DEF at
  <2> QED
    BY <1>1, <1>2, FirstEventOK
<1> HIDE DEF q2
<1>8. \A e2, r2 : e2 # "activate" => (Scheduled(q2, e2, r2) <=> Scheduled(s.q, e2, r2))
  BY <1>1, <1>7, WhenOK
<1>9. s2 \in StepType /\ QueueOK(s2.q) /\ SameScalars(s.k, s2.k) /\ s2.k.banks = B
      /\ s2.k.outstandingEvents = s.k.outstandingEvents
  BY <1>1, <1>5, <1>6, <1>7 DEF StepType, QueueOK
<1>10. ASSUME NEW t \in Nat, Covered(s.q, s.k, r, t) PROVE Covered(s2.q, s2.k, r, t)
  <2>1. ASSUME NEW c \in Banks, s.k.banks[c].open, s.k.banks[c].preAt + tRP > t
        PROVE  Covered(s2.q, s2.k, r, t)
    BY <1>4, <1>9, <2>1 DEF Covered
  <2>2. ASSUME NEW p \in Nat, At(s.q, "precharge", r, p), p > t
        PROVE  Covered(s2.q, s2.k, r, t)
    BY <1>6, <1>7, <2>2 DEF Covered
  <2> QED
    BY <1>10, <2>1, <2>2 DEF Covered
<1>11. Covered(s2.q, s2.k, r, at)
  <2>1. B[b].open /\ B[b].preAt = at + tRAS
    BY <1>3, <1>4
  <2>2. at + tRAS + tRP > at
    <3> HIDE DEF at
    <3> QED
      BY <1>2
  <2>3. B[b].preAt + tRP > at
    <3> HIDE DEF at
    <3> QED
      BY <2>1, <2>2
  <2> QED
    BY <1>9, <2>1, <2>3 DEF Covered
<1>12. AllCovered(s2.q, s2.k, r, resp)
  <2>1. AllCovered(s.q, s.k, r, resp)
    BY DEF Bursting
  <2> QED
    BY <1>6, <1>7, <1>10, <1>11, <2>1 DEF AllCovered
<1>13. Busy(s2.q, s2.k, r)
  BY <1>3, <1>4, <1>9 DEF Busy, Closed
<1>14. Counted(s2.q, s2.k, r, resp)
  <2>1. /\ One(Scheduled(s2.q, "precharge", r)) = One(Scheduled(s.q, "precharge", r))
        /\ One(Scheduled(s2.q, "writeDone", r)) = One(Scheduled(s.q, "writeDone", r))
        /\ One(s2.k.refreshState # "REF_IDLE") = One(s.k.refreshState # "REF_IDLE")
    BY <1>6, <1>8, <1>9 DEF One, SameScalars
  <2> QED
    BY <1>9, <2>1 DEF Bursting, Counted
<1>15. Bursting(s2, r, resp)
  BY <1>1, <1>6, <1>8, <1>9, <1>12, <1>13, <1>14 DEF Bursting, SameScalars
<1>16. BurstStep(s, s2, r)
  BY <1>6, <1>7, <1>9, <1>10 DEF BurstStep, SameScalars
<1>17. ASSUME NEW m \in Int, NEW m2 \in Int, Within(s, r, m), m <= m2, at + tRAS <= m2
       PROVE  Within(s2, r, m2)
  <2>1. ASSUME NEW c \in Banks PROVE B[c].preAt <= m2 /\ B[c].actAt <= m2 + tRP
    <3> DEFINE p == B[c].preAt
               a == B[c].actAt
               n == s.k.banks[c].actAt
               o == s.k.banks[c].preAt
    <3>1. o <= m /\ n <= m + tRP /\ o \in Nat /\ n \in Nat
      BY <1>1, <1>17 DEF Within
    <3>2. CASE c = b
      <4>1. p = at + tRAS /\ a = n
        BY <1>3, <1>4, <3>2
      <4> HIDE DEF p, a, n, o, at
      <4>2. p <= m2 /\ a <= m2 + tRP
        BY <1>2, <1>17, <3>1, <4>1
      <4> QED
        BY <4>2 DEF p, a
    <3>3. CASE c # b
      <4>1. p = o /\ a = n
        BY <1>4, <3>3
      <4> HIDE DEF p, a, n, o, at
      <4>2. p <= m2 /\ a <= m2 + tRP
        BY <1>2, <1>17, <3>1, <4>1
      <4> QED
        BY <4>2 DEF p, a
    <3> QED
      BY <3>2, <3>3
  <2>2. ASSUME NEW p \in Nat, At(s2.q, "precharge", r, p) PROVE p <= m2 + tRP
    <3>1. p <= m + tRP
      BY <1>6, <1>7, <1>17, <2>2 DEF Within
    <3> QED
      BY <1>2, <1>17, <3>1
  <2> QED
    BY <1>9, <2>1, <2>2 DEF Within
<1>18. /\ s2.k.banks[b].open /\ s2.k.banks[b].colAt = Later(x.colAt, at + tRCD)
       /\ \A c \in Banks : c # b => s2.k.banks[c].colAt = s.k.banks[c].colAt
  BY <1>3, <1>4, <1>9
<1> QED
  BY <1>15, <1>16, <1>17, <1>18 DEF s2

(* The row of the burst is opened, after a precharge if need be. *)
RowOpened(s, s1, r, b, resp) ==
    /\ Bursting(s1, r, resp) /\ BurstStep(s, s1, r) /\ s1.k.banks[b].open
    /\ s1.k.banks[b].colAt \in Nat
    /\ s.k.banks[b].colAt <= s1.k.banks[b].colAt
    /\ \A c \in Banks : c # b => s1.k.banks[c].colAt = s.k.banks[c].colAt
    /\ \A m \in Int : Within(s, r, m) =>
          /\ s1.k.banks[b].colAt <= Later(s.k.banks[b].colAt, m + tRP + tRCD)
          /\ \A m2 \in Int :
                m <= m2 /\ s1.k.banks[b].colAt + tRAS - tRCD <= m2
                   => Within(s1, r, m2)

(* A row that is opened in a closed bank, with its precharge ahead of what *)
(* the burst adds.                                                         *)
LEMMA ActivatedRow ==
    ASSUME 0 < tRP, NEW s, NEW r \in Ranks, NEW resp, Bursting(s, r, resp),
           NEW b \in Banks, ~s.k.banks[b].open
    PROVE  RowOpened(s, activateBank(s, r, b), r, b, resp)
<1> DEFINE s1 == activateBank(s, r, b)
           x  == s.k.banks[b].actAt
           y  == s.k.banks[b].colAt
           z  == s1.k.banks[b].colAt
<1>1. /\ Bursting(s1, r, resp) /\ BurstStep(s, s1, r)
      /\ s1.k.banks[b].open
      /\ z = Later(y, x + tRCD)
      /\ \A c \in Banks : c # b => s1.k.banks[c].colAt = s.k.banks[c].colAt
      /\ \A m \in Int, m2 \in Int :
            Within(s, r, m) /\ m <= m2 /\ x + tRAS <= m2 => Within(s1, r, m2)
  BY ActivateBankOK
<1>2. /\ x \in Nat /\ y \in Nat /\ tRP \in Nat /\ tRCD \in Nat /\ tRAS \in Nat
      /\ \A m \in Int : Within(s, r, m) => x <= m + tRP
  BY RankTypes, Constants DEF Bursting, StepType, Within
<1> HIDE DEF x, y, z, s1
<1>3. z \in Nat /\ y <= z /\ x + tRCD <= z
  BY <1>1, <1>2 DEF Later
<1>4. ASSUME NEW m \in Int, Within(s, r, m) PROVE z <= Later(y, m + tRP + tRCD)
  <2>1. x <= m + tRP
    BY <1>2, <1>4
  <2> QED
    BY <1>1, <1>2, <2>1 DEF Later
<1>5. ASSUME NEW m \in Int, Within(s, r, m), NEW m2 \in Int, m <= m2,
             z + tRAS - tRCD <= m2
      PROVE  Within(s1, r, m2)
  <2>1. x + tRAS <= m2
    BY <1>2, <1>3, <1>5
  <2> QED
    BY <1>1, <1>5, <2>1
<1> QED
  BY <1>1, <1>3, <1>4, <1>5 DEF RowOpened, s1, y, z

(* The row of a burst: open already, or opened after the open one is       *)
(* closed.                                                                 *)
LEMMA OpenRowOK ==
    ASSUME 0 < tRP, NEW s, NEW r \in Ranks, NEW resp, Bursting(s, r, resp),
           NEW b \in Banks, NEW hit \in BOOLEAN
    PROVE  RowOpened(s, OpenRow(s, r, b, hit), r, b, resp)
<1> DEFINE s1 == OpenRow(s, r, b, hit)
<1>1. CASE ~s.k.banks[b].open
  BY <1>1, ActivatedRow DEF OpenRow
<1>2. CASE s.k.banks[b].open /\ hit
  <2>1. s1 = s
    BY <1>2 DEF OpenRow
  <2>2. BurstStep(s, s, r)
    BY DEF BurstStep, Untouched
  <2> DEFINE y == s.k.banks[b].colAt
  <2>3. y \in Nat /\ tRP \in Nat /\ tRCD \in Nat
    BY RankTypes, Constants DEF Bursting, StepType
  <2>4. y <= y /\ \A m \in Int : y <= Later(y, m + tRP + tRCD)
    <3> HIDE DEF y
    <3> QED
      BY <2>3 DEF Later
  <2>5. ASSUME NEW m \in Int, Within(s, r, m), NEW m2 \in Int, m <= m2
        PROVE  Within(s, r, m2)
    <3>1. ASSUME NEW c \in Banks
          PROVE  s.k.banks[c].preAt <= m2 /\ s.k.banks[c].actAt <= m2 + tRP
      <4> DEFINE p == s.k.banks[c].preAt
                 a == s.k.banks[c].actAt
      <4>1. p \in Nat /\ a \in Nat /\ p <= m /\ a <= m + tRP
        BY <2>5, RankTypes DEF Bursting, StepType, Within
      <4> HIDE DEF p, a
      <4>2. p <= m2 /\ a <= m2 + tRP
        BY <2>3, <2>5, <4>1
      <4> QED
        BY <4>2 DEF p, a
    <3>2. ASSUME NEW p \in Nat, At(s.q, "precharge", r, p) PROVE p <= m2 + tRP
      <4>1. p <= m + tRP
        BY <2>5, <3>2 DEF Within
      <4> QED
        BY <2>3, <2>5, <4>1
    <3> QED
      BY <3>1, <3>2 DEF Within
  <2> QED
    BY <1>2, <2>1, <2>2, <2>3, <2>4, <2>5 DEF RowOpened
<1>3. CASE s.k.banks[b].open /\ ~hit
  <2> DEFINE s0 == prechargeBank(s, r, b, s.k.banks[b].preAt, TRUE)
  <2>1. s1 = activateBank(s0, r, b)
    BY <1>3, SMTT(30) DEF OpenRow
  <2>2. /\ Bursting(s0, r, resp) /\ BurstStep(s, s0, r)
        /\ ~s0.k.banks[b].open
        /\ \A c \in Banks : s0.k.banks[c].colAt = s.k.banks[c].colAt
        /\ \A m \in Int : Within(s, r, m) => Within(s0, r, m)
    BY <1>3, PrechargeBankOK
  <2> HIDE DEF s0, s1
  <2>3. RowOpened(s0, s1, r, b, resp)
    BY <2>1, <2>2, ActivatedRow
  <2>4. BurstStep(s, s1, r)
    <3>1. BurstStep(s, s0, r) /\ BurstStep(s0, s1, r)
      BY <2>2, <2>3 DEF RowOpened
    <3> QED
      BY <3>1 DEF BurstStep, Untouched
  <2>5. s0.k.banks[b].colAt = s.k.banks[b].colAt
    BY <2>2
  <2>6. \A m \in Int : Within(s, r, m) =>
          /\ s1.k.banks[b].colAt <= Later(s.k.banks[b].colAt, m + tRP + tRCD)
          /\ \A m2 \in Int :
                m <= m2 /\ s1.k.banks[b].colAt + tRAS - tRCD <= m2
                   => Within(s1, r, m2)
    BY <2>2, <2>3, <2>5 DEF RowOpened
  <2>7. RowOpened(s, s1, r, b, resp)
    BY <2>2, <2>3, <2>4, <2>5, <2>6, SMTT(30) DEF RowOpened
  <2> QED
    BY <2>7 DEF s1
<1> QED
  BY <1>1, <1>2, <1>3

(* The column command holds up the precharge of its bank. *)
LEMMA PrechargeHeld ==
    ASSUME NEW s, NEW r \in Ranks, NEW resp, Bursting(s, r, resp),
           NEW b \in Banks, NEW v \in Nat
    PROVE  LET s2 == [s EXCEPT !.k.banks[b].preAt = Later(@, v)]
           IN  /\ Bursting(s2, r, resp) /\ BurstStep(s, s2, r)
               /\ \A c \in Banks : /\ s2.k.banks[c].open = s.k.banks[c].open
                                   /\ s2.k.banks[c].colAt = s.k.banks[c].colAt
               /\ v <= s2.k.banks[b].preAt
               /\ \A m \in Int : Within(s, r, m) /\ v <= m => Within(s2, r, m)
<1> DEFINE x  == s.k.banks[b]
           p  == Later(x.preAt, v)
           y  == [x EXCEPT !.preAt = p]
           B  == [s.k.banks EXCEPT ![b] = y]
           s1 == [s EXCEPT !.k.banks = B]
           s2 == [s EXCEPT !.k.banks[b].preAt = Later(@, v)]
<1>1. /\ s \in StepType /\ s.k \in RankState /\ s.q \in Seq(Event) /\ QueueOK(s.q)
      /\ resp \in Seq(Response) /\ s.k.banks \in [Banks -> Bank]
      /\ \A c \in Banks : /\ s.k.banks[c] \in Bank /\ s.k.banks[c].preAt \in Nat
                          /\ s.k.banks[c].actAt \in Nat /\ s.k.banks[c].colAt \in Nat
  BY RankTypes DEF Bursting, StepType
<1>2. p \in Nat /\ x.preAt <= p /\ v <= p /\ p \in {x.preAt, v}
  <2> DEFINE o == x.preAt
  <2>1. o \in Nat
    BY <1>1
  <2> HIDE DEF o
  <2>2. Later(o, v) \in Nat /\ o <= Later(o, v) /\ v <= Later(o, v) /\ Later(o, v) \in {o, v}
    BY <2>1 DEF Later
  <2> QED
    BY <2>2 DEF o
<1>3. y \in Bank /\ y.preAt = p /\ y.open = x.open /\ y.colAt = x.colAt /\ y.actAt = x.actAt
  <2>1. x \in Bank
    BY <1>1
  <2> HIDE DEF x, p
  <2> QED
    BY <1>2, <2>1 DEF Bank
<1>4. /\ B \in [Banks -> Bank] /\ B[b] = y
      /\ \A c \in Banks : c # b => B[c] = s.k.banks[c]
  <2> HIDE DEF y
  <2> QED
    BY <1>1, <1>3
<1>5. s2 = s1
  BY <1>1 DEF StepType, RankState
<1> HIDE DEF y, B, p
<1>6. /\ s1 \in StepType /\ s1.q = s.q /\ s1.k.banks = B
      /\ SameScalars(s.k, s1.k) /\ s1.k.outstandingEvents = s.k.outstandingEvents
  BY <1>1, <1>4, BanksSet
<1> HIDE DEF s1, s2
<1>7. /\ s2 \in StepType /\ s2.q = s.q /\ s2.k.banks = B
      /\ SameScalars(s.k, s2.k) /\ s2.k.outstandingEvents = s.k.outstandingEvents
  BY <1>5, <1>6
<1>8. \A c \in Banks : /\ B[c].open = s.k.banks[c].open
                       /\ B[c].colAt = s.k.banks[c].colAt
                       /\ B[c].actAt = s.k.banks[c].actAt
                       /\ s.k.banks[c].preAt <= B[c].preAt
                       /\ B[c].preAt \in {s.k.banks[c].preAt, v} /\ B[c].preAt \in Nat
  <2> TAKE c \in Banks
  <2>1. CASE c = b
    <3>1. B[c] = y /\ x = s.k.banks[c]
      BY <1>4, <2>1
    <3> HIDE DEF x
    <3> QED
      BY <1>2, <1>3, <3>1
  <2>2. CASE c # b
    <3>1. B[c] = s.k.banks[c]
      BY <1>4, <2>2
    <3>2. s.k.banks[c].preAt \in Nat
      BY <1>1
    <3> QED
      BY <3>1, <3>2
  <2> QED
    BY <2>1, <2>2
<1>9. ASSUME NEW t \in Nat, Covered(s.q, s.k, r, t) PROVE Covered(s2.q, s2.k, r, t)
  <2>1. ASSUME NEW c \in Banks, s.k.banks[c].open, s.k.banks[c].preAt + tRP > t
        PROVE  Covered(s2.q, s2.k, r, t)
    <3> DEFINE o == s.k.banks[c].preAt
               n == B[c].preAt
    <3>1. o \in Nat /\ n \in Nat /\ o <= n /\ o + tRP > t /\ tRP \in Nat
      BY <1>1, <1>8, <2>1, Constants
    <3> HIDE DEF o, n
    <3>2. n + tRP > t
      BY <3>1
    <3> QED
      BY <1>7, <1>8, <2>1, <3>2 DEF Covered, n
  <2> QED
    BY <1>7, <1>9, <2>1 DEF Covered
<1>10. AllCovered(s2.q, s2.k, r, resp)
  <2>1. AllCovered(s.q, s.k, r, resp)
    BY DEF Bursting
  <2> QED
    BY <1>7, <1>9, <2>1 DEF AllCovered
<1>11. Busy(s2.q, s2.k, r) <=> Busy(s.q, s.k, r)
  BY <1>7, <1>8 DEF Busy, Closed
<1>12. Counted(s2.q, s2.k, r, resp)
  BY <1>7 DEF Bursting, Counted, SameScalars
<1>13. Bursting(s2, r, resp)
  BY <1>1, <1>7, <1>10, <1>11, <1>12 DEF Bursting, SameScalars
<1>14. BurstStep(s, s2, r)
  BY <1>7, <1>9 DEF BurstStep, SameScalars, Untouched
<1>15. ASSUME NEW m \in Int, Within(s, r, m), v <= m PROVE Within(s2, r, m)
  BY <1>7, <1>8, <1>15 DEF Within
<1>16. v <= s2.k.banks[b].preAt
  BY <1>2, <1>3, <1>4, <1>7
<1> QED
  BY <1>7, <1>8, <1>13, <1>14, <1>15, <1>16 DEF s2

(* A read is under way: it is answered before a precharge is over. *)
LEMMA ReadUnderWay ==
    ASSUME NEW s, NEW r \in Ranks, NEW resp, Bursting(s, r, resp),
           NEW t \in Nat, Covered(s.q, s.k, r, t)
    PROVE  LET s2 == [s EXCEPT !.k.outstandingEvents = @ + 1]
           IN  /\ Bursting(s2, r, Append(resp, [rank |-> r, at |-> t]))
               /\ BurstStep(s, s2, r)
               /\ s2.q = s.q /\ s2.k.banks = s.k.banks
<1> DEFINE s2 == [s EXCEPT !.k.outstandingEvents = @ + 1]
           n  == s.k.outstandingEvents + 1
           k2 == [s.k EXCEPT !.outstandingEvents = n]
           e  == [rank |-> r, at |-> t]
           resp2 == Append(resp, e)
<1>1. /\ s \in StepType /\ s.k \in RankState /\ s.q \in Seq(Event) /\ QueueOK(s.q)
      /\ resp \in Seq(Response) /\ n \in Int /\ s.k.outstandingEvents \in Int
  BY RankTypes DEF Bursting, StepType
<1>2. s2 = [q |-> s.q, k |-> k2]
  BY <1>1, SMTT(30) DEF StepType
<1>3. k2 \in RankState /\ SameScalars(s.k, k2) /\ k2.banks = s.k.banks
      /\ k2.outstandingEvents = n
  <2> HIDE DEF n
  <2> QED
    BY <1>1 DEF RankState, SameScalars
<1> HIDE DEF k2, s2
<1>4. s2 \in StepType /\ s2.q = s.q /\ s2.k = k2
  BY <1>1, <1>2, <1>3 DEF StepType
<1>5. e \in Response /\ e.rank = r /\ e.at = t
  BY DEF Response
<1> HIDE DEF e
<1>6. /\ resp2 \in Seq(Response)
      /\ Flying(resp2, r) = Flying(resp, r) + 1
      /\ \A u : Flies(resp2, r, u) <=> Flies(resp, r, u) \/ u = t
  BY <1>1, <1>5, FlyingAppend DEF One
<1> HIDE DEF resp2
<1>7. \A u : Covered(s2.q, s2.k, r, u) <=> Covered(s.q, s.k, r, u)
  BY <1>3, <1>4 DEF Covered
<1>8. AllCovered(s2.q, s2.k, r, resp2)
  BY <1>4, <1>6, <1>7 DEF AllCovered, Bursting
<1>9. Busy(s2.q, s2.k, r) <=> Busy(s.q, s.k, r)
  BY <1>3, <1>4 DEF Busy, Closed
<1>10. Counted(s2.q, s2.k, r, resp2)
  <2> DEFINE f  == Flying(resp, r)
             n1 == One(Scheduled(s.q, "precharge", r))
             n2 == One(Scheduled(s.q, "writeDone", r))
             n3 == One(s.k.refreshState # "REF_IDLE")
  <2>1. s.k.outstandingEvents = f + n1 + n2 + n3
    BY DEF Bursting, Counted
  <2>2. f \in Int /\ n1 \in Int /\ n2 \in Int /\ n3 \in Int
    <3>1. f \in Nat
      BY <1>1, FlyingNat
    <3> QED
      BY <3>1 DEF One
  <2>3. k2.refreshState = s.k.refreshState
    BY <1>3 DEF SameScalars
  <2>4. s2.k.outstandingEvents = f + 1 + n1 + n2 + n3
    <3> HIDE DEF f, n1, n2, n3
    <3> QED
      BY <1>3, <1>4, <2>1, <2>2
  <2> QED
    BY <1>4, <1>6, <2>3, <2>4 DEF Counted
<1>11. Bursting(s2, r, resp2)
  BY <1>1, <1>3, <1>4, <1>6, <1>8, <1>9, <1>10 DEF Bursting, SameScalars
<1>12. BurstStep(s, s2, r)
  BY <1>3, <1>4, <1>7 DEF BurstStep, SameScalars, Untouched
<1> QED
  BY <1>3, <1>4, <1>11, <1>12 DEF s2, resp2, e

(* A write is under way. *)
LEMMA WriteUnderWay ==
    ASSUME NEW s, NEW r \in Ranks, NEW resp, Bursting(s, r, resp),
           NEW t \in Nat, Covered(s.q, s.k, r, t)
    PROVE  LET s2 == WriteDoneAt(s, r, t)
           IN  /\ Bursting(s2, r, resp) /\ BurstStep(s, s2, r)
               /\ \A u : At(s2.q, "precharge", r, u) <=> At(s.q, "precharge", r, u)
               /\ s2.k.banks = s.k.banks
<1> DEFINE s2 == LastEventAt(s, "writeDone", r, t)
<1>1. WriteDoneAt(s, r, t) = s2
  BY DEF WriteDoneAt, LastEventAt
<1>2. /\ s \in StepType /\ s.k \in RankState /\ s.q \in Seq(Event) /\ QueueOK(s.q)
      /\ resp \in Seq(Response) /\ s.k.outstandingEvents \in Int
  BY RankTypes DEF Bursting, StepType
<1>3. "writeDone" \in EventKinds /\ r \in 0 .. numRanks
  BY Constants DEF EventKinds, Ranks
<1>4. /\ s2 \in StepType /\ QueueOK(s2.q)
      /\ \E p \in Nat :
            /\ t <= p /\ At(s2.q, "writeDone", r, p)
            /\ p = t \/ At(s.q, "writeDone", r, p)
            /\ \A p0 \in Nat : At(s.q, "writeDone", r, p0) => p0 <= p
      /\ \A e2, r2, u : e2 # "writeDone" => (At(s2.q, e2, r2, u) <=> At(s.q, e2, r2, u))
      /\ \A r2 : r2 # r => Untouched(s.q, s2.q, r2)
      /\ SameScalars(s.k, s2.k) /\ s2.k.banks = s.k.banks
      /\ s2.k.outstandingEvents =
            s.k.outstandingEvents + One(~Scheduled(s.q, "writeDone", r))
  BY <1>2, <1>3, LastEventOK
<1> HIDE DEF s2
<1>5. PICK p \in Nat : /\ t <= p /\ At(s2.q, "writeDone", r, p)
                       /\ p = t \/ At(s.q, "writeDone", r, p)
  BY <1>4
<1>6. \A u \in Nat : At(s2.q, "writeDone", r, u) => u = p
  BY <1>4, <1>5, WhenOK
<1>7. \A e2, r2 : e2 # "writeDone" => (Scheduled(s2.q, e2, r2) <=> Scheduled(s.q, e2, r2))
  BY <1>2, <1>4, WhenOK
<1>8. Scheduled(s2.q, "writeDone", r)
  BY <1>4, <1>5, WhenOK
<1>9. \A u : Covered(s2.q, s2.k, r, u) <=> Covered(s.q, s.k, r, u)
  BY <1>4 DEF Covered
<1>10. AllCovered(s2.q, s2.k, r, resp)
  <2>1. AllCovered(s.q, s.k, r, resp)
    BY DEF Bursting
  <2> QED
    BY <1>4, <1>5, <1>6, <1>9, <2>1 DEF AllCovered
<1>11. Busy(s2.q, s2.k, r) <=> Busy(s.q, s.k, r)
  BY <1>4, <1>7 DEF Busy, Closed
<1>12. Counted(s2.q, s2.k, r, resp)
  <2> DEFINE o  == s.k.outstandingEvents
             f  == Flying(resp, r)
             n1 == One(Scheduled(s.q, "precharge", r))
             n2 == One(Scheduled(s.q, "writeDone", r))
             n3 == One(s.k.refreshState # "REF_IDLE")
             m2 == One(~Scheduled(s.q, "writeDone", r))
  <2>1. o = f + n1 + n2 + n3
    BY DEF Bursting, Counted
  <2>2. /\ One(Scheduled(s2.q, "precharge", r)) = n1
        /\ One(Scheduled(s2.q, "writeDone", r)) = 1
        /\ One(s2.k.refreshState # "REF_IDLE") = n3
        /\ n2 + m2 = 1
    BY <1>4, <1>7, <1>8 DEF One, SameScalars
  <2>3. s2.k.outstandingEvents = o + m2
    BY <1>4
  <2>4. o \in Int /\ n1 \in Int /\ n2 \in Int /\ n3 \in Int /\ m2 \in Int /\ f \in Int
    <3>1. f \in Nat
      BY <1>2, FlyingNat
    <3> QED
      BY <1>2, <3>1 DEF One
  <2>5. f + n1 + n2 + n3 + m2 = f + n1 + 1 + n3
    <3> HIDE DEF n1, n2, n3, m2, f
    <3> QED
      BY <2>2, <2>4
  <2> QED
    BY <2>1, <2>2, <2>3, <2>5 DEF Counted
<1>13. Bursting(s2, r, resp)
  BY <1>2, <1>4, <1>7, <1>10, <1>11, <1>12 DEF Bursting, SameScalars
<1>14. BurstStep(s, s2, r)
  BY <1>4, <1>9 DEF BurstStep, SameScalars
<1> QED
  BY <1>1, <1>4, <1>13, <1>14

(* How long a precharge may have to wait after a column command. *)
LEMMA LagFacts ==
    /\ PrechargeLag \in Nat /\ Lag \in Nat /\ PrechargeLag = Lag + tBURST
    /\ tRAS - tRCD <= PrechargeLag /\ tRTP <= PrechargeLag
    /\ tCL + tBURST + tWR <= PrechargeLag
<1> DEFINE x == tRAS - tRCD
           y == tCL + tBURST + tWR
<1>1. x \in Int /\ y \in Nat /\ tRTP \in Nat /\ tBURST \in Nat /\ tBURST <= y
  BY Constants
<1>2. PrechargeLag = Later(Later(x, tRTP), y)
  BY DEF PrechargeLag
<1> HIDE DEF x, y
<1>3. Later(x, tRTP) \in Nat /\ x <= Later(x, tRTP) /\ tRTP <= Later(x, tRTP)
  BY <1>1 DEF Later
<1> DEFINE z == Later(x, tRTP)
<1>4. z \in Nat /\ x <= z /\ tRTP <= z /\ PrechargeLag = Later(z, y)
  BY <1>2, <1>3
<1> HIDE DEF z
<1>5. /\ PrechargeLag \in Nat /\ z <= PrechargeLag /\ y <= PrechargeLag
      /\ tBURST <= PrechargeLag
  BY <1>1, <1>4 DEF Later
<1>6. x <= PrechargeLag /\ tRTP <= PrechargeLag
  BY <1>1, <1>4, <1>5
<1> QED
  BY <1>1, <1>5, <1>6 DEF Lag, x, y

(* A burst of the rank: it comes after the other commands, the rank keeps  *)
(* its invariant, and its precharges come soon after.                      *)
LEMMA BurstOK ==
    ASSUME OrderedTimings, nextBurstAt \in Int,
           NEW s, NEW r \in Ranks, Bursting(s, r, respQueue),
           NEW b \in Banks, NEW isRead \in BOOLEAN, NEW hit \in BOOLEAN,
           NEW auto \in BOOLEAN, NEW bubble \in Bubbles, NEW slack \in Slack
    PROVE  LET d == doBurstAccess(s, r, b, isRead, hit, auto, bubble, slack)
               x == s.k.banks[b].colAt
           IN  /\ d.cmd_at \in Nat /\ d.ready = d.cmd_at + tCL + tBURST
               /\ x <= d.cmd_at
               /\ Bursting(d.s, r, IF isRead
                     THEN Append(respQueue, [rank |-> r, at |-> d.ready])
                     ELSE respQueue)
               /\ BurstStep(s, d.s, r)
               /\ x <= d.s.k.banks[b].colAt /\ d.s.k.banks[b].colAt <= d.cmd_at
               /\ \A c \in Banks : c # b => d.s.k.banks[c].colAt = s.k.banks[c].colAt
               /\ \A m \in Int : Within(s, r, m) =>
                     /\ d.cmd_at <= Later(Later(Later(x, m + tRP + tRCD),
                                                BusFreeAt(bubble)), 0) + slack
                     /\ \A m2 \in Int : m <= m2 /\ d.cmd_at + PrechargeLag <= m2
                           => Within(d.s, r, m2)
<1> DEFINE x  == s.k.banks[b].colAt
           s1 == OpenRow(s, r, b, hit)
           y  == s1.k.banks[b].colAt
           f  == BusFreeAt(bubble)
           cmd_at == Later(Later(y, f), 0) + slack
           ready  == cmd_at + tCL + tBURST
           v  == IF isRead THEN cmd_at + tRTP ELSE ready + tWR
           s2 == [s1 EXCEPT !.k.banks[b].preAt = Later(@, v)]
           s3 == IF auto THEN prechargeBank(s2, r, b, s2.k.banks[b].preAt, FALSE)
                         ELSE s2
           s4 == IF isRead THEN [s3 EXCEPT !.k.outstandingEvents = @ + 1]
                           ELSE WriteDoneAt(s3, r, ready)
           resp2 == IF isRead THEN Append(respQueue, [rank |-> r, at |-> ready])
                              ELSE respQueue
           d  == doBurstAccess(s, r, b, isRead, hit, auto, bubble, slack)
<1>1. 0 < tRP /\ tCL + tBURST < tRTP + tRP /\ tRP \in Nat /\ tRTP \in Nat
      /\ tCL \in Nat /\ tBURST \in Nat /\ tWR \in Nat /\ tRCD \in Nat /\ tRAS \in Nat
      /\ slack \in Nat
  BY Constants DEF OrderedTimings
<1>2. Awake(s, r) = s
  <2>1. ~s.k.inLowPowerState
    BY RankTypes DEF Bursting, StepType
  <2> QED
    BY <2>1 DEF Awake
<1>3. d = [cmd_at |-> cmd_at, ready |-> ready, s |-> s4]
  BY <1>2 DEF doBurstAccess
<1>4. RowOpened(s, s1, r, b, respQueue)
  BY <1>1, OpenRowOK
<1>5. f \in Int
  <2>1. CappedBubble(bubble) \in Int /\ tCL + tBURST \in Int
    BY Constants DEF CappedBubble
  <2> QED
    BY <2>1, Constants DEF BusFreeAt
<1>6. x \in Nat /\ y \in Nat /\ x <= y
  BY <1>4, RankTypes DEF RowOpened, Bursting, StepType
<1> HIDE DEF s1, x, y, f, d
<1>7. /\ cmd_at \in Nat /\ y <= cmd_at
      /\ \A u \in Int : y <= u => cmd_at <= Later(Later(u, f), 0) + slack
  BY <1>1, <1>5, <1>6 DEF Later
<1> HIDE DEF cmd_at
<1>8. ready \in Nat /\ v \in Nat /\ v <= cmd_at + PrechargeLag /\ v + tRP > ready
      /\ y + tRAS - tRCD <= cmd_at + PrechargeLag
  BY <1>1, <1>6, <1>7, LagFacts
<1>9. ready = cmd_at + tCL + tBURST
  OBVIOUS
<1> HIDE DEF v, ready
<1>10. /\ Bursting(s2, r, respQueue) /\ BurstStep(s1, s2, r)
       /\ \A c \in Banks : /\ s2.k.banks[c].open = s1.k.banks[c].open
                           /\ s2.k.banks[c].colAt = s1.k.banks[c].colAt
       /\ v <= s2.k.banks[b].preAt
       /\ \A m \in Int : Within(s1, r, m) /\ v <= m => Within(s2, r, m)
  <2>1. Bursting(s1, r, respQueue) /\ v \in Nat
    BY <1>4, <1>8 DEF RowOpened
  <2> QED
    BY <2>1, PrechargeHeld
<1> HIDE DEF s2
<1>11. s2.k.banks[b].open /\ Covered(s2.q, s2.k, r, ready)
  <2>1. s2.k.banks[b].open
    BY <1>4, <1>10 DEF RowOpened
  <2> DEFINE p == s2.k.banks[b].preAt
  <2>2. p \in Nat
    BY <1>10, RankTypes DEF Bursting, StepType
  <2>3. v <= p
    BY <1>10
  <2> HIDE DEF p
  <2>4. p + tRP > ready
    BY <1>1, <1>8, <2>2, <2>3
  <2> QED
    BY <2>1, <2>4 DEF Covered, p
<1>12. /\ Bursting(s3, r, respQueue) /\ BurstStep(s2, s3, r)
       /\ \A c \in Banks : s3.k.banks[c].colAt = s2.k.banks[c].colAt
       /\ \A m \in Int : Within(s2, r, m) => Within(s3, r, m)
  <2>1. CASE auto
    <3> DEFINE w == prechargeBank(s2, r, b, s2.k.banks[b].preAt, FALSE)
    <3>1. s3 = w
      BY <2>1
    <3>2. /\ Bursting(w, r, respQueue) /\ BurstStep(s2, w, r)
          /\ \A c \in Banks : w.k.banks[c].colAt = s2.k.banks[c].colAt
          /\ \A m \in Int : Within(s2, r, m) => Within(w, r, m)
      <4>1. Bursting(s2, r, respQueue) /\ s2.k.banks[b].open /\ FALSE \in BOOLEAN
        BY <1>10, <1>11, SMTT(30)
      <4> HIDE DEF w
      <4>2. \A e \in BOOLEAN : e = FALSE =>
               LET z == prechargeBank(s2, r, b, s2.k.banks[b].preAt, e)
               IN  /\ Bursting(z, r, respQueue) /\ BurstStep(s2, z, r)
                   /\ \A c \in Banks : z.k.banks[c].colAt = s2.k.banks[c].colAt
                   /\ \A m \in Int : Within(s2, r, m) => Within(z, r, m)
        BY <4>1, PrechargeBankOK
      <4> QED
        BY <4>2, Zenon DEF w
    <3> HIDE DEF w, s3
    <3> QED
      BY <3>1, <3>2
  <2>2. CASE ~auto
    <3>1. s3 = s2
      BY <2>2
    <3>2. BurstStep(s2, s2, r)
      BY DEF BurstStep, Untouched
    <3> HIDE DEF s3
    <3> QED
      BY <1>10, <3>1, <3>2
  <2> QED
    BY <2>1, <2>2
<1> HIDE DEF s3
<1>13. Covered(s3.q, s3.k, r, ready)
  BY <1>8, <1>11, <1>12 DEF BurstStep
<1>14. /\ Bursting(s4, r, resp2) /\ BurstStep(s3, s4, r)
       /\ s4.k.banks = s3.k.banks
       /\ \A u : At(s4.q, "precharge", r, u) <=> At(s3.q, "precharge", r, u)
  <2>1. CASE isRead
    <3>1. resp2 = Append(respQueue, [rank |-> r, at |-> ready])
          /\ s4 = [s3 EXCEPT !.k.outstandingEvents = @ + 1]
      BY <2>1
    <3> HIDE DEF s4, resp2
    <3> DEFINE u4 == [s3 EXCEPT !.k.outstandingEvents = @ + 1]
               w2 == Append(respQueue, [rank |-> r, at |-> ready])
    <3>2. /\ Bursting(u4, r, w2)
          /\ BurstStep(s3, u4, r)
          /\ u4.q = s3.q /\ u4.k.banks = s3.k.banks
      BY <1>8, <1>12, <1>13, ReadUnderWay
    <3>3. s4 = u4 /\ resp2 = w2
      BY <3>1
    <3> HIDE DEF u4, w2
    <3> QED
      BY <3>2, <3>3
  <2>2. CASE ~isRead
    <3>1. resp2 = respQueue /\ s4 = WriteDoneAt(s3, r, ready)
      BY <2>2
    <3> HIDE DEF s4, resp2
    <3>2. LET w == WriteDoneAt(s3, r, ready)
          IN  /\ Bursting(w, r, respQueue) /\ BurstStep(s3, w, r)
              /\ \A u : At(w.q, "precharge", r, u) <=> At(s3.q, "precharge", r, u)
              /\ w.k.banks = s3.k.banks
      BY <1>8, <1>12, <1>13, WriteUnderWay
    <3> QED
      BY <3>1, <3>2
  <2> QED
    BY <2>1, <2>2
<1> HIDE DEF s4, resp2
<1>15. BurstStep(s, s4, r)
  <2>1. BurstStep(s, s1, r)
    BY <1>4 DEF RowOpened
  <2>2. \A w, w2, w3 : BurstStep(w, w2, r) /\ BurstStep(w2, w3, r) => BurstStep(w, w3, r)
    BY DEF BurstStep, Untouched
  <2>3. BurstStep(s, s2, r)
    BY <1>10, <2>1, <2>2, Zenon
  <2>4. BurstStep(s, s3, r)
    BY <1>12, <2>2, <2>3, Zenon
  <2> QED
    BY <1>14, <2>2, <2>4, Zenon
<1>16. s4.k.banks[b].colAt = y
       /\ \A c \in Banks : c # b => s4.k.banks[c].colAt = s.k.banks[c].colAt
  BY <1>4, <1>10, <1>12, <1>14 DEF RowOpened, y
<1>17. ASSUME NEW m \in Int, Within(s, r, m)
       PROVE  /\ cmd_at <= Later(Later(Later(x, m + tRP + tRCD), f), 0) + slack
              /\ \A m2 \in Int : m <= m2 /\ cmd_at + PrechargeLag <= m2
                    => Within(s4, r, m2)
  <2> DEFINE u == Later(x, m + tRP + tRCD)
  <2>1. y <= u /\ u \in Int
    BY <1>1, <1>4, <1>6, <1>17 DEF RowOpened, x, y, Later
  <2> HIDE DEF u
  <2>2. cmd_at <= Later(Later(u, f), 0) + slack
    BY <1>7, <2>1
  <2>3. ASSUME NEW m2 \in Int, m <= m2, cmd_at + PrechargeLag <= m2
        PROVE  Within(s4, r, m2)
    <3>1. v <= m2 /\ y + tRAS - tRCD <= m2
      <4> DEFINE g == cmd_at + PrechargeLag
                 h == y + tRAS - tRCD
      <4>1. g \in Int /\ v \in Int /\ h \in Int /\ v <= g /\ h <= g /\ g <= m2
        BY <1>1, <1>6, <1>7, <1>8, <2>3, LagFacts
      <4> HIDE DEF g, h
      <4>2. v <= m2 /\ h <= m2
        BY <4>1
      <4> QED
        BY <4>2 DEF h
    <3>2. Within(s1, r, m2)
      BY <1>4, <1>17, <2>3, <3>1 DEF RowOpened, y
    <3>3. Within(s3, r, m2)
      BY <1>10, <1>12, <3>1, <3>2
    <3> QED
      BY <1>14, <3>3 DEF Within
  <2> QED
    BY <2>2, <2>3 DEF u
<1>18. d.cmd_at = cmd_at /\ d.ready = ready /\ d.s = s4
  BY <1>3
<1> QED
  BY <1>6, <1>7, <1>9, <1>14, <1>15, <1>16, <1>17, <1>18 DEF x, f, d, resp2

(* The bus is taken: no column command before that. *)
LEMMA HeldFacts ==
    ASSUME NEW k \in RankState, NEW at \in Nat
    PROVE  LET k2 == ColumnHeld(k, at)
           IN  /\ SameRank(k, k2) /\ k2.outstandingEvents = k.outstandingEvents
               /\ \A b \in Banks :
                     /\ k2.banks[b].preAt = k.banks[b].preAt
                     /\ k2.banks[b].actAt = k.banks[b].actAt
                     /\ k2.banks[b].colAt = Later(k.banks[b].colAt, at + tBURST)
<1> DEFINE B == [b \in Banks |-> BankHeld(k.banks[b], at)]
           k2 == [k EXCEPT !.banks = B]
<1>1. ColumnHeld(k, at) = k2
  BY DEF ColumnHeld
<1>2. \A b \in Banks : /\ k.banks[b] \in Bank /\ k.banks[b].preAt \in Nat
                       /\ k.banks[b].colAt \in Nat
  BY RankTypes
<1>3. ASSUME NEW b \in Banks
      PROVE  /\ B[b] \in Bank /\ B[b].open = k.banks[b].open
             /\ B[b].preAt = k.banks[b].preAt /\ B[b].actAt = k.banks[b].actAt
             /\ B[b].colAt = Later(k.banks[b].colAt, at + tBURST)
  <2> DEFINE x == k.banks[b]
             z == x.colAt
             c == Later(z, at + tBURST)
             y == [x EXCEPT !.colAt = c]
  <2>1. B[b] = BankHeld(x, at)
    OBVIOUS
  <2>2. x \in Bank /\ z \in Nat
    BY <1>2
  <2>3. c \in Nat
    <3> HIDE DEF z
    <3> QED
      BY <2>2, Constants DEF Later
  <2> HIDE DEF x, B
  <2>4. B[b] = y
    BY <2>1, <2>2 DEF BankHeld, Bank
  <2> HIDE DEF c
  <2>5. y \in Bank /\ y.open = x.open /\ y.preAt = x.preAt /\ y.actAt = x.actAt /\ y.colAt = c
    BY <2>2, <2>3 DEF Bank
  <2> QED
    BY <2>4, <2>5 DEF x, c
<1>4. B \in [Banks -> Bank]
  <2>1. B = [b \in Banks |-> B[b]]
    OBVIOUS
  <2> HIDE DEF B
  <2> QED
    BY <1>3, <2>1
<1> HIDE DEF B
<1>5. /\ k2 \in RankState /\ SameScalars(k, k2) /\ k2.banks = B
      /\ k2.outstandingEvents = k.outstandingEvents
  BY <1>4 DEF RankState, SameScalars
<1> HIDE DEF k2
<1>6. SameRank(k, k2)
  <2>1. \A b \in Banks : k2.banks[b].open = k.banks[b].open
                         /\ k2.banks[b].preAt >= k.banks[b].preAt
    BY <1>2, <1>3, <1>5
  <2> QED
    BY <1>5, <2>1 DEF SameRank
<1> QED
  BY <1>1, <1>3, <1>5, <1>6

(* What a burst of rank r does to the times: its command, the rank's       *)
(* precharges and activates, and the column commands of all.               *)
RankView(q, ks, r) == [q |-> q, k |-> ks[r]]
SameTurn(q, k, q2, k2, r) ==
    /\ k2.refreshState = IF k.refreshState = "REF_DRAIN" THEN "REF_PD_EXIT"
                                                         ELSE k.refreshState
    /\ k2.refreshDueAt = k.refreshDueAt
    /\ \A b \in Banks : /\ k2.banks[b].preAt = k.banks[b].preAt
                        /\ k2.banks[b].actAt = k.banks[b].actAt
    /\ \A p : At(q2, "precharge", r, p) => At(q, "precharge", r, p)
    /\ k.refreshState = "REF_RUN" =>
          \A ev \in {"refresh", "power"} : \A t : At(q2, ev, r, t) <=> At(q, ev, r, t)
BurstEffect(r, b, bubble, slack, cmd_at) ==
    /\ cmd_at \in Nat /\ nextBurstAt' = cmd_at + tBURST
    /\ nextReqScheduled(eventq')
    /\ \A a : At(eventq', "nextReq", 0, a) => a = Later(nextBurstAt' - tRP - tRCD, 0)
    /\ rk[r].banks[b].colAt <= cmd_at
    /\ \A r2 \in Ranks, c \in Banks :
          rk'[r2].banks[c].colAt = Later(rk[r2].banks[c].colAt, cmd_at + tBURST)
    /\ \A r2 \in Ranks : r2 # r => SameTurn(eventq, rk[r2], eventq', rk'[r2], r2)
    /\ rk[r].refreshState = "REF_IDLE" /\ rk'[r].refreshState = "REF_IDLE"
    /\ rk'[r].refreshDueAt = rk[r].refreshDueAt
    /\ \A m \in Int : Within(RankView(eventq, rk, r), r, m) =>
          /\ cmd_at <= Later(Later(Later(rk[r].banks[b].colAt, m + tRP + tRCD),
                                   BusFreeAt(bubble)), 0) + slack
          /\ \A m2 \in Int : m <= m2 /\ cmd_at + PrechargeLag <= m2
                => Within(RankView(eventq', rk', r), r, m2)

(* A burst keeps the invariant of every rank, and its column command is    *)
(* given at some time that BurstEffect bounds; a read flies.               *)
LEMMA BurstCtl ==
    ASSUME OrderedTimings, Ctl, NEW r \in Ranks, NEW b \in Banks, NEW hit \in BOOLEAN,
           NEW auto \in BOOLEAN, NEW bubble \in Bubbles, NEW slack \in Slack,
           IssueBurst(r, b, hit, auto, bubble, slack)
    PROVE  /\ Ctl'
           /\ \E cmd_at \in Nat : BurstEffect(r, b, bubble, slack, cmd_at)
           /\ \E read \in BOOLEAN :
                 \A r2 : Flying(respQueue', r2) = Flying(respQueue, r2) + One(read /\ r = r2)
<1> DEFINE t == isBusyEffect
           isRead == busStateNext = "READ"
           s  == [q |-> t.q, k |-> t.rk[r]]
           d  == doBurstAccess(s, r, b, isRead, hit, auto, bubble, slack)
           q3 == IF isRead /\ respQueue = <<>>
                 THEN Schedule(d.s.q, "respond", 0, d.ready)
                 ELSE d.s.q
           e  == [rank |-> r, at |-> d.ready]
           a  == Later(nextBurstAt' - tRP - tRCD, 0)
           x  == rk[r].banks[b].colAt
<1>1. /\ Fire("nextReq", 0) /\ rk[r].refreshState = "REF_IDLE"
      /\ nextBurstAt' = d.cmd_at + tBURST
      /\ rk' = [ColumnsHeld(t.rk, d.cmd_at) EXCEPT ![r] = ColumnHeld(d.s.k, d.cmd_at)]
      /\ activeRank' = r
      /\ eventq' = Schedule(q3, "nextReq", 0, a)
      /\ draining' = draining
  BY DEF IssueBurst, inRefIdleState
<1>2. \/ /\ isRead /\ reads[r] > 0
         /\ reads' = [reads EXCEPT ![r] = @ - 1]
         /\ respQueue' = Append(respQueue, e)
         /\ busStateNext' \in {"READ", "WRITE"} /\ writes' = writes
      \/ /\ ~isRead /\ writes[r] > 0
         /\ writes' = [writes EXCEPT ![r] = @ - 1]
         /\ busStateNext' \in {"READ", "WRITE"} /\ reads' = reads /\ respQueue' = respQueue
  BY DEF IssueBurst
<1> HIDE DEF isRead
<1>3. /\ QueueOK(eventq) /\ Responses(eventq, respQueue, rk) /\ 0 \in 0 .. numRanks
      /\ 0 \notin Ranks /\ "nextReq" \in EventKinds /\ "respond" \in EventKinds
      /\ respQueue \in Seq(Response) /\ CtrlOK /\ nextBurstAt \in Int
      /\ rk \in [Ranks -> RankState] /\ isRead \in BOOLEAN
  <2>1. 0 \in 0 .. numRanks /\ 0 \notin Ranks
    BY Constants DEF Ranks
  <2>2. "nextReq" \in EventKinds /\ "respond" \in EventKinds
    BY DEF EventKinds
  <2>3. Responses(eventq, respQueue, rk) /\ QueueOK(eventq) /\ CtrlOK
        /\ rk \in [Ranks -> RankState]
    BY DEF Ctl
  <2>4. respQueue \in Seq(Response)
    BY <2>3 DEF Responses
  <2>5. nextBurstAt \in Int
    BY <2>3 DEF CtrlOK
  <2>6. isRead \in BOOLEAN
    BY DEF isRead
  <2> QED
    BY <2>1, <2>2, <2>3, <2>4, <2>5, <2>6
<1>4. /\ QueueOK(t.q) /\ t.rk \in [Ranks -> RankState]
      /\ ~Scheduled(t.q, "nextReq", 0)
      /\ \A ev, r2, u : ev # "refresh" /\ ~(ev = "nextReq" /\ r2 = 0) =>
            (At(t.q, ev, r2, u) <=> At(eventq, ev, r2, u))
      /\ \A r2 \in Ranks :
            /\ RankOK(t.q, t.rk[r2], r2, respQueue)
            /\ ~Scheduled(t.q, "power", r2)
            /\ t.rk[r2].refreshState \notin {"REF_DRAIN", "REF_START"}
            /\ t.rk[r2].refreshState =
                  IF rk[r2].refreshState = "REF_DRAIN" THEN "REF_PD_EXIT"
                                                      ELSE rk[r2].refreshState
            /\ t.rk[r2].refreshDueAt = rk[r2].refreshDueAt
            /\ t.rk[r2].banks = rk[r2].banks
            /\ rk[r2].refreshState = "REF_RUN" =>
                  \A u : At(t.q, "refresh", r2, u) <=> At(eventq, "refresh", r2, u)
  BY <1>1, BusyOK
<1> HIDE DEF t
<1>5. Bursting(s, r, respQueue) /\ s.q = t.q /\ s.k = t.rk[r]
  <2>1. t.q \in Seq(Event) /\ t.rk[r] \in RankState
    BY <1>4 DEF QueueOK
  <2>2. s \in StepType /\ s.q = t.q /\ s.k = t.rk[r]
    BY <2>1 DEF StepType
  <2> HIDE DEF s
  <2> QED
    BY <1>1, <1>3, <1>4, <2>2, BurstingRank
<1>6. s.k.banks[b].colAt = x /\ x \in Nat
  <2>1. rk[r] \in RankState
    BY <1>3
  <2> HIDE DEF s
  <2> QED
    BY <1>4, <1>5, <2>1, RankTypes
<1> DEFINE resp2 == IF isRead THEN Append(respQueue, e) ELSE respQueue
<1> HIDE DEF s, x
<1>7. /\ d.cmd_at \in Nat /\ d.ready = d.cmd_at + tCL + tBURST
      /\ x <= d.cmd_at
      /\ Bursting(d.s, r, resp2)
      /\ BurstStep(s, d.s, r)
      /\ x <= d.s.k.banks[b].colAt /\ d.s.k.banks[b].colAt <= d.cmd_at
      /\ \A c \in Banks : c # b => d.s.k.banks[c].colAt = s.k.banks[c].colAt
      /\ \A m \in Int : Within(s, r, m) =>
            /\ d.cmd_at <= Later(Later(Later(x, m + tRP + tRCD),
                                       BusFreeAt(bubble)), 0) + slack
            /\ \A m2 \in Int : m <= m2 /\ d.cmd_at + PrechargeLag <= m2
                  => Within(d.s, r, m2)
  BY <1>3, <1>5, <1>6, BurstOK
<1> HIDE DEF d
<1>8. /\ tCL \in Nat /\ tBURST \in Nat /\ tRP \in Nat /\ tRCD \in Nat
      /\ d.ready \in Nat /\ nextBurstAt' \in Nat /\ a \in Nat
  <2>1. /\ tCL \in Nat /\ tBURST \in Nat /\ tRP \in Nat /\ tRCD \in Nat
        /\ d.ready \in Nat /\ nextBurstAt' \in Nat
    <3> DEFINE y == d.cmd_at
               z == d.ready
               w == nextBurstAt'
    <3>1. y \in Nat /\ z = y + tCL + tBURST /\ w = y + tBURST
      BY <1>1, <1>7
    <3> HIDE DEF y, z, w
    <3>2. z \in Nat /\ w \in Nat
      BY <3>1, Constants
    <3> QED
      BY <3>2, Constants DEF z, w
  <2> DEFINE w == nextBurstAt'
  <2>2. w \in Nat
    BY <2>1
  <2> HIDE DEF w
  <2>3. Later(w - tRP - tRCD, 0) \in Nat
    BY <2>1, <2>2 DEF Later
  <2> QED
    BY <2>1, <2>3 DEF w
<1>9. QueueOK(d.s.q) /\ d.s.k \in RankState /\ RankOK(d.s.q, d.s.k, r, resp2)
      /\ d.s.k.refreshState = "REF_IDLE" /\ ~Scheduled(d.s.q, "power", r)
      /\ resp2 \in Seq(Response)
  BY <1>7, BurstingRank DEF Bursting, StepType
<1>10. respQueue' = resp2
  BY <1>2
<1>11. /\ e \in Response /\ e.rank = r /\ e.at = d.ready
  BY <1>8 DEF Response
<1> HIDE DEF e
<1>12. ASSUME NEW r2
       PROVE  /\ Flying(resp2, r2) = Flying(respQueue, r2) + One(isRead /\ r = r2)
              /\ \A u : Flies(resp2, r2, u) <=>
                    Flies(respQueue, r2, u) \/ (isRead /\ r = r2 /\ u = d.ready)
  <2>1. Flying(respQueue, r2) \in Nat
    BY <1>3, FlyingNat
  <2>2. CASE isRead
    BY <1>3, <1>11, <2>2, FlyingAppend
  <2>3. CASE ~isRead
    BY <2>1, <2>3 DEF One
  <2> QED
    BY <2>2, <2>3
<1>13. /\ QueueOK(q3)
       /\ ~Scheduled(q3, "nextReq", 0)
       /\ \A ev, r2, u : At(q3, ev, r2, u) <=>
             \/ At(d.s.q, ev, r2, u)
             \/ /\ isRead /\ respQueue = <<>>
                /\ ev = "respond" /\ r2 = 0 /\ u = d.ready
       /\ \A r2 : r2 # 0 => Untouched(d.s.q, q3, r2)
  <2>1. \A ev, u : At(d.s.q, ev, 0, u) <=> At(t.q, ev, 0, u)
    BY <1>3, <1>5, <1>7 DEF BurstStep, Untouched
  <2>2. ~Scheduled(d.s.q, "nextReq", 0)
    BY <1>4, <1>9, <2>1, WhenOK
  <2>3. respQueue = <<>> => ~Scheduled(d.s.q, "respond", 0)
    <3>1. respQueue = <<>> => ~Scheduled(eventq, "respond", 0)
      BY <1>3 DEF Responses
    <3>2. \A u : At(d.s.q, "respond", 0, u) <=> At(eventq, "respond", 0, u)
      BY <1>4, <2>1
    <3> QED
      BY <1>3, <1>9, <3>1, <3>2, WhenOK
  <2>4. CASE isRead /\ respQueue = <<>>
    <3>1. q3 = Schedule(d.s.q, "respond", 0, d.ready)
      BY <2>4
    <3> HIDE DEF q3
    <3>2. /\ QueueOK(q3)
          /\ \A ev, r2, u : At(q3, ev, r2, u) <=>
                At(d.s.q, ev, r2, u) \/ (ev = "respond" /\ r2 = 0 /\ u = d.ready)
          /\ \A r2 : r2 # 0 => Untouched(d.s.q, q3, r2)
      BY <1>3, <1>8, <1>9, <2>3, <2>4, <3>1, ScheduleOK
    <3>3. ~Scheduled(q3, "nextReq", 0)
      BY <1>9, <2>2, <3>2, WhenOK
    <3> QED
      BY <2>4, <3>2, <3>3
  <2>5. CASE ~(isRead /\ respQueue = <<>>)
    <3>1. q3 = d.s.q
      BY <2>5
    <3> HIDE DEF q3
    <3> QED
      BY <1>9, <2>2, <2>5, <3>1 DEF Untouched
  <2> QED
    BY <2>4, <2>5
<1> HIDE DEF q3
<1>14. /\ QueueOK(eventq')
       /\ \A ev, r2, u : At(eventq', ev, r2, u) <=>
             At(q3, ev, r2, u) \/ (ev = "nextReq" /\ r2 = 0 /\ u = a)
       /\ \A r2 : r2 # 0 => Untouched(q3, eventq', r2)
  <2> HIDE DEF a
  <2> QED
    BY <1>1, <1>3, <1>8, <1>13, ScheduleOK
<1>15. \A r2 \in Ranks : Untouched(d.s.q, eventq', r2)
  BY <1>3, <1>13, <1>14 DEF Untouched
<1>16. \A r2 \in Ranks : r2 # r => Untouched(t.q, eventq', r2)
  BY <1>5, <1>7, <1>15 DEF BurstStep, Untouched
<1>17. /\ rk'[r] = ColumnHeld(d.s.k, d.cmd_at)
       /\ \A r2 \in Ranks : r2 # r => rk'[r2] = ColumnHeld(t.rk[r2], d.cmd_at)
       /\ rk' = [r2 \in Ranks |-> rk'[r2]]
  <2>1. rk' = [r2 \in Ranks |-> IF r2 = r THEN ColumnHeld(d.s.k, d.cmd_at)
                                          ELSE ColumnHeld(t.rk[r2], d.cmd_at)]
    BY <1>1 DEF ColumnsHeld
  <2> QED
    BY <2>1
<1>18. /\ SameRank(d.s.k, rk'[r])
       /\ rk'[r].outstandingEvents = d.s.k.outstandingEvents
       /\ \A c \in Banks :
             /\ rk'[r].banks[c].preAt = d.s.k.banks[c].preAt
             /\ rk'[r].banks[c].actAt = d.s.k.banks[c].actAt
             /\ rk'[r].banks[c].colAt = Later(d.s.k.banks[c].colAt, d.cmd_at + tBURST)
  BY <1>7, <1>9, <1>17, HeldFacts
<1>19. ASSUME NEW r2 \in Ranks, r2 # r
       PROVE  /\ SameRank(t.rk[r2], rk'[r2])
              /\ rk'[r2].outstandingEvents = t.rk[r2].outstandingEvents
              /\ \A c \in Banks :
                    /\ rk'[r2].banks[c].preAt = rk[r2].banks[c].preAt
                    /\ rk'[r2].banks[c].actAt = rk[r2].banks[c].actAt
                    /\ rk'[r2].banks[c].colAt = Later(rk[r2].banks[c].colAt, d.cmd_at + tBURST)
  <2>1. t.rk[r2] \in RankState /\ rk'[r2] = ColumnHeld(t.rk[r2], d.cmd_at)
        /\ t.rk[r2].banks = rk[r2].banks
    BY <1>4, <1>17, <1>19
  <2> QED
    BY <1>7, <2>1, HeldFacts, SMTT(30)
<1>20. rk' \in [Ranks -> RankState]
  <2>1. \A r2 \in Ranks : rk'[r2] \in RankState
    BY <1>18, <1>19 DEF SameRank
  <2> QED
    BY <1>17, <2>1
<1>21. ASSUME NEW r2 \in Ranks PROVE RankOK(eventq', rk'[r2], r2, respQueue')
  <2>1. CASE r2 = r
    <3>1. SameReads(d.s.k, rk'[r], resp2, resp2, r)
      <4>1. Flying(resp2, r) \in Nat /\ d.s.k.outstandingEvents \in Int
        BY <1>9, FlyingNat, RankTypes
      <4> QED
        BY <1>18, <4>1 DEF SameReads
    <3>2. RankOK(eventq', rk'[r], r, resp2)
      BY <1>9, <1>14, <1>15, <1>18, <3>1, Frame
    <3> QED
      BY <1>10, <2>1, <3>2
  <2>2. CASE r2 # r
    <3>1. SameReads(t.rk[r2], rk'[r2], respQueue, resp2, r2)
      <4>1. Flying(respQueue, r2) \in Nat /\ t.rk[r2].outstandingEvents \in Int
        <5>1. t.rk[r2] \in RankState
          BY <1>4
        <5> QED
          BY <1>3, <5>1, FlyingNat, RankTypes
      <4>2. Flying(resp2, r2) = Flying(respQueue, r2)
        <5>1. One(isRead /\ r = r2) = 0
          BY <2>2 DEF One
        <5> QED
          BY <1>12, <4>1, <5>1
      <4>3. \A u : Flies(resp2, r2, u) => Flies(respQueue, r2, u)
        BY <1>12, <2>2
      <4> QED
        BY <1>19, <2>2, <4>1, <4>2, <4>3 DEF SameReads
    <3>2. RankOK(eventq', rk'[r2], r2, resp2)
      BY <1>4, <1>14, <1>16, <1>19, <2>2, <3>1, Frame
    <3> QED
      BY <1>10, <3>2
  <2> QED
    BY <2>1, <2>2
<1>22. CtrlOK'
  <2>1. reads' \in [Ranks -> 0 .. readBufferSize]
    <3>1. reads \in [Ranks -> 0 .. readBufferSize] /\ readBufferSize \in Nat
      BY <1>3, Constants DEF CtrlOK
    <3>2. reads[r] > 0 => reads[r] - 1 \in 0 .. readBufferSize
      BY <3>1
    <3> QED
      BY <1>2, <3>1, <3>2
  <2>2. writes' \in [Ranks -> 0 .. writeBufferSize]
    <3>1. writes \in [Ranks -> 0 .. writeBufferSize] /\ writeBufferSize \in Nat
      BY <1>3, Constants DEF CtrlOK
    <3>2. writes[r] > 0 => writes[r] - 1 \in 0 .. writeBufferSize
      BY <3>1
    <3> QED
      BY <1>2, <3>1, <3>2
  <2>3. nextBurstAt' \in Int /\ busStateNext' \in {"READ", "WRITE"}
    BY <1>2, <1>8
  <2>4. draining' \in BOOLEAN
    BY <1>1, <1>3 DEF CtrlOK
  <2> QED
    BY <1>1, <2>1, <2>2, <2>3, <2>4 DEF CtrlOK
<1>23. ASSUME NEW c \in Banks
       PROVE  rk'[r].banks[c].colAt = Later(rk[r].banks[c].colAt, d.cmd_at + tBURST)
  <2> DEFINE y == d.s.k.banks[c].colAt
             z == rk[r].banks[c].colAt
             w == rk'[r].banks[c].colAt
  <2>1. w = Later(y, d.cmd_at + tBURST)
    BY <1>18
  <2>2. CASE c = b
    <3>1. z = x
      BY <2>2 DEF x
    <3>2. y \in Nat /\ x <= d.cmd_at /\ y <= d.cmd_at
      BY <1>7, <1>9, <2>2, RankTypes
    <3> HIDE DEF y, z, w
    <3>3. w = Later(z, d.cmd_at + tBURST)
      BY <1>6, <1>7, <1>8, <2>1, <3>1, <3>2 DEF Later
    <3> QED
      BY <3>3 DEF w, z
  <2>3. CASE c # b
    <3>1. y = z
      BY <1>4, <1>5, <1>7, <2>3
    <3> QED
      BY <2>1, <3>1
  <2> QED
    BY <2>2, <2>3
<1>24. \A r2 \in Ranks, c \in Banks :
          rk'[r2].banks[c].colAt = Later(rk[r2].banks[c].colAt, d.cmd_at + tBURST)
  BY <1>19, <1>23
<1>25. Responses(eventq', respQueue', rk')
  <2>1. ASSUME NEW r2 \in Ranks, NEW c \in Banks
        PROVE  /\ rk[r2].banks[c].colAt \in Nat /\ rk'[r2].banks[c].colAt \in Nat
               /\ rk[r2].banks[c].colAt <= rk'[r2].banks[c].colAt
               /\ d.ready <= rk'[r2].banks[c].colAt + tCL + tBURST
    <3> DEFINE z == rk[r2].banks[c].colAt
               w == rk'[r2].banks[c].colAt
    <3>1. z \in Nat /\ w = Later(z, d.cmd_at + tBURST)
      <4>1. rk[r2] \in RankState
        BY <1>3
      <4> QED
        BY <1>24, <4>1, RankTypes
    <3> HIDE DEF z, w
    <3>2. w \in Nat /\ z <= w /\ d.ready <= w + tCL + tBURST
      BY <1>7, <1>8, <3>1 DEF Later
    <3> QED
      BY <3>1, <3>2 DEF z, w
  <2>2. \A i \in DOMAIN respQueue : respQueue[i].at \in Nat
    BY <1>3, ResponseTypes
  <2>3. \A i \in DOMAIN respQueue, r2 \in Ranks, c \in Banks :
           respQueue[i].at <= rk'[r2].banks[c].colAt + tCL + tBURST
    <3> SUFFICES ASSUME NEW i \in DOMAIN respQueue, NEW r2 \in Ranks, NEW c \in Banks
                 PROVE  respQueue[i].at <= rk'[r2].banks[c].colAt + tCL + tBURST
      OBVIOUS
    <3> DEFINE z == rk[r2].banks[c].colAt
               w == rk'[r2].banks[c].colAt
               v == respQueue[i].at
    <3>1. v <= z + tCL + tBURST /\ z \in Nat /\ w \in Nat /\ z <= w /\ v \in Nat
      BY <1>3, <2>1, <2>2 DEF Responses
    <3> HIDE DEF z, w, v
    <3>2. v <= w + tCL + tBURST
      BY <1>8, <3>1
    <3> QED
      BY <3>2 DEF v, w
  <2>4. \A i \in DOMAIN respQueue : respQueue[i].at <= d.ready
    <3> SUFFICES ASSUME NEW i \in DOMAIN respQueue PROVE respQueue[i].at <= d.ready
      OBVIOUS
    <3> DEFINE v == respQueue[i].at
    <3>1. v <= x + tCL + tBURST /\ v \in Nat
      BY <1>3, <2>2 DEF Responses, x
    <3> HIDE DEF v
    <3>2. v <= d.ready
      BY <1>6, <1>7, <1>8, <3>1
    <3> QED
      BY <3>2 DEF v
  <2>5. \A i, j \in DOMAIN respQueue : i < j => respQueue[i].at <= respQueue[j].at
    BY <1>3 DEF Responses
  <2>6. \A u : At(eventq', "respond", 0, u) <=>
           At(eventq, "respond", 0, u) \/ (isRead /\ respQueue = <<>> /\ u = d.ready)
    <3>1. \A u : At(d.s.q, "respond", 0, u) <=> At(t.q, "respond", 0, u)
      BY <1>3, <1>5, <1>7 DEF BurstStep, Untouched
    <3> QED
      BY <1>4, <1>13, <1>14, <3>1
  <2>7. Scheduled(eventq', "respond", 0) <=>
           Scheduled(eventq, "respond", 0) \/ (isRead /\ respQueue = <<>>)
    BY <1>3, <1>8, <1>14, <2>6, WhenOK
  <2>8. Scheduled(eventq, "respond", 0) <=> respQueue # <<>>
    BY <1>3 DEF Responses
  <2>9. \A u \in Nat : At(eventq, "respond", 0, u) => u = respQueue[1].at
    BY <1>3 DEF Responses
  <2>10. CASE isRead
    <3> DEFINE n == Len(respQueue) + 1
               w == Append(respQueue, e)
    <3>1. /\ Len(respQueue) \in Nat /\ DOMAIN respQueue = 1 .. Len(respQueue)
          /\ w \in Seq(Response) /\ DOMAIN w = 1 .. n
          /\ \A i \in 1 .. Len(respQueue) : w[i] = respQueue[i]
          /\ w[n] = e /\ w # <<>>
      BY <1>3, <1>11
    <3>2. resp2 = w
      BY <2>10
    <3> HIDE DEF w, resp2
    <3>3. \A i \in DOMAIN w : i = n \/ i \in DOMAIN respQueue
      BY <3>1
    <3>4. \A i, j \in DOMAIN w : i < j => w[i].at <= w[j].at
      <4> SUFFICES ASSUME NEW i \in DOMAIN w, NEW j \in DOMAIN w, i < j
                   PROVE  w[i].at <= w[j].at
        OBVIOUS
      <4>1. i \in DOMAIN respQueue
        BY <3>1
      <4>2. CASE j = n
        BY <1>11, <2>4, <3>1, <4>1, <4>2
      <4>3. CASE j # n
        BY <2>5, <3>1, <3>3, <4>1, <4>3
      <4> QED
        BY <4>2, <4>3
    <3>5. \A i \in DOMAIN w, r2 \in Ranks, c \in Banks :
             w[i].at <= rk'[r2].banks[c].colAt + tCL + tBURST
      BY <1>11, <2>1, <2>3, <3>1, <3>3
    <3>6. \A u \in Nat : At(eventq', "respond", 0, u) => u = w[1].at
      <4>1. CASE respQueue = <<>>
        <5>1. n = 1 /\ w[1] = e
          BY <3>1, <4>1
        <5>2. ~Scheduled(eventq, "respond", 0)
          BY <2>8, <4>1
        <5>3. \A u : ~At(eventq, "respond", 0, u)
          BY <5>2 DEF At, Scheduled
        <5> QED
          BY <1>11, <2>6, <5>1, <5>3
      <4>2. CASE respQueue # <<>>
        <5>1. 1 \in 1 .. Len(respQueue)
          BY <1>3, <3>1, <4>2
        <5> QED
          BY <2>6, <2>9, <3>1, <4>2, <5>1
      <4> QED
        BY <4>1, <4>2
    <3>7. w # <<>> <=> Scheduled(eventq', "respond", 0)
      BY <2>7, <2>8, <2>10, <3>1
    <3> QED
      BY <1>10, <3>1, <3>2, <3>4, <3>5, <3>6, <3>7 DEF Responses
  <2>11. CASE ~isRead
    <3>1. resp2 = respQueue
      BY <2>11
    <3> HIDE DEF resp2
    <3> QED
      BY <1>3, <1>10, <2>3, <2>6, <2>7, <2>11, <3>1 DEF Responses
  <2> QED
    BY <2>10, <2>11
<1>26. Ctl'
  BY <1>14, <1>20, <1>21, <1>22, <1>25 DEF Ctl
<1>27. ASSUME NEW r2 \in Ranks, r2 # r
       PROVE  SameTurn(eventq, rk[r2], eventq', rk'[r2], r2)
  <2>1. \A ev, u : At(eventq', ev, r2, u) <=> At(t.q, ev, r2, u)
    BY <1>16, <1>27 DEF Untouched
  <2>2. /\ rk'[r2].refreshState = t.rk[r2].refreshState
        /\ rk'[r2].refreshDueAt = t.rk[r2].refreshDueAt
    BY <1>19, <1>27 DEF SameRank, SameScalars
  <2>3. \A u : At(eventq', "precharge", r2, u) => At(eventq, "precharge", r2, u)
    BY <1>4, <2>1
  <2>4. rk[r2].refreshState = "REF_RUN" =>
          \A ev \in {"refresh", "power"} : \A u :
             At(eventq', ev, r2, u) <=> At(eventq, ev, r2, u)
    BY <1>4, <2>1
  <2> QED
    BY <1>4, <1>19, <1>27, <2>2, <2>3, <2>4 DEF SameTurn
<1>28. /\ rk'[r].refreshState = "REF_IDLE" /\ rk'[r].refreshDueAt = rk[r].refreshDueAt
  <2>1. d.s.k.refreshDueAt = s.k.refreshDueAt
    BY <1>7 DEF BurstStep
  <2> QED
    BY <1>4, <1>5, <1>9, <1>18, <2>1 DEF SameRank, SameScalars
<1>29. ASSUME NEW m \in Int, Within(RankView(eventq, rk, r), r, m)
       PROVE  /\ d.cmd_at <= Later(Later(Later(rk[r].banks[b].colAt, m + tRP + tRCD),
                                   BusFreeAt(bubble)), 0) + slack
              /\ \A m2 \in Int : m <= m2 /\ d.cmd_at + PrechargeLag <= m2
                    => Within(RankView(eventq', rk', r), r, m2)
  <2>1. Within(s, r, m)
    <3>1. \A u : At(s.q, "precharge", r, u) <=> At(eventq, "precharge", r, u)
      BY <1>4, <1>5
    <3>2. s.k.banks = rk[r].banks
      BY <1>4, <1>5
    <3> QED
      BY <1>29, <3>1, <3>2 DEF Within, RankView
  <2>2. ASSUME NEW m2 \in Int, Within(d.s, r, m2)
        PROVE  Within(RankView(eventq', rk', r), r, m2)
    <3>1. \A u : At(eventq', "precharge", r, u) <=> At(d.s.q, "precharge", r, u)
      BY <1>15 DEF Untouched
    <3> QED
      BY <1>18, <2>2, <3>1 DEF Within, RankView
  <2> QED
    BY <1>7, <2>1, <2>2 DEF x
<1>30. /\ nextReqScheduled(eventq')
       /\ \A u : At(eventq', "nextReq", 0, u) => u = a
  <2>1. \A u : ~At(q3, "nextReq", 0, u)
    BY <1>13 DEF At, Scheduled
  <2>2. At(eventq', "nextReq", 0, a)
    BY <1>14, SMTT(30)
  <2> QED
    BY <1>14, <2>1, <2>2, WhenOK DEF nextReqScheduled
<1>31. BurstEffect(r, b, bubble, slack, d.cmd_at)
  BY <1>1, <1>7, <1>24, <1>27, <1>28, <1>29, <1>30 DEF BurstEffect, x
<1>32. \E read \in BOOLEAN :
          \A r2 : Flying(respQueue', r2) = Flying(respQueue, r2) + One(read /\ r = r2)
  BY <1>3, <1>10, <1>12
<1> QED
  BY <1>7, <1>26, <1>31, <1>32

----------------------------------------------------------------------------
(* Time: a rank whose times are as they were *)

(* At most, column commands are held up and a drain is over. *)
Timely(q, k, q2, k2, r) ==
    /\ \/ k2.refreshState = k.refreshState
       \/ k.refreshState = "REF_DRAIN" /\ k2.refreshState = "REF_PD_EXIT"
    /\ k2.refreshDueAt = k.refreshDueAt
    /\ \A b \in Banks : /\ k2.banks[b].preAt = k.banks[b].preAt
                        /\ k2.banks[b].actAt = k.banks[b].actAt
                        /\ k.banks[b].colAt <= k2.banks[b].colAt
    /\ \A p : At(q2, "precharge", r, p) => At(q, "precharge", r, p)
    /\ k.refreshState = "REF_RUN" =>
          \A ev \in {"refresh", "power"} : \A t : At(q2, ev, r, t) <=> At(q, ev, r, t)
    /\ k2.refreshState = "REF_DRAIN" =>
          \A a : At(q2, "nextReq", 0, a) => At(q, "nextReq", 0, a)

(* The times of a rank hold after a step that moves none of them back. *)
LEMMA TimelyOK ==
    ASSUME NEW q, QueueOK(q), NEW q2, QueueOK(q2),
           NEW k \in RankState, NEW k2 \in RankState, NEW r \in Ranks, NEW last \in Nat,
           RankTime(q, k, r, last), Timely(q, k, q2, k2, r)
    PROVE  RankTime(q2, k2, r, last)
<1> DEFINE end == last + PrechargeLag
           due == k.refreshDueAt
<1>1. /\ tRP \in Nat /\ Lag \in Nat /\ end \in Nat /\ due \in Int
      /\ k2.refreshDueAt = due
      /\ \A b \in Banks :
            /\ k.banks[b].preAt \in Nat /\ k.banks[b].actAt \in Nat
            /\ k.banks[b].colAt \in Nat /\ k2.banks[b].colAt \in Nat
  BY RankTypes, Constants, LagFacts DEF Timely
<1>2. \A b \in Banks : /\ k2.banks[b].preAt = k.banks[b].preAt
                       /\ k2.banks[b].actAt = k.banks[b].actAt
                       /\ k.banks[b].colAt <= k2.banks[b].colAt
  BY DEF Timely
<1>3. \A u, v, w : u \in Nat /\ v \in Nat /\ w \in Nat /\ v <= w =>
         /\ u <= v + Lag => u <= w + Lag
         /\ u <= v + Lag + tRP => u <= w + Lag + tRP
  BY <1>1
<1>4. \A b \in Banks : k2.banks[b].preAt <= k2.banks[b].colAt + Lag
  BY <1>1, <1>2, <1>3 DEF RankTime
<1>5. \A p \in Nat, b \in Banks : At(q2, "precharge", r, p) =>
          p <= k2.banks[b].colAt + Lag + tRP
  BY <1>1, <1>2, <1>3 DEF RankTime, Timely
<1>6. k2.refreshState = "REF_IDLE" =>
          \A b \in Banks : k2.banks[b].actAt <= k2.banks[b].colAt + Lag + tRP
  BY <1>1, <1>2, <1>3 DEF RankTime, Timely
<1>7. k2.refreshState = "REF_RUN" => \A b \in Banks :
          /\ Scheduled(q2, "power", r) => k2.banks[b].actAt = 0
          /\ ~Scheduled(q2, "power", r) =>
                \A t \in Nat : At(q2, "refresh", r, t) => k2.banks[b].actAt <= t
  <2> SUFFICES ASSUME k2.refreshState = "REF_RUN", NEW b \in Banks
               PROVE  /\ Scheduled(q2, "power", r) => k2.banks[b].actAt = 0
                      /\ ~Scheduled(q2, "power", r) =>
                            \A t \in Nat : At(q2, "refresh", r, t) => k2.banks[b].actAt <= t
    OBVIOUS
  <2>1. k.refreshState = "REF_RUN"
    BY DEF Timely
  <2>2. \A ev \in {"refresh", "power"} : \A t : At(q2, ev, r, t) <=> At(q, ev, r, t)
    BY <2>1 DEF Timely
  <2>3. Scheduled(q2, "power", r) <=> Scheduled(q, "power", r)
    BY <2>2, WhenOK
  <2> QED
    BY <1>2, <2>1, <2>2, <2>3 DEF RankTime
<1>8. k2.refreshState \in {"REF_DRAIN", "REF_PD_EXIT", "REF_PRE", "REF_START"} =>
          /\ due <= 0 /\ due >= -(end + tRP)
          /\ \A p \in Nat : At(q2, "precharge", r, p) => p - due <= end + tRP
  BY DEF RankTime, Timely
<1>9. k2.refreshState \in {"REF_DRAIN", "REF_PD_EXIT"} =>
          /\ due >= -end
          /\ \A b \in Banks : k2.banks[b].preAt <= Later(0, end + due)
  BY <1>2 DEF RankTime, Timely
<1>10. k2.refreshState = "REF_DRAIN" =>
          \A a \in Nat : At(q2, "nextReq", 0, a) => a - due <= last + tBURST
  BY DEF RankTime, Timely
<1> QED
  BY <1>1, <1>4, <1>5, <1>6, <1>7, <1>8, <1>9, <1>10 DEF RankTime

(* The turns to come, when the bus is as it was. *)
BusKept(q, ks, nb, q2, ks2, nb2) ==
    /\ nb2 = nb
    /\ \A r \in Ranks, b \in Banks : ks2[r].banks[b].colAt = ks[r].banks[b].colAt
    /\ nextReqScheduled(q) => nextReqScheduled(q2)
    /\ \A a : At(q2, "nextReq", 0, a) =>
          At(q, "nextReq", 0, a) \/ (~nextReqScheduled(q) /\ a = 0)

(* So do those of the bus. *)
LEMMA BusKeptOK ==
    ASSUME NEW q, NEW q2, NEW ks, NEW ks2, NEW nb \in Int, NEW nb2, NEW last \in Nat,
           BusTime(q, ks, nb, last), BusKept(q, ks, nb, q2, ks2, nb2)
    PROVE  BusTime(q2, ks2, nb2, last)
<1>1. tRP \in Nat /\ tRCD \in Nat /\ tBURST \in Nat
  BY Constants
<1>2. 0 <= last + tBURST /\ 0 + tRP + tRCD = tRP + tRCD
  BY <1>1
<1>3. \A a \in Nat : At(q2, "nextReq", 0, a) =>
          nb <= a + tRP + tRCD /\ a <= last + tBURST
  <2> SUFFICES ASSUME NEW a \in Nat, At(q2, "nextReq", 0, a)
               PROVE  nb <= a + tRP + tRCD /\ a <= last + tBURST
    OBVIOUS
  <2>1. CASE At(q, "nextReq", 0, a)
    BY <2>1 DEF BusTime
  <2>2. CASE ~nextReqScheduled(q) /\ a = 0
    <3>1. nb <= tRP + tRCD
      BY <2>2 DEF BusTime, nextReqScheduled
    <3> QED
      BY <1>1, <1>2, <2>2, <3>1
  <2> QED
    BY <2>1, <2>2 DEF BusKept
<1> QED
  BY <1>3 DEF BusTime, BusKept, nextReqScheduled

(* The parts of Times. *)
LEMMA TimesParts ==
    ASSUME Ctl, NEW last \in Nat, Times(last)
    PROVE  /\ BusTime(eventq, rk, nextBurstAt, last)
           /\ \A r \in Ranks : RankTime(eventq, rk[r], r, last)
           /\ QueueOK(eventq) /\ nextBurstAt \in Int
           /\ \A r \in Ranks : rk[r] \in RankState
           /\ \A r \in Ranks : rk[r].refreshState = "REF_DRAIN" =>
                 nextReqScheduled(eventq)
<1>1. \A r \in Ranks : rk[r].refreshState = "REF_DRAIN" => nextReqScheduled(eventq)
  BY DEF Ctl, RankOK, PhaseOK, nextReqScheduled
<1> QED
  BY <1>1 DEF Ctl, CtrlOK, Times

(* A rank that is as it was, when turns to come are as they were. *)
LEMMA KeptTimely ==
    ASSUME NEW q, NEW q2, NEW k \in RankState, NEW k2, NEW r \in Ranks,
           KeptRank(q, k, q2, k2, r),
           k.refreshState = "REF_DRAIN" => nextReqScheduled(q),
           \A a : At(q2, "nextReq", 0, a) =>
              At(q, "nextReq", 0, a) \/ (~nextReqScheduled(q) /\ a = 0)
    PROVE  Timely(q, k, q2, k2, r)
<1>1. \A b \in Banks : k.banks[b].colAt <= k2.banks[b].colAt
  <2> TAKE b \in Banks
  <2>1. k.banks[b].colAt \in Nat /\ k2.banks = k.banks
    BY RankTypes DEF KeptRank
  <2> QED
    BY <2>1
<1> QED
  BY <1>1 DEF KeptRank, Timely

(* A step that keeps the ranks and the bus keeps their times. *)
LEMMA KeptTimes ==
    ASSUME Ctl, NEW last \in Nat, Times(last), Ctl', Kept
    PROVE  Times(last)'
<1>1. /\ BusTime(eventq, rk, nextBurstAt, last)
      /\ \A r \in Ranks : RankTime(eventq, rk[r], r, last)
      /\ QueueOK(eventq) /\ nextBurstAt \in Int
      /\ \A r \in Ranks : rk[r] \in RankState
      /\ \A r \in Ranks : rk[r].refreshState = "REF_DRAIN" =>
            nextReqScheduled(eventq)
  BY TimesParts
<1>2. QueueOK(eventq') /\ \A r \in Ranks : rk'[r] \in RankState
  BY DEF Ctl
<1>3. BusTime(eventq', rk', nextBurstAt', last)
  <2>1. BusKept(eventq, rk, nextBurstAt, eventq', rk', nextBurstAt')
    BY DEF BusKept, Kept, KeptRank
  <2> QED
    BY <1>1, <2>1, BusKeptOK
<1>4. ASSUME NEW r \in Ranks PROVE RankTime(eventq', rk'[r], r, last)
  <2>1. Timely(eventq, rk[r], eventq', rk'[r], r)
    BY <1>1, KeptTimely DEF Kept
  <2> QED
    BY <1>1, <1>2, <2>1, TimelyOK
<1> QED
  BY <1>3, <1>4 DEF Times

(* The end of the last column command, and a turn that is due. *)
LEMMA BusFacts ==
    ASSUME Ctl, NEW last \in Nat, Times(last)
    PROVE  /\ nextBurstAt <= last + tBURST
           /\ Fire("nextReq", 0) => nextBurstAt <= tRP + tRCD
           /\ \A r \in Ranks, b \in Banks :
                 /\ rk[r].banks[b].colAt \in Nat
                 /\ rk[r].banks[b].colAt <= Later(0, nextBurstAt)
                 /\ \A r2 \in Ranks, b2 \in Banks :
                       rk[r].banks[b].colAt = rk[r2].banks[b2].colAt
           /\ \A a \in Nat : At(eventq, "nextReq", 0, a) =>
                 nextBurstAt <= a + tRP + tRCD /\ a <= last + tBURST
<1>1. BusTime(eventq, rk, nextBurstAt, last) /\ nextBurstAt \in Int
      /\ \A r \in Ranks : rk[r] \in RankState
  BY TimesParts
<1>2. tRP \in Nat /\ tRCD \in Nat /\ 0 \in 0 .. numRanks
  BY Constants
<1>3. Fire("nextReq", 0) => nextBurstAt <= tRP + tRCD
  <2> HAVE Fire("nextReq", 0)
  <2>1. At(eventq, "nextReq", 0, 0)
    BY <1>2, FireFacts
  <2>2. nextBurstAt <= 0 + tRP + tRCD
    BY <1>1, <2>1 DEF BusTime
  <2> QED
    BY <1>2, <2>2
<1>4. \A r \in Ranks, b \in Banks : rk[r].banks[b].colAt \in Nat
  BY <1>1, RankTypes
<1> QED
  BY <1>1, <1>3, <1>4 DEF BusTime

(* A turn without a burst. *)
LEMMA TurnTimes ==
    ASSUME Ctl, NEW last \in Nat, Times(last), Ctl', Fire("nextReq", 0),
           nextBurstAt' = nextBurstAt,
           \A r \in Ranks : TurnRank(eventq, rk[r], eventq', rk'[r], r),
           \A a : At(eventq', "nextReq", 0, a) => a = Later(nextBurstAt - tRP - tRCD, 0)
    PROVE  Times(last)'
<1>1. /\ BusTime(eventq, rk, nextBurstAt, last)
      /\ \A r \in Ranks : RankTime(eventq, rk[r], r, last)
      /\ QueueOK(eventq) /\ nextBurstAt \in Int
      /\ \A r \in Ranks : rk[r] \in RankState
  BY TimesParts
<1>2. QueueOK(eventq') /\ \A r \in Ranks : rk'[r] \in RankState
  BY DEF Ctl
<1>3. BusTime(eventq', rk', nextBurstAt', last)
  <2>1. nextBurstAt <= tRP + tRCD
    BY BusFacts
  <2>2. tRP \in Nat /\ tRCD \in Nat /\ tBURST \in Nat
    BY Constants
  <2>3. Later(nextBurstAt - tRP - tRCD, 0) = 0
    BY <1>1, <2>1, <2>2 DEF Later
  <2>4. \A a \in Nat : At(eventq', "nextReq", 0, a) =>
           nextBurstAt' <= a + tRP + tRCD /\ a <= last + tBURST
    BY <1>1, <2>1, <2>2, <2>3
  <2>5. \A r \in Ranks : rk'[r].banks = rk[r].banks
    BY DEF TurnRank
  <2> QED
    BY <1>1, <2>1, <2>4, <2>5 DEF BusTime
<1>4. ASSUME NEW r \in Ranks PROVE RankTime(eventq', rk'[r], r, last)
  <2>1. TurnRank(eventq, rk[r], eventq', rk'[r], r)
    OBVIOUS
  <2>2. \A b \in Banks : rk[r].banks[b].colAt <= rk'[r].banks[b].colAt
    <3> TAKE b \in Banks
    <3>1. rk[r].banks[b].colAt \in Nat /\ rk'[r].banks = rk[r].banks
      BY <1>1, <2>1, RankTypes DEF TurnRank
    <3> QED
      BY <3>1
  <2>3. Timely(eventq, rk[r], eventq', rk'[r], r)
    BY <2>1, <2>2 DEF TurnRank, Timely
  <2> QED
    BY <1>1, <1>2, <2>3, TimelyOK
<1> QED
  BY <1>3, <1>4 DEF Times

(* The last column command a burst can give. *)
LEMMA CommandInTime ==
    ASSUME NEW last \in Nat, LastCommand(last), NEW bubble \in Bubbles,
           NEW slack \in Slack, nextBurstAt \in Int, nextBurstAt <= tRP + tRCD,
           NEW col \in Nat, col <= Later(0, nextBurstAt), NEW cmd_at \in Nat,
           cmd_at <= Later(Later(Later(col, col + Lag + tRP + tRCD),
                                 BusFreeAt(bubble)), 0) + slack
    PROVE  cmd_at <= last
<1> DEFINE cap == CappedBubble(bubble)
           free == BusFreeAt(bubble)
<1>1. /\ tRP \in Nat /\ tRCD \in Nat /\ Lag \in Nat /\ slack \in Nat /\ cap \in Nat
      /\ tCL \in Nat /\ tBURST \in Nat
  BY Constants, LagFacts DEF CappedBubble
<1>2. /\ Lag + 2 * (tRP + tRCD) + slack <= last
      /\ tRP + tRCD + cap + slack <= last
  BY DEF LastCommand, Lag
<1> HIDE DEF cap
<1>3. free \in Int /\ free <= nextBurstAt + cap
  BY <1>1 DEF BusFreeAt, cap
<1> HIDE DEF free
<1>4. col <= tRP + tRCD
  BY <1>1 DEF Later
<1> DEFINE late == col + Lag + tRP + tRCD
<1>5. late \in Nat /\ late <= Lag + 2 * (tRP + tRCD) /\ Later(col, late) = late
  BY <1>1, <1>4 DEF Later
<1> HIDE DEF late
<1>6. late + slack <= last /\ free + slack <= last /\ 0 + slack <= last
  BY <1>1, <1>2, <1>3, <1>5
<1>7. cmd_at <= Later(Later(late, free), 0) + slack
  BY <1>5 DEF late, free
<1> QED
  BY <1>1, <1>3, <1>5, <1>6, <1>7 DEF Later

(* A burst. *)
LEMMA BurstTimes ==
    ASSUME Ctl, NEW last \in Nat, Times(last), LastCommand(last), Ctl',
           Fire("nextReq", 0), NEW r \in Ranks, NEW b \in Banks,
           NEW bubble \in Bubbles, NEW slack \in Slack, NEW cmd_at \in Nat,
           BurstEffect(r, b, bubble, slack, cmd_at)
    PROVE  Times(last)'
<1> DEFINE x   == rk[r].banks[b].colAt
           nb2 == cmd_at + tBURST
           m   == x + Lag
           m2  == cmd_at + PrechargeLag
<1>1. /\ BusTime(eventq, rk, nextBurstAt, last)
      /\ \A r2 \in Ranks : RankTime(eventq, rk[r2], r2, last)
      /\ QueueOK(eventq) /\ nextBurstAt \in Int
      /\ \A r2 \in Ranks : rk[r2] \in RankState
  BY TimesParts
<1>2. QueueOK(eventq') /\ \A r2 \in Ranks : rk'[r2] \in RankState
  BY DEF Ctl
<1>3. /\ nextBurstAt <= tRP + tRCD
      /\ \A r2 \in Ranks, c \in Banks :
            /\ rk[r2].banks[c].colAt = x
            /\ rk'[r2].banks[c].colAt = Later(rk[r2].banks[c].colAt, nb2)
      /\ x \in Nat /\ x <= Later(0, nextBurstAt) /\ x <= cmd_at
      /\ nextBurstAt' = nb2
  BY BusFacts DEF BurstEffect
<1>4. /\ tRP \in Nat /\ tRCD \in Nat /\ Lag \in Nat /\ tBURST \in Nat /\ PrechargeLag \in Nat
      /\ PrechargeLag = Lag + tBURST
  BY Constants, LagFacts
<1> HIDE DEF x
<1>5. /\ m \in Nat /\ m2 \in Nat /\ m <= m2 /\ m2 = nb2 + Lag /\ nb2 \in Nat
      /\ x <= nb2 /\ Later(x, nb2) = nb2
  <2>1. x \in Nat /\ x <= cmd_at
    BY <1>3
  <2>2. nb2 \in Nat /\ x <= nb2
    BY <1>4, <2>1
  <2>3. m \in Nat /\ m2 \in Nat /\ m <= m2 /\ m2 = nb2 + Lag
    BY <1>4, <2>1
  <2> HIDE DEF nb2
  <2> QED
    BY <2>1, <2>2, <2>3 DEF Later
<1>6. \A r2 \in Ranks, c \in Banks : rk'[r2].banks[c].colAt = nb2
  BY <1>3, <1>5
<1>7. Within(RankView(eventq, rk, r), r, m)
  <2>1. rk[r].refreshState = "REF_IDLE"
    BY DEF BurstEffect
  <2>2. \A c \in Banks : rk[r].banks[c].colAt = x
    BY <1>3
  <2>3. RankTime(eventq, rk[r], r, last)
    BY <1>1
  <2>4. \A c \in Banks : rk[r].banks[c].preAt <= m /\ rk[r].banks[c].actAt <= m + tRP
    BY <2>1, <2>2, <2>3 DEF RankTime
  <2>5. \A p \in Nat : At(eventq, "precharge", r, p) => p <= m + tRP
    BY <2>2, <2>3 DEF RankTime
  <2> QED
    BY <2>4, <2>5 DEF Within, RankView
<1> HIDE DEF m, m2
<1>8. cmd_at <= Later(Later(Later(x, m + tRP + tRCD), BusFreeAt(bubble)), 0) + slack
      /\ Within(RankView(eventq', rk', r), r, m2)
  <2>1. cmd_at <= Later(Later(Later(x, m + tRP + tRCD), BusFreeAt(bubble)), 0) + slack
        /\ \A w \in Int : m <= w /\ cmd_at + PrechargeLag <= w
              => Within(RankView(eventq', rk', r), r, w)
    BY <1>5, <1>7 DEF BurstEffect, x
  <2>2. cmd_at + PrechargeLag <= m2 /\ m2 \in Int
    BY <1>5 DEF m2
  <2> QED
    BY <1>5, <2>1, <2>2
<1>9. cmd_at <= last
  BY <1>1, <1>3, <1>8, CommandInTime DEF m
<1>10. BusTime(eventq', rk', nextBurstAt', last)
  <2>1. \A a : At(eventq', "nextReq", 0, a) => a = Later(nb2 - tRP - tRCD, 0)
    BY <1>3 DEF BurstEffect
  <2> DEFINE a0 == Later(nb2 - tRP - tRCD, 0)
  <2> HIDE DEF nb2
  <2>2. nb2 <= a0 + tRP + tRCD /\ a0 <= nb2
    BY <1>4, <1>5 DEF Later
  <2>3. nb2 <= last + tBURST
    BY <1>4, <1>9 DEF nb2
  <2>4. a0 \in Nat
    BY <1>4, <1>5 DEF Later
  <2> HIDE DEF a0
  <2>5. a0 <= last + tBURST
    BY <1>4, <1>5, <2>2, <2>3, <2>4
  <2>6. \A a \in Nat : At(eventq', "nextReq", 0, a) =>
           nb2 <= a + tRP + tRCD /\ a <= last + tBURST
    BY <2>1, <2>2, <2>5 DEF a0
  <2>7. Scheduled(eventq', "nextReq", 0)
    BY DEF BurstEffect, nextReqScheduled
  <2>8. nb2 <= Later(0, nb2)
    BY <1>5 DEF Later
  <2> QED
    BY <1>3, <1>6, <2>3, <2>6, <2>7, <2>8 DEF BusTime
<1>11. RankTime(eventq', rk'[r], r, last)
  <2>1. rk'[r].refreshState = "REF_IDLE"
    BY DEF BurstEffect
  <2>2. \A c \in Banks : rk'[r].banks[c].preAt <= m2 /\ rk'[r].banks[c].actAt <= m2 + tRP
    BY <1>8 DEF Within, RankView
  <2>3. \A p \in Nat : At(eventq', "precharge", r, p) => p <= m2 + tRP
    BY <1>8 DEF Within, RankView
  <2> HIDE DEF nb2
  <2> QED
    BY <1>5, <1>6, <2>1, <2>2, <2>3 DEF RankTime
<1>12. ASSUME NEW r2 \in Ranks, r2 # r PROVE RankTime(eventq', rk'[r2], r2, last)
  <2>1. SameTurn(eventq, rk[r2], eventq', rk'[r2], r2)
    BY <1>12 DEF BurstEffect
  <2>2. \A c \in Banks : rk[r2].banks[c].colAt <= rk'[r2].banks[c].colAt
    BY <1>3, <1>5, <1>6
  <2>3. Timely(eventq, rk[r2], eventq', rk'[r2], r2)
    BY <2>1, <2>2 DEF SameTurn, Timely
  <2> QED
    BY <1>1, <1>2, <2>3, TimelyOK
<1> QED
  BY <1>10, <1>11, <1>12 DEF Times

(* The refresh events. *)
LEMMA StartRefreshTimes ==
    ASSUME Ctl, NEW last \in Nat, Times(last), RefreshInTime, NEW r \in Ranks,
           Fire("refresh", r), UNCHANGED ctrl,
           rk[r].refreshState = "REF_START", Become(r, StartRefresh(Step(r), r))
    PROVE  Ctl' /\ Times(last)'
<1>1. /\ BusTime(eventq, rk, nextBurstAt, last)
      /\ \A r2 \in Ranks : RankTime(eventq, rk[r2], r2, last)
      /\ QueueOK(eventq) /\ nextBurstAt \in Int
      /\ \A r2 \in Ranks : rk[r2] \in RankState
      /\ \A r2 \in Ranks : rk[r2].refreshState = "REF_DRAIN" =>
            nextReqScheduled(eventq)
  BY TimesParts
<1>2. /\ Ctl' /\ KeptOthers(r)
      /\ rk'[r].refreshState = "REF_RUN"
      /\ \A b \in Banks : /\ rk'[r].banks[b].preAt = rk[r].banks[b].preAt
                          /\ rk'[r].banks[b].colAt = rk[r].banks[b].colAt
                          /\ rk'[r].banks[b].actAt = tRFC
      /\ \A e2, r2, t : At(eventq', e2, r2, t) <=>
            \/ At(eventq, e2, r2, t) /\ ~(e2 = "refresh" /\ r2 = r)
            \/ e2 = "refresh" /\ r2 = r /\ t = tRFC
  BY StartRefreshOK
<1>3. QueueOK(eventq') /\ \A r2 \in Ranks : rk'[r2] \in RankState
  BY <1>2 DEF Ctl
<1>4. nextBurstAt' = nextBurstAt
  BY DEF ctrl
<1>5. \A a : At(eventq', "nextReq", 0, a) <=> At(eventq, "nextReq", 0, a)
  BY <1>2
<1>6. nextReqScheduled(eventq') <=> nextReqScheduled(eventq)
  BY <1>1, <1>3, <1>5, WhenOK DEF nextReqScheduled
<1>7. BusTime(eventq', rk', nextBurstAt', last)
  <2>1. \A r2 \in Ranks, b \in Banks : rk'[r2].banks[b].colAt = rk[r2].banks[b].colAt
    BY <1>2 DEF KeptOthers, KeptRank
  <2>2. BusKept(eventq, rk, nextBurstAt, eventq', rk', nextBurstAt')
    BY <1>4, <1>5, <1>6, <2>1 DEF BusKept
  <2> QED
    BY <1>1, <2>2, BusKeptOK
<1>8. ASSUME NEW r2 \in Ranks, r2 # r PROVE RankTime(eventq', rk'[r2], r2, last)
  <2>1. Timely(eventq, rk[r2], eventq', rk'[r2], r2)
    BY <1>1, <1>2, <1>5, <1>8, KeptTimely DEF KeptOthers
  <2> QED
    BY <1>1, <1>3, <2>1, TimelyOK
<1>9. RankTime(eventq', rk'[r], r, last)
  <2>1. ~Scheduled(eventq, "power", r)
    <3>1. r \in 0 .. numRanks /\ r \in Ranks
      BY Constants DEF Ranks
    <3> QED
      BY <3>1, FireFacts
  <2>2. ~Scheduled(eventq', "power", r)
    <3>1. \A t : At(eventq', "power", r, t) <=> At(eventq, "power", r, t)
      BY <1>2
    <3> QED
      BY <1>1, <1>3, <2>1, <3>1, WhenOK
  <2>3. \A t \in Nat : At(eventq', "refresh", r, t) => t = tRFC
    BY <1>2
  <2>4. RankTime(eventq, rk[r], r, last)
    BY <1>1
  <2>5. /\ \A b \in Banks : rk'[r].banks[b].preAt <= rk'[r].banks[b].colAt + Lag
        /\ \A p \in Nat, b \in Banks : At(eventq', "precharge", r, p) =>
              p <= rk'[r].banks[b].colAt + Lag + tRP
    BY <1>2, <2>4 DEF RankTime
  <2>6. \A b \in Banks, t \in Nat : At(eventq', "refresh", r, t) =>
           rk'[r].banks[b].actAt <= t
    <3>1. tRFC <= tRFC
      BY Constants
    <3> QED
      BY <1>2, <2>3, <3>1
  <2> QED
    BY <1>2, <2>2, <2>5, <2>6 DEF RankTime
<1> QED
  BY <1>2, <1>7, <1>8, <1>9 DEF Times

(* The end of a refresh: the next is due an interval after the last was,   *)
(* whenever that one ran.                                                  *)
LEMMA EndRefreshTimes ==
    ASSUME Ctl, NEW last \in Nat, Times(last), ~enableDRAMPowerdown, OrderedTimings,
           NEW r \in Ranks, Fire("refresh", r), UNCHANGED ctrl,
           rk[r].refreshState = "REF_RUN", Become(r, EndRefresh(Step(r), r))
    PROVE  Ctl' /\ Times(last)'
<1>1. /\ BusTime(eventq, rk, nextBurstAt, last)
      /\ \A r2 \in Ranks : RankTime(eventq, rk[r2], r2, last)
      /\ QueueOK(eventq) /\ nextBurstAt \in Int
      /\ \A r2 \in Ranks : rk[r2] \in RankState
      /\ \A r2 \in Ranks : rk[r2].refreshState = "REF_DRAIN" =>
            nextReqScheduled(eventq)
  BY TimesParts
<1>2. /\ Ctl' /\ KeptOthers(r)
      /\ rk'[r].refreshState = "REF_RUN" /\ rk'[r].banks = rk[r].banks
      /\ Scheduled(eventq', "power", r)
      /\ \A e2, r2, t : e2 \notin {"refresh", "power"} =>
            (At(eventq', e2, r2, t) <=> At(eventq, e2, r2, t))
  BY EndRefreshOK
<1>3. QueueOK(eventq') /\ \A r2 \in Ranks : rk'[r2] \in RankState
  BY <1>2 DEF Ctl
<1>4. nextBurstAt' = nextBurstAt
  BY DEF ctrl
<1>5. \A a : At(eventq', "nextReq", 0, a) <=> At(eventq, "nextReq", 0, a)
  BY <1>2
<1>6. nextReqScheduled(eventq') <=> nextReqScheduled(eventq)
  BY <1>1, <1>3, <1>5, WhenOK DEF nextReqScheduled
<1>7. BusTime(eventq', rk', nextBurstAt', last)
  <2>1. \A r2 \in Ranks, b \in Banks : rk'[r2].banks[b].colAt = rk[r2].banks[b].colAt
    BY <1>2 DEF KeptOthers, KeptRank
  <2>2. BusKept(eventq, rk, nextBurstAt, eventq', rk', nextBurstAt')
    BY <1>4, <1>5, <1>6, <2>1 DEF BusKept
  <2> QED
    BY <1>1, <2>2, BusKeptOK
<1>8. ASSUME NEW r2 \in Ranks, r2 # r PROVE RankTime(eventq', rk'[r2], r2, last)
  <2>1. Timely(eventq, rk[r2], eventq', rk'[r2], r2)
    BY <1>1, <1>2, <1>5, <1>8, KeptTimely DEF KeptOthers
  <2> QED
    BY <1>1, <1>3, <2>1, TimelyOK
<1>9. RankTime(eventq', rk'[r], r, last)
  <2>1. ~Scheduled(eventq, "power", r) /\ At(eventq, "refresh", r, 0)
    <3>1. r \in 0 .. numRanks /\ r \in Ranks
      BY Constants DEF Ranks
    <3> QED
      BY <3>1, FireFacts
  <2>2. RankTime(eventq, rk[r], r, last)
    BY <1>1
  <2>3. \A b \in Banks : rk[r].banks[b].actAt = 0
    <3> TAKE b \in Banks
    <3>1. rk[r].banks[b].actAt <= 0
      BY <2>1, <2>2 DEF RankTime
    <3>2. rk[r].banks[b].actAt \in Nat
      BY <1>1, RankTypes
    <3> QED
      BY <3>1, <3>2
  <2> QED
    BY <1>2, <2>2, <2>3 DEF RankTime
<1> QED
  BY <1>2, <1>7, <1>8, <1>9 DEF Times

(* A refresh is due, and gets ready: it waits for what is under way. *)
LEMMA PreparingOK ==
    ASSUME Ctl, NEW last \in Nat, Times(last), NEW r \in Ranks,
           NEW q2, QueueOK(q2), NEW k2 \in RankState,
           Preparing(eventq, rk[r], q2, k2, r)
    PROVE  RankTime(q2, k2, r, last)
<1> DEFINE end == last + PrechargeLag
           k   == rk[r]
           due == k.refreshDueAt
           due2 == k2.refreshDueAt
<1>1. RankTime(eventq, k, r, last) /\ k \in RankState
  BY TimesParts
<1>2. /\ tRP \in Nat /\ tRCD \in Nat /\ Lag \in Nat /\ tBURST \in Nat /\ PrechargeLag \in Nat
      /\ PrechargeLag = Lag + tBURST /\ end \in Nat
  BY Constants, LagFacts
<1>3. /\ nextBurstAt <= last + tBURST /\ nextBurstAt \in Int
      /\ \A b \in Banks : /\ k.banks[b].colAt \in Nat
                          /\ k.banks[b].colAt <= Later(0, nextBurstAt)
      /\ \A b, c \in Banks : k.banks[b].colAt = k.banks[c].colAt
      /\ \A a \in Nat : At(eventq, "nextReq", 0, a) => a <= last + tBURST
  BY BusFacts, TimesParts
<1>4. \A b \in Banks : /\ k.banks[b].preAt \in Nat /\ k2.banks[b].preAt \in Nat
                       /\ k2.banks[b].colAt = k.banks[b].colAt
                       /\ \E c \in Banks : k2.banks[b].preAt = k.banks[c].preAt
  BY <1>1, RankTypes DEF Preparing
<1>5. \A b \in Banks : k.banks[b].colAt + Lag <= end
  <2> TAKE b \in Banks
  <2> DEFINE x == k.banks[b].colAt
  <2>1. x \in Nat /\ x <= Later(0, nextBurstAt)
    BY <1>3
  <2> HIDE DEF x
  <2>2. x <= last + tBURST
    BY <1>2, <1>3, <2>1 DEF Later
  <2>3. x + Lag <= end
    BY <1>2, <2>1, <2>2
  <2> QED
    BY <2>3 DEF x
<1>6. \A b \in Banks : k.banks[b].preAt <= end
  <2> TAKE b \in Banks
  <2> DEFINE x == k.banks[b].preAt
             y == k.banks[b].colAt + Lag
  <2>1. x <= y /\ y <= end /\ x \in Nat /\ y \in Nat
    BY <1>1, <1>2, <1>3, <1>4, <1>5 DEF RankTime
  <2> HIDE DEF x, y, end
  <2>2. x <= end
    BY <1>2, <2>1
  <2> QED
    BY <2>2 DEF x
<1>7. \A b \in Banks : k2.banks[b].preAt <= k2.banks[b].colAt + Lag
  <2> TAKE b \in Banks
  <2>1. PICK c \in Banks : k2.banks[b].preAt = k.banks[c].preAt
    BY <1>4
  <2>2. k.banks[c].preAt <= k.banks[c].colAt + Lag
    BY <1>1 DEF RankTime
  <2>3. k2.banks[b].colAt = k.banks[c].colAt
    BY <1>3, <1>4
  <2> QED
    BY <2>1, <2>2, <2>3
<1>8. ASSUME NEW p \in Nat, At(q2, "precharge", r, p)
      PROVE  \/ At(eventq, "precharge", r, p)
             \/ k2.refreshState = "REF_PRE" /\ \E c \in Banks : p = k.banks[c].preAt + tRP
  BY <1>8 DEF Preparing
<1>9. ASSUME NEW p \in Nat, NEW b \in Banks, At(q2, "precharge", r, p)
      PROVE  p <= k2.banks[b].colAt + Lag + tRP
  <2>1. CASE At(eventq, "precharge", r, p)
    BY <1>1, <1>4, <2>1 DEF RankTime
  <2>2. ASSUME NEW c \in Banks, p = k.banks[c].preAt + tRP
        PROVE  p <= k2.banks[b].colAt + Lag + tRP
    <3> DEFINE x == k.banks[c].preAt
               y == k2.banks[b].colAt
    <3>1. x <= y + Lag /\ x \in Nat /\ y \in Nat /\ p = x + tRP
      BY <1>1, <1>3, <1>4, <2>2 DEF RankTime
    <3> HIDE DEF x, y
    <3>2. p <= y + Lag + tRP
      BY <1>2, <3>1
    <3> QED
      BY <3>2 DEF y
  <2> QED
    BY <1>8, <1>9, <2>1, <2>2
<1>10. due \in Int /\ due2 \in Int
       /\ due2 = IF k.refreshState = "REF_IDLE" THEN 0 ELSE due
  BY <1>1, RankTypes DEF Preparing
<1>11. k.refreshState # "REF_IDLE" =>
          /\ k2.refreshState = "REF_PRE" /\ due <= 0 /\ due >= -end
          /\ \A p \in Nat : At(eventq, "precharge", r, p) => p - due <= end + tRP
          /\ \A b \in Banks : k.banks[b].preAt <= Later(0, end + due)
  BY <1>1 DEF Preparing, RankTime
<1>12. due2 <= 0 /\ due2 >= -end /\ due2 >= -(end + tRP)
  <2> HIDE DEF due, due2, end
  <2> QED
    BY <1>2, <1>10, <1>11
<1>13. \A b \in Banks : k.banks[b].preAt <= end + due2
  <2> TAKE b \in Banks
  <2> DEFINE x == k.banks[b].preAt
  <2>1. x \in Nat /\ x <= end
    BY <1>4, <1>6
  <2>2. k.refreshState # "REF_IDLE" => x <= Later(0, end + due)
    BY <1>11
  <2> HIDE DEF x, due, due2, end
  <2>3. x <= end + due2
    BY <1>2, <1>10, <1>12, <2>1, <2>2 DEF Later
  <2> QED
    BY <2>3 DEF x
<1>14. ASSUME NEW p \in Nat, At(q2, "precharge", r, p) PROVE p - due2 <= end + tRP
  <2>1. CASE At(eventq, "precharge", r, p) /\ k.refreshState # "REF_IDLE"
    BY <1>10, <1>11, <2>1
  <2>2. CASE At(eventq, "precharge", r, p) /\ k.refreshState = "REF_IDLE"
    <3>1. PICK b \in Banks : TRUE
      BY RankAssumption
    <3> DEFINE y == k.banks[b].colAt
    <3>2. p <= y + Lag + tRP /\ y + Lag <= end /\ y \in Nat
      BY <1>1, <1>3, <1>5, <2>2 DEF RankTime
    <3> HIDE DEF y, due2, end
    <3> QED
      BY <1>2, <1>10, <2>2, <3>2
  <2>3. ASSUME NEW c \in Banks, p = k.banks[c].preAt + tRP
        PROVE  p - due2 <= end + tRP
    <3> DEFINE x == k.banks[c].preAt
    <3>1. x \in Nat /\ x <= end + due2 /\ p = x + tRP
      BY <1>4, <1>13, <2>3
    <3> HIDE DEF x, due2, end
    <3> QED
      BY <1>2, <1>10, <3>1
  <2> QED
    BY <1>8, <1>14, <2>1, <2>2, <2>3
<1>15. k2.refreshState \in {"REF_DRAIN", "REF_PRE"}
  BY DEF Preparing
<1>16. k2.refreshState = "REF_DRAIN" =>
          \A b \in Banks : k2.banks[b].preAt <= Later(0, end + due2)
  <2> SUFFICES ASSUME k2.refreshState = "REF_DRAIN", NEW b \in Banks
               PROVE  k2.banks[b].preAt <= Later(0, end + due2)
    OBVIOUS
  <2>1. k2.banks[b].preAt = k.banks[b].preAt
    BY DEF Preparing
  <2> DEFINE x == k.banks[b].preAt
  <2>2. x \in Nat /\ x <= end + due2
    BY <1>4, <1>13
  <2> HIDE DEF x, due2, end
  <2>3. x <= Later(0, end + due2)
    BY <1>2, <1>10, <2>2 DEF Later
  <2> QED
    BY <2>1, <2>3 DEF x
<1>17. k2.refreshState = "REF_DRAIN" =>
          \A a \in Nat : At(q2, "nextReq", 0, a) => a - due2 <= last + tBURST
  <2> SUFFICES ASSUME k2.refreshState = "REF_DRAIN", NEW a \in Nat, At(q2, "nextReq", 0, a)
               PROVE  a - due2 <= last + tBURST
    OBVIOUS
  <2>1. At(eventq, "nextReq", 0, a) /\ k.refreshState = "REF_IDLE"
    BY DEF Preparing
  <2>2. a <= last + tBURST /\ due2 = 0
    BY <1>3, <1>10, <2>1
  <2> QED
    BY <1>2, <2>2
<1> HIDE DEF end
<1> QED
  BY <1>7, <1>9, <1>12, <1>14, <1>15, <1>16, <1>17 DEF RankTime, end

(* What a power event leaves of the times. *)
LEMMA PoweredOK ==
    ASSUME Ctl, NEW last \in Nat, Times(last), NEW r \in Ranks, Fire("power", r),
           NEW q2, QueueOK(q2), NEW k2 \in RankState,
           Powered(eventq, rk[r], q2, k2, r)
    PROVE  RankTime(q2, k2, r, last)
<1> DEFINE k   == rk[r]
           due == k.refreshDueAt
           end == last + PrechargeLag
<1>1. /\ RankTime(eventq, k, r, last) /\ k \in RankState
      /\ k.refreshState = "REF_DRAIN" => nextReqScheduled(eventq)
  BY TimesParts
<1>2. /\ k2.banks = k.banks /\ k2.refreshDueAt = due
      /\ \A p : At(q2, "precharge", r, p) <=> At(eventq, "precharge", r, p)
  BY DEF Powered
<1>3. /\ \A b \in Banks : k2.banks[b].preAt <= k2.banks[b].colAt + Lag
      /\ \A p \in Nat, b \in Banks : At(q2, "precharge", r, p) =>
          p <= k2.banks[b].colAt + Lag + tRP
  BY <1>1, <1>2 DEF RankTime
<1>4. CASE k.refreshState \in {"REF_IDLE", "REF_DRAIN", "REF_PRE"}
           /\ k2.refreshState = k.refreshState
  <2>1. \A a : At(q2, "nextReq", 0, a) <=> At(eventq, "nextReq", 0, a)
    BY <1>4 DEF Powered
  <2> QED
    BY <1>1, <1>2, <1>3, <1>4, <2>1 DEF RankTime
<1>5. CASE k.refreshState = "REF_PRE" /\ k2.refreshState = "REF_START"
  BY <1>1, <1>2, <1>3, <1>5 DEF RankTime
<1>6. CASE k.refreshState = "REF_RUN" /\ k2.refreshState = "REF_IDLE"
  <2>1. Scheduled(eventq, "power", r)
    <3>1. r \in 0 .. numRanks
      BY Constants DEF Ranks
    <3> QED
      BY <3>1, FireFacts
  <2>2. \A b \in Banks : k2.banks[b].actAt = 0
    BY <1>1, <1>2, <1>6, <2>1 DEF RankTime
  <2>3. \A b \in Banks : 0 <= k2.banks[b].colAt + Lag + tRP
    <3> TAKE b \in Banks
    <3>1. k2.banks[b].colAt \in Nat /\ Lag \in Nat /\ tRP \in Nat
      BY RankTypes, LagFacts, Constants
    <3> QED
      BY <3>1
  <2> QED
    BY <1>3, <1>6, <2>2, <2>3 DEF RankTime
<1> QED
  BY <1>4, <1>5, <1>6 DEF Powered

(* A step of one rank leaves the bus as it was, or starts the loop. *)
LEMMA OneRankTimes ==
    ASSUME Ctl, NEW last \in Nat, Times(last), NEW r \in Ranks, Ctl', KeptOthers(r),
           nextBurstAt' = nextBurstAt,
           \A b \in Banks : rk'[r].banks[b].colAt = rk[r].banks[b].colAt,
           nextReqScheduled(eventq) => nextReqScheduled(eventq'),
           \A a : At(eventq', "nextReq", 0, a) =>
              At(eventq, "nextReq", 0, a) \/ (~nextReqScheduled(eventq) /\ a = 0),
           RankTime(eventq', rk'[r], r, last)
    PROVE  Times(last)'
<1>1. /\ BusTime(eventq, rk, nextBurstAt, last)
      /\ \A r2 \in Ranks : RankTime(eventq, rk[r2], r2, last)
      /\ QueueOK(eventq) /\ nextBurstAt \in Int
      /\ \A r2 \in Ranks : rk[r2] \in RankState
      /\ \A r2 \in Ranks : rk[r2].refreshState = "REF_DRAIN" =>
            nextReqScheduled(eventq)
  BY TimesParts
<1>2. QueueOK(eventq') /\ \A r2 \in Ranks : rk'[r2] \in RankState
  BY DEF Ctl
<1>3. BusTime(eventq', rk', nextBurstAt', last)
  <2>1. \A r2 \in Ranks, b \in Banks : rk'[r2].banks[b].colAt = rk[r2].banks[b].colAt
    BY DEF KeptOthers, KeptRank
  <2>2. BusKept(eventq, rk, nextBurstAt, eventq', rk', nextBurstAt')
    BY <2>1 DEF BusKept
  <2> QED
    BY <1>1, <2>2, BusKeptOK
<1>4. ASSUME NEW r2 \in Ranks, r2 # r PROVE RankTime(eventq', rk'[r2], r2, last)
  <2>1. Timely(eventq, rk[r2], eventq', rk'[r2], r2)
    BY <1>1, <1>4, KeptTimely DEF KeptOthers
  <2> QED
    BY <1>1, <1>2, <2>1, TimelyOK
<1> QED
  BY <1>3, <1>4 DEF Times

(* The start of a refresh keeps the times: it may be late by the last      *)
(* command and its precharge, no more.                                     *)
LEMMA PrepareTimes ==
    ASSUME Ctl, NEW last \in Nat, Times(last), NEW r \in Ranks,
           Fire("refresh", r), UNCHANGED ctrl,
           rk[r].refreshState \notin {"REF_START", "REF_RUN"},
           Become(r, PrepareRefresh(BeginRefresh(Step(r)), r))
    PROVE  Ctl' /\ Times(last)'
<1>1. Ctl' /\ KeptOthers(r) /\ Preparing(eventq, rk[r], eventq', rk'[r], r)
  BY PrepareRefreshOK
<1>2. QueueOK(eventq) /\ QueueOK(eventq') /\ rk'[r] \in RankState
  BY <1>1 DEF Ctl
<1>3. RankTime(eventq', rk'[r], r, last)
  BY <1>1, <1>2, PreparingOK
<1>4. \A a : At(eventq', "nextReq", 0, a) <=> At(eventq, "nextReq", 0, a)
  BY <1>1 DEF Preparing
<1>5. nextReqScheduled(eventq) => nextReqScheduled(eventq')
  BY <1>2, <1>4, WhenOK DEF nextReqScheduled
<1>6. nextBurstAt' = nextBurstAt
  BY DEF ctrl
<1>7. \A b \in Banks : rk'[r].banks[b].colAt = rk[r].banks[b].colAt
  BY <1>1 DEF Preparing
<1> QED
  BY <1>1, <1>3, <1>4, <1>5, <1>6, <1>7, OneRankTimes

(* A power event keeps the times: the refresh that starts with it ends     *)
(* after tRFC.                                                             *)
LEMMA PowerTimes ==
    ASSUME Ctl, NEW last \in Nat, Times(last), NEW r \in Ranks, processPowerEvent(r)
    PROVE  Ctl' /\ Times(last)'
<1>1. Ctl' /\ KeptOthers(r) /\ Powered(eventq, rk[r], eventq', rk'[r], r)
  BY PowerCtl
<1>2. QueueOK(eventq) /\ QueueOK(eventq') /\ rk'[r] \in RankState
  BY <1>1 DEF Ctl
<1>3. Fire("power", r) /\ nextBurstAt' = nextBurstAt
  BY DEF processPowerEvent, ctrl
<1>4. RankTime(eventq', rk'[r], r, last)
  BY <1>1, <1>2, <1>3, PoweredOK
<1>5. \A a : At(eventq', "nextReq", 0, a) <=>
          \/ At(eventq, "nextReq", 0, a)
          \/ /\ rk[r].refreshState = "REF_RUN" /\ ~nextReqScheduled(eventq) /\ a = 0
  BY <1>1 DEF Powered
<1>6. nextReqScheduled(eventq) => nextReqScheduled(eventq')
  BY <1>2, <1>5, WhenOK DEF nextReqScheduled
<1>7. \A b \in Banks : rk'[r].banks[b].colAt = rk[r].banks[b].colAt
  BY <1>1 DEF Powered
<1> QED
  BY <1>1, <1>3, <1>4, <1>5, <1>6, <1>7, OneRankTimes

(* A tick passes: every time of the rank comes a tick nearer, its          *)
(* constraints end at the present, and what the refresh waits for is still *)
(* to come, so that it has been due for less than the bound.               *)
LEMMA TickRankTime ==
    ASSUME Ctl, NEW last \in Nat, Times(last), Advance, NEW r \in Ranks
    PROVE  RankTime(eventq', rk'[r], r, last)
<1> DEFINE q == eventq
           q2 == eventq'
           k == rk[r]
           k2 == rk'[r]
           end == last + PrechargeLag
           due == k.refreshDueAt
           due2 == k2.refreshDueAt
<1>1. /\ k2 = PassedRank(k)
      /\ \A ev, t : At(q2, ev, r, t) <=> t \in Nat /\ At(q, ev, r, t + 1)
      /\ \A t : At(q2, "nextReq", 0, t) <=> t \in Nat /\ At(q, "nextReq", 0, t + 1)
      /\ \A ev, t : At(q, ev, r, t) => t \in Nat /\ t - 1 \in Nat
      /\ \A t : At(q, "nextReq", 0, t) => t \in Nat /\ t - 1 \in Nat
      /\ \A ev : Scheduled(q2, ev, r) <=> Scheduled(q, ev, r)
      /\ ~Scheduled(q, "power", r)
      /\ k.refreshState \in {"REF_IDLE", "REF_DRAIN", "REF_PRE", "REF_RUN"}
  BY TickFacts
<1>2. /\ RankTime(q, k, r, last) /\ k \in RankState /\ QueueOK(q)
      /\ k.refreshState = "REF_DRAIN" => nextReqScheduled(q)
      /\ k.refreshState = "REF_PRE" => Scheduled(q, "precharge", r)
  <2>1. RankTime(q, k, r, last) /\ k \in RankState /\ QueueOK(q)
        /\ (k.refreshState = "REF_DRAIN" => nextReqScheduled(q))
    BY TimesParts
  <2>2. k.refreshState = "REF_PRE" =>
           Scheduled(q, "precharge", r) \/ Scheduled(q, "power", r)
    BY DEF Ctl, RankOK, PhaseOK
  <2> QED
    BY <1>1, <2>1, <2>2
<1>3. /\ k2.refreshState = k.refreshState
      /\ due2 = Passed(due, -tREFI)
      /\ \A b \in Banks :
            /\ k2.banks[b].preAt = Passed(k.banks[b].preAt, 0)
            /\ k2.banks[b].actAt = Passed(k.banks[b].actAt, 0)
            /\ k2.banks[b].colAt = Passed(k.banks[b].colAt, 0)
  BY <1>1, <1>2, PassedRankOK
<1>4. /\ tRP \in Nat /\ Lag \in Nat /\ tBURST \in Nat /\ tREFI \in Nat
      /\ PrechargeLag \in Nat /\ PrechargeLag = Lag + tBURST
      /\ due \in Int /\ end \in Nat /\ last + tBURST <= end
      /\ \A b \in Banks : /\ k.banks[b].preAt \in Nat /\ k.banks[b].actAt \in Nat
                          /\ k.banks[b].colAt \in Nat
  BY <1>2, RankTypes, Constants, LagFacts
<1>5. due2 \in Int /\ due - 1 <= due2 /\ (due <= 0 => due2 <= 0)
  <2> HIDE DEF due, due2
  <2> QED
    BY <1>3, <1>4 DEF Passed, Later
<1>6. \A x, y, z : x \in Nat /\ y \in Nat /\ z \in Nat =>
         /\ x <= y + z => Passed(x, 0) <= Passed(y, 0) + z
         /\ x + 1 <= y + z => x <= Passed(y, 0) + z
         /\ x <= z + 1 => Passed(x, 0) <= z
  BY DEF Passed, Later
<1> HIDE DEF k, k2, q, q2
<1>7. \A b \in Banks : k2.banks[b].preAt <= k2.banks[b].colAt + Lag
  <2> TAKE b \in Banks
  <2>1. k.banks[b].preAt <= k.banks[b].colAt + Lag
    BY <1>2 DEF RankTime
  <2> QED
    BY <1>3, <1>4, <1>6, <2>1
<1>8. Lag + tRP \in Nat /\ \A x \in Nat : x + Lag + tRP = x + (Lag + tRP)
  BY <1>4
<1>9. \A b \in Banks : Passed(k.banks[b].colAt, 0) \in Nat
  BY <1>4 DEF Passed, Later
<1>10. \A p \in Nat, b \in Banks : At(q2, "precharge", r, p) =>
          p <= k2.banks[b].colAt + Lag + tRP
  <2> TAKE p \in Nat, b \in Banks
  <2> HAVE At(q2, "precharge", r, p)
  <2>1. At(q, "precharge", r, p + 1) /\ p + 1 \in Nat
    BY <1>1
  <2>2. p + 1 <= k.banks[b].colAt + Lag + tRP
    BY <1>2, <2>1 DEF RankTime
  <2> DEFINE y == k.banks[b].colAt
             w == Lag + tRP
  <2>3. p + 1 <= y + w /\ y \in Nat /\ w \in Nat
    BY <1>4, <1>8, <2>2
  <2> HIDE DEF y, w
  <2>4. p <= Passed(y, 0) + w
    BY <1>6, <2>3
  <2>5. p <= k2.banks[b].colAt + w
    BY <1>3, <2>4 DEF y
  <2> QED
    BY <1>3, <1>8, <1>9, <2>5 DEF w
<1>11. k2.refreshState = "REF_IDLE" =>
          \A b \in Banks : k2.banks[b].actAt <= k2.banks[b].colAt + Lag + tRP
  <2> HAVE k2.refreshState = "REF_IDLE"
  <2> TAKE b \in Banks
  <2>1. k.banks[b].actAt <= k.banks[b].colAt + Lag + tRP
    BY <1>2, <1>3 DEF RankTime
  <2> DEFINE x == k.banks[b].actAt
             y == k.banks[b].colAt
             w == Lag + tRP
  <2>2. x <= y + w /\ x \in Nat /\ y \in Nat /\ w \in Nat
    BY <1>4, <1>8, <2>1
  <2> HIDE DEF x, y, w
  <2>3. Passed(x, 0) <= Passed(y, 0) + w
    BY <1>6, <2>2
  <2>4. k2.banks[b].actAt <= k2.banks[b].colAt + w
    BY <1>3, <2>3 DEF x, y
  <2> QED
    BY <1>3, <1>8, <1>9, <2>4 DEF w
<1>12. k2.refreshState = "REF_RUN" => \A b \in Banks :
          /\ Scheduled(q2, "power", r) => k2.banks[b].actAt = 0
          /\ ~Scheduled(q2, "power", r) =>
                \A t \in Nat : At(q2, "refresh", r, t) => k2.banks[b].actAt <= t
  <2> HAVE k2.refreshState = "REF_RUN"
  <2>1. ASSUME NEW b \in Banks, NEW t \in Nat, At(q2, "refresh", r, t)
        PROVE  k2.banks[b].actAt <= t
    <3>1. At(q, "refresh", r, t + 1) /\ t + 1 \in Nat
      BY <1>1, <2>1
    <3>2. k.banks[b].actAt <= t + 1
      BY <1>1, <1>2, <1>3, <3>1 DEF RankTime
    <3> DEFINE x == k.banks[b].actAt
    <3>3. x \in Nat /\ x <= t + 1 /\ k2.banks[b].actAt = Passed(x, 0)
      BY <1>3, <1>4, <3>2
    <3> HIDE DEF x
    <3> QED
      BY <3>3 DEF Passed, Later
  <2> QED
    BY <1>1, <2>1
<1>13. ASSUME k.refreshState \in {"REF_DRAIN", "REF_PRE"}
       PROVE  /\ due2 <= 0 /\ due2 >= -(end + tRP)
              /\ \A p \in Nat : At(q2, "precharge", r, p) => p - due2 <= end + tRP
  <2>1. due <= 0 /\ \A p \in Nat : At(q, "precharge", r, p) => p - due <= end + tRP
    BY <1>2, <1>13 DEF RankTime
  <2>2. due >= 1 - (end + tRP)
    <3>1. CASE k.refreshState = "REF_DRAIN"
      <4>1. PICK a \in Nat : At(q, "nextReq", 0, a)
        BY <1>2, <3>1, WhenOK DEF nextReqScheduled
      <4>2. a - due <= last + tBURST /\ a - 1 \in Nat
        BY <1>1, <1>2, <3>1, <4>1 DEF RankTime
      <4> HIDE DEF due, end
      <4> QED
        BY <1>4, <4>2
    <3>2. CASE k.refreshState = "REF_PRE"
      <4>1. PICK p \in Nat : At(q, "precharge", r, p)
        BY <1>2, <3>2, WhenOK
      <4>2. p - due <= end + tRP /\ p - 1 \in Nat
        BY <1>1, <2>1, <4>1
      <4> HIDE DEF due, end
      <4> QED
        BY <1>4, <4>2
    <3> QED
      BY <1>13, <3>1, <3>2
  <2>3. ASSUME NEW p \in Nat, At(q2, "precharge", r, p) PROVE p - due2 <= end + tRP
    <3> DEFINE y == p + 1
    <3>1. At(q, "precharge", r, y) /\ y \in Nat
      BY <1>1, <2>3
    <3> HIDE DEF due, due2, end, y
    <3>2. y - due <= end + tRP
      BY <2>1, <3>1
    <3> QED
      BY <1>4, <1>5, <3>2 DEF y
  <2> HIDE DEF due, due2, end
  <2>4. due2 <= 0 /\ due2 >= -(end + tRP)
    BY <1>4, <1>5, <2>1, <2>2
  <2> QED
    BY <2>3, <2>4
<1>14. ASSUME k.refreshState = "REF_DRAIN"
       PROVE  /\ due2 >= -end
              /\ \A b \in Banks : k2.banks[b].preAt <= Later(0, end + due2)
              /\ \A a \in Nat : At(q2, "nextReq", 0, a) => a - due2 <= last + tBURST
  <2>1. /\ \A b \in Banks : k.banks[b].preAt <= Later(0, end + due)
        /\ \A a \in Nat : At(q, "nextReq", 0, a) => a - due <= last + tBURST
    BY <1>2, <1>14 DEF RankTime
  <2>2. due2 >= -end
    <3>1. PICK a \in Nat : At(q, "nextReq", 0, a)
      BY <1>2, <1>14, WhenOK DEF nextReqScheduled
    <3>2. a - due <= last + tBURST /\ a - 1 \in Nat
      BY <1>1, <2>1, <3>1
    <3> HIDE DEF due, due2, end
    <3> QED
      BY <1>4, <1>5, <3>2
  <2>3. ASSUME NEW b \in Banks PROVE k2.banks[b].preAt <= Later(0, end + due2)
    <3> DEFINE x == k.banks[b].preAt
    <3>1. x \in Nat /\ x <= Later(0, end + due)
      BY <1>4, <2>1
    <3> HIDE DEF x, due, due2, end
    <3>2. Passed(x, 0) <= Later(0, end + due2)
      BY <1>4, <1>5, <3>1 DEF Passed, Later
    <3> QED
      BY <1>3, <3>2 DEF x
  <2>4. ASSUME NEW a \in Nat, At(q2, "nextReq", 0, a) PROVE a - due2 <= last + tBURST
    <3> DEFINE y == a + 1
    <3>1. At(q, "nextReq", 0, y) /\ y \in Nat
      BY <1>1, <2>4
    <3> HIDE DEF due, due2, end, y
    <3>2. y - due <= last + tBURST
      BY <2>1, <3>1
    <3> QED
      BY <1>4, <1>5, <3>2 DEF y
  <2> QED
    BY <2>2, <2>3, <2>4
<1>15. k2.refreshState \in {"REF_IDLE", "REF_DRAIN", "REF_PRE", "REF_RUN"}
       /\ k2.refreshState = k.refreshState
  BY <1>1, <1>3
<1> HIDE DEF end
<1>16. RankTime(q2, k2, r, last)
  BY <1>7, <1>10, <1>11, <1>12, <1>13, <1>14, <1>15 DEF RankTime, end
<1> QED
  BY <1>16 DEF q2, k2

(* Time passes: the refreshes come nearer with the events they wait for. *)
LEMMA AdvanceTimes ==
    ASSUME Ctl, NEW last \in Nat, Times(last), Advance
    PROVE  Times(last)'
<1> DEFINE nb == nextBurstAt
           nb2 == nextBurstAt'
<1>1. /\ \A t : At(eventq', "nextReq", 0, t) <=> t \in Nat /\ At(eventq, "nextReq", 0, t + 1)
      /\ Scheduled(eventq', "nextReq", 0) <=> Scheduled(eventq, "nextReq", 0)
      /\ \A r \in Ranks : rk'[r] = PassedRank(rk[r])
  BY TickFacts
<1>2. /\ BusTime(eventq, rk, nb, last) /\ nb \in Int
      /\ \A r \in Ranks : rk[r] \in RankState
  BY TimesParts
<1>3. /\ tRP \in Nat /\ tRCD \in Nat /\ tBURST \in Nat /\ MaxBubble \in Nat
      /\ nb2 = Passed(nb, -MaxBubble)
  BY Constants, MaxBubbleNat DEF Advance
<1> HIDE DEF nb, nb2
<1>4. nb2 \in Int /\ nb - 1 <= nb2 /\ \A x \in Nat : nb <= x + 1 => nb2 <= x
  BY <1>2, <1>3 DEF Passed, Later
<1>5. nb2 <= last + tBURST
  <2>1. nb <= last + tBURST /\ last + tBURST \in Nat
    BY <1>2, <1>3 DEF BusTime
  <2> QED
    BY <1>2, <1>4, <2>1
<1>6. ASSUME NEW a \in Nat, At(eventq', "nextReq", 0, a)
      PROVE  nb2 <= a + tRP + tRCD /\ a <= last + tBURST
  <2>1. At(eventq, "nextReq", 0, a + 1) /\ a + 1 \in Nat
    BY <1>1, <1>6
  <2>2. nb <= a + 1 + tRP + tRCD /\ a + 1 <= last + tBURST
    BY <1>2, <2>1 DEF BusTime
  <2> QED
    BY <1>2, <1>3, <1>4, <2>2
<1>7. ~Scheduled(eventq', "nextReq", 0) => nb2 <= tRP + tRCD
  <2> HAVE ~Scheduled(eventq', "nextReq", 0)
  <2>1. nb <= tRP + tRCD
    BY <1>1, <1>2 DEF BusTime
  <2> QED
    BY <1>2, <1>3, <1>4, <2>1
<1>8. ASSUME NEW r \in Ranks, NEW b \in Banks
      PROVE  /\ rk'[r].banks[b].colAt = Passed(rk[r].banks[b].colAt, 0)
             /\ rk'[r].banks[b].colAt <= Later(0, nb2)
  <2> DEFINE x == rk[r].banks[b].colAt
  <2>1. rk'[r].banks[b].colAt = Passed(x, 0) /\ x \in Nat
    BY <1>1, <1>2, PassedRankOK, RankTypes
  <2>2. x <= Later(0, nb)
    BY <1>2 DEF BusTime
  <2> HIDE DEF x
  <2>3. Passed(x, 0) <= Later(0, nb2)
    BY <1>2, <1>4, <2>1, <2>2 DEF Passed, Later
  <2> QED
    BY <2>1, <2>3 DEF x
<1>9. \A r, r2 \in Ranks, b, b2 \in Banks :
         rk'[r].banks[b].colAt = rk'[r2].banks[b2].colAt
  BY <1>2, <1>8 DEF BusTime
<1>10. BusTime(eventq', rk', nb2, last)
  BY <1>5, <1>6, <1>7, <1>8, <1>9 DEF BusTime
<1> QED
  BY <1>10, TickRankTime DEF Times, nb2

----------------------------------------------------------------------------
(* The invariant holds                                                     *)

(* The last column command and the precharge after it fit in the interval. *)
Fits(last) == /\ LastCommand(last)
              /\ last + PrechargeLag + tRP + tRP + tRFC < tREFI

(* A refresh that is due starts in time. *)
LEMMA TimesInTime ==
    ASSUME Ctl, NEW last \in Nat, Times(last), Fits(last)
    PROVE  RefreshInTime
<1> SUFFICES ASSUME NEW r \in Ranks, Refreshing(rk[r]), rk[r].refreshState # "REF_RUN"
             PROVE  rk[r].refreshDueAt + tREFI - tRP > tRFC
  BY DEF RefreshInTime
<1> DEFINE due == rk[r].refreshDueAt
<1>1. RankTime(eventq, rk[r], r, last) /\ rk[r] \in RankState
  BY TimesParts
<1>2. rk[r].refreshState \in {"REF_DRAIN", "REF_PD_EXIT", "REF_PRE", "REF_START"}
  BY DEF Refreshing
<1>3. due >= -(last + PrechargeLag + tRP) /\ due \in Int
  BY <1>1, <1>2, RankTypes DEF RankTime
<1>4. /\ tRP \in Nat /\ tRFC \in Nat /\ tREFI \in Nat /\ PrechargeLag \in Nat
      /\ last + PrechargeLag + tRP + tRP + tRFC < tREFI
  BY Constants, LagFacts DEF Fits
<1> HIDE DEF due
<1>5. due + tREFI - tRP > tRFC
  BY <1>3, <1>4
<1> QED
  BY <1>5 DEF due

(* The first refresh of every rank is scheduled, and nothing else. *)
LEMMA InitQueue ==
    ASSUME Init
    PROVE  /\ QueueOK(eventq)
           /\ \A ev, r, t : At(eventq, ev, r, t) <=>
                 ev = "refresh" /\ r \in Ranks /\ t = tREFI - tRP
           /\ \A ev, r : Scheduled(eventq, ev, r) <=> ev = "refresh" /\ r \in Ranks
<1> DEFINE q == eventq
           T == tREFI - tRP
           e(i) == [ev |-> "refresh", rank |-> numRanks + 1 - i, at |-> T, now |-> FALSE]
<1>1. q = [i \in 1 .. numRanks |-> e(i)]
  BY DEF Init, Ranks
<1>2. numRanks \in Nat /\ T \in Nat
  BY Constants
<1> HIDE DEF T
<1>3. ASSUME NEW i \in 1 .. numRanks
      PROVE  /\ e(i) \in Event /\ e(i).ev = "refresh" /\ e(i).at = T
             /\ e(i).rank = numRanks + 1 - i
  <2> DEFINE n == numRanks + 1 - i
  <2>1. n \in 0 .. numRanks /\ "refresh" \in EventKinds /\ FALSE \in BOOLEAN
    BY <1>2 DEF EventKinds
  <2> HIDE DEF n
  <2>2. LET x == [ev |-> "refresh", rank |-> n, at |-> T, now |-> FALSE]
        IN  x \in Event /\ x.ev = "refresh" /\ x.at = T /\ x.rank = n
    BY <1>2, <2>1 DEF Event
  <2> QED
    BY <2>2 DEF n
<1> HIDE DEF e
<1>4. DOMAIN q = 1 .. numRanks /\ \A i \in DOMAIN q : q[i] = e(i)
  BY <1>1
<1>5. q \in Seq(Event)
  <2>1. q \in [1 .. numRanks -> Event]
    BY <1>1, <1>3
  <2> QED
    BY <1>2, <2>1
<1> HIDE DEF q
<1>6. \A i \in 1 .. numRanks :
         /\ q[i].ev = "refresh" /\ q[i].at = T /\ q[i].rank = numRanks + 1 - i
  BY <1>3, <1>4
<1>7. QueueOK(q)
  <2>1. Sorted(q)
    BY <1>2, <1>4, <1>6 DEF Sorted
  <2>2. Once(q)
    <3> SUFFICES ASSUME NEW i \in DOMAIN q, NEW j \in DOMAIN q, q[i].rank = q[j].rank
                 PROVE  i = j
      BY DEF Once
    <3> QED
      BY <1>2, <1>4, <1>6
  <2> QED
    BY <1>5, <2>1, <2>2 DEF QueueOK
<1>8. ASSUME NEW ev, NEW r, NEW t
      PROVE  At(q, ev, r, t) <=> ev = "refresh" /\ r \in Ranks /\ t = T
  <2>1. ASSUME At(q, ev, r, t) PROVE ev = "refresh" /\ r \in Ranks /\ t = T
    <3>1. PICK i \in 1 .. numRanks : IsEvent(q[i], ev, r) /\ q[i].at = t
      BY <1>4, <2>1 DEF At
    <3>2. ev = "refresh" /\ t = T /\ r = numRanks + 1 - i
      BY <1>6, <3>1 DEF IsEvent
    <3> QED
      BY <1>2, <3>2 DEF Ranks
  <2>2. ASSUME ev = "refresh", r \in Ranks, t = T PROVE At(q, ev, r, t)
    <3> DEFINE i == numRanks + 1 - r
    <3>1. i \in 1 .. numRanks /\ numRanks + 1 - i = r
      BY <1>2, <2>2 DEF Ranks
    <3> HIDE DEF i
    <3>2. IsEvent(q[i], ev, r) /\ q[i].at = t
      BY <1>6, <2>2, <3>1 DEF IsEvent
    <3> QED
      BY <1>4, <3>1, <3>2 DEF At
  <2> QED
    BY <2>1, <2>2
<1>9. \A ev, r : Scheduled(q, ev, r) <=> ev = "refresh" /\ r \in Ranks
  <2> TAKE ev, r
  <2>1. Scheduled(q, ev, r) <=> \E t \in Nat : At(q, ev, r, t)
    BY <1>7, WhenOK
  <2> QED
    BY <1>2, <1>8, <2>1
<1> QED
  BY <1>7, <1>8, <1>9 DEF q, T

(* A rank that has done nothing yet. *)
LEMMA InitRank ==
    ASSUME Init, NEW r \in Ranks
    PROVE  /\ rk[r] \in RankState /\ rk[r].refreshState = "REF_IDLE"
           /\ rk[r].refreshDueAt = tREFI
           /\ rk[r].pwrState = "IDLE" /\ rk[r].pwrStateTrans = "IDLE"
           /\ rk[r].outstandingEvents = 0
           /\ \A b \in Banks :
                 /\ ~rk[r].banks[b].open /\ rk[r].banks[b].preAt = 0
                 /\ rk[r].banks[b].actAt = 0 /\ rk[r].banks[b].colAt = 0
<1> DEFINE bank == [open |-> FALSE, preAt |-> 0, actAt |-> 0, colAt |-> 0]
           bs == [b \in Banks |-> bank]
           k == [refreshState |-> "REF_IDLE", refreshDueAt |-> tREFI,
                 pwrState |-> "IDLE", pwrStateTrans |-> "IDLE",
                 pwrStatePostRefresh |-> "IDLE",
                 inLowPowerState |-> FALSE, wakeUpAllowedAt |-> 0,
                 outstandingEvents |-> 0, banks |-> bs]
<1>1. rk[r] = k
  BY DEF Init
<1>2. /\ bank \in Bank /\ ~bank.open /\ bank.preAt = 0 /\ bank.actAt = 0
      /\ bank.colAt = 0
  BY DEF Bank
<1> HIDE DEF bank
<1>3. bs \in [Banks -> Bank] /\ \A b \in Banks : bs[b] = bank
  BY <1>2
<1> HIDE DEF bs
<1>4. tREFI \in Int
  BY Constants
<1>5. /\ k \in RankState /\ k.refreshState = "REF_IDLE" /\ k.refreshDueAt = tREFI
      /\ k.pwrState = "IDLE" /\ k.pwrStateTrans = "IDLE"
      /\ k.outstandingEvents = 0 /\ k.banks = bs
  BY <1>3, <1>4 DEF RankState, PowerStates
<1> HIDE DEF k
<1> QED
  BY <1>1, <1>2, <1>3, <1>5

(* The first refresh of every rank is scheduled, and nothing else is. *)
LEMMA InitCtl == Init => Ctl
<1> SUFFICES ASSUME Init PROVE Ctl
  OBVIOUS
<1>1. /\ QueueOK(eventq)
      /\ \A ev, r, t : At(eventq, ev, r, t) <=>
            ev = "refresh" /\ r \in Ranks /\ t = tREFI - tRP
      /\ \A ev, r : Scheduled(eventq, ev, r) <=> ev = "refresh" /\ r \in Ranks
  BY InitQueue
<1>2. respQueue = <<>> /\ respQueue \in Seq(Response) /\ DOMAIN respQueue = {}
  BY DEF Init
<1>3. \A r, t : ~Flies(respQueue, r, t)
  BY <1>2 DEF Flies
<1>4. \A r : Flying(respQueue, r) = 0
  BY <1>2, <1>3, FlyingNat
<1>5. ASSUME NEW r \in Ranks PROVE RankOK(eventq, rk[r], r, respQueue)
  <2>1. /\ rk[r] \in RankState /\ rk[r].refreshState = "REF_IDLE"
        /\ rk[r].pwrState = "IDLE" /\ rk[r].outstandingEvents = 0
    BY InitRank
  <2>2. AllCovered(eventq, rk[r], r, respQueue)
    BY <1>1, <1>3 DEF AllCovered
  <2>3. PowerOK(eventq, rk[r], r, respQueue)
    BY <1>1, <2>1 DEF PowerOK
  <2>4. PhaseOK(eventq, rk[r], r, respQueue)
    BY <1>1, <2>1 DEF PhaseOK
  <2>5. Counted(eventq, rk[r], r, respQueue)
    BY <1>1, <1>4, <2>1 DEF Counted, One
  <2> QED
    BY <1>1, <2>1, <2>2, <2>3, <2>4, <2>5 DEF RankOK
<1>6. rk \in [Ranks -> RankState]
  <2>1. \A r \in Ranks : rk[r] \in RankState
    BY InitRank
  <2>2. DOMAIN rk = Ranks /\ rk = [r \in DOMAIN rk |-> rk[r]]
    BY DEF Init
  <2> QED
    BY <2>1, <2>2
<1>7. Responses(eventq, respQueue, rk)
  <2>1. 0 \notin Ranks
    BY DEF Ranks
  <2> QED
    BY <1>1, <1>2, <2>1 DEF Responses
<1>8. CtrlOK
  <2>1. numRanks \in Nat \ {0} /\ tRP + tRCD \in Int /\ readBufferSize \in Nat
        /\ writeBufferSize \in Nat
    BY Constants
  <2>2. 1 \in Ranks /\ 0 \in 0 .. readBufferSize /\ 0 \in 0 .. writeBufferSize
    BY <2>1 DEF Ranks
  <2> QED
    BY <2>1, <2>2 DEF CtrlOK, Init
<1> QED
  BY <1>1, <1>5, <1>6, <1>7, <1>8 DEF Ctl

(* No rank has anything under way at the start. *)
LEMMA InitTimes ==
    ASSUME Init, NEW last \in Nat, LastCommand(last)
    PROVE  Times(last)
<1>1. /\ \A ev, r, t : At(eventq, ev, r, t) <=>
            ev = "refresh" /\ r \in Ranks /\ t = tREFI - tRP
      /\ \A ev, r : Scheduled(eventq, ev, r) <=> ev = "refresh" /\ r \in Ranks
  BY InitQueue
<1>2. /\ tRP \in Nat /\ tRCD \in Nat /\ tBURST \in Nat /\ Lag \in Nat
      /\ nextBurstAt = tRP + tRCD
  BY Constants, LagFacts DEF Init
<1>3. tRP + tRCD <= last
  <2> DEFINE cap == CappedBubble(0)
  <2>1. tRP + tRCD + cap + 0 <= last
    BY RankAssumption DEF LastCommand
  <2>2. cap \in Nat
    BY Constants DEF CappedBubble
  <2> HIDE DEF cap
  <2> QED
    BY <1>2, <2>1, <2>2
<1>4. ASSUME NEW r \in Ranks, NEW b \in Banks
      PROVE  /\ rk[r].banks[b].preAt = 0 /\ rk[r].banks[b].actAt = 0
             /\ rk[r].banks[b].colAt = 0 /\ rk[r].refreshState = "REF_IDLE"
  BY InitRank
<1>5. BusTime(eventq, rk, nextBurstAt, last)
  <2>1. nextBurstAt <= last + tBURST /\ 0 <= Later(0, nextBurstAt)
    BY <1>2, <1>3 DEF Later
  <2>2. nextBurstAt <= tRP + tRCD
    BY <1>2
  <2> QED
    BY <1>1, <1>4, <2>1, <2>2 DEF BusTime
<1>6. ASSUME NEW r \in Ranks PROVE RankTime(eventq, rk[r], r, last)
  <2>1. rk[r].refreshState = "REF_IDLE"
    BY InitRank
  <2>2. 0 <= 0 + Lag /\ 0 <= 0 + Lag + tRP
    BY <1>2
  <2> QED
    BY <1>1, <1>4, <2>1, <2>2 DEF RankTime
<1> QED
  BY <1>5, <1>6 DEF Times

(* A refresh event keeps the invariant, whatever stage it starts. *)
LEMMA RefreshKeeps ==
    ASSUME Ctl, NEW last \in Nat, Times(last), Fits(last), ~enableDRAMPowerdown,
           OrderedTimings, NEW r \in Ranks, processRefreshEvent(r)
    PROVE  Ctl' /\ Times(last)'
<1>1. RefreshInTime
  BY TimesInTime
<1>2. CASE rk[r].refreshState = "REF_START"
  <2>1. Fire("refresh", r) /\ UNCHANGED ctrl /\ Become(r, StartRefresh(Step(r), r))
    BY <1>2 DEF processRefreshEvent
  <2> QED
    BY <1>1, <1>2, <2>1, StartRefreshTimes
<1>3. CASE rk[r].refreshState = "REF_RUN"
  <2>1. Fire("refresh", r) /\ UNCHANGED ctrl /\ Become(r, EndRefresh(Step(r), r))
    BY <1>3 DEF processRefreshEvent
  <2> QED
    BY <1>3, <2>1, EndRefreshTimes
<1>4. CASE rk[r].refreshState \notin {"REF_START", "REF_RUN"}
  <2>1. /\ Fire("refresh", r) /\ UNCHANGED ctrl
        /\ Become(r, PrepareRefresh(BeginRefresh(Step(r)), r))
    BY <1>4 DEF processRefreshEvent
  <2> QED
    BY <1>4, <2>1, PrepareTimes
<1> QED
  BY <1>2, <1>3, <1>4

(* Every event of the queue keeps the inductive invariant. *)
LEMMA FireKeeps ==
    ASSUME Ctl, NEW last \in Nat, Times(last), Fits(last), ~enableDRAMPowerdown,
           OrderedTimings, FireEvent
    PROVE  Ctl' /\ Times(last)'
<1>1. LastCommand(last)
  BY DEF Fits
<1>2. ASSUME NEW r \in Ranks, processActivateEvent(r) PROVE Ctl' /\ Times(last)'
  BY <1>2, ActivateCtl, KeptTimes
<1>3. ASSUME NEW r \in Ranks, processPrechargeEvent(r) PROVE Ctl' /\ Times(last)'
  BY <1>3, PrechargeCtl, KeptTimes
<1>4. ASSUME NEW r \in Ranks, processWriteDoneEvent(r) PROVE Ctl' /\ Times(last)'
  BY <1>4, WriteDoneCtl, KeptTimes
<1>5. ASSUME NEW r \in Ranks, processRefreshEvent(r) PROVE Ctl' /\ Times(last)'
  BY <1>5, RefreshKeeps
<1>6. ASSUME NEW r \in Ranks, processPowerEvent(r) PROVE Ctl' /\ Times(last)'
  BY <1>6, PowerTimes
<1>7. ASSUME NEW r \in Ranks, processWakeUpEvent(r) PROVE FALSE
  <2>1. ~Scheduled(eventq, "wakeUp", r)
    BY DEF Ctl, RankOK
  <2>2. Fire("wakeUp", r) /\ r \in 0 .. numRanks
    BY <1>7, Constants DEF processWakeUpEvent, Ranks
  <2> QED
    BY <2>1, <2>2, FireFacts
<1>8. ASSUME NEW r \in Ranks, SomeBurst(r) PROVE Ctl' /\ Times(last)'
  <2>1. AutoPrecharge \subseteq BOOLEAN
    BY RankAssumption DEF AutoPrecharge
  <2>2. PICK b \in Banks, hit \in BOOLEAN, auto \in BOOLEAN, bubble \in Bubbles,
             slack \in Slack : IssueBurst(r, b, hit, auto, bubble, slack)
    BY <1>8, <2>1 DEF SomeBurst
  <2>3. Ctl' /\ \E cmd_at \in Nat : BurstEffect(r, b, bubble, slack, cmd_at)
    BY <2>2, BurstCtl
  <2>4. PICK cmd_at \in Nat : BurstEffect(r, b, bubble, slack, cmd_at)
    BY <2>3
  <2>5. Fire("nextReq", 0)
    BY <2>2 DEF IssueBurst
  <2> QED
    BY <1>1, <2>3, <2>4, <2>5, BurstTimes
<1>9. CASE processRespondEvent
  BY <1>9, RespondCtl, KeptTimes
<1>10. CASE StopLoop
  <2>1. Fire("nextReq", 0)
    BY <1>10 DEF StopLoop
  <2> QED
    BY <1>10, <2>1, StopLoopCtl, TurnTimes
<1>11. CASE SwitchToWrites
  <2>1. Fire("nextReq", 0)
    BY <1>11 DEF SwitchToWrites
  <2> QED
    BY <1>11, <2>1, SwitchCtl, TurnTimes
<1> QED
  BY <1>2, <1>3, <1>4, <1>5, <1>6, <1>7, <1>8, <1>9, <1>10, <1>11 DEF FireEvent

(* So do the requests, the drains and the passing of time. *)
LEMMA NextKeeps ==
    ASSUME Ctl, NEW last \in Nat, Times(last), Fits(last), ~enableDRAMPowerdown,
           OrderedTimings, [Next]_vars
    PROVE  Ctl' /\ Times(last)'
<1>1. CASE FireEvent
  BY <1>1, FireKeeps
<1>2. CASE Arrival
  <2>1. ASSUME NEW r \in Ranks, addToReadQueue(r) PROVE Ctl' /\ Times(last)'
    BY <2>1, ReadCtl, KeptTimes
  <2>2. ASSUME NEW r \in Ranks, addToWriteQueue(r) PROVE Ctl' /\ Times(last)'
    BY <2>2, WriteCtl, KeptTimes
  <2> QED
    BY <1>2, <2>1, <2>2 DEF Arrival
<1>3. CASE Advance
  BY <1>3, AdvanceCtl, AdvanceTimes
<1>4. CASE drain
  BY <1>4, DrainCtl, KeptTimes
<1>5. CASE drainResume
  BY <1>5, DrainResumeCtl, KeptTimes
<1>6. CASE UNCHANGED vars
  <2>1. /\ eventq' = eventq /\ rk' = rk /\ activeRank' = activeRank
        /\ nextBurstAt' = nextBurstAt /\ respQueue' = respQueue /\ reads' = reads
        /\ writes' = writes /\ busStateNext' = busStateNext /\ draining' = draining
    BY <1>6 DEF vars
  <2>2. Ctl'
    BY <2>1 DEF Ctl, CtrlOK
  <2>3. Times(last)'
    BY <2>1 DEF Times
  <2> QED
    BY <2>2, <2>3
<1> QED
  BY <1>1, <1>2, <1>3, <1>4, <1>5, <1>6 DEF Next, Running

(* The inductive invariant, on every run. *)
LEMMA Invariant ==
    ASSUME NEW last \in Nat, Fits(last), ~enableDRAMPowerdown, OrderedTimings
    PROVE  Spec => [](Ctl /\ Times(last))
<1>1. Init => Ctl /\ Times(last)
  BY InitCtl, InitTimes DEF Fits
<1>2. Ctl /\ Times(last) /\ [Next]_vars => (Ctl /\ Times(last))'
  BY NextKeeps
<1> QED
  BY <1>1, <1>2, PTL DEF Spec

(* Some command fits: the inductive invariant is one for all runs. *)
LEMMA SomeLast ==
    ASSUME BubblesFit
    PROVE  \E last \in Nat : Fits(last)
<1> QED
  BY Constants DEF BubblesFit, Fits

----------------------------------------------------------------------------
(* Safety                                                                  *)

(* A refresh that is due starts before it would end too late for the next, *)
(* whatever bursts, bubbles, precharges and other ranks it waits for: the  *)
(* fatal error of "Refresh was delayed so long we cannot catch up" and an  *)
(* event in the past cannot come.                                          *)
THEOREM RefreshesInTime ==
    ASSUME BubblesFit, ~enableDRAMPowerdown, OrderedTimings
    PROVE  Spec => []RefreshInTime
<1>1. PICK last \in Nat : Fits(last)
  BY SomeLast
<1>2. Spec => [](Ctl /\ Times(last))
  BY <1>1, Invariant
<1>3. Ctl /\ Times(last) => RefreshInTime
  BY <1>1, TimesInTime
<1> QED
  BY <1>2, <1>3, PTL

(* The control part of the invariant, which every other result is from. *)
LEMMA AlwaysCtl ==
    ASSUME BubblesFit, ~enableDRAMPowerdown, OrderedTimings
    PROVE  Spec => []Ctl
<1>1. PICK last \in Nat : Fits(last)
  BY SomeLast
<1>2. Spec => [](Ctl /\ Times(last))
  BY <1>1, Invariant
<1> QED
  BY <1>2, PTL

(* No event is scheduled while it is scheduled: the assert of the queue    *)
(* and the panic of schedulePowerEvent cannot come.                        *)
THEOREM NeverScheduledTwice ==
    ASSUME BubblesFit, ~enableDRAMPowerdown, OrderedTimings
    PROVE  Spec => []ScheduledOnce
<1>1. Ctl => ScheduledOnce
  BY DEF Ctl, QueueOK, Once, ScheduledOnce
<1> QED
  BY <1>1, AlwaysCtl, PTL

(* outstandingEvents counts exactly what is under way in the rank. *)
THEOREM CountsEvents ==
    ASSUME BubblesFit, ~enableDRAMPowerdown, OrderedTimings
    PROVE  Spec => []EventsCounted
<1>1. Ctl => EventsCounted
  <2> SUFFICES ASSUME Ctl, NEW r \in Ranks
               PROVE  rk[r].outstandingEvents =
                           Flying(respQueue, r)
                         + One(Scheduled(eventq, "precharge", r))
                         + One(Scheduled(eventq, "writeDone", r))
                         + One(Refreshing(rk[r]))
    BY Zenon DEF EventsCounted, Flying
  <2>1. RankOK(eventq, rk[r], r, respQueue)
    BY DEF Ctl
  <2>2. Refreshing(rk[r]) <=> rk[r].refreshState # "REF_IDLE"
    BY <2>1 DEF RankOK, RankState, PowerStates, Refreshing
  <2> QED
    BY <2>1, <2>2 DEF RankOK, Counted, One
<1> QED
  BY <1>1, AlwaysCtl, PTL

(* A refresh that waits for its banks will be started again. *)
THEOREM RefreshAlwaysRestarted ==
    ASSUME BubblesFit, ~enableDRAMPowerdown, OrderedTimings
    PROVE  Spec => []RefreshRestarted
<1>1. Ctl => RefreshRestarted
  BY DEF Ctl, RankOK, PhaseOK, RefreshRestarted
<1> QED
  BY <1>1, AlwaysCtl, PTL

(* The counters and states have their types, and no count is below zero. *)
LEMMA CtlTypes ==
    ASSUME Ctl
    PROVE  TypeOK
<1>1. \A i \in DOMAIN eventq :
          /\ eventq[i].rank \in 0 .. numRanks /\ eventq[i].at \in Nat
          /\ eventq[i].ev \in EventKinds
  BY QueueTypes DEF Ctl
<1>2. ASSUME NEW r \in Ranks
      PROVE  /\ rk[r].refreshState \in {"REF_IDLE", "REF_DRAIN", "REF_PD_EXIT",
                "REF_SREF_EXIT", "REF_PRE", "REF_START", "REF_RUN"}
             /\ {rk[r].pwrState, rk[r].pwrStateTrans, rk[r].pwrStatePostRefresh}
                   \subseteq {"IDLE", "REF", "SREF", "PRE_PDN", "ACT", "ACT_PDN"}
             /\ rk[r].outstandingEvents \in Nat
  <2>1. RankOK(eventq, rk[r], r, respQueue) /\ rk[r] \in RankState
    BY DEF Ctl, RankOK
  <2>2. rk[r].outstandingEvents \in Nat
    <3>1. Flying(respQueue, r) \in Nat
      BY FlyingNat DEF Ctl, Responses
    <3>2. /\ One(Scheduled(eventq, "precharge", r)) \in Nat
          /\ One(Scheduled(eventq, "writeDone", r)) \in Nat
          /\ One(rk[r].refreshState # "REF_IDLE") \in Nat
      BY DEF One
    <3> QED
      BY <2>1, <3>1, <3>2 DEF RankOK, Counted
  <2>3. rk[r].refreshState \in {"REF_IDLE", "REF_DRAIN", "REF_PD_EXIT", "REF_PRE",
                                "REF_START", "REF_RUN"}
    BY <2>1 DEF RankState
  <2>4. /\ rk[r].pwrState \in PowerStates /\ rk[r].pwrStateTrans \in PowerStates
        /\ rk[r].pwrStatePostRefresh = "IDLE"
    BY <2>1, RankTypes
  <2> QED
    BY <2>2, <2>3, <2>4 DEF PowerStates
<1>3. CtrlOK
  BY DEF Ctl
<1> QED
  BY <1>1, <1>2, <1>3 DEF TypeOK, CtrlOK, EventKinds

(* The asserts on the event of a rank that is about to fire. *)
LEMMA FireAsserts ==
    ASSUME Ctl, NEW r \in Ranks
    PROVE  /\ Fire("refresh", r) /\ rk[r].refreshState \in {"REF_START", "REF_RUN"} =>
                 Closed(rk[r]) /\ rk[r].pwrState = "REF"
           /\ rk[r].refreshState = "REF_RUN" => rk[r].outstandingEvents = 1
           /\ rk[r].refreshState = "REF_PRE" => Closed(rk[r])
           /\ Fire("power", r) /\ rk[r].pwrState = "REF" =>
                 rk[r].refreshState = "REF_RUN" /\ rk[r].pwrStateTrans = "IDLE"
           /\ Fire("power", r) /\ rk[r].pwrStateTrans = "REF" =>
                 rk[r].refreshState = "REF_PRE"
           /\ Fire("power", r) => rk[r].refreshState # "REF_PD_EXIT"
           /\ ~Fire("wakeUp", r) /\ ~rk[r].inLowPowerState
<1> DEFINE k == rk[r]
<1>1. /\ RankOK(eventq, k, r, respQueue) /\ k \in RankState
      /\ PowerOK(eventq, k, r, respQueue) /\ PhaseOK(eventq, k, r, respQueue)
      /\ Counted(eventq, k, r, respQueue) /\ ~Scheduled(eventq, "wakeUp", r)
      /\ respQueue \in Seq(Response) /\ r \in 0 .. numRanks
  BY Constants DEF Ctl, RankOK, Responses, Ranks
<1>2. Fire("power", r) => /\ Scheduled(eventq, "power", r)
                          /\ k.refreshState \notin {"REF_START", "REF_PD_EXIT"}
  BY <1>1, FireFacts
<1>3. ~Fire("wakeUp", r)
  BY <1>1, FireFacts
<1>4. k.pwrStateTrans \in PowerStates /\ ~k.inLowPowerState
  BY <1>1, RankTypes
<1> HIDE DEF k
<1>5. k.refreshState = "REF_RUN" => k.outstandingEvents = 1
  <2> HAVE k.refreshState = "REF_RUN"
  <2>1. Quiet(eventq, k, r, respQueue)
    BY <1>1 DEF PhaseOK
  <2>2. Flying(respQueue, r) = 0
    BY <1>1, <2>1, FlyingNat DEF Quiet
  <2>3. ~Scheduled(eventq, "precharge", r) /\ ~Scheduled(eventq, "writeDone", r)
    BY <2>1 DEF Quiet
  <2> QED
    BY <1>1, <2>2, <2>3 DEF Counted, One
<1>6. k.refreshState \in {"REF_START", "REF_RUN"} => Closed(k) /\ k.pwrState = "REF"
  BY <1>1 DEF PhaseOK, PowerOK, Quiet
<1>7. k.refreshState = "REF_PRE" => Closed(k)
  BY <1>1 DEF PhaseOK
<1>8. Fire("power", r) /\ k.pwrState = "REF" =>
         k.refreshState = "REF_RUN" /\ k.pwrStateTrans = "IDLE"
  BY <1>1, <1>2, <1>4 DEF PowerOK, PowerStates
<1>9. Fire("power", r) /\ k.pwrStateTrans = "REF" => k.refreshState = "REF_PRE"
  BY <1>1, <1>2 DEF PowerOK
<1> QED
  BY <1>2, <1>3, <1>4, <1>5, <1>6, <1>7, <1>8, <1>9 DEF k

(* The asserts on the responses. *)
LEMMA ResponseAsserts ==
    ASSUME Ctl
    PROVE  /\ Fire("respond", 0) =>
                 rk[Head(respQueue).rank].pwrState \in PowerStates
           /\ respQueue # <<>> <=> Scheduled(eventq, "respond", 0)
           /\ \A i \in 1 .. Len(respQueue) - 1 : respQueue[i].at <= respQueue[i + 1].at
<1>1. /\ Responses(eventq, respQueue, rk) /\ respQueue \in Seq(Response)
      /\ rk \in [Ranks -> RankState] /\ 0 \in 0 .. numRanks
  BY Constants DEF Ctl, Responses
<1>2. DOMAIN respQueue = 1 .. Len(respQueue) /\ Len(respQueue) \in Nat
      /\ \A i \in DOMAIN respQueue : respQueue[i].rank \in Ranks
  BY <1>1, ResponseTypes
<1>3. respQueue # <<>> <=> Scheduled(eventq, "respond", 0)
  BY <1>1 DEF Responses
<1>4. Fire("respond", 0) => rk[Head(respQueue).rank].pwrState \in PowerStates
  <2> HAVE Fire("respond", 0)
  <2>1. respQueue # <<>>
    BY <1>1, <1>3, FireFacts
  <2>2. Head(respQueue) = respQueue[1] /\ 1 \in DOMAIN respQueue
    BY <1>1, <2>1
  <2>3. rk[Head(respQueue).rank] \in RankState
    BY <1>1, <1>2, <2>2
  <2> QED
    BY <2>3, RankTypes
<1>5. \A i \in 1 .. Len(respQueue) - 1 : respQueue[i].at <= respQueue[i + 1].at
  <2> TAKE i \in 1 .. Len(respQueue) - 1
  <2>1. i \in DOMAIN respQueue /\ i + 1 \in DOMAIN respQueue /\ i < i + 1
    BY <1>2
  <2> QED
    BY <1>1, <2>1 DEF Responses
<1> QED
  BY <1>3, <1>4, <1>5

(* None of the asserts of the handlers fails. *)
THEOREM AssertsNeverFail ==
    ASSUME BubblesFit, ~enableDRAMPowerdown, OrderedTimings
    PROVE  Spec => []AssertsHold
<1>1. ASSUME Ctl PROVE AssertsHold
  <2>1. TypeOK
    BY <1>1, CtlTypes
  <2>2. /\ Fire("respond", 0) =>
              rk[Head(respQueue).rank].pwrState \notin {"SREF", "PRE_PDN", "ACT_PDN"}
        /\ respQueue # <<>> <=> Scheduled(eventq, "respond", 0)
        /\ \A i \in 1 .. Len(respQueue) - 1 : respQueue[i].at <= respQueue[i + 1].at
    BY <1>1, ResponseAsserts DEF PowerStates
  <2>3. ASSUME NEW r \in Ranks
        PROVE  /\ Fire("refresh", r) /\ rk[r].refreshState \in {"REF_START", "REF_RUN"} =>
                     numBanksActive(rk[r]) = 0 /\ rk[r].pwrState = "REF"
               /\ rk[r].refreshState = "REF_RUN" => rk[r].outstandingEvents = 1
               /\ rk[r].refreshState = "REF_PRE" => numBanksActive(rk[r]) = 0
               /\ Fire("power", r) /\ rk[r].pwrState = "REF" =>
                     rk[r].refreshState = "REF_RUN" /\ rk[r].pwrStateTrans = "IDLE"
               /\ Fire("power", r) /\ rk[r].pwrStateTrans = "REF" =>
                     rk[r].refreshState = "REF_PRE"
               /\ Fire("power", r) => rk[r].refreshState # "REF_PD_EXIT"
               /\ ~Fire("wakeUp", r) /\ ~rk[r].inLowPowerState
    BY <1>1, FireAsserts, ClosedCount
  <2> QED
    BY <2>1, <2>2, <2>3 DEF AssertsHold, inRefIdleState
<1> QED
  BY <1>1, AlwaysCtl, PTL

----------------------------------------------------------------------------
(* Refinement of RefreshCycle                                              *)

(* The view of a rank, by its refresh state. *)
ViewOf(k) == CASE k.refreshState = "REF_IDLE"  -> "idle"
               [] k.refreshState = "REF_DRAIN" -> "drain"
               [] OTHER -> "busy"

(* The abstract state before and after a step. *)
LEMMA AbstractState ==
    /\ view = [r \in Ranks |-> ViewOf(rk[r])]
    /\ view' = [r \in Ranks |-> ViewOf(rk'[r])]
    /\ flying = [r \in Ranks |-> Flying(respQueue, r)]
    /\ flying' = [r \in Ranks |-> Flying(respQueue', r)]
    /\ loop = nextReqScheduled(eventq) /\ loop' = nextReqScheduled(eventq')
<1>1. /\ view = [r \in Ranks |-> ViewOf(rk[r])]
      /\ view' = [r \in Ranks |-> ViewOf(rk'[r])]
  BY Zenon DEF view, ViewOf
<1>2. /\ flying = [r \in Ranks |-> Flying(respQueue, r)]
      /\ flying' = [r \in Ranks |-> Flying(respQueue', r)]
  BY Zenon DEF flying, Flying
<1>3. loop = nextReqScheduled(eventq) /\ loop' = nextReqScheduled(eventq')
  BY Zenon DEF loop
<1> QED
  BY <1>1, <1>2, <1>3

(* The abstract steps. *)
LEMMA CycleStutter ==
    ASSUME view' = view, loop' = loop, flying' = flying
    PROVE  UNCHANGED Cycle!vars
<1> QED
  BY DEF Cycle!vars

(* A step of the cycle that starts the loop. *)
LEMMA CycleKick ==
    ASSUME view' = view, loop' = TRUE, flying' = flying
    PROVE  Cycle!Next
<1>1. Cycle!Kick
  BY DEF Cycle!Kick
<1> QED
  BY <1>1 DEF Cycle!Next

(* A refresh that is due waits for the loop, which runs, or is under way. *)
LEMMA CycleDue ==
    ASSUME NEW r \in Ranks, view[r] = "idle", NEW v \in {"busy", "drain"},
           v = "drain" => loop, view' = [view EXCEPT ![r] = v],
           loop' = loop, flying' = flying
    PROVE  Cycle!Next
<1>1. Cycle!Due(r)
  BY DEF Cycle!Due
<1> QED
  BY <1>1 DEF Cycle!Next

(* A refresh ends with no read in flight and starts the loop. *)
LEMMA CycleDone ==
    ASSUME NEW r \in Ranks, view[r] = "busy", flying[r] = 0,
           view' = [view EXCEPT ![r] = "idle"], loop' = TRUE, flying' = flying
    PROVE  Cycle!Next
<1>1. Cycle!Done(r)
  BY DEF Cycle!Done
<1> QED
  BY <1>1 DEF Cycle!Next

(* A read is answered. *)
LEMMA CycleAnswer ==
    ASSUME NEW r \in Ranks, flying[r] > 0, view' = view, loop' = loop,
           flying' = [flying EXCEPT ![r] = flying[r] - 1]
    PROVE  Cycle!Next
<1>1. Cycle!Answer(r)
  BY DEF Cycle!Answer
<1> QED
  BY <1>1 DEF Cycle!Next

(* A turn of the loop goes on with the refreshes that waited for it, and   *)
(* may send a read of an idle rank.                                        *)
LEMMA CycleTurn ==
    ASSUME loop, loop' \in BOOLEAN,
           view' = [r \in Ranks |-> IF view[r] = "drain" THEN "busy" ELSE view[r]],
           \/ flying' = flying
           \/ \E r \in Ranks : /\ view[r] = "idle"
                               /\ flying' = [flying EXCEPT ![r] = flying[r] + 1]
    PROVE  Cycle!Next
<1>1. Cycle!Turn
  BY DEF Cycle!Turn
<1> QED
  BY <1>1 DEF Cycle!Next

(* The parts of the abstract state that a step can leave alone. *)
LEMMA SameView ==
    ASSUME \A r \in Ranks : ViewOf(rk'[r]) = ViewOf(rk[r])
    PROVE  view' = view
<1> QED
  BY AbstractState

(* The same reads in flight, in the cycle's terms. *)
LEMMA SameFlying ==
    ASSUME \A r \in Ranks : Flying(respQueue', r) = Flying(respQueue, r)
    PROVE  flying' = flying
<1> QED
  BY AbstractState

(* The loop runs as before, in the cycle's terms. *)
LEMMA SameLoop ==
    ASSUME nextReqScheduled(eventq') <=> nextReqScheduled(eventq)
    PROVE  loop' = loop
<1> QED
  BY AbstractState DEF nextReqScheduled, Scheduled

(* A view that one rank changes. *)
LEMMA OneView ==
    ASSUME NEW r \in Ranks, \A r2 \in Ranks : r2 # r => ViewOf(rk'[r2]) = ViewOf(rk[r2])
    PROVE  view' = [view EXCEPT ![r] = ViewOf(rk'[r])] /\ view[r] = ViewOf(rk[r])
<1> QED
  BY AbstractState

(* A step that keeps the ranks and the reads kicks the loop, at most. *)
LEMMA KeptCycle ==
    ASSUME Kept, \A r \in Ranks : Flying(respQueue', r) = Flying(respQueue, r)
    PROVE  [Cycle!Next]_Cycle!vars
<1>1. view' = view
  <2>1. \A r \in Ranks : ViewOf(rk'[r]) = ViewOf(rk[r])
    BY DEF Kept, KeptRank, ViewOf
  <2> QED
    BY <2>1, SameView
<1>2. flying' = flying
  BY SameFlying
<1>3. CASE nextReqScheduled(eventq') <=> nextReqScheduled(eventq)
  BY <1>1, <1>2, <1>3, SameLoop, CycleStutter
<1>4. CASE ~(nextReqScheduled(eventq') <=> nextReqScheduled(eventq))
  <2>1. nextReqScheduled(eventq')
    BY <1>4 DEF Kept
  <2>2. loop' = TRUE
    BY <2>1, AbstractState DEF nextReqScheduled, Scheduled
  <2> QED
    BY <1>1, <1>2, <2>2, CycleKick
<1> QED
  BY <1>3, <1>4

(* The response to a read. *)
LEMMA RespondCycle ==
    ASSUME Ctl, ~enableDRAMPowerdown, processRespondEvent
    PROVE  [Cycle!Next]_Cycle!vars
<1> DEFINE r == Head(respQueue).rank
<1>1. Ctl' /\ Kept /\ (nextReqScheduled(eventq') <=> nextReqScheduled(eventq))
  BY RespondCtl
<1>2. /\ Fire("respond", 0) /\ respQueue' = Tail(respQueue)
      /\ respQueue \in Seq(Response) /\ Responses(eventq, respQueue, rk)
  BY DEF processRespondEvent, Ctl, Responses
<1>3. respQueue # <<>>
  <2>1. 0 \in 0 .. numRanks
    BY Constants
  <2> QED
    BY <1>2, <2>1, FireFacts DEF Responses
<1>4. r = respQueue[1].rank /\ r \in Ranks
  <2>1. 1 \in DOMAIN respQueue
    BY <1>2, <1>3
  <2> QED
    BY <1>2, <2>1, <1>3, ResponseTypes
<1>5. \A r2 : /\ Flying(respQueue, r2) = Flying(respQueue', r2) + One(r = r2)
              /\ Flying(respQueue', r2) \in Nat
  <2> DEFINE rest == Tail(respQueue)
  <2>1. rest \in Seq(Response)
    BY <1>2, <1>3, FlyingTail
  <2>2. \A r2 : Flying(respQueue, r2) = Flying(rest, r2) + One(respQueue[1].rank = r2)
    BY <1>2, <1>3, FlyingTail
  <2> HIDE DEF rest
  <2>3. \A r2 : Flying(rest, r2) \in Nat
    BY <2>1, FlyingNat
  <2>4. respQueue' = rest
    BY <1>2 DEF rest
  <2> HIDE DEF r
  <2> QED
    BY <1>4, <2>2, <2>3, <2>4
<1> HIDE DEF r
<1>6. view' = view
  <2>1. \A r2 \in Ranks : ViewOf(rk'[r2]) = ViewOf(rk[r2])
    BY <1>1 DEF Kept, KeptRank, ViewOf
  <2> QED
    BY <2>1, SameView
<1>7. loop' = loop
  BY <1>1, SameLoop
<1>8. flying[r] > 0 /\ flying' = [flying EXCEPT ![r] = flying[r] - 1]
  <2>1. \A r2 \in Ranks : flying[r2] = Flying(respQueue, r2)
    BY AbstractState
  <2>2. Flying(respQueue, r) = Flying(respQueue', r) + 1
    BY <1>5 DEF One
  <2>3. \A r2 \in Ranks : r2 # r => Flying(respQueue, r2) = Flying(respQueue', r2)
    BY <1>5 DEF One
  <2>4. flying[r] > 0 /\ Flying(respQueue', r) = flying[r] - 1
    BY <1>4, <1>5, <2>1, <2>2
  <2>5. flying' = [r2 \in Ranks |-> IF r2 = r THEN flying[r] - 1 ELSE flying[r2]]
    BY <2>1, <2>3, <2>4, AbstractState
  <2>6. flying = [r2 \in Ranks |-> flying[r2]]
    BY AbstractState
  <2> QED
    BY <1>4, <2>4, <2>5, <2>6
<1> QED
  BY <1>4, <1>6, <1>7, <1>8, CycleAnswer

(* A stage of a refresh: a refresh that is due turns to drain only when a  *)
(* turn is pending.                                                        *)
LEMMA RefreshCycleStep ==
    ASSUME Ctl, RefreshInTime, ~enableDRAMPowerdown, OrderedTimings,
           NEW r \in Ranks, processRefreshEvent(r)
    PROVE  [Cycle!Next]_Cycle!vars
<1>1. Fire("refresh", r) /\ UNCHANGED ctrl
  BY DEF processRefreshEvent
<1>2. flying' = flying
  BY <1>1, SameFlying DEF ctrl
<1>3. QueueOK(eventq)
  BY DEF Ctl
<1>4. CASE rk[r].refreshState \notin {"REF_START", "REF_RUN"}
  <2>1. Become(r, PrepareRefresh(BeginRefresh(Step(r)), r))
    BY <1>4 DEF processRefreshEvent
  <2>2. Ctl' /\ KeptOthers(r) /\ Preparing(eventq, rk[r], eventq', rk'[r], r)
    BY <1>1, <1>4, <2>1, PrepareRefreshOK
  <2>3. /\ view' = [view EXCEPT ![r] = ViewOf(rk'[r])] /\ view[r] = ViewOf(rk[r])
    <3>1. \A r2 \in Ranks : r2 # r => ViewOf(rk'[r2]) = ViewOf(rk[r2])
      BY <2>2 DEF KeptOthers, KeptRank, ViewOf
    <3> QED
      BY <3>1, OneView
  <2>4. loop' = loop
    <3>1. \A a : At(eventq', "nextReq", 0, a) <=> At(eventq, "nextReq", 0, a)
      BY <2>2 DEF Preparing
    <3>2. QueueOK(eventq')
      BY <2>2 DEF Ctl
    <3>3. nextReqScheduled(eventq') <=> nextReqScheduled(eventq)
      BY <1>3, <3>1, <3>2, WhenOK DEF nextReqScheduled
    <3> QED
      BY <3>3, SameLoop
  <2>5. CASE rk[r].refreshState = "REF_IDLE"
    <3>1. view[r] = "idle"
      BY <2>3, <2>5 DEF ViewOf
    <3>2. ViewOf(rk'[r]) \in {"busy", "drain"}
      BY <2>2 DEF Preparing, ViewOf
    <3>3. ViewOf(rk'[r]) = "drain" => loop
      BY <2>2, AbstractState DEF Preparing, ViewOf
    <3> QED
      BY <1>2, <2>3, <2>4, <3>1, <3>2, <3>3, CycleDue
  <2>6. CASE rk[r].refreshState = "REF_PD_EXIT"
    <3>1. ViewOf(rk[r]) = "busy" /\ ViewOf(rk'[r]) = "busy"
      BY <2>2, <2>6 DEF Preparing, ViewOf
    <3>2. \A r2 \in Ranks : ViewOf(rk'[r2]) = ViewOf(rk[r2])
      BY <2>2, <3>1 DEF KeptOthers, KeptRank, ViewOf
    <3> QED
      BY <1>2, <2>4, <3>2, SameView, CycleStutter
  <2> QED
    BY <2>2, <2>5, <2>6 DEF Preparing
<1>5. ASSUME Ctl', KeptOthers(r), rk[r].refreshState \in {"REF_START", "REF_RUN"},
             rk'[r].refreshState = "REF_RUN",
             \A a : At(eventq', "nextReq", 0, a) <=> At(eventq, "nextReq", 0, a)
      PROVE  [Cycle!Next]_Cycle!vars
  <2>1. \A r2 \in Ranks : ViewOf(rk'[r2]) = ViewOf(rk[r2])
    BY <1>5 DEF KeptOthers, KeptRank, ViewOf
  <2>2. QueueOK(eventq')
    BY <1>5 DEF Ctl
  <2>3. nextReqScheduled(eventq') <=> nextReqScheduled(eventq)
    BY <1>3, <1>5, <2>2, WhenOK DEF nextReqScheduled
  <2> QED
    BY <1>2, <2>1, <2>3, SameView, SameLoop, CycleStutter
<1>6. CASE rk[r].refreshState = "REF_START"
  <2>1. Become(r, StartRefresh(Step(r), r))
    BY <1>6 DEF processRefreshEvent
  <2>2. /\ Ctl' /\ KeptOthers(r) /\ rk'[r].refreshState = "REF_RUN"
        /\ \A e2, r2, t : At(eventq', e2, r2, t) <=>
              \/ At(eventq, e2, r2, t) /\ ~(e2 = "refresh" /\ r2 = r)
              \/ e2 = "refresh" /\ r2 = r /\ t = tRFC
    BY <1>1, <1>6, <2>1, StartRefreshOK
  <2>3. \A a : At(eventq', "nextReq", 0, a) <=> At(eventq, "nextReq", 0, a)
    BY <2>2
  <2> QED
    BY <1>5, <1>6, <2>2, <2>3
<1>7. CASE rk[r].refreshState = "REF_RUN"
  <2>1. Become(r, EndRefresh(Step(r), r))
    BY <1>7 DEF processRefreshEvent
  <2>2. /\ Ctl' /\ KeptOthers(r) /\ rk'[r].refreshState = "REF_RUN"
        /\ \A e2, r2, t : e2 \notin {"refresh", "power"} =>
              (At(eventq', e2, r2, t) <=> At(eventq, e2, r2, t))
    BY <1>1, <1>7, <2>1, EndRefreshOK
  <2>3. \A a : At(eventq', "nextReq", 0, a) <=> At(eventq, "nextReq", 0, a)
    BY <2>2
  <2> QED
    BY <1>5, <1>7, <2>2, <2>3
<1> QED
  BY <1>4, <1>6, <1>7

(* A power event: the refresh is over when the rank leaves the state REF,  *)
(* with nothing under way in it, and it starts the loop.                   *)
LEMMA PowerCycle ==
    ASSUME Ctl, NEW r \in Ranks, processPowerEvent(r)
    PROVE  [Cycle!Next]_Cycle!vars
<1>1. Ctl' /\ KeptOthers(r) /\ Powered(eventq, rk[r], eventq', rk'[r], r)
  BY PowerCtl
<1>2. Fire("power", r) /\ UNCHANGED ctrl /\ QueueOK(eventq) /\ QueueOK(eventq')
  BY <1>1 DEF processPowerEvent, Ctl
<1>3. flying' = flying
  BY <1>2, SameFlying DEF ctrl
<1>4. /\ view' = [view EXCEPT ![r] = ViewOf(rk'[r])] /\ view[r] = ViewOf(rk[r])
  <2>1. \A r2 \in Ranks : r2 # r => ViewOf(rk'[r2]) = ViewOf(rk[r2])
    BY <1>1 DEF KeptOthers, KeptRank, ViewOf
  <2> QED
    BY <2>1, OneView
<1>5. CASE rk[r].refreshState # "REF_RUN"
  <2>1. ViewOf(rk'[r]) = ViewOf(rk[r])
    BY <1>1, <1>5 DEF Powered, ViewOf
  <2>2. \A r2 \in Ranks : ViewOf(rk'[r2]) = ViewOf(rk[r2])
    BY <1>1, <2>1 DEF KeptOthers, KeptRank, ViewOf
  <2>3. \A a : At(eventq', "nextReq", 0, a) <=> At(eventq, "nextReq", 0, a)
    BY <1>1, <1>5 DEF Powered
  <2>4. nextReqScheduled(eventq') <=> nextReqScheduled(eventq)
    BY <1>2, <2>3, WhenOK DEF nextReqScheduled
  <2> QED
    BY <1>3, <2>2, <2>4, SameView, SameLoop, CycleStutter
<1>6. CASE rk[r].refreshState = "REF_RUN"
  <2>1. rk'[r].refreshState = "REF_IDLE" /\ nextReqScheduled(eventq')
    BY <1>1, <1>6 DEF Powered
  <2>2. ViewOf(rk[r]) = "busy" /\ ViewOf(rk'[r]) = "idle"
    BY <1>6, <2>1 DEF ViewOf
  <2>3. loop' = TRUE
    BY <2>1, AbstractState DEF nextReqScheduled, Scheduled
  <2>4. flying[r] = 0
    <3>1. Quiet(eventq, rk[r], r, respQueue) /\ respQueue \in Seq(Response)
      BY <1>6 DEF Ctl, RankOK, PhaseOK, Responses
    <3>2. Flying(respQueue, r) = 0
      BY <3>1, FlyingNat DEF Quiet
    <3> QED
      BY <3>2, AbstractState
  <2> QED
    BY <1>3, <1>4, <2>2, <2>3, <2>4, CycleDone
<1> QED
  BY <1>5, <1>6

(* A turn lets the ranks that wait for it go on. *)
LEMMA TurnViews ==
    ASSUME \A r \in Ranks :
              rk'[r].refreshState = IF rk[r].refreshState = "REF_DRAIN"
                                    THEN "REF_PD_EXIT" ELSE rk[r].refreshState
    PROVE  view' = [r \in Ranks |-> IF view[r] = "drain" THEN "busy" ELSE view[r]]
<1>1. ASSUME NEW r \in Ranks
      PROVE  ViewOf(rk'[r]) = IF view[r] = "drain" THEN "busy" ELSE view[r]
  <2>1. view[r] = ViewOf(rk[r])
    BY AbstractState
  <2> QED
    BY <2>1 DEF ViewOf
<1> QED
  BY <1>1, AbstractState

(* The loop runs in its own turn. *)
LEMMA TurnLoop ==
    ASSUME Ctl, Fire("nextReq", 0)
    PROVE  loop /\ loop' \in BOOLEAN
<1>1. 0 \in 0 .. numRanks
  BY Constants
<1>2. nextReqScheduled(eventq)
  BY <1>1, FireFacts DEF nextReqScheduled
<1>3. loop' \in BOOLEAN
  BY AbstractState DEF nextReqScheduled, Scheduled
<1> QED
  BY <1>2, <1>3, AbstractState

(* A turn without a burst. *)
LEMMA StopCycle ==
    ASSUME Ctl, StopLoop \/ SwitchToWrites
    PROVE  [Cycle!Next]_Cycle!vars
<1>1. Fire("nextReq", 0) /\ respQueue' = respQueue
  BY DEF StopLoop, SwitchToWrites, ctrl
<1>2. \A r \in Ranks : TurnRank(eventq, rk[r], eventq', rk'[r], r)
  BY StopLoopCtl, SwitchCtl
<1>3. flying' = flying
  BY <1>1, SameFlying
<1>4. view' = [r \in Ranks |-> IF view[r] = "drain" THEN "busy" ELSE view[r]]
  BY <1>2, TurnViews DEF TurnRank
<1> QED
  BY <1>1, <1>3, <1>4, TurnLoop, CycleTurn

(* A turn with a burst: it is for a rank that is not refreshing. *)
LEMMA BurstCycle ==
    ASSUME Ctl, OrderedTimings, NEW r \in Ranks, SomeBurst(r)
    PROVE  [Cycle!Next]_Cycle!vars
<1>1. AutoPrecharge \subseteq BOOLEAN
  BY RankAssumption DEF AutoPrecharge
<1>2. PICK b \in Banks, hit \in BOOLEAN, auto \in BOOLEAN, bubble \in Bubbles,
           slack \in Slack : IssueBurst(r, b, hit, auto, bubble, slack)
  BY <1>1 DEF SomeBurst
<1>3. /\ \E cmd_at \in Nat : BurstEffect(r, b, bubble, slack, cmd_at)
      /\ \E read \in BOOLEAN :
            \A r2 : Flying(respQueue', r2) = Flying(respQueue, r2) + One(read /\ r = r2)
  BY <1>2, BurstCtl
<1>4. PICK cmd_at \in Nat : BurstEffect(r, b, bubble, slack, cmd_at)
  BY <1>3
<1>5. PICK read \in BOOLEAN :
         \A r2 : Flying(respQueue', r2) = Flying(respQueue, r2) + One(read /\ r = r2)
  BY <1>3
<1>6. Fire("nextReq", 0)
  BY <1>2 DEF IssueBurst
<1>7. view' = [r2 \in Ranks |-> IF view[r2] = "drain" THEN "busy" ELSE view[r2]]
  <2>1. ASSUME NEW r2 \in Ranks
        PROVE  rk'[r2].refreshState = IF rk[r2].refreshState = "REF_DRAIN"
                                      THEN "REF_PD_EXIT" ELSE rk[r2].refreshState
    BY <1>4 DEF BurstEffect, SameTurn
  <2> QED
    BY <2>1, TurnViews
<1>8. view[r] = "idle"
  <2>1. ViewOf(rk[r]) = "idle"
    BY <1>4 DEF BurstEffect, ViewOf
  <2> QED
    BY <2>1, AbstractState
<1>9. \A r2 \in Ranks : flying[r2] = Flying(respQueue, r2) /\ flying[r2] \in Nat
  <2>1. respQueue \in Seq(Response)
    BY DEF Ctl, Responses
  <2>2. \A r2 : Flying(respQueue, r2) \in Nat
    BY <2>1, FlyingNat
  <2> QED
    BY <2>2, AbstractState
<1>10. flying = [r2 \in Ranks |-> flying[r2]]
  BY AbstractState
<1>11. CASE ~read
  <2>1. \A r2 \in Ranks : Flying(respQueue', r2) = Flying(respQueue, r2)
    <3> TAKE r2 \in Ranks
    <3>1. Flying(respQueue', r2) = Flying(respQueue, r2) + 0
      BY <1>5, <1>11 DEF One
    <3> QED
      BY <1>9, <3>1
  <2>2. flying' = flying
    BY <2>1, SameFlying
  <2> QED
    BY <1>6, <1>7, <2>2, TurnLoop, CycleTurn
<1>12. CASE read
  <2>1. Flying(respQueue', r) = flying[r] + 1
    BY <1>5, <1>9, <1>12 DEF One
  <2>2. \A r2 \in Ranks : r2 # r => Flying(respQueue', r2) = flying[r2]
    <3> SUFFICES ASSUME NEW r2 \in Ranks, r2 # r
                 PROVE  Flying(respQueue', r2) = flying[r2]
      OBVIOUS
    <3>1. Flying(respQueue', r2) = Flying(respQueue, r2) + 0
      BY <1>5 DEF One
    <3> QED
      BY <1>9, <3>1
  <2>3. flying' = [r2 \in Ranks |-> IF r2 = r THEN flying[r] + 1 ELSE flying[r2]]
    BY <2>1, <2>2, AbstractState
  <2>4. flying' = [flying EXCEPT ![r] = flying[r] + 1]
    BY <1>10, <2>3
  <2> QED
    BY <1>6, <1>7, <1>8, <2>4, TurnLoop, CycleTurn
<1> QED
  BY <1>11, <1>12

(* A tick does nothing to the abstract state. *)
LEMMA AdvanceCycle ==
    ASSUME Ctl, Advance
    PROVE  [Cycle!Next]_Cycle!vars
<1>1. /\ Scheduled(eventq', "nextReq", 0) <=> Scheduled(eventq, "nextReq", 0)
      /\ \A r \in Ranks : rk'[r] = PassedRank(rk[r])
  BY TickFacts
<1>2. view' = view
  <2>1. \A r \in Ranks : rk[r] \in RankState
    BY DEF Ctl
  <2>2. \A r \in Ranks : ViewOf(rk'[r]) = ViewOf(rk[r])
    BY <1>1, <2>1, PassedRankOK DEF ViewOf
  <2> QED
    BY <2>2, SameView
<1>3. loop' = loop
  BY <1>1, SameLoop DEF nextReqScheduled
<1>4. flying' = flying
  <2>1. respQueue' = [i \in DOMAIN respQueue |-> [respQueue[i] EXCEPT !.at = @ - 1]]
    BY DEF Advance
  <2>2. \A i \in DOMAIN respQueue : respQueue[i] \in Response
    <3>1. respQueue \in Seq(Response)
      BY DEF Ctl, Responses
    <3> QED
      BY <3>1
  <2>3. DOMAIN respQueue' = DOMAIN respQueue
    BY <2>1, Zenon
  <2>4. \A i \in DOMAIN respQueue : respQueue'[i].rank = respQueue[i].rank
    <3> TAKE i \in DOMAIN respQueue
    <3> DEFINE x == respQueue[i]
               n == x.at - 1
    <3>1. respQueue'[i] = [x EXCEPT !.at = n]
      BY <2>1, Zenon
    <3>2. x \in Response
      BY <2>2
    <3> HIDE DEF x, n
    <3>3. [x EXCEPT !.at = n].rank = x.rank
      BY <3>2 DEF Response
    <3> QED
      BY <3>1, <3>3 DEF x
  <2>5. \A r : {i \in DOMAIN respQueue' : respQueue'[i].rank = r}
                  = {i \in DOMAIN respQueue : respQueue[i].rank = r}
    BY <2>3, <2>4
  <2> QED
    BY <2>5, SameFlying DEF Flying
<1> QED
  BY <1>2, <1>3, <1>4, CycleStutter

(* Every step of the ranks is a step of RefreshCycle, or a stutter. *)
LEMMA NextCycle ==
    ASSUME Ctl, RefreshInTime, ~enableDRAMPowerdown, OrderedTimings, [Next]_vars
    PROVE  [Cycle!Next]_Cycle!vars
<1>1. ASSUME Kept, respQueue' = respQueue PROVE [Cycle!Next]_Cycle!vars
  BY <1>1, KeptCycle
<1>2. CASE FireEvent
  <2>1. ASSUME NEW r \in Ranks, processActivateEvent(r) PROVE [Cycle!Next]_Cycle!vars
    BY <1>1, <2>1, ActivateCtl DEF processActivateEvent, ctrl
  <2>2. ASSUME NEW r \in Ranks, processPrechargeEvent(r) PROVE [Cycle!Next]_Cycle!vars
    <3>1. respQueue' = respQueue
      BY <2>2 DEF processPrechargeEvent, ctrl
    <3> QED
      BY <1>1, <2>2, <3>1, PrechargeCtl
  <2>3. ASSUME NEW r \in Ranks, processWriteDoneEvent(r) PROVE [Cycle!Next]_Cycle!vars
    BY <1>1, <2>3, WriteDoneCtl DEF processWriteDoneEvent, ctrl
  <2>4. ASSUME NEW r \in Ranks, processRefreshEvent(r) PROVE [Cycle!Next]_Cycle!vars
    BY <2>4, RefreshCycleStep
  <2>5. ASSUME NEW r \in Ranks, processPowerEvent(r) PROVE [Cycle!Next]_Cycle!vars
    BY <2>5, PowerCycle
  <2>6. ASSUME NEW r \in Ranks, processWakeUpEvent(r) PROVE FALSE
    <3>1. Fire("wakeUp", r)
      BY <2>6 DEF processWakeUpEvent
    <3> QED
      BY <3>1, FireAsserts
  <2>7. ASSUME NEW r \in Ranks, SomeBurst(r) PROVE [Cycle!Next]_Cycle!vars
    BY <2>7, BurstCycle
  <2>8. processRespondEvent => [Cycle!Next]_Cycle!vars
    BY RespondCycle
  <2>9. StopLoop \/ SwitchToWrites => [Cycle!Next]_Cycle!vars
    BY StopCycle
  <2> QED
    BY <1>2, <2>1, <2>2, <2>3, <2>4, <2>5, <2>6, <2>7, <2>8, <2>9 DEF FireEvent
<1>3. CASE Arrival
  <2>1. ASSUME NEW r \in Ranks, addToReadQueue(r) PROVE [Cycle!Next]_Cycle!vars
    BY <1>1, <2>1, ReadCtl DEF addToReadQueue
  <2>2. ASSUME NEW r \in Ranks, addToWriteQueue(r) PROVE [Cycle!Next]_Cycle!vars
    BY <1>1, <2>2, WriteCtl DEF addToWriteQueue
  <2> QED
    BY <1>3, <2>1, <2>2 DEF Arrival
<1>4. CASE Advance
  BY <1>4, AdvanceCycle
<1>5. CASE drain
  BY <1>1, <1>5, DrainCtl DEF drain
<1>6. CASE drainResume
  <2>1. respQueue' = respQueue
    BY <1>6 DEF drainResume
  <2> QED
    BY <1>1, <1>6, <2>1, DrainResumeCtl
<1>7. CASE UNCHANGED vars
  <2>1. eventq' = eventq /\ rk' = rk /\ respQueue' = respQueue
    BY <1>7 DEF vars
  <2>2. view' = view /\ loop' = loop /\ flying' = flying
    BY <2>1, SameView, SameLoop, SameFlying
  <2> QED
    BY <2>2, CycleStutter
<1> QED
  BY <1>2, <1>3, <1>4, <1>5, <1>6, <1>7 DEF Next, Running

(* The initial states are those of the cycle. *)
LEMMA InitCycle ==
    ASSUME Init
    PROVE  Cycle!Init
<1>1. view = [r \in Ranks |-> "idle"]
  <2>1. \A r \in Ranks : ViewOf(rk[r]) = "idle"
    BY InitRank DEF ViewOf
  <2> QED
    BY <2>1, AbstractState
<1>2. loop = FALSE
  <2>1. ~nextReqScheduled(eventq)
    BY InitQueue DEF nextReqScheduled
  <2> QED
    BY <2>1, AbstractState
<1>3. flying = [r \in Ranks |-> 0]
  <2>1. respQueue = <<>>
    BY DEF Init
  <2>2. \A r, t : ~Flies(respQueue, r, t)
    BY <2>1 DEF Flies
  <2>3. respQueue \in Seq(Response)
    BY <2>1
  <2>4. \A r : Flying(respQueue, r) = 0
    BY <2>2, <2>3, FlyingNat
  <2> QED
    BY <2>4, AbstractState
<1> QED
  BY <1>1, <1>2, <1>3 DEF Cycle!Init

(* The ranks implement what the controller's queues assume of them: a      *)
(* refresh waits for a pending turn only, lasts until it is over with no   *)
(* read of the rank under way, and then starts the loop.                   *)
THEOREM ImplementsRefreshCycle ==
    ASSUME BubblesFit, ~enableDRAMPowerdown, OrderedTimings
    PROVE  Spec => CycleSpec
<1>1. Init => Cycle!Init
  BY InitCycle
<1>2. Ctl /\ RefreshInTime /\ [Next]_vars => [Cycle!Next]_Cycle!vars
  BY NextCycle
<1>3. Spec => []RefreshInTime
  BY RefreshesInTime
<1>4. Spec => []Ctl
  BY AlwaysCtl
<1> QED
  BY <1>1, <1>2, <1>3, <1>4, PTL DEF Spec, CycleSpec, Cycle!Spec

=============================================================================
