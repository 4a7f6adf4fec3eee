------------------------- MODULE BlockHammerProofs -------------------------
(***************************************************************************)
(* What BlockHammer's delays achieve, for every window, threshold and set  *)
(* of rows, if a row is black-listed at least two accesses before the      *)
(* threshold: a row held back by them stays below the actual threshold in  *)
(* any 64 ms, and only a row that is not makes access() divide by zero.    *)
(***************************************************************************)
EXTENDS BlockHammer, TLAPS

(* The black list begins early enough; the default percentage is 50. *)
EarlyBlackList == threshold >= 3 /\ BlackListThreshold <= threshold - 2

(* A row is stopped by the division at threshold - 1 at the latest.  One   *)
(* that is held back has at most threshold - 2 accesses, the last of which *)
(* is answered only when the window is over.                               *)
LastIsHeld ==
    \A r \in Rows :
        /\ numAccessesToRow[r] <= threshold - 1
        /\ numAccessesToRow[r] = threshold - 1 => aborted /\ ~heldBack[r]
        /\ heldBack[r] /\ numAccessesToRow[r] = threshold - 2 =>
              wait[r] >= Window - age

(* The accesses of a span of ticks are counted accesses of this window if  *)
(* the span lies within it; a longer span reaches back into one window     *)
(* more, in which a row held back had at most threshold - 2.               *)
SpansTwoWindows ==
    \A r \in Rows, k \in Spans :
        k <= age \/ heldBefore[r] =>
            recent[r][k] <= numAccessesToRow[r]
                            + (IF k <= age THEN 0 ELSE threshold - 2)

(* The inductive invariant. *)
Inv == TypeOK /\ LastIsHeld /\ SpansTwoWindows /\ DividesOnlyUnheld

(* What the counters, the age and the delay of access() are. *)
LEMMA AccessFacts ==
  ASSUME TypeOK
  PROVE  /\ Counts \in [Rows -> Nat]
         /\ Age \in 0 .. Window - 1
         /\ Time_Remaining \in 1 .. Window
BY BlockHammerAssumption DEF TypeOK, Counts, Age, Time_Remaining, Expired

(* A positive share of a number is a natural number not larger than it,    *)
(* and the whole of it if there is one share.                              *)
LEMMA Shares ==
  ASSUME NEW a \in Nat, NEW b \in Nat, b # 0
  PROVE  a \div b \in 0 .. a /\ (b = 1 => a \div b = a)
<1>1. a \div b \in Nat /\ b * (a \div b) <= a
  OBVIOUS
<1>2. a \div b <= b * (a \div b)
  <2> DEFINE q == a \div b
  <2>1. q \in Nat /\ b - 1 \in Nat
    BY <1>1
  <2> HIDE DEF q
  <2>2. b * q = (b - 1) * q + q /\ (b - 1) * q \in Nat
    BY <2>1
  <2>3. q <= b * q
    BY <2>1, <2>2
  <2> QED
    BY <2>3 DEF q
<1>3. b = 1 => a \div b = a
  OBVIOUS
<1> QED
  BY <1>1, <1>2, <1>3

(* The number of accesses left is the plain difference below the           *)
(* threshold: nothing wraps.                                               *)
LEMMA Left ==
  ASSUME NEW n \in Nat, n < threshold
  PROVE  ACTs_Remaining(n) = threshold - n - 1
<1>1. threshold - n - 1 \in 0 .. WordSize - 1
  BY BlockHammerAssumption
<1>2. (threshold - n - 1) % WordSize = threshold - n - 1
  BY <1>1, BlockHammerAssumption
<1> QED
  BY <1>2, BlockHammerAssumption DEF ACTs_Remaining

(* The delay of an access is no longer than the rest of the window, and    *)
(* that of access threshold - 2 is the whole of it.                        *)
LEMMA Delays ==
  ASSUME EarlyBlackList, TypeOK, NEW n \in Nat, n < threshold
  PROVE  /\ Delay(n) \in 0 .. Window - Age
         /\ n = threshold - 2 => Delay(n) = Window - Age
<1>1. ACTs_Remaining(n) = threshold - n - 1 /\ threshold \in Nat
  BY Left, BlockHammerAssumption
<1>2. Time_Remaining = Window - Age /\ Window - Age \in Nat
  BY AccessFacts, BlockHammerAssumption DEF Time_Remaining
<1>3. CASE n = threshold - 1
  BY <1>1, <1>2, <1>3 DEF Delay
<1>4. CASE n # threshold - 1
  <2>1. threshold - n - 1 \in Nat /\ threshold - n - 1 # 0
    BY <1>1, <1>4
  <2>2. /\ MC_delay(n) \in 0 .. Window - Age
        /\ n = threshold - 2 => MC_delay(n) = Window - Age
    BY <2>1, <1>1, <1>2, Shares DEF MC_delay
  <2>3. n = threshold - 2 => BlackListed(n)
    BY <1>1, BlockHammerAssumption DEF EarlyBlackList, BlackListed
  <2> QED
    BY <2>1, <2>2, <2>3, <1>1, <1>2 DEF Delay
<1> QED
  BY <1>3, <1>4

(* The answers and the end of the window draw nearer together. *)
LEMMA TickPreserves ==
  ASSUME EarlyBlackList, Inv, Tick
  PROVE  Inv'
<1>0. /\ age \in Nat /\ age <= Window /\ Window \in Nat \ {0} /\ MaxLatency \in Nat
      /\ wait \in [Rows -> Nat]
      /\ \A r \in Rows : wait[r] <= Window - age + MaxLatency
      /\ age' = (IF age >= Window THEN age ELSE age + 1)
      /\ wait' = [r \in Rows |-> IF wait[r] = 0 THEN 0 ELSE wait[r] - 1]
      /\ UNCHANGED <<numAccessesToRow, aborted, heldBack, heldBefore>>
      /\ numAccessesToRow \in [Rows -> Nat]
      /\ recent \in [Rows -> [Spans -> Nat]]
      /\ recent' = [r \in Rows |->
                      [k \in Spans |-> IF k = 1 THEN 0 ELSE recent[r][k - 1]]]
      /\ threshold \in Nat
  BY BlockHammerAssumption DEF Inv, TypeOK, Tick, Expired
<1>1. TypeOK'
  <2>1. age' \in 0 .. Window
    BY <1>0
  <2>2. \A r \in Rows : wait'[r] \in Nat /\ wait'[r] <= Window - age' + MaxLatency
    <3> SUFFICES ASSUME NEW r \in Rows
                 PROVE  wait'[r] \in Nat /\ wait'[r] <= Window - age' + MaxLatency
      OBVIOUS
    <3>1. /\ wait[r] \in Nat /\ wait[r] <= Window - age + MaxLatency
          /\ wait'[r] = IF wait[r] = 0 THEN 0 ELSE wait[r] - 1
      BY <1>0
    <3> QED
      BY <3>1, <1>0
  <2>3. wait' \in [Rows -> Nat]
    BY <2>2, <1>0
  <2>4. recent' \in [Rows -> [Spans -> Nat]]
    BY <1>0 DEF Spans
  <2> QED
    BY <1>0, <2>1, <2>2, <2>3, <2>4 DEF TypeOK, Inv
<1>2. LastIsHeld'
  <2> SUFFICES ASSUME NEW r \in Rows, heldBack[r], numAccessesToRow[r] = threshold - 2
               PROVE  wait'[r] >= Window - age'
    BY <1>0 DEF Inv, LastIsHeld
  <2>1. wait[r] \in Nat /\ wait[r] >= Window - age
    BY <1>0 DEF Inv, LastIsHeld
  <2> QED
    BY <2>1, <1>0
<1>3. SpansTwoWindows'
  <2> SUFFICES ASSUME NEW r \in Rows, NEW k \in Spans, k <= age' \/ heldBefore[r]
               PROVE  recent'[r][k] <= numAccessesToRow[r]
                                       + (IF k <= age' THEN 0 ELSE threshold - 2)
    BY <1>0 DEF SpansTwoWindows
  <2>1. numAccessesToRow[r] \in Nat /\ k \in 1 .. Window /\ threshold - 2 \in Nat
    BY <1>0 DEF Spans, EarlyBlackList
  <2>2. CASE k = 1
    <3>1. recent'[r][k] = 0
      BY <2>2, <1>0
    <3> QED
      BY <3>1, <2>1
  <2>3. CASE k # 1
    <3>1. recent'[r][k] = recent[r][k - 1] /\ k - 1 \in Spans
      BY <2>1, <2>3, <1>0 DEF Spans
    <3>2. k <= age' => k - 1 <= age
      BY <2>1, <1>0
    <3>3. recent[r][k - 1] <= numAccessesToRow[r]
                              + (IF k - 1 <= age THEN 0 ELSE threshold - 2)
      BY <3>1, <3>2 DEF Inv, SpansTwoWindows
    <3>4. recent[r][k - 1] \in Nat
      BY <3>1, <1>0
    <3> QED
      BY <3>1, <3>2, <3>3, <3>4, <2>1
  <2> QED
    BY <2>2, <2>3
<1>4. DividesOnlyUnheld'
  BY <1>0 DEF Inv, DividesOnlyUnheld
<1> QED
  BY <1>1, <1>2, <1>3, <1>4 DEF Inv

(* An access that brings a row to threshold - 2 is held to the end of the  *)
(* window if it is felt; one that goes beyond is of a row that is not held *)
(* back, or finds the window over.                                         *)
LEMMA AccessPreserves ==
  ASSUME EarlyBlackList, Inv, NEW r \in Rows, NEW felt \in BOOLEAN, access(r, felt),
         wait' \in [Rows -> Nat],
         \A s \in Rows : wait'[s] >= wait[s],
         \A s \in Rows : wait'[s] <= Window - Age + MaxLatency,
         felt => wait'[r] >= Delay(Counts[r] + 1)
  PROVE  Inv'
<1> DEFINE n == Counts[r] + 1
<1>0. /\ Counts \in [Rows -> Nat] /\ Age \in 0 .. Window - 1
      /\ threshold \in Nat /\ Window \in Nat /\ age \in 0 .. Window /\ Age <= age
      /\ MaxLatency \in Nat
      /\ wait \in [Rows -> Nat]
      /\ heldBack \in [Rows -> BOOLEAN] /\ heldBefore \in [Rows -> BOOLEAN]
      /\ numAccessesToRow \in [Rows -> Nat]
      /\ numAccessesToRow' = [Counts EXCEPT ![r] = n]
      /\ age' = Age
      /\ aborted = FALSE
      /\ aborted' = (BlackListed(n) /\ ACTs_Remaining(n) = 0)
      /\ heldBack' = [s \in Rows |->
             /\ Expired \/ heldBack[s]
             /\ s = r => wait[r] = 0 /\ (felt \/ Delay(n) = 0)]
      /\ heldBefore' = IF Expired THEN heldBack ELSE heldBefore
  BY AccessFacts, BlockHammerAssumption DEF Inv, TypeOK, access, Age
<1>1. \A s \in Rows : /\ Counts[s] \in Nat /\ Counts[s] <= threshold - 2
                      /\ Expired => Counts[s] = 0
                      /\ ~Expired => Counts[s] = numAccessesToRow[s]
  BY <1>0 DEF Counts, Inv, LastIsHeld, EarlyBlackList
<1>2. n \in 1 .. threshold - 1
  BY <1>0, <1>1
<1>3. (n = threshold - 1) <=> aborted'
  <2>1. ACTs_Remaining(n) = threshold - n - 1
    BY <1>0, <1>2, Left
  <2>2. n = threshold - 1 => BlackListed(n)
    BY <1>0, BlockHammerAssumption DEF EarlyBlackList, BlackListed
  <2>3. n = threshold - 1 <=> BlackListed(n) /\ ACTs_Remaining(n) = 0
    BY <2>1, <2>2, <1>0, <1>2
  <2> QED
    BY <2>3, <1>0, Zenon
<1>4. n = threshold - 1 => ~heldBack'[r]
  (* With threshold - 2 accesses counted the answer is due when the window *)
  (* is over, so an access before that does not wait for it.               *)
  <2> SUFFICES ASSUME n = threshold - 1, heldBack'[r]
               PROVE  FALSE
    OBVIOUS
  <2>1. ~Expired
    BY <1>0, <1>1 DEF EarlyBlackList
  <2>2. heldBack[r] /\ wait[r] = 0 /\ numAccessesToRow[r] = threshold - 2
    BY <2>1, <1>0, <1>1
  <2>3. wait[r] >= Window - age
    BY <2>2 DEF Inv, LastIsHeld
  <2> QED
    BY <2>1, <2>2, <2>3, <1>0 DEF Expired
<1>5. n = threshold - 2 /\ heldBack'[r] => wait'[r] >= Window - Age
  <2>1. n = threshold - 2 => Delay(n) = Window - Age
    BY <1>0, <1>2, Delays DEF Inv
  <2>2. heldBack'[r] => felt \/ Delay(n) = 0
    BY <1>0
  <2> QED
    BY <2>1, <2>2, <1>0
<1>6. TypeOK'
  <2>1. numAccessesToRow' \in [Rows -> Nat]
    BY <1>0, <1>2
  <2>2. recent' \in [Rows -> [Spans -> Nat]]
    BY DEF access, Inv, TypeOK
  <2>3. age' \in 0 .. Window /\ aborted' \in BOOLEAN
    BY <1>0
  <2>4. heldBack' \in [Rows -> BOOLEAN] /\ heldBefore' \in [Rows -> BOOLEAN]
    BY <1>0
  <2> QED
    BY <2>1, <2>2, <2>3, <2>4, <1>0 DEF TypeOK
<1>7. LastIsHeld'
  <2> SUFFICES ASSUME NEW s \in Rows
               PROVE  /\ numAccessesToRow'[s] <= threshold - 1
                      /\ numAccessesToRow'[s] = threshold - 1 =>
                            aborted' /\ ~heldBack'[s]
                      /\ heldBack'[s] /\ numAccessesToRow'[s] = threshold - 2 =>
                            wait'[s] >= Window - age'
    BY DEF LastIsHeld
  <2>1. CASE s = r
    <3>1. numAccessesToRow'[s] = n
      BY <2>1, <1>0
    <3> QED
      BY <3>1, <2>1, <1>0, <1>2, <1>3, <1>4, <1>5
  <2>2. CASE s # r
    <3>1. numAccessesToRow'[s] = Counts[s] /\ wait'[s] >= wait[s]
      BY <2>2, <1>0
    <3>2. heldBack'[s] => Expired \/ heldBack[s]
      BY <1>0
    <3>3. CASE Expired
      BY <3>1, <3>3, <1>0, <1>1 DEF EarlyBlackList
    <3>4. CASE ~Expired
      <4>1. /\ heldBack[s] /\ numAccessesToRow[s] = threshold - 2 =>
                  wait[s] >= Window - age
            /\ age' = age
        BY <3>4, <1>0 DEF Inv, LastIsHeld, Age
      <4> QED
        BY <4>1, <3>1, <3>2, <3>4, <1>0, <1>1
    <3> QED
      BY <3>3, <3>4
  <2> QED
    BY <2>1, <2>2
<1>8. SpansTwoWindows'
  (* A reset finds every span within the window that ends; its accesses    *)
  (* become those of the window before.                                    *)
  <2> SUFFICES ASSUME NEW s \in Rows, NEW k \in Spans, k <= age' \/ heldBefore'[s]
               PROVE  recent'[s][k] <= numAccessesToRow'[s]
                                       + (IF k <= age' THEN 0 ELSE threshold - 2)
    BY DEF SpansTwoWindows
  <2> DEFINE one == IF s = r THEN 1 ELSE 0
  <2>1. recent'[s][k] = recent[s][k] + one /\ recent[s][k] \in Nat
    BY DEF access, Inv, TypeOK
  <2>2. numAccessesToRow'[s] = Counts[s] + one /\ Counts[s] \in Nat
    BY <1>0
  <2>3. recent[s][k] <= Counts[s] + (IF k <= Age THEN 0 ELSE threshold - 2)
    <3>1. CASE Expired
      <4>1. k <= age /\ ~(k <= Age) /\ Counts[s] = 0
        BY <3>1, <1>0 DEF Expired, Age, Counts, Spans
      <4>2. recent[s][k] <= numAccessesToRow[s] /\ heldBack[s]
        BY <4>1, <3>1, <2>1, <1>0 DEF Inv, SpansTwoWindows
      <4>3. numAccessesToRow[s] \in Nat /\ numAccessesToRow[s] <= threshold - 2
        BY <4>2, <1>0 DEF Inv, LastIsHeld
      <4> QED
        BY <4>1, <4>2, <4>3, <2>1, <1>0
    <3>2. CASE ~Expired
      <4>1. Age = age /\ Counts[s] = numAccessesToRow[s]
            /\ (k <= age \/ heldBefore[s])
        BY <3>2, <1>0, <1>1 DEF Age
      <4> QED
        BY <4>1 DEF Inv, SpansTwoWindows
    <3> QED
      BY <3>1, <3>2
  <2>4. threshold - 2 \in Nat /\ one \in Nat /\ k \in Nat /\ Age \in Nat
    BY <1>0 DEF EarlyBlackList, Spans
  <2> QED
    BY <2>1, <2>2, <2>3, <2>4, <1>0
<1>9. DividesOnlyUnheld'
  BY <1>0, <1>3, <1>4 DEF DividesOnlyUnheld
<1> QED
  BY <1>6, <1>7, <1>8, <1>9 DEF Inv

(* A read is felt; a write leaves the answers the row waits for alone. *)
LEMMA ReadPreserves ==
  ASSUME EarlyBlackList, Inv, NEW r \in Rows, NEW latency \in 0 .. MaxLatency,
         Read(r, latency)
  PROVE  Inv'
<1> DEFINE delay == Delay(Counts[r] + 1)
<1>1. /\ wait \in [Rows -> Nat] /\ MaxLatency \in Nat /\ latency \in Nat
      /\ \A s \in Rows : wait[s] <= Window - age + MaxLatency
      /\ Age <= age /\ Age \in Nat /\ Window \in Nat /\ age \in Nat
  BY AccessFacts, BlockHammerAssumption DEF Inv, TypeOK, Age
<1>2. Counts[r] + 1 \in Nat /\ Counts[r] + 1 < threshold
  <2>1. CASE Expired
    BY <2>1, BlockHammerAssumption DEF Counts, EarlyBlackList
  <2>2. CASE ~Expired
    <3>1. Counts[r] = numAccessesToRow[r] /\ numAccessesToRow[r] \in Nat
          /\ ~aborted /\ threshold \in Nat
      BY <2>2, BlockHammerAssumption DEF Counts, Inv, TypeOK, Read, access
    <3> QED
      BY <3>1 DEF Inv, LastIsHeld
  <2> QED
    BY <2>1, <2>2
<1>3. delay \in Nat /\ delay <= Window - Age
  BY <1>1, <1>2, Delays DEF Inv
<1> HIDE DEF delay
<1>4. wait' = [wait EXCEPT ![r] =
                 IF latency + delay > wait[r] THEN latency + delay ELSE wait[r]]
  BY DEF Read, delay
<1>5. wait' \in [Rows -> Nat]
  BY <1>1, <1>3, <1>4
<1>6. \A s \in Rows : wait'[s] >= wait[s] /\ wait'[s] <= Window - Age + MaxLatency
  BY <1>1, <1>3, <1>4
<1>7. wait'[r] >= delay
  BY <1>1, <1>3, <1>4
<1> QED
  BY <1>5, <1>6, <1>7, AccessPreserves DEF Read, delay

LEMMA WritePreserves ==
  ASSUME EarlyBlackList, Inv, NEW r \in Rows, Write(r)
  PROVE  Inv'
<1>1. /\ wait' = wait /\ wait \in [Rows -> Nat] /\ MaxLatency \in Nat
      /\ \A s \in Rows : wait[s] <= Window - age + MaxLatency
      /\ Age <= age /\ Age \in Nat /\ Window \in Nat /\ age \in Nat
  BY AccessFacts, BlockHammerAssumption DEF Inv, TypeOK, Age, Write
<1>2. \A s \in Rows : wait'[s] >= wait[s] /\ wait'[s] <= Window - Age + MaxLatency
  BY <1>1
<1> QED
  BY <1>1, <1>2, AccessPreserves DEF Write

(* The inductive invariant holds of every reachable state. *)
LEMMA InvCorrect ==
  ASSUME EarlyBlackList
  PROVE  Spec => []Inv
<1>1. Init => Inv
  <2> SUFFICES ASSUME Init PROVE Inv
    OBVIOUS
  <2>1. TypeOK
    <3>1. /\ Window \in Nat /\ age \in 0 .. Window /\ MaxLatency \in Nat
          /\ \A r \in Rows : wait[r] = 0
      BY BlockHammerAssumption DEF Init
    <3>2. \A r \in Rows : wait[r] <= Window - age + MaxLatency
      <4>1. 0 <= Window - age + MaxLatency
        BY <3>1
      <4> QED
        BY <4>1, <3>1
    <3> QED
      BY <3>1, <3>2 DEF Init, TypeOK
  <2>2. SpansTwoWindows
    BY BlockHammerAssumption DEF Init, SpansTwoWindows, EarlyBlackList
  <2> QED
    BY <2>1, <2>2, BlockHammerAssumption
    DEF Init, Inv, LastIsHeld, DividesOnlyUnheld, EarlyBlackList
<1>2. Inv /\ [Next]_vars => Inv'
  <2> SUFFICES ASSUME Inv, [Next]_vars
               PROVE  Inv'
    OBVIOUS
  <2>1. CASE Tick
    BY <2>1, TickPreserves
  <2>2. ASSUME NEW r \in Rows, NEW latency \in 0 .. MaxLatency, Read(r, latency)
        PROVE  Inv'
    BY <2>2, ReadPreserves
  <2>3. ASSUME NEW r \in Rows, Write(r)
        PROVE  Inv'
    BY <2>3, WritePreserves
  <2>4. CASE UNCHANGED vars
    BY <2>4 DEF Inv, TypeOK, LastIsHeld, SpansTwoWindows, DividesOnlyUnheld, vars
  <2> QED
    BY <2>1, <2>2, <2>3, <2>4 DEF Next
<1> QED
  BY <1>1, <1>2, PTL DEF Spec

(* The variables keep their types; in particular MC_delay puts no answer   *)
(* off beyond the end of the window.                                       *)
THEOREM TypeCorrect == EarlyBlackList /\ Spec => []TypeOK
<1> SUFFICES ASSUME EarlyBlackList
             PROVE  Spec => []TypeOK
  OBVIOUS
<1>1. Inv => TypeOK
  BY DEF Inv
<1>2. Spec => []Inv
  BY InvCorrect
<1> QED
  BY <1>1, <1>2, PTL

(* access() of BlockHammer (rowhammer_mitigation.cc:1111-1136) divides by  *)
(* zero at line 1130 only for access threshold - 1 of a row that a delay   *)
(* was dropped for (a write, mem_ctrl.cc:499) or that did not wait.        *)
THEOREM DivisionOnlyUnheld == EarlyBlackList /\ Spec => []DividesOnlyUnheld
<1> SUFFICES ASSUME EarlyBlackList
             PROVE  Spec => []DividesOnlyUnheld
  OBVIOUS
<1>1. Inv => DividesOnlyUnheld
  BY DEF Inv
<1>2. Spec => []Inv
  BY InvCorrect
<1> QED
  BY <1>1, <1>2, PTL

(* In any Window ticks, wherever they start and whatever resets fall into  *)
(* them, a row held back in this window and the one before has fewer       *)
(* accesses than the actual threshold: what halving the threshold          *)
(* (mem_ctrl.cc:162) is for.  Nothing is claimed of the other rows.        *)
THEOREM HeldRowsBelowThreshold == EarlyBlackList /\ Spec => []HeldBelowActualThreshold
<1> SUFFICES ASSUME EarlyBlackList
             PROVE  Spec => []HeldBelowActualThreshold
  OBVIOUS
<1>1. Inv => HeldBelowActualThreshold
  <2> SUFFICES ASSUME Inv, NEW r \in Rows, heldBack[r], heldBefore[r]
               PROVE  recent[r][Window] < 2 * threshold
    BY DEF HeldBelowActualThreshold
  <2>1. Window \in Spans
    BY BlockHammerAssumption DEF Spans
  <2>2. recent[r][Window] <= numAccessesToRow[r]
                             + (IF Window <= age THEN 0 ELSE threshold - 2)
    BY <2>1 DEF Inv, SpansTwoWindows
  <2>3. /\ recent[r][Window] \in Nat /\ numAccessesToRow[r] \in Nat
        /\ numAccessesToRow[r] <= threshold - 1
    BY <2>1 DEF Inv, TypeOK, LastIsHeld
  <2> QED
    BY <2>2, <2>3, BlockHammerAssumption DEF EarlyBlackList
<1>2. Spec => []Inv
  BY InvCorrect
<1> QED
  BY <1>1, <1>2, PTL
=============================================================================
