----------------------------- MODULE AquaProofs -----------------------------
(***************************************************************************)
(* Proofs about Aqua, the detector and the quarantine together, for every  *)
(* number of rows, banks, quarantine slots and cache blocks and every      *)
(* threshold: no aggressor stays where it is, and AQUA implements          *)
(* RowIsolation.                                                           *)
(***************************************************************************)
EXTENDS Aqua, RowQuarantineProofs

(* The detector of Aqua, with what is proved about it. *)
Tracking == INSTANCE MisraGriesProofs WITH
    Banks <- 0 .. detectorBanks - 1, numRows <- numRows \div detectorBanks,
    ColdStart <- TRUE, InitialSpill <- {0}, aborted <- detectorAborted

aquaVars == <<vars, detectorVars, here>>

----------------------------------------------------------------------------
(* The detector *)

(* The sizes Aqua gives the detector are sizes it may have. *)
LEMMA DetectorSized == Tracking!MGAssumption
<1> DEFINE n == numRows \div detectorBanks
<1>1. detectorBanks \in Nat \ {0} /\ numRows \in Nat \ {0} /\ numRows % detectorBanks = 0
  BY AquaAssumption, RQAssumption
<1>2. n \in Nat /\ numRows = detectorBanks * n
  BY <1>1
<1> HIDE DEF n
<1>3. n # 0
  BY <1>1, <1>2
<1> QED
  BY <1>2, <1>3, AquaAssumption DEF Tracking!MGAssumption, n

(* The two instances of the detector are one, operator by operator. *)
LEMMA SameOperators ==
    /\ Detector!Rows = Tracking!Rows /\ Detector!Slots = Tracking!Slots
    /\ Detector!Cleared = Tracking!Cleared
    /\ \A s : Detector!Started(s) = Tracking!Started(s)
    /\ \A t, r : /\ Detector!AssertFails(t, r) = Tracking!AssertFails(t, r)
                 /\ Detector!Counted(t, r) = Tracking!Counted(t, r)
                 /\ Detector!Detected(t, r) = Tracking!Detected(t, r)
<1>1. Detector!Rows = Tracking!Rows /\ Detector!Slots = Tracking!Slots
  BY DEF Detector!Rows, Tracking!Rows, Detector!Slots, Tracking!Slots,
         Detector!numEntries, Tracking!numEntries
<1>2. \A s : Detector!Started(s) = Tracking!Started(s)
  BY <1>1 DEF Detector!Started, Tracking!Started, Detector!EmptyEntry, Tracking!EmptyEntry
<1>3. Detector!Cleared = Tracking!Cleared
  BY <1>2 DEF Detector!Cleared, Tracking!Cleared
<1>4. \A t, r : /\ Detector!HasEntry(t, r) = Tracking!HasEntry(t, r)
               /\ Detector!EntryID(t, r) = Tracking!EntryID(t, r)
  BY DEF Detector!HasEntry, Tracking!HasEntry, Detector!EntryID, Tracking!EntryID
<1>5. \A t, i : Detector!Matches(t, i) = Tracking!Matches(t, i)
  BY DEF Detector!Matches, Tracking!Matches
<1>6. \A t : Detector!Stops(t) = Tracking!Stops(t)
  BY <1>1, <1>5 DEF Detector!Stops, Tracking!Stops
<1>7. \A n : Detector!Flags(n) = Tracking!Flags(n)
  BY DEF Detector!Flags, Tracking!Flags
<1>16. \A S : Detector!Min(S) = Tracking!Min(S)
  BY DEF Detector!Min, Tracking!Min
<1>8. \A t, r : Detector!Detected(t, r) = Tracking!Detected(t, r)
  BY <1>4, <1>6, <1>7, <1>16 DEF Detector!Detected, Tracking!Detected
<1>9. \A t, r : Detector!AssertFails(t, r) = Tracking!AssertFails(t, r)
  BY <1>4, <1>5, <1>6, <1>16 DEF Detector!AssertFails, Tracking!AssertFails
<1>10. \A t, i, r : Detector!Count(t, i, r) = Tracking!Count(t, i, r)
  BY DEF Detector!Count, Tracking!Count
<1>11. \A t, i, r : Detector!Index(t, i, r) = Tracking!Index(t, i, r)
  BY <1>1 DEF Detector!Index, Tracking!Index
<1>12. \A t, r : Detector!Hit(t, r) = Tracking!Hit(t, r)
  BY <1>4, <1>10 DEF Detector!Hit, Tracking!Hit
<1>13. \A t, i, r : Detector!Install(t, i, r) = Tracking!Install(t, i, r)
  BY <1>10, <1>11 DEF Detector!Install, Tracking!Install
<1>14. \A t : Detector!Spill(t) = Tracking!Spill(t)
  BY DEF Detector!Spill, Tracking!Spill
<1>15. \A t, r : Detector!Counted(t, r) = Tracking!Counted(t, r)
  BY <1>4, <1>6, <1>12, <1>13, <1>14, <1>16 DEF Detector!Counted, Tracking!Counted
<1> QED
  BY <1>1, <1>2, <1>3, <1>8, <1>9, <1>15

(* So both start alike, and both take the same accesses. *)
LEMMA SameDetector ==
    /\ Detector!Init => Tracking!Init
    /\ \A b, r, elapsed :
          /\ Detector!Access(b, r, elapsed) => Tracking!Access(b, r, elapsed)
          /\ Detector!Detected(Detector!Window(elapsed)[b], r)
               = Tracking!Detected(Tracking!Window(elapsed)[b], r)
<1>1. Detector!Init => Tracking!Init
  BY SameOperators, Zenon DEF Detector!Init, Tracking!Init
<1>2. \A elapsed : Detector!Window(elapsed) = Tracking!Window(elapsed)
  <2>1. \A t : Detector!Reset(t) = Tracking!Reset(t)
    BY SameOperators, Zenon DEF Detector!Reset, Tracking!Reset
  <2> QED
    BY <2>1, Zenon DEF Detector!Window, Tracking!Window
<1>3. ASSUME NEW b, NEW r, NEW elapsed, Detector!Access(b, r, elapsed)
      PROVE  Tracking!Access(b, r, elapsed)
  BY <1>2, <1>3, SameOperators DEF Detector!Access, Tracking!Access
<1> QED
  BY <1>1, <1>2, <1>3, SameOperators

(* decodeAddr: every row has its bank and its row in the bank, and no two  *)
(* rows have the same.                                                     *)
LEMMA DecodeOK ==
    /\ \A r \in Rows : bankID(r) \in 0 .. detectorBanks - 1 /\ rowID(r) \in Tracking!Rows
    /\ \A r, s \in Rows : bankID(r) = bankID(s) /\ rowID(r) = rowID(s) => r = s
<1> DEFINE d == detectorBanks
           n == numRows \div d
<1>1. d \in Nat \ {0} /\ numRows \in Nat \ {0} /\ numRows % d = 0
  BY AquaAssumption, RQAssumption
<1>2. n \in Nat /\ numRows = d * n
  BY <1>1
<1> HIDE DEF d, n
<1>3. ASSUME NEW r \in Rows
      PROVE  /\ r % d \in 0 .. d - 1 /\ r \div d \in 0 .. n - 1
             /\ (r \div d) % n = r \div d
             /\ r = d * (r \div d) + (r % d)
  <2>1. r \in Nat /\ r < numRows
    BY <1>1 DEF Rows
  <2>2. r % d \in 0 .. d - 1 /\ r \div d \in Nat /\ r = d * (r \div d) + (r % d)
    BY <1>1, <2>1
  <2>3. PICK q : q = r \div d
    OBVIOUS
  <2>4. q < n
    <3> SUFFICES ASSUME n <= q PROVE FALSE
      BY <1>2, <2>2, <2>3
    <3>1. PICK e \in Nat : q = n + e
      <4>1. q - n \in Nat /\ q = n + (q - n)
        BY <1>2, <2>2, <2>3
      <4> QED
        BY <4>1
    <3>2. d * q = d * n + d * e /\ d * e \in Nat
      BY <1>1, <1>2, <3>1
    <3>3. d * q <= r
      BY <1>1, <2>1, <2>2, <2>3
    <3> QED
      BY <1>1, <1>2, <2>1, <3>2, <3>3
  <2>5. q % n = q
    BY <1>2, <2>2, <2>3, <2>4
  <2> QED
    BY <1>2, <2>2, <2>3, <2>4, <2>5
<1>4. ASSUME NEW r \in Rows
      PROVE  bankID(r) = r % d /\ rowID(r) = r \div d
  BY <1>3 DEF bankID, rowID, d, n
<1>5. Tracking!Rows = 0 .. n - 1
  BY DEF Tracking!Rows, n, d
<1>6. 0 .. detectorBanks - 1 = 0 .. d - 1
  BY DEF d
<1>7. ASSUME NEW r \in Rows, NEW s \in Rows, bankID(r) = bankID(s), rowID(r) = rowID(s)
      PROVE  r = s
  <2>1. r % d = s % d /\ r \div d = s \div d
    BY <1>4, <1>7
  <2>2. r = d * (r \div d) + (r % d) /\ s = d * (s \div d) + (s % d)
    BY <1>3
  <2> QED
    BY <2>1, <2>2, Zenon
<1> QED
  BY <1>3, <1>4, <1>5, <1>6, <1>7

----------------------------------------------------------------------------
(* The invariant: both parts' own, and a row has not been accessed more    *)
(* often where it is than since it was last flagged.                       *)
AquaInv ==
    /\ RQInv
    /\ Tracking!Inv /\ booted
    /\ here \in [Rows -> Nat]
    /\ \A r \in Rows : here[r] <= since[bankID(r)][rowID(r)]

(* It holds at boot. *)
LEMMA AquaInitInv ==
    ASSUME AquaInit
    PROVE  AquaInv
<1>1. RQInv
  BY InitInv DEF AquaInit
<1>2. Tracking!Init
  BY SameDetector DEF AquaInit
<1>3. Tracking!TypeOK
  BY <1>2, DetectorSized, Tracking!TypeInit
<1>4. Tracking!SafeStart
  BY DEF Tracking!SafeStart
<1>5. Tracking!Inv
  BY <1>2, <1>3, <1>4, DetectorSized, Tracking!InvInit
<1>6. booted /\ here = [r \in Rows |-> 0]
  BY <1>2 DEF AquaInit, Tracking!Init
<1>7. \A r \in Rows : since[bankID(r)][rowID(r)] \in Nat
  BY <1>3, DecodeOK DEF Tracking!TypeOK
<1> QED
  BY <1>1, <1>5, <1>6, <1>7 DEF AquaInv

(* What an access of the whole does to its parts. *)
LEMMA AquaParts ==
    ASSUME AquaInv, NEW row \in Rows, NEW elapsed \in BOOLEAN, AquaAccess(row, elapsed)
    PROVE  \E verdict \in BOOLEAN :
             /\ Access(row, verdict, elapsed)
             /\ verdict <=> Tracking!Detected(Tracking!Window(elapsed)[bankID(row)], rowID(row))
             /\ Tracking!Access(bankID(row), rowID(row), elapsed)
             /\ here' = [r \in Rows |->
                   IF row_To_QR_T'[r] # row_To_QR_T[r] THEN 0
                   ELSE (IF elapsed THEN 0 ELSE here[r]) + (IF r = row THEN 1 ELSE 0)]
<1> DEFINE d == Detector!Detected(Detector!Window(elapsed)[bankID(row)], rowID(row))
           t == Tracking!Detected(Tracking!Window(elapsed)[bankID(row)], rowID(row))
<1>1. d = t
  BY SameDetector
<1>2. t \in BOOLEAN
  BY DEF Tracking!Detected, Tracking!Flags, Tracking!HasEntry
<1>3. /\ Detector!Access(bankID(row), rowID(row), elapsed)
      /\ Access(row, d, elapsed)
      /\ here' = [r \in Rows |->
            IF row_To_QR_T'[r] # row_To_QR_T[r] THEN 0
            ELSE (IF elapsed THEN 0 ELSE here[r]) + (IF r = row THEN 1 ELSE 0)]
  BY DEF AquaAccess
<1>4. Tracking!Access(bankID(row), rowID(row), elapsed)
  BY <1>3, SameDetector
<1> HIDE DEF d, t
<1>5. Access(row, t, elapsed)
  BY <1>1, <1>3
<1> QED
  BY <1>2, <1>3, <1>4, <1>5 DEF t

(* Every access keeps it.  A flagged row moves, so that its accesses at    *)
(* its new place start at zero as those since the flag do; any other row   *)
(* is counted by both.                                                     *)
LEMMA AquaStep ==
    ASSUME AquaInv, NEW row \in Rows, NEW elapsed \in BOOLEAN, AquaAccess(row, elapsed)
    PROVE  AquaInv'
<1> DEFINE bank == bankID(row)
           rid  == rowID(row)
<1>1. PICK verdict \in BOOLEAN :
         /\ Access(row, verdict, elapsed)
         /\ verdict <=> Tracking!Detected(Tracking!Window(elapsed)[bank], rid)
         /\ Tracking!Access(bank, rid, elapsed)
         /\ here' = [r \in Rows |->
               IF row_To_QR_T'[r] # row_To_QR_T[r] THEN 0
               ELSE (IF elapsed THEN 0 ELSE here[r]) + (IF r = row THEN 1 ELSE 0)]
  BY AquaParts
<1>2. RQInv' /\ (verdict => row_To_QR_T'[row] # row_To_QR_T[row])
  BY <1>1, AccessStep DEF AquaInv
<1>3. bank \in 0 .. detectorBanks - 1 /\ rid \in Tracking!Rows
  BY DecodeOK
<1>4. Tracking!TypeOK /\ Tracking!Inv
  BY DEF AquaInv, Tracking!Inv
<1>5. Tracking!TypeOK'
  BY <1>1, <1>3, <1>4, DetectorSized, Tracking!TypeNext
<1>6. Tracking!NoAssertFails' /\ Tracking!DetectorInv'
  BY <1>1, <1>3, <1>4, DetectorSized, Tracking!InvNext
<1>7. Tracking!Inv'
  BY <1>5, <1>6 DEF Tracking!Inv
<1>8. booted'
  BY <1>1 DEF Tracking!Access
<1>9. \A r \in Rows : here[r] \in Nat
  BY DEF AquaInv
<1>10. here' \in [Rows -> Nat]
  BY <1>1, <1>9
<1>11. since' = [x \in 0 .. detectorBanks - 1 |-> [y \in Tracking!Rows |->
                  IF x = bank /\ y = rid
                  THEN IF verdict THEN 0
                       ELSE IF elapsed THEN 1 ELSE since[x][y] + 1
                  ELSE IF elapsed THEN 0 ELSE since[x][y]]]
  BY <1>1 DEF Tracking!Access
<1> HIDE DEF bank, rid
<1>12. ASSUME NEW r \in Rows
       PROVE  here'[r] <= since'[bankID(r)][rowID(r)]
  <2> DEFINE x == bankID(r)
             y == rowID(r)
  <2>1. x \in 0 .. detectorBanks - 1 /\ y \in Tracking!Rows
    BY DecodeOK
  <2>2. since[x][y] \in Nat /\ since'[x][y] \in Nat
    BY <1>4, <1>5, <2>1 DEF Tracking!TypeOK
  <2>3. here[r] <= since[x][y] /\ here[r] \in Nat
    BY DEF AquaInv
  <2>4. x = bank /\ y = rid <=> r = row
    BY DecodeOK DEF bank, rid
  <2>5. since'[x][y] = IF r = row
                       THEN IF verdict THEN 0
                            ELSE IF elapsed THEN 1 ELSE since[x][y] + 1
                       ELSE IF elapsed THEN 0 ELSE since[x][y]
    BY <1>11, <2>1, <2>4
  <2>6. here'[r] = IF row_To_QR_T'[r] # row_To_QR_T[r] THEN 0
                   ELSE (IF elapsed THEN 0 ELSE here[r]) + (IF r = row THEN 1 ELSE 0)
    BY <1>1
  <2> HIDE DEF x, y
  <2>7. here'[r] <= since'[x][y]
    BY <1>2, <2>2, <2>3, <2>5, <2>6
  <2> QED
    BY <2>7 DEF x, y
<1>13. \A r \in Rows : here'[r] <= since'[bankID(r)'][rowID(r)']
  BY <1>12 DEF bankID, rowID
<1> QED
  BY <1>2, <1>7, <1>8, <1>10, <1>13 DEF AquaInv

(* Nothing changes when no variable does. *)
LEMMA AquaUnchanged == AquaInv /\ UNCHANGED aquaVars => AquaInv'
<1> SUFFICES ASSUME AquaInv, UNCHANGED aquaVars PROVE AquaInv'
  OBVIOUS
<1>1. RQInv'
  BY UnchangedInv DEF AquaInv, aquaVars
<1>2. /\ UNCHANGED <<trackers, booted, detectorAborted>>
      /\ UNCHANGED <<acts, since, flags, here>>
  BY DEF aquaVars, detectorVars
<1>3. Tracking!TypeOK'
  BY <1>2 DEF AquaInv, Tracking!Inv, Tracking!TypeOK
<1>4. Tracking!NoAssertFails' /\ Tracking!DetectorInv'
  BY <1>2 DEF AquaInv, Tracking!Inv, Tracking!NoAssertFails, Tracking!DetectorInv
<1> QED
  BY <1>1, <1>2, <1>3, <1>4 DEF AquaInv, Tracking!Inv, bankID, rowID

(* The invariant holds always. *)
LEMMA AquaInvCorrect == AquaSpec => []AquaInv
<1>1. AquaInit => AquaInv
  BY AquaInitInv
<1>2. AquaInv /\ [AquaNext]_aquaVars => AquaInv'
  BY AquaStep, AquaUnchanged DEF AquaNext
<1> QED
  BY <1>1, <1>2, PTL DEF AquaSpec, aquaVars

(* The invariant leaves no aggressor where it is. *)
LEMMA InvMoves ==
    ASSUME AquaInv
    PROVE  AggressorMoves
<1> SUFFICES ASSUME NEW r \in Rows PROVE here[r] < threshold
  BY DEF AggressorMoves
<1>1. Tracking!TypeOK /\ booted /\ ~detectorAborted
  BY DEF AquaInv, Tracking!Inv, Tracking!NoAssertFails
<1>2. Tracking!NoMissedAggressor
  BY DetectorSized, Tracking!MissesNone DEF AquaInv
<1>3. bankID(r) \in 0 .. detectorBanks - 1 /\ rowID(r) \in Tracking!Rows
  BY DecodeOK
<1>4. since[bankID(r)][rowID(r)] < threshold
  BY <1>1, <1>2, <1>3 DEF Tracking!NoMissedAggressor
<1>5. since[bankID(r)][rowID(r)] \in Nat
  BY <1>1, <1>3 DEF Tracking!TypeOK
<1>6. here[r] \in Nat /\ here[r] <= since[bankID(r)][rowID(r)]
  BY DEF AquaInv
<1> QED
  BY <1>4, <1>5, <1>6, AquaAssumption

----------------------------------------------------------------------------
(* The theorems *)

(* No aggressor stays where it is, for any number of rows, banks, slots    *)
(* and cache blocks and any threshold: Misra_Gries::access flags the row   *)
(* in time and quarantineRow moves it.                                     *)
THEOREM AggressorsMove == AquaSpec => []AggressorMoves
<1>1. AquaInv => AggressorMoves
  BY InvMoves
<1> QED
  BY <1>1, AquaInvCorrect, PTL

(* An access of the two parts together costs at most two row moves and     *)
(* eight table accesses.                                                   *)
THEOREM AquaDelayIsBounded == AquaSpec => []DelayBounded
<1>1. AquaInv => DelayBounded
  BY DEF AquaInv, RQInv
<1> QED
  BY <1>1, AquaInvCorrect, PTL

(* AQUA implements RowIsolation: the tables keep the rows apart, an access *)
(* moves its own row and sends one other home at most, and no row reaches  *)
(* the threshold at one place.                                             *)
THEOREM RowsIsolated == AquaSpec => IsolationSpec
<1>1. AquaInit => Isolation!Init
  BY DEF AquaInit, Init, Isolation!Init
<1>2. ASSUME AquaInv, AggressorMoves', NEW row \in Rows, NEW elapsed \in BOOLEAN,
             AquaAccess(row, elapsed)
      PROVE  Isolation!Access(row, elapsed)
  <2>1. AquaInv'
    BY <1>2, AquaStep
  <2>2. PICK verdict \in BOOLEAN :
           /\ Access(row, verdict, elapsed)
           /\ here' = [r \in Rows |->
                 IF row_To_QR_T'[r] # row_To_QR_T[r] THEN 0
                 ELSE (IF elapsed THEN 0 ELSE here[r]) + (IF r = row THEN 1 ELSE 0)]
    BY <1>2, AquaParts
  <2>3. PICK b : \A x \in Rows \ {row} :
           row_To_QR_T'[x] = row_To_QR_T[x] \/ (x = b /\ row_To_QR_T'[x] = None)
    BY <1>2, <2>2, AccessStep DEF AquaInv
  <2>4. row_To_QR_T' \in [Rows -> QRIds \cup {None}] /\ TablesInverse'
    BY <2>1 DEF AquaInv, RQInv, TypeOK
  <2>5. Isolation!Apart(row_To_QR_T')
    <3> SUFFICES ASSUME NEW r \in Rows, NEW s \in Rows,
                        row_To_QR_T'[r] = row_To_QR_T'[s], row_To_QR_T'[r] # None
                 PROVE  r = s
      BY DEF Isolation!Apart
    <3>1. row_To_QR_T'[r] \in QRIds
      BY <2>4
    <3>2. QR_To_Row_T'[row_To_QR_T'[r]] = r /\ QR_To_Row_T'[row_To_QR_T'[r]] = s
      BY <2>4, <3>1 DEF TablesInverse
    <3> QED
      BY <3>2
  <2>6. Isolation!Moves(row, row_To_QR_T')
    <3> DEFINE others == {x \in Rows \ {row} : row_To_QR_T'[x] # row_To_QR_T[x]}
    <3>1. others \subseteq {} \cup {b} /\ \A x \in others : row_To_QR_T'[x] = None
      BY <2>3
    <3> HIDE DEF others
    <3>3. \A S : Isolation!Cardinality(S) = Cardinality(S)
      BY DEF Isolation!Cardinality, Cardinality
    <3>2. Cardinality(others) <= 1
      <4>1. IsFiniteSet({}) /\ Cardinality({}) = 0
        BY FS_EmptySet
      <4>2. Cardinality(others) <= Cardinality({}) + 1
        BY <3>1, <4>1, OneMore
      <4> QED
        BY <4>1, <4>2
    <3> QED
      BY <2>4, <2>5, <3>1, <3>2, <3>3 DEF Isolation!Moves, others
  <2>7. here'[row] < threshold
    BY <1>2 DEF AggressorMoves
  <2> QED
    BY <2>2, <2>6, <2>7 DEF Isolation!Access
<1>3. AquaInv /\ AggressorMoves' /\ [AquaNext]_aquaVars => [Isolation!Next]_<<row_To_QR_T, here>>
  <2> SUFFICES ASSUME AquaInv, AggressorMoves', [AquaNext]_aquaVars
               PROVE  [Isolation!Next]_<<row_To_QR_T, here>>
    OBVIOUS
  <2>1. CASE AquaNext
    BY <1>2, <2>1 DEF AquaNext, Isolation!Next
  <2>2. CASE UNCHANGED aquaVars
    BY <2>2 DEF aquaVars, vars, tables
  <2> QED
    BY <2>1, <2>2
<1> QED
  BY <1>1, <1>3, AquaInvCorrect, AggressorsMove, PTL
  DEF AquaSpec, IsolationSpec, Isolation!Spec, aquaVars
=============================================================================
