-------------------------------- MODULE Aqua --------------------------------
(***************************************************************************)
(* AQUA as a whole: Row_Quarantine::access of                              *)
(* gem5/src/mem/rowhammer_mitigation.cc with the Misra-Gries detector in   *)
(* the place of the arbitrary verdicts of module RowQuarantine.            *)
(*                                                                         *)
(* The quarantine knows the rows of the whole memory, the detector a bank  *)
(* and a row of it: decodeAddr translates, and both must mean the same row *)
(* when a row that the one has counted is moved by the other.              *)
(***************************************************************************)
EXTENDS RowQuarantine

CONSTANTS
    detectorBanks,   \* banks the detector tells apart (16, hard-coded)
    ActsPerWindow, threshold

ASSUME AquaAssumption ==
    /\ {detectorBanks, ActsPerWindow, threshold} \subseteq Nat \ {0}
    /\ numRows % detectorBanks = 0
    /\ threshold <= ActsPerWindow

VARIABLES
    trackers, booted, detectorAborted, acts, since, flags,
    here             \* history: [Rows -> Nat], accesses of the row in this
                     \* window at the place where it is now

detectorVars == <<trackers, booted, detectorAborted, acts, since, flags>>

Detector == INSTANCE MisraGries WITH
    Banks <- 0 .. detectorBanks - 1, numRows <- numRows \div detectorBanks,
    ColdStart <- TRUE, InitialSpill <- {0}, aborted <- detectorAborted

(* Seeded fault: the bank is taken from the high part of the row, the row  *)
(* in the bank as before.                                                  *)
BankIDHigh(row) == row \div (numRows \div detectorBanks)

bankID(row) == row % detectorBanks
rowID(row)  == (row \div detectorBanks) % (numRows \div detectorBanks)

AquaInit ==
    /\ Init
    /\ Detector!Init
    /\ here = [r \in Rows |-> 0]

(* One access: the detector counts it and says whether the row is moved. *)
AquaAccess(row, elapsed) ==
    LET bank    == bankID(row)
        verdict == Detector!Detected(Detector!Window(elapsed)[bank], rowID(row))
    IN  /\ Detector!Access(bank, rowID(row), elapsed)
        /\ Access(row, verdict, elapsed)
        /\ here' = [r \in Rows |->
              IF row_To_QR_T'[r] # row_To_QR_T[r] THEN 0
              ELSE (IF elapsed THEN 0 ELSE here[r]) + (IF r = row THEN 1 ELSE 0)]

AquaNext == \E row \in Rows, elapsed \in BOOLEAN : AquaAccess(row, elapsed)

AquaSpec == AquaInit /\ [][AquaNext]_<<vars, detectorVars, here>>

(* No aggressor stays where it is: whatever the detector evicts and spills *)
(* and the quarantine moves, pushes out and drains, a row is accessed less *)
(* than threshold times in a window at one place.                          *)
AggressorMoves == \A r \in Rows : here[r] < threshold

(* AQUA isolates aggressors as module RowIsolation says: rows do not share *)
(* a place, and one access moves its own row and sends one other row home  *)
(* at most.                                                                *)
Isolation == INSTANCE RowIsolation WITH
    Places <- QRIds, Home <- None, place <- row_To_QR_T
IsolationSpec == Isolation!Spec
=============================================================================
