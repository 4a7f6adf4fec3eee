----------------------------- MODULE MCDRAMRank -----------------------------
(* Small instances of DRAMRank.  The banks of a rank are alike. *)
EXTENDS DRAMRank

BankSymmetry == Permutations(Banks)
=============================================================================
