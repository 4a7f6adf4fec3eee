----------------------------- MODULE MCMemCtrl -----------------------------
(* Small instances of MemCtrl: reads and writes of one or two bursts, one  *)
(* write covering only part of its burst.                                  *)
EXTENDS MemCtrl

Part(b, s) == [burst |-> b, bytes |-> s]
MCReads     == {"readOne", "readTwo"}
MCPackets   == MCReads \cup {"writePart", "writeTwo", "writeMore"}
MCPieces    ==
    [p \in MCPackets |->
        CASE p = "readOne"   -> <<Part(1, {1, 2})>>
          [] p = "readTwo"   -> <<Part(1, {1}), Part(2, {1, 2})>>
          [] p = "writePart" -> <<Part(1, {1})>>
          [] p = "writeTwo"  -> <<Part(2, {1, 2}), Part(3, {1, 2})>>
          [] p = "writeMore" -> <<Part(4, {1}), Part(5, {1})>>]

(* One rank, and enough writes for the hysteresis of the thresholds. *)
OneRankOf == <<1, 1, 1, 1, 1>>

(* Two ranks: a split read, and a split write, go to both. *)
TwoRanks   == {1, 2}
TwoRankOf  == <<1, 2, 1, 2, 1>>
FewPackets == MCReads \cup {"writeTwo"}
DrainPackets == FewPackets \cup {"writePart"}
=============================================================================
