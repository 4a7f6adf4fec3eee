----------------------------- MODULE MemService -----------------------------
(***************************************************************************)
(* What the memory controller of gem5/src/mem/mem_ctrl.cc promises to the  *)
(* requestor behind its port, whatever its queues, thresholds and ranks    *)
(* do: a request it has accepted is answered, once, and it never holds     *)
(* more unanswered requests than its read buffer has entries.              *)
(*                                                                         *)
(* owed[p] is the number of times packet p was accepted less the number of *)
(* responses to it.  A write, and a read that the write queue covers, are  *)
(* answered as they are accepted and owe nothing.                          *)
(***************************************************************************)
EXTENDS FiniteSets, Integers

CONSTANTS Packets, Capacity

VARIABLE owed

Pending == {p \in Packets : owed[p] = 1}

Init == owed = [p \in Packets |-> 0]

Accept(p) ==
    /\ owed[p] = 0
    /\ Cardinality(Pending) < Capacity
    /\ owed' = [owed EXCEPT ![p] = 1]

Answer(p) ==
    /\ owed[p] = 1
    /\ owed' = [owed EXCEPT ![p] = 0]

Next == \E p \in Packets : Accept(p) \/ Answer(p)

Spec == Init /\ [][Next]_owed /\ \A p \in Packets : WF_owed(Answer(p))
=============================================================================
