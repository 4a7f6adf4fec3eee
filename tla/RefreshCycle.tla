---------------------------- MODULE RefreshCycle ----------------------------
(***************************************************************************)
(* A rank's refresh as the queues of the memory controller see it: what    *)
(* module MemCtrl assumes of the ranks and module DRAMRank implements.     *)
(*                                                                         *)
(* A refresh that comes due while a turn of the scheduling loop is pending *)
(* may wait for that turn; from then on the rank takes no burst until it   *)
(* is refreshed.  By then every read of the rank has been answered, and    *)
(* the loop is running again.                                              *)
(***************************************************************************)
EXTENDS Integers

CONSTANT Ranks

VARIABLES
    view,       \* [Ranks -> {"idle", "drain", "busy"}]
    loop,       \* is a turn of the scheduling loop pending?
    flying      \* [Ranks -> Nat]: reads issued and not answered

vars == <<view, loop, flying>>

Init ==
    /\ view = [r \in Ranks |-> "idle"]
    /\ loop = FALSE
    /\ flying = [r \in Ranks |-> 0]

Due(r) ==
    /\ view[r] = "idle"
    /\ \E v \in {"busy"} \cup (IF loop THEN {"drain"} ELSE {}) :
          view' = [view EXCEPT ![r] = v]
    /\ UNCHANGED <<loop, flying>>

Done(r) ==
    /\ view[r] = "busy" /\ flying[r] = 0
    /\ view' = [view EXCEPT ![r] = "idle"]
    /\ loop' = TRUE
    /\ UNCHANGED flying

(* One turn: it lets every rank that waited for it go on, issues at most   *)
(* one burst, to an idle rank, and the loop may go on or stop.             *)
Turn ==
    /\ loop
    /\ loop' \in BOOLEAN
    /\ view' = [r \in Ranks |-> IF view[r] = "drain" THEN "busy" ELSE view[r]]
    /\ \/ UNCHANGED flying
       \/ \E r \in Ranks : /\ view[r] = "idle"
                           /\ flying' = [flying EXCEPT ![r] = @ + 1]

Answer(r) ==
    /\ flying[r] > 0
    /\ flying' = [flying EXCEPT ![r] = @ - 1]
    /\ UNCHANGED <<view, loop>>

(* A request, or a drain, starts the loop. *)
Kick == loop' = TRUE /\ UNCHANGED <<view, flying>>

Next == (\E r \in Ranks : Due(r) \/ Done(r) \/ Answer(r)) \/ Turn \/ Kick

Spec == Init /\ [][Next]_vars
=============================================================================
