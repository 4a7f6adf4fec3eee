---------------------------- MODULE BlockHammer ----------------------------
(***************************************************************************)
(* The throttling mitigation: class BlockHammer of                         *)
(* gem5/src/mem/rowhammer_mitigation.cc.  Every access of a row is         *)
(* counted; from BlackListThreshold accesses in a window on, an access is  *)
(* answered late, so that what is left of the row's threshold is spread    *)
(* over what is left of the window.                                        *)
(*                                                                         *)
(* access() is called for every burst put into a queue, read or write, but *)
(* MC_delay is added only to the answer of a read (mem_ctrl.cc:634, 646):  *)
(* a write is answered at once (499), and a read of several bursts with    *)
(* the delay of the one served last.  It is not added to the commands of   *)
(* the row, so it throttles a row only if the next access of the row waits *)
(* for that answer, which nothing obliges a requester to do.  Accesses of  *)
(* both kinds therefore come at any time here, and a history variable      *)
(* tells the rows the delays have held back from the others.               *)
(*                                                                         *)
(* Time is a number of ticks; age, the time since last_reset, stops at     *)
(* Window, since access() only asks whether the window is over.            *)
(***************************************************************************)
EXTENDS Integers

CONSTANTS
    Rows,               \* the rows, of all banks
    Window,             \* 64 ms in ticks
    threshold,          \* rh_actual_threshold / 2
    BlackListThreshold, \* a percentage of threshold
    WordSize,           \* 2^32: the differences of access() are unsigned
    MaxLatency          \* bound: ticks until a read is answered, MC_delay apart

ASSUME BlockHammerAssumption ==
    /\ Window \in Nat \ {0} /\ threshold \in Nat \ {0}
    /\ BlackListThreshold \in 0 .. threshold
    /\ WordSize \in Nat /\ WordSize > threshold + 1
    /\ MaxLatency \in Nat

VARIABLES
    numAccessesToRow,  \* [Rows -> Nat]
    age,               \* currTick - last_reset
    wait,              \* ticks until the row's outstanding reads are answered
    aborted,           \* access() has divided by zero
    recent,            \* history: recent[r][k] is the number of accesses of r in
                       \* the last k ticks, the current one included
    heldBack,          \* history: no delay of the row in this window was dropped,
                       \* and no access of it came before an answer
    heldBefore         \* history: heldBack at the end of the window before

vars == <<numAccessesToRow, age, wait, aborted, recent, heldBack, heldBefore>>

(* The numbers of ticks over which the history counts. *)
Spans == 1 .. Window

----------------------------------------------------------------------------
Expired == age >= Window

(* reset(), when access() finds the window over. *)
Counts == IF Expired THEN [r \in Rows |-> 0] ELSE numAccessesToRow
Age == IF Expired THEN 0 ELSE age

(* Seeded fault: the row is slowed down once it is over the threshold. *)
BlackListedLate(n) == n >= threshold

BlackListed(n) == n >= BlackListThreshold

ACTs_Remaining(n) == IF threshold > n - 1 THEN (threshold - n - 1) % WordSize
                                          ELSE 1

(* Seeded fault: the time past is added to the window, not taken off it. *)
TimePastAdded == Window + Age

Time_Remaining == Window - Age

(* Seeded fault: the time left is shared out to one access too many. *)
SharedByOneMore(n) == Time_Remaining \div (ACTs_Remaining(n) + 1)

MC_delay(n) == Time_Remaining \div ACTs_Remaining(n)

----------------------------------------------------------------------------
Init ==
    /\ numAccessesToRow = [r \in Rows |-> 0]
    /\ age \in {0, Window}     \* the simulation may start in any tick
    /\ wait = [r \in Rows |-> 0]
    /\ aborted = FALSE
    /\ recent = [r \in Rows |-> [k \in Spans |-> 0]]
    /\ heldBack = [r \in Rows |-> TRUE]
    /\ heldBefore = [r \in Rows |-> TRUE]

(* The delay access() decides on for the n-th access of a row. *)
Delay(n) == IF BlackListed(n) /\ ACTs_Remaining(n) # 0 THEN MC_delay(n) ELSE 0

(* access() of row r, whose delay the requester feels or not.              *)
access(r, felt) ==
    LET n == Counts[r] + 1
    IN  /\ ~aborted
        /\ numAccessesToRow' = [Counts EXCEPT ![r] = n]
        /\ age' = Age
        /\ aborted' = (BlackListed(n) /\ ACTs_Remaining(n) = 0)
        /\ recent' = [recent EXCEPT ![r] = [k \in Spans |-> @[k] + 1]]
        /\ heldBack' = [s \in Rows |->
               /\ Expired \/ heldBack[s]
               /\ s = r => wait[r] = 0 /\ (felt \/ Delay(n) = 0)]
        /\ heldBefore' = IF Expired THEN heldBack ELSE heldBefore

(* A read of one burst, or the burst of a split read that is served last:  *)
(* answered MC_delay later than it would be.                               *)
Read(r, latency) ==
    /\ access(r, TRUE)
    /\ LET answered == latency + Delay(Counts[r] + 1)
       IN  wait' = [wait EXCEPT ![r] = IF answered > @ THEN answered ELSE @]

(* A write, or any other burst of a split read: its delay is dropped. *)
Write(r) == access(r, FALSE) /\ UNCHANGED wait

(* A tick passes. *)
Tick ==
    /\ ~aborted
    /\ age' = IF Expired THEN age ELSE age + 1
    /\ wait' = [r \in Rows |-> IF wait[r] = 0 THEN 0 ELSE wait[r] - 1]
    /\ recent' = [r \in Rows |->
                    [k \in Spans |-> IF k = 1 THEN 0 ELSE recent[r][k - 1]]]
    /\ UNCHANGED <<numAccessesToRow, aborted, heldBack, heldBefore>>

Next ==
    \/ Tick
    \/ \E r \in Rows, latency \in 0 .. MaxLatency : Read(r, latency)
    \/ \E r \in Rows : Write(r)

Spec == Init /\ [][Next]_vars

----------------------------------------------------------------------------
(* Type invariant.  MC_delay never puts an answer off beyond the end of    *)
(* the window.                                                             *)
TypeOK ==
    /\ numAccessesToRow \in [Rows -> Nat]
    /\ age \in 0 .. Window
    /\ wait \in [Rows -> Nat]
    /\ \A r \in Rows : wait[r] <= Window - age + MaxLatency
    /\ aborted \in BOOLEAN
    /\ recent \in [Rows -> [Spans -> Nat]]
    /\ heldBack \in [Rows -> BOOLEAN] /\ heldBefore \in [Rows -> BOOLEAN]

(* The quotient of rowhammer_mitigation.cc:1130 is undefined, and the      *)
(* simulation ends, only at access threshold - 1 of a row in a window, and *)
(* only if a delay of the row was dropped in that window or an access of   *)
(* it did not wait: the delays alone would have kept it from there.        *)
DividesOnlyUnheld ==
    aborted => \E r \in Rows : /\ ~heldBack[r]
                              /\ numAccessesToRow[r] = threshold - 1

(* What threshold was halved for (mem_ctrl.cc:162, "To account for reset   *)
(* mismatch in CBF and DRAM row"), of the rows it can hold for: a row held *)
(* back through this window and the one before has fewer than              *)
(* rh_actual_threshold accesses in any Window ticks, wherever they start,  *)
(* whatever the other rows do and whoever resets the counters.             *)
HeldBelowActualThreshold ==
    \A r \in Rows :
        heldBack[r] /\ heldBefore[r] => recent[r][Window] < 2 * threshold
=============================================================================
