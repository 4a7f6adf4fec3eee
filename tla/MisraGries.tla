---------------------------- MODULE MisraGries ----------------------------
(***************************************************************************)
(* The aggressor detector: class Misra_Gries of                            *)
(* gem5/src/mem/rowhammer_detector.{hh,cc}.  One tracker per bank holds    *)
(* numEntries counted rows and a spill counter; access() counts a row and  *)
(* says whether it must be mitigated, reset() starts a new 64 ms window.   *)
(* The mitigations call reset() only at the beginning of an access, so an  *)
(* Access step carries the flag `elapsed' that says whether it does.       *)
(***************************************************************************)
EXTENDS Integers, FiniteSets, FiniteSetsExt

CONSTANTS
    Banks,          \* the (channel, rank, bank) triples; each has its tracker
    numRows,        \* rows per bank
    ActsPerWindow,  \* accesses a bank can take in 64 ms (1360000 in mem_ctrl.cc)
    threshold,      \* a row is flagged every `threshold' counted accesses
    ColdStart,      \* TRUE: the first access may come less than 64 ms after
                    \* tick 0, so that no reset() precedes it
    InitialSpill    \* what the uninitialised spill_counter may hold

ASSUME MGAssumption ==
    /\ numRows \in Nat \ {0}
    /\ threshold \in Nat \ {0}
    /\ ActsPerWindow \in Nat
    /\ threshold <= ActsPerWindow
    /\ ColdStart \in BOOLEAN
    /\ InitialSpill \subseteq Nat

(* The controller sizes the tracker: rh_mg_entries = 1360000/rh_threshold. *)
numEntries == ActsPerWindow \div threshold

Rows  == 0 .. numRows - 1
Slots == 0 .. numEntries - 1

Tracker_Entry == [valid : BOOLEAN, addr : Rows, count : Nat]
Tracker == [entries       : [Slots -> Tracker_Entry],
            rowHasEntry   : [Rows -> 0 .. numEntries],
            spill_counter : Nat]

VARIABLES
    trackers,   \* [Banks -> Tracker]
    booted,     \* may access() run without a reset() first?
    aborted,    \* an assert of the code has failed
    (* history, written by no code: *)
    acts,       \* [Banks -> Nat]: accesses of the bank in this window
    since,      \* [Banks -> [Rows -> Nat]]: accesses of the row in this window
                \* since it was last flagged
    flags       \* [Banks -> Nat]: rows flagged in this window

vars == <<trackers, booted, aborted, acts, since, flags>>

----------------------------------------------------------------------------
(* One tracker.  `t' is a tracker, `r' a row.                              *)

EmptyEntry == [valid |-> FALSE, addr |-> 0, count |-> 0]

Started(spill) == [entries       |-> [i \in Slots |-> EmptyEntry],
                   rowHasEntry   |-> [r \in Rows |-> 0],
                   spill_counter |-> spill]

Cleared == Started(0)

(* Seeded fault: a reset() that forgets the spill counter. *)
ClearedKeepingSpill(t) == [t EXCEPT !.entries = Cleared.entries,
                                    !.rowHasEntry = Cleared.rowHasEntry]

Reset(t) == Cleared

(* A functional lookup (isFuncLookup) only asks whether the row is tracked. *)
HasEntry(t, r) == t.rowHasEntry[r] # 0
EntryID(t, r)  == t.rowHasEntry[r] - 1

Matches(t, i) == t.entries[i].count = t.spill_counter

(* The slots at which the scan for a victim ends, one way or the other. *)
Stops(t) == {i \in Slots : Matches(t, i) \/ ~t.entries[i].valid}

AssertFails(t, r) ==
    IF HasEntry(t, r)
    THEN LET e == t.entries[EntryID(t, r)] IN ~(e.valid /\ e.addr = r)
    ELSE Stops(t) # {} /\ ~Matches(t, Min(Stops(t)))

Count(t, i, r) == [valid |-> TRUE, addr |-> r, count |-> t.entries[i].count + 1]

Hit(t, r) ==
    LET i == EntryID(t, r)
    IN  [entries       |-> [t.entries EXCEPT ![i] = Count(t, i, r)],
         rowHasEntry   |-> t.rowHasEntry,
         spill_counter |-> t.spill_counter]

(* Seeded faults: the evicted row keeps its index entry; it gets the mark  *)
(* -1 that other tables use for `none', where 0 means none here.           *)
IndexKeepingEvicted(t, i, r) == [t.rowHasEntry EXCEPT ![r] = i + 1]
IndexMinusOne(t, i, r) ==
    [x \in Rows |-> IF x = r THEN i + 1
                    ELSE IF t.entries[i].valid /\ x = t.entries[i].addr THEN -1
                    ELSE t.rowHasEntry[x]]

Index(t, i, r) ==
    [x \in Rows |-> IF x = r THEN i + 1
                    ELSE IF t.entries[i].valid /\ x = t.entries[i].addr THEN 0
                    ELSE t.rowHasEntry[x]]

Install(t, i, r) ==
    [entries       |-> [t.entries EXCEPT ![i] = Count(t, i, r)],
     rowHasEntry   |-> Index(t, i, r),
     spill_counter |-> t.spill_counter]

(* Seeded fault: the spill counter stays where it is. *)
NoSpill(t) == t

Spill(t) == [entries       |-> t.entries,
             rowHasEntry   |-> t.rowHasEntry,
             spill_counter |-> t.spill_counter + 1]

Counted(t, r) ==
    IF HasEntry(t, r) THEN Hit(t, r)
    ELSE IF Stops(t) # {} THEN Install(t, Min(Stops(t)), r)
    ELSE Spill(t)

(* Seeded faults: flag a row one access late; flag it at every access past *)
(* the threshold.                                                          *)
FlagsLate(n) == n > threshold /\ n % threshold = 1 % threshold
FlagsAlways(n) == n >= threshold

Flags(n) == n % threshold = 0

(* What access() returns: the row was counted in a slot, and the count is  *)
(* a multiple of the threshold.                                            *)
Detected(t, r) ==
    IF HasEntry(t, r) THEN Flags(t.entries[EntryID(t, r)].count + 1)
    ELSE Stops(t) # {} /\ Flags(t.entries[Min(Stops(t))].count + 1)

----------------------------------------------------------------------------
(* The constructor zeroes the tables with calloc; spill_counter, a member  *)
(* of an object made with new Tracker[], holds whatever the memory held.   *)
Init ==
    /\ \E spill \in [Banks -> InitialSpill] :
          trackers = [b \in Banks |-> Started(spill[b])]
    /\ booted = ColdStart
    /\ aborted = FALSE
    /\ acts  = [b \in Banks |-> 0]
    /\ since = [b \in Banks |-> [r \in Rows |-> 0]]
    /\ flags = [b \in Banks |-> 0]

(* The trackers an access finds, after the reset() that may precede it. *)
Window(elapsed) == [b \in Banks |-> IF elapsed THEN Reset(trackers[b])
                                               ELSE trackers[b]]

(* One access of row r of bank b. *)
Access(b, r, elapsed) ==
    LET ts  == Window(elapsed)
        hit == Detected(ts[b], r)
    IN  /\ ~aborted
        /\ elapsed \/ (booted /\ acts[b] < ActsPerWindow)
        /\ booted' = TRUE
        /\ aborted' = AssertFails(ts[b], r)
        /\ trackers' = [ts EXCEPT ![b] = IF aborted' THEN @ ELSE Counted(@, r)]
        /\ acts' = [x \in Banks |-> (IF elapsed THEN 0 ELSE acts[x])
                                    + (IF x = b THEN 1 ELSE 0)]
        /\ since' = [x \in Banks |-> [y \in Rows |->
                        IF x = b /\ y = r
                        THEN IF hit THEN 0
                             ELSE IF elapsed THEN 1 ELSE since[x][y] + 1
                        ELSE IF elapsed THEN 0 ELSE since[x][y]]]
        /\ flags' = [x \in Banks |-> (IF elapsed THEN 0 ELSE flags[x])
                                     + (IF x = b /\ hit THEN 1 ELSE 0)]

Next == \E b \in Banks, r \in Rows, elapsed \in BOOLEAN : Access(b, r, elapsed)

Spec == Init /\ [][Next]_vars

----------------------------------------------------------------------------
(* Type invariant. *)
TypeOK ==
    /\ trackers \in [Banks -> Tracker]
    /\ booted \in BOOLEAN
    /\ aborted \in BOOLEAN
    /\ acts  \in [Banks -> 0 .. ActsPerWindow]
    /\ since \in [Banks -> [Rows -> Nat]]
    /\ flags \in [Banks -> Nat]

(* No assert of access() ever fails: the row index leads to a valid slot   *)
(* holding that row (rowhammer_detector.cc:57), and the scan never reaches *)
(* an unused slot that does not match the spill counter (line 93).         *)
NoAssertFails == ~aborted

(* No aggressor escapes: a row is flagged before it is accessed threshold  *)
(* times since the last flag, however the evictions and the spill counter  *)
(* moved its count about, as long as the bank takes no more accesses in a  *)
(* window than the tracker was sized for.                                  *)
NoMissedAggressor ==
    booted /\ ~aborted =>
        \A b \in Banks, r \in Rows : since[b][r] < threshold

(* A bank asks for at most one mitigation per threshold accesses, so for   *)
(* at most numEntries of them in a window: what the quarantine region and  *)
(* the row-swap table are sized for.                                       *)
MitigationBudget ==
    \A b \in Banks : flags[b] * threshold <= acts[b] /\ flags[b] <= numEntries

----------------------------------------------------------------------------
(* The inductive invariant of one tracker t whose bank has taken n accesses *)
(* in this window, with f rows flagged and s[r] accesses of row r since it *)
(* was flagged.                                                            *)

(* The row index and the slots describe the same set of tracked rows. *)
IndexCorrect(t) ==
    \A r \in Rows, i \in Slots :
        t.rowHasEntry[r] = i + 1 <=> t.entries[i].valid /\ t.entries[i].addr = r

(* A slot never falls behind the spill counter, an unused one is at zero. *)
SlotsAhead(t) ==
    \A i \in Slots : /\ t.spill_counter <= t.entries[i].count
                     /\ ~t.entries[i].valid => t.entries[i].count = 0

(* A tracked row has not been accessed more often since it was flagged     *)
(* than its count says, an untracked one no more often than the spill      *)
(* counter says.                                                           *)
NeverUnderestimates(t, s) ==
    \A r \in Rows :
        IF HasEntry(t, r)
        THEN s[r] <= t.entries[EntryID(t, r)].count % threshold
        ELSE s[r] <= t.spill_counter

(* One token per count of a slot, and one per count since the last flag. *)
Tokens(t) ==
    {x \in Slots \X (1 .. ActsPerWindow) : x[2] <= t.entries[x[1]].count}
OpenTokens(t) ==
    {x \in Slots \X (1 .. threshold) : x[2] <= t.entries[x[1]].count % threshold}

(* Every access of the window was counted exactly once, in a slot or in    *)
(* the spill counter, and every flag used up threshold of the counts.      *)
Accounted(t, n, f) ==
    /\ Cardinality(Tokens(t)) + t.spill_counter = n
    /\ Cardinality(OpenTokens(t)) + threshold * f + t.spill_counter = n

TrackerInv(t, n, s, f) ==
    /\ IndexCorrect(t)
    /\ SlotsAhead(t)
    /\ NeverUnderestimates(t, s)
    /\ Accounted(t, n, f)

(* The Misra-Gries estimate is right in every bank: access() keeps the     *)
(* index, the slot counts and the spill counter in step with the accesses  *)
(* the bank really took since reset().                                     *)
DetectorInv ==
    booted /\ ~aborted =>
        \A b \in Banks : TrackerInv(trackers[b], acts[b], since[b], flags[b])
=============================================================================
