------------------------- MODULE RandomizedRowSwap -------------------------
(***************************************************************************)
(* The row-swap mitigation: class Randomized_Row_Swap of                   *)
(* gem5/src/mem/rowhammer_mitigation.cc.  A flagged row X is swapped with  *)
(* a random row; the row-indirection table (RIT) of the bank holds the     *)
(* pairs.  Pairs made in the current window are locked; when the table has *)
(* more than maxValidTuples pairs an unlocked one is swapped back.         *)
(*                                                                         *)
(* The module is one bank: the code keeps one table per bank, and an       *)
(* access touches the table of its bank only, except that reset() unlocks  *)
(* the pairs of all of them.  The detector's verdict is a parameter; what  *)
(* is known of it is its budget, at most one mitigation per detector entry *)
(* in a window (MitigationBudget of MisraGries).                           *)
(***************************************************************************)
EXTENDS Integers, FiniteSets, FiniteSetsExt

CONSTANTS
    Rows,            \* the rows of the bank
    NoRow,           \* the rows of an invalid pair; the code never reads them
    maxValidTuples,  \* 2 * rh_mg_entries
    numTuples        \* 1.428571 * maxValidTuples, rounded down

(* rh_rrs_tuples = 2 * rh_mg_entries, so this is the number of entries of  *)
(* the detector, and of mitigations in a window.                           *)
numEntries == maxValidTuples \div 2

(* A bank has more rows than are in pairs, avoided or tracked at a time.   *)
(* The second conjunct fails in the code only for a one-entry detector.    *)
ASSUME RRSAssumption ==
    /\ IsFiniteSet(Rows) /\ NoRow \notin Rows
    /\ numTuples \in Nat /\ numTuples > maxValidTuples
    /\ maxValidTuples \in Nat \ {0} /\ maxValidTuples % 2 = 0
    /\ Cardinality(Rows) > 2 * maxValidTuples + 1 + numEntries

Tuples == 0 .. numTuples - 1

VARIABLES
    tuples,        \* [Tuples -> RIT_Entry]
    rowHasEntry,   \* [Rows -> 0 .. numTuples]
    valid_tuples,
    validAddrs,    \* addresses in the last decision, two per swap
    aborted,       \* an assert of the code has failed
    swaps,         \* history: mitigations of this window
    swapped        \* history: rows mitigated in this window

vars == <<tuples, rowHasEntry, valid_tuples, validAddrs, aborted, swaps, swapped>>

NoPair == [valid |-> FALSE, locked |-> FALSE,
           origRowID |-> NoRow, remappedRowID |-> NoRow]
LockedPair(x, y) == [valid |-> TRUE, locked |-> TRUE,
                     origRowID |-> x, remappedRowID |-> y]

RIT_Entry == {NoPair} \cup
    [valid : {TRUE}, locked : BOOLEAN, origRowID : Rows, remappedRowID : Rows]

(* The two rows of a valid pair, and the pair of a row. *)
Pair(tu) == {tu.origRowID, tu.remappedRowID}
Partner(tu, x) == IF tu.origRowID = x THEN tu.remappedRowID ELSE tu.origRowID

(* Seeded fault: the locks outlive their window. *)
KeepLocks(ts) == ts

(* reset(): the pairs of the ended window may be undone from now on. *)
Unlock(ts) == [i \in Tuples |-> [ts[i] EXCEPT !.locked = FALSE]]

----------------------------------------------------------------------------
(* insertTuple, step by step on a table t = [tuples, rowHasEntry,          *)
(* valid_tuples].                                                          *)

Table(elapsed) == [tuples |-> IF elapsed THEN Unlock(tuples) ELSE tuples,
                   rowHasEntry |-> rowHasEntry,
                   valid_tuples |-> valid_tuples]

(* Seeded fault: a row that is already swapped may be drawn. *)
EligibleAnyRow(t, avoid) == Rows \ {avoid}

(* generateRandomRowAddr: ten random draws, then a search.  Any row with   *)
(* no pair, other than the one to avoid, may come out, unless the detector *)
(* tracks it.                                                              *)
Eligible(t, avoid) == {y \in Rows \ {avoid} : t.rowHasEntry[y] = 0}

(* The assert of line 218: whichever rows the detector tracks, one more is *)
(* eligible.                                                               *)
Draws(t, avoid) == Cardinality(Eligible(t, avoid)) > numEntries

Free(t) == {i \in Tuples : ~t.tuples[i].valid}

(* Put the pair <x, y> into the first free tuple, if there is one. *)
Install(t, x, y) ==
    LET i == Min(Free(t))
    IN  IF Free(t) = {} THEN t
        ELSE [tuples       |-> [t.tuples EXCEPT ![i] = LockedPair(x, y)],
              rowHasEntry  |-> [t.rowHasEntry EXCEPT ![x] = i + 1, ![y] = i + 1],
              valid_tuples |-> t.valid_tuples + 1]

EntryID(t, x) == t.rowHasEntry[x] - 1

(* <X, A> becomes <X, Y>; A is left without a pair. *)
Reswap(t, x, y) ==
    LET i == EntryID(t, x)
        p == t.tuples[i]
        q == IF p.origRowID = x THEN LockedPair(x, y) ELSE LockedPair(y, x)
    IN  [tuples       |-> [t.tuples EXCEPT ![i] = q],
         rowHasEntry  |-> [t.rowHasEntry EXCEPT ![Partner(p, x)] = 0, ![y] = i + 1],
         valid_tuples |-> t.valid_tuples]

(* Seeded fault: the lock is not looked at. *)
AnyValid(t) == {i \in Tuples : t.tuples[i].valid}

Unswappable(t) == {i \in Tuples : t.tuples[i].valid /\ ~t.tuples[i].locked}

(* Seeded fault: the rows of the pair stay in the invalid tuple. *)
UnswapStale(t) ==
    LET i == Min(Unswappable(t))
        p == t.tuples[i]
    IN  [tuples       |-> [t.tuples EXCEPT ![i].valid = FALSE],
         rowHasEntry  |-> [t.rowHasEntry EXCEPT ![p.origRowID] = 0,
                                                ![p.remappedRowID] = 0],
         valid_tuples |-> t.valid_tuples - 1]

(* Swap back the first pair that is not locked. *)
Unswap(t) ==
    LET i == Min(Unswappable(t))
        p == t.tuples[i]
    IN  [tuples       |-> [t.tuples EXCEPT ![i] = NoPair],
         rowHasEntry  |-> [t.rowHasEntry EXCEPT ![p.origRowID] = 0,
                                                ![p.remappedRowID] = 0],
         valid_tuples |-> t.valid_tuples - 1]

Overfull(t) == t.valid_tuples > maxValidTuples

(* The table with the new pair(s), before the eviction: y is the row drawn *)
(* for X, b the row drawn for its former partner A.                        *)
IsReswap(t, x) == t.rowHasEntry[x] # 0
Former(t, x) == Partner(t.tuples[EntryID(t, x)], x)

----------------------------------------------------------------------------
Init ==
    /\ tuples = [i \in Tuples |-> NoPair]
    /\ rowHasEntry = [r \in Rows |-> 0]
    /\ valid_tuples = 0
    /\ validAddrs = 0
    /\ aborted = FALSE
    /\ swaps = 0 /\ swapped = {}

(* Seeded fault: swapping back is not charged. *)
Uncharged(t, addrs) == addrs

(* The addresses of the decision: two more for a pair swapped back. *)
Charged(t, addrs) == addrs + (IF Overfull(t) THEN 2 ELSE 0)

(* The eviction at the end of insertTuple, and the asserts around it. *)
Finish(t, x, addrs, elapsed) ==
    /\ LET u == IF Overfull(t) /\ Unswappable(t) # {} THEN Unswap(t) ELSE t
       IN  /\ aborted' = (u.valid_tuples > maxValidTuples)
           /\ tuples' = u.tuples
           /\ rowHasEntry' = u.rowHasEntry
           /\ valid_tuples' = u.valid_tuples
    /\ validAddrs' = Charged(t, addrs)
    /\ swaps' = 1 + (IF elapsed THEN 0 ELSE swaps)
    /\ swapped' = {x} \cup (IF elapsed THEN {} ELSE swapped)

(* access() of a flagged row that is not swapped: install <X, Y>. *)
AccessInstall(x, elapsed) ==
    LET t == Table(elapsed)
    IN  /\ ~aborted
        /\ elapsed \/ swaps < numEntries
        /\ ~IsReswap(t, x)
        /\ \E y \in Eligible(t, x) : Finish(Install(t, x, y), x, 2, elapsed)

(* access() of a flagged row X that is in a pair <X, A>: <X, Y>, <A, B>. *)
AccessReswap(x, elapsed) ==
    LET t == Table(elapsed)
        a == Former(t, x)
    IN  /\ ~aborted
        /\ elapsed \/ swaps < numEntries
        /\ IsReswap(t, x)
        /\ \E y \in Eligible(t, x) :
             LET u == Reswap(t, x, y)
             IN  \E b \in Eligible(u, a) : Finish(Install(u, a, b), x, 4, elapsed)

(* access() of a row that is not flagged. *)
AccessOnly(elapsed) ==
    /\ ~aborted
    /\ tuples' = Table(elapsed).tuples
    /\ validAddrs' = 0
    /\ swaps' = IF elapsed THEN 0 ELSE swaps
    /\ swapped' = IF elapsed THEN {} ELSE swapped
    /\ UNCHANGED <<rowHasEntry, valid_tuples, aborted>>

(* Every access of another bank that finds the window over resets this     *)
(* bank too; it is AccessOnly(TRUE) but for the decision.                  *)
Next ==
    \/ \E x \in Rows, elapsed \in BOOLEAN :
          AccessInstall(x, elapsed) \/ AccessReswap(x, elapsed)
    \/ \E elapsed \in BOOLEAN : AccessOnly(elapsed)

Spec == Init /\ [][Next]_vars

----------------------------------------------------------------------------
(* Type invariant. *)
TypeOK ==
    /\ tuples \in [Tuples -> RIT_Entry]
    /\ rowHasEntry \in [Rows -> 0 .. numTuples]
    /\ valid_tuples \in 0 .. numTuples
    /\ validAddrs \in Nat
    /\ aborted \in BOOLEAN
    /\ swaps \in 0 .. numEntries
    /\ swapped \subseteq Rows

(* No assert fails.  A pair that is not locked can always be found when    *)
(* one must go (rowhammer_mitigation.cc:176, 178): a window locks at most  *)
(* two pairs per mitigation, which is what the table was sized for.  And   *)
(* there is always a row to draw (line 218), also for the second draw of a *)
(* reswap.                                                                 *)
NoAssertFails ==
    /\ ~aborted
    /\ LET t == Table(FALSE)
       IN  \A x \in Rows :
             /\ Draws(t, x)
             /\ IsReswap(t, x) =>
                  \A y \in Eligible(t, x) : Draws(Reswap(t, x, y), Former(t, x))

(* The swaps are an involution on the rows: each row is in at most one     *)
(* pair, never with itself, and the index leads to that pair and nowhere   *)
(* else (the asserts of lines 52 and 86), through reswaps and unswaps; and *)
(* valid_tuples counts the pairs, so that none was dropped for want of a   *)
(* free tuple.                                                             *)
SwapsAreInvolution ==
    /\ \A r \in Rows, i \in Tuples :
          /\ rowHasEntry[r] = i + 1 <=> tuples[i].valid /\ r \in Pair(tuples[i])
          /\ tuples[i].valid => tuples[i].origRowID # tuples[i].remappedRowID
    /\ valid_tuples = Cardinality({i \in Tuples : tuples[i].valid})

(* A row mitigated in this window stays swapped to the end of it, whatever *)
(* is swapped, reswapped or swapped back meanwhile.                        *)
SwapLasts == \A r \in swapped : rowHasEntry[r] # 0

(* Every row moved is paid for: the rows whose place an access changes, by *)
(* a swap, a reswap and a swap back together, are no more than the         *)
(* addresses of its decision, from which the delay is computed.            *)
Place == [r \in Rows |-> IF rowHasEntry[r] = 0 THEN r
                         ELSE Partner(tuples[rowHasEntry[r] - 1], r)]
SwapsCharged ==
    [][Cardinality({r \in Rows : Place'[r] # Place[r]}) <= validAddrs']_vars
=============================================================================
