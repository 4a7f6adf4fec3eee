--------------------------- MODULE RowQuarantine ---------------------------
(***************************************************************************)
(* The AQUA mitigation: class Row_Quarantine of                            *)
(* gem5/src/mem/rowhammer_mitigation.cc, as mem_ctrl.cc configures it      *)
(* (filter = NULL, a cache of table entries).                              *)
(*                                                                         *)
(* A flagged row A is moved to the slot Qi at the head of a ring of        *)
(* numQREntries quarantine slots, whose previous occupant B goes back to   *)
(* its own place.  Two tables hold the mapping in both directions; a       *)
(* counter per group of rows (bitvector) tells which groups have a         *)
(* quarantined row; a cache holds entries of the row table.  Rows left     *)
(* over from earlier windows are drained from the tail of the ring when    *)
(* the cache misses too often.                                             *)
(*                                                                         *)
(* The detector's verdict is a parameter of Access: any row may be         *)
(* flagged here.                                                           *)
(***************************************************************************)
EXTENDS FunctionalCache

CONSTANTS
    numRows,                     \* rows of the whole memory
    numQREntries,                \* slots of the quarantine region
    drain_cache_miss_threshold,
    virtualize_RIT,              \* are the tables in DRAM?
    QREntriesPerLine             \* slot-table entries per line (16)

rows_per_btv_bit == partial_lookup_factor

ASSUME RQAssumption ==
    /\ {numRows, numQREntries, drain_cache_miss_threshold, QREntriesPerLine}
          \subseteq Nat \ {0}
    /\ virtualize_RIT \in BOOLEAN
    /\ numRows % rows_per_btv_bit = 0
    /\ RowsPerLine % rows_per_btv_bit = 0

Rows   == 0 .. numRows - 1
QRIds  == 0 .. numQREntries - 1
None   == -1                     \* an entry whose valid bit is off
Groups == 0 .. (numRows \div rows_per_btv_bit) - 1

VARIABLES
    row_To_QR_T,       \* [Rows -> QRIds \cup {None}]
    QR_To_Row_T,       \* [QRIds -> Rows \cup {None}]
    nextFreeQR_ID,     \* the head of the ring
    prevQRHead_ID,     \* where the head was when this window began
    QRTail_ID,         \* the oldest slot that may be drained
    bitvector,         \* [Groups -> Nat]
    ORR_CBF,           \* [Groups -> Nat]
    cache,
    misses,            \* cache misses since the last drain, up to the threshold
    decision,          \* what the last access returned: was a row mitigated (and
                       \* which), and its delay in moveDelays and accDelays
    aborted            \* an assert of the code has failed

tables  == <<row_To_QR_T, QR_To_Row_T, bitvector, ORR_CBF>>
ring    == <<nextFreeQR_ID, prevQRHead_ID, QRTail_ID>>
vars    == <<tables, ring, cache, misses, decision, aborted>>

(* Seeded fault: the ring index does not wrap. *)
NextIDNoWrap(q) == q + 1

NextID(q) == (q + 1) % numQREntries

Group(row)  == row \div rows_per_btv_bit
Mapped(row) == row_To_QR_T[row] # None

----------------------------------------------------------------------------
(* addQCheckDelay(row): may the row be quarantined, and is its entry in    *)
(* the cache?                                                              *)

Probed(row)     == bitvector[Group(row)] # 0
ExactHit(row)   == Probed(row) /\ Lookup(cache, row) \in Ways
PartialHit(row) == /\ Probed(row)
                   /\ ~ExactHit(row)
                   /\ PartialLookup(cache, row) \in Ways

(* Seeded fault: any hit on the group counts. *)
AnyPartialHit(row) == PartialHit(row)

(* "ORR bit is set, A is not remapped" *)
KnownNotRemapped(row) == PartialHit(row) /\ ORR_CBF[Group(row)] = 1

(* Seeded fault: a hit on the group is not looked at. *)
MissUnlessExact(row) == Probed(row) /\ ~ExactHit(row)

CacheMiss(row) == Probed(row) /\ ~ExactHit(row) /\ ~KnownNotRemapped(row)

LookedUp(row) ==
    CASE ExactHit(row)   -> Touch(cache, row, Lookup(cache, row))
      [] PartialHit(row) -> Touch(cache, row, PartialLookup(cache, row))
      [] OTHER           -> cache

(* The entry a miss brings into the cache: the row's own, or that of the   *)
(* only quarantined row of its group.                                      *)
FetchedRow(row) ==
    LET inGroup == {x \in Rows : Group(x) = Group(row) /\ Mapped(x)}
    IN  IF Mapped(row) THEN row
        ELSE IF inGroup # {} /\ ORR_CBF[Group(row)] = 1 THEN Min(inGroup)
        ELSE None

Fetches(row) == CacheMiss(row) /\ FetchedRow(row) # None

insertRowInCache(c, row, setDirty) ==
    Fill(Aged(c, row), row, Find_Victim(c, row), setDirty)

(* The block that insertRowInCache pushes out, invalid if it finds room. *)
Evicted(c, row) == c[SetOf(row)][Find_Victim(c, row)]

CheckedCache(row) ==
    LET c == LookedUp(row)
    IN  IF Fetches(row) THEN insertRowInCache(c, FetchedRow(row), FALSE) ELSE c

SameLine(row1, row2) == row1 \div RowsPerLine = row2 \div RowsPerLine

(* Table accesses charged, in units of accDelay. *)
CheckAccesses(row) ==
    LET out == Evicted(LookedUp(row), FetchedRow(row))
    IN  IF ~virtualize_RIT \/ ~CacheMiss(row) THEN 0
        ELSE IF Fetches(row) /\ out.dirty /\ ~SameLine(row, out.tag) THEN 4
        ELSE 2

CheckFails(row) == ~Probed(row) /\ Mapped(row)

----------------------------------------------------------------------------
(* removeRow(q): the occupant of slot q goes home.  The operators take the *)
(* tables as quarantineRow and drainRow have left them.                    *)

(* Seeded fault: the row is sent to the next slot, not home. *)
SentOn(rowTable, b) == [rowTable EXCEPT ![b] = NextID(@)]

Unmap(rowTable, b) == [rowTable EXCEPT ![b] = None]

(* Seeded fault: the group counter is cleared, not decremented. *)
ClearGroup(groupTable, b) == [groupTable EXCEPT ![Group(b)] = 0]

LeaveGroup(groupTable, b) == [groupTable EXCEPT ![Group(b)] = @ - 1]

removeRowFromCache(c, b) ==
    IF Lookup(c, b) \in Ways THEN Invalidate(c, b, Lookup(c, b)) ELSE c

RemoveFails(rowTable, groupTable, b) ==
    rowTable[b] = None \/ groupTable[Group(b)] = 0

----------------------------------------------------------------------------
(* quarantineRow(A): move A, which may already be in Qj, to Qi.            *)

(* Seeded fault: a row that moves within the region is counted again. *)
JoinAlways(groupTable, a) == [groupTable EXCEPT ![Group(a)] = @ + 1]

JoinGroup(groupTable, a) ==
    IF Mapped(a) THEN groupTable ELSE [groupTable EXCEPT ![Group(a)] = @ + 1]

(* Seeded fault: the slot A came from is not released. *)
SlotKeptTwice(a) == [QR_To_Row_T EXCEPT ![nextFreeQR_ID] = a]

SlotsAfterMove(a) ==
    IF Mapped(a) THEN [QR_To_Row_T EXCEPT ![nextFreeQR_ID] = a,
                                          ![row_To_QR_T[a]] = None]
    ELSE [QR_To_Row_T EXCEPT ![nextFreeQR_ID] = a]

CacheWith(c, a) ==
    IF Lookup(c, a) \in Ways THEN SetDirtyBit(c, a, Lookup(c, a))
    ELSE insertRowInCache(c, a, TRUE)

(* The head wrapped around and reached the tail. *)
TailAfterMove(prevHead) ==
    IF nextFreeQR_ID = QRTail_ID /\ nextFreeQR_ID # prevHead
    THEN NextID(QRTail_ID) ELSE QRTail_ID

(* Row B, in the slot Qi that A is moved to. *)
Occupant == QR_To_Row_T[nextFreeQR_ID]

QuarantineFails(a) ==
    \/ /\ Occupant # None
       /\ RemoveFails([row_To_QR_T EXCEPT ![a] = nextFreeQR_ID],
                      JoinGroup(bitvector, a), Occupant)
    \/ /\ Mapped(a)
       /\ row_To_QR_T[a] # nextFreeQR_ID
       /\ QR_To_Row_T[row_To_QR_T[a]] = None

(* Seeded fault: both branches of the if at line 989 charge B's entry. *)
RemovalChargedTwice(c, a) ==
    LET j == row_To_QR_T[a]
    IN  IF ~virtualize_RIT THEN 0
        ELSE   (IF Lookup(c, a) \notin Ways /\ Evicted(c, a).dirty THEN 2 ELSE 0)
             + (IF Occupant # None /\ Mapped(a) /\ ~SameLine(a, Occupant) THEN 2 ELSE 0)
             + (IF /\ Mapped(a)
                   /\ nextFreeQR_ID \div QREntriesPerLine # j \div QREntriesPerLine
                THEN 1 ELSE 0)
             + 2

(* Table accesses charged by quarantineRow, in units of accDelay; c is the *)
(* cache as addQCheckDelay has left it.                                    *)
QuarantineAccesses(c, a) ==
    LET j == row_To_QR_T[a]
    IN  IF ~virtualize_RIT THEN 0
        ELSE   (IF Lookup(c, a) \notin Ways /\ Evicted(c, a).dirty THEN 2 ELSE 0)
             + (IF Occupant # None /\ Mapped(a) /\ ~SameLine(a, Occupant) THEN 1 ELSE 0)
             + (IF /\ Mapped(a)
                   /\ nextFreeQR_ID \div QREntriesPerLine # j \div QREntriesPerLine
                THEN 1 ELSE 0)
             + 2

(* The window an access falls in: reset() of Row_Quarantine notes where    *)
(* the head is.                                                            *)
PrevHead(elapsed) == IF elapsed THEN nextFreeQR_ID ELSE prevQRHead_ID

Init ==
    /\ row_To_QR_T = [r \in Rows |-> None]
    /\ QR_To_Row_T = [q \in QRIds |-> None]
    /\ nextFreeQR_ID = 0 /\ prevQRHead_ID = 0 /\ QRTail_ID = 0
    /\ bitvector = [g \in Groups |-> 0]
    /\ ORR_CBF = [g \in Groups |-> 0]
    /\ cache = EmptyCache
    /\ misses = 0
    /\ decision = [mitigate |-> FALSE, row |-> None, moves |-> 0, accs |-> 0]
    /\ aborted = FALSE

MissesAfter(row) ==
    IF CacheMiss(row) /\ misses < drain_cache_miss_threshold THEN misses + 1
    ELSE misses

DrainDue(row) == MissesAfter(row) >= drain_cache_miss_threshold

(* access() of a row that the detector flags. *)
AccessQuarantine(row, elapsed) ==
    LET i      == nextFreeQR_ID
        moved  == [row_To_QR_T EXCEPT ![row] = i]
        joined == JoinGroup(bitvector, row)
        orr    == JoinGroup(ORR_CBF, row)
        checked == CheckedCache(row)
        filled == CacheWith(checked, row)
    IN  /\ ~aborted
        /\ aborted' = (CheckFails(row) \/ QuarantineFails(row))
        /\ IF Occupant # None
           THEN /\ row_To_QR_T' = Unmap(moved, Occupant)
                /\ bitvector' = LeaveGroup(joined, Occupant)
                /\ ORR_CBF' = LeaveGroup(orr, Occupant)
                /\ cache' = removeRowFromCache(filled, Occupant)
           ELSE /\ row_To_QR_T' = moved
                /\ bitvector' = joined
                /\ ORR_CBF' = orr
                /\ cache' = filled
        /\ QR_To_Row_T' = SlotsAfterMove(row)
        /\ QRTail_ID' = TailAfterMove(PrevHead(elapsed))
        /\ nextFreeQR_ID' = NextID(i)
        /\ prevQRHead_ID' = PrevHead(elapsed)
        /\ misses' = MissesAfter(row)
        /\ decision' = [mitigate |-> TRUE, row |-> row,
                        moves |-> IF Occupant # None THEN 2 ELSE 1,
                        accs  |-> CheckAccesses(row) + QuarantineAccesses(checked, row)]

(* Seeded fault: drain without looking where this window began. *)
DrainableAlways(prevHead) == QR_To_Row_T[QRTail_ID] # None

(* The tail of the ring holds a row of an earlier window. *)
Drainable(prevHead) == QRTail_ID # prevHead /\ QR_To_Row_T[QRTail_ID] # None

(* access() of a row that is not flagged, when the cache has missed often  *)
(* enough: drainRow().                                                     *)
AccessDrain(row, elapsed) ==
    LET b == QR_To_Row_T[QRTail_ID]
    IN  /\ ~aborted
        /\ DrainDue(row)
        /\ misses' = 0
        /\ IF Drainable(PrevHead(elapsed))
           THEN /\ aborted' = (CheckFails(row) \/ RemoveFails(row_To_QR_T, bitvector, b))
                /\ row_To_QR_T' = Unmap(row_To_QR_T, b)
                /\ QR_To_Row_T' = [QR_To_Row_T EXCEPT ![QRTail_ID] = None]
                /\ bitvector' = LeaveGroup(bitvector, b)
                /\ ORR_CBF' = LeaveGroup(ORR_CBF, b)
                /\ cache' = removeRowFromCache(CheckedCache(row), b)
                /\ QRTail_ID' = NextID(QRTail_ID)
           ELSE /\ aborted' = CheckFails(row)
                /\ cache' = CheckedCache(row)
                /\ UNCHANGED <<tables, QRTail_ID>>
        /\ prevQRHead_ID' = PrevHead(elapsed)
        /\ decision' = [mitigate |-> FALSE, row |-> None,
                        moves |-> IF Drainable(PrevHead(elapsed)) THEN 1 ELSE 0,
                        accs  |-> CheckAccesses(row)
                                  + (IF ~virtualize_RIT THEN 0
                                     ELSE IF Drainable(PrevHead(elapsed)) THEN 3
                                     ELSE 1)]
        /\ UNCHANGED nextFreeQR_ID

(* access() of a row that is not flagged, no drain being due. *)
AccessOnly(row, elapsed) ==
    /\ ~aborted
    /\ ~DrainDue(row)
    /\ aborted' = CheckFails(row)
    /\ misses' = MissesAfter(row)
    /\ cache' = CheckedCache(row)
    /\ prevQRHead_ID' = PrevHead(elapsed)
    /\ decision' = [mitigate |-> FALSE, row |-> None, moves |-> 0,
                    accs |-> CheckAccesses(row)]
    /\ UNCHANGED <<tables, nextFreeQR_ID, QRTail_ID>>

(* access(): the detector's verdict decides. *)
Access(row, mitigate, elapsed) ==
    \/ mitigate /\ AccessQuarantine(row, elapsed)
    \/ ~mitigate /\ AccessDrain(row, elapsed)
    \/ ~mitigate /\ AccessOnly(row, elapsed)

Next == \E row \in Rows, mitigate, elapsed \in BOOLEAN :
            Access(row, mitigate, elapsed)

Spec == Init /\ [][Next]_vars

----------------------------------------------------------------------------
(* Type invariant. *)
TypeOK ==
    /\ row_To_QR_T \in [Rows -> QRIds \cup {None}]
    /\ QR_To_Row_T \in [QRIds -> Rows \cup {None}]
    /\ {nextFreeQR_ID, prevQRHead_ID, QRTail_ID} \subseteq QRIds
    /\ bitvector \in [Groups -> Nat]
    /\ ORR_CBF \in [Groups -> Nat]
    /\ cache \in CacheType
    /\ misses \in 0 .. drain_cache_miss_threshold
    /\ decision \in [mitigate : BOOLEAN, row : Rows \cup {None},
                     moves : Nat, accs : Nat]
    /\ aborted \in BOOLEAN

(* No assert of Row_Quarantine ever fails: the bit vector gives no false   *)
(* negative (rowhammer_mitigation.cc:860), a removed row is mapped and its *)
(* group counted (871, 880), and the slot a row came from holds it (1015). *)
NoAssertFails == ~aborted

(* The two tables are inverse of each other: a row is in at most one slot, *)
(* a slot holds at most one row, and both tables know of it, also when a   *)
(* row moves within the region, pushes another out, or is drained.         *)
TablesInverse ==
    \A r \in Rows, q \in QRIds : row_To_QR_T[r] = q <=> QR_To_Row_T[q] = r

(* Both group counters are the number of quarantined rows of the group, so *)
(* that they never wrap around and never hide a quarantined row.           *)
GroupCounts ==
    \A g \in Groups :
        LET n == Cardinality({r \in Rows : Group(r) = g /\ Mapped(r)})
        IN  bitvector[g] = n /\ ORR_CBF[g] = n

(* The cache holds entries of quarantined rows only, each in its set and   *)
(* at most once: no stale entry survives a removal, no fetch duplicates.   *)
CacheCoherent ==
    \A s \in Sets, w \in Ways : cache[s][w].valid =>
        /\ cache[s][w].tag \in Rows
        /\ Mapped(cache[s][w].tag)
        /\ SetOf(cache[s][w].tag) = s
        /\ \A v \in Ways \ {w} :
              cache[s][v].valid => cache[s][v].tag # cache[s][w].tag

(* What the filter and the cache say of a row without reading the table is *)
(* true: a row that hits exactly is quarantined, a row whose group has one *)
(* quarantined row, found in the cache in its stead, is not.               *)
VerdictsCorrect ==
    \A r \in Rows : /\ ExactHit(r) => Mapped(r)
                    /\ KnownNotRemapped(r) => ~Mapped(r)

(* What quarantineRow() says it does ("Move row A, which is possibly       *)
(* already in Qj, to Qi"): a row just mitigated is in quarantine.          *)
MitigatedIsQuarantined == decision.mitigate => Mapped(decision.row)

(* The delay of one access is at most two row moves and eight table        *)
(* accesses, far from the 7.8 us at which the controller starts cutting    *)
(* the bubbles it inserts (mem_ctrl.cc:953-964).                           *)
DelayBounded == decision.moves <= 2 /\ decision.accs <= 8
=============================================================================
