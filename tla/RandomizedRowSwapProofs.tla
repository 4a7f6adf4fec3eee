---------------------- MODULE RandomizedRowSwapProofs ----------------------
(***************************************************************************)
(* Proofs about RandomizedRowSwap, for every bank size and every size of   *)
(* the table that the controller may compute.  They are about one table,   *)
(* t = [tuples, rowHasEntry, valid_tuples], that insertTuple takes through *)
(* Reswap, Install and Unswap.                                             *)
(***************************************************************************)
EXTENDS RandomizedRowSwap, SetLemmas, TLAPS

TableType ==
    [tuples : [Tuples -> RIT_Entry], rowHasEntry : [Rows -> 0 .. numTuples],
     valid_tuples : Nat]

Valid(t)  == {i \in Tuples : t.tuples[i].valid}
Locked(t) == {i \in Tuples : t.tuples[i].locked}

(* The index leads from each row to its pair, and each pair is of two rows. *)
Linked(t) ==
    \A r \in Rows, i \in Tuples :
       /\ t.rowHasEntry[r] = i + 1 <=> t.tuples[i].valid /\ r \in Pair(t.tuples[i])
       /\ t.tuples[i].valid => t.tuples[i].origRowID # t.tuples[i].remappedRowID

(* A well-formed table. *)
TableOK(t) ==
    /\ t \in TableType
    /\ Linked(t)
    /\ t.valid_tuples = Cardinality(Valid(t))

(* The row is in a pair made in this window. *)
Held(t, r) == t.rowHasEntry[r] # 0 /\ t.tuples[EntryID(t, r)].locked

(* The step from t to u leaves the row where it is. *)
SameRow(t, u, r) ==
    /\ u.rowHasEntry[r] = t.rowHasEntry[r]
    /\ t.rowHasEntry[r] # 0 => u.tuples[EntryID(t, r)] = t.tuples[EntryID(t, r)]

(* The inductive invariant: the bank's table is well formed and not over   *)
(* its limit, each mitigation of the window has locked at most two pairs,  *)
(* and the rows mitigated are in locked pairs.                             *)
RRSInv ==
    /\ TypeOK
    /\ TableOK(Table(FALSE))
    /\ valid_tuples <= maxValidTuples
    /\ Cardinality(Locked(Table(FALSE))) <= 2 * swaps
    /\ \A r \in swapped : Held(Table(FALSE), r)
    /\ ~aborted

----------------------------------------------------------------------------
(* The sizes of the table and of its parts. *)
LEMMA Sizes ==
    /\ numTuples \in Nat /\ maxValidTuples \in Nat \ {0} /\ numEntries \in Nat
    /\ maxValidTuples < numTuples
    /\ maxValidTuples = 2 * numEntries
    /\ Tuples \in SUBSET Nat /\ IsFiniteSet(Tuples)
    /\ Cardinality(Tuples) = numTuples
    /\ IsFiniteSet(Rows) /\ Cardinality(Rows) \in Nat
<1>1. numTuples \in Nat /\ maxValidTuples \in Nat \ {0} /\ maxValidTuples < numTuples
  BY RRSAssumption
<1>2. numEntries \in Nat /\ maxValidTuples = 2 * numEntries
  BY RRSAssumption DEF numEntries
<1>3. Tuples \in SUBSET Nat
  BY <1>1 DEF Tuples
<1>4. IsFiniteSet(Tuples) /\ Cardinality(Tuples) = numTuples
  BY <1>1, FS_Interval DEF Tuples
<1>5. IsFiniteSet(Rows) /\ Cardinality(Rows) \in Nat
  BY RRSAssumption, FS_CardinalityType
<1> QED
  BY <1>1, <1>2, <1>3, <1>4, <1>5

(* The parts of a table are finite sets of tuples. *)
LEMMA PartsFinite ==
    ASSUME NEW t
    PROVE  /\ IsFiniteSet(Valid(t)) /\ Cardinality(Valid(t)) \in 0 .. numTuples
           /\ IsFiniteSet(Locked(t)) /\ Cardinality(Locked(t)) \in Nat
<1>1. Valid(t) \in SUBSET Tuples /\ Locked(t) \in SUBSET Tuples
  BY DEF Valid, Locked
<1> QED
  BY <1>1, Sizes, FS_Subset, FS_CardinalityType

(* What a valid tuple holds; an invalid one is not locked. *)
LEMMA TupleFacts ==
    ASSUME NEW t \in TableType, NEW i \in Tuples
    PROVE  /\ t.tuples[i].valid => Pair(t.tuples[i]) \in SUBSET Rows
           /\ t.tuples[i].locked => t.tuples[i].valid
           /\ t.tuples[i].valid \in BOOLEAN /\ t.tuples[i].locked \in BOOLEAN
<1>1. t.tuples[i] \in RIT_Entry
  BY DEF TableType
<1>2. CASE t.tuples[i] = NoPair
  <2>1. t.tuples[i].valid = FALSE /\ t.tuples[i].locked = FALSE
    BY <1>2 DEF NoPair
  <2> QED
    BY <2>1
<1>3. CASE t.tuples[i] \in [valid : {TRUE}, locked : BOOLEAN, origRowID : Rows,
                            remappedRowID : Rows]
  <2> DEFINE p == t.tuples[i]
  <2>1. p.valid = TRUE /\ p.locked \in BOOLEAN /\ p.origRowID \in Rows
        /\ p.remappedRowID \in Rows
    BY <1>3
  <2> QED
    BY <2>1 DEF Pair
<1> QED
  BY <1>1, <1>2, <1>3 DEF RIT_Entry

(* The entry of a row that has one is the valid pair it is in. *)
LEMMA EntryFacts ==
    ASSUME NEW t, TableOK(t), NEW r \in Rows, t.rowHasEntry[r] # 0
    PROVE  /\ EntryID(t, r) \in Tuples
           /\ t.rowHasEntry[r] = EntryID(t, r) + 1
           /\ t.tuples[EntryID(t, r)].valid
           /\ r \in Pair(t.tuples[EntryID(t, r)])
           /\ Partner(t.tuples[EntryID(t, r)], r) \in Rows \ {r}
           /\ Pair(t.tuples[EntryID(t, r)]) = {r, Partner(t.tuples[EntryID(t, r)], r)}
<1>1. t.rowHasEntry[r] \in 1 .. numTuples
  BY Sizes DEF TableOK, TableType
<1>2. EntryID(t, r) \in Tuples /\ t.rowHasEntry[r] = EntryID(t, r) + 1
  BY <1>1, Sizes DEF EntryID, Tuples
<1>3. /\ t.tuples[EntryID(t, r)].valid
      /\ r \in Pair(t.tuples[EntryID(t, r)])
      /\ t.tuples[EntryID(t, r)].origRowID # t.tuples[EntryID(t, r)].remappedRowID
  BY <1>2 DEF TableOK, Linked
<1>4. Pair(t.tuples[EntryID(t, r)]) \in SUBSET Rows
  BY <1>2, <1>3, TupleFacts DEF TableOK
<1> QED
  BY <1>2, <1>3, <1>4 DEF Pair, Partner

(* The first free tuple, if there is one. *)
LEMMA FirstFree ==
    ASSUME NEW t \in TableType, Free(t) # {}
    PROVE  Min(Free(t)) \in Tuples /\ ~t.tuples[Min(Free(t))].valid
<1>1. Free(t) \in SUBSET Nat
  BY Sizes DEF Free
<1>2. Min(Free(t)) \in Free(t)
  BY <1>1, MinIsMember
<1> QED
  BY <1>2 DEF Free

(* A table with at most maxValidTuples pairs has a free tuple. *)
LEMMA RoomLeft ==
    ASSUME NEW t, TableOK(t), t.valid_tuples <= maxValidTuples
    PROVE  Free(t) # {}
<1> SUFFICES ASSUME Free(t) = {} PROVE FALSE
  OBVIOUS
<1>1. Valid(t) = Tuples
  BY DEF Valid, Free
<1> QED
  BY <1>1, Sizes DEF TableOK

----------------------------------------------------------------------------
(* Install *)

(* Installing the pair of two rows that have none keeps the table well     *)
(* formed, locks one pair more and disturbs no other.                      *)
LEMMA InstallOK ==
    ASSUME NEW t, TableOK(t), Free(t) # {},
           NEW x \in Rows, NEW y \in Rows, x # y,
           t.rowHasEntry[x] = 0, t.rowHasEntry[y] = 0
    PROVE  LET u == Install(t, x, y)
           IN  /\ TableOK(u)
               /\ u.valid_tuples = t.valid_tuples + 1
               /\ Cardinality(Locked(u)) <= Cardinality(Locked(t)) + 1
               /\ Held(u, x) /\ Held(u, y)
               /\ \A r \in Rows \ {x, y} : SameRow(t, u, r)
<1> DEFINE i == Min(Free(t))
           u == Install(t, x, y)
<1>0. t \in TableType /\ Linked(t) /\ t.valid_tuples = Cardinality(Valid(t))
  BY DEF TableOK
<1>1. i \in Tuples /\ ~t.tuples[i].valid
  BY <1>0, FirstFree
<1> HIDE DEF i
<1>2. /\ u.tuples = [t.tuples EXCEPT ![i] = LockedPair(x, y)]
      /\ u.rowHasEntry = [t.rowHasEntry EXCEPT ![x] = i + 1, ![y] = i + 1]
      /\ u.valid_tuples = t.valid_tuples + 1
      /\ u = [tuples |-> u.tuples, rowHasEntry |-> u.rowHasEntry,
              valid_tuples |-> u.valid_tuples]
  BY DEF Install, i
<1> HIDE DEF u
<1>3. /\ t.tuples \in [Tuples -> RIT_Entry]
      /\ t.rowHasEntry \in [Rows -> 0 .. numTuples]
      /\ t.valid_tuples \in Nat
  BY <1>0 DEF TableType
<1>4. u \in TableType
  <2>1. LockedPair(x, y) \in RIT_Entry
    BY DEF LockedPair, RIT_Entry
  <2>2. i + 1 \in 0 .. numTuples
    BY <1>1, Sizes DEF Tuples
  <2>3. u.tuples \in [Tuples -> RIT_Entry]
    BY <1>2, <1>3, <2>1
  <2>4. u.rowHasEntry \in [Rows -> 0 .. numTuples]
    BY <1>2, <1>3, <2>2
  <2>5. u.valid_tuples \in Nat
    BY <1>2, <1>3
  <2> QED
    BY <1>2, <2>3, <2>4, <2>5 DEF TableType
<1>5. /\ \A j \in Tuples : u.tuples[j] = IF j = i THEN LockedPair(x, y) ELSE t.tuples[j]
      /\ \A r \in Rows : u.rowHasEntry[r] = IF r \in {x, y} THEN i + 1 ELSE t.rowHasEntry[r]
  BY <1>1, <1>2, <1>3
<1>6. /\ LockedPair(x, y).valid /\ LockedPair(x, y).locked
      /\ Pair(LockedPair(x, y)) = {x, y}
      /\ LockedPair(x, y).origRowID # LockedPair(x, y).remappedRowID
  BY DEF LockedPair, Pair
<1>7. Linked(u)
  <2> SUFFICES ASSUME NEW r \in Rows, NEW j \in Tuples
               PROVE  /\ u.rowHasEntry[r] = j + 1 <=>
                           u.tuples[j].valid /\ r \in Pair(u.tuples[j])
                      /\ u.tuples[j].valid =>
                           u.tuples[j].origRowID # u.tuples[j].remappedRowID
    BY DEF Linked
  <2>0. i \in Nat /\ j \in Nat
    BY <1>1, Sizes
  <2>1. CASE j = i
    <3>1. t.rowHasEntry[r] # i + 1
      BY <1>0, <1>1 DEF Linked
    <3> QED
      BY <2>1, <3>1, <1>5, <1>6
  <2>2. CASE j # i
    <3>1. r \in {x, y} => ~(t.tuples[j].valid /\ r \in Pair(t.tuples[j]))
      BY <1>0, <2>0 DEF Linked
    <3>2. /\ t.rowHasEntry[r] = j + 1 <=> t.tuples[j].valid /\ r \in Pair(t.tuples[j])
          /\ t.tuples[j].valid => t.tuples[j].origRowID # t.tuples[j].remappedRowID
      BY <1>0 DEF Linked
    <3>3. i + 1 # j + 1
      BY <2>0, <2>2
    <3> QED
      BY <2>2, <3>1, <3>2, <3>3, <1>5
  <2> QED
    BY <2>1, <2>2
<1>8. Valid(u) = Valid(t) \cup {i} /\ i \notin Valid(t)
  BY <1>1, <1>5, <1>6 DEF Valid
<1>9. Locked(u) \subseteq Locked(t) \cup {i}
  BY <1>5 DEF Locked
<1>10. u.valid_tuples = Cardinality(Valid(u))
  BY <1>0, <1>2, <1>8, PartsFinite, FS_AddElement
<1>11. Cardinality(Locked(u)) <= Cardinality(Locked(t)) + 1
  BY <1>9, PartsFinite, OneMore
<1>12. Held(u, x) /\ Held(u, y)
  BY <1>1, <1>5, <1>6, Sizes DEF Held, EntryID
<1>13. \A r \in Rows \ {x, y} : SameRow(t, u, r)
  <2> SUFFICES ASSUME NEW r \in Rows \ {x, y}, t.rowHasEntry[r] # 0
               PROVE  u.tuples[EntryID(t, r)] = t.tuples[EntryID(t, r)]
    BY <1>5 DEF SameRow
  <2>1. EntryID(t, r) \in Tuples /\ t.tuples[EntryID(t, r)].valid
    BY EntryFacts
  <2> QED
    BY <2>1, <1>1, <1>5
<1> QED
  BY <1>2, <1>4, <1>7, <1>10, <1>11, <1>12, <1>13 DEF TableOK, u

----------------------------------------------------------------------------
(* Reswap *)

(* <X, A> becomes <X, Y>: the table stays well formed, at most one more    *)
(* pair is locked, and A is left without a pair.                           *)
LEMMA ReswapOK ==
    ASSUME NEW t, TableOK(t), NEW x \in Rows, t.rowHasEntry[x] # 0,
           NEW y \in Rows, x # y, t.rowHasEntry[y] = 0
    PROVE  LET u == Reswap(t, x, y)
               a == Former(t, x)
           IN  /\ TableOK(u)
               /\ u.valid_tuples = t.valid_tuples
               /\ Cardinality(Locked(u)) <= Cardinality(Locked(t)) + 1
               /\ Held(u, x) /\ Held(u, y)
               /\ a \in Rows /\ a # x /\ a # y /\ u.rowHasEntry[a] = 0
               /\ \A r \in Rows \ {x, y, a} : SameRow(t, u, r)
<1> DEFINE i == EntryID(t, x)
           p == t.tuples[i]
           q == IF p.origRowID = x THEN LockedPair(x, y) ELSE LockedPair(y, x)
           a == Former(t, x)
           u == Reswap(t, x, y)
<1>0. t \in TableType /\ Linked(t) /\ t.valid_tuples = Cardinality(Valid(t))
  BY DEF TableOK
<1>1. /\ i \in Tuples /\ t.rowHasEntry[x] = i + 1 /\ p.valid
      /\ a \in Rows /\ a # x /\ Pair(p) = {x, a}
  BY EntryFacts DEF Former
<1>2. /\ u.tuples = [t.tuples EXCEPT ![i] = q]
      /\ u.rowHasEntry = [t.rowHasEntry EXCEPT ![a] = 0, ![y] = i + 1]
      /\ u.valid_tuples = t.valid_tuples
      /\ u = [tuples |-> u.tuples, rowHasEntry |-> u.rowHasEntry,
              valid_tuples |-> u.valid_tuples]
  BY DEF Reswap, Former
<1>3. /\ q.valid = TRUE /\ q.locked = TRUE /\ Pair(q) = {x, y}
      /\ q.origRowID # q.remappedRowID /\ q \in RIT_Entry
  <2>1. CASE p.origRowID = x
    BY <2>1 DEF LockedPair, Pair, RIT_Entry
  <2>2. CASE p.origRowID # x
    BY <2>2 DEF LockedPair, Pair, RIT_Entry
  <2> QED
    BY <2>1, <2>2
<1>4. t.rowHasEntry[a] = i + 1 /\ a # y /\ i \in Nat
  <2>1. t.rowHasEntry[a] = i + 1
    BY <1>0, <1>1 DEF Linked
  <2>2. i \in Nat
    BY <1>1, Sizes
  <2> QED
    BY <2>1, <2>2
<1> HIDE DEF i, q, a, u
<1>5. /\ t.tuples \in [Tuples -> RIT_Entry]
      /\ t.rowHasEntry \in [Rows -> 0 .. numTuples]
      /\ t.valid_tuples \in Nat
  BY <1>0 DEF TableType
<1>6. u \in TableType
  <2>1. i + 1 \in 0 .. numTuples /\ 0 \in 0 .. numTuples
    BY <1>1, Sizes DEF Tuples
  <2>2. u.tuples \in [Tuples -> RIT_Entry]
    BY <1>2, <1>3, <1>5
  <2>3. u.rowHasEntry \in [Rows -> 0 .. numTuples]
    BY <1>2, <1>5, <2>1
  <2>4. u.valid_tuples \in Nat
    BY <1>2, <1>5
  <2> QED
    BY <1>2, <2>2, <2>3, <2>4 DEF TableType
<1>7. /\ \A j \in Tuples : u.tuples[j] = IF j = i THEN q ELSE t.tuples[j]
      /\ \A r \in Rows : u.rowHasEntry[r] = IF r = y THEN i + 1
                                            ELSE IF r = a THEN 0 ELSE t.rowHasEntry[r]
  BY <1>1, <1>2, <1>5
<1>8. Linked(u)
  <2> SUFFICES ASSUME NEW r \in Rows, NEW j \in Tuples
               PROVE  /\ u.rowHasEntry[r] = j + 1 <=>
                           u.tuples[j].valid /\ r \in Pair(u.tuples[j])
                      /\ u.tuples[j].valid =>
                           u.tuples[j].origRowID # u.tuples[j].remappedRowID
    BY DEF Linked
  <2>0. j \in Nat
    BY Sizes
  <2>1. CASE j = i
    <3>1. t.rowHasEntry[r] = i + 1 <=> r \in {x, a}
      BY <1>0, <1>1 DEF Linked
    <3> QED
      BY <2>1, <3>1, <1>3, <1>4, <1>7, <2>0, <1>1
  <2>2. CASE j # i
    <3>1. r \in {y, a} => ~(t.tuples[j].valid /\ r \in Pair(t.tuples[j]))
      BY <1>0, <1>4, <2>0, <2>2 DEF Linked
    <3>2. /\ t.rowHasEntry[r] = j + 1 <=> t.tuples[j].valid /\ r \in Pair(t.tuples[j])
          /\ t.tuples[j].valid => t.tuples[j].origRowID # t.tuples[j].remappedRowID
      BY <1>0 DEF Linked
    <3>3. i + 1 # j + 1 /\ 0 # j + 1
      BY <1>4, <2>0, <2>2
    <3> QED
      BY <2>2, <3>1, <3>2, <3>3, <1>7
  <2> QED
    BY <2>1, <2>2
<1>9. Valid(u) = Valid(t)
  BY <1>1, <1>3, <1>7 DEF Valid
<1>10. Locked(u) \subseteq Locked(t) \cup {i}
  BY <1>7 DEF Locked
<1>11. Cardinality(Locked(u)) <= Cardinality(Locked(t)) + 1
  BY <1>10, PartsFinite, OneMore
<1>12. u.rowHasEntry[x] = i + 1 /\ u.rowHasEntry[y] = i + 1 /\ u.rowHasEntry[a] = 0
  BY <1>1, <1>4, <1>7
<1>13. Held(u, x) /\ Held(u, y)
  BY <1>1, <1>3, <1>4, <1>7, <1>12 DEF Held, EntryID
<1>14. \A r \in Rows \ {x, y, a} : SameRow(t, u, r)
  <2> SUFFICES ASSUME NEW r \in Rows \ {x, y, a}, t.rowHasEntry[r] # 0
               PROVE  u.tuples[EntryID(t, r)] = t.tuples[EntryID(t, r)]
    BY <1>7 DEF SameRow
  <2>1. EntryID(t, r) \in Tuples /\ r \in Pair(t.tuples[EntryID(t, r)])
    BY EntryFacts
  <2>2. EntryID(t, r) # i
    BY <2>1, <1>1
  <2> QED
    BY <2>1, <2>2, <1>7
<1>15. TableOK(u)
  BY <1>0, <1>2, <1>6, <1>8, <1>9 DEF TableOK
<1> QED
  BY <1>1, <1>2, <1>4, <1>11, <1>12, <1>13, <1>14, <1>15 DEF a, u

----------------------------------------------------------------------------
(* Unswap *)

(* The first pair that is not locked, if there is one. *)
LEMMA FirstUnlocked ==
    ASSUME NEW t \in TableType, Unswappable(t) # {}
    PROVE  LET i == Min(Unswappable(t))
           IN  i \in Tuples /\ t.tuples[i].valid /\ ~t.tuples[i].locked
<1>1. Unswappable(t) \in SUBSET Nat
  BY Sizes DEF Unswappable
<1>2. Min(Unswappable(t)) \in Unswappable(t)
  BY <1>1, MinIsMember
<1> QED
  BY <1>2 DEF Unswappable

(* Swapping back an unlocked pair keeps the table well formed, and touches *)
(* no locked pair.                                                         *)
LEMMA UnswapOK ==
    ASSUME NEW t, TableOK(t), Unswappable(t) # {}
    PROVE  LET u == Unswap(t)
               p == t.tuples[Min(Unswappable(t))]
           IN  /\ TableOK(u)
               /\ u.valid_tuples = t.valid_tuples - 1
               /\ Locked(u) = Locked(t)
               /\ \A r \in Rows : Held(t, r) => SameRow(t, u, r)
               /\ \A r \in Rows \ Pair(p) : SameRow(t, u, r)
<1> DEFINE i == Min(Unswappable(t))
           p == t.tuples[i]
           u == Unswap(t)
<1>0. t \in TableType /\ Linked(t) /\ t.valid_tuples = Cardinality(Valid(t))
  BY DEF TableOK
<1>1. i \in Tuples /\ p.valid /\ ~p.locked
  BY <1>0, FirstUnlocked
<1>2. /\ u.tuples = [t.tuples EXCEPT ![i] = NoPair]
      /\ u.rowHasEntry = [t.rowHasEntry EXCEPT ![p.origRowID] = 0,
                                               ![p.remappedRowID] = 0]
      /\ u.valid_tuples = t.valid_tuples - 1
      /\ u = [tuples |-> u.tuples, rowHasEntry |-> u.rowHasEntry,
              valid_tuples |-> u.valid_tuples]
  BY DEF Unswap
<1> HIDE DEF i, u
<1>3. /\ t.tuples \in [Tuples -> RIT_Entry]
      /\ t.rowHasEntry \in [Rows -> 0 .. numTuples]
      /\ t.valid_tuples \in Nat
  BY <1>0 DEF TableType
<1>4. Pair(p) \in SUBSET Rows /\ Pair(p) = {p.origRowID, p.remappedRowID}
  BY <1>0, <1>1, TupleFacts DEF Pair
<1>5. /\ \A j \in Tuples : u.tuples[j] = IF j = i THEN NoPair ELSE t.tuples[j]
      /\ \A r \in Rows : u.rowHasEntry[r] = IF r \in Pair(p) THEN 0 ELSE t.rowHasEntry[r]
  BY <1>1, <1>2, <1>3, <1>4
<1>6. NoPair.valid = FALSE /\ NoPair.locked = FALSE /\ NoPair \in RIT_Entry
  BY DEF NoPair, RIT_Entry
<1>7. Valid(t) = Valid(u) \cup {i} /\ i \notin Valid(u)
  BY <1>1, <1>5, <1>6 DEF Valid
<1>8. /\ Cardinality(Valid(u)) = Cardinality(Valid(t)) - 1
      /\ Cardinality(Valid(u)) \in Nat
  <2>1. Cardinality(Valid(t)) = Cardinality(Valid(u)) + 1
    BY <1>7, PartsFinite, FS_AddElement
  <2>2. Cardinality(Valid(u)) \in Nat
    BY PartsFinite, Sizes
  <2> QED
    BY <2>1, <2>2
<1>9. u \in TableType
  <2>1. u.tuples \in [Tuples -> RIT_Entry]
    BY <1>2, <1>3, <1>6
  <2>2. u.rowHasEntry \in [Rows -> 0 .. numTuples]
    <3>1. 0 \in 0 .. numTuples
      BY Sizes
    <3> QED
      BY <3>1, <1>2, <1>3
  <2>3. u.valid_tuples \in Nat
    BY <1>0, <1>2, <1>8
  <2> QED
    BY <1>2, <2>1, <2>2, <2>3 DEF TableType
<1>10. Linked(u)
  <2> SUFFICES ASSUME NEW r \in Rows, NEW j \in Tuples
               PROVE  /\ u.rowHasEntry[r] = j + 1 <=>
                           u.tuples[j].valid /\ r \in Pair(u.tuples[j])
                      /\ u.tuples[j].valid =>
                           u.tuples[j].origRowID # u.tuples[j].remappedRowID
    BY DEF Linked
  <2>0. i \in Nat /\ j \in Nat /\ j + 1 # 0
    BY <1>1, Sizes
  <2>1. t.rowHasEntry[r] = i + 1 <=> r \in Pair(p)
    BY <1>0, <1>1 DEF Linked
  <2>2. /\ t.rowHasEntry[r] = j + 1 <=> t.tuples[j].valid /\ r \in Pair(t.tuples[j])
        /\ t.tuples[j].valid => t.tuples[j].origRowID # t.tuples[j].remappedRowID
    BY <1>0 DEF Linked
  <2>3. CASE j = i
    BY <2>0, <2>1, <2>3, <1>5, <1>6
  <2>4. CASE j # i
    BY <2>0, <2>1, <2>2, <2>4, <1>5
  <2> QED
    BY <2>3, <2>4
<1>11. Locked(u) = Locked(t)
  BY <1>1, <1>5, <1>6 DEF Locked
<1>12. \A r \in Rows \ Pair(p) : SameRow(t, u, r)
  <2> SUFFICES ASSUME NEW r \in Rows \ Pair(p), t.rowHasEntry[r] # 0
               PROVE  u.tuples[EntryID(t, r)] = t.tuples[EntryID(t, r)]
    BY <1>5 DEF SameRow
  <2>1. EntryID(t, r) \in Tuples /\ r \in Pair(t.tuples[EntryID(t, r)])
    BY EntryFacts
  <2>2. EntryID(t, r) # i
    BY <2>1
  <2> QED
    BY <2>1, <2>2, <1>5
<1>13. \A r \in Rows : Held(t, r) => r \notin Pair(p)
  <2> SUFFICES ASSUME NEW r \in Rows, t.rowHasEntry[r] # 0,
                      t.tuples[EntryID(t, r)].locked, r \in Pair(p)
               PROVE  FALSE
    BY DEF Held
  <2>1. t.rowHasEntry[r] = i + 1 /\ i \in Nat
    BY <1>0, <1>1, Sizes DEF Linked
  <2>2. EntryID(t, r) = i
    BY <2>1 DEF EntryID
  <2> QED
    BY <2>2, <1>1
<1>14. TableOK(u)
  BY <1>0, <1>2, <1>8, <1>9, <1>10 DEF TableOK
<1> QED
  BY <1>2, <1>11, <1>12, <1>13, <1>14 DEF i, u

----------------------------------------------------------------------------
(* Drawing a row *)

(* At most two rows per pair have an entry. *)
LEMMA RowsInPairs ==
    ASSUME NEW t, TableOK(t)
    PROVE  LET S == {r \in Rows : t.rowHasEntry[r] # 0}
           IN  IsFiniteSet(S) /\ Cardinality(S) <= 2 * t.valid_tuples
<1> DEFINE S == {r \in Rows : t.rowHasEntry[r] # 0}
           side(r) == IF t.tuples[EntryID(t, r)].origRowID = r THEN 1 ELSE 2
           f == [r \in S |-> <<EntryID(t, r), side(r)>>]
           T == Valid(t) \X {1, 2}
<1>1. \A r \in S : EntryID(t, r) \in Valid(t) /\ side(r) \in {1, 2}
  BY EntryFacts DEF Valid
<1>2. \A r \in S, q \in S : EntryID(t, r) = EntryID(t, q) /\ side(r) = side(q) => r = q
  <2> SUFFICES ASSUME NEW r \in S, NEW q \in S,
                      EntryID(t, r) = EntryID(t, q), side(r) = side(q)
               PROVE  r = q
    OBVIOUS
  <2> DEFINE p == t.tuples[EntryID(t, r)]
  <2>1. r \in {p.origRowID, p.remappedRowID} /\ q \in {p.origRowID, p.remappedRowID}
    BY EntryFacts DEF Pair
  <2> QED
    BY <2>1
<1>3. f \in Injection(S, T)
  <2>1. f \in [S -> T]
    BY <1>1
  <2>2. \A r \in S, q \in S : f[r] = f[q] => r = q
    <3> HIDE DEF side
    <3> SUFFICES ASSUME NEW r \in S, NEW q \in S, f[r] = f[q] PROVE r = q
      OBVIOUS
    <3>1. <<EntryID(t, r), side(r)>> = <<EntryID(t, q), side(q)>>
      OBVIOUS
    <3>2. EntryID(t, r) = EntryID(t, q) /\ side(r) = side(q)
      BY <3>1
    <3> QED
      BY <1>2, <3>2
  <2> QED
    BY <2>1, <2>2 DEF Injection, IsInjective
<1>4. IsFiniteSet(T) /\ Cardinality(T) = t.valid_tuples * 2
  BY PartsFinite, TwiceAsMany DEF TableOK
<1>5. t.valid_tuples \in Nat
  BY DEF TableOK, TableType
<1> HIDE DEF S, T, f
<1>6. IsFiniteSet(S) /\ Cardinality(S) <= Cardinality(T)
  BY <1>3, <1>4, FS_Injection
<1> QED
  BY <1>4, <1>5, <1>6 DEF S

(* While the table is not over its limit there is a row to draw, whichever *)
(* rows the detector tracks.                                               *)
LEMMA DrawsOK ==
    ASSUME NEW t, TableOK(t), t.valid_tuples <= maxValidTuples, NEW x \in Rows
    PROVE  Draws(t, x)
<1> DEFINE S == {r \in Rows : t.rowHasEntry[r] # 0}
           E == Eligible(t, x)
<1>1. IsFiniteSet(S) /\ Cardinality(S) <= 2 * t.valid_tuples
  BY RowsInPairs
<1>2. Rows \subseteq (E \cup S) \cup {x} /\ E \in SUBSET Rows
  BY DEF Eligible
<1> HIDE DEF S, E
<1>3. IsFiniteSet(E)
  BY <1>2, Sizes, FS_Subset
<1>4. /\ IsFiniteSet(E \cup S)
      /\ Cardinality(E \cup S) <= Cardinality(E) + Cardinality(S)
      /\ Cardinality(E) \in Nat /\ Cardinality(S) \in Nat /\ Cardinality(E \cup S) \in Nat
  BY <1>1, <1>3, UnionAtMost, FS_CardinalityType
<1>5. Cardinality(Rows) <= Cardinality(E \cup S) + 1
  BY <1>2, <1>4, OneMore
<1>6. Cardinality(Rows) > 2 * maxValidTuples + 1 + numEntries
  BY RRSAssumption
<1>7. t.valid_tuples \in Nat
  BY DEF TableOK, TableType
<1>8. Cardinality(E) > numEntries
  BY <1>1, <1>4, <1>5, <1>6, <1>7, Sizes
<1> QED
  BY <1>8 DEF E, Draws

----------------------------------------------------------------------------
(* The window, and the end of an access *)

(* Where a table sends a row. *)
PlaceIn(t, r) == IF t.rowHasEntry[r] = 0 THEN r
                 ELSE Partner(t.tuples[EntryID(t, r)], r)

(* A row that a step leaves alone stays where it was, and held. *)
LEMMA SameRowFacts ==
    ASSUME NEW t, NEW u, NEW r, SameRow(t, u, r)
    PROVE  PlaceIn(u, r) = PlaceIn(t, r) /\ (Held(t, r) => Held(u, r))
BY DEF SameRow, PlaceIn, Held, EntryID

(* The mitigations of the window an access belongs to, and their rows. *)
SwapsOf(elapsed)   == IF elapsed THEN 0 ELSE swaps
SwappedOf(elapsed) == IF elapsed THEN {} ELSE swapped

(* Unlocking changes nothing else of an entry. *)
LEMMA UnlockEntry ==
    ASSUME NEW p \in RIT_Entry
    PROVE  LET q == [p EXCEPT !.locked = FALSE]
           IN  /\ q \in RIT_Entry
               /\ q.valid = p.valid /\ q.locked = FALSE
               /\ q.origRowID = p.origRowID /\ q.remappedRowID = p.remappedRowID
<1> DEFINE q == [p EXCEPT !.locked = FALSE]
<1>1. CASE p \in [valid : {TRUE}, locked : BOOLEAN, origRowID : Rows,
                  remappedRowID : Rows]
  BY <1>1 DEF RIT_Entry
<1>2. CASE p = NoPair
  <2>1. p \in [valid : {FALSE}, locked : {FALSE}, origRowID : {NoRow},
               remappedRowID : {NoRow}]
    BY <1>2 DEF NoPair
  <2>2. /\ q \in [valid : {FALSE}, locked : {FALSE}, origRowID : {NoRow},
                  remappedRowID : {NoRow}]
        /\ q.valid = p.valid /\ q.locked = FALSE
        /\ q.origRowID = p.origRowID /\ q.remappedRowID = p.remappedRowID
    BY <2>1
  <2> HIDE DEF q
  <2>3. q = NoPair
    BY <2>2 DEF NoPair
  <2> QED
    BY <2>2, <2>3 DEF RIT_Entry
<1> QED
  BY <1>1, <1>2 DEF RIT_Entry

(* The table at the beginning of an access, when the reset() of a window   *)
(* that is over has unlocked its pairs: it is well formed, and its locked  *)
(* pairs are those of the mitigations of the window.                       *)
LEMMA WindowOK ==
    ASSUME RRSInv, NEW elapsed \in BOOLEAN
    PROVE  LET t == Table(elapsed)
           IN  /\ TableOK(t)
               /\ t.valid_tuples = valid_tuples /\ t.rowHasEntry = rowHasEntry
               /\ t.tuples = IF elapsed THEN Unlock(tuples) ELSE tuples
               /\ Cardinality(Locked(t)) <= 2 * SwapsOf(elapsed)
               /\ \A r \in SwappedOf(elapsed) : Held(t, r)
               /\ \A r \in Rows : PlaceIn(t, r) = Place[r]
<1> DEFINE s == Table(FALSE)
<1>0. /\ TableOK(s) /\ s.tuples = tuples /\ s.rowHasEntry = rowHasEntry
      /\ s.valid_tuples = valid_tuples
  BY DEF RRSInv, Table
<1>1. \A r \in Rows : PlaceIn(s, r) = Place[r]
  BY <1>0 DEF PlaceIn, Place, EntryID
<1>2. CASE ~elapsed
  <2>1. Table(elapsed) = s
    BY <1>2 DEF Table
  <2> QED
    BY <1>0, <1>1, <1>2, <2>1 DEF RRSInv, SwapsOf, SwappedOf
<1>3. CASE elapsed
  <2> DEFINE t == Table(elapsed)
  <2>1. /\ t.tuples = Unlock(tuples) /\ t.rowHasEntry = rowHasEntry
        /\ t.valid_tuples = valid_tuples
        /\ t = [tuples |-> t.tuples, rowHasEntry |-> t.rowHasEntry,
                valid_tuples |-> t.valid_tuples]
    BY <1>3 DEF Table
  <2> HIDE DEF t, s
  <2>2. \A i \in Tuples : /\ t.tuples[i] \in RIT_Entry
                          /\ t.tuples[i].valid = tuples[i].valid
                          /\ t.tuples[i].locked = FALSE
                          /\ t.tuples[i].origRowID = tuples[i].origRowID
                          /\ t.tuples[i].remappedRowID = tuples[i].remappedRowID
    <3> SUFFICES ASSUME NEW i \in Tuples
                 PROVE  /\ t.tuples[i] \in RIT_Entry
                        /\ t.tuples[i].valid = tuples[i].valid
                        /\ t.tuples[i].locked = FALSE
                        /\ t.tuples[i].origRowID = tuples[i].origRowID
                        /\ t.tuples[i].remappedRowID = tuples[i].remappedRowID
      OBVIOUS
    <3>1. t.tuples[i] = [tuples[i] EXCEPT !.locked = FALSE]
      BY <2>1 DEF Unlock
    <3>2. tuples[i] \in RIT_Entry
      BY DEF RRSInv, TypeOK
    <3> QED
      BY <3>1, <3>2, UnlockEntry
  <2>3. t \in TableType
    <3>1. t.tuples \in [Tuples -> RIT_Entry]
      BY <2>1, <2>2 DEF Unlock
    <3>2. t.rowHasEntry \in [Rows -> 0 .. numTuples] /\ t.valid_tuples \in Nat
      BY <1>0, <2>1 DEF TableOK, TableType
    <3> QED
      BY <2>1, <3>1, <3>2 DEF TableType
  <2>4. Valid(t) = Valid(s) /\ Locked(t) = {}
    BY <1>0, <2>2 DEF Valid, Locked
  <2>5. \A i \in Tuples : Pair(t.tuples[i]) = Pair(tuples[i])
    BY <2>2 DEF Pair
  <2>6. Linked(t)
    BY <1>0, <2>1, <2>2, <2>5 DEF TableOK, Linked
  <2>7. TableOK(t)
    BY <1>0, <2>1, <2>3, <2>4, <2>6 DEF TableOK
  <2>8. Cardinality(Locked(t)) <= 2 * 0
    BY <2>4, FS_EmptySet
  <2>9. \A r \in Rows : PlaceIn(t, r) = PlaceIn(s, r)
    <3> SUFFICES ASSUME NEW r \in Rows, rowHasEntry[r] # 0
                 PROVE  Partner(t.tuples[EntryID(t, r)], r) = Partner(s.tuples[EntryID(s, r)], r)
      BY <1>0, <2>1 DEF PlaceIn
    <3>1. EntryID(t, r) \in Tuples /\ EntryID(s, r) = EntryID(t, r)
      BY <1>0, <2>1, <2>7, EntryFacts DEF EntryID
    <3> QED
      BY <3>1, <1>0, <2>2 DEF Partner
  <2> QED
    BY <1>1, <1>3, <2>1, <2>7, <2>8, <2>9 DEF t, SwapsOf, SwappedOf
<1> QED
  BY <1>2, <1>3

(* An overfull table has a pair that is not locked: the window has locked  *)
(* at most two pairs for each of its mitigations.                          *)
LEMMA SomePairUnlocked ==
    ASSUME NEW t, TableOK(t), Overfull(t), Cardinality(Locked(t)) <= maxValidTuples
    PROVE  Unswappable(t) # {}
<1> SUFFICES ASSUME Unswappable(t) = {} PROVE FALSE
  OBVIOUS
<1>1. Valid(t) \in SUBSET Locked(t)
  BY DEF Valid, Locked, Unswappable
<1>2. Cardinality(Valid(t)) <= Cardinality(Locked(t))
  BY <1>1, PartsFinite, FS_Subset
<1>3. Cardinality(Valid(t)) \in Nat /\ Cardinality(Locked(t)) \in Nat
  BY PartsFinite
<1> QED
  BY <1>2, <1>3, Sizes DEF TableOK, Overfull

(* The end of an access: when the table t has room for what the window may *)
(* lock and holds the rows mitigated so far, the invariant holds again,    *)
(* and the only rows moved by then are those of the pair swapped back,     *)
(* which is charged.                                                       *)
LEMMA FinishOK ==
    ASSUME NEW t, TableOK(t), t.valid_tuples <= maxValidTuples + 1,
           NEW x \in Rows, Held(t, x),
           NEW addrs \in Nat, NEW elapsed \in BOOLEAN,
           SwapsOf(elapsed) \in Nat, SwapsOf(elapsed) < numEntries,
           Cardinality(Locked(t)) <= 2 * (SwapsOf(elapsed) + 1),
           SwappedOf(elapsed) \in SUBSET Rows, \A r \in SwappedOf(elapsed) : Held(t, r),
           Finish(t, x, addrs, elapsed)
    PROVE  /\ RRSInv'
           /\ validAddrs' = Charged(t, addrs)
           /\ \E p, q : {r \in Rows : Place'[r] # PlaceIn(t, r)} \subseteq
                           (IF Overfull(t) THEN {p, q} ELSE {})
<1> DEFINE u == IF Overfull(t) /\ Unswappable(t) # {} THEN Unswap(t) ELSE t
<1>1. /\ aborted' = (u.valid_tuples > maxValidTuples)
      /\ tuples' = u.tuples /\ rowHasEntry' = u.rowHasEntry
      /\ valid_tuples' = u.valid_tuples
      /\ validAddrs' = Charged(t, addrs)
      /\ swaps' = 1 + SwapsOf(elapsed) /\ swapped' = {x} \cup SwappedOf(elapsed)
  BY DEF Finish, SwapsOf, SwappedOf
<1>2. Overfull(t) => Unswappable(t) # {}
  <2>1. Cardinality(Locked(t)) <= maxValidTuples
    BY PartsFinite, Sizes
  <2> QED
    BY <2>1, SomePairUnlocked
<1>3. t \in TableType /\ t.valid_tuples \in Nat
  BY DEF TableOK, TableType
<1>4. /\ TableOK(u) /\ u.valid_tuples <= maxValidTuples
      /\ Locked(u) = Locked(t)
      /\ \A r \in Rows : Held(t, r) => Held(u, r)
      /\ \E p, q : \A r \in Rows \ (IF Overfull(t) THEN {p, q} ELSE {}) :
                      PlaceIn(u, r) = PlaceIn(t, r)
  <2>1. CASE Overfull(t)
    <3> DEFINE p == t.tuples[Min(Unswappable(t))]
    <3>1. u = Unswap(t)
      BY <1>2, <2>1
    <3> HIDE DEF u
    <3>2. /\ TableOK(u) /\ u.valid_tuples = t.valid_tuples - 1
          /\ Locked(u) = Locked(t)
          /\ \A r \in Rows : Held(t, r) => SameRow(t, u, r)
          /\ \A r \in Rows \ Pair(p) : SameRow(t, u, r)
      BY <1>2, <2>1, <3>1, UnswapOK
    <3>3. \A r \in Rows \ {p.origRowID, p.remappedRowID} : PlaceIn(u, r) = PlaceIn(t, r)
      BY <3>2, SameRowFacts DEF Pair
    <3>4. \A r \in Rows : Held(t, r) => Held(u, r)
      BY <3>2, SameRowFacts
    <3>5. u.valid_tuples <= maxValidTuples
      BY <3>2, <1>3, Sizes
    <3> QED
      BY <2>1, <3>2, <3>3, <3>4, <3>5
  <2>2. CASE ~Overfull(t)
    <3>1. u = t
      BY <2>2
    <3>2. t.valid_tuples <= maxValidTuples
      BY <2>2, <1>3, Sizes DEF Overfull
    <3> QED
      BY <2>2, <3>1, <3>2
  <2> QED
    BY <2>1, <2>2
<1> HIDE DEF u
<1>5. /\ u = [tuples |-> u.tuples, rowHasEntry |-> u.rowHasEntry,
              valid_tuples |-> u.valid_tuples]
      /\ u.tuples \in [Tuples -> RIT_Entry]
      /\ u.rowHasEntry \in [Rows -> 0 .. numTuples]
      /\ u.valid_tuples \in Nat
  BY <1>4 DEF TableOK, TableType
<1>6. Table(FALSE)' = u
  BY <1>1, <1>5 DEF Table
<1>7. ~aborted' /\ aborted' \in BOOLEAN
  <2>1. ~(u.valid_tuples > maxValidTuples)
    BY <1>4, <1>5, Sizes
  <2>2. ~aborted'
    BY <1>1, <2>1
  <2>3. aborted' \in BOOLEAN
    BY <1>1
  <2> QED
    BY <2>2, <2>3
<1>8. TypeOK'
  <2>1. valid_tuples' \in 0 .. numTuples
    BY <1>1, <1>4, <1>5, Sizes
  <2>2. validAddrs' \in Nat
    BY <1>1 DEF Charged
  <2>3. swaps' \in 0 .. numEntries
    BY <1>1, Sizes
  <2>4. swapped' \subseteq Rows
    BY <1>1
  <2>5. tuples' \in [Tuples -> RIT_Entry] /\ rowHasEntry' \in [Rows -> 0 .. numTuples]
    BY <1>1, <1>5
  <2> QED
    BY <1>7, <2>1, <2>2, <2>3, <2>4, <2>5 DEF TypeOK
<1>9. Cardinality(Locked(u)) <= 2 * swaps'
  BY <1>1, <1>4
<1>10. \A r \in swapped' : Held(u, r)
  BY <1>1, <1>4
<1>11. valid_tuples' <= maxValidTuples
  BY <1>1, <1>4
<1>12. RRSInv'
  BY <1>4, <1>6, <1>7, <1>8, <1>9, <1>10, <1>11 DEF RRSInv
<1>13. \A r \in Rows : Place'[r] = PlaceIn(u, r)
  BY <1>1 DEF Place, PlaceIn, EntryID
<1>14. \E p, q : {r \in Rows : Place'[r] # PlaceIn(t, r)} \subseteq
                    (IF Overfull(t) THEN {p, q} ELSE {})
  <2>1. PICK p, q : \A r \in Rows \ (IF Overfull(t) THEN {p, q} ELSE {}) :
                       PlaceIn(u, r) = PlaceIn(t, r)
    BY <1>4
  <2>2. {r \in Rows : Place'[r] # PlaceIn(t, r)} \subseteq
           (IF Overfull(t) THEN {p, q} ELSE {})
    BY <1>13, <2>1
  <2> QED
    BY <2>2
<1> QED
  BY <1>1, <1>12, <1>14

----------------------------------------------------------------------------
(* The actions *)

(* The rows that an access moved, counted against its decision: those of   *)
(* the new pairs, and the two of the pair swapped back.                    *)
LEMMA MovedCharged ==
    ASSUME NEW M, NEW N, IsFiniteSet(N), NEW t, NEW n \in Nat, Cardinality(N) <= n,
           NEW p, NEW q, M \subseteq N \cup (IF Overfull(t) THEN {p, q} ELSE {})
    PROVE  Cardinality(M) <= Charged(t, n)
<1> DEFINE T == IF Overfull(t) THEN {p, q} ELSE {}
           c == IF Overfull(t) THEN 2 ELSE 0
<1>1. IsFiniteSet(T) /\ Cardinality(T) <= c
  <2>1. CASE Overfull(t)
    BY <2>1, AtMostTwo
  <2>2. CASE ~Overfull(t)
    BY <2>2, FS_EmptySet
  <2> QED
    BY <2>1, <2>2
<1> HIDE DEF T
<1>2. /\ IsFiniteSet(N \cup T) /\ Cardinality(N \cup T) <= Cardinality(N) + Cardinality(T)
      /\ Cardinality(N) \in Nat /\ Cardinality(T) \in Nat
  BY <1>1, UnionAtMost
<1>3. IsFiniteSet(M) /\ Cardinality(M) <= Cardinality(N \cup T)
  BY <1>2, FS_Subset DEF T
<1>4. Cardinality(M) \in Nat /\ Cardinality(N \cup T) \in Nat
  BY <1>2, <1>3, FS_CardinalityType
<1>5. Cardinality(M) <= n + c
  BY <1>1, <1>2, <1>3, <1>4
<1> QED
  BY <1>5 DEF Charged

Moved == {r \in Rows : Place'[r] # Place[r]}

(* access() of a flagged row that is not swapped. *)
LEMMA InstallStep ==
    ASSUME RRSInv, NEW x \in Rows, NEW elapsed \in BOOLEAN, AccessInstall(x, elapsed)
    PROVE  RRSInv' /\ Cardinality(Moved) <= validAddrs'
<1>0. PICK t : t = Table(elapsed)
  OBVIOUS
<1>1. PICK y \in Eligible(t, x) : Finish(Install(t, x, y), x, 2, elapsed)
  BY <1>0 DEF AccessInstall
<1>2. PICK u : u = Install(t, x, y)
  OBVIOUS
<1>3. /\ TableOK(t) /\ t.valid_tuples <= maxValidTuples
      /\ Cardinality(Locked(t)) <= 2 * SwapsOf(elapsed)
      /\ \A r \in SwappedOf(elapsed) : Held(t, r)
      /\ \A r \in Rows : PlaceIn(t, r) = Place[r]
  BY <1>0, WindowOK DEF RRSInv
<1>4. /\ SwapsOf(elapsed) \in Nat /\ SwapsOf(elapsed) < numEntries
      /\ SwappedOf(elapsed) \in SUBSET Rows
  BY Sizes DEF SwapsOf, SwappedOf, AccessInstall, RRSInv, TypeOK
<1>5. t.rowHasEntry[x] = 0 /\ y \in Rows /\ x # y /\ t.rowHasEntry[y] = 0
  BY <1>0, <1>1 DEF AccessInstall, IsReswap, Eligible
<1>6. /\ TableOK(u) /\ u.valid_tuples = t.valid_tuples + 1
      /\ Cardinality(Locked(u)) <= Cardinality(Locked(t)) + 1
      /\ Held(u, x) /\ Held(u, y)
      /\ \A r \in Rows \ {x, y} : SameRow(t, u, r)
  BY <1>2, <1>3, <1>5, RoomLeft, InstallOK
<1>7. \A r \in SwappedOf(elapsed) : Held(u, r)
  BY <1>3, <1>4, <1>6, SameRowFacts
<1>8. u.valid_tuples <= maxValidTuples + 1 /\ Cardinality(Locked(u)) <= 2 * (SwapsOf(elapsed) + 1)
  <2>1. t.valid_tuples \in Nat
    BY <1>3 DEF TableOK, TableType
  <2> QED
    BY <1>3, <1>4, <1>6, <2>1, PartsFinite, Sizes
<1>9. /\ RRSInv' /\ validAddrs' = Charged(u, 2)
       /\ \E p, q : {r \in Rows : Place'[r] # PlaceIn(u, r)} \subseteq
                       (IF Overfull(u) THEN {p, q} ELSE {})
  BY <1>1, <1>2, <1>4, <1>6, <1>7, <1>8, FinishOK
<1>10. PICK p, q : {r \in Rows : Place'[r] # PlaceIn(u, r)} \subseteq
                      (IF Overfull(u) THEN {p, q} ELSE {})
  BY <1>9
<1>11. \A r \in Rows \ {x, y} : PlaceIn(u, r) = Place[r]
  BY <1>3, <1>6, SameRowFacts
<1>12. Moved \subseteq {x, y} \cup (IF Overfull(u) THEN {p, q} ELSE {})
  BY <1>10, <1>11 DEF Moved
<1>13. Cardinality(Moved) <= Charged(u, 2)
  BY <1>12, AtMostTwo, MovedCharged
<1> QED
  BY <1>9, <1>13

(* access() of a flagged row that is in a pair <X, A>. *)
LEMMA ReswapStep ==
    ASSUME RRSInv, NEW x \in Rows, NEW elapsed \in BOOLEAN, AccessReswap(x, elapsed)
    PROVE  RRSInv' /\ Cardinality(Moved) <= validAddrs'
<1>0. PICK t : t = Table(elapsed)
  OBVIOUS
<1>1. PICK a : a = Former(t, x)
  OBVIOUS
<1>2. PICK y \in Eligible(t, x) :
         \E b \in Eligible(Reswap(t, x, y), a) :
            Finish(Install(Reswap(t, x, y), a, b), x, 4, elapsed)
  BY <1>0, <1>1 DEF AccessReswap
<1>3. PICK v : v = Reswap(t, x, y)
  OBVIOUS
<1>4. PICK b \in Eligible(v, a) : Finish(Install(v, a, b), x, 4, elapsed)
  BY <1>2, <1>3
<1>5. PICK u : u = Install(v, a, b)
  OBVIOUS
<1>6. /\ TableOK(t) /\ t.valid_tuples <= maxValidTuples
      /\ Cardinality(Locked(t)) <= 2 * SwapsOf(elapsed)
      /\ \A r \in SwappedOf(elapsed) : Held(t, r)
      /\ \A r \in Rows : PlaceIn(t, r) = Place[r]
  BY <1>0, WindowOK DEF RRSInv
<1>7. /\ SwapsOf(elapsed) \in Nat /\ SwapsOf(elapsed) < numEntries
      /\ SwappedOf(elapsed) \in SUBSET Rows
  BY Sizes DEF SwapsOf, SwappedOf, AccessReswap, RRSInv, TypeOK
<1>8. t.rowHasEntry[x] # 0 /\ y \in Rows /\ x # y /\ t.rowHasEntry[y] = 0
  BY <1>0, <1>2 DEF AccessReswap, IsReswap, Eligible
<1>9. /\ TableOK(v) /\ v.valid_tuples = t.valid_tuples
      /\ Cardinality(Locked(v)) <= Cardinality(Locked(t)) + 1
      /\ Held(v, x) /\ Held(v, y)
      /\ a \in Rows /\ a # x /\ a # y /\ v.rowHasEntry[a] = 0
      /\ \A r \in Rows \ {x, y, a} : SameRow(t, v, r)
  BY <1>1, <1>3, <1>6, <1>8, ReswapOK
<1>10. b \in Rows /\ a # b /\ v.rowHasEntry[b] = 0
  BY <1>4 DEF Eligible
<1>11. /\ TableOK(u) /\ u.valid_tuples = v.valid_tuples + 1
       /\ Cardinality(Locked(u)) <= Cardinality(Locked(v)) + 1
       /\ Held(u, a) /\ Held(u, b)
       /\ \A r \in Rows \ {a, b} : SameRow(v, u, r)
  BY <1>5, <1>6, <1>9, <1>10, RoomLeft, InstallOK
<1>12. Held(u, x) /\ \A r \in SwappedOf(elapsed) : Held(u, r)
  <2>1. \A r \in Rows : Held(v, r) => Held(u, r)
    BY <1>11, SameRowFacts
  <2>2. \A r \in Rows : Held(t, r) /\ r # a => Held(v, r)
    BY <1>9, SameRowFacts
  <2> QED
    BY <1>6, <1>7, <1>9, <1>11, <2>1, <2>2
<1>13. u.valid_tuples <= maxValidTuples + 1
       /\ Cardinality(Locked(u)) <= 2 * (SwapsOf(elapsed) + 1)
  <2>1. t.valid_tuples \in Nat
    BY <1>6 DEF TableOK, TableType
  <2>2. /\ Cardinality(Locked(t)) \in Nat /\ Cardinality(Locked(v)) \in Nat
        /\ Cardinality(Locked(u)) \in Nat
    BY PartsFinite
  <2> QED
    BY <1>6, <1>7, <1>9, <1>11, <2>1, <2>2, Sizes
<1>14. /\ RRSInv' /\ validAddrs' = Charged(u, 4)
       /\ \E p, q : {r \in Rows : Place'[r] # PlaceIn(u, r)} \subseteq
                       (IF Overfull(u) THEN {p, q} ELSE {})
  <2>1. TableOK(u) /\ Finish(u, x, 4, elapsed)
    BY <1>4, <1>5, <1>11
  <2> QED
    BY <1>7, <1>12, <1>13, <2>1, FinishOK
<1>15. PICK p, q : {r \in Rows : Place'[r] # PlaceIn(u, r)} \subseteq
                      (IF Overfull(u) THEN {p, q} ELSE {})
  BY <1>14
<1>16. \A r \in Rows \ ({x, y} \cup {a, b}) : PlaceIn(u, r) = Place[r]
  BY <1>6, <1>9, <1>11, SameRowFacts
<1>17. Moved \subseteq ({x, y} \cup {a, b}) \cup (IF Overfull(u) THEN {p, q} ELSE {})
  BY <1>15, <1>16 DEF Moved
<1>18. IsFiniteSet({x, y} \cup {a, b}) /\ Cardinality({x, y} \cup {a, b}) <= 4
  BY AtMostFour
<1>19. Cardinality(Moved) <= Charged(u, 4)
  BY <1>17, <1>18, MovedCharged
<1> QED
  BY <1>14, <1>19

(* access() of a row that is not flagged: a reset() at most. *)
LEMMA OnlyStep ==
    ASSUME RRSInv, NEW elapsed \in BOOLEAN, AccessOnly(elapsed)
    PROVE  RRSInv' /\ Cardinality(Moved) <= validAddrs'
<1>0. PICK t : t = Table(elapsed)
  OBVIOUS
<1>1. /\ TableOK(t) /\ t.valid_tuples = valid_tuples /\ t.rowHasEntry = rowHasEntry
      /\ Cardinality(Locked(t)) <= 2 * SwapsOf(elapsed)
      /\ \A r \in SwappedOf(elapsed) : Held(t, r)
      /\ \A r \in Rows : PlaceIn(t, r) = Place[r]
  BY <1>0, WindowOK
<1>2. /\ tuples' = t.tuples /\ rowHasEntry' = t.rowHasEntry
      /\ valid_tuples' = t.valid_tuples /\ validAddrs' = 0 /\ aborted' = aborted
      /\ swaps' = SwapsOf(elapsed) /\ swapped' = SwappedOf(elapsed)
  BY <1>0, <1>1 DEF AccessOnly, SwapsOf, SwappedOf
<1>3. /\ t = [tuples |-> t.tuples, rowHasEntry |-> t.rowHasEntry,
              valid_tuples |-> t.valid_tuples]
      /\ t.tuples \in [Tuples -> RIT_Entry]
  BY <1>1 DEF TableOK, TableType
<1>4. Table(FALSE)' = t
  BY <1>2, <1>3 DEF Table
<1>5. /\ SwapsOf(elapsed) \in 0 .. numEntries /\ SwappedOf(elapsed) \in SUBSET Rows
  BY Sizes DEF SwapsOf, SwappedOf, RRSInv, TypeOK
<1>6. TypeOK'
  <2>1. /\ rowHasEntry \in [Rows -> 0 .. numTuples] /\ valid_tuples \in 0 .. numTuples
        /\ aborted \in BOOLEAN
    BY DEF RRSInv, TypeOK
  <2> QED
    BY <1>1, <1>2, <1>3, <1>5, <2>1 DEF TypeOK
<1>7. RRSInv'
  <2>1. valid_tuples <= maxValidTuples /\ ~aborted
    BY DEF RRSInv
  <2> QED
    BY <1>1, <1>2, <1>4, <1>6, <2>1 DEF RRSInv
<1>8. \A r \in Rows : Place'[r] = PlaceIn(t, r)
  BY <1>2 DEF Place, PlaceIn, EntryID
<1>9. Moved = {}
  BY <1>1, <1>8 DEF Moved
<1> QED
  BY <1>2, <1>7, <1>9, FS_EmptySet

----------------------------------------------------------------------------
(* The theorems *)

(* The invariant holds at start. *)
LEMMA InitInv == Init => RRSInv
<1> SUFFICES ASSUME Init PROVE RRSInv
  OBVIOUS
<1> DEFINE t == Table(FALSE)
<1>1. /\ t.tuples = [i \in Tuples |-> NoPair] /\ t.rowHasEntry = [r \in Rows |-> 0]
      /\ t.valid_tuples = 0
      /\ t = [tuples |-> t.tuples, rowHasEntry |-> t.rowHasEntry,
              valid_tuples |-> t.valid_tuples]
  BY DEF Init, Table
<1>2. NoPair \in RIT_Entry /\ ~NoPair.valid /\ ~NoPair.locked
  BY DEF NoPair, RIT_Entry
<1>3. 0 \in 0 .. numTuples /\ 0 \in 0 .. numEntries
  BY Sizes
<1>4. TypeOK
  <2>1. tuples \in [Tuples -> RIT_Entry]
    BY <1>2 DEF Init
  <2>2. rowHasEntry \in [Rows -> 0 .. numTuples]
    BY <1>3 DEF Init
  <2> QED
    BY <1>3, <2>1, <2>2 DEF Init, TypeOK
<1> HIDE DEF t
<1>5. Valid(t) = {} /\ Locked(t) = {}
  BY <1>1, <1>2 DEF Valid, Locked
<1>6. Linked(t)
  <2>1. \A i \in Tuples : ~t.tuples[i].valid /\ 0 # i + 1
    BY <1>1, <1>2, Sizes
  <2> QED
    BY <1>1, <2>1 DEF Linked
<1>7. t \in TableType
  <2>1. t.tuples \in [Tuples -> RIT_Entry]
    BY <1>1, <1>2
  <2>2. t.rowHasEntry \in [Rows -> 0 .. numTuples]
    BY <1>1, <1>3
  <2> QED
    BY <1>1, <2>1, <2>2 DEF TableType
<1>8. TableOK(t) /\ Cardinality(Locked(t)) = 0
  BY <1>1, <1>5, <1>6, <1>7, FS_EmptySet DEF TableOK
<1>9. valid_tuples = 0 /\ swaps = 0 /\ swapped = {} /\ ~aborted
  BY DEF Init
<1>10. valid_tuples <= maxValidTuples /\ Cardinality(Locked(t)) <= 2 * swaps
  BY <1>8, <1>9, Sizes
<1>11. \A r \in swapped : Held(t, r)
  BY <1>9
<1> QED
  BY <1>4, <1>8, <1>9, <1>10, <1>11 DEF RRSInv, t

(* Every step keeps the invariant, and pays for the rows it moves. *)
LEMMA StepInv ==
    ASSUME RRSInv, [Next]_vars
    PROVE  RRSInv' /\ (vars' # vars => Cardinality(Moved) <= validAddrs')
<1>1. ASSUME NEW x \in Rows, NEW elapsed \in BOOLEAN, AccessInstall(x, elapsed)
      PROVE  RRSInv' /\ Cardinality(Moved) <= validAddrs'
  BY <1>1, InstallStep
<1>2. ASSUME NEW x \in Rows, NEW elapsed \in BOOLEAN, AccessReswap(x, elapsed)
      PROVE  RRSInv' /\ Cardinality(Moved) <= validAddrs'
  BY <1>2, ReswapStep
<1>3. ASSUME NEW elapsed \in BOOLEAN, AccessOnly(elapsed)
      PROVE  RRSInv' /\ Cardinality(Moved) <= validAddrs'
  BY <1>3, OnlyStep
<1>4. CASE UNCHANGED vars
  <2>1. RRSInv'
    BY <1>4 DEF vars, RRSInv, TypeOK, Table
  <2> QED
    BY <1>4, <2>1
<1> QED
  BY <1>1, <1>2, <1>3, <1>4 DEF Next

(* The invariant holds always. *)
LEMMA InvCorrect == Spec => []RRSInv
<1>1. RRSInv /\ [Next]_vars => RRSInv'
  BY StepInv
<1> QED
  BY <1>1, InitInv, PTL DEF Spec

(* The variables keep their types; in particular no more mitigations are   *)
(* made in a window than the detector has entries.                         *)
THEOREM TypeCorrect == Spec => []TypeOK
<1>1. RRSInv => TypeOK
  BY DEF RRSInv
<1> QED
  BY <1>1, InvCorrect, PTL

(* The swaps are an involution on the rows, indexed correctly and counted: *)
(* the asserts of rowhammer_mitigation.cc:52 and :86 hold for every table. *)
THEOREM Involution == Spec => []SwapsAreInvolution
<1>1. RRSInv => SwapsAreInvolution
  <2> SUFFICES ASSUME RRSInv PROVE SwapsAreInvolution
    OBVIOUS
  <2> DEFINE t == Table(FALSE)
  <2>1. /\ TableOK(t) /\ t.tuples = tuples /\ t.rowHasEntry = rowHasEntry
        /\ t.valid_tuples = valid_tuples
    BY DEF RRSInv, Table
  <2> HIDE DEF t
  <2>2. Valid(t) = {i \in Tuples : tuples[i].valid}
    BY <2>1 DEF Valid
  <2> QED
    BY <2>1, <2>2 DEF TableOK, Linked, SwapsAreInvolution
<1> QED
  BY <1>1, InvCorrect, PTL

(* No assert of insertTuple or of generateRandomRowAddr fails: an overfull *)
(* table has a pair that may go, and there is always a row to draw.        *)
THEOREM AssertsHold == Spec => []NoAssertFails
<1>1. RRSInv => NoAssertFails
  <2> SUFFICES ASSUME RRSInv PROVE NoAssertFails
    OBVIOUS
  <2>1. PICK t : t = Table(FALSE)
    OBVIOUS
  <2>2. ~aborted /\ TableOK(t) /\ t.valid_tuples <= maxValidTuples
    BY <2>1 DEF RRSInv, Table
  <2>3. \A x \in Rows : Draws(t, x)
    BY <2>2, DrawsOK
  <2>4. ASSUME NEW x \in Rows, IsReswap(t, x), NEW y \in Eligible(t, x)
        PROVE  Draws(Reswap(t, x, y), Former(t, x))
    <3>1. t.rowHasEntry[x] # 0 /\ y \in Rows /\ x # y /\ t.rowHasEntry[y] = 0
      BY <2>4 DEF IsReswap, Eligible
    <3>2. /\ TableOK(Reswap(t, x, y))
          /\ Reswap(t, x, y).valid_tuples = t.valid_tuples
          /\ Former(t, x) \in Rows
      BY <2>2, <3>1, ReswapOK
    <3> QED
      BY <2>2, <3>2, DrawsOK
  <2> QED
    BY <2>1, <2>2, <2>3, <2>4 DEF NoAssertFails
<1> QED
  BY <1>1, InvCorrect, PTL

(* A row mitigated in this window stays swapped to the end of it. *)
THEOREM SwapStays == Spec => []SwapLasts
<1>1. RRSInv => SwapLasts
  BY DEF RRSInv, SwapLasts, Held, Table
<1> QED
  BY <1>1, InvCorrect, PTL

(* The rows an access moves are no more than the addresses it is charged   *)
(* for.                                                                    *)
THEOREM MovesCharged == Spec => SwapsCharged
<1>1. RRSInv /\ [Next]_vars =>
         [Cardinality({r \in Rows : Place'[r] # Place[r]}) <= validAddrs']_vars
  <2> SUFFICES ASSUME RRSInv, [Next]_vars, vars' # vars
               PROVE  Cardinality({r \in Rows : Place'[r] # Place[r]}) <= validAddrs'
    OBVIOUS
  <2> QED
    BY StepInv DEF Moved
<1> QED
  BY <1>1, InvCorrect, PTL DEF Spec, SwapsCharged
=============================================================================
