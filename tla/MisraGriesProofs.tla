------------------------- MODULE MisraGriesProofs -------------------------
(***************************************************************************)
(* Proofs about MisraGries, for every number of banks, rows and entries    *)
(* and every threshold.                                                    *)
(***************************************************************************)
EXTENDS MisraGries, SetLemmas, TLAPS

----------------------------------------------------------------------------
(* Arithmetic. *)

(* A product is monotone in its first factor. *)
LEMMA TimesMonotone ==
    ASSUME NEW a \in Nat, NEW b \in Nat, NEW c \in Nat, a <= b
    PROVE  a * c <= b * c
<1>1. PICK d \in Nat : b = a + d
  <2>1. b - a \in Nat /\ b = a + (b - a)
    OBVIOUS
  <2>2. QED
    BY <2>1
<1>2. b * c = a * c + d * c /\ d * c \in Nat /\ a * c \in Nat
  BY <1>1
<1>3. QED
  BY <1>2

(* The tracker has at least one entry, and one entry more would be too     *)
(* many for the accesses of a window.                                      *)
LEMMA EntriesNat ==
    /\ numEntries \in Nat \ {0}
    /\ numEntries * threshold <= ActsPerWindow
    /\ ActsPerWindow < (numEntries + 1) * threshold
<1> USE MGAssumption
<1>1. /\ numEntries \in Int
      /\ numEntries * threshold <= ActsPerWindow
      /\ ActsPerWindow < (numEntries + 1) * threshold
  BY DEF numEntries
<1>2. numEntries >= 1
  BY <1>1 DEF numEntries
<1>3. QED
  BY <1>1, <1>2

----------------------------------------------------------------------------
(* Type correctness. *)

(* The slot that an indexed row leads to, and the slot at which the scan   *)
(* ends, are slots of the tracker.                                         *)
LEMMA SlotIsSlot ==
    ASSUME NEW t \in Tracker, NEW r \in Rows
    PROVE  /\ HasEntry(t, r) => EntryID(t, r) \in Slots
           /\ Stops(t) # {} => Min(Stops(t)) \in Stops(t)
           /\ Stops(t) \in SUBSET Slots
<1>1. HasEntry(t, r) => EntryID(t, r) \in Slots
  BY EntriesNat DEF Tracker, HasEntry, EntryID, Slots
<1>2. Stops(t) \in SUBSET Slots /\ Slots \in SUBSET Nat
  BY EntriesNat DEF Stops, Slots
<1>3. Stops(t) # {} => Min(Stops(t)) \in Stops(t)
  BY <1>2, MinIsMember
<1>4. QED
  BY <1>1, <1>2, <1>3

(* Counting a tracked row leaves a well-formed tracker. *)
LEMMA HitType ==
    ASSUME NEW t \in Tracker, NEW r \in Rows, HasEntry(t, r)
    PROVE  Hit(t, r) \in Tracker
BY SlotIsSlot DEF Hit, Count, Tracker, Tracker_Entry

(* Installing a row in a slot leaves a well-formed tracker. *)
LEMMA InstallType ==
    ASSUME NEW t \in Tracker, NEW r \in Rows, NEW i \in Slots
    PROVE  Install(t, i, r) \in Tracker
<1>1. Index(t, i, r) \in [Rows -> 0 .. numEntries]
  BY EntriesNat DEF Index, Tracker, Slots
<1>2. [t.entries EXCEPT ![i] = Count(t, i, r)] \in [Slots -> Tracker_Entry]
  BY DEF Count, Tracker, Tracker_Entry
<1>3. QED
  BY <1>1, <1>2 DEF Install, Tracker

(* access() of any row leaves a well-formed tracker. *)
LEMMA CountedType ==
    ASSUME NEW t \in Tracker, NEW r \in Rows
    PROVE  Counted(t, r) \in Tracker
<1>1. CASE HasEntry(t, r)
  BY <1>1, HitType DEF Counted
<1>2. CASE ~HasEntry(t, r) /\ Stops(t) # {}
  BY <1>2, SlotIsSlot, InstallType DEF Counted
<1>3. CASE ~HasEntry(t, r) /\ Stops(t) = {}
  BY <1>3 DEF Counted, Spill, Tracker
<1>4. QED
  BY <1>1, <1>2, <1>3

(* The constructor makes a well-formed tracker, whatever the memory held. *)
LEMMA StartedType ==
    ASSUME NEW spill \in Nat
    PROVE  Started(spill) \in Tracker
BY MGAssumption, EntriesNat DEF Started, EmptyEntry, Tracker, Tracker_Entry, Rows, Slots

(* The reset() that may precede an access keeps the trackers well formed. *)
LEMMA WindowType ==
    ASSUME NEW elapsed \in BOOLEAN, TypeOK
    PROVE  Window(elapsed) \in [Banks -> Tracker]
<1>1. Cleared \in Tracker
  BY StartedType DEF Cleared
<1>2. QED
  BY <1>1 DEF Window, Reset, TypeOK

(* Every variable has its type at start, whatever the memory held. *)
LEMMA TypeInit ==
    ASSUME Init
    PROVE  TypeOK
<1>1. PICK spill \in [Banks -> InitialSpill] :
         trackers = [b \in Banks |-> Started(spill[b])]
  BY DEF Init
<1>2. \A b \in Banks : Started(spill[b]) \in Tracker
  BY <1>1, StartedType, MGAssumption
<1>3. trackers \in [Banks -> Tracker]
  BY <1>1, <1>2
<1>4. booted \in BOOLEAN /\ aborted \in BOOLEAN
  BY MGAssumption, Zenon DEF Init
<1>5. QED
  BY <1>3, <1>4, MGAssumption DEF Init, TypeOK

(* Every access keeps the types. *)
LEMMA TypeNext ==
    ASSUME TypeOK, NEW b \in Banks, NEW r \in Rows, NEW elapsed \in BOOLEAN,
           Access(b, r, elapsed)
    PROVE  TypeOK'
<1> DEFINE ts == Window(elapsed)
<1>1. ts \in [Banks -> Tracker]
  BY WindowType
<1>2. trackers' \in [Banks -> Tracker]
  <2>1. (IF aborted' THEN ts[b] ELSE Counted(ts[b], r)) \in Tracker
    BY <1>1, CountedType
  <2>2. trackers' = [ts EXCEPT ![b] = IF aborted' THEN ts[b]
                                      ELSE Counted(ts[b], r)]
    BY <1>1 DEF Access
  <2> HIDE DEF ts
  <2>3. QED
    BY <1>1, <2>1, <2>2
<1>3. booted' \in BOOLEAN /\ aborted' \in BOOLEAN
  BY DEF Access, AssertFails
<1>4. acts' \in [Banks -> 0 .. ActsPerWindow]
  BY MGAssumption DEF Access, TypeOK
<1>5. since' \in [Banks -> [Rows -> Nat]]
  BY DEF Access, TypeOK
<1>6. flags' \in [Banks -> Nat]
  BY DEF Access, TypeOK
<1>7. QED
  BY <1>2, <1>3, <1>4, <1>5, <1>6 DEF TypeOK

(* Every variable keeps its type: in particular the slot counts, the row   *)
(* index and the spill counter of every bank, whatever access() does, and  *)
(* whatever the uninitialised spill counter held.                          *)
THEOREM TypeCorrect == Spec => []TypeOK
<1>1. Init => TypeOK
  BY TypeInit
<1>2. TypeOK /\ [Next]_vars => TypeOK'
  <2> SUFFICES ASSUME TypeOK, [Next]_vars PROVE TypeOK'
    OBVIOUS
  <2>1. CASE UNCHANGED vars
    BY <2>1 DEF TypeOK, vars
  <2>2. QED
    BY <2>1, TypeNext DEF Next
<1>3. QED
  BY <1>1, <1>2, PTL DEF Spec

----------------------------------------------------------------------------
(* Counting the accesses of a window. *)

(* The next count is a multiple of the threshold, or its remainder is the  *)
(* next one.                                                               *)
LEMMA NextRemainder ==
    ASSUME NEW c \in Nat
    PROVE  /\ c % threshold \in 0 .. threshold - 1
           /\ Flags(c + 1)  => /\ c % threshold = threshold - 1
                               /\ (c + 1) % threshold = 0
           /\ ~Flags(c + 1) => /\ (c % threshold) + 1 < threshold
                               /\ (c + 1) % threshold = (c % threshold) + 1
<1> USE MGAssumption
<1>1. PICK q \in Int, m \in 0 .. threshold - 1 : c = q * threshold + m /\ m = c % threshold
  <2>1. /\ c \div threshold \in Int
        /\ c % threshold \in 0 .. threshold - 1
        /\ c = (c \div threshold) * threshold + (c % threshold)
    OBVIOUS
  <2>2. QED
    BY <2>1
<1>2. CASE m + 1 < threshold
  <2>1. c + 1 = q * threshold + (m + 1)
    BY <1>1
  <2>2. (c + 1) % threshold = m + 1
    BY <2>1, <1>1, <1>2
  <2>3. QED
    BY <2>2, <1>1, <1>2 DEF Flags
<1>3. CASE m + 1 = threshold
  <2>1. c + 1 = (q + 1) * threshold
    BY <1>1, <1>3
  <2>2. (c + 1) % threshold = 0
    BY <2>1, <1>1
  <2>3. QED
    BY <2>2, <1>1, <1>3 DEF Flags
<1>4. QED
  BY <1>1, <1>2, <1>3

(* The columns of tokens. *)
LEMMA ColumnCardinality ==
    ASSUME NEW i, NEW m \in Nat
    PROVE  /\ IsFiniteSet({i} \X (1 .. m))
           /\ Cardinality({i} \X (1 .. m)) = m
<1>1. IsFiniteSet({i}) /\ Cardinality({i}) = 1
  BY FS_Singleton
<1>2. IsFiniteSet(1 .. m) /\ Cardinality(1 .. m) = m
  BY FS_Interval
<1>3. QED
  <2>1. IsFiniteSet({i} \X (1 .. m))
    BY <1>1, <1>2, FS_Product, Zenon
  <2>2. Cardinality({i} \X (1 .. m)) = Cardinality({i}) * Cardinality(1 .. m)
    BY <1>1, <1>2, FS_Product, Zenon
  <2>3. QED
    BY <1>1, <1>2, <2>1, <2>2

(* There are finitely many tokens of either kind. *)
LEMMA TokensFinite ==
    ASSUME NEW t \in Tracker
    PROVE  /\ IsFiniteSet(Tokens(t))     /\ Cardinality(Tokens(t)) \in Nat
           /\ IsFiniteSet(OpenTokens(t)) /\ Cardinality(OpenTokens(t)) \in Nat
<1> USE MGAssumption, EntriesNat
<1>1. IsFiniteSet(Slots) /\ IsFiniteSet(1 .. ActsPerWindow) /\ IsFiniteSet(1 .. threshold)
  BY FS_Interval DEF Slots
<1>2. IsFiniteSet(Slots \X (1 .. ActsPerWindow)) /\ IsFiniteSet(Slots \X (1 .. threshold))
  BY <1>1, FS_Product
<1>3. /\ Tokens(t) \in SUBSET (Slots \X (1 .. ActsPerWindow))
      /\ OpenTokens(t) \in SUBSET (Slots \X (1 .. threshold))
  BY DEF Tokens, OpenTokens
<1>4. IsFiniteSet(Tokens(t)) /\ IsFiniteSet(OpenTokens(t))
  BY <1>2, <1>3, FS_Subset
<1>5. QED
  BY <1>4, FS_CardinalityType

(* As long as the bank may take another access, no slot has counted as     *)
(* many as fit in a window.                                                *)
LEMMA CountBelowWindow ==
    ASSUME NEW t \in Tracker, NEW n \in Nat, n < ActsPerWindow,
           Cardinality(Tokens(t)) + t.spill_counter = n,
           NEW i \in Slots
    PROVE  t.entries[i].count < ActsPerWindow
<1> USE MGAssumption
<1> DEFINE col == {i} \X (1 .. ActsPerWindow)
<1>1. t.entries[i].count \in Nat /\ t.spill_counter \in Nat
  BY DEF Tracker, Tracker_Entry
<1>2. SUFFICES ASSUME t.entries[i].count >= ActsPerWindow PROVE FALSE
  BY <1>1
<1>3. col \in SUBSET Tokens(t)
  BY <1>1, <1>2 DEF Tokens
<1>4. Cardinality(col) = ActsPerWindow
  BY ColumnCardinality
<1> HIDE DEF col
<1>5. Cardinality(col) <= Cardinality(Tokens(t))
  BY <1>3, TokensFinite, FS_Subset
<1>6. QED
  BY <1>1, <1>4, <1>5, TokensFinite

(* The spill counter never reaches the threshold: the slots are all at     *)
(* least as far, and together they would have taken too many accesses.     *)
LEMMA SpillBelowThreshold ==
    ASSUME NEW t \in Tracker, NEW n \in Nat, n <= ActsPerWindow,
           SlotsAhead(t), Cardinality(Tokens(t)) + t.spill_counter = n
    PROVE  t.spill_counter < threshold
<1> USE MGAssumption, EntriesNat
<1> DEFINE sp == t.spill_counter
           block == Slots \X (1 .. sp)
<1>1. sp \in Nat /\ \A i \in Slots : t.entries[i].count \in Nat
  BY DEF Tracker, Tracker_Entry
<1>2. sp <= ActsPerWindow
  BY <1>1, TokensFinite
<1>3. block \in SUBSET Tokens(t)
  BY <1>1, <1>2 DEF Tokens, SlotsAhead
<1>4. IsFiniteSet(block) /\ Cardinality(block) = numEntries * sp
  <2>1. IsFiniteSet(Slots) /\ Cardinality(Slots) = numEntries
    BY FS_Interval DEF Slots
  <2>2. IsFiniteSet(1 .. sp) /\ Cardinality(1 .. sp) = sp
    <3> HIDE DEF sp
    <3>1. QED
      BY <1>1, FS_Interval
  <2> HIDE DEF sp
  <2>3. QED
    BY <2>1, <2>2, FS_Product
<1> HIDE DEF block
<1>5. numEntries * sp + sp <= ActsPerWindow
  BY <1>1, <1>3, <1>4, TokensFinite, FS_Subset
<1>6. sp * (numEntries + 1) < threshold * (numEntries + 1)
  BY <1>1, <1>5
<1>7. ~(threshold <= sp)
  <2>1. SUFFICES ASSUME threshold <= sp PROVE FALSE
    OBVIOUS
  <2>2. threshold * (numEntries + 1) <= sp * (numEntries + 1)
    BY <1>1, <2>1, TimesMonotone
  <2>3. threshold * (numEntries + 1) \in Int /\ sp * (numEntries + 1) \in Int
    BY <1>1
  <2>4. QED
    BY <1>6, <2>2, <2>3
<1>8. QED
  BY <1>1, <1>7

(* Counting an access in slot i adds one token; it adds one open token, or *)
(* flags the row and closes the threshold - 1 open tokens of the slot.     *)
LEMMA CountAccounted ==
    ASSUME NEW t \in Tracker, NEW u \in Tracker, NEW r \in Rows, NEW i \in Slots,
           NEW n \in Nat, n < ActsPerWindow, NEW f \in Nat,
           Accounted(t, n, f),
           u.entries = [t.entries EXCEPT ![i] = Count(t, i, r)],
           u.spill_counter = t.spill_counter
    PROVE  Accounted(u, n + 1,
                     f + (IF Flags(t.entries[i].count + 1) THEN 1 ELSE 0))
<1> USE MGAssumption
<1> DEFINE c == t.entries[i].count
           m == c % threshold
<1>1. /\ c \in Nat /\ t.spill_counter \in Nat
      /\ \A k \in Slots : t.entries[k].count \in Nat
      /\ \A k \in Slots : u.entries[k].count = IF k = i THEN c + 1
                                               ELSE t.entries[k].count
  BY DEF Tracker, Tracker_Entry, Count
<1>2. c < ActsPerWindow
  BY CountBelowWindow DEF Accounted
<1>3. Cardinality(Tokens(u)) = Cardinality(Tokens(t)) + 1
  <2>1. Tokens(u) = Tokens(t) \cup {<<i, c + 1>>}
    <3>1. \A k \in Slots, j \in 1 .. ActsPerWindow :
             j <= u.entries[k].count <=>
                \/ j <= t.entries[k].count
                \/ k = i /\ j = c + 1
      BY <1>1
    <3>2. <<i, c + 1>> \in Slots \X (1 .. ActsPerWindow)
      BY <1>1, <1>2
    <3> HIDE DEF c
    <3>3. QED
      BY <3>1, <3>2 DEF Tokens
  <2>2. <<i, c + 1>> \notin Tokens(t)
    BY <1>1 DEF Tokens
  <2> HIDE DEF c
  <2>3. QED
    BY <2>1, <2>2, TokensFinite, FS_AddElement
<1>4. /\ m \in 0 .. threshold - 1
      /\ Flags(c + 1)  => m = threshold - 1 /\ (c + 1) % threshold = 0
      /\ ~Flags(c + 1) => m + 1 < threshold /\ (c + 1) % threshold = m + 1
  BY <1>1, NextRemainder
<1>5. \A k \in Slots : u.entries[k].count % threshold =
           IF k = i THEN (c + 1) % threshold
           ELSE t.entries[k].count % threshold
  BY <1>1
<1>6. CASE ~Flags(c + 1)
  <2>1. OpenTokens(u) = OpenTokens(t) \cup {<<i, m + 1>>}
    <3>1. \A k \in Slots, j \in 1 .. threshold :
             j <= u.entries[k].count % threshold <=>
                \/ j <= t.entries[k].count % threshold
                \/ k = i /\ j = m + 1
      BY <1>1, <1>4, <1>5, <1>6
    <3>2. <<i, m + 1>> \in Slots \X (1 .. threshold)
      BY <1>4, <1>6
    <3> HIDE DEF m, c
    <3>3. QED
      BY <3>1, <3>2 DEF OpenTokens
  <2>2. <<i, m + 1>> \notin OpenTokens(t)
    BY <1>1, <1>4 DEF OpenTokens
  <2> HIDE DEF m
  <2>3. Cardinality(OpenTokens(u)) = Cardinality(OpenTokens(t)) + 1
    BY <2>1, <2>2, TokensFinite, FS_AddElement
  <2>4. QED
    BY <1>1, <1>3, <1>6, <2>3, TokensFinite DEF Accounted
<1>7. CASE Flags(c + 1)
  <2> DEFINE col == {i} \X (1 .. (threshold - 1))
  <2>1. OpenTokens(t) = OpenTokens(u) \cup col
    <3>1. \A k \in Slots, j \in 1 .. threshold :
             j <= t.entries[k].count % threshold <=>
                \/ j <= u.entries[k].count % threshold
                \/ k = i /\ j \in 1 .. (threshold - 1)
      BY <1>1, <1>4, <1>5, <1>7
    <3>2. col \subseteq Slots \X (1 .. threshold)
      OBVIOUS
    <3>3. QED
      BY <3>1, <3>2 DEF OpenTokens
  <2>2. OpenTokens(u) \cap col = {}
    BY <1>1, <1>4, <1>5, <1>7 DEF OpenTokens
  <2>3. IsFiniteSet(col) /\ Cardinality(col) = threshold - 1
    <3>1. threshold - 1 \in Nat
      OBVIOUS
    <3>2. QED
      BY <3>1, ColumnCardinality, Zenon
  <2> HIDE DEF col
  <2>4. Cardinality(OpenTokens(t)) = Cardinality(OpenTokens(u)) + (threshold - 1)
    <3>1. Cardinality(OpenTokens(u) \cap col) = 0
      BY <2>2, FS_EmptySet
    <3>2. /\ IsFiniteSet(OpenTokens(u))
          /\ Cardinality(OpenTokens(u)) \in Nat
      BY TokensFinite
    <3>3. Cardinality(OpenTokens(u) \cup col) =
             Cardinality(OpenTokens(u)) + Cardinality(col)
               - Cardinality(OpenTokens(u) \cap col)
      BY <2>3, <3>2, FS_Union, Zenon
    <3>4. QED
      BY <2>1, <2>3, <3>1, <3>2, <3>3
  <2>5. threshold * (f + 1) = threshold * f + threshold /\ threshold * f \in Nat
    OBVIOUS
  <2>6. QED
    BY <1>1, <1>3, <1>7, <2>4, <2>5, TokensFinite DEF Accounted
<1>8. QED
  BY <1>6, <1>7

----------------------------------------------------------------------------
(* One access preserves the invariant of its tracker. *)

(* The asserts of access() hold: an indexed row sits in its slot, and a    *)
(* scan that stops, stops at a slot that matches the spill counter.        *)
LEMMA StopsMatch ==
    ASSUME NEW t \in Tracker, NEW r \in Rows, IndexCorrect(t), SlotsAhead(t)
    PROVE  /\ ~AssertFails(t, r)
           /\ Stops(t) # {} => Matches(t, Min(Stops(t)))
           /\ HasEntry(t, r) => /\ t.entries[EntryID(t, r)].valid
                                /\ t.entries[EntryID(t, r)].addr = r
<1>1. \A i \in Stops(t) : Matches(t, i)
  BY DEF Stops, Matches, SlotsAhead, Tracker, Tracker_Entry
<1>2. Stops(t) # {} => Matches(t, Min(Stops(t)))
  BY <1>1, SlotIsSlot
<1>3. ASSUME HasEntry(t, r)
      PROVE  /\ t.entries[EntryID(t, r)].valid
             /\ t.entries[EntryID(t, r)].addr = r
  <2>1. EntryID(t, r) \in Slots /\ t.rowHasEntry[r] = EntryID(t, r) + 1
    BY <1>3, SlotIsSlot DEF EntryID, Tracker
  <2>2. QED
    BY <2>1 DEF IndexCorrect
<1>4. QED
  BY <1>2, <1>3 DEF AssertFails

(* access() of a tracked row. *)
LEMMA HitInv ==
    ASSUME NEW t \in Tracker, NEW r \in Rows, NEW n \in Nat, NEW f \in Nat,
           NEW s \in [Rows -> Nat], NEW s2 \in [Rows -> Nat],
           n < ActsPerWindow, TrackerInv(t, n, s, f),
           HasEntry(t, r),
           s2 = [s EXCEPT ![r] = IF Detected(t, r) THEN 0 ELSE s[r] + 1]
    PROVE  TrackerInv(Hit(t, r), n + 1, s2, f + (IF Detected(t, r) THEN 1 ELSE 0))
<1> USE MGAssumption
<1> DEFINE i == EntryID(t, r)
           u == Hit(t, r)
           c == t.entries[i].count
<1>1. i \in Slots /\ t.entries[i].valid /\ t.entries[i].addr = r
  BY SlotIsSlot, StopsMatch DEF TrackerInv
<1>2. u \in Tracker
  BY HitType
<1>3. /\ u.entries = [t.entries EXCEPT ![i] = Count(t, i, r)]
      /\ u.rowHasEntry = t.rowHasEntry
      /\ u.spill_counter = t.spill_counter
  BY DEF Hit
<1>4. /\ c \in Nat /\ t.spill_counter \in Nat
      /\ \A k \in Slots : u.entries[k] = IF k = i THEN Count(t, i, r) ELSE t.entries[k]
      /\ \A k \in Slots : t.entries[k].count \in Nat
  BY <1>1, <1>3 DEF Tracker, Tracker_Entry
<1>5. Detected(t, r) = Flags(c + 1)
  BY DEF Detected
<1> HIDE DEF u, i
<1>6. IndexCorrect(u)
  BY <1>1, <1>3, <1>4 DEF TrackerInv, IndexCorrect, Count
<1>7. SlotsAhead(u)
  BY <1>1, <1>3, <1>4 DEF TrackerInv, SlotsAhead, Count
<1>8. NeverUnderestimates(u, s2)
  <2> SUFFICES ASSUME NEW x \in Rows
               PROVE  IF HasEntry(u, x)
                      THEN s2[x] <= u.entries[EntryID(u, x)].count % threshold
                      ELSE s2[x] <= u.spill_counter
    BY DEF NeverUnderestimates
  <2>1. HasEntry(u, x) = HasEntry(t, x) /\ EntryID(u, x) = EntryID(t, x)
    BY <1>3 DEF HasEntry, EntryID
  <2>2. CASE x = r
    <3>1. s[r] <= c % threshold
      BY DEF TrackerInv, NeverUnderestimates, i
    <3>2. u.entries[EntryID(u, x)].count = c + 1
      BY <1>1, <1>4, <2>1, <2>2 DEF Count, i
    <3>3. s2[r] <= (c + 1) % threshold
      <4>1. CASE Flags(c + 1)
        BY <1>4, <1>5, <4>1, NextRemainder
      <4>2. CASE ~Flags(c + 1)
        <5> HIDE DEF c
        <5>1. s2[r] = s[r] + 1 /\ s[r] \in Nat
          BY <1>5, <4>2
        <5>2. (c + 1) % threshold = (c % threshold) + 1 /\ c % threshold \in Int
          BY <1>4, <4>2, NextRemainder
        <5>3. QED
          BY <3>1, <5>1, <5>2
      <4>3. QED
        BY <4>1, <4>2
    <3>4. QED
      BY <2>1, <2>2, <3>2, <3>3
  <2>3. CASE x # r
    <3>1. s2[x] = s[x]
      BY <2>3
    <3>2. HasEntry(t, x) => /\ EntryID(t, x) \in Slots
                            /\ t.entries[EntryID(t, x)].addr = x
      BY SlotIsSlot, StopsMatch DEF TrackerInv
    <3>3. HasEntry(t, x) => u.entries[EntryID(t, x)] = t.entries[EntryID(t, x)]
      BY <1>1, <1>4, <2>3, <3>2
    <3>4. QED
      BY <1>3, <2>1, <3>1, <3>3 DEF TrackerInv, NeverUnderestimates
  <2>4. QED
    BY <2>2, <2>3
<1>9. Accounted(u, n + 1, f + (IF Detected(t, r) THEN 1 ELSE 0))
  BY <1>1, <1>2, <1>3, <1>5, CountAccounted DEF TrackerInv
<1>10. QED
  BY <1>6, <1>7, <1>8, <1>9 DEF TrackerInv, u

(* access() of an untracked row that takes over a slot at the level of the *)
(* spill counter.  The row it evicts falls back to the spill counter's     *)
(* estimate, which is what its slot said.                                  *)
LEMMA InstallInv ==
    ASSUME NEW t \in Tracker, NEW r \in Rows, NEW n \in Nat, NEW f \in Nat,
           NEW s \in [Rows -> Nat], NEW s2 \in [Rows -> Nat],
           n < ActsPerWindow, TrackerInv(t, n, s, f),
           ~HasEntry(t, r), Stops(t) # {},
           s2 = [s EXCEPT ![r] = IF Detected(t, r) THEN 0 ELSE s[r] + 1]
    PROVE  TrackerInv(Install(t, Min(Stops(t)), r), n + 1, s2,
                      f + (IF Detected(t, r) THEN 1 ELSE 0))
<1> USE MGAssumption
<1> DEFINE i == Min(Stops(t))
           u == Install(t, i, r)
           c == t.entries[i].count
<1>1. i \in Slots /\ c = t.spill_counter
  BY SlotIsSlot, StopsMatch DEF TrackerInv, Matches
<1>2. u \in Tracker
  BY <1>1, InstallType
<1>3. /\ u.entries = [t.entries EXCEPT ![i] = Count(t, i, r)]
      /\ u.rowHasEntry = Index(t, i, r)
      /\ u.spill_counter = t.spill_counter
  BY DEF Install
<1>4. /\ c \in Nat /\ t.spill_counter \in Nat
      /\ \A k \in Slots : u.entries[k] = IF k = i THEN Count(t, i, r) ELSE t.entries[k]
      /\ \A k \in Slots : t.entries[k].count \in Nat
      /\ \A x \in Rows : t.rowHasEntry[x] \in 0 .. numEntries
  BY <1>1, <1>3 DEF Tracker, Tracker_Entry
<1>5. Detected(t, r) = Flags(c + 1)
  BY DEF Detected, Flags
<1>6. c < threshold
  BY <1>1, SpillBelowThreshold DEF TrackerInv, Accounted
<1>7. \A x \in Rows : u.rowHasEntry[x] =
          IF x = r THEN i + 1
          ELSE IF t.rowHasEntry[x] = i + 1 THEN 0 ELSE t.rowHasEntry[x]
  <2>1. \A x \in Rows : t.entries[i].valid /\ x = t.entries[i].addr
                        <=> t.rowHasEntry[x] = i + 1
    <3> HIDE DEF i
    <3>1. QED
      BY <1>1 DEF TrackerInv, IndexCorrect
  <2> HIDE DEF u, i
  <2>2. QED
    BY <1>3, <2>1 DEF Index
<1>8. t.rowHasEntry[r] = 0
  BY DEF HasEntry
<1> HIDE DEF u, i
<1>9. IndexCorrect(u)
  <2> SUFFICES ASSUME NEW x \in Rows, NEW k \in Slots
               PROVE  u.rowHasEntry[x] = k + 1 <=>
                         u.entries[k].valid /\ u.entries[k].addr = x
    BY DEF IndexCorrect
  <2>0. /\ i \in Nat /\ k \in Nat
        /\ t.rowHasEntry[x] = k + 1 <=> t.entries[k].valid /\ t.entries[k].addr = x
        /\ t.rowHasEntry[r] = k + 1 <=> t.entries[k].valid /\ t.entries[k].addr = r
    BY <1>1, EntriesNat DEF TrackerInv, IndexCorrect, Slots
  <2>1. CASE k = i
    <3>1. u.entries[k].valid /\ u.entries[k].addr = r
      BY <1>4, <2>1 DEF Count
    <3>2. u.rowHasEntry[x] = i + 1 <=> x = r
      BY <1>4, <1>7, <2>0
    <3>3. QED
      BY <2>1, <3>1, <3>2
  <2>2. CASE k # i
    <3>1. u.entries[k] = t.entries[k]
      BY <1>4, <2>2
    <3>2. u.rowHasEntry[x] = k + 1 <=> t.rowHasEntry[x] = k + 1
      BY <1>4, <1>7, <1>8, <2>0, <2>2
    <3>3. QED
      BY <2>0, <3>1, <3>2
  <2>3. QED
    BY <2>1, <2>2
<1>10. SlotsAhead(u)
  BY <1>1, <1>3, <1>4 DEF TrackerInv, SlotsAhead, Count
<1>11. NeverUnderestimates(u, s2)
  <2> SUFFICES ASSUME NEW x \in Rows
               PROVE  IF HasEntry(u, x)
                      THEN s2[x] <= u.entries[EntryID(u, x)].count % threshold
                      ELSE s2[x] <= u.spill_counter
    BY DEF NeverUnderestimates
  <2>0. i \in Nat /\ s[x] \in Nat /\ s[r] \in Nat
    BY <1>1, EntriesNat DEF Slots
  <2>1. CASE x = r
    <3>1. HasEntry(u, r) /\ EntryID(u, r) = i
      BY <1>7, <2>0 DEF HasEntry, EntryID
    <3>2. u.entries[i].count = c + 1
      BY <1>1, <1>4 DEF Count
    <3>3. s[r] <= c
      BY <1>1 DEF TrackerInv, NeverUnderestimates
    <3>4. s2[r] <= (c + 1) % threshold
      <4>1. CASE Flags(c + 1)
        BY <1>4, <1>5, <4>1, NextRemainder
      <4>2. CASE ~Flags(c + 1)
        <5>1. c % threshold = c
          BY <1>4, <1>6
        <5> HIDE DEF c
        <5>2. s2[r] = s[r] + 1
          BY <1>5, <4>2
        <5>3. (c + 1) % threshold = c + 1
          BY <1>4, <4>2, <5>1, NextRemainder
        <5>4. QED
          BY <1>4, <2>0, <3>3, <5>2, <5>3
      <4>3. QED
        BY <4>1, <4>2
    <3>5. QED
      BY <2>1, <3>1, <3>2, <3>4
  <2>2. CASE x # r /\ t.rowHasEntry[x] = i + 1
    <3>1. ~HasEntry(u, x)
      BY <1>7, <2>2 DEF HasEntry
    <3>2. HasEntry(t, x) /\ EntryID(t, x) = i
      BY <2>0, <2>2 DEF HasEntry, EntryID
    <3>3. s[x] <= c % threshold
      BY <3>2 DEF TrackerInv, NeverUnderestimates
    <3>4. c % threshold = c
      BY <1>4, <1>6
    <3>5. s2[x] = s[x]
      BY <2>2
    <3>6. QED
      BY <1>1, <1>3, <3>1, <3>3, <3>4, <3>5
  <2>3. CASE x # r /\ t.rowHasEntry[x] # i + 1
    <3>1. u.rowHasEntry[x] = t.rowHasEntry[x] /\ s2[x] = s[x]
      BY <1>7, <2>3
    <3>2. HasEntry(u, x) = HasEntry(t, x) /\ EntryID(u, x) = EntryID(t, x)
      BY <3>1 DEF HasEntry, EntryID
    <3>3. HasEntry(t, x) => EntryID(t, x) \in Slots /\ EntryID(t, x) # i
      BY <1>4, <2>0, <2>3, SlotIsSlot DEF EntryID
    <3>4. HasEntry(t, x) => u.entries[EntryID(t, x)] = t.entries[EntryID(t, x)]
      BY <1>4, <3>3
    <3>5. QED
      BY <1>3, <3>1, <3>2, <3>4 DEF TrackerInv, NeverUnderestimates
  <2>4. QED
    BY <2>1, <2>2, <2>3
<1>12. Accounted(u, n + 1, f + (IF Detected(t, r) THEN 1 ELSE 0))
  BY <1>1, <1>2, <1>3, <1>5, CountAccounted DEF TrackerInv
<1>13. QED
  BY <1>9, <1>10, <1>11, <1>12 DEF TrackerInv, u, i

(* access() of an untracked row that finds no slot: every slot is ahead of *)
(* the spill counter, which may therefore count the access.                *)
LEMMA SpillInv ==
    ASSUME NEW t \in Tracker, NEW r \in Rows, NEW n \in Nat, NEW f \in Nat,
           NEW s \in [Rows -> Nat], NEW s2 \in [Rows -> Nat],
           n < ActsPerWindow, TrackerInv(t, n, s, f),
           ~HasEntry(t, r), Stops(t) = {},
           s2 = [s EXCEPT ![r] = s[r] + 1]
    PROVE  TrackerInv(Spill(t), n + 1, s2, f)
<1> USE MGAssumption
<1> DEFINE u == Spill(t)
<1>1. /\ u.entries = t.entries /\ u.rowHasEntry = t.rowHasEntry
      /\ u.spill_counter = t.spill_counter + 1
  BY DEF Spill
<1>2. /\ t.spill_counter \in Nat
      /\ \A k \in Slots : t.entries[k].count \in Nat
  BY DEF Tracker, Tracker_Entry
<1> HIDE DEF u
<1>3. IndexCorrect(u)
  BY <1>1 DEF TrackerInv, IndexCorrect
<1>4. SlotsAhead(u)
  BY <1>1, <1>2 DEF TrackerInv, SlotsAhead, Stops, Matches
<1>5. NeverUnderestimates(u, s2)
  <2>1. \A x \in Rows : HasEntry(u, x) = HasEntry(t, x) /\ EntryID(u, x) = EntryID(t, x)
    BY <1>1 DEF HasEntry, EntryID
  <2>2. \A x \in Rows : s[x] \in Nat /\ s2[x] = IF x = r THEN s[x] + 1 ELSE s[x]
    OBVIOUS
  <2>3. QED
    BY <1>1, <1>2, <2>1, <2>2 DEF TrackerInv, NeverUnderestimates
<1>6. Accounted(u, n + 1, f)
  <2>1. Tokens(u) = Tokens(t) /\ OpenTokens(u) = OpenTokens(t)
    BY <1>1 DEF Tokens, OpenTokens
  <2>2. threshold * f \in Nat
    OBVIOUS
  <2>3. QED
    BY <1>1, <1>2, <2>1, <2>2, TokensFinite DEF TrackerInv, Accounted
<1>7. QED
  BY <1>3, <1>4, <1>5, <1>6 DEF TrackerInv, u

(* One access, whichever way it goes. *)
LEMMA CountedInv ==
    ASSUME NEW t \in Tracker, NEW r \in Rows, NEW n \in Nat, NEW f \in Nat,
           NEW s \in [Rows -> Nat], NEW s2 \in [Rows -> Nat],
           n < ActsPerWindow, TrackerInv(t, n, s, f),
           s2 = [s EXCEPT ![r] = IF Detected(t, r) THEN 0 ELSE s[r] + 1]
    PROVE  TrackerInv(Counted(t, r), n + 1, s2,
                      f + (IF Detected(t, r) THEN 1 ELSE 0))
<1>1. CASE HasEntry(t, r)
  BY <1>1, HitInv DEF Counted
<1>2. CASE ~HasEntry(t, r) /\ Stops(t) # {}
  BY <1>2, InstallInv DEF Counted
<1>3. CASE ~HasEntry(t, r) /\ Stops(t) = {}
  <2>1. ~Detected(t, r)
    BY <1>3 DEF Detected
  <2>2. TrackerInv(Spill(t), n + 1, s2, f)
    BY <1>3, <2>1, SpillInv
  <2>3. QED
    BY <1>3, <2>1, <2>2 DEF Counted
<1>4. QED
  BY <1>1, <1>2, <1>3

----------------------------------------------------------------------------
(* The invariant of the specification. *)

(* A tracker just cleared is a tracker of a window with no access. *)
LEMMA ClearedInv ==
    ASSUME NEW s \in [Rows -> Nat], \A r \in Rows : s[r] = 0
    PROVE  TrackerInv(Cleared, 0, s, 0)
<1> USE MGAssumption
<1>1. /\ \A i \in Slots : Cleared.entries[i] = EmptyEntry
      /\ \A r \in Rows : Cleared.rowHasEntry[r] = 0
      /\ Cleared.spill_counter = 0
  BY DEF Cleared, Started
<1>2. IndexCorrect(Cleared)
  BY <1>1, EntriesNat DEF IndexCorrect, EmptyEntry, Slots
<1>3. SlotsAhead(Cleared)
  BY <1>1 DEF SlotsAhead, EmptyEntry
<1>4. NeverUnderestimates(Cleared, s)
  BY <1>1 DEF NeverUnderestimates, HasEntry
<1>5. Tokens(Cleared) = {} /\ OpenTokens(Cleared) = {}
  <2>1. 0 % threshold = 0
    OBVIOUS
  <2>2. QED
    BY <1>1, <2>1 DEF Tokens, OpenTokens, EmptyEntry
<1>6. Accounted(Cleared, 0, 0)
  BY <1>1, <1>5, FS_EmptySet DEF Accounted
<1>7. QED
  BY <1>2, <1>3, <1>4, <1>6 DEF TrackerInv

(* The first access finds a tracker whose spill counter has a value: it    *)
(* comes 64 ms after tick 0 or later, or the memory happened to hold 0.    *)
SafeStart == ~ColdStart \/ InitialSpill = {0}

Inv == TypeOK /\ NoAssertFails /\ DetectorInv

(* The invariant holds when the detector has been constructed. *)
LEMMA InvInit ==
    ASSUME SafeStart, Init, TypeOK
    PROVE  Inv
<1>1. NoAssertFails
  BY DEF Init, NoAssertFails
<1>2. ASSUME booted, NEW b \in Banks
      PROVE  TrackerInv(trackers[b], acts[b], since[b], flags[b])
  <2>1. InitialSpill = {0}
    BY <1>2 DEF Init, SafeStart
  <2>2. trackers[b] = Cleared
    BY <2>1 DEF Init, Cleared
  <2>3. acts[b] = 0 /\ flags[b] = 0 /\ since[b] \in [Rows -> Nat]
        /\ \A r \in Rows : since[b][r] = 0
    BY DEF Init
  <2>4. QED
    BY <2>2, <2>3, ClearedInv
<1>3. QED
  BY <1>1, <1>2 DEF Inv, DetectorInv

(* The trackers, histories and accesses that an access finds, after the    *)
(* reset that may precede it, satisfy the invariant of every tracker.      *)
LEMMA WindowInv ==
    ASSUME Inv, NEW elapsed \in BOOLEAN, elapsed \/ booted, NEW b \in Banks
    PROVE  TrackerInv(Window(elapsed)[b],
                      IF elapsed THEN 0 ELSE acts[b],
                      [r \in Rows |-> IF elapsed THEN 0 ELSE since[b][r]],
                      IF elapsed THEN 0 ELSE flags[b])
<1>1. CASE elapsed
  <2>1. Window(elapsed)[b] = Cleared
    BY <1>1 DEF Window, Reset
  <2>2. TrackerInv(Cleared, 0, [r \in Rows |-> 0], 0)
    BY ClearedInv
  <2>3. QED
    BY <1>1, <2>1, <2>2
<1>2. CASE ~elapsed
  <2>1. Window(elapsed)[b] = trackers[b]
    BY <1>2 DEF Window
  <2>2. [r \in Rows |-> since[b][r]] = since[b]
    BY DEF Inv, TypeOK
  <2>3. TrackerInv(trackers[b], acts[b], since[b], flags[b])
    BY <1>2 DEF Inv, DetectorInv, NoAssertFails
  <2>4. QED
    BY <1>2, <2>1, <2>2, <2>3
<1>3. QED
  BY <1>1, <1>2

(* Every access, with or without the reset() before it, keeps the          *)
(* invariant of every bank.                                                *)
LEMMA InvNext ==
    ASSUME Inv, NEW b \in Banks, NEW r \in Rows, NEW elapsed \in BOOLEAN,
           Access(b, r, elapsed)
    PROVE  NoAssertFails' /\ DetectorInv'
<1> DEFINE ts == Window(elapsed)
           n(x) == IF elapsed THEN 0 ELSE acts[x]
           f(x) == IF elapsed THEN 0 ELSE flags[x]
           s(x) == [y \in Rows |-> IF elapsed THEN 0 ELSE since[x][y]]
<1>1. elapsed \/ booted
  BY DEF Access
<1>2. ts \in [Banks -> Tracker]
  BY WindowType DEF Inv
<1>3. \A x \in Banks : TrackerInv(ts[x], n(x), s(x), f(x))
  BY <1>1, WindowInv
<1>4. /\ \A x \in Banks : n(x) \in Nat /\ f(x) \in Nat /\ s(x) \in [Rows -> Nat]
      /\ n(b) < ActsPerWindow
  BY MGAssumption DEF Access, Inv, TypeOK
<1>5. ~aborted'
  <2>1. ~AssertFails(ts[b], r)
    <3> HIDE DEF ts
    <3>1. QED
      BY <1>2, <1>3, StopsMatch DEF TrackerInv
  <2>2. QED
    BY <2>1 DEF Access
<1>6. /\ trackers' = [ts EXCEPT ![b] = Counted(ts[b], r)]
      /\ \A x \in Banks :
            /\ acts'[x] = n(x) + (IF x = b THEN 1 ELSE 0)
            /\ flags'[x] = f(x) + (IF x = b /\ Detected(ts[b], r) THEN 1 ELSE 0)
            /\ since'[x] = IF x = b
                           THEN [s(x) EXCEPT ![r] = IF Detected(ts[b], r) THEN 0
                                                    ELSE s(x)[r] + 1]
                           ELSE s(x)
  <2>1. trackers' = [ts EXCEPT ![b] = Counted(ts[b], r)]
    BY <1>2, <1>5 DEF Access
  <2>2. \A x \in Banks :
            /\ acts'[x] = n(x) + (IF x = b THEN 1 ELSE 0)
            /\ flags'[x] = f(x) + (IF x = b /\ Detected(ts[b], r) THEN 1 ELSE 0)
    BY DEF Access
  <2>3. ASSUME NEW x \in Banks
        PROVE  since'[x] = IF x = b
                           THEN [s(x) EXCEPT ![r] = IF Detected(ts[b], r) THEN 0
                                                    ELSE s(x)[r] + 1]
                           ELSE s(x)
    <3>1. since'[x] = [y \in Rows |->
                        IF x = b /\ y = r
                        THEN IF Detected(ts[b], r) THEN 0
                             ELSE IF elapsed THEN 1 ELSE since[x][y] + 1
                        ELSE IF elapsed THEN 0 ELSE since[x][y]]
      BY DEF Access
    <3>2. QED
      BY <3>1
  <2>4. QED
    BY <2>1, <2>2, <2>3
<1> HIDE DEF ts, n, f, s
<1>7. ASSUME NEW x \in Banks
      PROVE  TrackerInv(trackers'[x], acts'[x], since'[x], flags'[x])
  <2>1. CASE x = b
    <3>0. s(b) \in [Rows -> Nat]
      BY <1>4
    <3>1. since'[b] \in [Rows -> Nat]
      <4>1. since'[b] = [s(b) EXCEPT ![r] = IF Detected(ts[b], r) THEN 0
                                            ELSE s(b)[r] + 1]
        BY <1>6, Zenon
      <4>2. QED
        BY <3>0, <4>1
    <3>2. TrackerInv(Counted(ts[b], r), n(b) + 1, since'[b],
                     f(b) + (IF Detected(ts[b], r) THEN 1 ELSE 0))
      BY <1>2, <1>3, <1>4, <1>6, <3>1, CountedInv
    <3>3. QED
      BY <1>2, <1>6, <2>1, <3>2
  <2>2. CASE x # b
    <3>1. /\ acts'[x] = n(x) + 0 /\ flags'[x] = f(x) + 0
          /\ n(x) \in Nat /\ f(x) \in Nat
      BY <1>4, <1>6, <2>2
    <3>2. acts'[x] = n(x) /\ flags'[x] = f(x)
      BY <3>1
    <3>3. trackers'[x] = ts[x] /\ since'[x] = s(x)
      BY <1>2, <1>6, <2>2
    <3>4. QED
      BY <1>3, <3>2, <3>3
  <2>3. QED
    BY <2>1, <2>2
<1>8. QED
  BY <1>5, <1>7 DEF NoAssertFails, DetectorInv

(* The inductive invariant: every variable has its type, no assert has     *)
(* failed, and every bank's estimate is right.                             *)
THEOREM InvCorrect == SafeStart => (Spec => []Inv)
<1> SUFFICES ASSUME SafeStart PROVE Spec => []Inv
  OBVIOUS
<1>1. Init /\ TypeOK => Inv
  BY InvInit
<1>2. Inv /\ TypeOK' /\ [Next]_vars => Inv'
  <2> SUFFICES ASSUME Inv, TypeOK', [Next]_vars PROVE Inv'
    OBVIOUS
  <2>1. ASSUME NEW b \in Banks, NEW r \in Rows, NEW elapsed \in BOOLEAN,
               Access(b, r, elapsed)
        PROVE  Inv'
    BY <2>1, InvNext DEF Inv
  <2>2. CASE UNCHANGED vars
    BY <2>2 DEF Inv, NoAssertFails, DetectorInv, vars
  <2>3. QED
    BY <2>1, <2>2 DEF Next
<1>3. QED
  BY <1>1, <1>2, TypeCorrect, PTL DEF Spec

(* The asserts of access() (rowhammer_detector.cc:57 and 93) never fail,   *)
(* provided the spill counter has a value at the first access.             *)
THEOREM AssertsHold == SafeStart => (Spec => []NoAssertFails)
<1>1. Inv => NoAssertFails
  BY DEF Inv
<1>2. QED
  BY <1>1, InvCorrect, PTL

(* The invariant bounds what a row has been accessed since it was flagged. *)
LEMMA MissesNone ==
    ASSUME Inv
    PROVE  NoMissedAggressor
<1> SUFFICES ASSUME Inv, booted, ~aborted, NEW b \in Banks, NEW r \in Rows
             PROVE  since[b][r] < threshold
  BY DEF NoMissedAggressor
<1> DEFINE t == trackers[b]
<1>1. /\ t \in Tracker
      /\ acts[b] \in Nat /\ acts[b] <= ActsPerWindow
      /\ since[b][r] \in Nat
  BY MGAssumption DEF Inv, TypeOK
<1>2. TrackerInv(t, acts[b], since[b], flags[b])
  BY DEF Inv, DetectorInv
<1> HIDE DEF t
<1>3. CASE HasEntry(t, r)
  <2> DEFINE c == t.entries[EntryID(t, r)].count
  <2>1. c \in Nat
    BY <1>1, <1>3, SlotIsSlot DEF Tracker, Tracker_Entry
  <2>2. since[b][r] <= c % threshold
    BY <1>2, <1>3 DEF TrackerInv, NeverUnderestimates
  <2> HIDE DEF c
  <2>3. c % threshold \in 0 .. threshold - 1
    BY <2>1, NextRemainder
  <2>4. QED
    BY <1>1, <2>2, <2>3, MGAssumption
<1>4. CASE ~HasEntry(t, r)
  <2>1. since[b][r] <= t.spill_counter
    BY <1>2, <1>4 DEF TrackerInv, NeverUnderestimates
  <2>2. t.spill_counter < threshold /\ t.spill_counter \in Nat
    BY <1>1, <1>2, SpillBelowThreshold DEF TrackerInv, Accounted, Tracker
  <2>3. QED
    BY <1>1, <2>1, <2>2, MGAssumption
<1>5. QED
  BY <1>3, <1>4

(* The estimate is right in every bank, whatever is evicted and spilled. *)
THEOREM EstimatesRight == SafeStart => (Spec => []DetectorInv)
<1>1. Inv => DetectorInv
  BY DEF Inv
<1>2. QED
  BY <1>1, InvCorrect, PTL

(* The detector misses no aggressor: no row of any bank is accessed        *)
(* threshold times in a window without being flagged.                      *)
THEOREM AggressorsFlagged == SafeStart => (Spec => []NoMissedAggressor)
<1>1. Inv => NoMissedAggressor
  BY MissesNone
<1>2. QED
  BY <1>1, InvCorrect, PTL

(* A bank is mitigated at most once per threshold accesses, and so at most *)
(* numEntries times in a window.                                           *)
THEOREM BudgetKept == SafeStart => (Spec => []MitigationBudget)
<1>1. Inv => (booted => MitigationBudget)
  <2> SUFFICES ASSUME Inv, booted, NEW b \in Banks
               PROVE  /\ flags[b] * threshold <= acts[b]
                      /\ flags[b] <= numEntries
    BY DEF MitigationBudget
  <2>1. /\ trackers[b] \in Tracker
        /\ acts[b] \in Nat /\ acts[b] <= ActsPerWindow /\ flags[b] \in Nat
    BY MGAssumption DEF Inv, TypeOK
  <2>2. Accounted(trackers[b], acts[b], flags[b])
    BY DEF Inv, DetectorInv, NoAssertFails, TrackerInv
  <2>3. flags[b] * threshold <= acts[b]
    <3>1. /\ Cardinality(OpenTokens(trackers[b])) \in Nat
          /\ trackers[b].spill_counter \in Nat
      BY <2>1, TokensFinite DEF Tracker
    <3>2. /\ threshold * flags[b] = flags[b] * threshold
          /\ flags[b] * threshold \in Nat
      BY <2>1, MGAssumption
    <3>3. QED
      BY <2>1, <2>2, <3>1, <3>2 DEF Accounted
  <2>4. ~(numEntries + 1 <= flags[b])
    <3>1. SUFFICES ASSUME numEntries + 1 <= flags[b] PROVE FALSE
      OBVIOUS
    <3>2. numEntries + 1 \in Nat /\ threshold \in Nat
      BY EntriesNat, MGAssumption
    <3>3. (numEntries + 1) * threshold <= flags[b] * threshold
      BY <2>1, <3>1, <3>2, TimesMonotone
    <3>4. (numEntries + 1) * threshold \in Nat /\ flags[b] * threshold \in Nat
      BY <2>1, <3>2
    <3>5. QED
      BY <2>1, <2>3, <3>3, <3>4, EntriesNat, MGAssumption
  <2>5. QED
    BY <2>1, <2>3, <2>4, EntriesNat
<1>2. Init => (~booted => MitigationBudget)
  BY EntriesNat, MGAssumption DEF Init, MitigationBudget
<1>3. (~booted => MitigationBudget) /\ [Next]_vars => (~booted => MitigationBudget)'
  <2> SUFFICES ASSUME ~booted => MitigationBudget, [Next]_vars, ~booted'
               PROVE  MitigationBudget'
    OBVIOUS
  <2>1. UNCHANGED vars
    BY DEF Next, Access
  <2>2. QED
    BY <2>1 DEF vars, MitigationBudget
<1>4. QED
  BY <1>1, <1>2, <1>3, InvCorrect, PTL DEF Spec
=============================================================================
