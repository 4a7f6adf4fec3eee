------------------------ MODULE RowQuarantineProofs ------------------------
(***************************************************************************)
(* Proofs about RowQuarantine, its cache and QuarantineWindows, for every  *)
(* number of rows and of quarantine slots and every shape of the cache.    *)
(* The last part is about the windows: what the ring of quarantine slots   *)
(* promises for the rest of a window.                                      *)
(***************************************************************************)
EXTENDS QuarantineWindows, SetLemmas, TLAPS

----------------------------------------------------------------------------
(* Groups, lines and sets of rows *)

(* Dividing twice is dividing by the product. *)
LEMMA DivDiv ==
    ASSUME NEW x \in Nat, NEW g \in Nat \ {0}, NEW k \in Nat \ {0}
    PROVE  x \div (g * k) = (x \div g) \div k
<1> DEFINE q == x \div g
           e == x % g
           a == q \div k
           b == q % k
<1>1. q \in Nat /\ e \in 0 .. g - 1 /\ x = g * q + e
  OBVIOUS
<1> HIDE DEF q, e
<1>2. a \in Nat /\ b \in 0 .. k - 1 /\ q = k * a + b
  BY <1>1
<1> HIDE DEF a, b
<1>3. g * q = g * (k * a) + g * b
  BY <1>1, <1>2
<1>4. g * (k * a) = (g * k) * a
  BY <1>2
<1>5. g * b + e < g * k /\ g * b + e \in Nat
  <2>1. PICK c \in Nat : k = b + 1 + c
    <3>1. k - b - 1 \in Nat /\ k = b + 1 + (k - b - 1)
      BY <1>2
    <3> QED
      BY <3>1
  <2>2. g * k = g * b + g + g * c
    BY <1>2, <2>1
  <2>3. g * c \in Nat /\ g * b \in Nat
    BY <1>2, <2>1
  <2> QED
    BY <1>1, <2>2, <2>3
<1>6. g * k \in Nat \ {0}
  BY <1>1, <1>2, <1>5
<1> DEFINE L == g * k
           f == g * b + e
<1>7. x = L * a + f /\ L \in Nat \ {0} /\ f \in 0 .. L - 1
  <2>1. L \in Nat \ {0}
    BY <1>6
  <2>2. f \in 0 .. L - 1
    BY <1>5, <1>6
  <2>3. x = (g * (k * a) + g * b) + e
    BY <1>1, <1>3
  <2>4. g * (k * a) \in Nat /\ g * b \in Nat
    BY <1>2
  <2>5. (g * (k * a) + g * b) + e = g * (k * a) + (g * b + e)
    BY <1>1, <2>4
  <2> QED
    BY <1>4, <2>1, <2>2, <2>3, <2>5
<1> HIDE DEF L, f
<1>8. x \div L = a
  BY <1>2, <1>7
<1> QED
  BY <1>8 DEF a, q, L

(* Every row has a group, and a set of the cache. *)
LEMMA GroupAndSet ==
    ASSUME NEW r \in Rows
    PROVE  Group(r) \in Groups /\ SetOf(r) \in Sets
<1> USE CacheAssumption, RQAssumption
<1>1. SetOf(r) \in Sets
  <2>1. r \div RowsPerLine \in Nat
    BY DEF Rows
  <2> QED
    BY <2>1 DEF SetOf, Sets
<1>2. Group(r) \in Groups
  <2> DEFINE g == rows_per_btv_bit
             n == numRows \div g
             q == r \div g
  <2>1. g \in Nat \ {0} /\ numRows \in Nat /\ numRows % g = 0 /\ r \in Nat /\ r < numRows
    BY DEF rows_per_btv_bit, Rows
  <2>2. n \in Nat /\ numRows = g * n
    BY <2>1
  <2>3. q \in Nat /\ g * q <= r
    BY <2>1
  <2> HIDE DEF g, n, q
  <2>4. q < n
    <3> SUFFICES ASSUME n <= q PROVE FALSE
      BY <2>2, <2>3
    <3>1. PICK d \in Nat : q = n + d
      <4>1. q - n \in Nat /\ q = n + (q - n)
        BY <2>2, <2>3
      <4> QED
        BY <4>1
    <3>2. g * q = g * n + g * d /\ g * d \in Nat
      BY <2>1, <2>2, <3>1
    <3> QED
      BY <2>1, <2>2, <2>3, <3>2
  <2> QED
    BY <2>2, <2>3, <2>4 DEF Group, Groups, g, n, q
<1> QED
  BY <1>1, <1>2

(* The rows of a group share a line of the table, so a set of the cache:   *)
(* a partial lookup looks in the right one.                                *)
LEMMA GroupInSet ==
    ASSUME NEW r \in Rows, NEW s \in Rows, Group(r) = Group(s)
    PROVE  SetOf(r) = SetOf(s)
<1> DEFINE g == rows_per_btv_bit
           k == RowsPerLine \div g
<1>1. g \in Nat \ {0} /\ RowsPerLine \in Nat \ {0} /\ RowsPerLine % g = 0
      /\ r \in Nat /\ s \in Nat
  BY CacheAssumption, RQAssumption DEF rows_per_btv_bit, Rows
<1>2. k \in Nat /\ RowsPerLine = g * k
  BY <1>1
<1> HIDE DEF g, k
<1>3. k \in Nat \ {0}
  BY <1>1, <1>2
<1>4. /\ r \div RowsPerLine = (r \div g) \div k
      /\ s \div RowsPerLine = (s \div g) \div k
  <2>1. ASSUME NEW x \in Nat
        PROVE  x \div (g * k) = (x \div g) \div k
    <3>1. g \in Nat \ {0}
      BY <1>1
    <3> QED
      BY <3>1, <1>3, DivDiv, Zenon
  <2> QED
    BY <1>1, <1>2, <2>1, Zenon
<1> QED
  BY <1>4 DEF Group, SetOf, g

----------------------------------------------------------------------------
(* The cache *)

(* The cache c holds the rows of M at most, each in its set and at most    *)
(* once.                                                                   *)
Coherent(c, M) ==
    \A s \in Sets, w \in Ways : c[s][w].valid =>
        /\ c[s][w].tag \in M
        /\ SetOf(c[s][w].tag) = s
        /\ \A v \in Ways \ {w} : c[s][v].valid => c[s][v].tag # c[s][w].tag

Holds(c, r) == \E w \in Ways : c[SetOf(r)][w].valid /\ c[SetOf(r)][w].tag = r

(* What a search of a set for the first way of a kind says. *)
LEMMA FirstWayFacts ==
    ASSUME NEW S \in SUBSET Ways
    PROVE  /\ FirstWay(S) \in Ways <=> S # {}
           /\ FirstWay(S) \in Ways => FirstWay(S) \in S
<1>1. Ways \in SUBSET Nat /\ m_ways \notin Ways
  BY CacheAssumption DEF Ways
<1>2. CASE S = {}
  BY <1>1, <1>2 DEF FirstWay
<1>3. CASE S # {}
  <2>1. Min(S) \in S
    BY <1>1, <1>3, MinIsMember
  <2> QED
    BY <1>3, <2>1 DEF FirstWay
<1> QED
  BY <1>2, <1>3

(* A lookup finds the row if and only if it is there. *)
LEMMA LookupFacts ==
    ASSUME NEW c, NEW r
    PROVE  /\ Lookup(c, r) \in Ways <=> Holds(c, r)
           /\ Lookup(c, r) \in Ways => /\ c[SetOf(r)][Lookup(c, r)].valid
                                       /\ c[SetOf(r)][Lookup(c, r)].tag = r
<1> DEFINE S == {w \in Ways : c[SetOf(r)][w].valid /\ c[SetOf(r)][w].tag = r}
<1>1. Lookup(c, r) = FirstWay(S)
  BY DEF Lookup
<1>2. S \in SUBSET Ways
  OBVIOUS
<1>3. S # {} <=> Holds(c, r)
  BY DEF Holds
<1>4. \A w \in S : w \in Ways /\ c[SetOf(r)][w].valid /\ c[SetOf(r)][w].tag = r
  OBVIOUS
<1> HIDE DEF S
<1> QED
  BY <1>1, <1>2, <1>3, <1>4, FirstWayFacts

(* A partial lookup finds an entry of the row's group, if there is one in  *)
(* the set.                                                                *)
LEMMA PartialLookupFacts ==
    ASSUME NEW c, NEW r
    PROVE  /\ PartialLookup(c, r) \in Ways =>
                LET k == c[SetOf(r)][PartialLookup(c, r)]
                IN  k.valid /\ Group(k.tag) = Group(r)
           /\ PartialLookup(c, r) \notin Ways =>
                \A w \in Ways : c[SetOf(r)][w].valid =>
                                   Group(c[SetOf(r)][w].tag) # Group(r)
<1> DEFINE S == {w \in Ways : /\ c[SetOf(r)][w].valid
                              /\ Group(c[SetOf(r)][w].tag) = Group(r)}
<1>1. PartialLookup(c, r) = FirstWay(S)
  BY DEF PartialLookup, Group, rows_per_btv_bit
<1>2. S \in SUBSET Ways
  OBVIOUS
<1>3. /\ \A w \in S : c[SetOf(r)][w].valid /\ Group(c[SetOf(r)][w].tag) = Group(r)
      /\ \A w \in Ways : w \notin S => ~(/\ c[SetOf(r)][w].valid
                                         /\ Group(c[SetOf(r)][w].tag) = Group(r))
  OBVIOUS
<1> HIDE DEF S
<1> QED
  BY <1>1, <1>2, <1>3, FirstWayFacts

(* Two caches with the same rows in the same blocks. *)
SameBlocks(c, d) ==
    \A s \in Sets, w \in Ways : d[s][w].valid = c[s][w].valid /\ d[s][w].tag = c[s][w].tag

(* Coherence looks at the blocks only, not at their ages. *)
LEMMA SameBlocksCoherent ==
    ASSUME NEW c, NEW d, NEW M, SameBlocks(c, d), Coherent(c, M)
    PROVE  Coherent(d, M)
BY DEF SameBlocks, Coherent

(* Writing one block of a cache. *)
Written(c, s, w, k) == [c EXCEPT ![s][w] = k]

(* It leaves the others as they are. *)
LEMMA BlockWritten ==
    ASSUME NEW c \in CacheType, NEW s \in Sets, NEW w \in Ways, NEW k \in FuncCacheBlock
    PROVE  /\ Written(c, s, w, k) \in CacheType
           /\ \A t \in Sets, v \in Ways :
                 Written(c, s, w, k)[t][v] = IF t = s /\ v = w THEN k ELSE c[t][v]
<1>1. c[s] \in [Ways -> FuncCacheBlock]
  BY DEF CacheType
<1>2. [c[s] EXCEPT ![w] = k] \in [Ways -> FuncCacheBlock]
  BY <1>1
<1>3. [c EXCEPT ![s][w] = k] = [c EXCEPT ![s] = [c[s] EXCEPT ![w] = k]]
  OBVIOUS
<1>4. [c EXCEPT ![s] = [c[s] EXCEPT ![w] = k]] \in CacheType
  BY <1>2 DEF CacheType
<1> QED
  BY <1>1, <1>3, <1>4 DEF CacheType, Written

(* A lookup touches the block it finds, and changes no row. *)
LEMMA TouchOK ==
    ASSUME NEW c \in CacheType, NEW r \in Rows, NEW w \in Ways
    PROVE  Touch(c, r, w) \in CacheType /\ SameBlocks(c, Touch(c, r, w))
<1> DEFINE s == SetOf(r)
           k == [c[s][w] EXCEPT !.rrip = MaxRrip]
<1>1. s \in Sets
  BY GroupAndSet
<1>2. c[s][w] \in FuncCacheBlock
  BY <1>1 DEF CacheType
<1>3. k \in FuncCacheBlock /\ k.valid = c[s][w].valid /\ k.tag = c[s][w].tag
  BY <1>2 DEF FuncCacheBlock, MaxRrip
<1>4. Touch(c, r, w) = Written(c, s, w, k)
  BY DEF Touch, Written
<1> HIDE DEF s, k
<1> QED
  BY <1>1, <1>3, <1>4, BlockWritten DEF SameBlocks

(* Marking a block dirty changes no row. *)
LEMMA SetDirtyOK ==
    ASSUME NEW c \in CacheType, NEW r \in Rows, NEW w \in Ways
    PROVE  SetDirtyBit(c, r, w) \in CacheType /\ SameBlocks(c, SetDirtyBit(c, r, w))
<1> DEFINE s == SetOf(r)
           k == [c[s][w] EXCEPT !.dirty = TRUE]
<1>1. s \in Sets
  BY GroupAndSet
<1>2. c[s][w] \in FuncCacheBlock
  BY <1>1 DEF CacheType
<1>3. k \in FuncCacheBlock /\ k.valid = c[s][w].valid /\ k.tag = c[s][w].tag
  BY <1>2 DEF FuncCacheBlock
<1>4. SetDirtyBit(c, r, w) = Written(c, s, w, k)
  BY DEF SetDirtyBit, Written
<1> HIDE DEF s, k
<1> QED
  BY <1>1, <1>3, <1>4, BlockWritten DEF SameBlocks

(* The counters of a set are aged by the smallest of them at most, so none *)
(* goes below zero, and then one is at zero: there is a victim.            *)
LEMMA VictimOK ==
    ASSUME NEW c \in CacheType, NEW r \in Rows
    PROVE  /\ Find_Victim(c, r) \in Ways
           /\ Age(c, r) \in 0 .. MaxRrip
           /\ \A w \in Ways : Age(c, r) <= c[SetOf(r)][w].rrip
<1> DEFINE s == SetOf(r)
           R == {c[s][w].rrip : w \in Ways}
<1>1. s \in Sets
  BY GroupAndSet
<1>2. \A w \in Ways : c[s][w] \in FuncCacheBlock
  BY <1>1 DEF CacheType
<1>3. \A w \in Ways : c[s][w].rrip \in 0 .. MaxRrip
  BY <1>2 DEF FuncCacheBlock
<1>4. Ways \in SUBSET Nat /\ 0 \in Ways
  BY CacheAssumption DEF Ways
<1>5. CASE InvalidWays(c, r) # {}
  <2>1. InvalidWays(c, r) \in SUBSET Ways
    BY DEF InvalidWays
  <2>2. Min(InvalidWays(c, r)) \in Ways
    BY <1>4, <1>5, <2>1, MinIsMember
  <2>3. Age(c, r) = 0 /\ Find_Victim(c, r) = Min(InvalidWays(c, r))
    BY <1>5 DEF Age, Find_Victim
  <2> QED
    BY <1>3, <2>2, <2>3 DEF MaxRrip
<1>6. CASE InvalidWays(c, r) = {}
  <2>1. R \in SUBSET Nat /\ R # {}
    BY <1>3, <1>4 DEF MaxRrip
  <2>2. Min(R) \in R /\ \A y \in R : Min(R) <= y
    BY <2>1, MinIsMember
  <2>3. Age(c, r) = Min(R)
    BY <1>6 DEF Age
  <2> DEFINE V == {w \in Ways : c[s][w].rrip = Age(c, r)}
  <2>4. V \in SUBSET Nat /\ V # {}
    BY <1>4, <2>2, <2>3
  <2>5. Min(V) \in V
    BY <2>4, MinIsMember
  <2>6. Find_Victim(c, r) = Min(V)
    BY <1>6 DEF Find_Victim
  <2> QED
    BY <1>3, <2>2, <2>3, <2>5, <2>6
<1> QED
  BY <1>5, <1>6

(* Ageing changes no row. *)
LEMMA AgedOK ==
    ASSUME NEW c \in CacheType, NEW r \in Rows
    PROVE  Aged(c, r) \in CacheType /\ SameBlocks(c, Aged(c, r))
<1> DEFINE s == SetOf(r)
           age == Age(c, r)
           l == [w \in Ways |-> [c[s][w] EXCEPT !.rrip = c[s][w].rrip - age]]
<1>1. s \in Sets
  BY GroupAndSet
<1>2. age \in 0 .. MaxRrip /\ \A w \in Ways : age <= c[s][w].rrip
  BY VictimOK
<1>3. \A w \in Ways : c[s][w] \in FuncCacheBlock
  BY <1>1 DEF CacheType
<1>4. Aged(c, r) = [c EXCEPT ![s] = l]
  BY DEF Aged
<1> HIDE DEF s, age
<1>5. \A w \in Ways : /\ l[w] \in FuncCacheBlock
                      /\ l[w].valid = c[s][w].valid /\ l[w].tag = c[s][w].tag
  <2> SUFFICES ASSUME NEW w \in Ways
               PROVE  /\ l[w] \in FuncCacheBlock
                      /\ l[w].valid = c[s][w].valid /\ l[w].tag = c[s][w].tag
    OBVIOUS
  <2>1. PICK k \in FuncCacheBlock : k = c[s][w]
    BY <1>3
  <2>2. k.rrip - age \in 0 .. MaxRrip
    BY <1>2, <2>1 DEF FuncCacheBlock, MaxRrip
  <2>3. l[w] = [k EXCEPT !.rrip = k.rrip - age]
    BY <2>1
  <2> HIDE DEF l
  <2> QED
    BY <2>1, <2>2, <2>3 DEF FuncCacheBlock
<1>6. l \in [Ways -> FuncCacheBlock]
  BY <1>5
<1> HIDE DEF l
<1>7. [c EXCEPT ![s] = l] \in CacheType
  BY <1>6 DEF CacheType
<1>8. \A t \in Sets : [c EXCEPT ![s] = l][t] = IF t = s THEN l ELSE c[t]
  BY DEF CacheType
<1> QED
  BY <1>1, <1>4, <1>5, <1>7, <1>8 DEF SameBlocks

(* Inserting a row that the cache does not hold. *)
LEMMA InsertOK ==
    ASSUME NEW c \in CacheType, NEW M, Coherent(c, M), NEW r \in Rows, ~Holds(c, r),
           NEW d \in BOOLEAN
    PROVE  LET u == insertRowInCache(c, r, d)
           IN  u \in CacheType /\ Coherent(u, M \cup {r}) /\ Holds(u, r)
<1> DEFINE a == Aged(c, r)
           v == Find_Victim(c, r)
           s == SetOf(r)
           k == [valid |-> TRUE, tag |-> r, dirty |-> d, rrip |-> 1]
           u == insertRowInCache(c, r, d)
<1>1. s \in Sets /\ v \in Ways /\ a \in CacheType /\ SameBlocks(c, a)
  BY GroupAndSet, VictimOK, AgedOK
<1>2. u = Written(a, s, v, k)
  BY DEF insertRowInCache, Fill, Written
<1>3. k \in FuncCacheBlock /\ k.valid /\ k.tag = r
  BY DEF FuncCacheBlock, MaxRrip, Rows
<1>4. Coherent(a, M)
  BY <1>1, SameBlocksCoherent
<1>5. \A w \in Ways : ~(a[s][w].valid /\ a[s][w].tag = r)
  BY <1>1 DEF Holds, SameBlocks
<1> HIDE DEF a, v, k, u
<1>6. /\ u \in CacheType
      /\ \A t \in Sets, w \in Ways : u[t][w] = IF t = s /\ w = v THEN k ELSE a[t][w]
  BY <1>1, <1>2, <1>3, BlockWritten
<1>7. Holds(u, r)
  BY <1>1, <1>3, <1>6 DEF Holds
<1>8. Coherent(u, M \cup {r})
  <2> SUFFICES ASSUME NEW t \in Sets, NEW w \in Ways, u[t][w].valid
               PROVE  /\ u[t][w].tag \in M \cup {r}
                      /\ SetOf(u[t][w].tag) = t
                      /\ \A x \in Ways \ {w} : u[t][x].valid => u[t][x].tag # u[t][w].tag
    BY DEF Coherent
  <2>1. CASE t = s /\ w = v
    BY <2>1, <1>3, <1>5, <1>6
  <2>2. CASE t = s /\ w # v
    BY <2>2, <1>3, <1>4, <1>5, <1>6 DEF Coherent
  <2>3. CASE t # s
    BY <2>3, <1>4, <1>6 DEF Coherent
  <2> QED
    BY <2>1, <2>2, <2>3
<1> QED
  BY <1>6, <1>7, <1>8 DEF u

(* A row removed from the cache is not in it any more. *)
LEMMA RemoveOK ==
    ASSUME NEW c \in CacheType, NEW M, Coherent(c, M), NEW b \in Rows
    PROVE  LET u == removeRowFromCache(c, b)
           IN  u \in CacheType /\ Coherent(u, M \ {b})
<1> DEFINE s == SetOf(b)
           w == Lookup(c, b)
           u == removeRowFromCache(c, b)
<1>1. s \in Sets
  BY GroupAndSet
<1>2. CASE w \notin Ways
  <2>1. u = c
    BY <1>2 DEF removeRowFromCache
  <2>2. ~Holds(c, b)
    BY <1>2, LookupFacts
  <2>3. Coherent(c, M \ {b})
    BY <2>2 DEF Coherent, Holds
  <2> QED
    BY <2>1, <2>3
<1>3. CASE w \in Ways
  <2>1. u = Written(c, s, w, NoBlock)
    BY <1>3 DEF removeRowFromCache, Invalidate, Written
  <2>2. NoBlock \in FuncCacheBlock /\ ~NoBlock.valid
    BY DEF NoBlock, FuncCacheBlock, MaxRrip
  <2>3. c[s][w].valid /\ c[s][w].tag = b
    BY <1>3, LookupFacts
  <2> HIDE DEF u, w
  <2>4. /\ u \in CacheType
        /\ \A t \in Sets, v \in Ways : u[t][v] = IF t = s /\ v = w THEN NoBlock ELSE c[t][v]
    BY <1>1, <1>3, <2>1, <2>2, BlockWritten
  <2>5. Coherent(u, M \ {b})
    <3> SUFFICES ASSUME NEW t \in Sets, NEW v \in Ways, u[t][v].valid
                 PROVE  /\ u[t][v].tag \in M \ {b}
                        /\ SetOf(u[t][v].tag) = t
                        /\ \A x \in Ways \ {v} : u[t][x].valid => u[t][x].tag # u[t][v].tag
      BY DEF Coherent
    <3>1. u[t][v] = c[t][v] /\ ~(t = s /\ v = w)
      BY <2>2, <2>4
    <3>2. u[t][v].tag # b
      BY <1>1, <1>3, <2>3, <3>1 DEF Coherent
    <3> QED
      BY <2>2, <2>4, <3>1, <3>2 DEF Coherent
  <2> QED
    BY <2>4, <2>5 DEF u
<1> QED
  BY <1>2, <1>3

(* A cache with the same rows holds the same rows. *)
LEMMA SameBlocksHolds ==
    ASSUME NEW c, NEW d, SameBlocks(c, d), NEW r \in Rows
    PROVE  Holds(c, r) <=> Holds(d, r)
BY GroupAndSet DEF SameBlocks, Holds

(* What quarantineRow does to the cache: the row is in it. *)
LEMMA CacheWithOK ==
    ASSUME NEW c \in CacheType, NEW M, Coherent(c, M), NEW r \in Rows
    PROVE  CacheWith(c, r) \in CacheType /\ Coherent(CacheWith(c, r), M \cup {r})
<1>1. CASE Lookup(c, r) \in Ways
  <2>1. CacheWith(c, r) = SetDirtyBit(c, r, Lookup(c, r))
    BY <1>1 DEF CacheWith
  <2>2. SetDirtyBit(c, r, Lookup(c, r)) \in CacheType
        /\ SameBlocks(c, SetDirtyBit(c, r, Lookup(c, r)))
    BY <1>1, SetDirtyOK
  <2>3. Coherent(c, M \cup {r})
    BY DEF Coherent
  <2> QED
    BY <2>1, <2>2, <2>3, SameBlocksCoherent
<1>2. CASE Lookup(c, r) \notin Ways
  <2>1. CacheWith(c, r) = insertRowInCache(c, r, TRUE)
    BY <1>2 DEF CacheWith
  <2>2. ~Holds(c, r)
    BY <1>2, LookupFacts
  <2>3. TRUE \in BOOLEAN
    OBVIOUS
  <2> QED
    BY <2>1, <2>2, <2>3, InsertOK
<1> QED
  BY <1>1, <1>2

----------------------------------------------------------------------------
(* The group counters *)

InGroup(M, g) == {r \in Rows : Group(r) = g /\ r \in M}

(* The counters tb count the rows of M in each group. *)
Counts(tb, M) ==
    /\ tb \in [Groups -> Nat]
    /\ \A g \in Groups : tb[g] = Cardinality(InGroup(M, g))

(* A group has finitely many rows. *)
LEMMA GroupFinite ==
    ASSUME NEW M, NEW g
    PROVE  IsFiniteSet(InGroup(M, g)) /\ Cardinality(InGroup(M, g)) \in Nat
<1>1. IsFiniteSet(Rows)
  <2>1. 0 \in Int /\ numRows - 1 \in Int
    BY RQAssumption
  <2> QED
    BY <2>1, FS_Interval DEF Rows
<1>2. InGroup(M, g) \in SUBSET Rows
  BY DEF InGroup
<1> QED
  BY <1>1, <1>2, FS_Subset, FS_CardinalityType

(* A row of M makes its group's counter positive. *)
LEMMA CountPositive ==
    ASSUME NEW tb, NEW M, Counts(tb, M), NEW r \in Rows, r \in M
    PROVE  tb[Group(r)] # 0
<1>1. r \in InGroup(M, Group(r)) /\ Group(r) \in Groups
  BY GroupAndSet DEF InGroup
<1>2. Cardinality(InGroup(M, Group(r))) # 0
  BY <1>1, GroupFinite, FS_EmptySet
<1> QED
  BY <1>1, <1>2 DEF Counts

(* In a group whose counter is one there is one quarantined row. *)
LEMMA CountOne ==
    ASSUME NEW tb, NEW M, Counts(tb, M), NEW r \in Rows, NEW x \in Rows,
           r \in M, x \in M, Group(r) = Group(x), tb[Group(r)] = 1
    PROVE  r = x
<1>1. Cardinality(InGroup(M, Group(r))) = 1
  BY GroupAndSet DEF Counts
<1>2. PICK y : InGroup(M, Group(r)) = {y}
  BY <1>1, GroupFinite, FS_Singleton
<1>3. r \in InGroup(M, Group(r)) /\ x \in InGroup(M, Group(r))
  BY DEF InGroup
<1> QED
  BY <1>2, <1>3

(* A row that joins its group is counted. *)
Joined(tb, a) == [tb EXCEPT ![Group(a)] = @ + 1]

(* A row that joins its group is counted in it and in no other. *)
LEMMA JoinCounts ==
    ASSUME NEW tb, NEW M, Counts(tb, M), NEW a \in Rows, a \notin M
    PROVE  Counts(Joined(tb, a), M \cup {a})
<1> DEFINE u == Joined(tb, a)
<1>1. Group(a) \in Groups
  BY GroupAndSet
<1>2. u \in [Groups -> Nat]
  BY <1>1 DEF Counts, Joined
<1>3. ASSUME NEW g \in Groups
      PROVE  u[g] = Cardinality(InGroup(M \cup {a}, g))
  <2>1. tb[g] = Cardinality(InGroup(M, g)) /\ tb[g] \in Nat
    BY DEF Counts
  <2>2. CASE g = Group(a)
    <3>1. InGroup(M \cup {a}, g) = InGroup(M, g) \cup {a} /\ a \notin InGroup(M, g)
      BY <2>2 DEF InGroup
    <3>2. Cardinality(InGroup(M, g) \cup {a}) = Cardinality(InGroup(M, g)) + 1
      BY <3>1, GroupFinite, FS_AddElement
    <3>3. u[g] = tb[g] + 1
      BY <1>1, <2>2 DEF Counts, Joined
    <3> QED
      BY <2>1, <3>1, <3>2, <3>3
  <2>3. CASE g # Group(a)
    <3>1. InGroup(M \cup {a}, g) = InGroup(M, g)
      BY <2>3 DEF InGroup
    <3>2. u[g] = tb[g]
      BY <1>1, <2>3 DEF Counts, Joined
    <3> QED
      BY <2>1, <3>1, <3>2
  <2> QED
    BY <2>2, <2>3
<1> QED
  BY <1>2, <1>3 DEF Counts

(* A row that leaves its group is not counted any more, and the counter    *)
(* does not wrap around.                                                   *)
LEMMA LeaveCounts ==
    ASSUME NEW tb, NEW M, Counts(tb, M), NEW b \in Rows, b \in M
    PROVE  Counts(LeaveGroup(tb, b), M \ {b})
<1> DEFINE u == LeaveGroup(tb, b)
<1>1. Group(b) \in Groups
  BY GroupAndSet
<1>2. ASSUME NEW g \in Groups
      PROVE  u[g] = Cardinality(InGroup(M \ {b}, g)) /\ u[g] \in Nat
  <2>1. tb[g] = Cardinality(InGroup(M, g)) /\ tb[g] \in Nat
    BY DEF Counts
  <2>2. CASE g = Group(b)
    <3>1. InGroup(M, g) = InGroup(M \ {b}, g) \cup {b} /\ b \notin InGroup(M \ {b}, g)
      BY <2>2 DEF InGroup
    <3>2. Cardinality(InGroup(M \ {b}, g) \cup {b}) = Cardinality(InGroup(M \ {b}, g)) + 1
      BY <3>1, GroupFinite, FS_AddElement
    <3>3. u[g] = tb[g] - 1
      BY <1>1, <2>2 DEF Counts, LeaveGroup
    <3>4. Cardinality(InGroup(M \ {b}, g)) \in Nat
      BY GroupFinite
    <3>5. tb[g] = Cardinality(InGroup(M \ {b}, g)) + 1
      BY <2>1, <3>1, <3>2
    <3> HIDE DEF u
    <3> QED
      BY <3>3, <3>4, <3>5
  <2>3. CASE g # Group(b)
    <3>1. InGroup(M \ {b}, g) = InGroup(M, g)
      BY <2>3 DEF InGroup
    <3>2. u[g] = tb[g]
      BY <1>1, <2>3 DEF Counts, LeaveGroup
    <3> QED
      BY <2>1, <3>1, <3>2
  <2> QED
    BY <2>2, <2>3
<1>3. u \in [Groups -> Nat]
  BY <1>2 DEF Counts, LeaveGroup
<1> QED
  BY <1>2, <1>3 DEF Counts

----------------------------------------------------------------------------
(* The invariant *)

MappedRows == {r \in Rows : Mapped(r)}

RQInv ==
    /\ TypeOK
    /\ TablesInverse
    /\ GroupCounts
    /\ CacheCoherent
    /\ NoAssertFails
    /\ DelayBounded

(* The invariant, in the terms of the lemmas above. *)
LEMMA CountsEquiv ==
    ASSUME bitvector \in [Groups -> Nat], ORR_CBF \in [Groups -> Nat]
    PROVE  GroupCounts <=> Counts(bitvector, MappedRows) /\ Counts(ORR_CBF, MappedRows)
<1>1. \A g : InGroup(MappedRows, g) = {r \in Rows : Group(r) = g /\ Mapped(r)}
  BY DEF InGroup, MappedRows
<1> QED
  BY <1>1 DEF GroupCounts, Counts

(* CacheCoherent, as a relation of the cache to the rows quarantined. *)
LEMMA CoherentEquiv == CacheCoherent <=> Coherent(cache, MappedRows)
BY DEF CacheCoherent, Coherent, MappedRows

(* addQCheckDelay: its assert holds, and what it does to the cache leaves  *)
(* it coherent; the entry of a quarantined row that it misses it fetches.  *)
LEMMA CheckOK ==
    ASSUME RQInv, NEW row \in Rows
    PROVE  /\ ~CheckFails(row)
           /\ CheckedCache(row) \in CacheType
           /\ Coherent(CheckedCache(row), MappedRows)
           /\ Fetches(row) /\ Mapped(row) => Holds(CheckedCache(row), row)
<1>1. /\ cache \in CacheType /\ Coherent(cache, MappedRows)
      /\ Counts(bitvector, MappedRows) /\ Counts(ORR_CBF, MappedRows)
  BY CountsEquiv, CoherentEquiv DEF RQInv, TypeOK
<1>2. ~CheckFails(row)
  BY <1>1, CountPositive DEF CheckFails, Probed, MappedRows
<1>3. LookedUp(row) \in CacheType /\ SameBlocks(cache, LookedUp(row))
  <2>1. CASE ExactHit(row)
    <3>1. LookedUp(row) = Touch(cache, row, Lookup(cache, row))
      BY <2>1 DEF LookedUp, PartialHit
    <3>2. Lookup(cache, row) \in Ways
      BY <2>1 DEF ExactHit
    <3> QED
      BY <1>1, <3>1, <3>2, TouchOK
  <2>2. CASE ~ExactHit(row) /\ PartialHit(row)
    <3>1. LookedUp(row) = Touch(cache, row, PartialLookup(cache, row))
      BY <2>2 DEF LookedUp
    <3>2. PartialLookup(cache, row) \in Ways
      BY <2>2 DEF PartialHit
    <3> QED
      BY <1>1, <3>1, <3>2, TouchOK
  <2>3. CASE ~ExactHit(row) /\ ~PartialHit(row)
    <3>1. LookedUp(row) = cache
      BY <2>3 DEF LookedUp
    <3> QED
      BY <1>1, <3>1 DEF SameBlocks
  <2> QED
    BY <2>1, <2>2, <2>3
<1>4. Coherent(LookedUp(row), MappedRows)
  BY <1>1, <1>3, SameBlocksCoherent
<1>5. CASE ~Fetches(row)
  BY <1>2, <1>3, <1>4, <1>5 DEF CheckedCache
<1>6. CASE Fetches(row)
  <2> DEFINE inGroup == {x \in Rows : Group(x) = Group(row) /\ Mapped(x)}
             x == FetchedRow(row)
  <2>1. /\ CheckedCache(row) = insertRowInCache(LookedUp(row), x, FALSE)
        /\ Probed(row) /\ ~ExactHit(row) /\ ~KnownNotRemapped(row) /\ x # None
    BY <1>6 DEF CheckedCache, Fetches, CacheMiss
  <2>2. /\ x \in MappedRows /\ ~Holds(cache, x)
        /\ Mapped(row) => x = row
    <3>1. CASE Mapped(row)
      <4>1. x = row
        BY <3>1 DEF FetchedRow
      <4>2. ~Holds(cache, row)
        BY <2>1, LookupFacts DEF ExactHit
      <4> QED
        BY <3>1, <4>1, <4>2 DEF MappedRows
    <3>2. CASE ~Mapped(row)
      <4>1. /\ inGroup # {} /\ ORR_CBF[Group(row)] = 1 /\ x = Min(inGroup)
        BY <2>1, <3>2 DEF FetchedRow
      <4>2. inGroup \in SUBSET Nat
        BY RQAssumption DEF Rows
      <4>3. x \in inGroup
        BY <4>1, <4>2, MinIsMember
      <4>4. PartialLookup(cache, row) \notin Ways
        BY <2>1, <4>1 DEF KnownNotRemapped, PartialHit
      <4>5. \A w \in Ways : cache[SetOf(row)][w].valid =>
                               Group(cache[SetOf(row)][w].tag) # Group(row)
        BY <4>4, PartialLookupFacts
      <4>6. SetOf(x) = SetOf(row)
        BY <4>3, GroupInSet
      <4>7. ~Holds(cache, x)
        BY <4>3, <4>5, <4>6 DEF Holds
      <4> QED
        BY <3>2, <4>3, <4>7 DEF MappedRows
    <3> QED
      BY <3>1, <3>2
  <2> HIDE DEF x
  <2>3. x \in Rows /\ ~Holds(LookedUp(row), x)
    BY <1>3, <2>2, SameBlocksHolds DEF MappedRows
  <2>4. FALSE \in BOOLEAN
    OBVIOUS
  <2>5. /\ CheckedCache(row) \in CacheType
        /\ Coherent(CheckedCache(row), MappedRows \cup {x})
        /\ Holds(CheckedCache(row), x)
    BY <1>3, <1>4, <2>1, <2>3, <2>4, InsertOK
  <2>6. MappedRows \cup {x} = MappedRows
    BY <2>2
  <2> QED
    BY <1>2, <2>2, <2>5, <2>6
<1> QED
  BY <1>5, <1>6

----------------------------------------------------------------------------
(* The actions *)

(* Slots and rows are told from None, and the ring stays in the region. *)
LEMMA Ids ==
    /\ None \notin Rows /\ None \notin QRIds
    /\ \A q \in QRIds : NextID(q) \in QRIds
    /\ 0 \in QRIds
<1>1. None \notin Rows /\ None \notin QRIds /\ 0 \in QRIds
  BY RQAssumption DEF None, Rows, QRIds
<1>2. \A q \in QRIds : NextID(q) \in QRIds
  BY RQAssumption DEF NextID, QRIds
<1> QED
  BY <1>1, <1>2

(* The check charges four table accesses at most, and more than two only   *)
(* when it fetches an entry.                                               *)
LEMMA CheckCharge ==
    ASSUME NEW row \in Rows
    PROVE  /\ CheckAccesses(row) \in 0 .. 4
           /\ CheckAccesses(row) <= 2 \/ Fetches(row)
BY DEF CheckAccesses

(* A quarantine charges six, less two if the entry is in the cache, less   *)
(* four if the row was not quarantined and its entry found room.           *)
LEMMA QuarantineCharge ==
    ASSUME NEW c, NEW a \in Rows
    PROVE  /\ QuarantineAccesses(c, a) \in 0 .. 6
           /\ Holds(c, a) => QuarantineAccesses(c, a) <= 4
           /\ ~Mapped(a) => QuarantineAccesses(c, a) <= 4
<1>1. Lookup(c, a) \notin Ways <=> ~Holds(c, a)
  BY LookupFacts
<1> QED
  BY <1>1 DEF QuarantineAccesses

(* The counters of misses. *)
LEMMA MissesOK ==
    ASSUME TypeOK, NEW row
    PROVE  MissesAfter(row) \in 0 .. drain_cache_miss_threshold
BY RQAssumption DEF TypeOK, MissesAfter

(* quarantineRow moves the row: to the head slot, or home when it was in   *)
(* that slot already; the occupant of the slot goes home.                  *)
LEMMA QuarantineTables ==
    ASSUME RQInv, NEW row \in Rows, NEW elapsed \in BOOLEAN, AccessQuarantine(row, elapsed)
    PROVE  /\ row_To_QR_T' \in [Rows -> QRIds \cup {None}]
           /\ QR_To_Row_T' \in [QRIds -> Rows \cup {None}]
           /\ TablesInverse'
           /\ MappedRows' = IF Occupant # None THEN (MappedRows \cup {row}) \ {Occupant}
                            ELSE MappedRows \cup {row}
           /\ Occupant # None => Occupant \in MappedRows
           /\ row_To_QR_T'[row] # row_To_QR_T[row]
           /\ \A x \in Rows \ {row} : \/ row_To_QR_T'[x] = row_To_QR_T[x]
                                      \/ x = Occupant /\ row_To_QR_T'[x] = None
<1> DEFINE i == nextFreeQR_ID
           b == Occupant
           moved == [row_To_QR_T EXCEPT ![row] = i]
<1>1. /\ row_To_QR_T \in [Rows -> QRIds \cup {None}]
      /\ QR_To_Row_T \in [QRIds -> Rows \cup {None}]
      /\ i \in QRIds /\ TablesInverse
  BY DEF RQInv, TypeOK
<1>2. b = QR_To_Row_T[i] /\ b \in Rows \cup {None}
  BY <1>1 DEF Occupant
<1>3. /\ row_To_QR_T' = IF b # None THEN [moved EXCEPT ![b] = None] ELSE moved
      /\ QR_To_Row_T' = IF row_To_QR_T[row] # None
                        THEN [QR_To_Row_T EXCEPT ![i] = row, ![row_To_QR_T[row]] = None]
                        ELSE [QR_To_Row_T EXCEPT ![i] = row]
  BY DEF AccessQuarantine, Unmap, SlotsAfterMove, Mapped
<1> HIDE DEF i, b
<1>4. row_To_QR_T' \in [Rows -> QRIds \cup {None}]
  BY <1>1, <1>2, <1>3
<1>5. QR_To_Row_T' \in [QRIds -> Rows \cup {None}]
  BY <1>1, <1>2, <1>3
<1>6. \A r \in Rows : row_To_QR_T'[r] = IF b # None /\ r = b THEN None
                                        ELSE IF r = row THEN i ELSE row_To_QR_T[r]
  BY <1>1, <1>2, <1>3
<1>7. \A q \in QRIds : QR_To_Row_T'[q] =
         IF row_To_QR_T[row] # None /\ q = row_To_QR_T[row] THEN None
         ELSE IF q = i THEN row ELSE QR_To_Row_T[q]
  BY <1>1, <1>2, <1>3
<1>8. b # None => row_To_QR_T[b] = i
  BY <1>1, <1>2 DEF TablesInverse
<1>9. TablesInverse'
  <2> SUFFICES ASSUME NEW r \in Rows, NEW q \in QRIds
               PROVE  row_To_QR_T'[r] = q <=> QR_To_Row_T'[q] = r
    BY DEF TablesInverse
  <2>1. row_To_QR_T[r] = q <=> QR_To_Row_T[q] = r
    BY <1>1 DEF TablesInverse
  <2>2. row_To_QR_T[row] = q <=> QR_To_Row_T[q] = row
    BY <1>1 DEF TablesInverse
  <2>3. row_To_QR_T[r] = i <=> b = r
    BY <1>1, <1>2 DEF TablesInverse
  <2>4. row_To_QR_T[row] = i <=> b = row
    BY <1>1, <1>2 DEF TablesInverse
  <2> QED
    BY <1>1, <1>2, <1>6, <1>7, <1>8, <2>1, <2>2, <2>3, <2>4, Ids
<1>10. MappedRows' = IF b # None THEN (MappedRows \cup {row}) \ {b} ELSE MappedRows \cup {row}
  <2>1. MappedRows' = {r \in Rows : row_To_QR_T'[r] # None}
    BY DEF MappedRows, Mapped
  <2>2. MappedRows = {r \in Rows : row_To_QR_T[r] # None}
    BY DEF MappedRows, Mapped
  <2>3. i # None
    BY <1>1, Ids
  <2> QED
    BY <1>6, <2>1, <2>2, <2>3
<1>11. b # None => b \in MappedRows
  BY <1>1, <1>2, <1>8, Ids DEF MappedRows, Mapped
<1>12. row_To_QR_T'[row] # row_To_QR_T[row]
  <2>1. row_To_QR_T[row] = i <=> b = row
    BY <1>1, <1>2 DEF TablesInverse
  <2> QED
    BY <1>1, <1>6, <2>1, Ids
<1>13. \A x \in Rows \ {row} : \/ row_To_QR_T'[x] = row_To_QR_T[x]
                               \/ x = b /\ row_To_QR_T'[x] = None
  BY <1>6
<1> QED
  BY <1>4, <1>5, <1>9, <1>10, <1>11, <1>12, <1>13 DEF b

(* quarantineRow keeps the counters of the groups. *)
LEMMA JoinGroupOK ==
    ASSUME NEW tb, Counts(tb, MappedRows), NEW row \in Rows
    PROVE  Counts(JoinGroup(tb, row), MappedRows \cup {row})
<1>1. CASE Mapped(row)
  <2>1. MappedRows \cup {row} = MappedRows
    BY <1>1 DEF MappedRows
  <2> QED
    BY <1>1, <2>1 DEF JoinGroup
<1>2. CASE ~Mapped(row)
  <2>1. row \notin MappedRows
    BY <1>2 DEF MappedRows
  <2>2. JoinGroup(tb, row) = Joined(tb, row)
    BY <1>2 DEF JoinGroup, Joined
  <2> QED
    BY <2>1, <2>2, JoinCounts
<1> QED
  BY <1>1, <1>2

(* access() of a flagged row. *)
LEMMA QuarantineStep ==
    ASSUME RQInv, NEW row \in Rows, NEW elapsed \in BOOLEAN, AccessQuarantine(row, elapsed)
    PROVE  RQInv'
<1> DEFINE b == Occupant
           checked == CheckedCache(row)
           filled == CacheWith(checked, row)
           joined == JoinGroup(bitvector, row)
           orr == JoinGroup(ORR_CBF, row)
<1>0. /\ TypeOK /\ TablesInverse
      /\ row_To_QR_T \in [Rows -> QRIds \cup {None}]
      /\ QR_To_Row_T \in [QRIds -> Rows \cup {None}]
      /\ nextFreeQR_ID \in QRIds /\ prevQRHead_ID \in QRIds /\ QRTail_ID \in QRIds
  BY DEF RQInv, TypeOK
<1>1. Counts(bitvector, MappedRows) /\ Counts(ORR_CBF, MappedRows)
  BY CountsEquiv DEF RQInv, TypeOK
<1>2. /\ ~CheckFails(row) /\ checked \in CacheType /\ Coherent(checked, MappedRows)
      /\ Fetches(row) /\ Mapped(row) => Holds(checked, row)
  BY CheckOK
<1>3. /\ row_To_QR_T' \in [Rows -> QRIds \cup {None}]
      /\ QR_To_Row_T' \in [QRIds -> Rows \cup {None}]
      /\ TablesInverse'
      /\ MappedRows' = IF b # None THEN (MappedRows \cup {row}) \ {b}
                       ELSE MappedRows \cup {row}
      /\ b # None => b \in MappedRows
  BY QuarantineTables
<1>4. Counts(joined, MappedRows \cup {row}) /\ Counts(orr, MappedRows \cup {row})
  BY <1>1, JoinGroupOK
<1>5. filled \in CacheType /\ Coherent(filled, MappedRows \cup {row})
  BY <1>2, CacheWithOK
<1>6. b # None => b \in Rows
  BY <1>3 DEF MappedRows
<1>7. /\ bitvector' = IF b # None THEN LeaveGroup(joined, b) ELSE joined
      /\ ORR_CBF' = IF b # None THEN LeaveGroup(orr, b) ELSE orr
      /\ cache' = IF b # None THEN removeRowFromCache(filled, b) ELSE filled
      /\ aborted' = (CheckFails(row) \/ QuarantineFails(row))
      /\ QRTail_ID' = TailAfterMove(PrevHead(elapsed))
      /\ nextFreeQR_ID' = NextID(nextFreeQR_ID)
      /\ prevQRHead_ID' = PrevHead(elapsed)
      /\ misses' = MissesAfter(row)
      /\ decision' = [mitigate |-> TRUE, row |-> row,
                      moves |-> IF b # None THEN 2 ELSE 1,
                      accs  |-> CheckAccesses(row) + QuarantineAccesses(checked, row)]
  BY DEF AccessQuarantine
<1> HIDE DEF b, checked, filled, joined, orr
<1>8. Counts(bitvector', MappedRows') /\ Counts(ORR_CBF', MappedRows')
  <2>1. CASE b # None
    BY <1>3, <1>4, <1>6, <1>7, <2>1, LeaveCounts
  <2>2. CASE b = None
    BY <1>3, <1>4, <1>7, <2>2
  <2> QED
    BY <2>1, <2>2
<1>9. bitvector' \in [Groups -> Nat] /\ ORR_CBF' \in [Groups -> Nat]
  BY <1>8 DEF Counts
<1>10. GroupCounts'
  <2>1. \A g : InGroup(MappedRows', g) = {r \in Rows : Group(r) = g /\ row_To_QR_T'[r] # None}
    BY DEF InGroup, MappedRows, Mapped
  <2> QED
    BY <1>8, <2>1 DEF GroupCounts, Counts, Mapped
<1>11. cache' \in CacheType /\ Coherent(cache', MappedRows')
  <2>1. CASE b # None
    BY <1>3, <1>5, <1>6, <1>7, <2>1, RemoveOK
  <2>2. CASE b = None
    BY <1>3, <1>5, <1>7, <2>2
  <2> QED
    BY <2>1, <2>2
<1>12. CacheCoherent'
  BY <1>11 DEF CacheCoherent, Coherent, MappedRows, Mapped
<1>13. ~QuarantineFails(row)
  <2>1. b # None => ~RemoveFails([row_To_QR_T EXCEPT ![row] = nextFreeQR_ID], joined, b)
    <3> SUFFICES ASSUME b # None
                 PROVE  /\ [row_To_QR_T EXCEPT ![row] = nextFreeQR_ID][b] # None
                        /\ joined[Group(b)] # 0
      BY DEF RemoveFails
    <3>1. b \in Rows /\ b \in MappedRows
      BY <1>3, <1>6
    <3>2. joined[Group(b)] # 0
      BY <1>4, <3>1, CountPositive
    <3>3. row_To_QR_T[b] # None
      BY <3>1 DEF MappedRows, Mapped
    <3> QED
      BY <1>0, <3>1, <3>2, <3>3, Ids
  <2>2. Mapped(row) => QR_To_Row_T[row_To_QR_T[row]] # None
    BY <1>0, Ids DEF Mapped, TablesInverse
  <2> QED
    BY <2>1, <2>2 DEF QuarantineFails, b, joined
<1>14. ~aborted' /\ aborted' \in BOOLEAN
  <2>1. ~aborted'
    BY <1>2, <1>7, <1>13
  <2>2. aborted' \in BOOLEAN
    BY <1>7
  <2> QED
    BY <2>1, <2>2
<1>15. {nextFreeQR_ID', prevQRHead_ID', QRTail_ID'} \subseteq QRIds
  BY <1>0, <1>7, Ids DEF PrevHead, TailAfterMove
<1>16. misses' \in 0 .. drain_cache_miss_threshold
  BY <1>0, <1>7, MissesOK
<1>17. PICK x, y : x = CheckAccesses(row) /\ y = QuarantineAccesses(checked, row)
  OBVIOUS
<1>18. x \in 0 .. 4 /\ y \in 0 .. 6 /\ x + y <= 8
  <2>1. x \in 0 .. 4 /\ (x <= 2 \/ Fetches(row))
    BY <1>17, CheckCharge
  <2>2. /\ y \in 0 .. 6 /\ (Holds(checked, row) => y <= 4)
        /\ (~Mapped(row) => y <= 4)
    BY <1>17, QuarantineCharge
  <2>3. CASE x <= 2
    BY <2>1, <2>2, <2>3
  <2>4. CASE Fetches(row)
    <3>1. y <= 4
      BY <1>2, <2>2, <2>4
    <3> QED
      BY <2>1, <2>2, <3>1
  <2> QED
    BY <2>1, <2>3, <2>4
<1>19. /\ decision' \in [mitigate : BOOLEAN, row : Rows \cup {None}, moves : Nat, accs : Nat]
       /\ decision'.moves <= 2 /\ decision'.accs <= 8
  <2>1. PICK m : m = IF b # None THEN 2 ELSE 1
    OBVIOUS
  <2>2. decision' = [mitigate |-> TRUE, row |-> row, moves |-> m, accs |-> x + y]
    BY <1>7, <1>17, <2>1
  <2>3. m \in Nat /\ m <= 2 /\ x + y \in Nat /\ x + y <= 8
    BY <1>18, <2>1
  <2> QED
    BY <2>2, <2>3
<1>20. TypeOK'
  BY <1>3, <1>9, <1>11, <1>14, <1>15, <1>16, <1>19 DEF TypeOK
<1>21. NoAssertFails' /\ DelayBounded'
  BY <1>14, <1>19 DEF NoAssertFails, DelayBounded
<1> QED
  BY <1>3, <1>10, <1>12, <1>20, <1>21 DEF RQInv

(* drainRow, when the tail holds a row of an earlier window. *)
LEMMA DrainTables ==
    ASSUME RQInv, NEW b, b = QR_To_Row_T[QRTail_ID], b # None,
           row_To_QR_T' = Unmap(row_To_QR_T, b),
           QR_To_Row_T' = [QR_To_Row_T EXCEPT ![QRTail_ID] = None]
    PROVE  /\ row_To_QR_T' \in [Rows -> QRIds \cup {None}]
           /\ QR_To_Row_T' \in [QRIds -> Rows \cup {None}]
           /\ TablesInverse'
           /\ b \in MappedRows /\ MappedRows' = MappedRows \ {b}
           /\ \A x \in Rows : \/ row_To_QR_T'[x] = row_To_QR_T[x]
                              \/ x = b /\ row_To_QR_T'[x] = None
<1> DEFINE t == QRTail_ID
<1>1. /\ row_To_QR_T \in [Rows -> QRIds \cup {None}]
      /\ QR_To_Row_T \in [QRIds -> Rows \cup {None}]
      /\ t \in QRIds /\ TablesInverse
  BY DEF RQInv, TypeOK
<1>2. b \in Rows /\ row_To_QR_T[b] = t
  BY <1>1 DEF TablesInverse
<1>3. row_To_QR_T' \in [Rows -> QRIds \cup {None}]
  BY <1>1, <1>2 DEF Unmap
<1>4. QR_To_Row_T' \in [QRIds -> Rows \cup {None}]
  BY <1>1
<1>5. /\ \A r \in Rows : row_To_QR_T'[r] = IF r = b THEN None ELSE row_To_QR_T[r]
      /\ \A q \in QRIds : QR_To_Row_T'[q] = IF q = t THEN None ELSE QR_To_Row_T[q]
  BY <1>1, <1>2 DEF Unmap
<1>6. TablesInverse'
  <2> SUFFICES ASSUME NEW r \in Rows, NEW q \in QRIds
               PROVE  row_To_QR_T'[r] = q <=> QR_To_Row_T'[q] = r
    BY DEF TablesInverse
  <2>1. row_To_QR_T[r] = q <=> QR_To_Row_T[q] = r
    BY <1>1 DEF TablesInverse
  <2> QED
    BY <1>1, <1>2, <1>5, <2>1, Ids
<1>7. b \in MappedRows
  BY <1>1, <1>2, Ids DEF MappedRows, Mapped
<1>8. MappedRows' = MappedRows \ {b}
  <2>1. MappedRows' = {r \in Rows : row_To_QR_T'[r] # None}
    BY DEF MappedRows, Mapped
  <2>2. MappedRows = {r \in Rows : row_To_QR_T[r] # None}
    BY DEF MappedRows, Mapped
  <2> QED
    BY <1>5, <2>1, <2>2
<1> QED
  BY <1>3, <1>4, <1>5, <1>6, <1>7, <1>8

(* access() of a row that is not flagged, a drain being due. *)
LEMMA DrainStep ==
    ASSUME RQInv, NEW row \in Rows, NEW elapsed \in BOOLEAN, AccessDrain(row, elapsed)
    PROVE  /\ RQInv'
           /\ \A x \in Rows : \/ row_To_QR_T'[x] = row_To_QR_T[x]
                              \/ x = QR_To_Row_T[QRTail_ID] /\ row_To_QR_T'[x] = None
<1> DEFINE checked == CheckedCache(row)
           drains == Drainable(PrevHead(elapsed))
<1>0. /\ TypeOK /\ TablesInverse
      /\ row_To_QR_T \in [Rows -> QRIds \cup {None}]
      /\ QR_To_Row_T \in [QRIds -> Rows \cup {None}]
      /\ nextFreeQR_ID \in QRIds /\ prevQRHead_ID \in QRIds /\ QRTail_ID \in QRIds
  BY DEF RQInv, TypeOK
<1>1. Counts(bitvector, MappedRows) /\ Counts(ORR_CBF, MappedRows)
  BY CountsEquiv DEF RQInv, TypeOK
<1>2. ~CheckFails(row) /\ checked \in CacheType /\ Coherent(checked, MappedRows)
  BY CheckOK
<1>3. /\ misses' = 0 /\ prevQRHead_ID' = PrevHead(elapsed)
      /\ nextFreeQR_ID' = nextFreeQR_ID
      /\ decision' = [mitigate |-> FALSE, row |-> None,
                      moves |-> IF drains THEN 1 ELSE 0,
                      accs  |-> CheckAccesses(row)
                                + (IF ~virtualize_RIT THEN 0
                                   ELSE IF drains THEN 3 ELSE 1)]
  BY DEF AccessDrain
<1>4. misses' \in 0 .. drain_cache_miss_threshold
  BY <1>3, RQAssumption
<1>5. /\ decision' \in [mitigate : BOOLEAN, row : Rows \cup {None}, moves : Nat, accs : Nat]
      /\ decision'.moves <= 2 /\ decision'.accs <= 8
  <2>1. PICK m : m = IF drains THEN 1 ELSE 0
    OBVIOUS
  <2>2. PICK n : n = CheckAccesses(row)
                     + (IF ~virtualize_RIT THEN 0 ELSE IF drains THEN 3 ELSE 1)
    OBVIOUS
  <2>3. m \in Nat /\ m <= 2
    BY <2>1
  <2>4. n \in Nat /\ n <= 8
    <3>1. CheckAccesses(row) \in 0 .. 4
      BY CheckCharge
    <3> HIDE DEF drains
    <3> QED
      BY <2>2, <3>1
  <2>5. decision' = [mitigate |-> FALSE, row |-> None, moves |-> m, accs |-> n]
    BY <1>3, <2>1, <2>2
  <2> QED
    BY <2>3, <2>4, <2>5
<1>6. CASE drains
  <2>0. PICK b : b = QR_To_Row_T[QRTail_ID]
    OBVIOUS
  <2>1. /\ b # None
        /\ aborted' = (CheckFails(row) \/ RemoveFails(row_To_QR_T, bitvector, b))
        /\ row_To_QR_T' = Unmap(row_To_QR_T, b)
        /\ QR_To_Row_T' = [QR_To_Row_T EXCEPT ![QRTail_ID] = None]
        /\ bitvector' = LeaveGroup(bitvector, b)
        /\ ORR_CBF' = LeaveGroup(ORR_CBF, b)
        /\ cache' = removeRowFromCache(checked, b)
        /\ QRTail_ID' = NextID(QRTail_ID)
    BY <1>6, <2>0 DEF AccessDrain, Drainable
  <2> HIDE DEF checked
  <2>2. /\ row_To_QR_T' \in [Rows -> QRIds \cup {None}]
        /\ QR_To_Row_T' \in [QRIds -> Rows \cup {None}]
        /\ TablesInverse'
        /\ b \in MappedRows /\ MappedRows' = MappedRows \ {b}
        /\ \A x \in Rows : \/ row_To_QR_T'[x] = row_To_QR_T[x]
                           \/ x = b /\ row_To_QR_T'[x] = None
    BY <2>0, <2>1, DrainTables
  <2>3. b \in Rows
    BY <2>2 DEF MappedRows
  <2>4. Counts(bitvector', MappedRows') /\ Counts(ORR_CBF', MappedRows')
    BY <1>1, <2>1, <2>2, <2>3, LeaveCounts
  <2>5. bitvector' \in [Groups -> Nat] /\ ORR_CBF' \in [Groups -> Nat]
    BY <2>4 DEF Counts
  <2>6. GroupCounts'
    <3>1. \A g : InGroup(MappedRows', g) = {r \in Rows : Group(r) = g /\ row_To_QR_T'[r] # None}
      BY DEF InGroup, MappedRows, Mapped
    <3> QED
      BY <2>4, <3>1 DEF GroupCounts, Counts, Mapped
  <2>7. cache' \in CacheType /\ Coherent(cache', MappedRows')
    BY <1>2, <2>1, <2>2, <2>3, RemoveOK
  <2>8. CacheCoherent'
    BY <2>7 DEF CacheCoherent, Coherent, MappedRows, Mapped
  <2>9. ~RemoveFails(row_To_QR_T, bitvector, b)
    <3>1. bitvector[Group(b)] # 0
      BY <1>1, <2>2, <2>3, CountPositive
    <3>2. row_To_QR_T[b] # None
      BY <2>2 DEF MappedRows, Mapped
    <3> QED
      BY <3>1, <3>2 DEF RemoveFails
  <2>10. ~aborted'
    BY <1>2, <2>1, <2>9
  <2>11. aborted' \in BOOLEAN
    BY <2>1
  <2>12. {nextFreeQR_ID', prevQRHead_ID', QRTail_ID'} \subseteq QRIds
    BY <1>0, <1>3, <2>1, Ids DEF PrevHead
  <2>13. TypeOK'
    BY <1>4, <1>5, <2>2, <2>5, <2>7, <2>11, <2>12 DEF TypeOK
  <2> QED
    BY <1>5, <2>0, <2>2, <2>6, <2>8, <2>10, <2>13 DEF RQInv, NoAssertFails, DelayBounded
<1>7. CASE ~drains
  <2>1. /\ aborted' = CheckFails(row) /\ cache' = checked
        /\ UNCHANGED <<tables, QRTail_ID>>
    BY <1>7 DEF AccessDrain
  <2> HIDE DEF checked, drains
  <2>2. /\ row_To_QR_T' = row_To_QR_T /\ QR_To_Row_T' = QR_To_Row_T
        /\ bitvector' = bitvector /\ ORR_CBF' = ORR_CBF /\ QRTail_ID' = QRTail_ID
    BY <2>1 DEF tables
  <2>3. MappedRows' = MappedRows
    BY <2>2 DEF MappedRows, Mapped
  <2>4. TablesInverse' /\ GroupCounts'
    BY <2>2 DEF RQInv, TablesInverse, GroupCounts, Mapped
  <2>5. CacheCoherent'
    BY <1>2, <2>1, <2>2 DEF CacheCoherent, Coherent, MappedRows, Mapped
  <2>6. ~aborted'
    BY <1>2, <2>1
  <2>7. aborted' \in BOOLEAN
    BY <2>1 DEF CheckFails
  <2>8. {nextFreeQR_ID', prevQRHead_ID', QRTail_ID'} \subseteq QRIds
    BY <1>0, <1>3, <2>2 DEF PrevHead
  <2>9. cache' \in CacheType
    BY <1>2, <2>1
  <2>10. TypeOK'
    BY <1>0, <1>4, <1>5, <2>2, <2>7, <2>8, <2>9 DEF TypeOK
  <2> QED
    BY <1>5, <2>2, <2>4, <2>5, <2>6, <2>10 DEF RQInv, NoAssertFails, DelayBounded
<1> QED
  BY <1>6, <1>7

(* access() of a row that is not flagged, no drain being due. *)
LEMMA OnlyStep ==
    ASSUME RQInv, NEW row \in Rows, NEW elapsed \in BOOLEAN, AccessOnly(row, elapsed)
    PROVE  RQInv' /\ row_To_QR_T' = row_To_QR_T
<1> DEFINE checked == CheckedCache(row)
<1>0. /\ TypeOK
      /\ nextFreeQR_ID \in QRIds /\ prevQRHead_ID \in QRIds /\ QRTail_ID \in QRIds
  BY DEF RQInv, TypeOK
<1>1. ~CheckFails(row) /\ checked \in CacheType /\ Coherent(checked, MappedRows)
  BY CheckOK
<1>2. /\ aborted' = CheckFails(row) /\ cache' = checked
      /\ misses' = MissesAfter(row) /\ prevQRHead_ID' = PrevHead(elapsed)
      /\ decision' = [mitigate |-> FALSE, row |-> None, moves |-> 0,
                      accs |-> CheckAccesses(row)]
      /\ row_To_QR_T' = row_To_QR_T /\ QR_To_Row_T' = QR_To_Row_T
      /\ bitvector' = bitvector /\ ORR_CBF' = ORR_CBF
      /\ nextFreeQR_ID' = nextFreeQR_ID /\ QRTail_ID' = QRTail_ID
  BY DEF AccessOnly, tables
<1> HIDE DEF checked
<1>3. TablesInverse' /\ GroupCounts'
  BY <1>2 DEF RQInv, TablesInverse, GroupCounts, Mapped
<1>4. CacheCoherent'
  BY <1>1, <1>2 DEF CacheCoherent, Coherent, MappedRows, Mapped
<1>5. ~aborted'
  BY <1>1, <1>2
<1>6. aborted' \in BOOLEAN
  BY <1>2 DEF CheckFails
<1>7. {nextFreeQR_ID', prevQRHead_ID', QRTail_ID'} \subseteq QRIds
  BY <1>0, <1>2 DEF PrevHead
<1>8. misses' \in 0 .. drain_cache_miss_threshold
  BY <1>0, <1>2, MissesOK
<1>9. /\ decision' \in [mitigate : BOOLEAN, row : Rows \cup {None}, moves : Nat, accs : Nat]
      /\ decision'.moves <= 2 /\ decision'.accs <= 8
  <2>1. PICK n : n = CheckAccesses(row)
    OBVIOUS
  <2>2. n \in Nat /\ n <= 8
    BY <2>1, CheckCharge
  <2> QED
    BY <1>2, <2>1, <2>2
<1>10. cache' \in CacheType
  BY <1>1, <1>2
<1>11. TypeOK'
  BY <1>0, <1>2, <1>6, <1>7, <1>8, <1>9, <1>10 DEF TypeOK
<1> QED
  BY <1>2, <1>3, <1>4, <1>5, <1>9, <1>11 DEF RQInv, NoAssertFails, DelayBounded

(* Every access keeps the invariant. *)
LEMMA AccessStep ==
    ASSUME RQInv, NEW row \in Rows, NEW mitigate \in BOOLEAN, NEW elapsed \in BOOLEAN,
           Access(row, mitigate, elapsed)
    PROVE  /\ RQInv'
           /\ mitigate => row_To_QR_T'[row] # row_To_QR_T[row]
           /\ \E b : \A x \in Rows \ {row} :
                 row_To_QR_T'[x] = row_To_QR_T[x] \/ (x = b /\ row_To_QR_T'[x] = None)
<1>1. CASE mitigate /\ AccessQuarantine(row, elapsed)
  BY <1>1, QuarantineStep, QuarantineTables
<1>2. CASE ~mitigate /\ AccessDrain(row, elapsed)
  BY <1>2, DrainStep
<1>3. CASE ~mitigate /\ AccessOnly(row, elapsed)
  BY <1>3, OnlyStep
<1> QED
  BY <1>1, <1>2, <1>3 DEF Access

----------------------------------------------------------------------------
(* The theorems *)

(* The invariant holds at start. *)
LEMMA InitInv == Init => RQInv
<1> SUFFICES ASSUME Init PROVE RQInv
  OBVIOUS
<1>0. 0 \in QRIds /\ None \notin QRIds /\ None \notin Rows
  BY Ids
<1>1. NoBlock \in FuncCacheBlock /\ ~NoBlock.valid
  BY DEF NoBlock, FuncCacheBlock, MaxRrip
<1>2. cache \in CacheType /\ \A s \in Sets, w \in Ways : ~cache[s][w].valid
  BY <1>1 DEF Init, EmptyCache, CacheType
<1>3. CacheCoherent
  BY <1>2 DEF CacheCoherent
<1>4. decision \in [mitigate : BOOLEAN, row : Rows \cup {None}, moves : Nat, accs : Nat]
      /\ decision.moves <= 2 /\ decision.accs <= 8
  BY DEF Init
<1>5. TypeOK
  <2>1. row_To_QR_T \in [Rows -> QRIds \cup {None}] /\ QR_To_Row_T \in [QRIds -> Rows \cup {None}]
    BY DEF Init
  <2>2. bitvector \in [Groups -> Nat] /\ ORR_CBF \in [Groups -> Nat]
    BY DEF Init
  <2>3. misses \in 0 .. drain_cache_miss_threshold
    BY RQAssumption DEF Init
  <2>4. {nextFreeQR_ID, prevQRHead_ID, QRTail_ID} \subseteq QRIds /\ aborted \in BOOLEAN
    BY <1>0 DEF Init
  <2> QED
    BY <1>2, <1>4, <2>1, <2>2, <2>3, <2>4 DEF TypeOK
<1>6. TablesInverse
  BY <1>0 DEF Init, TablesInverse
<1>7. GroupCounts
  <2>1. \A g : {r \in Rows : Group(r) = g /\ Mapped(r)} = {}
    BY DEF Init, Mapped
  <2> QED
    BY <2>1, FS_EmptySet DEF Init, GroupCounts
<1>8. NoAssertFails
  BY DEF Init, NoAssertFails
<1> QED
  BY <1>3, <1>4, <1>5, <1>6, <1>7, <1>8 DEF RQInv, DelayBounded

(* A step that changes nothing. *)
LEMMA UnchangedInv == RQInv /\ UNCHANGED vars => RQInv'
BY DEF RQInv, vars, tables, ring, TypeOK, TablesInverse, GroupCounts, CacheCoherent,
       Mapped, NoAssertFails, DelayBounded

(* The invariant holds always. *)
LEMMA InvCorrect == Spec => []RQInv
<1>1. RQInv /\ [Next]_vars => RQInv'
  BY AccessStep, UnchangedInv DEF Next
<1> QED
  BY <1>1, InitInv, PTL DEF Spec

(* The variables keep their types: the counters of the groups do not go    *)
(* below zero, the indices stay in the ring.                               *)
THEOREM TypeCorrect == Spec => []TypeOK
<1>1. RQInv => TypeOK
  BY DEF RQInv
<1> QED
  BY <1>1, InvCorrect, PTL

(* No assert of Row_Quarantine fails. *)
THEOREM AssertsHold == Spec => []NoAssertFails
<1>1. RQInv => NoAssertFails
  BY DEF RQInv
<1> QED
  BY <1>1, InvCorrect, PTL

(* The two tables are inverse of each other. *)
THEOREM TablesAgree == Spec => []TablesInverse
<1>1. RQInv => TablesInverse
  BY DEF RQInv
<1> QED
  BY <1>1, InvCorrect, PTL

(* The group counters count the quarantined rows of the group. *)
THEOREM GroupsCounted == Spec => []GroupCounts
<1>1. RQInv => GroupCounts
  BY DEF RQInv
<1> QED
  BY <1>1, InvCorrect, PTL

(* The cache holds quarantined rows only, in their sets and once. *)
THEOREM CacheCorrect == Spec => []CacheCoherent
<1>1. RQInv => CacheCoherent
  BY DEF RQInv
<1> QED
  BY <1>1, InvCorrect, PTL

(* What the filter and the cache say of a row without reading the table is *)
(* true.                                                                   *)
THEOREM VerdictsHold == Spec => []VerdictsCorrect
<1>1. RQInv => VerdictsCorrect
  <2> SUFFICES ASSUME RQInv, NEW r \in Rows
               PROVE  (ExactHit(r) => Mapped(r)) /\ (KnownNotRemapped(r) => ~Mapped(r))
    BY DEF VerdictsCorrect
  <2>1. /\ Coherent(cache, MappedRows) /\ Counts(ORR_CBF, MappedRows)
        /\ SetOf(r) \in Sets
    BY CountsEquiv, CoherentEquiv, GroupAndSet DEF RQInv, TypeOK
  <2>2. ASSUME ExactHit(r) PROVE Mapped(r)
    <3>1. Lookup(cache, r) \in Ways
      BY <2>2 DEF ExactHit
    <3>2. cache[SetOf(r)][Lookup(cache, r)].valid /\ cache[SetOf(r)][Lookup(cache, r)].tag = r
      BY <3>1, LookupFacts
    <3>3. r \in MappedRows
      BY <2>1, <3>1, <3>2 DEF Coherent
    <3> QED
      BY <3>3 DEF MappedRows
  <2>3. ASSUME KnownNotRemapped(r), Mapped(r) PROVE FALSE
    <3>1. PICK w : w = PartialLookup(cache, r)
      OBVIOUS
    <3>2. /\ w \in Ways /\ Lookup(cache, r) \notin Ways /\ ORR_CBF[Group(r)] = 1
      BY <2>3, <3>1 DEF KnownNotRemapped, PartialHit, ExactHit
    <3>3. PICK x : x = cache[SetOf(r)][w].tag
      OBVIOUS
    <3>4. cache[SetOf(r)][w].valid /\ Group(x) = Group(r)
      BY <3>1, <3>2, <3>3, PartialLookupFacts
    <3>5. x \in MappedRows
      BY <2>1, <3>2, <3>3, <3>4 DEF Coherent
    <3>6. ~Holds(cache, r)
      BY <3>2, LookupFacts
    <3>7. x # r
      BY <3>2, <3>3, <3>4, <3>6 DEF Holds
    <3> QED
      BY <2>1, <2>3, <3>2, <3>4, <3>5, <3>7, CountOne DEF MappedRows
  <2> QED
    BY <2>2, <2>3
<1> QED
  BY <1>1, InvCorrect, PTL

(* The delay of one access is at most two row moves and eight table        *)
(* accesses, whatever the sizes.                                           *)
THEOREM DelayIsBounded == Spec => []DelayBounded
<1>1. RQInv => DelayBounded
  BY DEF RQInv
<1> QED
  BY <1>1, InvCorrect, PTL

----------------------------------------------------------------------------
(* The ring *)

(* The way from slot p forward to slot q. *)
Ahead(p, q) == IF p <= q THEN q - p ELSE q + numQREntries - p

(* The slots written in this window are those from where the head was when *)
(* it began to where it is, or all of them.                                *)
RingUsed(used, p, h) ==
    used = QRIds \/ used = {q \in QRIds : Ahead(p, q) < Ahead(p, h)}

(* The tail has not passed the beginning of the window. *)
TailBehind(used, p, t) == t = p \/ t \notin used

(* The next slot is one further, unless it is the beginning. *)
LEMMA OneFurther ==
    ASSUME NEW p \in QRIds, NEW q \in QRIds
    PROVE  /\ Ahead(p, q) \in 0 .. numQREntries - 1
           /\ Ahead(p, p) = 0
           /\ NextID(q) \in QRIds
           /\ IF Ahead(p, q) = numQREntries - 1
              THEN NextID(q) = p
              ELSE Ahead(p, NextID(q)) = Ahead(p, q) + 1
<1>1. numQREntries \in Nat \ {0}
  BY RQAssumption
<1>2. NextID(q) = IF q = numQREntries - 1 THEN 0 ELSE q + 1
  BY <1>1 DEF NextID, QRIds
<1> QED
  BY <1>1, <1>2 DEF Ahead, QRIds

(* Writing the slot at the head. *)
LEMMA RingWrite ==
    ASSUME NEW p \in QRIds, NEW h \in QRIds, NEW used \in SUBSET QRIds,
           RingUsed(used, p, h)
    PROVE  RingUsed(used \cup {h}, p, NextID(h))
<1>1. CASE used = QRIds
  BY <1>1 DEF RingUsed
<1>2. CASE used = {q \in QRIds : Ahead(p, q) < Ahead(p, h)}
  <2>1. numQREntries \in Nat
    BY RQAssumption
  <2>2. \A q \in QRIds : Ahead(p, q) = Ahead(p, h) => q = h
    BY <2>1 DEF Ahead, QRIds
  <2>3. used \cup {h} = {q \in QRIds : Ahead(p, q) <= Ahead(p, h)}
    BY <1>2, <2>1, <2>2, OneFurther
  <2>4. CASE Ahead(p, h) = numQREntries - 1
    <3>1. used \cup {h} = QRIds
      BY <2>1, <2>3, <2>4, OneFurther
    <3> QED
      BY <3>1 DEF RingUsed
  <2>5. CASE Ahead(p, h) # numQREntries - 1
    <3>1. Ahead(p, NextID(h)) = Ahead(p, h) + 1
      BY <2>5, OneFurther
    <3>2. \A q \in QRIds : Ahead(p, q) <= Ahead(p, h) <=> Ahead(p, q) < Ahead(p, NextID(h))
      BY <2>1, <3>1, OneFurther
    <3> QED
      BY <2>3, <3>2 DEF RingUsed
  <2> QED
    BY <2>4, <2>5
<1> QED
  BY <1>1, <1>2 DEF RingUsed

(* Behind an unused slot there is none that is used, up to the beginning. *)
LEMMA NextUnused ==
    ASSUME NEW p \in QRIds, NEW h \in QRIds, NEW used \in SUBSET QRIds,
           RingUsed(used, p, h), NEW t \in QRIds, t \notin used
    PROVE  NextID(t) = p \/ NextID(t) \notin used
<1>1. numQREntries \in Nat
  BY RQAssumption
<1>2. used = {q \in QRIds : Ahead(p, q) < Ahead(p, h)}
  BY DEF RingUsed
<1>3. /\ Ahead(p, h) \in Nat /\ Ahead(p, t) \in Nat /\ NextID(t) \in QRIds
      /\ NextID(t) = p \/ Ahead(p, NextID(t)) = Ahead(p, t) + 1
  BY <1>1, OneFurther
<1> QED
  BY <1>2, <1>3

(* The tail stays behind when the head moves on ... *)
LEMMA TailWrite ==
    ASSUME NEW p \in QRIds, NEW h \in QRIds, NEW used \in SUBSET QRIds,
           RingUsed(used, p, h), h \notin used,
           NEW t \in QRIds, TailBehind(used, p, t),
           NEW u, u = IF h = t /\ h # p THEN NextID(t) ELSE t
    PROVE  TailBehind(used \cup {h}, p, u)
<1>1. CASE h = t /\ h # p
  <2>1. NextID(h) = p \/ NextID(h) \notin used
    BY NextUnused
  <2>2. NextID(h) # h \/ NextID(h) = p
    <3>1. /\ Ahead(p, h) \in 0 .. numQREntries - 1
          /\ NextID(h) = p \/ Ahead(p, NextID(h)) = Ahead(p, h) + 1
      BY OneFurther
    <3> QED
      BY <3>1, RQAssumption
  <2> QED
    BY <1>1, <2>1, <2>2 DEF TailBehind
<1>2. CASE ~(h = t /\ h # p)
  BY <1>2 DEF TailBehind
<1> QED
  BY <1>1, <1>2

(* ... and when a row is drained. *)
LEMMA TailDrain ==
    ASSUME NEW p \in QRIds, NEW h \in QRIds, NEW used \in SUBSET QRIds,
           RingUsed(used, p, h),
           NEW t \in QRIds, TailBehind(used, p, t), t # p
    PROVE  TailBehind(used, p, NextID(t))
BY NextUnused DEF TailBehind

----------------------------------------------------------------------------
(* The invariant *)

(* The rows that this window has flagged are in slots of this window. *)
Kept(table, rows, used) == \A r \in rows : table[r] \in used

WInv ==
    /\ RQInv
    /\ recent \subseteq QRIds /\ flagged \subseteq Rows /\ overrun \in BOOLEAN
    /\ RingUsed(recent, prevQRHead_ID, nextFreeQR_ID)
    /\ ~overrun => TailBehind(recent, prevQRHead_ID, QRTail_ID)
    /\ ~overrun => Kept(row_To_QR_T, flagged \ selfEvicted, recent)

(* It holds at boot. *)
LEMMA WInitInv == WInit => WInv
<1> SUFFICES ASSUME WInit PROVE WInv
  OBVIOUS
<1>1. RQInv
  BY InitInv DEF WInit
<1>2. /\ recent = {} /\ flagged = {} /\ overrun = FALSE
      /\ nextFreeQR_ID = 0 /\ prevQRHead_ID = 0 /\ QRTail_ID = 0
  BY DEF WInit, Init
<1>3. {} = {q \in QRIds : Ahead(0, q) < Ahead(0, 0)}
  BY RQAssumption, Ids, OneFurther
<1> QED
  BY <1>1, <1>2, <1>3 DEF WInv, RingUsed, TailBehind, Kept

(* What an access finds, after the reset() that may precede it. *)
LEMMA WindowBegins ==
    ASSUME WInv, NEW elapsed \in BOOLEAN,
           NEW used, used = IF elapsed THEN {} ELSE recent,
           NEW rows, rows = IF elapsed THEN {} ELSE flagged \ selfEvicted
    PROVE  /\ used \in SUBSET QRIds /\ rows \in SUBSET Rows
           /\ PrevHead(elapsed) \in QRIds
           /\ RingUsed(used, PrevHead(elapsed), nextFreeQR_ID)
           /\ elapsed \/ ~overrun => TailBehind(used, PrevHead(elapsed), QRTail_ID)
           /\ elapsed \/ ~overrun => Kept(row_To_QR_T, rows, used)
<1>1. nextFreeQR_ID \in QRIds /\ prevQRHead_ID \in QRIds
  BY DEF WInv, RQInv, TypeOK
<1>2. CASE elapsed
  <2>1. used = {} /\ rows = {} /\ PrevHead(elapsed) = nextFreeQR_ID
    BY <1>2 DEF PrevHead
  <2>2. {} = {q \in QRIds : Ahead(nextFreeQR_ID, q) < Ahead(nextFreeQR_ID, nextFreeQR_ID)}
    BY <1>1, RQAssumption, OneFurther
  <2> QED
    BY <1>1, <2>1, <2>2 DEF RingUsed, TailBehind, Kept
<1>3. CASE ~elapsed
  <2>1. /\ used = recent /\ rows = flagged \ selfEvicted
        /\ PrevHead(elapsed) = prevQRHead_ID
    BY <1>3 DEF PrevHead
  <2> QED
    BY <1>1, <1>3, <2>1 DEF WInv
<1> QED
  BY <1>2, <1>3

(* Every access keeps it. *)
LEMMA WStep ==
    ASSUME WInv, NEW row \in Rows, NEW mitigate \in BOOLEAN, NEW elapsed \in BOOLEAN,
           WAccess(row, mitigate, elapsed)
    PROVE  WInv'
<1>1. PICK used : used = IF elapsed THEN {} ELSE recent
  OBVIOUS
<1>2. PICK rows : rows = IF elapsed THEN {} ELSE flagged \ selfEvicted
  OBVIOUS
<1>3. PICK fresh \in BOOLEAN : fresh <=> elapsed \/ ~overrun
  OBVIOUS
<1>4. PICK p : p = PrevHead(elapsed)
  OBVIOUS
<1>5. PICK h : h = nextFreeQR_ID
  OBVIOUS
<1>6. PICK t : t = QRTail_ID
  OBVIOUS
<1>7. /\ used \in SUBSET QRIds /\ rows \in SUBSET Rows /\ p \in QRIds
      /\ RingUsed(used, p, h)
      /\ fresh => TailBehind(used, p, t)
      /\ fresh => Kept(row_To_QR_T, rows, used)
  <2>1. /\ used \in SUBSET QRIds /\ rows \in SUBSET Rows
        /\ PrevHead(elapsed) \in QRIds
        /\ RingUsed(used, PrevHead(elapsed), nextFreeQR_ID)
        /\ elapsed \/ ~overrun => TailBehind(used, PrevHead(elapsed), QRTail_ID)
        /\ elapsed \/ ~overrun => Kept(row_To_QR_T, rows, used)
    BY <1>1, <1>2, WindowBegins
  <2> QED
    BY <1>3, <1>4, <1>5, <1>6, <2>1
<1>8. /\ h \in QRIds /\ t \in QRIds
      /\ row_To_QR_T \in [Rows -> QRIds \cup {None}]
      /\ QR_To_Row_T \in [QRIds -> Rows \cup {None}]
      /\ TablesInverse
  BY <1>5, <1>6 DEF WInv, RQInv, TypeOK
<1>9. RQInv'
  BY AccessStep DEF WAccess, WInv
<1>10. /\ Access(row, mitigate, elapsed)
       /\ recent' = IF mitigate THEN used \cup {h} ELSE used
       /\ flagged' \subseteq Rows /\ overrun' \in BOOLEAN
       /\ ~overrun' => fresh /\ (mitigate => h \notin used)
       /\ flagged' \ selfEvicted' =
             IF ~mitigate THEN rows
             ELSE IF Occupant = row THEN rows \ {row} ELSE rows \cup {row}
  <2>1. /\ Access(row, mitigate, elapsed)
        /\ recent' = IF mitigate THEN used \cup {h} ELSE used
        /\ flagged' = IF mitigate THEN (IF elapsed THEN {} ELSE flagged) \cup {row}
                      ELSE (IF elapsed THEN {} ELSE flagged)
        /\ selfEvicted' = IF mitigate /\ Occupant = row
                          THEN (IF elapsed THEN {} ELSE selfEvicted) \cup {row}
                          ELSE (IF elapsed THEN {} ELSE selfEvicted)
                                  \ (IF mitigate THEN {row} ELSE {})
        /\ overrun' = /\ ~elapsed
                      /\ overrun \/ (mitigate /\ nextFreeQR_ID \in recent)
    BY <1>1, <1>5 DEF WAccess
  <2>2. flagged \subseteq Rows
    BY DEF WInv
  <2>3. flagged' \subseteq Rows
    BY <2>1, <2>2
  <2>4. overrun' \in BOOLEAN /\ (~overrun' => fresh /\ (mitigate => h \notin used))
    BY <1>1, <1>3, <1>5, <2>1
  <2>5. flagged' \ selfEvicted' =
             IF ~mitigate THEN rows
             ELSE IF Occupant = row THEN rows \ {row} ELSE rows \cup {row}
    BY <1>2, <2>1
  <2> QED
    BY <2>1, <2>3, <2>4, <2>5
<1>11. CASE mitigate
  <2>1. AccessQuarantine(row, elapsed)
    BY <1>10, <1>11 DEF Access
  <2>2. /\ prevQRHead_ID' = p /\ nextFreeQR_ID' = NextID(h)
        /\ QRTail_ID' = IF h = t /\ h # p THEN NextID(t) ELSE t
    BY <1>4, <1>5, <1>6, <2>1 DEF AccessQuarantine, TailAfterMove
  <2>3. recent' = used \cup {h}
    BY <1>10, <1>11
  <2>4. RingUsed(recent', p, NextID(h))
    BY <1>7, <1>8, <2>3, RingWrite
  <2>5. ~overrun' => TailBehind(recent', p, QRTail_ID')
    <3>1. PICK u : u = IF h = t /\ h # p THEN NextID(t) ELSE t
      OBVIOUS
    <3>2. ASSUME fresh, h \notin used PROVE TailBehind(used \cup {h}, p, u)
      BY <1>7, <1>8, <3>1, <3>2, TailWrite
    <3>3. QRTail_ID' = u
      BY <2>2, <3>1
    <3> QED
      BY <1>10, <1>11, <2>3, <3>2, <3>3
  <2>6. /\ \A x \in Rows \ {row} : \/ row_To_QR_T'[x] = row_To_QR_T[x]
                                    \/ x = Occupant
        /\ Occupant # row => row_To_QR_T'[row] = h
    <3>1. \A x \in Rows \ {row} : \/ row_To_QR_T'[x] = row_To_QR_T[x]
                                    \/ x = Occupant
      BY <2>1, QuarantineTables DEF WInv
    <3>2. ASSUME Occupant # row PROVE row_To_QR_T'[row] = h
      <4>1. CASE Occupant # None
        <5>1. row_To_QR_T' = Unmap([row_To_QR_T EXCEPT ![row] = h], Occupant)
          BY <1>5, <2>1, <4>1 DEF AccessQuarantine
        <5> QED
          BY <1>8, <3>2, <5>1 DEF Unmap
      <4>2. CASE Occupant = None
        <5>1. row_To_QR_T' = [row_To_QR_T EXCEPT ![row] = h]
          BY <1>5, <2>1, <4>2 DEF AccessQuarantine
        <5> QED
          BY <1>8, <5>1
      <4> QED
        BY <4>1, <4>2
    <3> QED
      BY <3>1, <3>2
  <2>7. ASSUME ~overrun', NEW r \in flagged' \ selfEvicted'
        PROVE  row_To_QR_T'[r] \in recent'
    <3>1. fresh /\ h \notin used /\ Kept(row_To_QR_T, rows, used)
      BY <1>7, <1>10, <1>11, <2>7
    <3>2. CASE r = row
      BY <1>10, <1>11, <2>3, <2>6, <2>7, <3>2
    <3>3. CASE r # row
      <4>1. r \in rows /\ r \in Rows
        BY <1>7, <1>10, <1>11, <2>7, <3>3
      <4>2. row_To_QR_T[r] \in used
        BY <3>1, <4>1 DEF Kept
      <4>3. r # Occupant
        BY <1>5, <1>8, <3>1, <4>1, <4>2 DEF Occupant, TablesInverse
      <4> QED
        BY <2>3, <2>6, <3>3, <4>1, <4>2, <4>3
    <3> QED
      BY <3>2, <3>3
  <2>8. recent' \subseteq QRIds
    BY <1>7, <1>8, <2>3
  <2> QED
    BY <1>9, <1>10, <2>2, <2>4, <2>5, <2>7, <2>8 DEF WInv, Kept
<1>12. CASE ~mitigate
  <2>1. recent' = used /\ flagged' \ selfEvicted' = rows /\ (~overrun' => fresh)
    BY <1>10, <1>12
  <2>2. CASE AccessDrain(row, elapsed)
    <3> DEFINE b == QR_To_Row_T[t]
    <3>1. /\ prevQRHead_ID' = p /\ nextFreeQR_ID' = h
          /\ IF t # p /\ b # None
             THEN QRTail_ID' = NextID(t)
             ELSE QRTail_ID' = t /\ row_To_QR_T' = row_To_QR_T
      BY <1>4, <1>5, <1>6, <2>2 DEF AccessDrain, Drainable, tables
    <3>2. \A x \in Rows : row_To_QR_T'[x] = row_To_QR_T[x] \/ x = b
      BY <1>6, <2>2, DrainStep DEF WInv
    <3>3. ~overrun' => TailBehind(recent', p, QRTail_ID')
      <4>1. CASE t # p /\ b # None
        <5>1. QRTail_ID' = NextID(t)
          BY <3>1, <4>1
        <5>2. fresh => TailBehind(used, p, NextID(t))
          BY <1>7, <1>8, <4>1, TailDrain
        <5> QED
          BY <2>1, <5>1, <5>2
      <4>2. CASE ~(t # p /\ b # None)
        <5>1. QRTail_ID' = t
          BY <3>1, <4>2
        <5> QED
          BY <1>7, <2>1, <5>1
      <4> QED
        BY <4>1, <4>2
    <3>4. ASSUME ~overrun', NEW r \in rows
          PROVE  row_To_QR_T'[r] \in used
      <4>1. row_To_QR_T[r] \in used /\ TailBehind(used, p, t) /\ r \in Rows
        BY <1>7, <2>1, <3>4 DEF Kept
      <4>2. CASE t # p /\ b # None
        <5>1. t \notin used
          BY <4>1, <4>2 DEF TailBehind
        <5>2. r # b
          BY <1>8, <4>1, <5>1 DEF TablesInverse
        <5> QED
          BY <3>2, <4>1, <5>2
      <4>3. CASE ~(t # p /\ b # None)
        <5>1. row_To_QR_T' = row_To_QR_T
          BY <3>1, <4>3
        <5> QED
          BY <4>1, <5>1
      <4> QED
        BY <4>2, <4>3
    <3> HIDE DEF b
    <3>5. ~overrun' => Kept(row_To_QR_T', flagged' \ selfEvicted', recent')
      BY <2>1, <3>4 DEF Kept
    <3>6. recent' \subseteq QRIds /\ RingUsed(recent', prevQRHead_ID', nextFreeQR_ID')
      BY <1>7, <2>1, <3>1
    <3> QED
      BY <1>9, <1>10, <3>1, <3>3, <3>5, <3>6 DEF WInv
  <2>3. CASE AccessOnly(row, elapsed)
    <3>1. /\ prevQRHead_ID' = p /\ nextFreeQR_ID' = h /\ QRTail_ID' = t
          /\ row_To_QR_T' = row_To_QR_T
      BY <1>4, <1>5, <1>6, <2>3 DEF AccessOnly, tables
    <3> QED
      BY <1>7, <1>9, <1>10, <2>1, <3>1 DEF WInv
  <2> QED
    BY <1>10, <1>12, <2>2, <2>3 DEF Access
<1> QED
  BY <1>11, <1>12

(* The invariant holds always. *)
LEMMA WInvCorrect == WSpec => []WInv
<1>1. WInv /\ UNCHANGED <<vars, history>> => WInv'
  <2> SUFFICES ASSUME WInv, UNCHANGED <<vars, history>> PROVE WInv'
    OBVIOUS
  <2>1. RQInv'
    BY UnchangedInv DEF WInv
  <2>2. /\ UNCHANGED <<recent, flagged, selfEvicted, overrun>>
        /\ UNCHANGED <<prevQRHead_ID, nextFreeQR_ID, QRTail_ID, row_To_QR_T>>
    BY DEF vars, ring, tables, history
  <2> QED
    BY <2>1, <2>2 DEF WInv
<1>2. WInv /\ [WNext]_<<vars, history>> => WInv'
  BY <1>1, WStep DEF WNext
<1> QED
  BY <1>2, WInitInv, PTL DEF WSpec

(* A flagged row stays quarantined until the window ends, and the ring is  *)
(* used in order: removeRow and drainRow send no row of this window home   *)
(* before all slots have been written in it.                               *)
THEOREM RowsStayQuarantined == WSpec => []QuarantineLasts
<1>1. WInv => QuarantineLasts
  <2> SUFFICES ASSUME WInv PROVE QuarantineLasts
    OBVIOUS
  <2>1. ~overrun => \A r \in flagged \ selfEvicted : row_To_QR_T[r] \in recent
    BY DEF WInv, Kept
  <2>2. ASSUME nextFreeQR_ID \in recent PROVE recent = QRIds
    <3>1. nextFreeQR_ID \in QRIds /\ prevQRHead_ID \in QRIds
      BY DEF WInv, RQInv, TypeOK
    <3>2. ~(Ahead(prevQRHead_ID, nextFreeQR_ID) < Ahead(prevQRHead_ID, nextFreeQR_ID))
      BY <3>1, RQAssumption, OneFurther
    <3> QED
      BY <2>2, <3>2 DEF WInv, RingUsed
  <2> QED
    BY <2>1, <2>2 DEF QuarantineLasts
<1> QED
  BY <1>1, WInvCorrect, PTL
=============================================================================
