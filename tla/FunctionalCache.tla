-------------------------- MODULE FunctionalCache --------------------------
(***************************************************************************)
(* The set-associative cache of quarantine-table entries: class            *)
(* Functional_Cache of gem5/src/mem/rowhammer_mitigation.cc.  It holds row *)
(* numbers only (the tag is the whole row number); replacement is by       *)
(* re-reference counters.  The operators are pure: `c' is the cache before *)
(* the call, the result is the cache after it.                             *)
(***************************************************************************)
EXTENDS Integers, FiniteSets, FiniteSetsExt

CONSTANTS
    m_sets, m_ways,
    RowsPerLine,            \* rows whose table entries share a line: 1 << m_blk_offset
    partial_lookup_factor   \* rows per group (rows_per_btv_bit)

ASSUME CacheAssumption ==
    /\ {m_sets, m_ways, RowsPerLine, partial_lookup_factor} \subseteq Nat \ {0}

Sets == 0 .. m_sets - 1
Ways == 0 .. m_ways - 1
MaxRrip == 3

FuncCacheBlock == [valid : BOOLEAN, tag : Nat, dirty : BOOLEAN, rrip : 0 .. MaxRrip]
CacheType == [Sets -> [Ways -> FuncCacheBlock]]

NoBlock == [valid |-> FALSE, tag |-> 0, dirty |-> FALSE, rrip |-> 0]
EmptyCache == [s \in Sets |-> [w \in Ways |-> NoBlock]]

SetOf(addr) == (addr \div RowsPerLine) % m_sets

(* The first way of a set of ways, or m_ways: how the code's loops report  *)
(* that there is none.                                                     *)
FirstWay(S) == IF S = {} THEN m_ways ELSE Min(S)

Lookup(c, addr) ==
    FirstWay({w \in Ways : LET k == c[SetOf(addr)][w] IN k.valid /\ k.tag = addr})

PartialLookup(c, addr) ==
    FirstWay({w \in Ways : LET k == c[SetOf(addr)][w]
                           IN  /\ k.valid
                               /\ k.tag \div partial_lookup_factor
                                    = addr \div partial_lookup_factor})

(* What either lookup does to the block it found. *)
Touch(c, addr, way) == [c EXCEPT ![SetOf(addr)][way].rrip = MaxRrip]

Invalidate(c, addr, way) == [c EXCEPT ![SetOf(addr)][way] = NoBlock]

Fill(c, addr, way, isDirty) ==
    [c EXCEPT ![SetOf(addr)][way] =
        [valid |-> TRUE, tag |-> addr, dirty |-> isDirty, rrip |-> 1]]

SetDirtyBit(c, addr, way) == [c EXCEPT ![SetOf(addr)][way].dirty = TRUE]

InvalidWays(c, addr) == {w \in Ways : ~c[SetOf(addr)][w].valid}

(* With no invalid way, the counters of the set are decremented together   *)
(* until one is at zero.                                                   *)
Age(c, addr) == IF InvalidWays(c, addr) # {} THEN 0
                ELSE Min({c[SetOf(addr)][w].rrip : w \in Ways})

Aged(c, addr) ==
    LET s == SetOf(addr)
        age == Age(c, addr)
    IN  [c EXCEPT ![s] =
            [w \in Ways |-> LET k == c[s][w] IN [k EXCEPT !.rrip = k.rrip - age]]]

Find_Victim(c, addr) ==
    LET age == Age(c, addr)
    IN  IF InvalidWays(c, addr) # {} THEN Min(InvalidWays(c, addr))
        ELSE Min({w \in Ways : c[SetOf(addr)][w].rrip = age})
=============================================================================
