---------------------------- MODULE RowIsolation ----------------------------
(***************************************************************************)
(* What a mitigation that moves rows promises, whatever tables it keeps    *)
(* (module Aqua implements it).  Every row has a place of its own.  An     *)
(* access that would be the threshold-th of its row at one place in one    *)
(* window moves the row; any other row that moves on the occasion is one   *)
(* row, and it goes home.                                                  *)
(***************************************************************************)
EXTENDS Integers, FiniteSets

CONSTANTS Rows, Places, Home, threshold

VARIABLES
    place,    \* [Rows -> Places \cup {Home}]: Home is the row's own place
    here      \* [Rows -> Nat]: accesses in this window at this place

Apart(p) == \A r, s \in Rows : p[r] = p[s] /\ p[r] # Home => r = s

Init ==
    /\ place = [r \in Rows |-> Home]
    /\ here = [r \in Rows |-> 0]

(* The places after an access of row r; at most one other row makes way. *)
Moves(r, p) ==
    /\ p \in [Rows -> Places \cup {Home}]
    /\ Apart(p)
    /\ LET others == {x \in Rows \ {r} : p[x] # place[x]}
       IN  Cardinality(others) <= 1 /\ \A x \in others : p[x] = Home

(* elapsed: the access is the first one of a window. *)
Access(r, elapsed) ==
    /\ Moves(r, place')
    /\ here' = [x \in Rows |->
          IF place'[x] # place[x] THEN 0
          ELSE (IF elapsed THEN 0 ELSE here[x]) + (IF x = r THEN 1 ELSE 0)]
    /\ here'[r] < threshold

Next == \E r \in Rows, elapsed \in BOOLEAN : Access(r, elapsed)

Spec == Init /\ [][Next]_<<place, here>>
=============================================================================
