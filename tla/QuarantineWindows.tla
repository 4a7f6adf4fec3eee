------------------------- MODULE QuarantineWindows -------------------------
(***************************************************************************)
(* RowQuarantine with a record of what happened in the current 64 ms       *)
(* window, to say what the ring promises for the rest of the window.  The  *)
(* variables added here are history: no code reads or writes them.         *)
(***************************************************************************)
EXTENDS RowQuarantine

VARIABLES
    recent,       \* slots written in this window
    flagged,      \* rows flagged in this window
    selfEvicted,  \* those of them that were in the slot they were moved to
    overrun       \* has a slot been written twice in this window?

history == <<recent, flagged, selfEvicted, overrun>>

WInit ==
    /\ Init
    /\ recent = {} /\ flagged = {} /\ selfEvicted = {} /\ overrun = FALSE

WAccess(row, mitigate, elapsed) ==
    LET old(S) == IF elapsed THEN {} ELSE S
        put(S, x) == IF mitigate THEN S \cup {x} ELSE S
    IN  /\ Access(row, mitigate, elapsed)
        /\ recent' = put(old(recent), nextFreeQR_ID)
        /\ flagged' = put(old(flagged), row)
        /\ selfEvicted' = IF mitigate /\ Occupant = row
                          THEN old(selfEvicted) \cup {row}
                          ELSE old(selfEvicted) \ (IF mitigate THEN {row} ELSE {})
        /\ overrun' = /\ ~elapsed
                      /\ overrun \/ (mitigate /\ nextFreeQR_ID \in recent)

WNext == \E row \in Rows, mitigate, elapsed \in BOOLEAN :
            WAccess(row, mitigate, elapsed)

WSpec == WInit /\ [][WNext]_<<vars, history>>

(* A flagged row stays quarantined, in a slot of this window, until the    *)
(* window ends: neither a later quarantine nor a drain sends it home, as   *)
(* long as the region is not used up and the row was not moved to the slot *)
(* it already held.  And the ring is used in order: the head comes back to *)
(* a slot of this window only after the whole region has been used in it.  *)
QuarantineLasts ==
    /\ ~overrun => \A r \in flagged \ selfEvicted : row_To_QR_T[r] \in recent
    /\ nextFreeQR_ID \in recent => recent = QRIds
=============================================================================
