----------------------------- MODULE GuardedTable -----------------------------
(***************************************************************************)
(* What an inventory table of the database promises its readers, whichever *)
(* vendor's collector fills it: its rows for an array change only by a     *)
(* replacement with a set that is not a collapse of the one it replaces.   *)
(* A table that may also be emptied in one step, and one nobody guards,    *)
(* say so in `erasable' and `guarded'.                                     *)
(***************************************************************************)
EXTENDS Naturals, FiniteSets

CONSTANTS
    RatioNum, RatioDen,   \* a replacement keeps RatioNum/RatioDen of the rows
    Names                 \* the names a row may have

VARIABLES
    rows,      \* the names stored for the array
    guarded,   \* whether a collapse is refused; never changes
    erasable   \* whether the table may be emptied in one step; never changes

Collapse(old, new) ==
    /\ old # {}
    /\ Cardinality(new) * RatioDen < Cardinality(old) * RatioNum

vars == <<rows, guarded, erasable>>

Init ==
    /\ rows = {}
    /\ guarded \in BOOLEAN
    /\ erasable \in BOOLEAN

Replace ==
    /\ rows' \in SUBSET Names
    /\ rows' # {}
    /\ guarded => ~Collapse(rows, rows')
    /\ UNCHANGED <<guarded, erasable>>

Erase ==
    /\ erasable
    /\ rows' = {}
    /\ UNCHANGED <<guarded, erasable>>

Next == Replace \/ Erase

Spec == Init /\ [][Next]_vars
=============================================================================
