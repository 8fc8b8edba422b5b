------------------------------ MODULE ReviewCell ------------------------------
(***************************************************************************)
(* What a review item promises to whoever remembers its version: whatever  *)
(* happens to it moves the version by one, an applied item stays applied   *)
(* or is superseded, and a superseded item is never revived. A proposal    *)
(* that finds the version it was created from has the item it was created  *)
(* from.                                                                   *)
(***************************************************************************)
EXTENDS Naturals

CONSTANT Reviews

VARIABLES rstate, rversion

cellVars == <<rstate, rversion>>

\* open: a proposal may complete it; closed: no proposal may (yet, or any more).
Moves ==
    [open |-> {"open", "closed", "applied", "superseded"},
     closed |-> {"open", "closed", "applied", "superseded"},
     applied |-> {"applied", "superseded"},
     superseded |-> {"superseded"}]

Init ==
    /\ rstate = [r \in Reviews |-> "closed"]
    /\ rversion = [r \in Reviews |-> 0]

Kept(r) == rstate'[r] = rstate[r] /\ rversion'[r] = rversion[r]

Moved(r) == rstate'[r] \in Moves[rstate[r]] /\ rversion'[r] = rversion[r] + 1

\* A publication may replace one item by another, so several move together.
Next ==
    /\ DOMAIN rstate' = Reviews /\ DOMAIN rversion' = Reviews
    /\ \A r \in Reviews : Kept(r) \/ Moved(r)

Spec == Init /\ [][Next]_cellVars
==============================================================================
