---------------------------- MODULE MCSpscQueue ----------------------------
(* A ring of four slots, so of capacity three, carrying two kinds of item: *)
(* the smallest ring in which the indices wrap while both views lag.       *)
EXTENDS SpscQueue

============================================================================
