-------------------------- MODULE MCBlockingQueue --------------------------
(* Three threads around a queue of two places: two sleepers on one          *)
(* condition variable, and a third thread to notify them, after which one   *)
(* of them, or the third again, takes the mutex first.                      *)
EXTENDS BlockingQueue

=============================================================================
