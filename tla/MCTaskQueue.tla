---------------------------- MODULE MCTaskQueue ----------------------------
(* A ring of three slots: the writer meets a full ring and the reader an   *)
(* empty one, each both before and under the lock.                         *)
EXTENDS TaskQueue

VARIABLE heard  \* chosen at the start: whether notifications never miss

MCInit == TQInit /\ heard \in BOOLEAN
MCNext == TQNext /\ (heard => ~ MissesReader /\ ~ MissesWriter) /\ UNCHANGED heard
MCSpec == MCInit /\ [][MCNext]_<<tqVars, heard>> /\ Fairness

\* neither side ever misses a notification
Heard == <>[]heard

(* Missed notifications are the only thing that can keep a task in the      *)
(* queue: if none is missed, tasks are taken while there are any, also when *)
(* no other follows.                                                        *)
TaskTakenIfHeard == Heard => TaskTaken

(* Likewise they are the only thing that can hold up the event loop, which  *)
(* serves every client, in write() for ever.                                *)
WriteReturnsIfHeard == Heard => WriteReturns

=============================================================================
