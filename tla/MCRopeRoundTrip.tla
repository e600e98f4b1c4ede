--------------------------- MODULE MCRopeRoundTrip ---------------------------
(***************************************************************************)
(* The round-trip law of the spec (sec. 8) on the skip list.  Besides the  *)
(* call history of MCRopeRefines, pre holds the observable counters of the *)
(* state before the last call, so that a step can compare its result with  *)
(* the state before the previous call.                                     *)
(***************************************************************************)
EXTENDS MCRopeRefines

VARIABLE pre

Counters == [len |-> len, count |-> Count(St), lastId |-> lastId]

TripInit == CallInit /\ pre = Counters
TripNext == CallNext /\ pre' = Counters
TripSpec == TripInit /\ [][TripNext]_<<vars, call, pre>>

\* The step is Delete(A, N) right after a successful Insert(A, N, L).
UndoesInsert ==
    /\ call[1] = "Splice" /\ call[4] # NoId /\ call[3] = NoId /\ result = "ok"
    /\ call' = <<"Splice", call[2], call[4], NoId, 0>>

(* Inserting N of length L after A and then at once calling Delete(A, N)   *)
(* restores Len(), Count() and LastId() to their values before the insert, *)
(* and the delete returns exactly the record (N, L).  lastId is what is at *)
(* stake: the insert may have made N the last entry, and the delete must   *)
(* give the anchor back that role (the repair after the delete loop).      *)
InsertDeleteRoundTrip ==
    [][UndoesInsert =>
         /\ Counters' = pre
         /\ removed' = <<[Id |-> call[4], Len |-> call[5]]>>]_<<vars, call, pre>>
=============================================================================
