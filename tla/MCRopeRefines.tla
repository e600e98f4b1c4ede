---------------------------- MODULE MCRopeRefines ----------------------------
(***************************************************************************)
(* Rope checked against RopeSeq.  The history variable call records each  *)
(* call with its arguments, so that every step of the skip list must be   *)
(* the step RopeSeq allows for the same call, not merely some step of it.  *)
(***************************************************************************)
EXTENDS MCRope

VARIABLE call

CallInit == Init /\ call = <<"New">>

CallNext ==
    \/ \E x \in Ids, d \in Ids \cup {NoId} :
          Splice(x, d, NoId, 0) /\ call' = <<"Splice", x, d, NoId, 0>>
    \/ \E x \in Ids, d \in Ids \cup {NoId}, n \in Ids, l \in Lens :
          Splice(x, d, n, l) /\ call' = <<"Splice", x, d, n, l>>
    \/ \E it \in Iters, x \in Ids : IterStart(it, x) /\ call' = <<"Iter", it, x>>
    \/ \E it \in Iters, y \in BOOLEAN : IterResume(it, y) /\ call' = <<"Yield", it, y>>

CallSpec == CallInit /\ [][CallNext]_<<vars, call>>

(* The refinement mapping: the sequence is the ids of the level-0 order    *)
(* after the head, and an iterator's cursor is the id of the node that its *)
(* parked node's iterRef points to.                                        *)
AbsSeq == LET O == Order(St) IN [k \in 1 .. Len(O) - 1 |-> id[O[k + 1]]]
AbsLen == [x \in Ids |-> IF x # Zero /\ byId[x] # Nil THEN dlLen[byId[x]] ELSE 0]
AbsCursor == [it \in Iters |-> IF ist[it] = "paused" THEN id[iterRef[iat[it]].node]
                               ELSE NoId]

Abs == INSTANCE RopeSeq WITH seq <- AbsSeq, lenOf <- AbsLen, cursor <- AbsCursor

(* Every call on the skip list does what the same call does on a plain     *)
(* sequence: Splice deletes and inserts the same entries with the same    *)
(* lengths and reports the same error, and an iterator yields the entry    *)
(* after its cursor, the last yielded entry or its nearest surviving      *)
(* predecessor.                                                            *)
AbsSpec == Abs!Spec
=============================================================================
