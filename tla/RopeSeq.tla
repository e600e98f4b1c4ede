------------------------------ MODULE RopeSeq ------------------------------
(***************************************************************************)
(* What a Rope promises, with no skip list: a sequence of entries after   *)
(* the zero entry, each with a length, mutated by Splice, and iterators    *)
(* whose cursor is the entry last yielded, or, once that entry is deleted, *)
(* its nearest surviving predecessor (spec, secs. 4.3 and 4.6; the doc     *)
(* comments of Rope.Splice and Rope.Iter in src/rope/types.go).           *)
(***************************************************************************)
EXTENDS Integers, Sequences

CONSTANTS Ids, Zero, NoId, Lens, Iters

VARIABLES
    seq,     \* the ids after the zero entry, in order
    lenOf,   \* the length of each live id, 0 for the others
    cursor,  \* per iterator: where it resumes from, NoId when not paused
    result,  \* the error of the last Splice
    removed, \* the entries it deleted, in order, as [Id, Len] records
    call     \* the last call and its arguments

vars == <<seq, lenOf, cursor, result, removed, call>>

Present(x) == x = Zero \/ \E k \in 1 .. Len(seq) : seq[k] = x

\* The position of a present id; the zero entry is at 0.
Pos(x) == IF x = Zero THEN 0 ELSE CHOOSE k \in 1 .. Len(seq) : seq[k] = x

\* The id following a present id, NoId at the end.
Succ(x) == IF Pos(x) < Len(seq) THEN seq[Pos(x) + 1] ELSE NoId

Init ==
    /\ seq = <<>>
    /\ lenOf = [x \in Ids |-> 0]
    /\ cursor = [it \in Iters |-> NoId]
    /\ result = "ok"
    /\ removed = <<>>
    /\ call = <<"New">>

\* Errors are detected before anything changes.
SpliceError(afterId, insertId, length) ==
    IF ~Present(afterId) THEN "BadAnchor"
    ELSE IF insertId # NoId /\ Present(insertId) THEN "IdExists"
    ELSE IF insertId # NoId /\ length < 0 THEN "NegativeLength"
    ELSE "ok"

(* Delete the run after the anchor through deleteUntilId (to the end if    *)
(* it does not follow), unless it names the anchor; then insert after the *)
(* anchor.  Cursors on deleted entries move to the anchor.  The deleted    *)
(* entries are returned in order, for undo.                                *)
Splice(afterId, deleteUntilId, insertId, length) ==
    /\ call' = <<"Splice", afterId, deleteUntilId, insertId, length>>
    /\ result' = SpliceError(afterId, insertId, length)
    /\ IF result' # "ok"
         THEN /\ removed' = <<>>
              /\ UNCHANGED <<seq, lenOf, cursor>>
         ELSE LET k == Pos(afterId)
                  doDelete == deleteUntilId # NoId /\ deleteUntilId # afterId
                  found == {j \in k + 1 .. Len(seq) : seq[j] = deleteUntilId}
                  stop == IF ~doDelete THEN k
                          ELSE IF found = {} THEN Len(seq)
                          ELSE CHOOSE j \in found : TRUE
                  gone == {seq[j] : j \in k + 1 .. stop}
                  ins == IF insertId = NoId THEN <<>> ELSE <<insertId>>
              IN /\ seq' = SubSeq(seq, 1, k) \o ins \o SubSeq(seq, stop + 1, Len(seq))
                 /\ removed' = [j \in 1 .. stop - k |->
                                  [Id |-> seq[k + j], Len |-> lenOf[seq[k + j]]]]
                 /\ lenOf' = [x \in Ids |-> IF x = insertId THEN length
                                            ELSE IF x \in gone THEN 0
                                            ELSE lenOf[x]]
                 /\ cursor' = [it \in Iters |-> IF cursor[it] \in gone THEN afterId
                                                ELSE cursor[it]]

\* The first pull of Iter(afterId) yields the successor of afterId.
IterStart(it, afterId) ==
    /\ cursor[it] = NoId
    /\ Present(afterId)
    /\ cursor' = [cursor EXCEPT ![it] = Succ(afterId)]
    /\ call' = <<"Iter", it, afterId>>
    /\ UNCHANGED <<seq, lenOf, result, removed>>

\* A resumed iterator yields the successor of its cursor, or stops.
IterResume(it, shouldContinue) ==
    /\ cursor[it] # NoId
    /\ cursor' = [cursor EXCEPT ![it] = IF shouldContinue THEN Succ(cursor[it]) ELSE NoId]
    /\ call' = <<"Yield", it, shouldContinue>>
    /\ UNCHANGED <<seq, lenOf, result, removed>>

Next ==
    \/ \E a \in Ids, d \in Ids \cup {NoId} : Splice(a, d, NoId, 0)
    \/ \E a \in Ids, d \in Ids \cup {NoId}, n \in Ids, l \in Lens : Splice(a, d, n, l)
    \/ \E it \in Iters, a \in Ids : IterStart(it, a)
    \/ \E it \in Iters, c \in BOOLEAN : IterResume(it, c)

Spec == Init /\ [][Next]_vars

=============================================================================
