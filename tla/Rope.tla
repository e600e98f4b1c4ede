-------------------------------- MODULE Rope --------------------------------
(***************************************************************************)
(* The skip list of package rope (src/unnamed/part_000, src/rope/types.go, *)
(* src/rope/util.go), modelled at the level of its node objects: every     *)
(* ropeNode is a model value of Nodes, its fields are functions over Nodes *)
(* and every pointer is a node or Nil.  The ropeImpl fields are variables  *)
(* of the same names.  Splice, the iterator steps and the queries are      *)
(* translated from the Go code; a whole call is one atomic step, since the *)
(* Rope is single-threaded and none of its calls suspends (spec, sec. 5).  *)
(*                                                                         *)
(* Node identity is kept because nodes are recycled through nodePool:     *)
(* a node returned to the pool and handed out again by an insert is the   *)
(* same object that a paused iterator may still point to.  Go's garbage   *)
(* collector is modelled by Collect, run at the end of every Splice: a    *)
(* node that nothing references any more is reset.  An allocation takes   *)
(* only unreferenced nodes whether or not they were collected yet.        *)
(***************************************************************************)
EXTENDS Integers, Sequences, FiniteSets, FiniteSetsExt, Functions

CONSTANTS
    Ids,        \* the identifiers a caller may use, Zero included
    Zero,       \* the zero Id: the head's id, always present
    NoId,       \* a nil *Id argument of Splice
    Nodes,      \* the node objects the heap can hold, HeadNode included
    HeadNode,   \* &r.head
    Nil,        \* a nil *ropeNode
    Lens,       \* the lengths a payload's Len() may report
    MaxHeight,  \* the cap of randomHeight (maxHeight = 32 in the code)
    PoolSize,   \* the capacity of nodePool (poolSize = 8 in the code)
    Iters       \* the iterators a caller may run at once

ASSUME /\ Zero \in Ids /\ NoId \notin Ids
       /\ HeadNode \in Nodes /\ Nil \notin Nodes
       /\ MaxHeight \in Nat \ {0} /\ PoolSize \in Nat

VARIABLES
    id,         \* ropeNode.id
    dlLen,      \* ropeNode.dl.Len (the payload itself is abstracted away)
    levels,     \* ropeNode.levels: a sequence of [next, prev, subtreesize]
    iterRef,    \* ropeNode.iterRef: NoRef for nil, else [count, node]
    byId,       \* ropeImpl.byId: Id -> node, Nil where absent
    len,        \* ropeImpl.len
    height,     \* ropeImpl.height
    nodePool,   \* ropeImpl.nodePool, a stack
    lastId,     \* ropeImpl.lastId
    ist,        \* per iterator: "idle", or "paused" inside yield
    iat,        \* per iterator: the node e it is paused on
    result,     \* the error returned by the last Splice ("ok" for nil)
    removed     \* the []Removed it returned, as [Id, Len] records

ropeVars == <<id, dlLen, levels, iterRef, byId, len, height, nodePool, lastId>>
vars == <<ropeVars, ist, iat, result, removed>>

Errors == {"ok", "BadAnchor", "IdExists", "NegativeLength"}

\* The zero value of ropeLevel and a nil iterRef.
ZeroLevel == [next |-> Nil, prev |-> Nil, subtreesize |-> 0]
NoRef == [count |-> 0, node |-> Nil]

-----------------------------------------------------------------------------
(* The state as one record, so that a call can be computed step by step;  *)
(* removed collects what the call being computed deletes.                  *)
St == [id |-> id, dlLen |-> dlLen, levels |-> levels, iterRef |-> iterRef,
       byId |-> byId, len |-> len, height |-> height, nodePool |-> nodePool,
       lastId |-> lastId, ist |-> ist, iat |-> iat, removed |-> <<>>]

Commit(s) ==
    /\ id' = s.id /\ dlLen' = s.dlLen /\ levels' = s.levels
    /\ iterRef' = s.iterRef /\ byId' = s.byId /\ len' = s.len
    /\ height' = s.height /\ nodePool' = s.nodePool /\ lastId' = s.lastId
    /\ ist' = s.ist /\ iat' = s.iat

\* node.levels[k], with the code's 0-based level index.
Lvl(s, n, k) == s.levels[n][k + 1]

Fuel == Cardinality(Nodes)
IfMax(a, b) == IF a >= b THEN a ELSE b

(* Nodes still referenced from a root: the head, the pool, the nodes the   *)
(* paused iterators hold, and whatever their links and iterRefs point to. *)
RECURSIVE Closure(_, _)
Closure(s, R) ==
    LET Out(n) == {Lvl(s, n, k).next : k \in 0 .. Len(s.levels[n]) - 1}
                  \cup {Lvl(s, n, k).prev : k \in 0 .. Len(s.levels[n]) - 1}
                  \cup {s.iterRef[n].node}
        R2 == R \cup ((UNION {Out(n) : n \in R}) \ {Nil})
    IN IF R2 = R THEN R ELSE Closure(s, R2)

Reachable(s) ==
    Closure(s, {HeadNode} \cup Range(s.nodePool)
                      \cup {s.iat[it] : it \in {i \in Iters : s.ist[i] = "paused"}})

\* Go's garbage collector: unreachable nodes return to the free state.
Collect(s) ==
    LET R == Reachable(s) IN
    [s EXCEPT !.id = [n \in Nodes |-> IF n \in R THEN @[n] ELSE Zero],
              !.dlLen = [n \in Nodes |-> IF n \in R THEN @[n] ELSE 0],
              !.levels = [n \in Nodes |-> IF n \in R THEN @[n] ELSE <<>>],
              !.iterRef = [n \in Nodes |-> IF n \in R THEN @[n] ELSE NoRef]]

-----------------------------------------------------------------------------
Init ==   \* NewRoot / New
    /\ id = [n \in Nodes |-> Zero]
    /\ dlLen = [n \in Nodes |-> 0]
    /\ levels = [n \in Nodes |-> IF n = HeadNode
                                   THEN <<[ZeroLevel EXCEPT !.prev = HeadNode]>>
                                   ELSE <<>>]
    /\ iterRef = [n \in Nodes |-> NoRef]
    /\ byId = [x \in Ids |-> IF x = Zero THEN HeadNode ELSE Nil]
    /\ len = 0
    /\ height = 1
    /\ nodePool = <<>>
    /\ lastId = Zero
    /\ ist = [it \in Iters |-> "idle"]
    /\ iat = [it \in Iters |-> Nil]
    /\ result = "ok"
    /\ removed = <<>>

-----------------------------------------------------------------------------
(* Seek phase of splice: climb from the anchor along the top link of each  *)
(* node, recording for every level the last node at or before the anchor  *)
(* that has that level, and the length from that node through the anchor. *)
RECURSIVE SeekFrom(_, _, _, _, _)
SeekFrom(s, cseek, i, seek, fuel) ==
    LET nl == Len(s.levels[cseek.node])
        seek2 == [j \in 0 .. s.height - 1 |->
                    IF i <= j /\ j < nl THEN cseek ELSE seek[j]]
        i2 == IfMax(i, nl)
    IN IF cseek.node = HeadNode \/ i2 = s.height \/ fuel = 0
         THEN [seek |-> seek2, cseek |-> cseek]
         ELSE LET link == i2 - 1
                  p == Lvl(s, cseek.node, link).prev
              IN SeekFrom(s, [node |-> p, sub |-> cseek.sub + Lvl(s, p, link).subtreesize],
                          i2, seek2, fuel - 1)

Seek(s, after) ==
    SeekFrom(s, [node |-> after, sub |-> s.dlLen[after]], 0,
             [j \in 0 .. s.height - 1 |-> [node |-> Nil, sub |-> 0]], Fuel)

\* Mutant: returnToPool without the pool-capacity check.
ReturnToPoolNoCap(s, e) ==
    IF s.iterRef[e] # NoRef
      THEN s
      ELSE [s EXCEPT !.levels[e] = [k \in DOMAIN @ |-> ZeroLevel],
                     !.dlLen[e] = 0, !.id[e] = Zero, !.nodePool = Append(@, e)]

\* returnToPool: a node is recycled unless the pool is full or an iterator
\* is parked on it; recycling clears its levels, length and id.
ReturnToPool(s, e) ==
    IF Len(s.nodePool) = PoolSize \/ s.iterRef[e] # NoRef
      THEN s
      ELSE [s EXCEPT !.levels[e] = [k \in DOMAIN @ |-> ZeroLevel],
                     !.dlLen[e] = 0,
                     !.id[e] = Zero,
                     !.nodePool = Append(@, e)]

\* Mutant: the levels above the deleted node's height keep its length.
UnlinkLevelsNoShrink(s, seek, e) ==
    LET eh == Len(s.levels[e])
        Upd(n, j) ==
            LET l == Lvl(s, n, j) IN
            IF j < eh /\ n = seek[j].node
              THEN [l EXCEPT !.subtreesize = @ + Lvl(s, e, j).subtreesize - s.dlLen[e],
                             !.next = Lvl(s, e, j).next]
            ELSE IF j < eh /\ n = Lvl(s, e, j).next
              THEN [l EXCEPT !.prev = seek[j].node]
            ELSE l
    IN [s EXCEPT !.levels = [n \in Nodes |-> [k \in DOMAIN s.levels[n] |-> Upd(n, k - 1)]]]

\* Mutant: the successor's back link is not moved to the seek node.
UnlinkLevelsNoBacklink(s, seek, e) ==
    LET eh == Len(s.levels[e])
        Upd(n, j) ==
            LET l == Lvl(s, n, j) IN
            IF j < s.height /\ n = seek[j].node
              THEN IF j >= eh
                     THEN [l EXCEPT !.subtreesize = @ - s.dlLen[e]]
                     ELSE [l EXCEPT !.subtreesize = @ + Lvl(s, e, j).subtreesize - s.dlLen[e],
                                    !.next = Lvl(s, e, j).next]
            ELSE l
    IN [s EXCEPT !.levels = [n \in Nodes |-> [k \in DOMAIN s.levels[n] |-> Upd(n, k - 1)]]]

\* The per-level unlink of a deleted node e from the seek nodes.
UnlinkLevels(s, seek, e) ==
    LET eh == Len(s.levels[e])
        Upd(n, j) ==
            LET l == Lvl(s, n, j) IN
            IF j < s.height /\ n = seek[j].node
              THEN IF j >= eh
                     THEN [l EXCEPT !.subtreesize = @ - s.dlLen[e]]
                     ELSE [l EXCEPT !.subtreesize = @ + Lvl(s, e, j).subtreesize - s.dlLen[e],
                                    !.next = Lvl(s, e, j).next]
            ELSE IF j < eh /\ n = Lvl(s, e, j).next
              THEN [l EXCEPT !.prev = seek[j].node]
            ELSE l
    IN [s EXCEPT !.levels = [n \in Nodes |-> [k \in DOMAIN s.levels[n] |-> Upd(n, k - 1)]]]

\* The Removed record of a deleted node, without its Data.
RemovedOf(s, e) == [Id |-> s.id[e], Len |-> s.dlLen[e]]

\* One iteration of the delete loop, for the anchor's successor e.
DeleteOne(s, seek, e) ==
    LET s1 == [s EXCEPT !.iterRef[e] = IF @ # NoRef
                                        THEN [@ EXCEPT !.node = Lvl(s, e, 0).prev]
                                        ELSE @,
                        !.byId[s.id[e]] = Nil,
                        !.len = @ - s.dlLen[e],
                        !.removed = Append(@, RemovedOf(s, e))]
    IN ReturnToPool(UnlinkLevels(s1, seek, e), e)

\* Mutant: the delete loop stops before, not after, the deleteUntil entry.
RECURSIVE DeleteRunStopEarly(_, _, _, _, _)
DeleteRunStopEarly(s, after, seek, deleteUntil, fuel) ==
    LET e == Lvl(s, after, 0).next IN
    IF e = Nil THEN [s EXCEPT !.lastId = s.id[after]]
    ELSE IF s.id[e] = deleteUntil \/ fuel = 0 THEN s
    ELSE DeleteRunStopEarly(DeleteOne(s, seek, e), after, seek, deleteUntil, fuel - 1)

RECURSIVE DeleteRun(_, _, _, _, _)
DeleteRun(s, after, seek, deleteUntil, fuel) ==
    LET e == Lvl(s, after, 0).next IN
    IF e = Nil
      THEN [s EXCEPT !.lastId = s.id[after]]
      ELSE LET s1 == DeleteOne(s, seek, e) IN
           IF s.id[e] = deleteUntil \/ fuel = 0
             THEN s1
             ELSE DeleteRun(s1, after, seek, deleteUntil, fuel - 1)

\* Mutant: no repair of a lastId the loop deleted.
DeletePhaseNoRepair(s, after, seek, deleteUntil) ==
    DeleteRun(s, after, seek, deleteUntil, Fuel)

DeletePhase(s, after, seek, deleteUntil) ==
    LET s1 == DeleteRun(s, after, seek, deleteUntil, Fuel) IN
    IF s1.byId[s1.lastId] = Nil THEN [s1 EXCEPT !.lastId = s1.id[after]] ELSE s1

-----------------------------------------------------------------------------
(* Insert phase.                                                           *)
\* The climb from where the seek stopped up to the head, along one link.
RECURSIVE WalkToHead(_, _, _, _)
WalkToHead(s, cseek, link, fuel) ==
    IF cseek.node = HeadNode \/ fuel = 0 THEN cseek
    ELSE LET p == Lvl(s, cseek.node, link).prev IN
         WalkToHead(s, [node |-> p, sub |-> cseek.sub + Lvl(s, p, link).subtreesize],
                    link, fuel - 1)

\* The node an insert obtains: the top of the pool, else a free node
\* (Nil when the model's heap is exhausted).
FreeNodes(s) == (Nodes \ {HeadNode}) \ Reachable(s)
NewNode(s) ==
    IF Len(s.nodePool) > 0 THEN s.nodePool[Len(s.nodePool)]
    ELSE IF FreeNodes(s) = {} THEN Nil ELSE CHOOSE n \in FreeNodes(s) : TRUE

\* lastId after an insert of insertId after the anchor.
InsertLastId(s, after, insertId, length) ==
    IF after = HeadNode
      THEN IF s.len + length = length THEN insertId ELSE s.lastId
      ELSE IF s.lastId = s.id[after] THEN insertId ELSE s.lastId

InsertPhase(s, after, sk, insertId, length, h, newNode) ==
    LET old == s.height
        seek == sk.seek
        top == WalkToHead(s, sk.cseek, Len(s.levels[sk.cseek.node]) - 1, Fuel)
        NewLevel(i) ==
            IF i < old
              THEN [next |-> Lvl(s, seek[i].node, i).next, prev |-> seek[i].node,
                    subtreesize |-> length + Lvl(s, seek[i].node, i).subtreesize - seek[i].sub]
              ELSE [next |-> Nil, prev |-> HeadNode, subtreesize |-> s.len - top.sub + length]
        Upd(n, i) ==
            LET l == Lvl(s, n, i) IN
            IF i < old /\ n = seek[i].node
              THEN IF i < h THEN [l EXCEPT !.next = newNode, !.subtreesize = seek[i].sub]
                            ELSE [l EXCEPT !.subtreesize = @ + length]
            ELSE IF i < old /\ i < h /\ n = Lvl(s, seek[i].node, i).next
              THEN [l EXCEPT !.prev = newNode]
            ELSE l
        HeadLevels ==
            [k \in 1 .. IfMax(old, h) |->
                IF k <= old THEN Upd(HeadNode, k - 1)
                ELSE [next |-> newNode, prev |-> HeadNode, subtreesize |-> top.sub]]
    IN [s EXCEPT
          !.nodePool = IF Len(@) > 0 THEN SubSeq(@, 1, Len(@) - 1) ELSE @,
          !.id[newNode] = insertId,
          !.dlLen[newNode] = length,
          !.byId[insertId] = newNode,
          !.levels = [n \in Nodes |->
                        IF n = newNode THEN [k \in 1 .. h |-> NewLevel(k - 1)]
                        ELSE IF n = HeadNode THEN HeadLevels
                        ELSE [k \in DOMAIN s.levels[n] |-> Upd(n, k - 1)]],
          !.height = IfMax(old, h),
          !.len = @ + length,
          !.lastId = InsertLastId(s, after, insertId, length)]

-----------------------------------------------------------------------------
(* Splice(afterId, deleteUntilId, insertId, data): NoId stands for a nil   *)
(* pointer, and length for what data's Len() reports.                     *)
\* randomHeight, for every word rand.Uint32() may return; the words are as
\* wide as the cap, as in the code (32 and maxHeight = 32).
RH == INSTANCE RandomHeight WITH WordBits <- MaxHeight
Heights == {RH!RandomHeight(x) : x \in RH!Words}

AnchorNode(afterId) ==
    IF byId[afterId] # Nil THEN byId[afterId]
    ELSE IF afterId = Zero THEN HeadNode ELSE Nil

SpliceError(afterId, insertId, length) ==
    IF AnchorNode(afterId) = Nil THEN "BadAnchor"
    ELSE IF insertId # NoId /\ byId[insertId] # Nil THEN "IdExists"
    ELSE IF insertId # NoId /\ length < 0 THEN "NegativeLength"
    ELSE "ok"

Splice(afterId, deleteUntilId, insertId, length) ==
    LET s == St
        after == AnchorNode(afterId)
        doDelete == deleteUntilId # NoId /\ deleteUntilId # afterId
        sk == Seek(s, after)
        s1 == IF doDelete THEN DeletePhase(s, after, sk.seek, deleteUntilId) ELSE s
    IN
    /\ result' = SpliceError(afterId, insertId, length)
    /\ removed' = IF result' = "ok" THEN s1.removed ELSE <<>>
    /\ \/ /\ result' # "ok"
          /\ UNCHANGED <<ropeVars, ist, iat>>
       \/ /\ result' = "ok"
          /\ insertId = NoId
          /\ Commit(Collect(s1))
       \/ /\ result' = "ok"
          /\ insertId # NoId
          /\ NewNode(s1) # Nil
          /\ \E h \in Heights :
                Commit(Collect(InsertPhase(s1, after, sk, insertId, length, h, NewNode(s1))))

-----------------------------------------------------------------------------
(* Iter(afterId): the iterator parks on each node it yields through a      *)
(* counted iterRef, and on resumption continues from iterRef.node, which a *)
(* delete of the parked node retargets to its predecessor.                *)
\* Mutant: every yield installs a fresh iterRef, dropping a shared count.
IterAdvanceFreshRef(s, it, e) ==
    LET next == Lvl(s, e, 0).next IN
    IF next = Nil
      THEN [s EXCEPT !.ist[it] = "idle", !.iat[it] = Nil]
      ELSE [s EXCEPT !.iterRef[next] = [count |-> 1, node |-> next],
                     !.ist[it] = "paused", !.iat[it] = next]

\* Mutant: at the end of the list the iterator wraps to the first entry.
IterAdvanceWrap(s, it, e) ==
    LET next == IF Lvl(s, e, 0).next = Nil THEN Lvl(s, HeadNode, 0).next
                ELSE Lvl(s, e, 0).next
    IN IF next = Nil
         THEN [s EXCEPT !.ist[it] = "idle", !.iat[it] = Nil]
         ELSE [s EXCEPT !.iterRef[next] = IF @ = NoRef THEN [count |-> 1, node |-> next]
                                                       ELSE [@ EXCEPT !.count = @ + 1],
                        !.ist[it] = "paused",
                        !.iat[it] = next]

IterAdvance(s, it, e) ==
    LET next == Lvl(s, e, 0).next IN
    IF next = Nil
      THEN [s EXCEPT !.ist[it] = "idle", !.iat[it] = Nil]
      ELSE [s EXCEPT !.iterRef[next] = IF @ = NoRef THEN [count |-> 1, node |-> next]
                                                    ELSE [@ EXCEPT !.count = @ + 1],
                     !.ist[it] = "paused",
                     !.iat[it] = next]

\* A new iterator is pulled for the first time.
IterStart(it, afterId) ==
    /\ ist[it] = "idle"
    /\ byId[afterId] # Nil
    /\ Commit(IterAdvance(St, it, byId[afterId]))
    /\ UNCHANGED <<result, removed>>

\* yield returns shouldContinue to a paused iterator.
IterResume(it, shouldContinue) ==
    /\ ist[it] = "paused"
    /\ UNCHANGED <<byId, len, height, nodePool, lastId, result, removed>>
    /\ LET e == iat[it]
           update == iterRef[e].node
           s1 == [St EXCEPT !.iterRef[e] = IF @.count - 1 = 0 THEN NoRef
                                           ELSE [@ EXCEPT !.count = @ - 1]]
       IN IF shouldContinue
            THEN Commit(IterAdvance(s1, it, update))
            ELSE Commit([s1 EXCEPT !.ist[it] = "idle", !.iat[it] = Nil])

-----------------------------------------------------------------------------
(* Queries.  They change nothing; each is an operator over the state.      *)

\* Find: climb from the node to the head along each node's top link,
\* adding the span of every link taken, then the node's own length.
RECURSIVE FindFrom(_, _, _, _)
FindFrom(s, node, pos, fuel) ==
    IF node = HeadNode \/ fuel = 0 THEN pos
    ELSE LET link == Len(s.levels[node]) - 1
             p == Lvl(s, node, link).prev
         IN FindFrom(s, p, pos + Lvl(s, p, link).subtreesize, fuel - 1)

\* Mutant: Find without the entry's own length.
FindNoOwnLen(s, x) ==
    IF s.byId[x] = Nil THEN -1 ELSE FindFrom(s, s.byId[x], 0, Fuel)

Find(s, x) ==
    IF s.byId[x] = Nil THEN -1
    ELSE FindFrom(s, s.byId[x], 0, Fuel) + s.dlLen[s.byId[x]]

Between(s, a, b) ==
    IF Find(s, a) < 0 \/ Find(s, b) < 0 THEN <<0, FALSE>>
    ELSE <<Find(s, b) - Find(s, a), TRUE>>

\* Count: the size of byId, less the zero entry.
Count(s) == Cardinality({x \in Ids : s.byId[x] # Nil}) - 1

\* The zero value of Info[Id, T] (with its embedded DataLen), for an absent id.
NoInfo == [Id |-> Zero, Next |-> Zero, Prev |-> Zero, Len |-> 0]

\* Info: the id, length and level-0 neighbours of an entry; a missing next
\* leaves the zero Id, and the head's prev is the head itself.
Info(s, x) ==
    IF s.byId[x] = Nil THEN NoInfo
    ELSE LET n == s.byId[x]
             ol == Lvl(s, n, 0)
         IN [Id |-> s.id[n], Len |-> s.dlLen[n], Prev |-> s.id[ol.prev],
             Next |-> IF ol.next # Nil THEN s.id[ol.next] ELSE Zero]

\* ByPosition: the top-down descent.  At each level it advances while the
\* position lies beyond the current link's span ("continue outer" when the
\* link ends the level), then with biasAfter also across spans it reaches.
\* Mutant: the descent advances while position >= subtreesize.
RECURSIVE AdvanceGe(_, _, _, _, _)
AdvanceGe(s, e, h, pos, fuel) ==
    IF pos >= Lvl(s, e, h).subtreesize /\ fuel > 0
      THEN IF Lvl(s, e, h).next = Nil
             THEN [e |-> e, pos |-> pos - Lvl(s, e, h).subtreesize, outer |-> TRUE]
             ELSE AdvanceGe(s, Lvl(s, e, h).next, h, pos - Lvl(s, e, h).subtreesize, fuel - 1)
      ELSE [e |-> e, pos |-> pos, outer |-> FALSE]

RECURSIVE Advance(_, _, _, _, _)
Advance(s, e, h, pos, fuel) ==
    IF pos > Lvl(s, e, h).subtreesize /\ fuel > 0
      THEN IF Lvl(s, e, h).next = Nil
             THEN [e |-> e, pos |-> pos - Lvl(s, e, h).subtreesize, outer |-> TRUE]
             ELSE Advance(s, Lvl(s, e, h).next, h, pos - Lvl(s, e, h).subtreesize, fuel - 1)
      ELSE [e |-> e, pos |-> pos, outer |-> FALSE]

RECURSIVE AdvanceBias(_, _, _, _, _)
AdvanceBias(s, e, h, pos, fuel) ==
    IF pos >= Lvl(s, e, h).subtreesize /\ Lvl(s, e, h).next # Nil /\ fuel > 0
      THEN AdvanceBias(s, Lvl(s, e, h).next, h, pos - Lvl(s, e, h).subtreesize, fuel - 1)
      ELSE [e |-> e, pos |-> pos]

RECURSIVE Descend(_, _, _, _, _)
Descend(s, e, h, pos, biasAfter) ==
    IF h < 0 THEN <<s.id[e], s.dlLen[e] - pos>>
    ELSE LET a == Advance(s, e, h, pos, Fuel)
             b == IF biasAfter /\ ~a.outer THEN AdvanceBias(s, a.e, h, a.pos, Fuel) ELSE a
         IN Descend(s, b.e, h - 1, b.pos, biasAfter)

ByPosition(s, position, biasAfter) ==
    IF position < 0 \/ (~biasAfter /\ position = 0) THEN <<Zero, 0>>
    ELSE IF position > s.len \/ (biasAfter /\ position = s.len) THEN <<s.lastId, 0>>
    ELSE Descend(s, HeadNode, s.height - 1, position, biasAfter)

\* rseekNodes: for every level, the last node at or before curr having it.
RECURSIVE RseekFrom(_, _, _, _, _)
RseekFrom(s, curr, i, target, fuel) ==
    LET ll == Len(s.levels[curr])
        t2 == [j \in DOMAIN target |-> IF i <= j /\ j < ll THEN curr ELSE target[j]]
    IN IF ll >= s.height \/ fuel = 0 THEN t2
       ELSE RseekFrom(s, Lvl(s, curr, ll - 1).prev, IfMax(i, ll), t2, fuel - 1)

\* The upward walk of Compare from curr against the other node's seek.
RECURSIVE CompareWalk(_, _, _, _, _, _)
CompareWalk(s, anodes, curr, i, cmp, fuel) ==
    LET ll == Len(s.levels[curr])
        up == Lvl(s, curr, ll - 1).prev
    IN IF \E j \in i .. ll - 1 : curr = anodes[j] THEN cmp
       ELSE IF up = anodes[ll - 1] THEN -cmp
       ELSE IF up = HeadNode \/ fuel = 0 THEN cmp
       ELSE CompareWalk(s, anodes, up, IfMax(i, ll), cmp, fuel - 1)

\* Mutant: Compare forgets that it swapped the two nodes.
CompareNoSwapSign(s, a, b) ==
    IF a = b THEN <<0, s.byId[a] # Nil>>
    ELSE IF s.byId[a] = Nil \/ s.byId[b] = Nil THEN <<0, FALSE>>
    ELSE LET swap == Len(s.levels[s.byId[a]]) < Len(s.levels[s.byId[b]])
             anode == IF swap THEN s.byId[b] ELSE s.byId[a]
             bnode == IF swap THEN s.byId[a] ELSE s.byId[b]
             anodes == RseekFrom(s, anode, 0, [j \in 0 .. MaxHeight - 1 |-> Nil], Fuel)
         IN <<CompareWalk(s, anodes, bnode, 1, 1, Fuel), TRUE>>

Compare(s, a, b) ==
    IF a = b THEN <<0, s.byId[a] # Nil>>
    ELSE IF s.byId[a] = Nil \/ s.byId[b] = Nil THEN <<0, FALSE>>
    ELSE LET swap == Len(s.levels[s.byId[a]]) < Len(s.levels[s.byId[b]])
             anode == IF swap THEN s.byId[b] ELSE s.byId[a]
             bnode == IF swap THEN s.byId[a] ELSE s.byId[b]
             anodes == RseekFrom(s, anode, 0, [j \in 0 .. MaxHeight - 1 |-> Nil], Fuel)
         IN <<CompareWalk(s, anodes, bnode, 1, IF swap THEN -1 ELSE 1, Fuel), TRUE>>

-----------------------------------------------------------------------------
Next ==
    \/ \E a \in Ids, d \in Ids \cup {NoId} : Splice(a, d, NoId, 0)
    \/ \E a \in Ids, d \in Ids \cup {NoId}, n \in Ids, l \in Lens : Splice(a, d, n, l)
    \/ \E it \in Iters, a \in Ids : IterStart(it, a)
    \/ \E it \in Iters, c \in BOOLEAN : IterResume(it, c)

Spec == Init /\ [][Next]_vars

(* The caller's loop body eventually returns from yield: a paused iterator *)
(* is resumed, whether or not it asks for more.  Nothing else is fair: a   *)
(* caller need never splice or start an iterator.                          *)
IterFairness == \A it \in Iters : WF_vars(\E c \in BOOLEAN : IterResume(it, c))
LiveSpec == Spec /\ IterFairness

-----------------------------------------------------------------------------
(* The reference view: the entries in level-0 order, from the head.        *)
RECURSIVE ChainFrom(_, _, _)
ChainFrom(s, n, fuel) ==
    IF n = Nil \/ fuel = 0 THEN <<>>
    ELSE IF s.levels[n] = <<>> THEN <<n>>
    ELSE <<n>> \o ChainFrom(s, Lvl(s, n, 0).next, fuel - 1)

Order(s) == ChainFrom(s, HeadNode, Fuel + 1)

\* The length of the k-th node of the order, and the lengths of a run of it.
LenAt(s, O) == [k \in 1 .. Len(O) |-> s.dlLen[O[k]]]
PrefixLen(s, O) ==
    LET pre[k \in 0 .. Len(O)] == IF k = 0 THEN 0 ELSE pre[k - 1] + s.dlLen[O[k]]
    IN pre
RunLen(s, O, from, to) == PrefixLen(s, O)[to] - PrefixLen(s, O)[from - 1]

Index(s, O, x) == CHOOSE k \in 1 .. Len(O) : s.id[O[k]] = x
Live(s, x) == s.byId[x] # Nil

Sign(v) == IF v > 0 THEN 1 ELSE IF v < 0 THEN -1 ELSE 0

Level == [next : Nodes \cup {Nil}, prev : Nodes \cup {Nil}, subtreesize : Int]

-----------------------------------------------------------------------------
(* Properties.                                                             *)

TypeOK ==
    /\ id \in [Nodes -> Ids]
    /\ \A n \in Nodes : dlLen[n] \in Int
    /\ \A n \in Nodes : /\ Len(levels[n]) <= MaxHeight
                        /\ \A k \in DOMAIN levels[n] : levels[n][k] \in Level
    /\ iterRef \in [Nodes -> [count : Nat, node : Nodes \cup {Nil}]]
    /\ byId \in [Ids -> Nodes \cup {Nil}]
    /\ len \in Nat
    /\ height \in 1 .. MaxHeight
    /\ Len(nodePool) <= PoolSize /\ \A k \in DOMAIN nodePool : nodePool[k] \in Nodes
    /\ lastId \in Ids
    /\ ist \in [Iters -> {"idle", "paused"}]
    /\ iat \in [Iters -> Nodes \cup {Nil}]
    /\ result \in Errors
    /\ removed \in Seq([Id : Ids, Len : Int])

(* The skip-list invariant that every splice must restore (spec, sec. 3):  *)
(* the head has `height` levels; on every level a node's next and prev     *)
(* are the nearest nodes of the level-0 order that have that level; the    *)
(* subtreesize of a link is the total length from its node up to the next  *)
(* node of that level, or to the end; byId indexes exactly the nodes of    *)
(* the order; and len is the total length.  A wrong link or counter left   *)
(* behind by the seek, delete or insert phase of splice breaks it.         *)
SpineConsistent ==
    LET s == St
        O == Order(s)
        N == Len(O)
        Tall(j) == {k \in 1 .. N : Len(levels[O[k]]) > j}
    IN /\ Len(levels[HeadNode]) = height
       /\ \A k \in 2 .. N : Len(levels[O[k]]) \in 1 .. height
       /\ \A k \in 1 .. N : \A j \in 0 .. Len(levels[O[k]]) - 1 :
            LET after == {m \in Tall(j) : m > k}
                before == {m \in Tall(j) : m < k}
                end == IF after = {} THEN N ELSE Min(after) - 1
            IN /\ Lvl(s, O[k], j).next = IF after = {} THEN Nil ELSE O[Min(after)]
               /\ Lvl(s, O[k], j).prev = IF k = 1 THEN HeadNode ELSE O[Max(before)]
               /\ Lvl(s, O[k], j).subtreesize = RunLen(s, O, k, end)
       /\ {x \in Ids : byId[x] # Nil} = {id[O[k]] : k \in 1 .. N}
       /\ \A k \in 1 .. N : byId[id[O[k]]] = O[k]
       /\ len = RunLen(s, O, 1, N)

(* Find(x), the climb along top links, is the position just after x in    *)
(* the level-0 order (the lengths of the entries up to and including x),  *)
(* and -1 for an absent x.                                                 *)
FindAgrees ==
    LET s == St
        O == Order(s)
    IN \A x \in Ids :
         Find(s, x) = IF Live(s, x) THEN RunLen(s, O, 1, Index(s, O, x)) ELSE -1

(* ByPosition's descent lands where the level-0 order says: without bias   *)
(* on the entry of non-zero length whose span (start, end] holds the       *)
(* position, with biasAfter on the one whose [start, end) holds it, and the *)
(* offset is the distance from the position to that entry's end.  Checked  *)
(* for every position the descent handles (the ends of the range return    *)
(* Zero or lastId before descending).                                      *)
ByPositionAgrees ==
    LET s == St
        O == Order(s)
        Start(k) == RunLen(s, O, 1, k - 1)
        End(k) == RunLen(s, O, 1, k)
        Holds(k, p, bias) ==
            /\ LenAt(s, O)[k] > 0
            /\ IF bias THEN Start(k) <= p /\ p < End(k) ELSE Start(k) < p /\ p <= End(k)
    IN \A p \in 0 .. len, bias \in BOOLEAN :
         (IF bias THEN p < len ELSE p > 0) =>
            \E k \in 1 .. Len(O) :
               /\ Holds(k, p, bias)
               /\ ByPosition(s, p, bias) = <<id[O[k]], End(k) - p>>

(* Compare's walk, which meets the other node's seek path instead of       *)
(* computing positions, orders any two live ids as the level-0 order does, *)
(* whichever of the two nodes is taller; absent ids give ok = FALSE.       *)
CompareAgrees ==
    LET s == St
        O == Order(s)
    IN \A a, b \in Ids :
         Compare(s, a, b) =
            IF a = b THEN <<0, Live(s, a)>>
            ELSE IF ~Live(s, a) \/ ~Live(s, b) THEN <<0, FALSE>>
            ELSE <<Sign(Index(s, O, a) - Index(s, O, b)), TRUE>>

(* LastId() names the last entry of the order (the zero Id when empty).    *)
LastIdIsLast ==
    LET O == Order(St) IN lastId = id[O[Len(O)]]

(* The count of a node's iterRef is the number of iterators parked on it,  *)
(* and the iterRef is nil exactly when none is: several iterators share   *)
(* one iterRef, and each resume must release exactly its own hold.         *)
CursorCountExact ==
    \A n \in Nodes :
        /\ iterRef[n].count = Cardinality({it \in Iters : ist[it] = "paused" /\ iat[it] = n})
        /\ (iterRef[n] = NoRef) = (iterRef[n].count = 0)

(* Every entry an iterator yields is a live entry of the rope: the node it *)
(* parks on, by IterStart or by a resume, is the node byId names for its  *)
(* id (spec, secs. 4.6 and 5: a paused iterator continues from the nearest *)
(* surviving predecessor of its entry).  Iter reads e.iterRef.node after   *)
(* yield returns, and that node may itself have been deleted since it was  *)
(* set, its level-0 next left pointing at a node that was then pooled.     *)
Yielded(it) == (\E x \in Ids : IterStart(it, x)) \/ IterResume(it, TRUE)
YieldsLiveEntry ==
    [][\A it \in Iters : Yielded(it) /\ ist'[it] = "paused" =>
                            byId'[id'[iat'[it]]] = iat'[it]]_vars

(* The round trip of the spec (sec. 8, invariant 3): ByPosition at the     *)
(* position Find reports for a live id, without bias, gives that id with   *)
(* offset 0.  ByPosition's descent stops before zero-length entries.       *)
FindByPositionRoundTrip ==
    LET s == St IN
    \A x \in Ids : Live(s, x) => ByPosition(s, Find(s, x), FALSE) = <<x, 0>>

(* Iteration ends: every paused iterator eventually returns, unless the  *)
(* caller keeps inserting or deleting forever.  This holds even for an     *)
(* iterator resuming from a cursor that a delete retargeted, which then    *)
(* follows stale level-0 links.                                            *)
Mutation == <<byId, len>>' # <<byId, len>>
IterationEnds ==
    \A it \in Iters : []<><<Mutation>>_vars \/ (ist[it] = "paused" ~> ist[it] = "idle")

=============================================================================
