# TLA+ models of package rope

Package `rope` (`src/unnamed/part_000`, `src/rope/types.go`, `src/rope/util.go`)
is a skip list. Its entries are identified by caller ids and weighted by
lengths. It supports positional queries, one mutation primitive (`Splice`)
and an iterator that survives mutation. This directory holds TLA+ models of
it, the TLC configurations that check them, and `PROJECT.json`, which maps
every definition to the Go lines it translates.

## The system

| part | code | state |
|---|---|---|
| node store and id index | `byId`, `nodePool`, `returnToPool`, allocation in `splice` | `byId`, `nodePool`, the node objects |
| spine | `ropeNode.levels`, `ropeImpl.head/height/len` | per node: `levels[k] = (next, prev, subtreesize)` |
| splice engine | `Splice`, `splice`, `Insert`, `Delete`, `randomHeight` | all of the above, plus `lastId`; returns the `Removed` records |
| queries | `Find`, `ByPosition`, `Between`, `Compare`, `Less`, `Info`, `Count`, `LastId` | none (reads) |
| iterator | `Iter` with `iterRef` | per node `iterRef = (count, node)`, per iterator the node it is paused on |

How the parts interact:
- `splice` seeks from the anchor up to the head, then deletes the run after
  the anchor. Deleting an entry does four things: it retargets the entry's
  `iterRef`, removes it from `byId`, unlinks it per level and returns it to
  the pool. Then `splice` inserts a node, taken from the pool if one is there.
- A paused iterator holds a counted `iterRef` on the node it yielded. After
  `yield` returns, it continues from `iterRef.node`, which a delete may have
  moved to the deleted node's predecessor.
- `returnToPool` skips nodes that have an `iterRef`. The cursor therefore ties
  the iterator, the delete loop and the pool together. That interaction is
  where the findings below are.

`subtreesize` has a precise meaning in the code, which the models follow: the
subtreesize of level k of node N is the total length from N (inclusive) to
the next node of level k (exclusive), or to the end of the list. The spec
(sec. 3) describes it differently; the code's meaning is the one all the
arithmetic in `splice`, `Find` and `ByPosition` relies on.

## Modules

- **Rope.tla** models the implementation at the level of node objects.
  - Nodes are model values of `Nodes`, and each Go field is a function over
    nodes (`id`, `dlLen`, `levels`, `iterRef`).
  - Pointers are nodes or `Nil`. The `ropeImpl` fields are variables of the
    same names.
  - Node identity matters because nodes are recycled. Go's garbage collector
    is `Collect`: a node that nothing references any more is reset, and may
    be allocated again.
  - A call is computed on a record `St` through operators named after the
    code's phases: `Seek`, `DeletePhase` (with `DeleteRun`, `DeleteOne`,
    `UnlinkLevels`, `ReturnToPool`), `InsertPhase` (with `NewNode`,
    `WalkToHead`, `InsertLastId`). It is then written back with `Commit`.
  - Actions:
    - `Splice`, with three disjuncts: an error, a call without an insert,
      and a call with an insert, whose height is `randomHeight` of some
      word (`Heights`). `removed` is the list of `Removed` records the call
      returns, as `[Id, Len]` records (`RemovedOf`).
    - `IterStart`: the first pull of `Iter`.
    - `IterResume(it, shouldContinue)`: the code after `yield` returns.
  - Queries are pure operators: `Find`, `Between`, `ByPosition` (`Advance`,
    `AdvanceBias`, `Descend`), `Compare` (`RseekFrom`, `CompareWalk`),
    `Info`, `Count`. `Count` enters the round-trip law. `Info` only reads
    level 0, whose links `SpineConsistent` already checks, so it has no
    property of its own.
  - Go's collector (`Collect`) runs at the end of every Splice. An
    allocation takes only nodes that nothing references, whether or not
    they have been collected yet. So collecting there, and not after
    iterator steps, loses no behaviour; Go's collector runs at no fixed
    point either. `Collect` stands for the Go runtime, not for code of this
    repository, so `PROJECT.json` maps no lines to it.
  - `Order` is the reference view, the level-0 chain from the head. Every
    property compares the skip list with it.
- **RopeSeq.tla** is the abstract specification: a sequence of ids with
  lengths, the same `Splice` on the sequence, and iterator cursors that move
  to the nearest surviving predecessor when their entry is deleted. It
  follows the doc comments of `Rope` in `types.go` and the spec
  (secs. 4.3, 4.6).
- **RandomHeight.tla** is `randomHeight` as a function of the word
  `rand.Uint32()` returns. It defines `TrailingZeros`, the spec of
  `bits.TrailingZeros32`. Words are as wide as the cap, as in the code
  (32 bits, maxHeight 32). Rope instantiates it with `MaxHeight`.
  **MCRandomHeight.tla** draws every word of a small width.
- **MCRope.tla** instantiates Rope for TLC: the model values, the small id,
  node and length sets, and the symmetry sets.
- **MCRopeRefines.tla** checks that Rope implements RopeSeq.
  - The history variable `call` records each call with its arguments, in
    Rope's behaviour and in RopeSeq's, so every concrete step must be the
    abstract step for the same call.
  - RopeSeq also returns the deleted entries in order, so the refinement
    checks the `removed` list too.
  - The refinement mapping: `seq` is the ids of the level-0 order, and an
    iterator's `cursor` is the id of `iterRef[iat[it]].node`.
- **MCRopeRoundTrip.tla** extends MCRopeRefines with `pre`, the
  `Len`/`Count`/`LastId` of the state before the last call, so that the
  spec's round-trip law (sec. 8) can relate a Delete to the state before
  the Insert it undoes.

Why one call is one step: the Rope is documented as not goroutine-safe, and
no call suspends except `Iter` at `yield`. `Iter` is therefore split at
`yield` and nowhere else. Mutations between two pulls of an iterator are
exactly the interleavings modelled.

## Runs

| run | cfg | expect | what it shows |
|---|---|---|---|
| rope_core | MCRope_core.cfg | pass | `SpineConsistent` holds after every call, over three ids, lengths {-1, 0, 2}, heights 1..3, pool size 1. `FindAgrees`, `ByPositionAgrees` and `CompareAgrees` match the level-0 order. 6,528 states, about 80 s. |
| rope_iter | MCRope_iter.cfg | pass | Two iterators interleaved with splices over two ids: `CursorCountExact`, the count of a shared iterRef across yields, deletes and pooling. The spine is not rechecked here: iterator steps write no links, and rope_core covers it. 36,992 states, about 25 s. |
| random_height | MCRandomHeight.cfg | pass | `HeightOdds`: over every 8-bit word with cap 8, the height is in [1, cap] and has the odds the comment states. The zero word is the edge case: 1 + TrailingZeros is one above the cap. 256 states. |
| iter_live | MCRope_live.cfg | pass | `IterationEnds`: under `LiveSpec`, every paused iterator returns, unless the caller inserts or deletes forever. Two iterators, three nodes, no symmetry. 69,528 states, about 40 s. |
| roundtrip_law | MCRope_roundtrip_law.cfg | pass | `InsertDeleteRoundTrip` (spec sec. 8): Insert(A, N, L) then Delete(A, N) restores Len, Count and LastId, and returns exactly (N, L). Positive lengths, three ids, heights 1..2. 23,537 states, about 100 s. With zero lengths it fails through finding 1. |
| lastid_positive | MCRope_lastidpos.cfg | pass | With positive lengths, `lastId` is always the last entry. 1,317 states. |
| rope_refines_seq | MCRope_refines.cfg | pass | `AbsSpec`: every Splice, errors included, is RopeSeq's Splice on the same arguments (two ids, heights 1..2), including the `removed` list. 8,949 states, about 40 s. |
| lastid_zero_len | MCRope_lastid.cfg | violation | `LastIdIsLast` fails at depth 3. |
| iter_refines_seq | MCRope_iterrefines.cfg | violation | `AbsSpec` fails once iterators are added, at depth 7. |
| iter_yields_dead | MCRope_iterdead.cfg | violation | `YieldsLiveEntry`: a resumed iterator yields a pooled node, at depth 9. |
| find_byposition_roundtrip | MCRope_roundtrip.cfg | violation | The spec's invariant 3 fails for a zero-length entry. |

Every property of a passing run has a mutant in `PROJECT.json`: an operator
that changes one mapped definition the way a plausible bug would, and that
TLC finds violating the property. Examples are dropping the pool-capacity
check, not relinking a successor's `prev`, and forgetting the sign of a
swap in `Compare`.

### Findings

1. **lastId with zero-length entries** (`part_000:371-373`).
   - An insert at the head treats `r.len == length` as "the rope was
     empty".
   - `Insert(0, a, len 0)` followed by `Insert(0, b, len 0)` leaves the
     order `[b, a]` with `lastId = b`.
   - `LastId()` and `ByPosition(len, true)` are then wrong.
2. **Cursor retargeted only once** (`part_000:279`).
   - A delete moves the `iterRef` of the deleted node to its predecessor P.
   - When P is deleted in turn, it has no `iterRef` of its own, so it is
     pooled and reused by the next insert.
   - The paused iterator then resumes after whatever P now is.
   - RopeSeq says it resumes from the nearest surviving predecessor.
3. **Iterator yields a recycled node** (`part_000:520`).
   - P in finding 2 may also be deleted while it has its own `iterRef`. It
     then stays out of the pool, but its level-0 `next` is stale.
   - The resumed iterator follows that link into a node that was pooled, and
     yields it with the zero id.
4. **Spec invariant 3** (spec sec. 8). `ByPosition(Find(x), false)` names
   the entry before a zero-length `x`. That is what the doc comment of
   `ByPosition` promises, so the spec overstates it.

### Bounds

- Four nodes besides the head, and pool size 1 rather than 8. These are
  enough for a node to be pooled, popped and reused within three calls.
- Heights capped at 3 for the core run, so the head grows twice and inserts
  can be taller than the list.
- Lengths -1 (the NegativeLength error), 0 (the zero-length boundaries) and
  2 (positions inside an entry).
- Iterator runs use MaxHeight 1 and length 1. The iterator code only follows
  level 0; the spine at larger heights is covered by rope_core.
- The refinement run uses two ids with heights 1..2. Three ids did not
  finish in 15 minutes.
- The liveness run uses three nodes and no symmetry. The round-trip law
  uses heights 1..2; at height 3 it took over 7 minutes.
- random_height uses 8-bit words and cap 8, so every word is drawn; the
  code's 32/32 has the same shape.
- Symmetry permutes the ids other than Zero, the non-head nodes and the
  iterators. No property distinguishes two of them.

### Fairness

The library is driven by its caller: nothing in it happens unless the
caller calls it. So `Spec` has no fairness, and no safety run assumes any.

The one liveness run, iter_live, uses `LiveSpec == Spec /\ IterFairness`.
That is weak fairness of resuming each paused iterator, whether it asks for
more or stops. This stands for a caller whose `for range` loop body returns
from `yield`. Splice and IterStart are not fair: a caller need never call
them. `IterationEnds` allows a caller who keeps inserting or deleting
forever. It says every iteration ends unless mutation happens infinitely
often (`[]<><<Mutation>>_vars`). Liveness rules out symmetry, so the run
uses three nodes instead of four.

A mutant that re-parks on the same node would show up only as stuttering,
so no fairness could catch it. The mutant used instead wraps to the first
entry at the end of the list.

## Not modelled

- Payloads (`Data`): only their `Len()` matters to the structure.
- `DebugPrint`: logging only.
- `Len`, `LastId` and `DataPtr`: direct field reads.
- The capacity reuse of a pooled node's `levels` slice. Every level below
  the new height is overwritten by the insert.
- Heights above MaxHeight in the skip-list runs. The cap itself is checked
  by random_height.

## Plan for later work

- Add a run with two iterators at MaxHeight 2, to see cursor retargeting
  across taller nodes, if it can be made to fit in time.
- Check the refinement with three ids, if a cheaper mapping can be found.
- Add an abstract view of Compare and Between (spec sec. 8, invariants 4-7)
  as properties of RopeSeq shown through the refinement.
