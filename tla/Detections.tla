------------------------------ MODULE Detections ------------------------------
(***************************************************************************)
(* Overlap, suppression and fusion of detections (common/tiled_shard.py).  *)
(* Detections are a sequence of records                                    *)
(*   [box, score, label, tile, cuts, truncated]                            *)
(* where cuts is the set of seams that cut the box off.  A ratio is        *)
(* compared with a threshold <<n, d>> by cross multiplication.             *)
(***************************************************************************)
EXTENDS Integers, Sequences, SequencesExt

Larger(a, b)  == IF a < b THEN b ELSE a
Smaller(a, b) == IF a < b THEN a ELSE b

\* How far two boxes overlap along an axis, and how far one reaches.
Shared(a, b, axis) == Larger(Smaller(a[axis + 2], b[axis + 2]) - Larger(a[axis], b[axis]), 0)
Extent(a, axis)    == Larger(a[axis + 2] - a[axis], 0)

Intersection(a, b) == Shared(a, b, 1) * Shared(a, b, 2)
Area(a)            == Extent(a, 1) * Extent(a, 2)

\* A ratio with nothing below the line counts as zero.
AtLeast(part, whole, thr) == whole > 0 /\ part * thr[2] >= whole * thr[1]

IoU(a, b, thr) == LET both == Intersection(a, b) IN AtLeast(both, Area(a) + Area(b) - both, thr)
IoS(a, b, thr) == AtLeast(Intersection(a, b), Area(b), thr)
ProjectionIoU(a, b, axis, thr) ==
    LET both == Shared(a, b, axis) IN AtLeast(both, Extent(a, axis) + Extent(b, axis) - both, thr)

Enclosing(boxes) ==
    [i \in 1 .. 4 |-> IF i <= 2 THEN Min({b[i] : b \in boxes}) ELSE Max({b[i] : b \in boxes})]

-----------------------------------------------------------------------------
(* Greedy suppression.                                                       *)

\* The members of a set in an order, given as the pairs of which the first comes first.
Arranged(S, before) ==
    [k \in 1 .. Cardinality(S) |-> CHOOSE i \in S : Cardinality({j \in S : <<j, i>> \in before}) = k - 1]

Ascending(S) == Arranged(S, {p \in S \X S : p[1] < p[2]})

\* _index: the chosen detections, in their original order.
Index(dets, keep) ==
    LET kept == Ascending(keep) IN [k \in DOMAIN kept |-> dets[kept[k]]]

\* Visit the detections in order; each one not yet suppressed is kept and
\* suppresses its victims.
Greedy(order, victims) ==
    LET Visit(done, i) ==
          IF i \in done.suppressed THEN done
          ELSE [kept |-> done.kept \cup {i}, suppressed |-> done.suppressed \cup victims[i]]
        visited[k \in 0 .. Len(order)] ==
          IF k = 0 THEN [kept |-> {}, suppressed |-> {}] ELSE Visit(visited[k - 1], order[k])
    IN  visited[Len(order)].kept

CompleteFirstMutant(a, b) == FALSE     \* mutation: prefer_complete is ignored
CompleteFirst(a, b) == ~a.truncated /\ b.truncated

\* Complete boxes lead, then the higher score, then the earlier index.
Outranks(dets, i, j) ==
    \/ CompleteFirst(dets[i], dets[j])
    \/ /\ ~CompleteFirst(dets[j], dets[i])
       /\ dets[i].score > dets[j].score \/ (dets[i].score = dets[j].score /\ i < j)

EligibleMutant(det) == TRUE            \* mutation: complete boxes can be victims too
Eligible(det) == det.truncated

\* over: the pairs whose overlap reaches the threshold.
GreedySuppress(dets, over, onlyTruncated) ==
    LET order == Arranged(DOMAIN dets, {p \in (DOMAIN dets) \X (DOMAIN dets) : Outranks(dets, p[1], p[2])})
        victims == [i \in DOMAIN dets |->
                      {j \in DOMAIN dets \ {i} :
                          /\ dets[i].label = dets[j].label
                          /\ <<i, j>> \in over
                          /\ onlyTruncated => Eligible(dets[j])}]
    IN  Index(dets, Greedy(order, victims))

PerClassNms(dets, thr) ==
    LET over == {p \in (DOMAIN dets) \X (DOMAIN dets) : IoU(dets[p[1]].box, dets[p[2]].box, thr)}
    IN  GreedySuppress(dets, over, FALSE)

SuppressContained(dets, thr) ==
    LET over == {p \in (DOMAIN dets) \X (DOMAIN dets) : IoS(dets[p[1]].box, dets[p[2]].box, thr)}
    IN  GreedySuppress(dets, over, TRUE)

-----------------------------------------------------------------------------
(* Fusion of the fragments an object was cut into.                           *)

Meet(low, high, axis) == low[axis + 2] >= high[axis]

FragmentsJoin(low, high, axis, thr) ==
    /\ low[axis] <= high[axis] /\ low[axis + 2] <= high[axis + 2]
    /\ Meet(low, high, axis)
    /\ ProjectionIoU(low, high, 3 - axis, thr)

SameLabel(a, b) == a.label = b.label

Joins(a, b, thr) ==
    /\ SameLabel(a, b) /\ a.tile # b.tile
    /\ \E axis \in {1, 2}, p \in {<<a, b>>, <<b, a>>} :
         /\ <<axis, 1>> \in p[1].cuts /\ <<axis, 0>> \in p[2].cuts
         /\ FragmentsJoin(p[1].box, p[2].box, axis, thr)

Root(parent, i) ==
    LET root[k \in DOMAIN parent] == IF parent[k] = k THEN k ELSE root[parent[k]] IN root[i]

UniteMutant(parent, i, j) == [parent EXCEPT ![j] = Root(parent, i)]   \* mutation: j, not its root
Unite(parent, i, j) == [parent EXCEPT ![Root(parent, j)] = Root(parent, i)]

\* The k-th pair of the two loops over n detections.
Pair(n, k) == <<((k - 1) \div n) + 1, ((k - 1) % n) + 1>>

\* Union-find over all pairs i < j; path halving changes no root and is left out.
Parents(dets, thr) ==
    LET n == Len(dets)
        Link(parent, p) ==
          IF p[1] < p[2] /\ Joins(dets[p[1]], dets[p[2]], thr) THEN Unite(parent, p[1], p[2]) ELSE parent
        linked[k \in 0 .. n * n] ==
          IF k = 0 THEN [i \in DOMAIN dets |-> i] ELSE Link(linked[k - 1], Pair(n, k))
    IN  linked[n * n]

FusedMutant(dets, members) ==         \* mutation: the best fragment stands for all
    dets[CHOOSE i \in members : \A j \in members : dets[i].score >= dets[j].score]

\* One detection for a group: the enclosing box, the best member's score and label;
\* truncated only if it is a fragment left alone.
Fused(dets, members) ==
    LET best == CHOOSE i \in members : \A j \in members \ {i} :
                   dets[i].score > dets[j].score \/ (dets[i].score = dets[j].score /\ i < j)
    IN  [dets[best] EXCEPT !.box = Enclosing({dets[i].box : i \in members}),
                           !.truncated = members = {best} /\ dets[best].cuts # {}]

FuseSeamFragments(dets, thr) ==
    LET parent  == Parents(dets, thr)
        roots   == Ascending({i \in DOMAIN dets : parent[i] = i})
        Members(r) == {i \in DOMAIN dets : Root(parent, i) = r}
    IN  [k \in DOMAIN roots |-> Fused(dets, Members(roots[k]))]
=============================================================================
