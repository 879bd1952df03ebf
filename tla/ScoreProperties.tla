--------------------------- MODULE ScoreProperties ---------------------------
(***************************************************************************)
(* What the numbers of a scored run mean.                                  *)
(***************************************************************************)
EXTENDS ScoreRun

Evaluated(row) == row = IF stage = "reference" THEN "fleet" ELSE "reference"

-----------------------------------------------------------------------------
\* The textbook definition: a detection is true if it clears the threshold on the annotation
\* it overlaps most and no better one of its frame does so on the same; an object is worth the
\* best precision at which the ranking has found that many.
IsTrue(dets, annotations, k, t) ==
    LET Claims(i, j) == Assigned(dets[i], annotations) = j
                        /\ IoU(dets[i].box, annotations[j], <<t, 100>>)
    IN  \E j \in DOMAIN annotations : Claims(k, j) /\ \A i \in 1 .. k - 1 : ~Claims(i, j)

\* What the objects are worth together.
TotalWorth(hits, total) ==
    LET Found(k) == Cardinality({i \in 1 .. k : hits[i]})
        Worth(j) == Max({0} \cup {(One * Found(k)) \div k : k \in {k \in DOMAIN hits : Found(k) >= j}})
    IN  Total([j \in 1 .. total |-> Worth(j)])

\* Whatever the row, the AP of a class is the mean, over its objects, of the best precision at
\* which the ranking finds that many: once each, with ties in any order
\* (detection_map.py:20-27, 53-95).
ApIsArea ==
    \A row \in {r \in DOMAIN rows : Evaluated(r)} : \A t \in IoUThresholds : \A c \in Labels :
        LET True(p) == IsTrue(OfLabel(detections[p[1]], c), BoxesOf(OfLabel(Annotations[p[1]], c)), p[2], t)
            Worth(order) == TotalWorth([k \in DOMAIN order |-> True(order[k])],
                                       Cardinality(Pool(Annotations, c)))
        IN  \E order \in Rankings(ScoresOf(detections, c)) : rows[row][t][c] = Worth(order)

Untied(dets) == \A j, k \in DOMAIN dets : dets[j].score = dets[k].score => j = k
DistinctScores == \A i \in DOMAIN detections : Untied(detections[i])

\* Asking for a better overlap never raises the AP of a class: a detection that takes an object
\* at the lower threshold stands before those that take it at the higher one, unless
\* scores tie within a frame (map50 >= map75 >= ..., :119-124).
StricterIsLower ==
    DistinctScores =>
        \A r \in {r \in DOMAIN rows : Evaluated(r)} : \A s, t \in IoUThresholds : \A c \in Labels :
            s < t => rows[r][s][c] >= rows[r][t][c]

\* A run whose detections are the kit's own, passed through the same gate, gets the numbers of
\* the reference row, in whatever order they were dumped, although the run was gated before it
\* was ranked and capped (eval_shard_map.py:153-159, "identical to the reference detections").
SameAsReference(s) ==
    LET stored == Kit.reference[s + 1]
    IN  /\ Untied(records[s]) /\ Untied(stored)
        /\ ToSet(records[s]) = {d \in ToSet(stored) : ~(d.score < scene.gate)}

GateComparable ==
    stage = "done" /\ (\A s \in DOMAIN records : SameAsReference(s))
        => rows["fleet"] = rows["reference"]

-----------------------------------------------------------------------------
\* A dump is scored against the kit of the set that was run.
OwnKit ==
    rows # <<>> /\ (\E s \in scene.sets : s.name = scene.set)
        => kit = (CHOOSE s \in scene.sets : s.name = scene.set).kit
-----------------------------------------------------------------------------
(* The inductive invariant behind GateComparable                             *)

\* The row is that of a collection, and what argsort has made of its scores is remembered.
Computed(row, detsOf) ==
    \E c \in Collections(detsOf) : \E o \in Orders(c) :
        /\ rows[row] = Evaluate(c, Annotations, Labels, o)
        /\ \A l \in Labels : <<ScoresOf(c, l), o[l]>> \in ranked

\* Samples that are in the kit, each with the detections of one line.
RecordsOK ==
    /\ DOMAIN records \in SUBSET Nat /\ IsFiniteSet(DOMAIN records)
    /\ \A s \in DOMAIN records : records[s] \in Seq(Detection)
    /\ stage \in {"fleet", "reference", "done"} => \A s \in DOMAIN records : s < Kit.count

IInv ==
    /\ scene \in Scenes /\ at \in 0 .. Len(scene.lines)
    /\ stage \in {"check", "fleet", "reference", "done"} => kit \in DOMAIN scene.kits
    /\ RecordsOK
    /\ stage = "reference" => "fleet" \in DOMAIN rows /\ Computed("fleet", FromDump)
    /\ GateComparable
=============================================================================
