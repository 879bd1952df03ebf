------------------------------ MODULE TileMerge ------------------------------
(***************************************************************************)
(* One frame through the three stages of image-shard-inference, as far as  *)
(* its boxes are concerned: the segment worker's layout, the detections    *)
(* the inference workers report for each tile, and the stitch worker's     *)
(* merge, one pass of merge_tile_detections per step.                      *)
(*                                                                         *)
(* A scene is what the frame shows and how the application was set up.  An *)
(* object is [parts, label, levels]: a set of boxes, so that a piece of it *)
(* may be narrower than the whole, its class, and the confidences it may   *)
(* be reported with.  The model itself is external: the detector of a tile *)
(* that sees an object reports the box of what it sees, once or twice or   *)
(* not at all.                                                             *)
(***************************************************************************)
EXTENDS TileLayout, Detections

CONSTANT
    Scenes        \* the scenes: [layout, frameSize, tileSize, objects, overshoot, threshold]

ASSUME ScenesAssumption ==
    \A s \in Scenes :
        /\ s.layout \in Layouts /\ s.frameSize \in Nat \ {0} /\ s.tileSize \in Nat \ {0}
        /\ s.overshoot \in Nat
        /\ s.objects \in Seq([parts : SUBSET [1 .. 4 -> Int], label : Nat, levels : SUBSET Nat])
        /\ \A k \in DOMAIN s.objects :
              /\ s.objects[k].parts # {} /\ IsFiniteSet(s.objects[k].parts)
              /\ \A p \in s.objects[k].parts : \A axis \in {1, 2} :
                    0 <= p[axis] /\ p[axis] < p[axis + 2] /\ p[axis + 2] <= s.frameSize

\* The merge parameters the shipped model was tuned with (its _meta.json).
NmsIou       == <<1, 2>>
IosThreshold == <<7, 10>>
SeamIou      == <<1, 5>>
Penalty      == 4             \* truncated_penalty, of ten
MaxBoxes     == 10

VARIABLES
    scene,
    stage,        \* layout, detect, gather, fuse, contain, nms, done; refused
    tiles,        \* the layout
    found,        \* the det<k>.npy written so far: the detections of each tile
    dets          \* the detections the merge works on

vars == <<scene, stage, tiles, found, dets>>

Init ==
    /\ scene \in Scenes
    /\ stage = "layout" /\ tiles = <<>> /\ found = <<>> /\ dets = <<>>

-----------------------------------------------------------------------------
(* Segment worker: the layout for the model, and the crops.                  *)

Segment ==
    LET layout == MakeTileLayout(scene.layout, scene.frameSize, scene.tileSize)
    IN  /\ stage = "layout"
        /\ IF /\ Accepts(scene.layout, scene.frameSize, scene.tileSize)
              /\ \A k \in DOMAIN layout :
                    Splittable(layout[k], scene.frameSize, scene.tileSize)
             THEN tiles' = layout /\ stage' = "detect"
             ELSE stage' = "refused" /\ UNCHANGED tiles
        /\ UNCHANGED <<scene, found, dets>>

-----------------------------------------------------------------------------
(* Inference worker: the detections of one tile.                             *)

TileBox(tile) == << tile.start[1], tile.start[2],
                    tile.start[1] + tile.size, tile.start[2] + tile.size >>

SeenParts(object, tile) == {p \in object.parts : Intersection(p, TileBox(tile)) > 0}

\* The box of what a tile sees of an object, from the tile's corner.  The low edges are
\* clamped at the tile, the high ones are not.
SeenBox(object, tile) ==
    LET box  == Enclosing(SeenParts(object, tile))
        Edge(i) == LET at == box[i] - tile.start[IF i % 2 = 1 THEN 1 ELSE 2]
                   IN  IF i <= 2 THEN Larger(at, 0)
                       ELSE IF at >= tile.size THEN tile.size + scene.overshoot ELSE at
    IN  [i \in 1 .. 4 |-> Edge(i)]

\* The grid cells that answer for an object: none, one, or two that disagree on whether
\* objectness or the class is more certain.
Answers(levels) ==
    {<<>>} \cup {<< [score |-> s, prob |-> s] >> : s \in levels}
    \cup {<< [score |-> p[1], prob |-> p[2]], [score |-> p[2], prob |-> p[1]] >> :
            p \in {q \in levels \X levels : q[1] > q[2]}}

RawOutputs(tile) ==
    LET Cells(object) ==
          IF SeenParts(object, tile) = {} THEN {<<>>}
          ELSE {[k \in DOMAIN a |-> [box |-> SeenBox(object, tile), label |-> object.label,
                                     score |-> a[k].score, prob |-> a[k].prob]] : a \in Answers(object.levels)}
        choices == [k \in DOMAIN scene.objects |-> Cells(scene.objects[k])]
    IN  {FlattenSeq(c) : c \in {f \in [DOMAIN choices -> UNION {choices[k] : k \in DOMAIN choices}] :
                                   \A k \in DOMAIN choices : f[k] \in choices[k]}}

NmsOrder(raw, i, j) == raw[i].prob > raw[j].prob

Duplicate(raw, i, j) == raw[i].label = raw[j].label /\ IoU(raw[i].box, raw[j].box, NmsIou)

\* decode_tile: in order of the class score, drop what overlaps and has the same class.
DecodeTile(raw) ==
    LET order == Arranged(DOMAIN raw, {p \in (DOMAIN raw) \X (DOMAIN raw) :
                     NmsOrder(raw, p[1], p[2]) \/ (~NmsOrder(raw, p[2], p[1]) /\ p[1] > p[2])})
        victims == [i \in DOMAIN raw |-> {j \in DOMAIN raw \ {i} : Duplicate(raw, i, j)}]
        kept == Index(raw, Greedy(order, victims))
    IN  [k \in DOMAIN kept |-> [box |-> kept[k].box, score |-> kept[k].score,
                                label |-> kept[k].label]]

DetectTile ==
    /\ stage = "detect"
    /\ \E raw \in RawOutputs(tiles[Len(found) + 1]) : found' = Append(found, DecodeTile(raw))
    /\ stage' = IF Len(found') = Len(tiles) THEN "gather" ELSE "detect"
    /\ UNCHANGED <<scene, tiles, dets>>

-----------------------------------------------------------------------------
(* Stitch worker: load every tile's detections in order, and merge.          *)

Gathered(perTile) ==
    FlattenSeq([t \in DOMAIN perTile |-> [k \in DOMAIN perTile[t] |->
        LET d == perTile[t][k]
            cuts == SeamTruncations(d.box, tiles[t], scene.frameSize)
        IN  [box |-> ToFrame(d.box, tiles[t]), score |-> d.score, label |-> d.label,
             tile |-> t, cuts |-> cuts, truncated |-> cuts # {}]]])

\* Clip to the frame, drop what is empty, demote fragments, sort, cap, and gate.
ClipBox(box) == [i \in 1 .. 4 |-> Smaller(Larger(box[i], 0), scene.frameSize)]

Demoted(det) == (IF det.truncated THEN Penalty ELSE 10) * det.score

Finished(merged) ==
    LET clipped == [k \in DOMAIN merged |-> [merged[k] EXCEPT !.box = ClipBox(@),
                                                              !.score = Demoted(merged[k])]]
        real    == Index(clipped, {k \in DOMAIN clipped : Area(clipped[k].box) > 0})
        order   == Arranged(DOMAIN real, {p \in (DOMAIN real) \X (DOMAIN real) :
                     \/ real[p[1]].score > real[p[2]].score
                     \/ real[p[1]].score = real[p[2]].score /\ p[1] < p[2]})
        top     == [k \in 1 .. Smaller(MaxBoxes, Len(real)) |-> real[order[k]]]
    IN  Index(top, {k \in DOMAIN top : top[k].score >= scene.threshold})

Pass(from, to, result) ==
    stage = from /\ stage' = to /\ dets' = result /\ UNCHANGED <<scene, tiles, found>>

Gather  == Pass("gather", "fuse", Gathered(found))
Fuse    == Pass("fuse", "contain", FuseSeamFragments(dets, SeamIou))
Contain == Pass("contain", "nms", SuppressContained(dets, IosThreshold))
Nms     == Pass("nms", "finish", PerClassNms(dets, NmsIou))
Finish  == Pass("finish", "done", Finished(dets))

Over == stage \in {"done", "refused"} /\ UNCHANGED vars

Next == Segment \/ DetectTile \/ Gather \/ Fuse \/ Contain \/ Nms \/ Finish \/ Over

Spec == Init /\ [][Next]_vars
=============================================================================
