------------------------- MODULE TileMergeProperties -------------------------
(***************************************************************************)
(* What the tiles and the merge promise whoever reads the detections.      *)
(***************************************************************************)
EXTENDS TileMerge

Cells(box) == (box[1] .. box[3] - 1) \X (box[2] .. box[4] - 1)
Frame == <<0, 0, scene.frameSize, scene.frameSize>>

\* A layout that was accepted shows every pixel of the frame to some tile, and a pixel of a
\* crop is the mean of just those pixels of the frame that a box around it is later mapped
\* to: splitting and mapping back agree, downscaled tile included (tiled_shard.py:103-194).
LayoutFaithful ==
    stage = "detect" /\ found = <<>> =>
        /\ Cells(Frame) = UNION {Cells(TileBox(tiles[t])) : t \in DOMAIN tiles}
        /\ \A t \in DOMAIN tiles :
             LET k == tiles[t].size \div scene.tileSize
             IN  \A p \in Cells(<<0, 0, scene.tileSize, scene.tileSize>>) :
                   CropPixel(tiles[t], scene.tileSize, p)
                     = Cells(ToFrame(<<k * p[1], k * p[2], k * (p[1] + 1), k * (p[2] + 1)>>, tiles[t]))

-----------------------------------------------------------------------------
\* The sets of detections connected by fragments that join.
Components(ds) ==
    LET near == [a \in DOMAIN ds |-> {b \in DOMAIN ds \ {a} : Joins(ds[a], ds[b], SeamIou)}]
        Grow(s) == s \cup UNION {near[a] : a \in s}
        Reach(i) == LET reached[k \in 0 .. Len(ds)] == IF k = 0 THEN {i} ELSE Grow(reached[k - 1])
                    IN  reached[Len(ds)]
    IN  {Reach(i) : i \in DOMAIN ds}

Represents(d, ds, members) ==
    /\ d.box = Enclosing({ds[i].box : i \in members})
    /\ d.score = Max({ds[i].score : i \in members})
    /\ \A i \in members : d.label = ds[i].label
    /\ d.truncated <=> \E i \in members : members = {i} /\ ds[i].cuts # {}

\* Fusion leaves one detection, the enclosing box, for each connected component of "these two
\* are halves of one object", whatever the order in which pairs are met, and never
\* mixes classes (fuse_seam_fragments, "transitive via union-find", :355).
Closed(components) ==
    /\ Len(dets') = Cardinality(components)
    /\ \A members \in components :
         \E k \in DOMAIN dets' : Represents(dets'[k], dets, members)

FusionIsClosure == [][stage = "fuse" => Closed(Components(dets))]_vars

\* A pass keeps a detection exactly if no better one it keeps suppresses it: nothing is
\* dropped without cause, no overlapping pair is left in the wrong order, and containment
\* alone drops fragments only (_greedy_suppress, :265-302).
Suppresses(a, b) ==
    /\ a.label = b.label
    /\ IF stage = "contain" THEN b.truncated /\ IoS(a.box, b.box, IosThreshold)
                            ELSE IoU(a.box, b.box, NmsIou)

Justified(kept) ==
    \A i \in DOMAIN dets :
        (i \in kept) <=> (\A j \in kept \ {i} :
                            Outranks(dets, j, i) => ~Suppresses(dets[j], dets[i]))

\* The detections that are there after the pass: two may be the same.
Kept == {i \in DOMAIN dets : \E k \in DOMAIN dets' : dets'[k] = dets[i]}

SuppressionSound ==
    [][stage = "contain" \/ stage = "nms" =>
          \E kept \in SUBSET Kept : dets' = Index(dets, kept) /\ Justified(kept)]_vars

\* A detection that no seam cuts off is never displaced by a fragment, however confident:
\* after all passes a complete one of its class still covers it (:271-273).
CompleteSurvives ==
    stage = "finish" =>
        \A t \in DOMAIN found : \A k \in DOMAIN found[t] :
            LET d == found[t][k]
            IN  SeamTruncations(d.box, tiles[t], scene.frameSize) = {} =>
                  \E e \in DOMAIN dets :
                     /\ dets[e].label = d.label /\ ~dets[e].truncated
                     /\ IoU(dets[e].box, ToFrame(d.box, tiles[t]), NmsIou)

-----------------------------------------------------------------------------
WholeBox(object) == Enclosing(object.parts)
Inside(a, b) == a[1] >= b[1] /\ a[2] >= b[2] /\ a[3] <= b[3] /\ a[4] <= b[4]

\* The whole box came back, but from tiles in which it ends at a seam, so that it counts as a
\* fragment, and it joins none of the pieces that others see.
TakenForFragment(object, pieces) ==
    LET whole == {i \in DOMAIN pieces : pieces[i].box = WholeBox(object)}
    IN  /\ whole # {} /\ whole # DOMAIN pieces
        /\ \A i \in whole : pieces[i].truncated
                           /\ \A j \in DOMAIN pieces : ~Joins(pieces[i], pieces[j], SeamIou)

\* Quadrants that overlap by less than the margin within which an edge counts as cut off.
Flush == \/ scene.tileSize = scene.frameSize
         \/ 20 * (2 * scene.tileSize - scene.frameSize) <= scene.tileSize

\* Upright, reported by every tile that sees it, and not taken for a fragment.
Recoverable(object) ==
    /\ Cardinality(object.parts) = 1 /\ scene.threshold = 0
    /\ scene.layout = "whole" \/ Flush
    /\ \A t \in DOMAIN tiles : SeenParts(object, tiles[t]) # {} => found[t] # <<>>
    /\ ~TakenForFragment(object, Gathered(found))

\* An object alone in the frame, upright and reported by every tile that sees it, comes out of
\* the pieces as one detection with the object's own box, in every layout, unless its
\* box is taken for a fragment; and no detection ever reaches beyond the object
\* (merge_tile_detections, :435-518).
ObjectRecovered ==
    stage = "done" /\ Len(scene.objects) = 1 /\ scene.overshoot = 0 =>
        LET object == scene.objects[1]
        IN  /\ \A k \in DOMAIN dets : Inside(dets[k].box, WholeBox(object))
            /\ Recoverable(object) => Len(dets) = 1 /\ dets[1].box = WholeBox(object)

-----------------------------------------------------------------------------
(* The invariant behind what is proved: tiles that get as far as a detector  *)
(* are those of the layout, the segment worker has accepted them, and        *)
(* detections are well formed on their way.                                  *)

Squares == [start : Int \X Int, size : Int]

\* Boxes, and those that are not empty.
Boxes == [1 .. 4 -> Int]
RealBoxes == {b \in Boxes : b[1] < b[3] /\ b[2] < b[4]}

TileDets == [box : RealBoxes, score : Nat, label : Nat]
Dets == [box : RealBoxes, score : Nat, label : Nat, tile : Nat, cuts : SUBSET Sides, truncated : BOOLEAN]

\* A detection that no seam cuts off is still there, as it was found.
CompleteKept ==
    \A t \in DOMAIN found : \A k \in DOMAIN found[t] :
        LET d == found[t][k]
        IN  SeamTruncations(d.box, tiles[t], scene.frameSize) = {} =>
              \E e \in DOMAIN dets :
                 /\ dets[e].label = d.label /\ ~dets[e].truncated
                 /\ dets[e].box = ToFrame(d.box, tiles[t])
                 /\ stage = "fuse" => dets[e].cuts = {}

IInv ==
    /\ scene \in Scenes
    /\ stage = "layout" => found = <<>>
    /\ stage = "detect" =>
         /\ tiles = MakeTileLayout(scene.layout, scene.frameSize, scene.tileSize)
         /\ Accepts(scene.layout, scene.frameSize, scene.tileSize)
         /\ \A k \in DOMAIN tiles : Splittable(tiles[k], scene.frameSize, scene.tileSize)
         /\ Len(found) < Len(tiles)
    /\ stage \in {"detect", "gather"} =>
         tiles \in Seq(Squares) /\ found \in Seq(Seq(TileDets)) /\ Len(found) <= Len(tiles)
    /\ stage \in {"fuse", "contain", "nms"} => dets \in Seq(Dets) /\ CompleteKept
    /\ CompleteSurvives
=============================================================================
