------------------------------ MODULE TileLayout ------------------------------
(***************************************************************************)
(* How a frame is cut into tiles, and how what a tile's detector reports   *)
(* is carried back to the frame (common/tiled_shard.py).                   *)
(*                                                                         *)
(* A coordinate is a whole number of frame pixels.  A box is               *)
(* <<x1, y1, x2, y2>>: in a tile it counts from the tile's corner, and the *)
(* code's normalised value is that number over the tile's size.  A side of *)
(* a tile is <<axis, edge>>: axis 1 is x and 2 is y, edge 0 is the low one *)
(* and 1 the high one, so that box[axis + 2 * edge] is the box's edge.     *)
(***************************************************************************)
EXTENDS Integers, Sequences

Layouts == {"quadrants_center", "quadrants_global", "quadrants_center_global", "whole"}

Tile(x0, y0, size) == [start |-> <<x0, y0>>, size |-> size]

\* mutation: a tile size that leaves gaps is not refused
AcceptsMutant(layout, frameSize, tileSize) ==
    layout # "whole" => 0 < tileSize /\ tileSize <= frameSize

\* make_tile_layout raises unless four quadrants can cover the frame.
Accepts(layout, frameSize, tileSize) ==
    layout # "whole" => 0 < tileSize /\ tileSize <= frameSize /\ 2 * tileSize >= frameSize

Quadrants(frameSize, tileSize) ==
    LET step == frameSize - tileSize
    IN  << Tile(0, 0, tileSize), Tile(step, 0, tileSize),
           Tile(0, step, tileSize), Tile(step, step, tileSize) >>

Center(frameSize, tileSize) ==
    LET offset == (frameSize - tileSize) \div 2 IN Tile(offset, offset, tileSize)

MakeTileLayout(layout, frameSize, tileSize) ==
    LET center == IF layout \in {"quadrants_center", "quadrants_center_global"}
                    THEN <<Center(frameSize, tileSize)>> ELSE <<>>
        global == IF layout \in {"quadrants_global", "quadrants_center_global"}
                    THEN <<Tile(0, 0, frameSize)>> ELSE <<>>
    IN  IF layout = "whole" THEN <<Tile(0, 0, frameSize)>>
        ELSE Quadrants(frameSize, tileSize) \o center \o global

Sides == {1, 2} \X {0, 1}

\* The sides of a tile that are seams inside the frame rather than borders of it.
SeamSides(tile, frameSize) ==
    {s \in Sides : IF s[2] = 0 THEN tile.start[s[1]] > 0
                               ELSE tile.start[s[1]] + tile.size < frameSize}

-----------------------------------------------------------------------------
(* split_frame: a tile larger than the model's input is averaged block by    *)
(* block, which needs a whole factor.                                        *)

Splittable(tile, frameSize, inputSize) ==
    /\ \A axis \in {1, 2} : 0 <= tile.start[axis] /\ tile.start[axis] + tile.size <= frameSize
    /\ tile.size % inputSize = 0

\* The frame's pixels that pixel p of a tile's crop is the mean of.
CropPixel(tile, inputSize, p) ==
    LET k == tile.size \div inputSize
        Along(axis) == tile.start[axis] + k * p[axis] .. tile.start[axis] + k * (p[axis] + 1) - 1
    IN  Along(1) \X Along(2)

\* tile_boxes_to_frame: a box moves by the tile's corner, with no change of unit.
ToFrame(box, tile) == [i \in 1 .. 4 |-> box[i] + tile.start[IF i % 2 = 1 THEN 1 ELSE 2]]

\* The seams that cut a box of the tile off: its edge lies within 5 % of the tile
\* (edge_eps) of that side, or beyond it on the high side.
SeamTruncations(box, tile, frameSize) ==
    {s \in SeamSides(tile, frameSize) :
        IF s[2] = 0 THEN 20 * box[s[1]] <= tile.size
                    ELSE 20 * box[s[1] + 2] >= 19 * tile.size}
=============================================================================
