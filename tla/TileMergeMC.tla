----------------------------- MODULE TileMergeMC -----------------------------
(***************************************************************************)
(* Scenes for TLC.  A frame of 8 with tiles of 4 has the proportions of    *)
(* the shipped 448 and 224: the center tile starts at a quarter.           *)
(***************************************************************************)
EXTENDS TileMergeProperties

Scene(layout, f, t, objects, overshoot, threshold) ==
    [layout |-> layout, frameSize |-> f, tileSize |-> t, objects |-> objects,
     overshoot |-> overshoot, threshold |-> threshold]

Object(parts, label, levels) == [parts |-> parts, label |-> label, levels |-> levels]

Squared(spans) == {<<x[1], y[1], x[2], y[2]>> : <<x, y>> \in spans \X spans}

\* Ends that lie on seams, beside them, and at the frame's border.
Spans == {<<0, 3>>, <<0, 8>>, <<1, 4>>, <<2, 4>>, <<1, 7>>, <<3, 5>>, <<4, 7>>}
Rectangles == Squared(Spans)

OneObject ==
    {Scene(l, 8, 4, <<Object({r}, 1, {1, 2})>>, 0, 0) : l \in Layouts, r \in Rectangles}

\* A body with a narrow head: its pieces do not line up, or only just.
Leaning == { {<<1, 1, 2, 4>>, <<1, 4, 7, 7>>}, {<<3, 1, 5, 5>>, <<1, 5, 7, 8>>} }

OddOnes ==
    {Scene("quadrants_center_global", 8, 4, <<Object(p, 1, {1, 2})>>, o, th) :
        p \in Leaning \cup {{<<1, 1, 7, 7>>}, {<<2, 2, 4, 4>>}}, o \in {0, 1}, th \in {0, 9}}

\* Two objects: overlapping, one inside the other, side by side across a seam.
Pairings == { <<<<1, 1, 4, 7>>, <<4, 1, 7, 7>>>>, <<<<0, 2, 6, 6>>, <<2, 3, 4, 5>>>>,
              <<<<1, 1, 7, 3>>, <<1, 2, 7, 4>>>>, <<<<3, 0, 5, 8>>, <<0, 3, 8, 5>>>> }

TwoObjects ==
    {Scene("quadrants_global", 8, 4, <<Object({p[1]}, 1, {s}), Object({p[2]}, c, {3 - s})>>, 0, 0) :
        p \in Pairings, c \in {1, 2}, s \in {1, 2}}

\* Layouts that do not fit, and tiles that overlap.
OddSizes ==
    {Scene(l, s[1], s[2], <<Object({<<1, 0, s[1] - 1, s[1]>>}, 1, {1, 2})>>, 0, 0) :
        l \in Layouts, s \in {<<4, 1>>, <<4, 3>>, <<6, 3>>, <<5, 4>>, <<3, 4>>, <<3, 3>>}}

\* Finer grids: boxes that end at a seam, of quadrants that meet, and of quadrants that overlap
\* by less than the margin of 5 %.
AtSeams ==
    {Scene(l, 16, 8, <<Object({r}, 1, {1, 2})>>, 0, 0) :
        l \in Layouts, r \in Squared({<<5, 8>>, <<3, 7>>, <<7, 9>>})}
    \cup {Scene("quadrants_center", 39, 20, <<Object({r}, 1, {1, 2})>>, 0, 0) :
        r \in Squared({<<12, 20>>, <<18, 21>>, <<3, 30>>})}

AllScenes == OneObject \cup OddOnes \cup TwoObjects \cup OddSizes \cup AtSeams
=============================================================================
