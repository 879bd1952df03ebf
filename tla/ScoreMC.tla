------------------------------- MODULE ScoreMC -------------------------------
(***************************************************************************)
(* Runs to score.  Frames of 8 units, objects half as wide, and detections *)
(* at overlaps of 1/2, 3/5, 3/4 and 1, on both sides of the thresholds.    *)
(***************************************************************************)
EXTENDS ScoreProperties

TheLabels == {1, 2}

Left   == <<0, 0, 4, 4>>
Middle == <<2, 0, 6, 4>>
Right  == <<4, 0, 8, 4>>
Half   == <<0, 0, 2, 4>>
Most   == <<0, 0, 3, 4>>
Astride == <<1, 0, 5, 4>>       \* as far from Left as from Middle

Det(box, score, label) == [box |-> box, score |-> score, label |-> label]
Raw(box, shape, label) ==
    [box |-> <<box[1] * shape[2], box[2] * shape[1], box[3] * shape[2], box[4] * shape[1]>>,
     label |-> label]

Shapes == <<<<1, 2>>, <<3, 2>>>>

MakeKit(anns0, anns1, ref0, ref1) ==
    [count |-> 2, shapes |-> Shapes,
     annotations |-> << [k \in DOMAIN anns0 |-> Raw(anns0[k][1], Shapes[1], anns0[k][2])],
                        [k \in DOMAIN anns1 |-> Raw(anns1[k][1], Shapes[2], anns1[k][2])] >>,
     reference |-> <<ref0, ref1>>]

ASet(name, count, k) == [name |-> name, count |-> count, kit |-> k]
Line(sample, dets) == [sample |-> sample, dets |-> dets]

Scene(lines, npz, sets, k, maxBoxes, gate) ==
    [set |-> <<"voc">>, npz |-> npz, lines |-> lines, sets |-> sets, kits |-> k,
     maxBoxes |-> maxBoxes, gate |-> gate]

UpTo2(s) == {<<>>} \cup {<<a>> : a \in s} \cup {<<a, b>> : <<a, b>> \in s \X s}
Found    == {Det(b, s, 1) : b \in {Left, Most, Half, Astride}, s \in {1, 2}} \cup {Det(Left, 2, 2)}
Objects  == {<<<<Left, 1>>>>, <<<<Left, 1>>, <<Middle, 1>>>>, <<<<Left, 1>>, <<Right, 2>>>>}

\* Everything that may be found in one frame, and an object or nothing in another.
Matching ==
    {Scene(<<Line(0, d), Line(1, e)>>, "mine", {}, [mine |-> MakeKit(o, p, <<>>, <<>>)], 2, 0) :
        d \in UpTo2(Found), e \in {<<>>, <<Det(Left, 2, 1)>>, <<Det(Half, 1, 1)>>},
        o \in Objects, p \in {<<>>, <<<<Left, 1>>>>}}

\* A run that found the objects themselves; the dump's lines in either order.
AsFound(o, up) == [k \in DOMAIN o |-> Det(o[k][1], IF up THEN k ELSE 3 - k, o[k][2])]

Exactly ==
    {Scene(<<Line(1, AsFound(q, up)), Line(0, AsFound(p, up))>>, "mine", {},
           [mine |-> MakeKit(p, q, <<>>, <<>>)], m, 0) :
        p \in Objects, q \in {<<>>, <<<<Right, 2>>>>}, m \in {1, 2}, up \in BOOLEAN}

\* A run gated like the reference, for every gate and cap, as it was stored or the other way
\* round; in another frame a detection of the same class and score as one in the first.
Gates ==
    {LET ref  == <<Det(Most, 1, 1), Det(Left, 2, 1), Det(Right, 3, 2)>>
         kept == SelectSeq(<<ref[3], ref[2], ref[1]>>, LAMBDA d : d.score >= g)
         tied == <<Det(Half, 2, 1)>>
         also == IF g <= 2 THEN tied ELSE <<>>
         stored == IF r THEN ref ELSE <<ref[3], ref[2], ref[1]>>
     IN  Scene(<<Line(0, kept), Line(1, also)>>, "mine", {},
               [mine |-> MakeKit(<<<<Left, 1>>, <<Right, 2>>>>, <<<<Left, 1>>>>, stored, tied)], m, g) :
       g \in 0 .. 4, m \in 1 .. 3, r \in BOOLEAN}

\* Sets that were prepared, and dumps that are empty, repeat a sample or reach too far.
Some == <<Det(Left, 1, 1)>>
Sets == {{}, {ASet(<<"voc">>, 2, "mine")}, {ASet(<<"voc">>, 2, "mine"), ASet(<<"kws">>, 1, "other")},
         {ASet(<<"kws">>, 2, "other")}, {ASet(<<"voc">>, 2, "mine"), ASet(<<"voc", "full">>, 4, "other")}}
Kits == [mine  |-> MakeKit(<<<<Left, 1>>>>, <<<<Right, 2>>>>, Some, <<>>),
         other |-> MakeKit(<<<<Right, 1>>>>, <<>>, <<>>, Some)]

Choosing ==
    {Scene(l, n, s, Kits, 2, 0) :
        l \in {<<>>, <<Line(0, Some)>>, <<Line(1, Some), Line(1, <<>>)>>, <<Line(2, Some)>>},
        n \in {"none", "mine"}, s \in Sets}

AllScenes == Matching \cup Exactly \cup Gates \cup Choosing

\* The README's full split: prepared under its own file's name beside the smaller, committed
\* set "voc", and run by that name.
FullSplit ==
    {[Scene(<<Line(s, Some)>>, "none",
            {ASet(<<"voc">>, 1, "other"), ASet(<<"voc", "full">>, 2, "mine")},
            [Kits EXCEPT !.other.count = 1], 2, 0) EXCEPT !.set = <<"voc", "full">>] : s \in 0 .. 1}
=============================================================================
