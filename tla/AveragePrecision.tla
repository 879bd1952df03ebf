--------------------------- MODULE AveragePrecision ---------------------------
(***************************************************************************)
(* Average precision of a ranked list of detections (common/               *)
(* detection_map.py).  A precision is counted in whole parts of One, and   *)
(* recall in annotations, so that an AP is a number of parts of            *)
(* One * annotations: exact when One is a multiple of every rank.          *)
(* A detection is known by its frame and its place in the frame's list.    *)
(***************************************************************************)
EXTENDS Detections

CONSTANT One

ASSUME OneAssumption == One \in Nat \ {0}

\* The IoU thresholds, in percent.
IoUThresholds == {50 + 5 * k : k \in 0 .. 9}

\* Frame-normalised boxes, in units of 1/frameSize, to raw pixels in the same units.
ScaleToRaw(box, shape) == [i \in 1 .. 4 |-> box[i] * shape[IF i % 2 = 1 THEN 2 ELSE 1]]

Union(a, b) == Area(a) + Area(b) - Intersection(a, b)

\* The annotation a detection overlaps most; the first of them on a tie.
Assigned(det, annotations) ==
    CHOOSE j \in DOMAIN annotations : \A k \in DOMAIN annotations \ {j} :
        LET mine   == Intersection(det.box, annotations[j]) * Union(det.box, annotations[k])
            theirs == Intersection(det.box, annotations[k]) * Union(det.box, annotations[j])
        IN  mine > theirs \/ (mine = theirs /\ j < k)

NotYet(a, detected) == a \notin detected

\* Which detections of one class in one frame are true positives, best score first.
TruePositives(dets, annotations, threshold) ==
    LET Hit(det, detected) ==
          /\ annotations # <<>>
          /\ IoU(det.box, annotations[Assigned(det, annotations)], <<threshold, 100>>)
          /\ NotYet(Assigned(det, annotations), detected)
        Mark(detected, det) ==
          IF Hit(det, detected) THEN detected \cup {Assigned(det, annotations)} ELSE detected
        marked[k \in 0 .. Len(dets)] == IF k = 0 THEN {} ELSE Mark(marked[k - 1], dets[k])
    IN  [k \in DOMAIN dets |-> Hit(dets[k], marked[k - 1])]

\* The true positives among the first k, and their share.
CumulativeTp(hits) == [k \in DOMAIN hits |-> Cardinality({i \in 1 .. k : hits[i]})]
Precision(tp)      == [k \in DOMAIN tp |-> (One * tp[k]) \div k]

\* The highest precision at this recall or a higher one.
EnvelopeMutant(mpre) == mpre          \* mutation: no envelope
Envelope(mpre) == [i \in DOMAIN mpre |-> Max({mpre[j] : j \in i .. Len(mpre)})]

Total(s) ==
    LET sum[k \in 0 .. Len(s)] == IF k = 0 THEN 0 ELSE sum[k - 1] + s[k] IN sum[Len(s)]

\* The area under the envelope.
ComputeAp(recall, precision, full) ==
    LET mrec == <<0>> \o recall \o <<full>>
        mpre == Envelope(<<0>> \o precision \o <<0>>)
    IN  Total([i \in 1 .. Len(recall) + 1 |-> (mrec[i + 1] - mrec[i]) * mpre[i + 1]])

OfLabel(s, label) == Index(s, {k \in DOMAIN s : s[k].label = label})
BoxesOf(s) == [k \in DOMAIN s |-> s[k].box]

\* All of a class: the frame of each and its place there.
Pool(frames, label) == UNION {{i} \X DOMAIN OfLabel(frames[i], label) : i \in DOMAIN frames}

\* The orders in which argsort may leave scores: its default is not stable.
Rankings(scores) ==
    {p \in SetToSeqs(DOMAIN scores) : \A i, j \in DOMAIN p : i < j => scores[p[i]] >= scores[p[j]]}

\* The AP of a class, with the detections of all frames in the given order.  A class
\* nobody annotated counts as zero.
AveragePrecision(detections, annotations, label, threshold, order) ==
    LET OfFrame(i) == TruePositives(OfLabel(detections[i], label),
                                    BoxesOf(OfLabel(annotations[i], label)), threshold)
        total == Cardinality(Pool(annotations, label))
        tp    == CumulativeTp([k \in DOMAIN order |-> OfFrame(order[k][1])[order[k][2]]])
    IN  IF total = 0 THEN 0 ELSE ComputeAp(tp, Precision(tp), total)

ScoresOf(detections, label) ==
    [p \in Pool(detections, label) |-> OfLabel(detections[p[1]], label)[p[2]].score]

\* evaluate: the AP of every class at every threshold; the ties of a class fall the same
\* way each time, for its scores are sorted anew but are the same.
Evaluate(detections, annotations, labels, order) ==
    [t \in IoUThresholds |->
        [c \in labels |-> AveragePrecision(detections, annotations, c, t, order[c])]]
===============================================================================
