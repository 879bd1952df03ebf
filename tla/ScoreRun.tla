------------------------------ MODULE ScoreRun ------------------------------
(***************************************************************************)
(* Scoring a run against ground truth: the dump of merged detections is    *)
(* read line by line, paired with the test kit it came from, and both it   *)
(* and the kit's own reference detections are evaluated by one code        *)
(* (scripts/eval_shard_map.py; score() of the shard dashboard is the same  *)
(* with the kit of the set it ran).                                        *)
(*                                                                         *)
(* A scene is                                                              *)
(*   [set, npz, lines, sets, kits, maxBoxes, gate]                         *)
(* the name of the set that was run, the kit the user names or "none", the *)
(* dump's lines [sample, dets], the prepared sets [name, count, kit], the  *)
(* kits [count, shapes, annotations, reference], and the two options.  A   *)
(* name is the sequence of its words, with "_" between them: the dump of   *)
(* set s is s \o <<run>>.  A detection is [box, score, label].             *)
(***************************************************************************)
EXTENDS AveragePrecision

CONSTANTS
    Scenes,
    Labels      \* the classes, labels[] of every kit

Detection == [box : [1 .. 4 -> Int], score : Int, label : Nat]
Annotation == [box : [1 .. 4 -> Int], label : Nat]

ASSUME ScoresAssumption ==
    \A s \in Scenes :
        /\ s.lines \in Seq([sample : Nat, dets : Seq(Detection)])
        /\ s.npz \in DOMAIN s.kits \cup {"none"} /\ \A x \in s.sets : x.kit \in DOMAIN s.kits
        /\ \A k \in DOMAIN s.kits :
             /\ s.kits[k].count \in Nat
             /\ \A n \in {Len(s.kits[k].reference), Len(s.kits[k].annotations), Len(s.kits[k].shapes)} :
                   s.kits[k].count <= n
             /\ s.kits[k].reference \in Seq(Seq(Detection))
             /\ s.kits[k].annotations \in Seq(Seq(Annotation))
             /\ s.kits[k].shapes \in Seq(Nat \X Nat)
        /\ s.maxBoxes \in Nat /\ s.gate \in Int

VARIABLES
    scene,
    stage,      \* read, choose, check, fleet, reference, done; refused
    at,         \* lines of the dump read
    records,    \* sample -> its last record
    kit,        \* the name of the kit in use
    detections, \* what the last row was computed from, frame by frame
    ranked,     \* the <<scores, order>> that argsort has given for a class
    rows        \* row -> threshold -> class -> AP

vars == <<scene, stage, at, records, kit, detections, ranked, rows>>

Init ==
    /\ scene \in Scenes
    /\ stage = "read" /\ at = 0 /\ records = <<>> /\ kit = "none"
    /\ detections = <<>> /\ ranked = {} /\ rows = <<>>

Refuse == stage' = "refused" /\ UNCHANGED <<scene, at, records, kit, detections, ranked, rows>>

-----------------------------------------------------------------------------
\* A sample dumped twice counts once, with its last line.
ReadLine ==
    /\ stage = "read" /\ at < Len(scene.lines)
    /\ at' = at + 1
    /\ LET line == scene.lines[at + 1]
       IN  records' = [s \in DOMAIN records \cup {line.sample} |->
                         IF s = line.sample THEN line.dets ELSE records[s]]
    /\ UNCHANGED <<scene, stage, kit, detections, ranked, rows>>

ReadEnd ==
    /\ stage = "read" /\ at = Len(scene.lines)
    /\ \/ records = <<>> /\ Refuse
       \/ /\ records # <<>> /\ stage' = "choose"
          /\ UNCHANGED <<scene, at, records, kit, detections, ranked, rows>>

Samples == Ascending(DOMAIN records)
Dump    == scene.set \o <<"r1">>

NamedAfter(set) == IsStrictPrefix(set.name, Dump)

\* The smallest set the dump may be named after, or else the smallest that is big enough.
FindSourceNpz ==
    LET named == {s \in scene.sets : NamedAfter(s)}
        big   == {s \in scene.sets : s.count > Max(DOMAIN records)}
        pool  == IF named # {} THEN named ELSE big
    IN  {s.kit : s \in {s \in pool : \A o \in pool : s.count <= o.count}}

ChooseKit ==
    /\ stage = "choose"
    /\ LET choice == IF scene.npz # "none" THEN {scene.npz} ELSE FindSourceNpz
       IN  \/ choice = {} /\ Refuse
           \/ /\ kit' \in choice /\ stage' = "check"
              /\ UNCHANGED <<scene, at, records, detections, ranked, rows>>

Kit == scene.kits[kit]

Check ==
    /\ stage = "check"
    /\ \/ Max(DOMAIN records) >= Kit.count /\ Refuse
       \/ /\ Max(DOMAIN records) < Kit.count /\ stage' = "fleet"
          /\ UNCHANGED <<scene, at, records, kit, detections, ranked, rows>>

-----------------------------------------------------------------------------
ScoresOfSeq(dets) == [k \in DOMAIN dets |-> dets[k].score]

RankedMutant(dets, order) == dets     \* mutation: taken as they come
Ranked(dets, order) == [k \in DOMAIN order |-> dets[order[k]]]

\* The detections of a frame in raw pixels, best first, at most maxBoxes of them.
TopOf(dets, shape, order) ==
    LET best == SubSeq(Ranked(dets, order), 1, Smaller(scene.maxBoxes, Len(dets)))
    IN  [k \in DOMAIN best |-> [best[k] EXCEPT !.box = ScaleToRaw(@, shape)]]

\* collect: the frames in sample order.  argsort may leave equal scores in any order.
Collections(detsOf) ==
    LET n == Len(Samples)
        Frame(i) == {TopOf(detsOf[Samples[i]], Kit.shapes[Samples[i] + 1], o) :
                        o \in Rankings(ScoresOfSeq(detsOf[Samples[i]]))}
    IN  {f \in [1 .. n -> UNION {Frame(i) : i \in 1 .. n}] : \A i \in 1 .. n : f[i] \in Frame(i)}

Annotations == [i \in DOMAIN Samples |-> Kit.annotations[Samples[i] + 1]]

Orders(collection) ==
    {o \in [Labels -> UNION {Rankings(ScoresOf(collection, c)) : c \in Labels}] :
        \A c \in Labels : o[c] \in Rankings(ScoresOf(collection, c))}

\* argsort is not stable, but it orders the same scores in the same way each time.
Consistent(pairs) == \A p, q \in pairs : p[1] = q[1] => p = q

Row(name, next, detsOf) ==
    /\ stage = name /\ stage' = next
    /\ \E c \in Collections(detsOf) : \E o \in Orders(c) :
         /\ detections' = c
         /\ ranked' = ranked \cup {<<ScoresOf(c, l), o[l]>> : l \in Labels}
         /\ Consistent(ranked')
         /\ rows' = [r \in DOMAIN rows \cup {name} |->
                       IF r = name THEN Evaluate(c, Annotations, Labels, o) ELSE rows[r]]
    /\ UNCHANGED <<scene, at, records, kit>>

FromDump == records

GatedMutant(dets, gate) == Index(dets, {k \in DOMAIN dets : dets[k].score > gate})   \* mutation: strictly above
Gated(dets, gate) == Index(dets, {k \in DOMAIN dets : dets[k].score >= gate})
FromKit == [s \in DOMAIN records |-> Gated(Kit.reference[s + 1], scene.gate)]

Fleet     == Row("fleet", "reference", FromDump)
Reference == Row("reference", "done", FromKit)

Over == stage \in {"done", "refused"} /\ UNCHANGED vars

Next == ReadLine \/ ReadEnd \/ ChooseKit \/ Check \/ Fleet \/ Reference \/ Over

Spec == Init /\ [][Next]_vars
=============================================================================
