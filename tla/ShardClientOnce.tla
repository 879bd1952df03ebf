--------------------------- MODULE ShardClientOnce ---------------------------
(***************************************************************************)
(* The inductive invariant behind what the client promises when SOAM       *)
(* delivers each output once (MaxDup = 0).  It is a ledger: every frame    *)
(* and every tile of a frame is in at most one place of the pipeline, and  *)
(* each total of the report is the number of frames or tiles that are past *)
(* a place.                                                                *)
(***************************************************************************)
EXTENDS ShardClientProperties

One(p) == IF p THEN 1 ELSE 0

\* The outputs of frame f, or of tile k of frame f, that wait in a session.
Answers(out, f)        == out[<<f, "ok">>] + out[<<f, "err">>] + out[<<f, "failed">>]
TileAnswers(out, f, k) == out[<<f, k, "ok">>] + out[<<f, k, "err">>] + out[<<f, k, "failed">>]

\* Thread t is at a label with frame f in hand.
Has(t, label, f) == pc[t] = label /\ arg[t] = f

-----------------------------------------------------------------------------
(* Where a frame and its tiles are                                           *)

\* Frame f before seg_fetch: not sent, a segment task, or a segment output.
Up(f) == One(f > next) + segTasks[f] + Answers(segOut, f)

\* Tile k of frame f between seg_fetch and inf_fetch: to be submitted, an
\* inference task, or an inference output.
Tile(f, k) == One(Has("seg_fetch", "submit", f) /\ k >= tile)
              + infTasks[<<f, k>>] + TileAnswers(infOut, f, k)

\* Frame f on its way to _finish: a stitch task or output, or in a thread's hand.
Down(f) == One(Has("inf_fetch", "submit", f)) + stitchTasks[f] + Answers(stitchOut, f)
           + One(Has("stitch_fetch", "dump", f)) + One(Has("stitch_fetch", "mark", f))
           + One(Has("inf_fetch", "mark", f)) + One(Has("seg_fetch", "mark", f))

\* Nothing of a frame is in two places, and nothing of a finished one anywhere.
OnePlace == \A f \in Frames, k \in Tiles : Up(f) + Tile(f, k) + Down(f) + One(f \in done) <= 1

\* inf_fetch knows nothing of a frame that seg_fetch has not seen.
Started == \A f \in Frames :
    Up(f) = 1 => got[f] = 0 /\ f \notin errored /\ f \notin dispatched

\* The tiles of f that are past inf_fetch, and those that left detections there.
Closed(f)   == {k \in Tiles : Tile(f, k) = 0}
Detected(f) == {k \in Closed(f) : <<f, k>> \in detFiles}

\* "got" never runs ahead of the tiles that are past inf_fetch; without an error
\* it never runs ahead of the detections on the bus.
Counted == \A f \in Frames :
    /\ got[f] <= Cardinality(Closed(f))
    /\ f \notin errored \cup done => got[f] <= Cardinality(Detected(f))

-----------------------------------------------------------------------------
(* What a place says about the bus                                           *)

\* The file that the next stage opens is there.
Filed(f, k) ==
    /\ segOut[<<f, "ok">>] > 0 => <<f, k>> \in segFiles
    /\ Has("seg_fetch", "submit", f) /\ k >= tile => <<f, k>> \in segFiles
    /\ infTasks[<<f, k>>] > 0 => <<f, k>> \in segFiles
    /\ infOut[<<f, k, "ok">>] > 0 => <<f, k>> \in detFiles
Files == \A f \in Frames, k \in Tiles : Filed(f, k)

\* A frame goes to stitch with all of its detections, and to failure for an error.
Prepared(f) ==
    /\ Has("inf_fetch", "submit", f) \/ stitchTasks[f] > 0 => AllDetections(f)
    /\ Has("inf_fetch", "mark", f) => f \in errored
Ready == \A f \in Frames : Prepared(f)

\* Only a dispatched frame is in the stitch stage.
Stitching(f) == \/ Has("inf_fetch", "submit", f) \/ stitchTasks[f] > 0
                \/ Answers(stitchOut, f) > 0 \/ Has("stitch_fetch", "dump", f)
                \/ Has("stitch_fetch", "mark", f)
Dispatched == \A f \in Frames : Stitching(f) => f \in dispatched

\* The "failed" argument of the two threads that call _finish only for a failure,
\* and of one that has recorded a success.
Verdicts ==
    /\ \A t \in {"seg_fetch", "inf_fetch"} : pc[t] = "mark" => bad[t]
    /\ pc["stitch_fetch"] = "dump" => ~bad["stitch_fetch"]

Places == OnePlace /\ Started /\ Counted /\ Files /\ Ready /\ Dispatched /\ Verdicts

-----------------------------------------------------------------------------
(* Errors                                                                    *)

\* Outputs that report a failure and have not been fetched.
Bad(out)      == {f \in Frames : out[<<f, "err">>] + out[<<f, "failed">>] > 0}
BadTiles(out) == {t \in Frames \X Tiles :
                     out[<<t[1], t[2], "err">>] + out[<<t[1], t[2], "failed">>] > 0}
SegBad    == Bad(segOut)
InfBad    == BadTiles(infOut)
StitchBad == Bad(stitchOut)

Failures == faults["err"] + faults["failed"]

\* Each failure of a task is blamed once: for an output not fetched yet, or for the
\* error that the fetched one was counted as.
TaskErrors == segErr + infErr + Cardinality(SegBad) + Cardinality(InfBad) <= Failures

\* The same for frames: several failed tiles make one failed frame.
FrameErrors ==
    imgErr + Cardinality(SegBad) + Cardinality(InfBad) + Cardinality(StitchBad)
           + Cardinality(errored \ done) + One(pc["seg_fetch"] = "mark")
           + One(pc["stitch_fetch"] = "mark" /\ bad["stitch_fetch"]) <= Failures

\* _finish is called without an id only for a failed task of segment or stitch.
Named ==
    /\ bad["inf_fetch"] => arg["inf_fetch"] # NoId
    /\ pc["stitch_fetch"] = "mark" /\ ~bad["stitch_fetch"] => arg["stitch_fetch"] # NoId

Errors == TaskErrors /\ FrameErrors /\ Named

-----------------------------------------------------------------------------
(* Totals                                                                    *)

\* A thread that has an answer without an id: it marks nothing and dies of it.
Lost(t) == arg[t] = NoId /\ bad[t]
Misled(t) == Lost(t) /\ pc[t] # "mark"

\* Frame f is nowhere and will not be finished.
Gone(f) == f \notin done /\ Up(f) = 0 /\ Down(f) = 0 /\ \A k \in Tiles : Tile(f, k) = 0

\* One frame is gone for each thread that is lost, and not the same one.
LostFrames ==
    /\ \A t \in Fetchers : Lost(t) => pc[t] \in {"mark", "clean", "dead"}
    /\ Lost("seg_fetch") => \E f \in Frames : Gone(f) /\ f \notin dispatched
    /\ Lost("stitch_fetch") => \E f \in Frames : Gone(f) /\ f \in dispatched

\* "images_done" counts the frames marked and the answers without an id.
FramesMarked == imgDone = Cardinality(done) + One(Misled("seg_fetch")) + One(Misled("stitch_fetch"))

\* seg_fetch has seen every frame that is past it.
Waiting == {f \in Frames : Up(f) = 1}
FramesSeen == segSeen + Cardinality(Waiting) = Count

\* Every tile of a frame that was split is open or has been counted.
Open == {t \in Frames \X Tiles : Tile(t[1], t[2]) = 1}
TilesCounted == ~stalled => infOk + infErr + Cardinality(Open) = NTiles * (segSeen - segErr)

\* A success is recorded between the fetch and the dump, then finished as one.
BoxesCounted ==
    ~stalled => boxes = imgDone - imgErr
                        + One(pc["stitch_fetch"] = "dump")
                        + One(pc["stitch_fetch"] = "mark" /\ ~bad["stitch_fetch"])

\* The dump has one record for each frame finished as a success, or about to be.
Recorded == {f \in Frames : dumped[f] = 1}
DumpCounted ==
    /\ \A f \in Frames : dumped[f] <= 1
    /\ \A f \in Frames : dumped[f] > 0 => f \in done \/ Has("stitch_fetch", "mark", f)
    /\ Cardinality(Recorded) = imgDone - imgErr
                               + One(pc["stitch_fetch"] = "mark" /\ ~bad["stitch_fetch"])

\* Without a stall, main goes past its wait only when every frame has been counted.
EndReached ==
    /\ pc["main"] # "wait" \/ ~dumpOpen \/ ~sessOpen => doneEvt
    /\ doneEvt /\ ~stalled => imgDone >= Count

Sums   == LostFrames /\ FramesMarked /\ FramesSeen /\ TilesCounted /\ BoxesCounted /\ DumpCounted
Totals == Sums /\ EndReached

OnceInv == Places /\ Errors /\ Totals
=============================================================================
