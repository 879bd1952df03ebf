------------------------ MODULE ShardClientProperties ------------------------
(***************************************************************************)
(* What the streaming client promises.  The properties are grouped by what *)
(* they assume of the fleet: some hold whatever the services and SOAM do,  *)
(* some only when SOAM delivers each output once, some are what a comment  *)
(* or a document of the application says and the code does not do.         *)
(***************************************************************************)
EXTENDS ShardClient

Labels == {"acquire", "register", "send", "fetch", "check", "submit", "dump", "mark", "clean",
           "release", "look", "fire", "wait", "join", "close", "teardown", "report",
           "exit", "dead", "exited"}

ThreadsOK ==
    /\ pc \in [Threads -> Labels]
    /\ arg \in [Fetchers -> Frames \cup {NoId}] /\ bad \in [Fetchers -> BOOLEAN]
    /\ next \in 0 .. Count /\ tile \in 0 .. NTiles
    /\ segSeen \in Nat /\ infSeen \in Nat
ClientOK ==
    /\ sem \in 0 .. InFlight
    /\ known \subseteq Frames /\ errored \subseteq Frames
    /\ done \subseteq Frames /\ dispatched \subseteq Frames
    /\ got \in [Frames -> Nat]
    /\ idle \in BOOLEAN /\ stalled \in BOOLEAN /\ doneEvt \in BOOLEAN
    /\ dumped \in [Frames -> Nat] /\ dumpOpen \in BOOLEAN /\ sessOpen \in BOOLEAN
TotalsOK ==
    /\ segErr \in Nat /\ infOk \in Nat /\ infErr \in Nat
    /\ imgDone \in Nat /\ imgErr \in Nat /\ boxes \in Nat
SoamOK ==
    /\ segTasks \in [Frames -> Nat] /\ segOut \in [Frames \X Kinds -> Nat]
    /\ infTasks \in [Frames \X Tiles -> Nat] /\ infOut \in [Frames \X Tiles \X Kinds -> Nat]
    /\ stitchTasks \in [Frames -> Nat] /\ stitchOut \in [Frames \X Kinds -> Nat]
    /\ faults \in [FaultKinds -> Nat]
BusOK ==
    /\ dir \subseteq Frames
    /\ segFiles \subseteq Frames \X Tiles /\ detFiles \subseteq Frames \X Tiles

\* Every variable has its type; the semaphore's counter never leaves 0 .. InFlight
\* (BoundedSemaphore, shard_client.py:199).
TypeOK == ThreadsOK /\ ClientOK /\ TotalsOK /\ SoamOK /\ BusOK

-----------------------------------------------------------------------------
(* Whatever the services do, and however SOAM duplicates or fails tasks      *)

\* Thread t is inside _finish for frame f, between the marking and the end of
\* sem.release().
Finishing(t, f) == pc[t] \in {"clean", "release"} /\ arg[t] = f
Cleaning(t, f)  == pc[t] = "clean" /\ arg[t] = f
Entering(f)     == pc["seg_submit"] = "register" /\ f = next + 1

HoldsSlot(f) == \/ f \in known \ done
                \/ \E t \in Fetchers : Finishing(t, f)
                \/ Entering(f)
Held == {f \in Frames : HoldsSlot(f)}

\* Each slot of the in-flight semaphore is either free or held by exactly one
\* frame: registered and not finished, being finished by one thread, or about to
\* be registered.  A slot is never lost to a finished frame and never given back
\* twice, which is what the guard of _finish is for (shard_client.py:219-224).
SemAccounting == sem + Cardinality(Held) = InFlight

\* The shared bus holds a directory only for a frame that holds a slot, so it
\* never has more than InFlight of them: rmtree comes before release
\* (shard_client.py:233-234), and no late writer brings a directory back.
BusBounded == dir \subseteq Held /\ Cardinality(dir) + sem <= InFlight

\* Where frame f is in the life that FrameWindow describes.
Phase == [f \in Frames |-> IF f \in Held THEN "held"
                           ELSE IF f \in done THEN "freed" ELSE "queued"]
Window == INSTANCE FrameWindow WITH Slots <- InFlight, phase <- Phase

\* The client implements the abstract window of InFlight slots: each frame is
\* admitted once, freed once, and never admitted again (the acquire and release
\* of "sem", shard_client.py:234 and 239).
ImplementsWindow == Window!Spec

-----------------------------------------------------------------------------
(* The inductive invariant behind the three properties above                 *)

\* Where the control of each thread puts bounds on what it has in hand.
Control ==
    /\ pc["seg_submit"] \in {"acquire", "register", "send", "dead", "exit"}
    /\ pc["seg_submit"] \in {"register", "send", "dead"} => next < Count
    /\ pc["seg_fetch"] = "submit" => arg["seg_fetch"] \in Frames /\ tile < NTiles
    /\ pc["inf_fetch"] = "submit" => arg["inf_fetch"] \in Frames
    /\ pc["stitch_fetch"] = "dump" => arg["stitch_fetch"] \in Frames
    /\ \A t \in Fetchers : pc[t] = "release" => arg[t] # NoId

\* The submitter registers the frames in order, each before it is sent.
Registered == IF pc["seg_submit"] \in {"send", "dead"} THEN next + 1 ELSE next
Enrolled == \A f \in Frames : f \in known <=> f <= Registered

\* No stage past the segment service has seen f.
Unsplit(f) ==
    /\ \A kind \in Kinds : segOut[<<f, kind>>] = 0 /\ stitchOut[<<f, kind>>] = 0
    /\ \A k \in Tiles : /\ infTasks[<<f, k>>] = 0
                         /\ \A kind \in Kinds : infOut[<<f, k, kind>>] = 0
    /\ stitchTasks[f] = 0
    /\ \A t \in Fetchers : arg[t] # f
    /\ f \notin done

\* A frame not sent yet, or whose segment task has not been run, is unsplit; a
\* frame has at most one segment task.
Fresh ==
    \A f \in Frames :
        /\ segTasks[f] > 0 => segTasks[f] = 1 /\ f <= next
        /\ f > next \/ segTasks[f] > 0 => Unsplit(f)

\* A frame is finished by one thread.
FinishOnce ==
    \A f \in Frames, t \in Fetchers :
        Finishing(t, f) => f \in done /\ \A u \in Fetchers : Finishing(u, f) => u = t

\* A directory belongs to a frame that is not finished, or is about to be removed.
Owned(f) == f \in known \ done \/ \E t \in Fetchers : Cleaning(t, f)
BusOwned == \A f \in dir : Owned(f)

\* The strengthening of SemAccounting and BusBounded that every step preserves.
IInv == TypeOK /\ Control /\ Enrolled /\ Fresh /\ FinishOnce /\ BusOwned /\ SemAccounting

-----------------------------------------------------------------------------
(* When SOAM delivers each output once                                       *)

\* A stitch task exists only for a frame all of whose tiles have detections on
\* the bus ("once all tiles are in", shard_client.py:273 and 301).
StitchComplete == \A f \in Frames : stitchTasks[f] > 0 => AllDetections(f)

\* Nobody still has work to do on a frame that _finish has taken: its directory
\* goes away with no inference or stitch task left that would look for it.
NoTileOrphaned ==
    \A f \in done : stitchTasks[f] = 0 /\ \A k \in Tiles : infTasks[<<f, k>>] = 0

\* A frame is counted as an error only for a task that a service or SOAM really
\* failed, never because the pipeline removed or skipped a file too early.
NoSpuriousFailure ==
    /\ imgErr <= faults["err"] + faults["failed"]
    /\ segErr + infErr <= faults["err"] + faults["failed"]

Reporting == pc["main"] \in {"join", "close", "teardown", "report", "exited"} /\ ~stalled

\* What a run that did not stall reports agrees with what it wrote: every frame
\* is counted once, the dump has one record for each frame reported as done and
\* none for a frame reported as failed (shard_client.py:330-336, 377, 391, 398).
ReportAgrees ==
    Reporting => /\ imgDone = Count
                 /\ boxes = imgDone - imgErr
                 /\ \A f \in Frames : dumped[f] <= 1
                 /\ Cardinality({f \in Frames : dumped[f] = 1}) = imgDone - imgErr

\* A run that did not stall has counted a reply for every tile of every frame
\* that was split ("segments_done" and "segment_errors", shard_client.py:392).
TilesAccounted == Reporting => infOk + infErr = NTiles * (Count - segErr)

-----------------------------------------------------------------------------
(* Liveness                                                                  *)

\* Whatever the fleet does, the client reports in the end "instead of hanging
\* forever" (shard_client.py:338-340).  Only the client's own threads and the
\* clock are fair; the services may never answer.
Terminates == <>(pc["main"] = "exited")

\* When every task is answered and the stall timeout is long enough, the run
\* goes through: no order of replies blocks the three stages on each other, which
\* fetching one output at a time is there to prevent (shard_client.py:253-256).
Completes == <>(done = Frames /\ pc["main"] = "exited" /\ ~stalled)

-----------------------------------------------------------------------------
(* What the application says and the code does not do                        *)

\* Every output that finishes a frame carries the id of that frame
\* (apps/image-shard-inference/README.md, "Per-frame correlation").
OutputsCorrelated == \A t \in Fetchers : pc[t] = "mark" => arg[t] \in known
=============================================================================
