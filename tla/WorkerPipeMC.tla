----------------------------- MODULE WorkerPipeMC -----------------------------
(***************************************************************************)
(* Services for TLC.  Payloads: one that fits a buffer of one byte and one *)
(* or two that do not, with a line end inside.                             *)
(***************************************************************************)
EXTENDS WorkerPipeProperties

MixedShapes == { <<"b">>, <<"nl", "b">>, <<"b", "nl">> }
BatchShapes == { <<"b">>, <<"b", "nl">> }

\* The segment stage: no lock, so it relies on SOAM for one invocation at a time.  The buffer
\* may fail to be created or to be mapped; without it, or when it is too small, payloads go
\* inline.
SegmentService ==
    [shapes |-> MixedShapes, shmBytes |-> 1, loadsFirst |-> FALSE, locked |-> FALSE,
     serial |-> TRUE, losesAlloc |-> TRUE, losesMap |-> TRUE]

\* The stitch stage: no payload and no buffer.  The inference stage: neither, behind a lock.
StitchService    == [SegmentService EXCEPT !.shapes = {}, !.shmBytes = 0]
InferenceService == [StitchService EXCEPT !.locked = TRUE, !.serial = FALSE]

\* The batch service: a buffer that may fail like the segment stage's, invocations that
\* overlap behind the container's lock, and a model that is mapped before the payload is read.
BatchService ==
    [SegmentService EXCEPT !.shapes = BatchShapes, !.loadsFirst = TRUE, !.locked = TRUE,
                           !.serial = FALSE]

AllServices == {SegmentService, StitchService, InferenceService, BatchService}

\* They are services that the theorems of WorkerPipeProofs are about.
ASSUME ServicesAreSound == \A v \in AllServices : Sound(v)
=============================================================================
