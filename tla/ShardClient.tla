----------------------------- MODULE ShardClient -----------------------------
(***************************************************************************)
(* The streaming client of the image-shard-inference application           *)
(* (src/src/apps/image-shard-inference/client/shard_client.py) together    *)
(* with the three SOAM services as the client sees them.                   *)
(*                                                                         *)
(* One process, six threads.  "seg_submit" sends one segment task per      *)
(* frame, bounded by a semaphore; "seg_fetch" turns every split frame into *)
(* NTiles inference tasks; "inf_fetch" counts tile replies and sends one   *)
(* stitch task per complete frame; "stitch_fetch" records the merged       *)
(* detections; "watchdog" abandons a run in which nothing finishes; "main" *)
(* waits, tears everything down and reports.  A frame is finished by the   *)
(* nested function _finish, which any of the three fetch threads calls.    *)
(*                                                                         *)
(* A thread's local control is pc[t].  What happens between two            *)
(* acquisitions of state_lock, or between two calls that other threads can *)
(* observe, is one action.                                                 *)
(***************************************************************************)
EXTENDS Naturals, FiniteSets

CONSTANTS
    Count,      \* args.count: frames to send
    NTiles,     \* _tile_count(meta): tiles per frame
    InFlight,   \* the initial value of the BoundedSemaphore
    CanStall,   \* whether --stall-timeout can ever elapse between two frames
    MaxErr,     \* bound: tasks a worker answers with an error
    MaxFailed,  \* bound: tasks SOAM gives up on (retry limit)
    MaxDup      \* bound: outputs SOAM delivers a second time

ASSUME ConstantsAssumption ==
    /\ Count \in Nat
    /\ NTiles \in Nat \ {0}
    /\ InFlight \in Nat \ {0}
    /\ CanStall \in BOOLEAN
    /\ MaxErr \in Nat /\ MaxFailed \in Nat /\ MaxDup \in Nat

Frames   == 1 .. Count
Tiles    == 0 .. NTiles - 1
NoId     == 0                       \* the image_id of an empty reply: None
Fetchers == {"seg_fetch", "inf_fetch", "stitch_fetch"}
Threads  == Fetchers \cup {"seg_submit", "watchdog", "main"}
Kinds    == {"ok", "err", "failed"} \* reply ok / reply not ok / task failed
FaultKinds == {"err", "failed", "dup"}
Budget   == [err |-> MaxErr, failed |-> MaxFailed, dup |-> MaxDup]

VARIABLES
    \* threads
    pc, arg, bad,        \* control, image_id in hand, the "failed" argument
    next,                \* seg_submit: frames sent so far
    tile,                \* seg_fetch: tiles of arg submitted so far
    segSeen, infSeen,    \* the fetch loops' "seen" counters
    \* shared client state
    sem, known, got, errored, done, dispatched,
    segErr, infOk, infErr, imgDone, imgErr, boxes,
    idle, stalled, doneEvt, dumped, dumpOpen, sessOpen,
    \* SOAM sessions: tasks waiting for a service, outputs waiting for a fetch
    segTasks, segOut, infTasks, infOut, stitchTasks, stitchOut,
    faults,
    \* the pipeline bus /shared/pipeline
    dir, segFiles, detFiles

localVars  == <<arg, bad, next, tile, segSeen, infSeen>>
frameVars  == <<known, got, errored, done, dispatched>>
totalVars  == <<segErr, infOk, infErr, imgDone, imgErr, boxes>>
endVars    == <<idle, stalled, doneEvt>>
outVars    == <<dumped, dumpOpen, sessOpen>>
segVars    == <<segTasks, segOut>>
infVars    == <<infTasks, infOut>>
stitchVars == <<stitchTasks, stitchOut>>
soamVars   == <<segVars, infVars, stitchVars, faults>>
busVars    == <<dir, segFiles, detFiles>>
dataVars   == <<localVars, sem, frameVars, totalVars, endVars, outVars, soamVars, busVars>>
vars       == <<pc, dataVars>>

\* Sessions are bags: a total function from items to how many there are.
Put(bag, x)  == [bag EXCEPT ![x] = @ + 1]
Take(bag, x) == [bag EXCEPT ![x] = @ - 1]
Nothing(S)   == [x \in S |-> 0]

\* _reply: a task that failed yields {}, whose image_id is None.
ReplyId(f, kind) == IF kind = "failed" THEN NoId ELSE f

Init ==
    /\ pc = [t \in Threads |-> CASE t = "seg_submit"   -> "acquire"
                                 [] t = "stitch_fetch" -> "check"
                                 [] t = "watchdog"     -> "check"
                                 [] t = "main"         -> "wait"
                                 [] OTHER              -> "fetch"]
    /\ arg = [t \in Fetchers |-> NoId] /\ bad = [t \in Fetchers |-> FALSE]
    /\ next = 0 /\ tile = 0 /\ segSeen = 0 /\ infSeen = 0
    /\ sem = InFlight
    /\ known = {} /\ errored = {} /\ done = {} /\ dispatched = {}
    /\ got = [f \in Frames |-> 0]
    /\ segErr = 0 /\ infOk = 0 /\ infErr = 0 /\ imgDone = 0 /\ imgErr = 0 /\ boxes = 0
    /\ idle = FALSE /\ stalled = FALSE /\ doneEvt = FALSE
    /\ dumped = [f \in Frames |-> 0] /\ dumpOpen = TRUE /\ sessOpen = TRUE
    /\ segTasks = Nothing(Frames)        /\ segOut = Nothing(Frames \X Kinds)
    /\ infTasks = Nothing(Frames \X Tiles) /\ infOut = Nothing(Frames \X Tiles \X Kinds)
    /\ stitchTasks = Nothing(Frames)     /\ stitchOut = Nothing(Frames \X Kinds)
    /\ faults = [k \in FaultKinds |-> 0]
    /\ dir = {} /\ segFiles = {} /\ detFiles = {}

\* Daemon threads run until the interpreter exits.
Running == pc["main"] # "exited"
At(t, label) == pc[t] = label /\ Running
Goto(t, label) == pc' = [pc EXCEPT ![t] = label]

\* A step that only moves thread t on.
Move(t, from, to) == At(t, from) /\ Goto(t, to) /\ UNCHANGED dataVars

-----------------------------------------------------------------------------
(* seg_submit: acquire a slot, register the frame, send its segment task.    *)

CanAcquireMutant == TRUE                \* mutation: an unbounded submitter
CanAcquire == sem > 0

Acquire ==
    /\ At("seg_submit", "acquire") /\ next < Count /\ CanAcquire
    /\ sem' = sem - 1
    /\ Goto("seg_submit", "register")
    /\ UNCHANGED <<localVars, frameVars, totalVars, endVars,
                   outVars, soamVars, busVars>>

Register ==
    /\ At("seg_submit", "register")
    /\ known' = known \cup {next + 1}
    /\ Goto("seg_submit", "send")
    /\ UNCHANGED <<localVars, sem, got, errored, done,
                   dispatched, totalVars, endVars, outVars, soamVars, busVars>>

SendSegment ==
    /\ At("seg_submit", "send")
    /\ IF sessOpen
         THEN /\ segTasks' = Put(segTasks, next + 1)
              /\ next' = next + 1
              /\ Goto("seg_submit", "acquire")
         ELSE /\ Goto("seg_submit", "dead")      \* send on a closed session raises
              /\ UNCHANGED <<next, segTasks>>
    /\ UNCHANGED <<arg, bad, tile, segSeen, infSeen, sem, frameVars, totalVars, endVars,
                   outVars, segOut, infVars, stitchVars, faults, busVars>>

SubmitterExit == next = Count /\ Move("seg_submit", "acquire", "exit")

-----------------------------------------------------------------------------
(* _finish(image_id, failed), called by any fetch thread t: mark the frame   *)
(* under state_lock, remove its bus directory, then give the slot back.      *)

Resume(t) == IF t = "stitch_fetch" THEN "check" ELSE "fetch"

AlreadyDoneMutant(f) == FALSE            \* mutation: the guard dropped
AlreadyDone(f) == f \in done

LastFrameMutant == imgDone + 2 >= Count                     \* mutation: off by one
LastFrame == imgDone + 1 >= Count

Mark(t) ==
    /\ At(t, "mark")
    /\ IF AlreadyDone(arg[t])
         THEN /\ Goto(t, Resume(t))
              /\ UNCHANGED <<done, imgDone, imgErr, endVars>>
         ELSE /\ done' = done \cup ({arg[t]} \cap known)
              /\ imgDone' = imgDone + 1
              /\ imgErr' = IF bad[t] THEN imgErr + 1 ELSE imgErr
              /\ idle' = FALSE
              /\ doneEvt' = (doneEvt \/ LastFrame)
              /\ Goto(t, "clean")
              /\ UNCHANGED stalled
    /\ UNCHANGED <<localVars, sem, known, got, errored,
                   dispatched, segErr, infOk, infErr, boxes, outVars, soamVars, busVars>>

RemoveBusMutant(f) ==                   \* mutation: only the detections are removed
    detFiles' = {d \in detFiles : d[1] # f} /\ UNCHANGED <<dir, segFiles>>
RemoveBus(f) ==
    /\ dir' = dir \ {f}
    /\ segFiles' = {s \in segFiles : s[1] # f}
    /\ detFiles' = {d \in detFiles : d[1] # f}

\* os.path.join(PIPE_DIR, None) raises TypeError, and the thread is gone.
Clean(t) ==
    /\ At(t, "clean")
    /\ IF arg[t] = NoId
         THEN Goto(t, "dead") /\ UNCHANGED busVars
         ELSE Goto(t, "release") /\ RemoveBus(arg[t])
    /\ UNCHANGED <<localVars, sem, frameVars, totalVars, endVars,
                   outVars, soamVars>>

ReturnedMutant == sem                   \* mutation: the slot is never given back
Returned == sem + 1

\* BoundedSemaphore.release() raises ValueError above its initial value.
Release(t) ==
    /\ At(t, "release")
    /\ IF sem < InFlight
         THEN sem' = Returned /\ Goto(t, Resume(t))
         ELSE UNCHANGED sem /\ Goto(t, "dead")
    /\ UNCHANGED <<localVars, frameVars, totalVars, endVars,
                   outVars, soamVars, busVars>>

\* Fetching from (or sending on) a session main has closed raises.
SessionGone(t) == ~sessOpen /\ Move(t, "fetch", "dead")

-----------------------------------------------------------------------------
(* seg_fetch: one output at a time; an error finishes the frame, a success   *)
(* becomes one inference task per tile.                                      *)

SegTake(f, kind) ==
    /\ At("seg_fetch", "fetch") /\ sessOpen
    /\ segSeen < Count /\ segOut[<<f, kind>>] > 0
    /\ segOut' = Take(segOut, <<f, kind>>)
    /\ segSeen' = segSeen + 1
    /\ arg' = [arg EXCEPT !["seg_fetch"] = ReplyId(f, kind)]
    /\ bad' = [bad EXCEPT !["seg_fetch"] = TRUE]
    /\ tile' = 0
    /\ IF kind = "ok"
         THEN Goto("seg_fetch", "submit") /\ UNCHANGED segErr
         ELSE Goto("seg_fetch", "mark") /\ segErr' = segErr + 1
    /\ UNCHANGED <<next, infSeen, sem, frameVars, infOk, infErr, imgDone, imgErr, boxes,
                   endVars, outVars, segTasks, infVars, stitchVars, faults, busVars>>

SegSubmitTile ==
    /\ At("seg_fetch", "submit")
    /\ IF sessOpen
         THEN /\ infTasks' = Put(infTasks, <<arg["seg_fetch"], tile>>)
              /\ tile' = tile + 1
              /\ Goto("seg_fetch", IF tile + 1 = NTiles THEN "fetch" ELSE "submit")
         ELSE Goto("seg_fetch", "dead") /\ UNCHANGED <<infTasks, tile>>
    /\ UNCHANGED <<arg, bad, next, segSeen, infSeen, sem, frameVars, totalVars, endVars,
                   outVars, segVars, infOut, stitchVars, faults, busVars>>

SegFetchExit == segSeen >= Count /\ Move("seg_fetch", "fetch", "exit")

-----------------------------------------------------------------------------
(* inf_fetch: count the tile reply under state_lock; the reply that brings   *)
(* got to NTiles dispatches the frame, to stitch or to failure.              *)

Target == Count * NTiles

CompleteMutant(f, g) == g + 1 >= NTiles /\ f \notin dispatched   \* mutation: one tile early
Complete(f, g) == g >= NTiles /\ f \notin dispatched

InfTake(f, k, kind) ==
    LET g    == got[f] + 1
        errs == IF kind = "ok" THEN errored ELSE errored \cup {f}
    IN
    /\ At("inf_fetch", "fetch") /\ sessOpen
    /\ infSeen < Target /\ infOut[<<f, k, kind>>] > 0
    /\ infOut' = Take(infOut, <<f, k, kind>>)
    /\ infSeen' = infSeen + 1
    /\ infOk'  = IF kind = "ok" THEN infOk + 1 ELSE infOk
    /\ infErr' = IF kind = "ok" THEN infErr ELSE infErr + 1
    /\ IF ReplyId(f, kind) \in known
         THEN /\ got' = [got EXCEPT ![f] = g]
              /\ errored' = errs
              /\ IF Complete(f, g)
                   THEN /\ dispatched' = dispatched \cup {f}
                        /\ arg' = [arg EXCEPT !["inf_fetch"] = f]
                        /\ bad' = [bad EXCEPT !["inf_fetch"] = TRUE]
                        /\ Goto("inf_fetch", IF f \in errs THEN "mark" ELSE "submit")
                   ELSE UNCHANGED <<dispatched, arg, bad, pc>>
         ELSE UNCHANGED <<got, errored, dispatched, arg, bad, pc>>  \* no such frame: continue
    /\ UNCHANGED <<next, tile, segSeen, sem, known, done, segErr, imgDone, imgErr, boxes,
                   endVars, outVars, segVars, infTasks, stitchVars, faults, busVars>>

InfSubmitStitch ==
    /\ At("inf_fetch", "submit")
    /\ IF sessOpen
         THEN /\ stitchTasks' = Put(stitchTasks, arg["inf_fetch"])
              /\ Goto("inf_fetch", "fetch")
         ELSE Goto("inf_fetch", "dead") /\ UNCHANGED stitchTasks
    /\ UNCHANGED <<localVars, sem, frameVars, totalVars, endVars,
                   outVars, segVars, infVars, stitchOut, faults, busVars>>

InfFetchExit == infSeen >= Target /\ Move("inf_fetch", "fetch", "exit")

-----------------------------------------------------------------------------
(* stitch_fetch: until done_evt, poll for one output; record a success, then *)
(* finish the frame either way.                                              *)

StitchCheck == Move("stitch_fetch", "check", IF doneEvt THEN "exit" ELSE "fetch")

StitchPollTimeout ==
    /\ sessOpen /\ \A o \in Frames \X Kinds : stitchOut[o] = 0
    /\ Move("stitch_fetch", "fetch", "check")

StitchTake(f, kind) ==
    /\ At("stitch_fetch", "fetch") /\ sessOpen
    /\ stitchOut[<<f, kind>>] > 0
    /\ stitchOut' = Take(stitchOut, <<f, kind>>)
    /\ arg' = [arg EXCEPT !["stitch_fetch"] = ReplyId(f, kind)]
    /\ bad' = [bad EXCEPT !["stitch_fetch"] = (kind # "ok")]
    /\ boxes' = IF kind = "ok" THEN boxes + 1 ELSE boxes
    /\ Goto("stitch_fetch", IF kind = "ok" THEN "dump" ELSE "mark")
    /\ UNCHANGED <<next, tile, segSeen, infSeen, sem, frameVars, segErr, infOk, infErr,
                   imgDone, imgErr, endVars, outVars, segVars, infVars, stitchTasks, faults,
                   busVars>>

\* Writing to the dump main has closed raises ValueError.
StitchDump ==
    /\ At("stitch_fetch", "dump")
    /\ IF dumpOpen
         THEN dumped' = Put(dumped, arg["stitch_fetch"]) /\ Goto("stitch_fetch", "mark")
         ELSE UNCHANGED dumped /\ Goto("stitch_fetch", "dead")
    /\ UNCHANGED <<localVars, sem, frameVars, totalVars, endVars,
                   dumpOpen, sessOpen, soamVars, busVars>>

-----------------------------------------------------------------------------
(* watchdog: look at progress every 3 s; on a stall set stalled and done_evt *)
(* after state_lock has been released.                                       *)

ExpiredMutant == Count > imgDone + 1 /\ idle   \* mutation: the last frame is not pending
Expired == Count > imgDone /\ idle     \* pending > 0 and idle > stall_timeout

IdleElapses ==                         \* stall_timeout passes with no frame finished
    /\ CanStall /\ ~idle /\ Running
    /\ idle' = TRUE
    /\ UNCHANGED <<pc, localVars, sem, frameVars, totalVars, stalled, doneEvt, outVars,
                   soamVars, busVars>>

WatchdogCheck == Move("watchdog", "check", IF doneEvt THEN "exit" ELSE "look")

WatchdogLook == Move("watchdog", "look", IF Expired THEN "fire" ELSE "check")

WatchdogFire ==
    /\ At("watchdog", "fire")
    /\ stalled' = TRUE /\ doneEvt' = TRUE
    /\ Goto("watchdog", "exit")
    /\ UNCHANGED <<localVars, sem, frameVars, totalVars, idle,
                   outVars, soamVars, busVars>>

-----------------------------------------------------------------------------
(* main: wait for done_evt, join each thread for at most 8 s, close the dump *)
(* and the sessions, report.  The report reads the totals as they are in the *)
(* last state before "exited", so no variable of its own is needed.          *)

MainWait == doneEvt /\ Move("main", "wait", "join")

\* A join ends with its thread or with its timeout; main cannot tell which.
MainJoin == Move("main", "join", "close")

MainCloseDump ==
    /\ At("main", "close")
    /\ dumpOpen' = FALSE
    /\ Goto("main", "teardown")
    /\ UNCHANGED <<localVars, sem, frameVars, totalVars, endVars,
                   dumped, sessOpen, soamVars, busVars>>

MainCloseSessions ==
    /\ At("main", "teardown")
    /\ sessOpen' = FALSE
    /\ Goto("main", "report")
    /\ UNCHANGED <<localVars, sem, frameVars, totalVars, endVars,
                   dumped, dumpOpen, soamVars, busVars>>

MainReport == Move("main", "report", "exited")

-----------------------------------------------------------------------------
(* The services, as the client's sessions see them: a task is run once and   *)
(* answered "ok" or "err" by the worker, or fails when SOAM's retries run    *)
(* out.  A service keeps running a task whatever the client does meanwhile;  *)
(* what it does once the client has exited is not followed.                  *)

clientVars == <<pc, localVars, sem, frameVars, totalVars, endVars, outVars>>

Spend(fault) ==
    /\ faults[fault] < Budget[fault]
    /\ faults' = [faults EXCEPT ![fault] = @ + 1]

\* Segmenter.__call__: makedirs, then one seg<k>.bin per tile.
WriteTiles(f, n) ==
    /\ dir' = dir \cup {f}
    /\ segFiles' = segFiles \cup ({f} \X {k \in Tiles : k < n})
    /\ UNCHANGED detFiles

SegAnswer(f, kind) ==
    /\ Running /\ segTasks[f] > 0
    /\ segTasks' = Take(segTasks, f)
    /\ segOut' = Put(segOut, <<f, kind>>)
    /\ UNCHANGED <<clientVars, infVars, stitchVars>>

SegOk(f) == SegAnswer(f, "ok") /\ WriteTiles(f, NTiles) /\ UNCHANGED faults

SegNotOk(f, kind) ==
    /\ SegAnswer(f, kind) /\ Spend(kind)
    /\ \/ UNCHANGED busVars
       \/ \E n \in 0 .. NTiles : WriteTiles(f, n)

InfAnswer(f, k, kind) ==
    /\ Running /\ infTasks[<<f, k>>] > 0
    /\ infTasks' = Take(infTasks, <<f, k>>)
    /\ infOut' = Put(infOut, <<f, k, kind>>)
    /\ UNCHANGED <<clientVars, segVars, stitchVars, dir, segFiles>>

\* TileDetector.__call__: open seg<k>.bin, run the chip, save det<k>.npy.
SaveDetections(f, k) == detFiles' = detFiles \cup {<<f, k>>}

InfOk(f, k) ==
    /\ InfAnswer(f, k, "ok") /\ <<f, k>> \in segFiles
    /\ SaveDetections(f, k) /\ UNCHANGED faults

InfNotOk(f, k, kind) ==
    /\ InfAnswer(f, k, kind)
    /\ \/ kind = "err" /\ <<f, k>> \notin segFiles /\ UNCHANGED faults
       \/ Spend(kind)
    /\ \/ UNCHANGED detFiles
       \/ kind = "failed" /\ <<f, k>> \in segFiles /\ SaveDetections(f, k)

StitchAnswer(f, kind) ==
    /\ Running /\ stitchTasks[f] > 0
    /\ stitchTasks' = Take(stitchTasks, f)
    /\ stitchOut' = Put(stitchOut, <<f, kind>>)
    /\ UNCHANGED <<clientVars, segVars, infVars, busVars>>

\* Stitcher.__call__: load det<k>.npy of every tile; a missing one raises.
AllDetections(f) == {f} \X Tiles \subseteq detFiles

StitchOk(f) == StitchAnswer(f, "ok") /\ AllDetections(f) /\ UNCHANGED faults

StitchNotOk(f, kind) ==
    /\ StitchAnswer(f, kind)
    /\ \/ kind = "err" /\ ~AllDetections(f) /\ UNCHANGED faults
       \/ Spend(kind)

\* An output delivered a second time.
Duplicate ==
    /\ Running /\ Spend("dup")
    /\ \/ /\ \E o \in Frames \X Kinds : segOut[o] > 0 /\ segOut' = Put(segOut, o)
          /\ UNCHANGED <<infOut, stitchOut>>
       \/ /\ \E o \in Frames \X Tiles \X Kinds : infOut[o] > 0 /\ infOut' = Put(infOut, o)
          /\ UNCHANGED <<segOut, stitchOut>>
       \/ /\ \E o \in Frames \X Kinds : stitchOut[o] > 0 /\ stitchOut' = Put(stitchOut, o)
          /\ UNCHANGED <<segOut, infOut>>
    /\ UNCHANGED <<clientVars, segTasks, infTasks, stitchTasks, busVars>>

-----------------------------------------------------------------------------
Finish(t)   == Mark(t) \/ Clean(t) \/ Release(t) \/ SessionGone(t)
Submitter   == Acquire \/ Register \/ SendSegment \/ SubmitterExit
SegFetch    == \/ \E f \in Frames, kind \in Kinds : SegTake(f, kind)
               \/ SegSubmitTile \/ SegFetchExit \/ Finish("seg_fetch")
InfFetch    == \/ \E f \in Frames, k \in Tiles, kind \in Kinds : InfTake(f, k, kind)
               \/ InfSubmitStitch \/ InfFetchExit \/ Finish("inf_fetch")
StitchFetch == \/ \E f \in Frames, kind \in Kinds : StitchTake(f, kind)
               \/ StitchCheck \/ StitchPollTimeout \/ StitchDump \/ Finish("stitch_fetch")
Watchdog    == WatchdogCheck \/ WatchdogLook \/ WatchdogFire
Main        == MainWait \/ MainJoin \/ MainCloseDump \/ MainCloseSessions \/ MainReport

SegService(f)    == SegOk(f) \/ \E kind \in {"err", "failed"} : SegNotOk(f, kind)
InfService(f, k) == InfOk(f, k) \/ \E kind \in {"err", "failed"} : InfNotOk(f, k, kind)
StitchService(f) == StitchOk(f) \/ \E kind \in {"err", "failed"} : StitchNotOk(f, kind)
Services == \E f \in Frames : \/ SegService(f) \/ StitchService(f)
                              \/ \E k \in Tiles : InfService(f, k)

Exited == pc["main"] = "exited" /\ UNCHANGED vars

Next == \/ Submitter \/ SegFetch \/ InfFetch \/ StitchFetch
        \/ Watchdog \/ Main \/ IdleElapses
        \/ Services \/ Duplicate \/ Exited

Spec == Init /\ [][Next]_vars

\* Every thread that can run eventually runs, and time passes.
ClientFairness ==
    /\ WF_vars(Submitter) /\ WF_vars(SegFetch) /\ WF_vars(InfFetch) /\ WF_vars(StitchFetch)
    /\ WF_vars(Watchdog) /\ WF_vars(Main) /\ WF_vars(IdleElapses)

\* The fleet goes on answering tasks as long as there are any.
ServiceFairness == WF_vars(Services)

FairSpec    == Spec /\ ClientFairness
HealthySpec == FairSpec /\ ServiceFairness
=============================================================================
