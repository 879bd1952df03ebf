# A verification project for symphony-akida

symphony-akida runs neural networks on a fleet of Akida chips.  IBM Spectrum
Symphony (SOAM) schedules the work; a container per chip does it.  Three
applications share a small library:

| application | what it does |
|---|---|
| `image-shard-inference` | streams frames through three SOAM services, segment, inference and stitch, over a shared directory |
| `batch-inference` | fans one list of tensors out over the chips through one SOAM service |
| `serial-http-round-robin` | one HTTP server per chip, asked in turn by a dashboard |

This directory holds TLA+ models of the parts in which something can go wrong
that a test would hardly reach, the TLC configurations that check them, and
proofs that hold for every value of the constants.  Paths below are relative to
the repository; `src/src/apps/...` is written `apps/...` and `src/src/common/...`
is written `common/...`.

## 1. Inventory

### Components, their state, their operations

| component | state | operations | interacts with |
|---|---|---|---|
| shard client (`apps/image-shard-inference/client/shard_client.py`) | semaphore of in-flight frames, `img_state` per frame, totals, `done_evt`, `stalled`, dump file, three SOAM sessions | five threads: `seg_submit`, `seg_fetch`, `inf_fetch`, `stitch_fetch`, `watchdog`; nested `_finish`; `main` joins, tears down, reports | the three services through sessions; the pipeline bus (removes directories) |
| segment, inference, stitch services (`apps/image-shard-inference/service/*`) | caches of layouts and models; the mapped model | one handler each: split a frame into `seg<k>.bin`, detect on a tile and save `det<k>.npy`, merge all tiles | the pipeline bus; their container through the pipe |
| pipeline bus (`/shared/pipeline/<image_id>/`) | one directory per frame in flight | written by segment and inference, read by inference and stitch, removed by the client | all hosts |
| worker pipe (`service/shard_wire.py`, `common/worker_io.py`) | a python3.12 process, its stdin and stdout, a `/dev/shm` buffer | `start`, `request`, `stop`; `serve` | the container on one side, the stage's handler on the other |
| batch service (`apps/batch-inference/service/*`) | the same, with a lock and the mapped model | `on_create_service`, `on_invoke`, `on_destroy_service`; the worker's loop | SOAM; the chip |
| batch client (`apps/batch-inference/client/soam_client.py`) | index ranges of the sender threads, counters of the fetch loop | submit, fetch, join, report | the batch service through one session |
| on-chip core (`common/akida_chip.py`) | the mapped model: `model`, `stem`, `n`, `on_chip`, `map_error` | `load`, `unload`, `infer`, `predict_tile` | workers and HTTP node |
| HTTP node (`apps/serial-http-round-robin/service/http_server.py`) | the chip behind a lock | `/health`, `/models`, `/load`, `/unload`, `/infer`, a thread per request | HTTP client |
| HTTP client and dashboard (`apps/serial-http-round-robin/{client,dashboard}`) | list of nodes | load and unload everywhere, run the samples in turn over the live nodes | HTTP nodes |
| shard dashboard (`apps/image-shard-inference/dashboard/app.py`) | `STATE`: records, kit and frames of the last run, under `STATE_LOCK`; a thread per request | run a prepared set and score it, draw a picture of the gallery, card of the nodes | the client as a subprocess, the sample sets, test kits, scoring |
| batch dashboard (`apps/batch-inference/dashboard/app.py`) | none between requests | run the client, card of the nodes | the batch client, `fleet.py` |
| sample preparation (`common/prepare_samples.py`) | per set a `.bin` of frames and a `.samples.json` beside it | turn each `data/<set>/<one>.npz` into frames, at launch or by hand | read by clients and dashboards at any time |
| scoring (`common/detection_map.py`, `scripts/eval_shard_map.py`, `common/testkit.py`) | none | read a dump, find its kit, gate, rank, average precision | dumps of the shard client, kits |
| tile merge (`common/tiled_shard.py`) | none | tile layout, decoding, suppression per tile, fusion across tiles | inference and stitch workers |
| fleet inspection (`common/fleet.py`) | none; reads docker and node logs | roster, readiness of a node from its newest log | dashboards, launcher |
| launcher (`scripts/launch/{up,down,reclaim_shared}.sh`) | containers, markers, the shared directory | bring the cluster up and wait until it is ready, take it down | docker, node logs |
| registration (`apps/*/service/register.sh`) | the applications SOAM knows | register, enable, bounce so that instances are spread | SOAM, EGO; leaves workers behind that outlive their containers |
| the rest (model registry, product names, drawing, page template, reference check, image build, git hooks) | none, or files written once | | |

### What is hard here

* **Threads of one client over shared counters.**  Finishing a frame is spread
  over one locked step and two unlocked ones, and three threads do it
  (`shard_client.py:218-234`).  The watchdog decides on values it read under a
  lock it has released (`:344-349`).
* **A bounded pipeline of three stages** that feed one another: a fetch that
  asks for more outputs than can exist stops everything (`:253-256`).
* **Services that fail, lose or repeat work.**  A failed task has no reply body,
  so no `image_id` (`:127-135`); an output may be seen twice.
* **Two processes on a byte stream.**  Headers, payloads and line ends share one
  pipe, and a payload may come another way; once the two sides disagree on where
  a payload is, every later reply belongs to another request.
* **Death of either process**, between any two steps of the exchange.
* **Many threads of one HTTP node** around a lock that some paths do not take,
  asked by clients that give up after a timeout.
* **Readiness read from logs** that may belong to an earlier start, or to an
  instance that was killed.
* **Geometry over seams**: four passes, each on what the last one left, decide
  which of the boxes the tiles report are one object.
* **Files that are rewritten in place** while runs and pictures read them, by a
  preparer that may be killed between two writes.
* **Figures whose definition is subtle**: ties, caps, gates and envelopes.

PROJECT.json lists each of these as a hazard, at the line where it bites.

### What makes each component correct

* *Shard client*: no slot of the window is lost or given back twice; the bus is
  bounded and never loses a file somebody still needs; a frame goes to stitch
  once and only with all its tiles; the report agrees with what was written; the
  run ends, and goes through when the fleet answers.
* *Worker pipe*: each invocation returns once, with its own result or a failure;
  between invocations both sides are at the start of a line; nobody waits for a
  peer that is gone; a worker without a container lets the chip go.
* *Batch client*: every index is sent by one thread, what is reported adds up,
  the loop ends.
* *Chip and HTTP node*: a reply says which model computed it and where;
  concurrent loads and inferences never mix; a node answers in the end.
* *Tile merge*: splitting and mapping back agree; fusion does not depend on the
  order of tiles; suppression drops nothing without cause; an object seen in
  pieces comes back whole.
* *Scoring*: each figure is the average precision by the textbook; the two rows
  of the report are comparable; a dump is scored against its own kit.
* *Sample sets and the gallery*: boxes are drawn on the pixels they came from, no
  figure is one of random frames, a scan leaves every usable set whole.
* *Launch and card*: a node counts as ready only if its present start is, what
  serves is what the card shows, and every chip is in use in the end.

## 2. Plan

What exists, in the order it was written:

1. `ShardClient`, `ShardClientProperties`: the client and the services as its
   sessions see them.  `FrameWindow`: the abstract window it implements.
   `ShardClientOnce`: the ledger behind everything that needs outputs to be
   delivered once.  `ShardClientProofs`: type correctness, the slots and the bus,
   the refinement, and what the ledger shows.
2. `WorkerPipe`, `WorkerPipeProperties`, `WorkerPipeMC`: one instance and its
   worker.  `Exchange`: what the instance promises SOAM.  `WorkerPipeProofs`.
3. `HttpFleet`, `HttpFleetProperties`, `HttpFleetMC`: the threads of each node
   around its lock and the chip's fields, the dashboard's requests with their
   timeouts, the run over live nodes.  `HttpFleetProofs`.
4. `TileLayout`, `Detections`, `TileMerge`, `TileMergeProperties`, `TileMergeMC`:
   a frame through the three stages, pass by pass.  `TileMergeProofs`.
5. `AveragePrecision`, `ScoreRun`, `ScoreProperties`, `ScoreMC`: a dump scored.
   It shares `Detections` with 4.  `ScoreProofs`.
6. `BatchClient`, `BatchProperties`, `BatchMC`: sender threads, hosts, fetch loop.
   `BatchProofs`.
7. `SampleSets`, `ShardDashboard`, `GalleryProperties`, `GalleryMC`: the preparer
   and the dashboard that reads what it writes, composed.  `GalleryProofs`.
8. `ServiceLaunch`, `FleetCard`, `FleetProperties`: registration and placement,
   up.sh's wait, and the card that reads the same logs, composed.  `FleetProofs`.

Nothing the runs check and the prover can state is left to be proved; section 10 has
what stays with TLC.

Still to be modelled: `ShardBus`, the services on several hosts with their files
written one at a time and a task retried while its first execution still runs;
the card's two-second cache; nodes that are stopped.

Abstract specifications: the window (`FrameWindow`) and the exchange of one
instance with SOAM (`Exchange`).  Runs stay below five minutes: two or three of
everything that queues, two of everything that is split, one fault of a kind.

## 3. The shard client

### Module and code

`ShardClient.tla` has one program counter per thread.  A step is what happens
between two points other threads can observe: one locked section, one call on a
session, the semaphore or the bus.

| code | actions |
|---|---|
| `seg_submit` | `Acquire`, `Register`, `SendSegment`, `SubmitterExit` |
| `seg_fetch` | `SegTake`, `SegSubmitTile` (once per tile), `SegFetchExit` |
| `inf_fetch` | `InfTake` (counts the reply under the lock and decides), `InfSubmitStitch`, `InfFetchExit` |
| `stitch_fetch` | `StitchCheck`, `StitchPollTimeout`, `StitchTake`, `StitchDump` |
| `_finish`, in any fetch thread | `Mark` (locked), `Clean` (rmtree), `Release` |
| `watchdog` | `WatchdogCheck`, `WatchdogLook`, `WatchdogFire`; `IdleElapses` is the clock |
| `main` | `MainWait`, `MainJoin`, `MainCloseDump`, `MainCloseSessions`, `MainReport` |
| the services | `SegOk`, `SegNotOk`, `InfOk`, `InfNotOk`, `StitchOk`, `StitchNotOk` |
| SOAM | `Duplicate`, and the reply kind `"failed"` |

What is abstracted, and why it does not hide anything the properties tell apart:

* A session is a bag of tasks and a bag of outputs: any task may run next, any
  output may be fetched next.  This is more than SOAM does.
* A service runs a task in one step, except that a failing segment or inference
  task may have written some of its files first.
* Image data, boxes and timings are left out; a stitched frame counts one box.
  The run is one with `--dump`.
* A join ends at any time: it has a timeout, and the code does not look at which
  way it ended.
* `stall_timeout` may elapse whenever no frame has finished since it last began
  to count (`CanStall`).
* The three sessions are closed in one step.  After `main` has returned nothing
  is followed: the remaining threads are daemons.

### Runs

| run | configuration | bounds | shows |
|---|---|---|---|
| `window` | `PipelineWindow` | 3 frames, 1 tile, 2 slots, 1 duplicate | `TypeOK`, `SemAccounting`, `BusBounded`, the inductive invariant `IInv`, and that the client implements `FrameWindow` |
| `completes` | `PipelineCompletes` | 3 frames, 2 tiles, 2 slots, 1 error | `Completes`, if every task is answered; `StitchComplete`, `NoTileOrphaned`, `ReportAgrees` |
| `watchdog` | `PipelineWatchdog` | 2 frames, 2 tiles, 1 slot, 1 error, 1 failed task, stalls | `Terminates`, though services may never answer; `NoSpuriousFailure`, `TilesAccounted` |
| `failed_task` | `FailedTask` | 1 frame, 2 tiles, 1 failed task | `OutputsCorrelated` fails |

Three frames and two slots are the least that make the submitter wait for a
release and go on; two tiles are the least for which "some" differs from "all".
Two frames in flight at once let every pair of fetch threads be inside `_finish`
together.  One duplicate is enough for every guard against duplicates: each
guards the second occurrence of one event.  One error and one failed task
together reach every pair of failing stages; in `watchdog` they meet in frames
that follow one another, in `completes` an error meets frames in flight together.

What the properties do not say: the run `window` has no failed tasks, so the slot that
such a task costs is not what `SemAccounting` shows there (its theorem holds with them,
the lost slot being accounted to the frame that keeps it).  `ReportAgrees` and
`TilesAccounted` are about runs that did not stall.  `Terminates` takes for granted that
a join may time out, so it says that the client reports and exits, not that its threads
have ended by then, nor what one that has not meets on closed sessions and a closed dump.

`failed_task` shows where the application's own words are not what the code
does: every reply is said to carry its `image_id`, but a failed task has none;
`_finish(None)` counts a frame, dies in `os.path.join`, and the slot is lost.

More of this kind, seen while modelling and not kept as runs:

* "when every tile is in (a duplicate/retried inference output must not
  re-trigger it)" (`:298`): two replies for one tile count as two tiles, and the
  frame is stitched without the other (`StitchComplete` fails with `MaxDup = 1`,
  `NTiles = 2`).  `StitchComplete`, `NoTileOrphaned`, `NoSpuriousFailure`,
  `ReportAgrees` and `TilesAccounted` are therefore checked without duplicates.
* The last frame may complete between the watchdog's look and its verdict
  (`:344-349`), and a complete run is then reported as stalled, though the
  watchdog is for when "no frame completes".
* After a segment error `inf_fetch` waits for tiles nobody sends, so the comment
  "all frames finished -> the seg/inf fetch loops have already hit their targets"
  (`:363`) does not hold and the join only ends by its timeout.
* `--count 0` hangs, because nothing ever sets `done_evt` and the watchdog sees no
  pending frame (`Terminates` fails with `Count = 0`).
* Duplicated outputs advance the seen counters (`:259`), so a fetch loop can stop
  with genuine outputs unread, and only the watchdog ends the run.

### Fairness

`ClientFairness` is weak fairness of each thread: python threads that can run do
run, and a blocked call returns once what it waits for is there.  `IdleElapses`
is fair because time passes.  `Terminates` needs no more: the services may do
nothing at all.  `Completes` adds `ServiceFairness`: the fleet goes on answering
tasks as long as there are any, one condition for all of them, so that a single
task may wait for ever as long as others are answered.  Neither assumes strong
fairness.

### Proofs

`ShardClientProofs.tla` proves, for every number of frames, tiles and slots and
whatever SOAM fails or delivers twice:

* `Invariant`: `Spec => []IInv`;
* `TypeCorrect`, `SlotsAccounted`, `BusIsBounded`: the three invariants the run
  `window` checks;
* `WindowImplemented`: `Spec => Window!Spec`, the refinement.

`SemAccounting` says that the free slots and the frames holding one add up to
`InFlight`.  It is not inductive: that `Release` gives back the slot of exactly
one frame needs each frame to be finished by one thread at most (`FinishOnce`),
that `Mark` moves a frame from "registered" to "being finished" needs it to be
registered (`Enrolled`, with the bounds on locals in `Control`), and that a
frame about to be registered is not counted yet needs that no reply for it can
exist (`Fresh`: a frame not sent, or whose only segment task has not run, has
left no trace).  `BusBounded` needs that a directory belongs to a frame that is
not finished or is about to be removed (`BusOwned`); there the interesting case
is `SegOk` and `SegNotOk`, which create a directory: by `Fresh` no thread can
have finished that frame.  `IInv` is the conjunction, checked by TLC in the run
`window` before it was proved.

Its second half proves the other five invariants, `StitchIsComplete`,
`TilesNotOrphaned`, `FailuresAreReal`, `ReportIsTrue` and `TilesAreCounted`, for
every number of frames, tiles, slots, errors and failed tasks, and with stalls.
The one hypothesis is `MaxDup = 0`: SOAM delivers no output twice.  Without it
they are false, which is one of the hazards below.  The invariant is a ledger in
three parts (`ShardClientOnce.tla`), each resting on the one before:

* `Places`: every frame and every tile is in at most one place, be it a task, an
  output, a thread's hand or `done`, and never in one upstream and one
  downstream; what `inf_fetch` has counted for a frame (`got`) is at most the
  number of its tiles that are past it, and without an error at most the number
  of detections on the bus.  So "got reached n" does mean that all tiles are in.
* `Errors`: each frame marked failed, each task error counted and each thread
  about to mark one is paid for by an error or a failed task of its own.
* `Totals`: `images_done`, the seen counters, the tile and box totals and the
  records of the dump are each the number of frames or tiles past a place.  The
  awkward case is a failed task without an `image_id`: `_finish(None)` counts a
  frame that is not finished.  The ledger has one frame that is gone for each
  thread that dies this way, `seg_fetch` before dispatch and `stitch_fetch` after
  it, so that the two frames are not the same; then a run with a lost thread
  never counts up to `Count`, and one that reports is true.

The assumption on the constants is `ConstantsAssumption`: at least one tile and
one slot.  The refinement maps a frame to "held" when it holds a slot, "freed"
when it is done and holds none, and "queued" otherwise; `Acquire` is `Admit`,
`Release` is `Free`, everything else stutters.

## 4. The worker pipe

### Module and code

`WorkerPipe.tla` models one service instance: the container, its invocations and
the worker process.  The repository has this protocol twice, in `shard_wire.py`
with `worker_io.py` and in `AkidaServiceContainer.py` with `akida_worker.py`.
They differ in ways that are the fields of a record, `variant`: whether
`on_invoke` takes a lock (`locked`), whether SOAM invokes an instance once at a
time (`serial`; containers without a lock rely on it, and `akida_worker.py:25-26`
says "The SI serialises invokes"), whether the worker maps a model before it reads
the payload (`loadsFirst`), what payloads and buffer there may be, and whether the
container may fail to create the buffer and the worker to map it.  `WorkerPipeMC`
has the four services of the repository:

| service | lock | payload and buffer | order of the worker |
|---|---|---|---|
| `SegmentService` | none, `serial` | both; either side may lose the buffer | payload, then handler |
| `StitchService` | none, `serial` | neither | handler |
| `InferenceService` | `InferenceServiceContainer.py:38` | neither (`want_shm=False`) | handler |
| `BatchService` | `AkidaServiceContainer.py:114` | both; either side may lose the buffer | model, then payload |

| code | actions |
|---|---|
| `on_create_service`, `start` | `Start`, `AwaitReady` |
| `on_invoke`, `request` | `Invoke`, `Enter` (lock, buffer), `SendHeader`, `SendPayload`, `AwaitReply` |
| `on_destroy_service`, `stop` | `Stop`, `StopWait` |
| worker start-up | `Boot` |
| the worker's loop | `ReadLine`, `EndOfInput`, `Load`, `TakePayload`, `Handle` |
| SOAM and the operating system | `Kill`, `Die` |

stdin is a sequence of tokens: a header is one token and a line end, a payload
byte is an ordinary byte or a line end, and each remembers its request, so that
a byte read by the wrong request shows.  A line that is not exactly one header
is answered with an error, as `json.loads` would.  stdout is a sequence of
replies.  What is abstracted: the pipes are unbounded (as long as the two sides
agree, the worker writes one short reply per request, so only the container could
ever block, on a worker that reads); a write is one step; `terminate()` ends the
worker in the same step; the requests `input` and `load` of `akida_worker`, which
no client in the repository sends, are left out.

`spoilt` is a history variable: nothing reads it, and it becomes true at the one
place where a payload is left in stdin for good, a model that does not map under
a request whose payload goes inline (`Load`).  `Intact` is its negation.  `InStep`
and `Exchange` promise what they promise while `Intact`; `Exchange` has a variable
for it, and an action `Spoil` after which an invocation may be closed with what
belongs to another.

### Runs

| run | configuration | bounds | shows |
|---|---|---|---|
| `pipes` | `Pipe` | the four services; 3 requests, three payloads (two for `BatchService`) of 1 and 2 bytes with line ends, a buffer of 1 byte that may fail to be created or mapped, models that may fail to load, deaths and kills | `TypeOK`, `InStep`, `Answered`, `ChipReleased`, and that the instance implements `Exchange` |

Two bytes are enough for a line end before, and one after, another byte, and one
byte of buffer for a payload that fits and one that does not.  Three requests
let a reply meant for the first be taken by the second and the third be next.

Two things the code does not guarantee, and where the properties say so:

* **A failed load leaves an inline payload behind.**  `akida_worker` maps the model
  a request names before it reads the payload (`akida_worker.py:116-122`), and when
  that raises it answers and goes on to the next line.  A payload goes inline when
  it outgrows the buffer, and whatever its size when there is no buffer, which the
  container takes in its stride ("Best-effort: on failure we fall back to sending
  tensors inline over the pipe", `AkidaServiceContainer.py:69-70, 79-81, 115-121`).
  So it happens at the shipped sizes: the allocation fails; request 1 names a model
  that does not map and is answered with its error; its payload stays in stdin;
  the header of request 2 is read as the end of a line that begins with that payload,
  and request 2 gets the error of a line that is no request; its own payload is left
  behind in turn, and a payload with line ends draws several replies, so that
  later requests get replies meant for earlier ones.  `InStep`, `TypeOK` (one reply
  ahead at most) and `ImplementsExchange` exempt what comes after (`Intact`);
  without that TLC finds each violated for `BatchService`, `InStep` and
  `ImplementsExchange` also with payloads of one byte only, which would have fit.  Services
  that read the payload first never lose `Intact`.
* **A worker that cannot map the buffer** goes "inline only" (`worker_io.py:45-47`)
  without telling the container, which goes on using the buffer: both wait for ever.
  `InStep` and `ImplementsExchange` hold all the same, because no invocation
  returns; `Answered` exempts it (`Adrift`) and fails otherwise.

`Answered` exempts both.  After the first, an invocation may wait for a reply that an
earlier one has taken, or the worker for a payload that is not coming; and a worker
that answers every line of a payload may block on a full stdout, which the
unbounded pipes do not show.

### Fairness

`PipeFairness` is weak fairness of the worker, of the service calls and of each
invocation's steps; `Enter` is strongly fair because a lock is handed over: a
waiting invocation cannot be overtaken for ever.  `Die`, `Kill`, `Stop` and
`Invoke` are never owed.

### Proofs

`WorkerPipeProofs.tla` proves `PipeTypeCorrect`, `PipeStaysInStep` and
`PipeImplementsExchange` (the refinement of `Exchange`) for any number of
requests, payloads of any length with line ends anywhere, deaths and kills at any
point, with or without a buffer on either side, and every service that is `Sound`.
The four services of the repository are, which `WorkerPipeMC` states as an assumption that
TLC evaluates.  What `Sound` asks for, and why:

* one exchange at a time, by the container's lock or by SOAM.  The segment and stitch
  containers have no lock; that SOAM does not invoke an instance concurrently is what
  `akida_worker.py:25-26` says of it, and is assumed here;
* no empty payload, which no client sends: whether it was written cannot be seen
  in the stream, and the invariant below would have to say less.

The invariant has two parts.  `Steady` holds whatever happens: types, one exchange at a
time, where each payload was put (`Delivered`), and that a worker does not map a buffer
that is not there (`Mapped`; the converse is not so, see above).  `Agreed` holds while
`Intact` and says where the conversation is: `AtLine` (header and payload not
read yet), `AtPayload` (header read), `AtHandle`, `AtReply` or `AtEnd`, always of
the one request that has written, and nothing in the pipes when there is none
(`Quiet`).  The heart of the proof is what a first line is (`FirstLine`): a payload is
never looked at as a line because the header alone is before the first line end.  A failed
load keeps `Agreed` unless the payload goes inline, and then it ends `Intact`; from then on
every step of the instance is one of `Exchange` after `Spoil`, which needs `Steady` only.
`IInv` was checked with TLC on the instance of the run `pipes` before it was proved.

## 5. The HTTP fleet

### Module and code

`HttpFleet.tla` models the serial application: the dashboard, which works on
several requests at once ("jobs": two tabs, or a run and the polling fleet
card), and the nodes, each with one chip, one lock and a thread per request.

| code | actions |
|---|---|
| `api_fleet`, `api_load`, `api_unload`, `api_run_samples` | `Begin`, then `Ask` once per request: `/health` of every node, `/load` or `/unload` on every live one, `/infer` in turn |
| `AkidaServiceClient._send` | `Ask` when the node refuses, `Send` when it answers, `GiveUp` when it takes too long |
| `do_GET` `/health` | `Health` |
| `do_POST` | `NoDevice`; `EnterChip`, the start of each `with _lock`; `Raise` and `Leave`, its end by an exception; `Report`, the end of `/infer` |
| `Chip.load` | `Map` (as far as `on_chip`), `Bind` (the model and its name) |
| `Chip.unload`, `Chip.infer` | `Clear`, `Forward` |
| `_init` | `Init`: a node has a device or not; a default model is loaded or not |

A model is its name, its input size and whether it mapped when it was loaded; a
job asks for one of the requests in `Asks`, and a run has `Samples` samples.
`/health` reads the chip in one step (it takes no lock; what it could see torn
is noted as a hazard).  Left out: `/models` and staging, which change nothing in
a node; malformed requests; classes, latencies and `map_error`.  A node that is
not in `Up` refuses connections throughout.

### Runs

| run | configuration | bounds | shows |
|---|---|---|---|
| `http_nodes` | `HttpNodes` | 2 jobs, 2 nodes of which one is up, 3 models of two sizes, one not staged, 2 samples, timeouts | `TypeOK`, `LockAccounted`, `ReplyTruthful`, `JobsEnd`, `HealthAnswered` |

A node works on the requests of both jobs and on those either has given up on,
so more than two threads meet at the lock.  The nodes share nothing, so one that
is up and one that is not cover what a job can meet.

Not claimed by the code, and not so: that all samples of a run are computed by
its model.  The run uses every live node, whether or not its model was mapped
there: the load may have failed or timed out, or another tab has replaced the
model since; `infer` checks only the number of values.  The reply does say which
model computed it (`ReplyTruthful`), but the run does not compare.  And `/health`,
which takes no lock, may pair the old model's name with the new one's place.

### Fairness

`FleetFairness` is weak fairness of the dashboard's threads, of the client's
timeout, and of what a node does without the lock.  Nothing is owed inside the
lock, so a chip that hangs in `map` or `forward` is among the behaviours:
`JobsEnd` and `HealthAnswered` hold all the same.

### Proofs

`HttpFleetProofs.tla` proves `FleetTypeCorrect`, `LockIsAccounted` and
`RepliesAreTruthful` for any number of nodes, jobs, models and samples, whichever
nodes are up and models map, with and without timeouts.  `ReplyTruthful` is not
inductive: a reply is made of what `/infer` found in the chip, and by the time
the client reads it the chip may hold something else.  `IInv` adds

* `Progress`: how far each job's loops are, counted in requests, so that the
  request it waits for is the last it sent and the node it asks is one it found
  alive (`TargetFact`: round robin stays within the list);
* `Outstanding`: one thread per request, though the client may have given up on
  it and asked again elsewhere;
* `ChipTruthful` and `HandTruthful`: name, model and place agree, but for the moment
  inside `Chip.load` between its assignments, when the thread that is there
  holds the lock; what `/infer` has read is what it computed with.

## 6. Tiles, boxes and scores

### Tile merge

`TileMerge.tla` takes one frame through the three stages as far as its boxes are
concerned; `TileLayout.tla` has the geometry of tiles and `Detections.tla` overlap,
suppression and fusion.

| code (`common/tiled_shard.py` and the workers) | definitions |
|---|---|
| `make_tile_layout`, `seam_sides`, `split_frame`, mapping back | `TileLayout`; the action `Segment` |
| `decode_tile` in the inference worker | `DetectTile`, `DecodeTile` |
| `merge_tile_detections` in the stitch worker | `Gather`, `Fuse`, `Contain`, `Nms`, `Finish`, one pass each |
| `_greedy_suppress`, `per_class_nms`, `suppress_contained` | `GreedySuppress`, `PerClassNms`, `SuppressContained` |
| `fuse_seam_fragments` with its union-find | `Parents`, `Fused`, `FuseSeamFragments` |

The model is external: a tile that sees an object reports the box of what it
sees, once, twice (two grid cells that disagree on which is surer) or not at
all, with any of the object's confidences.  Coordinates are whole pixels and a
ratio is compared with its threshold by cross multiplication, so nothing is
rounded.  Path halving in the union-find, which changes no root, is left out.

The run `tile_merge` (`TileMerge.cfg`) has one and two objects on a frame of 8
with tiles of 4, the proportions of the shipped 448 and 224, with ends on seams,
beside them and at the border, in every layout; objects whose pieces do not line
up; and layouts that do not fit or whose tiles overlap.  It checks
`LayoutFaithful` (splitting and mapping back agree, the downscaled tile
included), `FusionIsClosure` (what is left is one box per connected component of
"halves of one object", whatever the order of pairs), `SuppressionSound` (a box
is kept exactly if no better kept one suppresses it), `CompleteSurvives` (no
fragment displaces a complete box, over all passes) and `ObjectRecovered`.

`TileMergeProofs.tla` proves all five, for frames and tiles of any size,
any number of objects with any parts, confidences and overshoot, and whatever the
detectors report: `LayoutIsFaithful`, `FusionClosed`, `SuppressionIsSound`,
`CompleteOnesSurvive` and `ObjectIsRecovered`.  `ScenesAssumption` only says of what kind
the fields of a scene are.  `TileInvariant` is the invariant: the tiles are the layout's and were
accepted, boxes are real and have sides, and complete detections are still there
(`CompleteKept`) in each pass.

* Sorting: `Ordering`, which stands for `argsort`, is characterised by what it is
  (`Arranged`, `Ascending`), and the greedy loop by a function of the rank.  What
  is kept at a rank depends on ranks before it, which is all that `Justified` says.
  `SuppressionSound` names the kept positions with an existential, since two
  detections may be equal.
* Fusion: the union-find is a forest with a root and a depth for each detection
  (`Forest`); uniting two roots lengthens no path beyond the number of members
  (`UniteFact`), so following parents as often as there are detections does reach
  the root.  After the loop over pairs two detections have one root exactly if
  every set closed under joining has both or neither (`Sorts`), and `Components`,
  which grows a set as often as there are detections, is that relation: a set
  that grows at each step has more elements than there are.
* Survival: a complete detection has no cuts and joins nothing, so fusion leaves
  it alone; containment never drops a complete one; and the last pass visits the
  complete ones first, so that one is dropped only for a complete one that overlaps
  it.

The prover cannot instantiate the induction theorems of its library.  Induction
over the length of a list is done here by a least counterexample (the library's
`WFMin` and the order of the naturals), and each function defined by recursion is
shown to satisfy its equation the same way (`Recursion`), which is why the loops of
`Detections` are recursive functions and not folds.

`ObjectRecovered` takes an object alone in the frame, of one part, and reported with
some confidence by every tile that sees any of it (`Recoverable`); it then comes out
as one detection with the object's own box, and no detection ever reaches beyond the
object, also when tiles miss it.  Its own invariant, `RInv`, adds two things to
`IInv`.  `ReportedYet`: the tiles are the accepted layout's, and what each reports is
what it sees of the object.  `Recovering`: what each pass has made of it, which is a
whole box that outranks every fragment after fusion (`Ready`), whole boxes only after
containment, and one of them in the end.  The geometry is in `Ready`:

* a tile that sees the object whole, with no end at a seam, reports a complete box;
  fusion leaves it alone and containment drops every fragment for it, because the
  fragments lie inside it (`IoS` is 1);
* otherwise every piece is cut, and two quadrants side by side each see a piece that
  reaches the seam between them, or the margin of 5 % around it (`edge_eps`); the two
  have the same extent along the seam, so they meet and line up, and union-find leaves
  one group that has the object's four ends.

Two cases are left out of the property, and both are limits of the code that the attempt
to prove it brought out:

* `TakenForFragment`.  Whether an edge is at a seam is decided with a margin of 5 % of the
  tile (`tiled_shard.py:225`), so an object that ends at or just before a seam is seen whole
  by a quadrant and yet counts as a fragment there.  If the center tile sees less of it, and
  the two do not join, they are ranked by confidence alone, and the smaller one may win,
  although "a fragment holds only part of an object, so letting it survive in place of the
  whole box is never right" (`:272-273`).  TLC finds it with `quadrants_center`, a frame of
  16, tiles of 8 and an object at `<<5, 3, 8, 7>>`, if `Recoverable` does not exempt it.
* Quadrants that overlap by more than the margin (`Flush` excludes it; only a
  `quadrants_center` layout whose tile is well above half the frame, such as 7 of 12, has
  them).  A piece then reaches into its neighbour's quadrant, and whether the halves join
  depends on more than what they see.  The shipped 448 and 224 do not overlap.

The scenes `AtSeams` are for these: ends at, beside and across a seam on a frame of 16, and
quadrants of 20 in a frame of 39, whose overlap is just within the margin.

Two things to know: with the shipped penalty of 0.4 and a final threshold of 0.5
a fragment left alone is never reported; and a group of fused fragments counts
as complete even when some of the object's pieces were missed.

### Scoring

`ScoreRun.tla` reads a dump, finds its kit, checks it and computes the two rows
of `scripts/eval_shard_map.py`; `AveragePrecision.tla` is
`common/detection_map.py`.  The dashboard's `score()` calls the same code with
the kit of the set it ran.  A precision is counted in whole parts of a constant,
`One`, and recall in annotations, so that an AP is a number of parts of `One` times
the annotations of the class: exact when `One` is a multiple of every rank, as the 12
of the run is of the ranks 1 to 4 it has, and rounded down at each rank otherwise.  A
detection is known by its frame and its place there.  `argsort` is not stable, so ties may
fall in any order.

| run | configuration | shows |
|---|---|---|
| `score` | `Score` | `ApIsArea`: each class's figure is what its objects are worth, by a definition without loops or envelope; `StricterIsLower`: a stricter overlap never raises it; `GateComparable`: a run that found the kit's own detections gets the reference row's figures |
| `score_kit` | `ScoreKit` | `OwnKit` fails |

`score` enumerates every pair of up to two detections against one or two objects
with overlaps on both sides of the thresholds, a second frame, the dump's lines
in either order, all gates and caps, and dumps that are empty, repeat a sample
or reach too far.  `score_kit` is a disagreement with the script's own comment:
a dump is matched with the sets whose name it starts with, and of those the
smallest is taken.  The README's full split, `voc2007_test_r448`, also starts
with `voc2007_`; its dump is then refused, or, if the run was short, scored
against the frames of the wrong kit.

`ScoreProofs.tla` proves `GateComparable` (`RowsAreComparable`) for any dump, sets,
kits, gates and caps.  Without ties there is one list of the same detections in
descending order (`DescendingSame`), so the two rows collect the same frames, and
then the scores of each class are the same list.  The proof showed what an instance
with one frame had hidden: scores of different frames may tie, and the rows are
only equal because argsort, stable or not, orders the same scores the same way
each time.  The model has that now (`Consistent`, on the orders it remembers in `ranked`),
the run has such ties, and the property asks for no ties within a frame on either side
instead of only among what was scored last.

`FiguresAreAreas` and `StricterNeverHigher` prove the other two, `ApIsArea` and
`StricterIsLower`, for any classes, boxes and scores, and every `One`.  Both rest on
`Latest`: the figures of the row computed last are those of the detections collected for it,
which are in descending order.  The argument:

* A loop with a set of the annotations taken so far is a recursive function; after `k`
  detections the set holds the annotations that one of them claims (it overlaps it most, and
  enough), so a detection is a true positive exactly if it is the first to claim
  (`TrueFact`).
* The area is a sum over ranks; a rank that finds nothing adds nothing, and one that finds
  the `j`-th object adds the best precision from there on, which is what that object is
  worth (`AreaIsWorth`).
* A claim at the higher threshold is one at the lower (`LowerThreshold`).  So each true
  positive at the higher threshold has one at the lower that takes the same annotation and
  stands no later in its frame (`FoundEarlier`) and, without ties in a frame, no later in
  the ranking.  No two have the same (`FoundOnce`), so among any first `k` at least as many
  are true at the lower threshold (`FoundMore`); precisions are nowhere less, and
  neither is what an object is worth (`WorthMore`).

Sums are compared one term at a time (`TotalFact`, `TotalMonotone`), by the same induction
over numbers as in the tile merge.

## 7. The batch client

`BatchClient.tla` is `client/soam_client.py`: `StartSender` (with the `break` at
the first empty range), `Send` per thread, `FetchAll` and `FetchTimeout` for the
two ways `fetch_task_output(count, 120)` returns, `FetchEnd`, `Report`.  A host
runs a task (`Run`), answers it (`Answer`: fine, with an error, or given up on)
or is lost with it (`Lose`), in which case another host runs it; an output may
be seen twice (`Duplicate`).  The choice of samples is left out.

The run `batch` (`Batch.cfg`) has no, fewer and more tasks than threads, and a
number of threads that does not divide them, two hosts and one fault of each
kind.  It checks `TypeOK` (a task is in one place), `Partitioned` (every index is
sent by one thread, though the loop stops at an empty range), `ReportAddsUp` and
`Reports`.

Fairness: main and the senders run, a fetch returns when its time is up, and
instances answer.  Without the last, `Reports` fails: there is no watchdog
(`:192`), and a task that is never answered keeps the client fetching for ever.
Time is not modelled: each fetch asks for all `count` outputs, also when most are
in, so that a single late output costs two minutes.  `ReportAddsUp` is about the loop's own
counters: `done` there is the outputs fetched, which are the successes of the hosts and the
errors.  The `"done"` that is printed is the count asked for minus the errors
(`soam_client.py:224`), and need not be the sum of the hosts when an output came twice; for
runs without a second delivery the property has both agree.

`BatchProofs.tla` proves `BatchTypeCorrect`, `RangesPartition` and `ReportIsSum` for
every number of tasks, threads and hosts and every budget of faults.  That the
ranges hold every index once, although the loop stops at the first empty range,
is arithmetic: a range is a step of the count divided by the number of threads
and rounded up (`RoundedUp`), and after an empty one all are empty.  For the totals `IInv` says
that without a second delivery each task sent is with SOAM, on a host, in an
output or counted (`Counted`), that what is sent next is nowhere yet (`Placed`),
and that main went past its loops only at their end (`AllStarted`, `EndOfFetch`).
The sum over the hosts is the size of a set of numbered successes, so that no
recursion is needed to state it.

## 8. Sample sets and the shard dashboard

`SampleSets.tla` is `common/prepare_samples.py`, file by file: `StartPrep` (the
scan of a launch, or one archive by hand), `Skip`, `OpenBin`, `WriteChunk`,
`OpenSidecar`, `CloseSidecar`, `EndPrep`, and `KillPrep` anywhere.
`ShardDashboard.tla` extends it with the threads of `dashboard/app.py`:

| code | actions |
|---|---|
| `api_run` and the client it starts | `Ask` (clamped count), `OpenPool` (`FramePool` of `shard_client.py`, which falls back to random frames), `SendFrame`, `ClientFails`, `Score`, `Publish` |
| `api_frame` | `OpenView` (reads `STATE` under its lock; of the samples with a record or a frame), `Refuse`, `Draw` |
| the operating system | `BusError`, `Restart` |

A detection is named after the frame it was computed from, so that boxes on the wrong
pixels, and figures of noise, show. Assumed: one preparer at a time, a set always
prepared from the same archive, chunks written as a whole, writes that do not fail, and
a kit that can be opened whenever its archive was prepared. A preparation by hand
(`prepare_samples.py:217-225`) is of a folder's own archive, under its own name:
`--name`, and the archives of a folder that is refused, are left out, as they would put
two archives under one name. A subprocess that outlasts its hour is `ClientFails`.
`--model` and a relaunch that removes everything are left out.

The run `gallery` (`Gallery.cfg`) has a set of two frames, an empty one, one of
noise and a folder that is refused; two preparations, two users, a picture and
three requests, and is symmetric in the users.  It checks `PicturesMatch`,
`NeverScoresNoise` and `ScanPreparesAll`.  Two users are what it takes to publish
a run while another is scored or drawn, two preparations to empty a set that was
whole, and a killed one followed by a whole one.

Seen while modelling, and exempted in the properties:

* `open_frames` may raise inside the locked section of `api_run`, after records
  and kit were replaced and before the frames are (`app.py:229-236`): `STATE` is
  then half of one run and half of another, although the comment at `:87-88` has
  them replaced together.  `torn` marks such a state; without `~torn`,
  `PicturesMatch` fails.
* A memory map of a `.bin` that a new preparation has emptied is a SIGBUS on the
  next picture, which ends the dashboard (`BusError`).
* A set with no frames makes the client run random frames and exit with 0;
  `NeverScoresNoise` holds because the empty kit then refuses to score them.

`GalleryProofs.tla` proves `ScanIsComplete`, `FiguresAreOfTheSet` and
`BoxesMatchPixels` for any data directory (finitely many archives per set, with
any counts), any chunk size, and any number of users, pictures and preparations.
The invariant: what is on disk is of an archive that can be prepared, a sidecar is
never there before its frames (`OnDisk`), the set being written has as many rows as
the preparer counted (`BeingWritten`), a scan leaves whole what it has gone past
(`GonePast`).  From it, a client falls back to random frames only for a set whose archive has no
frames, and the kit of such a set has no samples to score them with (`RunOk`); a
run that is published whole is of one set, and a picture reads that state under
the lock (`StateOk`, `ViewOk`).  States and pictures marked `torn` are exempt, as
they are in `PicturesMatch`.

## 9. The launch and the compute-nodes card

`ServiceLaunch.tla` has `register.sh`, SOAM's placement and `up.sh`: `Enable` and
`Disable` (the bounce), `Place` (anywhere before the bounce, on a least loaded
host after it), `OpenChip`, `GiveUp`, `LogReady`, `Orphan`, `Look`,
`LookedEnough`.  A chip is opened by one worker at a time; killing a container
leaves its worker, which holds the chip until it sees the end of its pipe.
`FleetCard.tla` extends it with `common/fleet.py`: a poll lists the logs by time
(`ListLogs`) and reads them later (`ReadLogs`).  The retry lines of a worker, the
first 16 KiB of a log that the card limits itself to (`fleet.py:60, 127`; READY is written early), the
card's two-second cache, docker errors, nodes that stop and workers that crash
are left out.  A host has `PerHost` names for instances, taken again when one
ended without getting ready.

The run `launch` (`Launch.cfg`) has two hosts, three names each, one look of
`up.sh` before it gives up and one page.  Three names give a host an instance of
before the bounce, one that gives up because of it, and one that serves.  It
checks `CardShowsLive`, `ReadyMeansReady` and `FleetComesUp`.

Fairness: registration runs, `up.sh` looks, SOAM places instances while there
are fewer than nodes, and each worker and container takes its steps.

`FleetProofs.tla` proves `CardIsLive` and `ReadyIsReady`, two action properties, for
any finite number of hosts, instances and pages.  The logs of a host are an order
given as a set of pairs, so "newest" needs no list.  The invariant: one worker has a
host's chip (`ChipHeldOnce`), a log that says READY is listed and none is newer than
that of the worker with the chip (`MarksListed`), and both stay true of the order a
poll has listed while it reads (`PollSteady`), because READY is never taken back
and nobody else can get ready while a worker has the chip.

`ReadyMeansReady` compares two readers of one kind of mark: "ready" is what `up.sh` takes it
for, that some log of the host says READY, and not that an instance serves there now, which
is `CardShowsLive`.  `up.sh` counts a host as ready by the log of an instance
that the bounce has since killed; `batch-inference` still counts files rather
than hosts (`up.sh:271`), under which `ReadyMeansReady` fails (`ReadyHostsMutant`).

## 10. What is proved and what is only checked

Proved, for every value of the constants: the invariants and action properties of
the shard client, the pipe, the HTTP fleet, the batch client, the tile merge, the
score, sample sets and dashboard, the launch and the card; and both refinements, of
`FrameWindow` and of `Exchange`.  Each component has one inductive invariant, `IInv`; TLC
checked each on the instance of the component's run before it was proved, and it
is stated in the component's properties module.  Three components have more, each resting
on `IInv`: the shard client for outputs that come once (`Places`, `Errors`, `Totals`), the tile
merge for an object alone in the frame (`RInv`, which adds `ReportedYet` and
`Recovering`), and the score for the figures (`Latest`).  The last two are stated with their
proofs.

What the proofs assume: the assumption named in each component's module, which
says of what kind its constants are (`ConstantsAssumption`, `PipeAssumption`, ...);
`MaxDup = 0` in the second half of `ShardClientProofs`; and `Sound` variants in
`WorkerPipeProofs`.  The last two are hypotheses of the theorems; sections 3 and 4 say
what happens without the one, and why the other holds of every service there is.
`InStep`, `ImplementsExchange`, `ObjectRecovered`, `StricterIsLower` and `GateComparable`
carry their conditions in the property itself, so that TLC checks them under the same ones (section 6).

Checked by TLC only: liveness (`Terminates`, `Completes`, `Answered`, `ChipReleased`,
`JobsEnd`, `HealthAnswered`, `Reports`, `FleetComesUp`), because fairness and `ENABLED`
are out of the prover's reach.

Each passing property has a mutant in PROJECT.json: a definition of the model
changed as a plausible bug would change the code (a guard dropped, one tile too
early, a slot never given back, the "inline" flag ignored), under which TLC finds
the property violated.  The mutants are the operators ending in `Mutant`.

## 11. What is not modelled

* Planned, see section 2: the services' files on the bus with retries on another
  host, the card's cache, stopped nodes.
* Out of reach: the arithmetic of the networks, and the comparison of arrays with
  a stored reference (`scripts/verify_reference.*`).
* Without state of interest: page templates, drawing, model registry, product
  names, the batch dashboard, package and image builds, node start-up, git hooks.
* SOAM, EGO, docker and the operating system are external: modelled by what the
  code can see of them.

PROJECT.json lists every part with what of it is modelled.

## 12. Running

`tlc -config PipelineWindow.cfg ShardClientProperties.tla` checks a run (the
modules of the runs are in PROJECT.json), `tlapm ShardClientProofs.tla` the
proofs of a module.  From nothing, `ShardClientProofs` takes six minutes on four
cores, `TileMergeProofs` five, `WorkerPipeProofs` and `ScoreProofs` two to three, the
others up to one and a half.  The longest runs take one and a half to two and a half minutes
(`pipes`, `http_nodes`, `score`, `completes`, `gallery`).
