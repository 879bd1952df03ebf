---------------------------- MODULE ShardDashboard ----------------------------
(***************************************************************************)
(* The shard application's dashboard (dashboard/app.py): a thread per HTTP *)
(* request.  A run asks the client for the detections of a prepared set,   *)
(* scores them, and publishes them with the frames for the gallery; the    *)
(* gallery's pictures are drawn from what is published.  All of it reads   *)
(* sample sets that may be prepared again at any moment (SampleSets).      *)
(*                                                                         *)
(* A detection is named after the frame it was computed from, <<set, row>>,*)
(* or <<Noise, i>> when the client fell back to random frames; the records *)
(* of a run are a set of these, by row.                                    *)
(***************************************************************************)
EXTENDS SampleSets

CONSTANTS
    Users,      \* threads that serve a run
    Views,      \* threads that serve a picture
    Visible,    \* models of the application's allowlist
    Asked,      \* counts a page may ask for
    Default,    \* frames of a run whose set has none (app.py: 200)
    Noise,      \* the set random frames belong to
    MaxRuns     \* bound: runs and pictures served

ASSUME DashboardAssumption ==
    /\ Noise \notin Sets /\ Asked \subseteq Int /\ Default \in Nat \ {0}
    /\ Visible \subseteq DOMAIN Models /\ MaxRuns \in Nat

VARIABLES
    run,        \* user -> the run it serves
    state,      \* STATE: [records, kit, frames], torn: the last run failed half-way through
    view,       \* view -> the picture it serves
    served,     \* runs and pictures asked for
    alive       \* the dashboard process

dashVars == <<run, state, view, served, alive>>
vars == <<diskVars, dashVars>>

NoSet  == "none"
NoRun  == [pc |-> "idle", set |-> NoSet, count |-> 0, random |-> FALSE, next |-> 0,
           got |-> {}, kit |-> NoSet, scored |-> {}]
NoView == [pc |-> "idle", sample |-> 0, frames |-> NoSet, kit |-> NoSet, boxes |-> {},
           torn |-> FALSE]
Empty  == [records |-> {}, kit |-> NoSet, frames |-> NoSet, torn |-> FALSE]

Init ==
    /\ DiskInit
    /\ run = [u \in Users |-> NoRun] /\ view = [v \in Views |-> NoView]
    /\ state = Empty /\ served = 0 /\ alive = TRUE

\* list_datasets: a sidecar that cannot be read hides its set.
Listed(s) == sidecar[s] = "whole" /\ Sidecar(s).model \in Visible

\* The number of frames a run asks its client for.
Clamp(want, count) ==
    LET top == IF count = 0 THEN Default ELSE count
        low == IF want < top THEN want ELSE top
    IN  IF low < 1 THEN 1 ELSE low

\* Samples of a set's frames, or of its kit.
Length(s) == IF s = NoSet THEN 0 ELSE Archive(s).count

-----------------------------------------------------------------------------
(* A run: api_run and the client it starts.                                  *)

Ask(u, s, want) ==
    /\ alive /\ run[u].pc = "idle" /\ served < MaxRuns /\ Listed(s)
    /\ run' = [run EXCEPT ![u] = [NoRun EXCEPT !.pc = "exec", !.set = s,
                                               !.count = Clamp(want, Sidecar(s).count)]]
    /\ served' = served + 1
    /\ UNCHANGED <<diskVars, state, view, alive>>

\* FramePool: the prepared frames when both files are there and the sidecar's frame size and
\* count will do, random frames otherwise; a torn sidecar ends the client.
Pooled(s) ==
    /\ bin[s] # Absent /\ sidecar[s] = "whole"
    /\ Sidecar(s).values = Models[Sidecar(s).model] /\ Sidecar(s).count > 0

OpenPool(u) ==
    LET s == run[u].set
    IN  /\ alive /\ run[u].pc = "exec" /\ ~(bin[s] # Absent /\ sidecar[s] = "torn")
        /\ run' = [run EXCEPT ![u].pc = "client", ![u].random = ~Pooled(s)]
        /\ UNCHANGED <<diskVars, state, view, served, alive>>

\* A frame is read when its turn comes.  One the .bin does not hold in full is refused by the
\* segment stage, and any frame may fail in the fleet: it leaves no record.
SendFrame(u) ==
    LET r == run[u]
        i == IF r.random THEN r.next ELSE r.next % Sidecar(r.set).count
        frame == IF r.random THEN <<Noise, i>> ELSE <<r.set, i>>
    IN  /\ alive /\ r.pc = "client" /\ r.next < r.count
        /\ \/ run' = [run EXCEPT ![u].next = @ + 1]
           \/ /\ r.random \/ i < bin[r.set]
              /\ run' = [run EXCEPT ![u].next = @ + 1, ![u].got = @ \cup {frame}]
        /\ UNCHANGED <<diskVars, state, view, served, alive>>

\* The client fails, or outlasts its hour and is left behind: the page gets an error.
ClientFails(u) ==
    /\ alive /\ run[u].pc \in {"exec", "client"}
    /\ run' = [run EXCEPT ![u] = NoRun]
    /\ UNCHANGED <<diskVars, state, view, served, alive>>

\* The kit of a set with ground truth is opened.  A run is scored when every record is of a
\* sample the kit has; otherwise the page is told why there is no figure.
Score(u) ==
    LET r == run[u]
        kit == IF Sidecar(r.set).truth THEN r.set ELSE NoSet
        fits == \A f \in r.got : f[2] < Length(kit)
    IN  /\ alive /\ r.pc = "client" /\ r.next = r.count
        /\ run' = [run EXCEPT ![u].pc = "publish", ![u].kit = kit,
                              ![u].scored = IF fits THEN r.got ELSE {}]
        /\ UNCHANGED <<diskVars, state, view, served, alive>>

\* open_frames: the memory map cannot be longer than the file, nor of an empty one.
Mappable(s) == bin[s] >= Sidecar(s).count /\ bin[s] > 0

\* Under STATE_LOCK.  When the .bin cannot be mapped, records and kit have been set already.
Publish(u) ==
    LET r == run[u]
    IN  /\ alive /\ r.pc = "publish"
        /\ state' = IF Mappable(r.set)
                    THEN [records |-> r.got, kit |-> r.kit, frames |-> r.set, torn |-> FALSE]
                    ELSE [state EXCEPT !.records = r.got, !.kit = r.kit, !.torn = TRUE]
        /\ run' = [run EXCEPT ![u] = NoRun]
        /\ UNCHANGED <<diskVars, view, served, alive>>

-----------------------------------------------------------------------------
(* A picture: api_frame.                                                     *)

\* What is published is read under STATE_LOCK, in one go.
OpenView(v, i) ==
    /\ alive /\ view[v].pc # "open" /\ served < MaxRuns
    /\ view' = [view EXCEPT ![v] =
          [pc |-> "open", sample |-> i, frames |-> state.frames, kit |-> state.kit,
           boxes |-> {f \in state.records : f[2] = i}, torn |-> state.torn]]
    /\ served' = served + 1
    /\ UNCHANGED <<diskVars, run, state, alive>>

FramesOfMutant(v) == state.frames   \* mutation: STATE["frames"] is read again, without the lock
FramesOf(v) == view[v].frames

\* No frames, no such frame, or no such sample in the kit.
Refused(v) ==
    \E s \in {FramesOf(v)} \cup ({view[v].kit} \ {NoSet}) : view[v].sample >= Length(s)

Refuse(v) ==
    /\ alive /\ view[v].pc = "open" /\ Refused(v)
    /\ view' = [view EXCEPT ![v] = NoView]
    /\ UNCHANGED <<diskVars, run, state, served, alive>>

\* The pixels come from the live file, through the memory map.
Draw(v) ==
    /\ alive /\ view[v].pc = "open" /\ ~Refused(v) /\ view[v].sample < bin[FramesOf(v)]
    /\ view' = [view EXCEPT ![v].pc = "drawn", ![v].frames = FramesOf(v)]
    /\ UNCHANGED <<diskVars, run, state, served, alive>>

\* The file has been emptied under the map: the access is a SIGBUS, the end of the process,
\* its requests and its STATE.
BusError(v) ==
    /\ alive /\ view[v].pc = "open" /\ ~Refused(v) /\ view[v].sample >= bin[FramesOf(v)]
    /\ alive' = FALSE /\ state' = Empty
    /\ run' = [u \in Users |-> NoRun] /\ view' = [w \in Views |-> NoView]
    /\ UNCHANGED <<diskVars, served>>

Restart == ~alive /\ alive' = TRUE /\ UNCHANGED <<diskVars, run, state, view, served>>

-----------------------------------------------------------------------------
UserNext(u) ==
    \/ \E s \in Sets, want \in Asked : Ask(u, s, want)
    \/ OpenPool(u) \/ SendFrame(u) \/ ClientFails(u) \/ Score(u) \/ Publish(u)

\* A sample that has a record or a frame; any other is refused, and changes nothing.
Pictured == {f[2] : f \in state.records} \cup 0 .. Length(state.frames) - 1

ViewNext(v) ==
    \/ \E i \in Pictured : OpenView(v, i)
    \/ Refuse(v) \/ Draw(v) \/ BusError(v)

\* Nothing is under way, and no more preparations are left (the bounds of the model).
Rest ==
    /\ scans = MaxScans /\ prep.pc \in {"off", "done", "killed"}
    /\ alive /\ (\A u \in Users : run[u].pc = "idle")
    /\ \A v \in Views : view[v].pc # "open"
    /\ UNCHANGED vars

Next ==
    \/ Prepare /\ UNCHANGED dashVars
    \/ \E u \in Users : UserNext(u)
    \/ \E v \in Views : ViewNext(v)
    \/ Restart
    \/ Rest

Spec == Init /\ [][Next]_vars
=============================================================================
