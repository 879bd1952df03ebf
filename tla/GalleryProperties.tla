--------------------------- MODULE GalleryProperties ---------------------------
(***************************************************************************)
(* What the gallery and the accuracy figures of the shard dashboard are    *)
(* worth while sample sets are prepared, and the preparer killed, under it.*)
(***************************************************************************)
EXTENDS ShardDashboard

\* The boxes of a picture were computed from its pixels, and so was the truth drawn with them,
\* whatever runs were published while it was drawn, unless the last run had failed half-way
\* through publishing (app.py:84-95, "exactly the pixels they came from", 229-236, 246-268).
PicturesMatch ==
    \A v \in Views : view[v].pc = "drawn" /\ ~view[v].torn =>
        /\ view[v].boxes \subseteq {<<view[v].frames, view[v].sample>>}
        /\ view[v].kit \in {view[v].frames, NoSet}

\* An accuracy figure is never one of random frames, nor of another set's: the client falls
\* back to noise without failing (shard_client.py:73-104), so this rests on a listed set
\* having its .bin, and on a kit refusing the samples it has not (app.py:216-227).
NeverScoresNoise ==
    \A u \in Users : \A f \in run[u].scored :
        f[1] = run[u].set /\ f[2] < Archive(run[u].set).count

\* When a scan has come to its end, every dataset that can be prepared is whole on disk,
\* whatever the other folders hold and wherever earlier preparations were killed
\* (prepare_samples.py:172-206, "one unreadable ... dataset must not take the cluster down").
ScanPreparesAll ==
    prep.pc = "done" /\ prep.scan =>
        \A s \in Sets : Usable(s) => sidecar[s] = "whole" /\ bin[s] = Archive(s).count

-----------------------------------------------------------------------------
(* The inductive invariant behind the three                                  *)

PrepStates == {"off", "folder", "frames", "sidecar", "done", "killed"}

Frames     == (Sets \cup {Noise}) \X Nat
SomeSet    == Sets \cup {NoSet}

DiskTyped ==
    /\ bin \in [Sets -> Int] /\ sidecar \in [Sets -> {"none", "torn", "whole"}]
    /\ prep \in [pc : PrepStates, todo : Seq(Sets), scan : BOOLEAN, rows : Nat]

RunRecords == [pc : {"idle", "exec", "client", "publish"}, set : SomeSet, count : Nat,
               random : BOOLEAN, next : Nat, got : SUBSET Frames, kit : SomeSet,
               scored : SUBSET Frames]
Pictures   == [pc : {"idle", "open", "drawn"}, sample : Nat, frames : SomeSet, kit : SomeSet,
               boxes : SUBSET Frames, torn : BOOLEAN]
States     == [records : SUBSET Frames, kit : SomeSet, frames : SomeSet, torn : BOOLEAN]

DashTyped == run \in [Users -> RunRecords] /\ view \in [Views -> Pictures] /\ state \in States

\* A set on disk can be prepared, has no more frames than its archive, and its sidecar has
\* never been there before its frames, not even torn.
OnDisk == \A s \in Sets :
    /\ bin[s] # Absent => Usable(s) /\ bin[s] \in 0 .. Archive(s).count
    /\ sidecar[s] # "none" => bin[s] # Absent

\* The set that is being written holds as many frames as the preparer counts, all of them
\* once the sidecar is opened.
BeingWritten ==
    /\ prep.pc \in {"frames", "sidecar"} =>
         /\ prep.todo # <<>> /\ Usable(Head(prep.todo)) /\ bin[Head(prep.todo)] = prep.rows
    /\ prep.pc = "sidecar" => prep.rows = Archive(Head(prep.todo)).count

\* A preparation by hand is of sets that can be prepared; a scan has nothing left in the end,
\* and leaves whole every set that it has gone past.
GonePast ==
    /\ prep.pc = "done" => prep.todo = <<>>
    /\ ~prep.scan => \A s \in ToSet(prep.todo) : Usable(s)
    /\ prep.scan =>
         \A s \in Sets \ ToSet(prep.todo) :
             Usable(s) => sidecar[s] = "whole" /\ bin[s] = Archive(s).count

DiskInv == DiskTyped /\ OnDisk /\ BeingWritten /\ GonePast

\* A client computes random frames only for a set that has no frames at all, and what is
\* scored is what the set's own kit has samples for.
RunOk(r) ==
    /\ r.pc # "idle" => r.set \in Sets /\ sidecar[r.set] # "none"
    /\ r.pc \in {"client", "publish"} =>
         IF r.random THEN Archive(r.set).count = 0 /\ r.got \subseteq {Noise} \X Nat
                     ELSE Archive(r.set).count > 0 /\ r.got \subseteq {r.set} \X Nat
    /\ r.pc \notin {"client", "publish"} => r.got = {}
    /\ r.kit \in {r.set, NoSet}
    /\ \A f \in r.scored : f[1] = r.set /\ f[2] < Archive(r.set).count

\* What was published whole is of one set.
StateOk(st) == ~st.torn => st.records \subseteq {st.frames} \X Nat /\ st.kit \in {st.frames, NoSet}

\* A picture has the boxes of its frame and of its set, if its run was published whole.
ViewOk(w) == w.pc # "idle" /\ ~w.torn =>
                 w.boxes \subseteq {<<w.frames, w.sample>>} /\ w.kit \in {w.frames, NoSet}

IInv ==
    /\ DiskInv /\ DashTyped /\ StateOk(state)
    /\ (\A u \in Users : RunOk(run[u])) /\ \A v \in Views : ViewOk(view[v])
=============================================================================
