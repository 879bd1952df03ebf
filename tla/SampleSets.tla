------------------------------ MODULE SampleSets ------------------------------
(***************************************************************************)
(* src/common/prepare_samples.py: every data/<set>/<one>.npz becomes the   *)
(* frames <set>.bin and the sidecar <set>.samples.json, in place, while    *)
(* dashboards and clients may be reading them.  The preparer may be killed *)
(* between any two steps and started again.                                *)
(*                                                                         *)
(* One preparer runs at a time, a set is always prepared from the same     *)
(* archive, a chunk is written as a whole, and writes do not fail.          *)
(***************************************************************************)
EXTENDS Integers, FiniteSets, Sequences, SequencesExt

CONSTANTS
    Archives,   \* set name -> the .npz files in its folder, records
                \*   [kind, truth, values of one sample, count of samples]
    Order,      \* the folders in the order of their names
    Models,     \* model -> values of the sample its client sends
    Chunk,      \* samples written at a time
    MaxScans    \* bound: preparations started

ASSUME SetsAssumption ==
    /\ Order \in Seq(DOMAIN Archives) /\ ToSet(Order) = DOMAIN Archives
    /\ \A s \in DOMAIN Archives :
         IsFiniteSet(Archives[s]) /\ \A a \in Archives[s] : a.count \in Nat
    /\ IsFiniteSet(DOMAIN Models)
    /\ Chunk \in Nat \ {0} /\ MaxScans \in Nat

VARIABLES
    bin,        \* set -> samples in its .bin, or Absent
    sidecar,    \* set -> "none", "torn" (opened, not closed) or "whole"
    prep,       \* the preparer: [pc, todo, scan, rows]
    scans       \* preparations started

diskVars == <<bin, sidecar, prep, scans>>

Sets   == DOMAIN Archives
Absent == -1

\* What np.load makes of an archive: a test kit, or any uint8 samples; a Git LFS pointer,
\* something that is no archive and an archive without samples are refused.
Opens(a)  == a.kind \in {"kit", "plain", "noise"}
Truth(a)  == a.kind = "kit" /\ a.truth
Random(a) == a.kind = "noise"

\* The models an archive can feed; the one asked for, else the only one that fits.
Fits(a) == {m \in DOMAIN Models : Models[m] = a.values}
Convertible(a) == Opens(a) /\ Cardinality(Fits(a)) = 1

\* A folder of the scan stands for one set when it holds exactly one archive.
UsableSets == {s \in Sets : Cardinality(Archives[s]) = 1 /\ \A a \in Archives[s] : Convertible(a)}
ArchiveOf  == [s \in Sets |-> CHOOSE a \in Archives[s] : Convertible(a)]
Usable(s)  == s \in UsableSets
Archive(s) == ArchiveOf[s]

\* What the sidecar of a set says, once whole.
Sidecar(s) ==
    [model |-> CHOOSE m \in Fits(Archive(s)) : TRUE, count |-> Archive(s).count,
     values |-> Archive(s).values, truth |-> Truth(Archive(s)), random |-> Random(Archive(s))]

-----------------------------------------------------------------------------
NoPrep == [pc |-> "off", todo |-> <<>>, scan |-> FALSE, rows |-> 0]

DiskInit ==
    /\ bin = [s \in Sets |-> Absent]
    /\ sidecar = [s \in Sets |-> "none"]
    /\ prep = NoPrep
    /\ scans = 0

\* Start a preparation: the scan of a launch, or --npz for the archive of one set.
StartPrep ==
    /\ prep.pc \in {"off", "done", "killed"} /\ scans < MaxScans
    /\ scans' = scans + 1
    /\ \/ prep' = [pc |-> "folder", todo |-> Order, scan |-> TRUE, rows |-> 0]
       \/ \E s \in Sets :
             /\ Usable(s)
             /\ prep' = [pc |-> "folder", todo |-> <<s>>, scan |-> FALSE, rows |-> 0]
    /\ UNCHANGED <<bin, sidecar>>

SkipMutant ==       \* mutation: a dataset that is refused ends the scan
    /\ prep.pc = "folder" /\ prep.todo # <<>>
    /\ prep.scan /\ ~Usable(Head(prep.todo))
    /\ prep' = [prep EXCEPT !.todo = <<>>]
    /\ UNCHANGED <<bin, sidecar, scans>>
\* The next folder is refused, which must not stop the others.
Skip ==
    /\ prep.pc = "folder" /\ prep.todo # <<>>
    /\ prep.scan /\ ~Usable(Head(prep.todo))
    /\ prep' = [prep EXCEPT !.todo = Tail(@)]
    /\ UNCHANGED <<bin, sidecar, scans>>

OpenBinMutant ==    \* mutation: the sidecar is written first, the .bin is made by the first chunk
    /\ prep.pc = "folder" /\ prep.todo # <<>>
    /\ prep.scan => Usable(Head(prep.todo))
    /\ sidecar' = [sidecar EXCEPT ![Head(prep.todo)] = "whole"]
    /\ prep' = [prep EXCEPT !.pc = "frames", !.rows = 0]
    /\ UNCHANGED <<bin, scans>>
\* Every check is done before the .bin is opened, which empties it in place.
OpenBin ==
    /\ prep.pc = "folder" /\ prep.todo # <<>>
    /\ prep.scan => Usable(Head(prep.todo))
    /\ bin' = [bin EXCEPT ![Head(prep.todo)] = 0]
    /\ prep' = [prep EXCEPT !.pc = "frames", !.rows = 0]
    /\ UNCHANGED <<sidecar, scans>>

WriteChunk ==
    LET s == Head(prep.todo)
        up == prep.rows + Chunk
        rows == IF up > Archive(s).count THEN Archive(s).count ELSE up
    IN  /\ prep.pc = "frames" /\ prep.rows < Archive(s).count
        /\ bin' = [bin EXCEPT ![s] = rows]
        /\ prep' = [prep EXCEPT !.rows = rows]
        /\ UNCHANGED <<sidecar, scans>>

OpenSidecar ==
    LET s == Head(prep.todo)
    IN  /\ prep.pc = "frames" /\ prep.rows = Archive(s).count
        /\ sidecar' = [sidecar EXCEPT ![s] = "torn"]
        /\ prep' = [prep EXCEPT !.pc = "sidecar"]
        /\ UNCHANGED <<bin, scans>>

CloseSidecar ==
    /\ prep.pc = "sidecar"
    /\ sidecar' = [sidecar EXCEPT ![Head(prep.todo)] = "whole"]
    /\ prep' = [prep EXCEPT !.pc = "folder", !.todo = Tail(@)]
    /\ UNCHANGED <<bin, scans>>

EndPrep ==
    /\ prep.pc = "folder" /\ prep.todo = <<>>
    /\ prep' = [prep EXCEPT !.pc = "done"]
    /\ UNCHANGED <<bin, sidecar, scans>>

\* Only what is on disk is left of a preparer that is killed.
KillPrep ==
    /\ prep.pc \in {"folder", "frames", "sidecar"}
    /\ prep' = [NoPrep EXCEPT !.pc = "killed"]
    /\ UNCHANGED <<bin, sidecar, scans>>

Prepare ==
    \/ StartPrep \/ Skip \/ OpenBin \/ WriteChunk \/ OpenSidecar \/ CloseSidecar
    \/ EndPrep \/ KillPrep
=============================================================================
