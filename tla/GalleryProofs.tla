----------------------------- MODULE GalleryProofs -----------------------------
(***************************************************************************)
(* Proofs about the sample sets and the shard dashboard that reads them,   *)
(* for any data directory, any number of users and pictures, and a         *)
(* preparer that may be killed anywhere.                                   *)
(***************************************************************************)
EXTENDS GalleryProperties, FiniteSetTheorems, TLAPS

-----------------------------------------------------------------------------
(* Archives and queues *)

LEMMA UsableFact ==
  ASSUME NEW s \in Sets, Usable(s)
  PROVE  /\ Archive(s) \in Archives[s] /\ Convertible(Archive(s)) /\ Archive(s).count \in Nat
<1>1. IsFiniteSet(Archives[s]) /\ \A a \in Archives[s] : a.count \in Nat
  BY SetsAssumption DEF SetsAssumption, Sets
<1>2. PICK a \in Archives[s] : Convertible(a)
  <2>1. Archives[s] # {}
    BY <1>1, FS_EmptySet DEF Usable, UsableSets
  <2> QED
    BY <2>1 DEF Usable, UsableSets
<1>3. Archive(s) \in Archives[s] /\ Convertible(Archive(s))
  BY <1>2 DEF Archive, ArchiveOf
<1> QED
  BY <1>1, <1>3

\* A set that can be prepared has a sidecar that its frames fit.
LEMMA SidecarFact ==
  ASSUME NEW s \in Sets, Usable(s)
  PROVE  Sidecar(s).count = Archive(s).count /\ Sidecar(s).values = Models[Sidecar(s).model]
<1> DEFINE a == Archive(s)
           m == CHOOSE m \in Fits(a) : TRUE
<1>1. Convertible(a)
  BY UsableFact
<1>2. IsFiniteSet(Fits(a))
  <2>1. Fits(a) \in SUBSET DOMAIN Models
    BY DEF Fits
  <2> QED
    BY <2>1, FS_Subset, SetsAssumption DEF SetsAssumption
<1>3. Fits(a) # {}
  BY <1>1, <1>2, FS_EmptySet DEF Convertible
<1>4. m \in Fits(a)
  BY <1>3
<1>5. Models[m] = a.values
  BY <1>4 DEF Fits
<1>6. Sidecar(s).count = a.count /\ Sidecar(s).values = a.values /\ Sidecar(s).model = m
  BY DEF Sidecar
<1> QED
  BY <1>5, <1>6

LEMMA TailFact ==
  ASSUME NEW S, NEW q \in Seq(S), q # <<>>
  PROVE  /\ Head(q) \in S /\ Tail(q) \in Seq(S) /\ Head(q) \in ToSet(q)
         /\ ToSet(q) = {Head(q)} \cup ToSet(Tail(q))
<1>1. Len(q) \in Nat /\ Len(q) > 0 /\ DOMAIN q = 1 .. Len(q)
  OBVIOUS
<1>2. Head(q) = q[1] /\ 1 \in DOMAIN q /\ Head(q) \in S
  BY <1>1
<1>3. Tail(q) \in Seq(S) /\ DOMAIN Tail(q) = 1 .. (Len(q) - 1)
  BY <1>1
<1>4. \A i \in 1 .. (Len(q) - 1) : Tail(q)[i] = q[i + 1]
  BY <1>1
<1>5. \A x \in ToSet(q) : x = Head(q) \/ x \in ToSet(Tail(q))
  <2> SUFFICES ASSUME NEW i \in DOMAIN q, i # 1 PROVE q[i] \in ToSet(Tail(q))
    BY <1>2 DEF ToSet
  <2>1. i - 1 \in 1 .. (Len(q) - 1) /\ (i - 1) + 1 = i
    BY <1>1
  <2>2. Tail(q)[i - 1] = q[i]
    BY <1>4, <2>1
  <2> QED
    BY <1>3, <2>1, <2>2 DEF ToSet
<1>6. \A x \in ToSet(Tail(q)) : x \in ToSet(q)
  <2> SUFFICES ASSUME NEW i \in 1 .. (Len(q) - 1) PROVE Tail(q)[i] \in ToSet(q)
    BY <1>3 DEF ToSet
  <2>1. i + 1 \in DOMAIN q
    BY <1>1
  <2> QED
    BY <1>4, <2>1 DEF ToSet
<1>7. Head(q) \in ToSet(q)
  BY <1>2 DEF ToSet
<1> QED
  BY <1>2, <1>3, <1>5, <1>6, <1>7

-----------------------------------------------------------------------------
(* The preparer *)

\* A sidecar that was there once is there ever after, if only torn.
Grows == \A s \in Sets : sidecar[s] # "none" => sidecar'[s] # "none"

LEMMA StartPrepStep ==
  ASSUME DiskInv, StartPrep
  PROVE  DiskInv' /\ Grows
<1>1. bin' = bin /\ sidecar' = sidecar
  BY DEF StartPrep
<1>2. CASE prep' = [pc |-> "folder", todo |-> Order, scan |-> TRUE, rows |-> 0]
  <2>1. Order \in Seq(Sets) /\ ToSet(Order) = Sets
    BY SetsAssumption DEF SetsAssumption, Sets
  <2>2. prep' \in [pc : PrepStates, todo : Seq(Sets), scan : BOOLEAN, rows : Nat]
    BY <1>2, <2>1 DEF PrepStates
  <2>3. prep'.pc = "folder" /\ prep'.todo = Order /\ prep'.scan = TRUE
    BY <1>2
  <2>4. DiskTyped' /\ OnDisk'
    BY <1>1, <2>2 DEF DiskInv, DiskTyped, OnDisk
  <2>5. BeingWritten' /\ GonePast'
    BY <2>1, <2>3 DEF BeingWritten, GonePast
  <2> QED
    BY <1>1, <2>4, <2>5 DEF DiskInv, Grows
<1>3. ASSUME NEW s \in Sets, Usable(s),
             prep' = [pc |-> "folder", todo |-> <<s>>, scan |-> FALSE, rows |-> 0]
      PROVE  DiskInv' /\ Grows
  <2>1. <<s>> \in Seq(Sets) /\ ToSet(<<s>>) = {s}
    BY DEF ToSet
  <2>2. prep' \in [pc : PrepStates, todo : Seq(Sets), scan : BOOLEAN, rows : Nat]
    BY <1>3, <2>1 DEF PrepStates
  <2>3. prep'.pc = "folder" /\ prep'.todo = <<s>> /\ prep'.scan = FALSE
    BY <1>3
  <2>4. DiskTyped' /\ OnDisk'
    BY <1>1, <2>2 DEF DiskInv, DiskTyped, OnDisk
  <2>5. BeingWritten' /\ GonePast'
    BY <1>3, <2>1, <2>3 DEF BeingWritten, GonePast
  <2> QED
    BY <1>1, <2>4, <2>5 DEF DiskInv, Grows
<1> QED
  BY <1>2, <1>3 DEF StartPrep

\* A folder that is skipped has no set to make whole.
LEMMA SkipStep ==
  ASSUME DiskInv, Skip
  PROVE  DiskInv' /\ Grows
<1>1. bin' = bin /\ sidecar' = sidecar /\ prep' = [prep EXCEPT !.todo = Tail(prep.todo)]
  BY DEF Skip
<1>2. prep \in [pc : PrepStates, todo : Seq(Sets), scan : BOOLEAN, rows : Nat]
  BY DEF DiskInv, DiskTyped
<1>3. prep.pc = "folder" /\ prep.todo # <<>> /\ prep.scan /\ ~Usable(Head(prep.todo))
  BY DEF Skip
<1>4. /\ Tail(prep.todo) \in Seq(Sets)
      /\ ToSet(prep.todo) = {Head(prep.todo)} \cup ToSet(Tail(prep.todo))
  BY <1>2, <1>3, TailFact
<1>5. /\ prep'.pc = "folder" /\ prep'.todo = Tail(prep.todo) /\ prep'.scan = prep.scan
      /\ prep' \in [pc : PrepStates, todo : Seq(Sets), scan : BOOLEAN, rows : Nat]
  BY <1>1, <1>2, <1>3, <1>4
<1>6. DiskTyped' /\ OnDisk'
  BY <1>1, <1>5 DEF DiskInv, DiskTyped, OnDisk
<1>7. BeingWritten' /\ GonePast'
  BY <1>1, <1>3, <1>4, <1>5 DEF DiskInv, BeingWritten, GonePast
<1> QED
  BY <1>1, <1>6, <1>7 DEF DiskInv, Grows

\* What the preparer writes is the set it is at, which is not one it has gone past.
LEMMA WriteStep ==
  ASSUME DiskInv, NEW rows \in Nat, NEW pc \in {"frames", "sidecar"},
         prep.pc \in {"folder", "frames"}, prep.todo # <<>>, Usable(Head(prep.todo)),
         rows <= Archive(Head(prep.todo)).count,
         pc = "sidecar" => rows = Archive(Head(prep.todo)).count,
         bin' = [bin EXCEPT ![Head(prep.todo)] = rows],
         sidecar' = sidecar \/ sidecar' = [sidecar EXCEPT ![Head(prep.todo)] = "torn"],
         prep' = [prep EXCEPT !.pc = pc, !.rows = rows]
  PROVE  DiskInv' /\ Grows
<1> DEFINE s == Head(prep.todo)
<1>1. /\ bin \in [Sets -> Int] /\ sidecar \in [Sets -> {"none", "torn", "whole"}]
      /\ prep \in [pc : PrepStates, todo : Seq(Sets), scan : BOOLEAN, rows : Nat]
  BY DEF DiskInv, DiskTyped
<1>2. s \in Sets /\ s \in ToSet(prep.todo)
  BY <1>1, TailFact
<1>3. /\ prep'.pc = pc /\ prep'.todo = prep.todo /\ prep'.scan = prep.scan /\ prep'.rows = rows
      /\ prep' \in [pc : PrepStates, todo : Seq(Sets), scan : BOOLEAN, rows : Nat]
  BY <1>1 DEF PrepStates
<1>4. \A r \in Sets : bin'[r] = IF r = s THEN rows ELSE bin[r]
  BY <1>1
<1>5. \A r \in Sets : sidecar'[r] = sidecar[r] \/ (r = s /\ sidecar'[r] = "torn")
  BY <1>1
<1>6. bin' \in [Sets -> Int] /\ sidecar' \in [Sets -> {"none", "torn", "whole"}]
  BY <1>1, <1>2
<1>7. Usable(s) /\ Archive(s).count \in Nat /\ rows <= Archive(s).count /\ rows # Absent
  BY <1>2, UsableFact DEF Absent
<1> HIDE DEF s
<1>8. Grows
  BY <1>5 DEF Grows
<1>9. OnDisk'
  <2> SUFFICES ASSUME NEW r \in Sets
               PROVE  /\ bin'[r] # Absent => Usable(r) /\ bin'[r] \in 0 .. Archive(r).count
                      /\ sidecar'[r] # "none" => bin'[r] # Absent
    BY DEF OnDisk
  <2>1. /\ bin[r] # Absent => Usable(r) /\ bin[r] \in 0 .. Archive(r).count
        /\ sidecar[r] # "none" => bin[r] # Absent
    BY DEF DiskInv, OnDisk
  <2> QED
    BY <1>4, <1>5, <1>7, <2>1
<1>10. BeingWritten'
  BY <1>2, <1>3, <1>4, <1>7 DEF BeingWritten, s
<1>11. GonePast'
  BY <1>2, <1>3, <1>4, <1>5 DEF DiskInv, GonePast
<1> QED
  BY <1>3, <1>6, <1>8, <1>9, <1>10, <1>11 DEF DiskInv, DiskTyped

LEMMA OpenBinStep ==
  ASSUME DiskInv, OpenBin
  PROVE  DiskInv' /\ Grows
<1>1. prep \in [pc : PrepStates, todo : Seq(Sets), scan : BOOLEAN, rows : Nat]
  BY DEF DiskInv, DiskTyped
<1>2. prep.pc = "folder" /\ prep.todo # <<>>
  BY DEF OpenBin
<1>3. Head(prep.todo) \in Sets /\ Head(prep.todo) \in ToSet(prep.todo)
  BY <1>1, <1>2, TailFact
<1>4. Usable(Head(prep.todo))
  BY <1>1, <1>3 DEF OpenBin, DiskInv, GonePast
<1>5. 0 \in Nat /\ 0 <= Archive(Head(prep.todo)).count
  BY <1>3, <1>4, UsableFact
<1>6. /\ bin' = [bin EXCEPT ![Head(prep.todo)] = 0] /\ sidecar' = sidecar
      /\ prep' = [prep EXCEPT !.pc = "frames", !.rows = 0]
  BY DEF OpenBin
<1> QED
  BY <1>2, <1>4, <1>5, <1>6, WriteStep

LEMMA WriteChunkStep ==
  ASSUME DiskInv, WriteChunk
  PROVE  DiskInv' /\ Grows
<1> DEFINE s    == Head(prep.todo)
           up   == prep.rows + Chunk
           rows == IF up > Archive(s).count THEN Archive(s).count ELSE up
<1>1. prep \in [pc : PrepStates, todo : Seq(Sets), scan : BOOLEAN, rows : Nat]
  BY DEF DiskInv, DiskTyped
<1>2. prep.pc = "frames" /\ prep.todo # <<>> /\ Usable(s)
  BY DEF WriteChunk, DiskInv, BeingWritten
<1>3. s \in Sets
  BY <1>1, <1>2, TailFact
<1>4. Archive(s).count \in Nat /\ Chunk \in Nat
  BY <1>2, <1>3, UsableFact, SetsAssumption DEF SetsAssumption
<1>5. rows \in Nat /\ rows <= Archive(s).count
  BY <1>1, <1>4
<1>6. bin' = [bin EXCEPT ![s] = rows] /\ sidecar' = sidecar /\ prep' = [prep EXCEPT !.rows = rows]
  BY DEF WriteChunk
<1>7. prep' = [prep EXCEPT !.pc = "frames", !.rows = rows]
  BY <1>1, <1>2, <1>6
<1> HIDE DEF rows
<1> QED
  BY <1>2, <1>5, <1>6, <1>7, WriteStep

LEMMA OpenSidecarStep ==
  ASSUME DiskInv, OpenSidecar
  PROVE  DiskInv' /\ Grows
<1> DEFINE s == Head(prep.todo)
<1>1. /\ bin \in [Sets -> Int]
      /\ prep \in [pc : PrepStates, todo : Seq(Sets), scan : BOOLEAN, rows : Nat]
  BY DEF DiskInv, DiskTyped
<1>2. prep.pc = "frames" /\ prep.todo # <<>> /\ Usable(s) /\ bin[s] = prep.rows
  BY DEF OpenSidecar, DiskInv, BeingWritten
<1>3. s \in Sets /\ prep.rows \in Nat /\ prep.rows = Archive(s).count /\ Archive(s).count \in Nat
  <2>1. s \in Sets
    BY <1>1, <1>2, TailFact
  <2> QED
    BY <1>1, <1>2, <2>1, UsableFact DEF OpenSidecar
<1>4. /\ bin' = bin /\ sidecar' = [sidecar EXCEPT ![s] = "torn"]
      /\ prep' = [prep EXCEPT !.pc = "sidecar"]
  BY DEF OpenSidecar
<1>5. bin' = [bin EXCEPT ![s] = prep.rows]
  BY <1>1, <1>2, <1>3, <1>4
<1>6. prep' = [prep EXCEPT !.pc = "sidecar", !.rows = prep.rows]
  BY <1>1, <1>4
<1>7. prep.rows <= Archive(s).count
  BY <1>3
<1> QED
  BY <1>2, <1>3, <1>4, <1>5, <1>6, <1>7, WriteStep

\* The sidecar that is closed makes its set whole.
LEMMA CloseSidecarStep ==
  ASSUME DiskInv, CloseSidecar
  PROVE  DiskInv' /\ Grows
<1> DEFINE s == Head(prep.todo)
<1>1. /\ bin \in [Sets -> Int] /\ sidecar \in [Sets -> {"none", "torn", "whole"}]
      /\ prep \in [pc : PrepStates, todo : Seq(Sets), scan : BOOLEAN, rows : Nat]
  BY DEF DiskInv, DiskTyped
<1>2. prep.pc = "sidecar" /\ prep.todo # <<>> /\ Usable(s) /\ bin[s] = Archive(s).count
  BY DEF CloseSidecar, DiskInv, BeingWritten
<1>3. /\ s \in Sets /\ Tail(prep.todo) \in Seq(Sets)
      /\ ToSet(prep.todo) = {s} \cup ToSet(Tail(prep.todo))
  BY <1>1, <1>2, TailFact
<1>4. /\ bin' = bin /\ sidecar' = [sidecar EXCEPT ![s] = "whole"]
      /\ prep' = [prep EXCEPT !.pc = "folder", !.todo = Tail(prep.todo)]
  BY DEF CloseSidecar
<1>5. /\ prep'.pc = "folder" /\ prep'.todo = Tail(prep.todo) /\ prep'.scan = prep.scan
      /\ prep' \in [pc : PrepStates, todo : Seq(Sets), scan : BOOLEAN, rows : Nat]
  BY <1>1, <1>3, <1>4 DEF PrepStates
<1>6. \A r \in Sets : sidecar'[r] = IF r = s THEN "whole" ELSE sidecar[r]
  BY <1>1, <1>4
<1>7. bin[s] # Absent
  BY <1>2, <1>3, UsableFact DEF Absent
<1> HIDE DEF s
<1>8. DiskTyped'
  BY <1>1, <1>3, <1>4, <1>5 DEF DiskTyped
<1>9. OnDisk'
  BY <1>4, <1>6, <1>7 DEF DiskInv, OnDisk
<1>10. BeingWritten'
  BY <1>5 DEF BeingWritten
<1>11. GonePast'
  BY <1>2, <1>3, <1>4, <1>5, <1>6 DEF DiskInv, GonePast
<1> QED
  BY <1>6, <1>8, <1>9, <1>10, <1>11 DEF DiskInv, Grows

LEMMA EndPrepStep ==
  ASSUME DiskInv, EndPrep \/ KillPrep
  PROVE  DiskInv' /\ Grows
<1>1. prep \in [pc : PrepStates, todo : Seq(Sets), scan : BOOLEAN, rows : Nat]
  BY DEF DiskInv, DiskTyped
<1>2. bin' = bin /\ sidecar' = sidecar
  BY DEF EndPrep, KillPrep
<1>3. prep' \in [pc : PrepStates, todo : Seq(Sets), scan : BOOLEAN, rows : Nat]
      /\ prep'.pc \in {"done", "killed"}
  <2>1. CASE EndPrep
    BY <1>1, <2>1 DEF EndPrep, PrepStates
  <2>2. CASE KillPrep
    <3>1. prep' = [pc |-> "killed", todo |-> <<>>, scan |-> FALSE, rows |-> 0]
      BY <2>2 DEF KillPrep, NoPrep
    <3>2. <<>> \in Seq(Sets)
      OBVIOUS
    <3> QED
      BY <3>1, <3>2 DEF PrepStates
  <2> QED
    BY <2>1, <2>2
<1>4. DiskTyped' /\ OnDisk' /\ BeingWritten'
  BY <1>2, <1>3 DEF DiskInv, DiskTyped, OnDisk, BeingWritten
<1>5. GonePast'
  <2>1. CASE EndPrep
    <3>1. /\ prep'.todo = <<>> /\ prep'.todo = prep.todo /\ prep'.scan = prep.scan
          /\ prep.pc = "folder"
      BY <1>1, <2>1 DEF EndPrep
    <3> QED
      BY <1>2, <3>1 DEF DiskInv, GonePast
  <2>2. CASE KillPrep
    <3>1. prep' = [pc |-> "killed", todo |-> <<>>, scan |-> FALSE, rows |-> 0]
      BY <2>2 DEF KillPrep, NoPrep
    <3>2. ToSet(prep'.todo) = {}
      BY <3>1 DEF ToSet
    <3> QED
      BY <3>1, <3>2 DEF GonePast
  <2> QED
    BY <2>1, <2>2
<1> QED
  BY <1>2, <1>4, <1>5 DEF DiskInv, Grows

LEMMA PrepareStep ==
  ASSUME DiskInv, Prepare
  PROVE  DiskInv' /\ Grows
BY StartPrepStep, SkipStep, OpenBinStep, WriteChunkStep, OpenSidecarStep, CloseSidecarStep,
   EndPrepStep DEF Prepare

-----------------------------------------------------------------------------
(* The dashboard *)

\* The preparer never makes what a run relies on untrue.
LEMMA PreparerStep ==
  ASSUME IInv, Prepare, UNCHANGED dashVars
  PROVE  IInv'
<1>1. DiskInv' /\ Grows
  BY PrepareStep DEF IInv
<1>2. run' = run /\ view' = view /\ state' = state
  BY DEF dashVars
<1>3. ASSUME NEW u \in Users PROVE RunOk(run[u])'
  <2>1. RunOk(run[u])
    BY DEF IInv
  <2> QED
    BY <1>1, <1>2, <2>1 DEF RunOk, Grows
<1>4. ASSUME NEW v \in Views PROVE ViewOk(view[v])'
  BY <1>2 DEF IInv, ViewOk
<1>5. DashTyped' /\ StateOk(state)'
  BY <1>2 DEF IInv, DashTyped, StateOk
<1> QED
  BY <1>1, <1>3, <1>4, <1>5 DEF IInv

\* One run changes, the disk does not.
LEMMA RunChanges ==
  ASSUME IInv, NEW u \in Users, NEW r \in RunRecords, run' = [run EXCEPT ![u] = r], RunOk(r),
         UNCHANGED <<diskVars, view>>, state' \in States, StateOk(state')
  PROVE  IInv'
<1>1. run \in [Users -> RunRecords]
  BY DEF IInv, DashTyped
<1>2. run' \in [Users -> RunRecords] /\ \A t \in Users : run'[t] = IF t = u THEN r ELSE run[t]
  BY <1>1
<1>3. bin' = bin /\ sidecar' = sidecar /\ prep' = prep
  BY DEF diskVars
<1>4. DiskInv'
  BY <1>3 DEF IInv, DiskInv, DiskTyped, OnDisk, BeingWritten, GonePast
<1>5. ASSUME NEW t \in Users PROVE RunOk(run[t])'
  <2>1. RunOk(run[t])
    BY DEF IInv
  <2> QED
    BY <1>2, <1>3, <2>1 DEF RunOk
<1>6. DashTyped' /\ \A v \in Views : ViewOk(view[v])'
  BY <1>2 DEF IInv, DashTyped, ViewOk
<1>7. StateOk(state)'
  BY DEF StateOk
<1> QED
  BY <1>4, <1>5, <1>6, <1>7 DEF IInv

LEMMA ViewChanges ==
  ASSUME IInv, NEW v \in Views, NEW w \in Pictures, view' = [view EXCEPT ![v] = w], ViewOk(w),
         UNCHANGED <<diskVars, run, state>>
  PROVE  IInv'
<1>1. view \in [Views -> Pictures]
  BY DEF IInv, DashTyped
<1>2. view' \in [Views -> Pictures] /\ \A t \in Views : view'[t] = IF t = v THEN w ELSE view[t]
  BY <1>1
<1>3. bin' = bin /\ sidecar' = sidecar /\ prep' = prep
  BY DEF diskVars
<1>4. DiskInv'
  BY <1>3 DEF IInv, DiskInv, DiskTyped, OnDisk, BeingWritten, GonePast
<1>5. ASSUME NEW t \in Views PROVE ViewOk(view[t])'
  <2>1. ViewOk(view[t])
    BY DEF IInv
  <2> QED
    BY <1>2, <2>1 DEF ViewOk
<1>6. DashTyped'
  BY <1>2 DEF IInv, DashTyped
<1>7. ASSUME NEW t \in Users PROVE RunOk(run[t])'
  <2>1. RunOk(run[t])
    BY DEF IInv
  <2> QED
    BY <1>3, <2>1 DEF RunOk
<1>8. StateOk(state)'
  BY DEF IInv, StateOk
<1> QED
  BY <1>4, <1>5, <1>6, <1>7, <1>8 DEF IInv

LEMMA NoRunOk == NoRun \in RunRecords /\ RunOk(NoRun)
BY DEF NoRun, RunOk, RunRecords, SomeSet, Frames

LEMMA NothingShown ==
  /\ NoView \in Pictures /\ ViewOk(NoView)
  /\ Empty \in States /\ StateOk(Empty)
BY DEF NoView, ViewOk, Pictures, Empty, StateOk, States, SomeSet, Frames

LEMMA StateKept ==
  ASSUME IInv, state' = state
  PROVE  state' \in States /\ StateOk(state')
BY DEF IInv, DashTyped, StateOk

LEMMA AskStep ==
  ASSUME IInv, NEW u \in Users, NEW s \in Sets, NEW want \in Asked, Ask(u, s, want)
  PROVE  IInv'
<1> DEFINE r == [NoRun EXCEPT !.pc = "exec", !.set = s, !.count = Clamp(want, Sidecar(s).count)]
<1>1. run' = [run EXCEPT ![u] = r] /\ UNCHANGED <<diskVars, state, view>> /\ sidecar[s] = "whole"
  BY DEF Ask, Listed
<1>2. Usable(s)
  BY <1>1 DEF IInv, DiskInv, OnDisk
<1>3. Clamp(want, Sidecar(s).count) \in Nat
  <2>1. Sidecar(s).count \in Nat /\ want \in Int /\ Default \in Nat
    BY <1>2, SidecarFact, UsableFact, DashboardAssumption DEF DashboardAssumption
  <2> DEFINE count == Sidecar(s).count
  <2> HIDE DEF count
  <2>2. count \in Nat
    BY <2>1 DEF count
  <2>3. Clamp(want, count) \in Nat
    BY <2>1, <2>2 DEF Clamp
  <2> QED
    BY <2>3 DEF count
<1>4. /\ r.pc = "exec" /\ r.set = s /\ r.got = {} /\ r.kit = NoSet /\ r.scored = {}
      /\ r \in RunRecords
  BY <1>3 DEF NoRun, RunRecords, SomeSet
<1> HIDE DEF r
<1>5. RunOk(r)
  BY <1>1, <1>4 DEF RunOk
<1> QED
  BY <1>1, <1>4, <1>5, RunChanges, StateKept

\* A listed set has a sidecar that its frames fit, so only the lack of frames makes the
\* client fall back to noise.
LEMMA OpenPoolStep ==
  ASSUME IInv, NEW u \in Users, OpenPool(u)
  PROVE  IInv'
<1> DEFINE s == run[u].set
           r == [run[u] EXCEPT !.pc = "client", !.random = ~Pooled(s)]
<1>1. run \in [Users -> RunRecords] /\ RunOk(run[u]) /\ run[u] \in RunRecords
  BY DEF IInv, DashTyped
<1>2. /\ run[u].pc = "exec" /\ UNCHANGED <<diskVars, state, view>>
      /\ run' = [run EXCEPT ![u].pc = "client", ![u].random = ~Pooled(s)]
      /\ ~(bin[s] # Absent /\ sidecar[s] = "torn")
  BY DEF OpenPool
<1>3. run' = [run EXCEPT ![u] = r]
  BY <1>1, <1>2
<1>4. Pooled(s) \in BOOLEAN
  BY DEF Pooled
<1>5. /\ r \in RunRecords /\ r.pc = "client" /\ r.set = s /\ r.random = ~Pooled(s)
      /\ r.got = run[u].got /\ r.kit = run[u].kit /\ r.scored = run[u].scored
  BY <1>1, <1>4 DEF RunRecords
<1>6. s \in Sets /\ sidecar[s] # "none" /\ run[u].got = {}
  BY <1>1, <1>2 DEF RunOk
<1>7. bin[s] # Absent /\ Usable(s)
  BY <1>6 DEF IInv, DiskInv, OnDisk
<1>8. sidecar[s] = "whole"
  BY <1>2, <1>6, <1>7 DEF IInv, DiskInv, DiskTyped
<1>9. Archive(s).count \in Nat /\ (Pooled(s) <=> Archive(s).count > 0)
  BY <1>6, <1>7, <1>8, SidecarFact, UsableFact DEF Pooled
<1> HIDE DEF r, s
<1>10. RunOk(r)
  <2>1. /\ run[u].kit \in {s, NoSet}
        /\ \A f \in run[u].scored : f[1] = s /\ f[2] < Archive(s).count
    BY <1>1 DEF RunOk, s
  <2>2. r.got = {} /\ {} \subseteq {Noise} \X Nat /\ {} \subseteq {s} \X Nat
    BY <1>5, <1>6
  <2>3. CASE Pooled(s)
    <3>1. ~r.random /\ Archive(s).count > 0
      BY <1>5, <1>9, <2>3
    <3> QED
      BY <1>5, <1>6, <2>1, <2>2, <3>1 DEF RunOk
  <2>4. CASE ~Pooled(s)
    <3>1. r.random = TRUE
      BY <1>5, <2>4, Zenon
    <3>2. Archive(s).count = 0
      BY <1>9, <2>4
    <3> QED
      BY <1>5, <1>6, <2>1, <2>2, <3>1, <3>2 DEF RunOk
  <2> QED
    BY <2>3, <2>4
<1> QED
  BY <1>2, <1>3, <1>5, <1>10, RunChanges, StateKept

\* A frame that is sent is a sample of the run's set, or one of its random frames.
LEMMA SendFrameStep ==
  ASSUME IInv, NEW u \in Users, SendFrame(u)
  PROVE  IInv'
<1> DEFINE s     == run[u].set
           i     == IF run[u].random THEN run[u].next ELSE run[u].next % Sidecar(s).count
           frame == IF run[u].random THEN <<Noise, i>> ELSE <<s, i>>
           lost  == [run[u] EXCEPT !.next = @ + 1]
           got   == [run[u] EXCEPT !.next = @ + 1, !.got = @ \cup {frame}]
<1>1. run \in [Users -> RunRecords] /\ RunOk(run[u]) /\ run[u] \in RunRecords
  BY DEF IInv, DashTyped
<1>2. /\ run[u].pc = "client" /\ UNCHANGED <<diskVars, state, view>>
      /\ run' = [run EXCEPT ![u].next = @ + 1]
         \/ run' = [run EXCEPT ![u].next = @ + 1, ![u].got = @ \cup {frame}]
  BY DEF SendFrame
<1>3. run' = [run EXCEPT ![u] = lost] \/ run' = [run EXCEPT ![u] = got]
  BY <1>1, <1>2
<1>4. s \in Sets /\ sidecar[s] # "none"
  BY <1>1, <1>2 DEF RunOk
<1>5. Usable(s)
  BY <1>4 DEF IInv, DiskInv, OnDisk
<1>6. Archive(s).count \in Nat /\ Sidecar(s).count = Archive(s).count
  BY <1>4, <1>5, SidecarFact, UsableFact
<1>7. run[u].next \in Nat /\ run[u].random \in BOOLEAN
  BY <1>1 DEF RunRecords
<1>8. ~run[u].random => Archive(s).count > 0
  BY <1>1, <1>2 DEF RunOk
<1>9. i \in Nat
  BY <1>6, <1>7, <1>8
<1> HIDE DEF i
<1>10. /\ run[u].random => frame \in {Noise} \X Nat
       /\ ~run[u].random => frame \in {s} \X Nat
  BY <1>9
<1>11. frame \in Frames
  BY <1>4, <1>9 DEF Frames
<1> HIDE DEF frame
<1>12. /\ lost \in RunRecords /\ lost.pc = "client" /\ lost.set = s /\ lost.random = run[u].random
       /\ lost.got = run[u].got /\ lost.kit = run[u].kit /\ lost.scored = run[u].scored
  BY <1>1, <1>2, <1>7 DEF RunRecords
<1>13. run[u].got \cup {frame} \in SUBSET Frames /\ run[u].next + 1 \in Nat
  BY <1>1, <1>7, <1>11 DEF RunRecords
<1>14. /\ got \in RunRecords /\ got.pc = "client" /\ got.set = s /\ got.random = run[u].random
       /\ got.got = run[u].got \cup {frame} /\ got.kit = run[u].kit /\ got.scored = run[u].scored
  BY <1>1, <1>2, <1>13 DEF RunRecords
<1> HIDE DEF lost, got
<1>15. RunOk(lost)
  BY <1>1, <1>2, <1>4, <1>12 DEF RunOk
<1>16. RunOk(got)
  <2>1. /\ run[u].kit \in {s, NoSet}
        /\ \A f \in run[u].scored : f[1] = s /\ f[2] < Archive(s).count
    BY <1>1 DEF RunOk
  <2>2. CASE run[u].random
    <3>1. Archive(s).count = 0 /\ run[u].got \cup {frame} \subseteq {Noise} \X Nat
      BY <1>1, <1>2, <1>10, <2>2 DEF RunOk
    <3>2. got.random = TRUE
      BY <1>7, <1>14, <2>2
    <3> QED
      BY <1>4, <1>14, <2>1, <3>1, <3>2 DEF RunOk
  <2>3. CASE ~run[u].random
    <3>1. Archive(s).count > 0 /\ run[u].got \cup {frame} \subseteq {s} \X Nat
      BY <1>1, <1>2, <1>10, <2>3 DEF RunOk
    <3>2. got.random = FALSE
      BY <1>7, <1>14, <2>3
    <3> QED
      BY <1>4, <1>14, <2>1, <3>1, <3>2 DEF RunOk
  <2> QED
    BY <2>2, <2>3
<1>17. state' \in States /\ StateOk(state')
  BY <1>2, StateKept
<1> QED
  BY <1>2, <1>3, <1>12, <1>14, <1>15, <1>16, <1>17, RunChanges

LEMMA ClientFailsStep ==
  ASSUME IInv, NEW u \in Users, ClientFails(u)
  PROVE  IInv'
<1>1. run' = [run EXCEPT ![u] = NoRun] /\ UNCHANGED <<diskVars, state, view>>
  BY DEF ClientFails
<1> QED
  BY <1>1, NoRunOk, RunChanges, StateKept

\* A set without frames has a kit without samples, which refuses whatever noise was computed.
LEMMA ScoreStep ==
  ASSUME IInv, NEW u \in Users, Score(u)
  PROVE  IInv'
<1> DEFINE s    == run[u].set
           kit  == IF Sidecar(s).truth THEN s ELSE NoSet
           fits == \A f \in run[u].got : f[2] < Length(kit)
           done == IF fits THEN run[u].got ELSE {}
           r    == [run[u] EXCEPT !.pc = "publish", !.kit = kit, !.scored = done]
<1>1. run \in [Users -> RunRecords] /\ RunOk(run[u]) /\ run[u] \in RunRecords
  BY DEF IInv, DashTyped
<1>2. /\ run[u].pc = "client" /\ UNCHANGED <<diskVars, state, view>>
      /\ run' = [run EXCEPT ![u].pc = "publish", ![u].kit = kit, ![u].scored = done]
  BY DEF Score
<1>3. run' = [run EXCEPT ![u] = r]
  BY <1>1, <1>2
<1>4. s \in Sets /\ sidecar[s] # "none"
  BY <1>1, <1>2 DEF RunOk
<1>5. Usable(s)
  BY <1>4 DEF IInv, DiskInv, OnDisk
<1>6. Archive(s).count \in Nat
  BY <1>4, <1>5, UsableFact
<1>7. kit \in {s, NoSet} /\ kit \in SomeSet
  BY <1>4 DEF SomeSet
<1>8. Length(kit) \in Nat /\ Length(kit) <= Archive(s).count
  BY <1>6, <1>7 DEF Length
<1> HIDE DEF kit
<1>9. done \in SUBSET Frames /\ \A f \in done : f \in run[u].got /\ f[2] < Length(kit)
  BY <1>1 DEF RunRecords
<1>10. \A f \in run[u].got : f[2] \in Nat
  BY <1>1 DEF RunRecords, Frames
<1> HIDE DEF done
<1>11. \A f \in done : f[1] = s /\ f[2] < Archive(s).count
  <2> SUFFICES ASSUME NEW f \in done PROVE f[1] = s /\ f[2] < Archive(s).count
    OBVIOUS
  <2>1. f \in run[u].got /\ f[2] < Length(kit) /\ f[2] \in Nat
    BY <1>9, <1>10
  <2>2. f[2] < Archive(s).count /\ Archive(s).count > 0
    BY <1>6, <1>8, <2>1
  <2>3. f \in {s} \X Nat
    BY <1>1, <1>2, <1>6, <2>1, <2>2 DEF RunOk
  <2> QED
    BY <2>2, <2>3
<1>12. /\ r \in RunRecords /\ r.pc = "publish" /\ r.set = s /\ r.random = run[u].random
       /\ r.got = run[u].got /\ r.kit = kit /\ r.scored = done
  BY <1>1, <1>7, <1>9 DEF RunRecords
<1> HIDE DEF r
<1>13. RunOk(r)
  BY <1>1, <1>2, <1>4, <1>7, <1>11, <1>12 DEF RunOk
<1> QED
  BY <1>2, <1>3, <1>12, <1>13, RunChanges, StateKept

\* Only a run of frames of its set is published whole: where there are none, there is
\* nothing to map.
LEMMA PublishStep ==
  ASSUME IInv, NEW u \in Users, Publish(u)
  PROVE  IInv'
<1> DEFINE s == run[u].set
<1>1. RunOk(run[u]) /\ run[u] \in RunRecords /\ state \in States
  BY DEF IInv, DashTyped
<1>2. /\ run[u].pc = "publish" /\ UNCHANGED <<diskVars, view>> /\ run' = [run EXCEPT ![u] = NoRun]
      /\ state' = IF Mappable(s)
                    THEN [records |-> run[u].got, kit |-> run[u].kit, frames |-> s, torn |-> FALSE]
                    ELSE [state EXCEPT !.records = run[u].got, !.kit = run[u].kit, !.torn = TRUE]
  BY DEF Publish
<1>3. s \in Sets /\ sidecar[s] # "none" /\ run[u].kit \in {s, NoSet}
  BY <1>1, <1>2 DEF RunOk
<1>4. Usable(s) /\ bin[s] \in 0 .. Archive(s).count
  BY <1>3 DEF IInv, DiskInv, OnDisk
<1>5. Archive(s).count \in Nat
  BY <1>3, <1>4, UsableFact
<1>6. CASE Mappable(s)
  <2>1. Archive(s).count > 0
    BY <1>4, <1>5, <1>6 DEF Mappable
  <2>2. run[u].got \subseteq {s} \X Nat
    BY <1>1, <1>2, <1>5, <2>1 DEF RunOk
  <2>3. /\ state'.records = run[u].got /\ state'.kit = run[u].kit /\ state'.frames = s
        /\ state' \in States
    BY <1>1, <1>2, <1>3, <1>6 DEF RunRecords, States, SomeSet
  <2>4. StateOk(state')
    BY <1>3, <2>2, <2>3 DEF StateOk
  <2> QED
    BY <1>2, <2>3, <2>4, NoRunOk, RunChanges
<1>7. CASE ~Mappable(s)
  <2>1. state' = [state EXCEPT !.records = run[u].got, !.kit = run[u].kit, !.torn = TRUE]
    BY <1>2, <1>7
  <2>2. state'.torn = TRUE /\ state' \in States
    BY <1>1, <2>1 DEF RunRecords, States
  <2>3. StateOk(state')
    BY <2>2 DEF StateOk
  <2> QED
    BY <1>2, <2>2, <2>3, NoRunOk, RunChanges
<1> QED
  BY <1>6, <1>7

\* A picture is opened with what was published, read in one go.
LEMMA OpenViewStep ==
  ASSUME IInv, NEW v \in Views, NEW i \in Pictured, OpenView(v, i)
  PROVE  IInv'
<1> DEFINE boxes == {f \in state.records : f[2] = i}
           w == [pc |-> "open", sample |-> i, frames |-> state.frames, kit |-> state.kit,
                 boxes |-> boxes, torn |-> state.torn]
<1>1. state \in States /\ StateOk(state)
  BY DEF IInv, DashTyped
<1>2. i \in Nat
  BY <1>1 DEF Pictured, States, Frames
<1>3. view' = [view EXCEPT ![v] = w] /\ UNCHANGED <<diskVars, run, state>>
  BY DEF OpenView
<1>4. w \in Pictures
  BY <1>1, <1>2 DEF Pictures, States
<1>5. ASSUME ~state.torn PROVE boxes \subseteq {<<state.frames, i>>} /\ state.kit \in {state.frames, NoSet}
  <2>1. state.records \subseteq {state.frames} \X Nat /\ state.kit \in {state.frames, NoSet}
    BY <1>1, <1>5 DEF StateOk
  <2> QED
    BY <2>1
<1>6. /\ w.sample = i /\ w.frames = state.frames /\ w.kit = state.kit /\ w.boxes = boxes
      /\ w.torn = state.torn
  OBVIOUS
<1> HIDE DEF boxes, w
<1>7. ViewOk(w)
  BY <1>5, <1>6 DEF ViewOk
<1> QED
  BY <1>3, <1>4, <1>7, ViewChanges

LEMMA DrawStep ==
  ASSUME IInv, NEW v \in Views, Draw(v) \/ Refuse(v)
  PROVE  IInv'
<1>1. CASE Refuse(v)
  <2>1. view' = [view EXCEPT ![v] = NoView] /\ UNCHANGED <<diskVars, run, state>>
    BY <1>1 DEF Refuse
  <2> QED
    BY <2>1, NothingShown, ViewChanges
<1>2. CASE Draw(v)
  <2> DEFINE w == [view[v] EXCEPT !.pc = "drawn", !.frames = view[v].frames]
  <2>1. view \in [Views -> Pictures] /\ ViewOk(view[v])
    BY DEF IInv, DashTyped
  <2>2. view' = [view EXCEPT ![v].pc = "drawn", ![v].frames = view[v].frames]
    BY <1>2 DEF Draw, FramesOf
  <2>3. view' = [view EXCEPT ![v] = w]
    BY <2>1, <2>2
  <2>4. /\ w \in Pictures /\ w.sample = view[v].sample /\ w.frames = view[v].frames
        /\ w.kit = view[v].kit /\ w.boxes = view[v].boxes /\ w.torn = view[v].torn
    BY <2>1 DEF Pictures
  <2>5. view[v].pc # "idle" /\ UNCHANGED <<diskVars, run, state>>
    BY <1>2 DEF Draw
  <2> HIDE DEF w
  <2>6. ViewOk(w)
    BY <2>1, <2>4, <2>5 DEF ViewOk
  <2> QED
    BY <2>3, <2>4, <2>5, <2>6, ViewChanges
<1> QED
  BY <1>1, <1>2

\* The end of the process leaves the disk as it is.
LEMMA BusErrorStep ==
  ASSUME IInv, NEW v \in Views, BusError(v)
  PROVE  IInv'
<1>1. /\ run' = [u \in Users |-> NoRun] /\ view' = [w \in Views |-> NoView] /\ state' = Empty
      /\ bin' = bin /\ sidecar' = sidecar /\ prep' = prep
  BY DEF BusError, diskVars
<1>2. DiskInv'
  BY <1>1 DEF IInv, DiskInv, DiskTyped, OnDisk, BeingWritten, GonePast
<1>3. DashTyped'
  BY <1>1, NoRunOk, NothingShown DEF DashTyped
<1>4. ASSUME NEW u \in Users PROVE RunOk(run[u])'
  BY <1>1, NoRunOk DEF RunOk, NoRun
<1>5. ASSUME NEW w \in Views PROVE ViewOk(view[w])'
  BY <1>1, NothingShown DEF ViewOk
<1>6. StateOk(state)'
  BY <1>1, NothingShown DEF StateOk
<1> QED
  BY <1>2, <1>3, <1>4, <1>5, <1>6 DEF IInv

LEMMA OtherStep ==
  ASSUME IInv, UNCHANGED <<diskVars, run, state, view>>
  PROVE  IInv'
<1>1. bin' = bin /\ sidecar' = sidecar /\ prep' = prep
  BY DEF diskVars
<1>2. DiskInv'
  BY <1>1 DEF IInv, DiskInv, DiskTyped, OnDisk, BeingWritten, GonePast
<1>3. ASSUME NEW u \in Users PROVE RunOk(run[u])'
  <2>1. RunOk(run[u])
    BY DEF IInv
  <2> QED
    BY <1>1, <2>1 DEF RunOk
<1>4. DashTyped' /\ StateOk(state)' /\ \A v \in Views : ViewOk(view[v])'
  BY DEF IInv, DashTyped, StateOk, ViewOk
<1> QED
  BY <1>2, <1>3, <1>4 DEF IInv

-----------------------------------------------------------------------------
(* The theorems *)

LEMMA Initially == Init => IInv
<1> SUFFICES ASSUME Init PROVE IInv
  OBVIOUS
<1>1. /\ bin = [s \in Sets |-> Absent] /\ sidecar = [s \in Sets |-> "none"]
      /\ prep = [pc |-> "off", todo |-> <<>>, scan |-> FALSE, rows |-> 0]
      /\ run = [u \in Users |-> NoRun] /\ view = [v \in Views |-> NoView] /\ state = Empty
  BY DEF Init, DiskInit, NoPrep
<1>2. DiskTyped
  BY <1>1 DEF DiskTyped, PrepStates, Absent
<1>3. OnDisk /\ BeingWritten
  BY <1>1 DEF OnDisk, BeingWritten
<1>4. GonePast
  <2>1. ToSet(<<>>) = {}
    BY DEF ToSet
  <2> QED
    BY <1>1, <2>1 DEF GonePast
<1>5. DashTyped
  BY <1>1, NoRunOk, NothingShown DEF DashTyped
<1>6. StateOk(state) /\ (\A u \in Users : RunOk(run[u])) /\ \A v \in Views : ViewOk(view[v])
  BY <1>1, NoRunOk, NothingShown
<1> QED
  BY <1>2, <1>3, <1>4, <1>5, <1>6 DEF IInv, DiskInv

\* Inductive invariant of the sample sets and the dashboard: a set on disk never has more
\* frames than its archive nor a sidecar before its frames, and noise is computed only for a
\* set without frames (prepare_samples.py:60-206, app.py:84-268).
THEOREM GalleryInvariant == Spec => []IInv
<1>1. IInv /\ [Next]_vars => IInv'
  <2> SUFFICES ASSUME IInv, [Next]_vars PROVE IInv'
    OBVIOUS
  <2>1. CASE Prepare /\ UNCHANGED dashVars
    BY <2>1, PreparerStep
  <2>2. ASSUME NEW u \in Users, UserNext(u) PROVE IInv'
    BY <2>2, AskStep, OpenPoolStep, SendFrameStep, ClientFailsStep, ScoreStep, PublishStep
       DEF UserNext
  <2>3. ASSUME NEW v \in Views, ViewNext(v) PROVE IInv'
    BY <2>3, OpenViewStep, DrawStep, BusErrorStep DEF ViewNext
  <2>4. CASE Restart
    BY <2>4, OtherStep DEF Restart
  <2>5. CASE Rest \/ UNCHANGED vars
    BY <2>5, OtherStep DEF Rest, vars, dashVars
  <2> QED
    BY <2>1, <2>2, <2>3, <2>4, <2>5 DEF Next
<1> QED
  BY <1>1, Initially, PTL DEF Spec

\* Whatever the data directory holds and wherever earlier preparations were killed, a scan
\* that comes to its end has made every set whole that can be (prepare_samples.py:172-206).
THEOREM ScanIsComplete == Spec => []ScanPreparesAll
<1>1. ASSUME IInv PROVE ScanPreparesAll
  <2>1. ToSet(<<>>) = {}
    BY DEF ToSet
  <2> QED
    BY <1>1, <2>1 DEF IInv, DiskInv, GonePast, ScanPreparesAll
<1> QED
  BY <1>1, GalleryInvariant, PTL

\* No figure is one of random frames or of another set's, for any number of users and of
\* preparations under them (shard_client.py:73-104, app.py:216-227).
THEOREM FiguresAreOfTheSet == Spec => []NeverScoresNoise
<1>1. ASSUME IInv PROVE NeverScoresNoise
  BY <1>1 DEF IInv, RunOk, NeverScoresNoise
<1> QED
  BY <1>1, GalleryInvariant, PTL

\* A picture of a run that was published whole has boxes and truth of its own pixels, though
\* runs are published and sets prepared while it is drawn (app.py:84-95, 229-268).
THEOREM BoxesMatchPixels == Spec => []PicturesMatch
<1>1. ASSUME IInv PROVE PicturesMatch
  <2> SUFFICES ASSUME NEW v \in Views, view[v].pc = "drawn", ~view[v].torn
               PROVE  /\ view[v].boxes \subseteq {<<view[v].frames, view[v].sample>>}
                      /\ view[v].kit \in {view[v].frames, NoSet}
    BY DEF PicturesMatch
  <2>1. ViewOk(view[v])
    BY <1>1 DEF IInv
  <2> QED
    BY <2>1 DEF ViewOk
<1> QED
  BY <1>1, GalleryInvariant, PTL
=============================================================================
