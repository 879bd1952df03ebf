--------------------------- MODULE ShardClientProofs ---------------------------
(***************************************************************************)
(* Proofs about the streaming client, for every number of frames, tiles    *)
(* and slots, and whatever number of errors, failed tasks and duplicated   *)
(* outputs; and proofs of what it promises when SOAM delivers each output  *)
(* once: first where tiles and frames are, then which errors stand behind  *)
(* what failed, and last that the report adds up.                          *)
(***************************************************************************)
EXTENDS ShardClientOnce, FiniteSetTheorems, TLAPS

\* A step of the client as the abstract window sees it.
WindowStep == [Window!Next]_Phase

USE ConstantsAssumption DEF ConstantsAssumption, Frames, Tiles, NoId

\* The initial values have their types.
LEMMA TypeInit == Init => TypeOK
<1> SUFFICES ASSUME Init PROVE TypeOK
  OBVIOUS
<1>1. ThreadsOK
  BY DEF Init, ThreadsOK, Labels, Threads, Fetchers
<1>2. ClientOK
  <2>1. sem = InFlight /\ InFlight \in 0 .. InFlight
    BY DEF Init
  <2>2. got \in [Frames -> Nat] /\ dumped \in [Frames -> Nat]
    BY DEF Init
  <2>3. known \subseteq Frames /\ errored \subseteq Frames /\ done \subseteq Frames /\ dispatched \subseteq Frames
    BY DEF Init
  <2>4. idle \in BOOLEAN /\ stalled \in BOOLEAN /\ doneEvt \in BOOLEAN /\ dumpOpen \in BOOLEAN /\ sessOpen \in BOOLEAN
    BY DEF Init
  <2> QED
    BY <2>1, <2>2, <2>3, <2>4 DEF ClientOK
<1>3. TotalsOK
  BY DEF Init, TotalsOK
<1>4. SoamOK
  BY DEF Init, SoamOK, Nothing
<1>5. BusOK
  BY DEF Init, BusOK
<1> QED
  BY <1>1, <1>2, <1>3, <1>4, <1>5 DEF TypeOK

\* A step that only moves one thread on keeps every type.
LEMMA MoveType ==
  ASSUME TypeOK, NEW t \in Threads, NEW from, NEW to \in Labels, Move(t, from, to)
  PROVE  TypeOK'
<1> USE DEF Move, At, Goto, dataVars
<1>1. ThreadsOK'
  BY DEF TypeOK, ThreadsOK, localVars
<1>2. ClientOK'
  BY DEF TypeOK, ClientOK, frameVars, endVars, outVars
<1>3. TotalsOK'
  BY DEF TypeOK, TotalsOK, totalVars
<1>4. SoamOK'
  BY DEF TypeOK, SoamOK, soamVars, segVars, infVars, stitchVars
<1>5. BusOK'
  BY DEF TypeOK, BusOK, busVars
<1> QED
  BY <1>1, <1>2, <1>3, <1>4, <1>5 DEF TypeOK

-----------------------------------------------------------------------------
(* Sessions as bags *)

\* Sending adds one item of its kind to a session and touches no other.
LEMMA PutFact ==
  ASSUME NEW S, NEW bag \in [S -> Nat], NEW x \in S
  PROVE  /\ Put(bag, x) \in [S -> Nat]
         /\ \A y \in S : Put(bag, x)[y] = IF y = x THEN bag[x] + 1 ELSE bag[y]
  BY DEF Put

\* Fetching an item that is there removes one of its kind and touches no other.
LEMMA TakeFact ==
  ASSUME NEW S, NEW bag \in [S -> Nat], NEW x \in S, bag[x] > 0
  PROVE  /\ Take(bag, x) \in [S -> Nat]
         /\ \A y \in S : Take(bag, x)[y] = IF y = x THEN bag[x] - 1 ELSE bag[y]
  BY DEF Take

-----------------------------------------------------------------------------
(* What keeps the conjuncts of the invariant *)

\* The frames that hold a slot are finitely many.
LEMMA HeldFinite == Held \subseteq Frames /\ IsFiniteSet(Held) /\ Cardinality(Held) \in Nat
<1>1. Held \subseteq Frames
  BY DEF Held
<1>2. IsFiniteSet(Frames)
  BY FS_Interval
<1> QED
  BY <1>1, <1>2, FS_Subset, FS_CardinalityType

\* The frames the window counts as held are those that hold a slot.
LEMMA HeldNowIsHeld == Window!HeldNow = Held
<1>1. \A f \in Frames : Phase[f] = "held" <=> f \in Held
  BY DEF Phase
<1> QED
  BY <1>1, HeldFinite DEF Window!HeldNow

\* The window's instance of FiniteSets counts as the client's does.
LEMMA SameCardinality == ASSUME NEW S PROVE Window!Cardinality(S) = Cardinality(S)
  BY DEF Cardinality, Window!Cardinality

\* A step that finishes no frame keeps the accounting of the finishing threads.
LEMMA FinishKeeps ==
  ASSUME FinishOnce, BusOwned, done' = done, known \subseteq known', dir' = dir,
         dir \subseteq Frames,
         \A t \in Fetchers, f \in Frames : /\ Finishing(t, f)' <=> Finishing(t, f)
                                           /\ Cleaning(t, f)' <=> Cleaning(t, f)
  PROVE  FinishOnce' /\ BusOwned'
  BY DEF FinishOnce, BusOwned, Owned

\* A step that neither takes a slot nor gives one back keeps their sum.
LEMMA SemKeeps ==
  ASSUME SemAccounting, sem' = sem, \A f \in Frames : HoldsSlot(f)' <=> HoldsSlot(f),
         \A f \in Frames : (f \in done' <=> f \in done) \/ HoldsSlot(f)
  PROVE  SemAccounting' /\ WindowStep
<1>1. Held' = Held
  BY DEF Held
<1>2. Phase' = Phase
  BY <1>1 DEF Phase, Held
<1> QED
  BY <1>1, <1>2 DEF SemAccounting, WindowStep

\* Both at once, for a step that does not touch the frames' places either.
LEMMA Keeps ==
  ASSUME FinishOnce, BusOwned, SemAccounting,
         known' = known, done' = done, sem' = sem, dir' = dir, dir \subseteq Frames,
         \A t \in Fetchers, f \in Frames : /\ Finishing(t, f)' <=> Finishing(t, f)
                                           /\ Cleaning(t, f)' <=> Cleaning(t, f),
         \A f \in Frames : Entering(f)' <=> Entering(f)
  PROVE  FinishOnce' /\ BusOwned' /\ SemAccounting' /\ WindowStep
<1>1. FinishOnce' /\ BusOwned'
  BY FinishKeeps
<1>2. \A f \in Frames : HoldsSlot(f)' <=> HoldsSlot(f)
  BY DEF HoldsSlot
<1> QED
  BY <1>1, <1>2, SemKeeps

\* A step downstream of the segment service concerns a frame it has already seen.
LEMMA FreshKeeps ==
  ASSUME Fresh, NEW g \in Frames, ~Unsplit(g), segTasks' = segTasks, next' = next,
         \A f \in Frames : f # g /\ Unsplit(f) => Unsplit(f)'
  PROVE  Fresh'
  BY DEF Fresh

\* The frame about to be registered holds no slot, is not finished and not sent.
LEMMA NewFrame ==
  ASSUME Control, Enrolled, Fresh, FinishOnce, next \in 0 .. Count,
         pc["seg_submit"] \in {"acquire", "register"}, next < Count
  PROVE  /\ next + 1 \in Frames
         /\ next + 1 \notin known /\ next + 1 \notin done
         /\ \A t \in Fetchers : ~Finishing(t, next + 1)
<1>1. next + 1 \in Frames
  OBVIOUS
<1>2. next + 1 \notin known
  BY <1>1 DEF Enrolled, Registered
<1>3. next + 1 \notin done
  BY <1>1 DEF Fresh, Unsplit
<1> QED
  BY <1>1, <1>2, <1>3 DEF FinishOnce

\* Whatever a fetch thread has in hand is a registered frame, or no frame.
LEMMA ArgKnown ==
  ASSUME ThreadsOK, Control, Enrolled, Fresh, NEW t \in Fetchers
  PROVE  arg[t] = NoId \/ arg[t] \in known
<1>1. arg[t] \in Frames \cup {NoId} /\ next \in 0 .. Count
  BY DEF ThreadsOK
<1>2. ASSUME arg[t] \in Frames PROVE arg[t] <= next
  BY <1>1, <1>2 DEF Fresh, Unsplit
<1>3. ASSUME arg[t] \in Frames PROVE arg[t] \in known
  BY <1>1, <1>2, <1>3 DEF Enrolled, Registered
<1> QED
  BY <1>1, <1>3

\* seg_submit takes a slot: the next frame holds it at once, and the window admits it.
LEMMA AcquireInv ==
  ASSUME IInv, Acquire
  PROVE  IInv' /\ WindowStep
<1>0. ThreadsOK /\ ClientOK /\ TotalsOK /\ SoamOK /\ BusOK /\ Control /\ Enrolled /\ Fresh
      /\ FinishOnce /\ BusOwned /\ SemAccounting
  BY DEF IInv, TypeOK
<1>1. ThreadsOK'
  BY <1>0 DEF ThreadsOK, Control, Acquire, CanAcquire, At, Goto, localVars, Threads, Fetchers, Labels
<1>2. ClientOK'
  BY <1>0 DEF ClientOK, Control, Acquire, CanAcquire, At, Goto, frameVars, endVars, outVars
<1>3. TotalsOK'
  BY <1>0 DEF TotalsOK, Acquire, CanAcquire, At, Goto, totalVars
<1>4. SoamOK'
  BY <1>0, TakeFact DEF SoamOK, Acquire, CanAcquire, At, Goto, soamVars, segVars, infVars, stitchVars
<1>5. BusOK'
  BY <1>0 DEF BusOK, Acquire, CanAcquire, At, Goto, busVars
<1>6. Control'
  BY <1>0 DEF Control, ThreadsOK, Fetchers, Threads, Acquire, CanAcquire, At, Goto, localVars
<1>7. Enrolled'
  BY <1>0 DEF Enrolled, Registered, Control, ThreadsOK, Threads, Fetchers, Acquire, CanAcquire, At, Goto, localVars, frameVars
<1>8. Fresh'
  BY <1>0 DEF Fresh, Unsplit, Acquire, CanAcquire, At, Goto, localVars, frameVars, soamVars, segVars, infVars, stitchVars
<1>9. FinishOnce' /\ BusOwned' /\ SemAccounting' /\ WindowStep
  <2>1. /\ pc["seg_submit"] = "acquire" /\ next < Count /\ sem' = sem - 1
        /\ next' = next /\ arg' = arg /\ known' = known /\ done' = done /\ dir' = dir
        /\ \A u \in Fetchers : pc'[u] = pc[u]
        /\ pc'["seg_submit"] = "register"
    BY <1>0 DEF Acquire, CanAcquire, At, Goto, localVars, frameVars, busVars, ThreadsOK, Threads, Fetchers
  <2>2. next \in 0 .. Count /\ sem \in Nat /\ dir \subseteq Frames
    BY <1>0 DEF ThreadsOK, ClientOK, BusOK
  <2>3. /\ next + 1 \in Frames /\ next + 1 \notin known /\ next + 1 \notin done
        /\ \A u \in Fetchers : ~Finishing(u, next + 1)
    BY <1>0, <2>1, <2>2, NewFrame
  <2>4. \A u \in Fetchers, g \in Frames : /\ Finishing(u, g)' <=> Finishing(u, g)
                                          /\ Cleaning(u, g)' <=> Cleaning(u, g)
    BY <2>1 DEF Finishing, Cleaning
  <2>5. FinishOnce' /\ BusOwned'
    BY <1>0, <2>1, <2>2, <2>4, FinishKeeps
  <2>6. next + 1 \notin Held /\ Held' = Held \cup {next + 1}
    <3>1. ~HoldsSlot(next + 1)
      BY <2>1, <2>3 DEF HoldsSlot, Entering
    <3>2. \A g \in Frames : HoldsSlot(g)' <=> HoldsSlot(g) \/ g = next + 1
      <4>1. \A g \in Frames : (Entering(g)' <=> g = next + 1) /\ ~Entering(g)
        <5>1. pc["seg_submit"] # "register" /\ pc'["seg_submit"] = "register" /\ next' = next
          BY <2>1
        <5> QED
          BY <5>1, Zenon DEF Entering
      <4>2. \A g \in Frames : g \in known' \ done' <=> g \in known \ done
        BY <2>1
      <4> QED
        BY <2>4, <4>1, <4>2 DEF HoldsSlot
    <3> QED
      BY <2>3, <3>1, <3>2 DEF Held
  <2>7. Cardinality(Held') = Cardinality(Held) + 1
    BY <2>6, HeldFinite, FS_AddElement
  <2>8. Window!Admit(next + 1)
    <3>1. Cardinality(Held) < InFlight
      BY <1>0, <2>2, HeldFinite DEF SemAccounting, Acquire, CanAcquire
    <3>2. Phase[next + 1] = "queued"
      BY <2>3, <2>6 DEF Phase
    <3>3. Phase' = [Phase EXCEPT ![next + 1] = "held"]
      BY <2>1, <2>3, <2>6 DEF Phase
    <3> QED
      BY <3>1, <3>2, <3>3, HeldNowIsHeld, SameCardinality DEF Window!Admit
  <2>9. WindowStep
    BY <2>3, <2>8 DEF WindowStep, Window!Next
  <2> QED
    BY <1>0, <2>1, <2>2, <2>5, <2>7, <2>9, HeldFinite DEF SemAccounting
<1> QED
  BY <1>1, <1>2, <1>3, <1>4, <1>5, <1>6, <1>7, <1>8, <1>9 DEF IInv, TypeOK

\* Registering the frame leaves the slot with it: Entering hands over to known.
LEMMA RegisterInv ==
  ASSUME IInv, Register
  PROVE  IInv' /\ WindowStep
<1>0. ThreadsOK /\ ClientOK /\ TotalsOK /\ SoamOK /\ BusOK /\ Control /\ Enrolled /\ Fresh
      /\ FinishOnce /\ BusOwned /\ SemAccounting
  BY DEF IInv, TypeOK
<1>1. ThreadsOK'
  BY <1>0 DEF ThreadsOK, Control, Register, At, Goto, localVars, Threads, Fetchers, Labels
<1>2. ClientOK'
  <2>1. next + 1 \in Frames
    BY <1>0 DEF ThreadsOK, Control, Register, At, Goto
  <2> QED
    BY <1>0, <2>1 DEF ClientOK, Register, At, Goto, endVars, outVars
<1>3. TotalsOK'
  BY <1>0 DEF TotalsOK, Register, At, Goto, totalVars
<1>4. SoamOK'
  BY <1>0, TakeFact DEF SoamOK, Register, At, Goto, soamVars, segVars, infVars, stitchVars
<1>5. BusOK'
  BY <1>0 DEF BusOK, Register, At, Goto, busVars
<1>6. Control'
  BY <1>0 DEF Control, ThreadsOK, Fetchers, Threads, Register, At, Goto, localVars
<1>7. Enrolled'
  BY <1>0 DEF Enrolled, Registered, Control, ThreadsOK, Threads, Fetchers, Register, At, Goto, localVars, frameVars
<1>8. Fresh'
  BY <1>0 DEF Fresh, Unsplit, Register, At, Goto, localVars, frameVars, soamVars, segVars, infVars, stitchVars
<1>9. FinishOnce' /\ BusOwned' /\ SemAccounting' /\ WindowStep
  <2>1. /\ pc["seg_submit"] = "register" /\ next < Count /\ sem' = sem
        /\ next' = next /\ arg' = arg /\ known' = known \cup {next + 1}
        /\ done' = done /\ dir' = dir
        /\ \A u \in Fetchers : pc'[u] = pc[u]
        /\ pc'["seg_submit"] = "send"
    BY <1>0 DEF Register, At, Goto, Control, localVars, frameVars, busVars, ThreadsOK, Threads, Fetchers
  <2>2. next \in 0 .. Count /\ dir \subseteq Frames
    BY <1>0 DEF ThreadsOK, BusOK
  <2>3. next + 1 \in Frames /\ next + 1 \notin done
    BY <1>0, <2>1, <2>2, NewFrame
  <2>4. \A u \in Fetchers, g \in Frames : /\ Finishing(u, g)' <=> Finishing(u, g)
                                          /\ Cleaning(u, g)' <=> Cleaning(u, g)
    BY <2>1 DEF Finishing, Cleaning
  <2>5. FinishOnce' /\ BusOwned'
    BY <1>0, <2>1, <2>2, <2>4, FinishKeeps
  <2>6. \A g \in Frames : HoldsSlot(g)' <=> HoldsSlot(g)
    BY <2>1, <2>3, <2>4 DEF HoldsSlot, Entering
  <2> QED
    BY <1>0, <2>1, <2>5, <2>6, SemKeeps
<1> QED
  BY <1>1, <1>2, <1>3, <1>4, <1>5, <1>6, <1>7, <1>8, <1>9 DEF IInv, TypeOK

\* Sending creates the frame's only segment task; no later stage has seen it yet.
LEMMA SendSegmentInv ==
  ASSUME IInv, SendSegment
  PROVE  IInv' /\ WindowStep
<1>0. ThreadsOK /\ ClientOK /\ TotalsOK /\ SoamOK /\ BusOK /\ Control /\ Enrolled /\ Fresh
      /\ FinishOnce /\ BusOwned /\ SemAccounting
  BY DEF IInv, TypeOK
<1>1. ThreadsOK'
  BY <1>0 DEF ThreadsOK, Control, SendSegment, At, Goto, localVars, Threads, Fetchers, Labels
<1>2. ClientOK'
  BY <1>0 DEF ClientOK, Control, SendSegment, At, Goto, frameVars, endVars, outVars
<1>3. TotalsOK'
  BY <1>0 DEF TotalsOK, SendSegment, At, Goto, totalVars
<1>4. SoamOK'
  <2>1. next + 1 \in Frames
    BY <1>0 DEF ThreadsOK, Control, SendSegment, At, Goto
  <2>2. Put(segTasks, next + 1) \in [Frames -> Nat]
    BY <1>0, <2>1, PutFact DEF SoamOK
  <2> QED
    BY <1>0, <2>2 DEF SoamOK, SendSegment, At, Goto, infVars, stitchVars
<1>5. BusOK'
  BY <1>0 DEF BusOK, SendSegment, At, Goto, busVars
<1>6. Control'
  BY <1>0 DEF Control, ThreadsOK, Fetchers, Threads, SendSegment, At, Goto, localVars
<1>7. Enrolled'
  BY <1>0 DEF Enrolled, Registered, Control, ThreadsOK, Threads, Fetchers, SendSegment, At, Goto, localVars, frameVars
<1>8. Fresh'
  <2>1. next \in 0 .. Count /\ next + 1 \in Frames
    BY <1>0 DEF ThreadsOK, Control, SendSegment, At, Goto
  <2>2. \A g \in Frames : Unsplit(g)' <=> Unsplit(g)
    BY DEF SendSegment, At, Goto, Unsplit, localVars, frameVars, infVars, stitchVars
  <2>3. CASE UNCHANGED <<next, segTasks>>
    BY <1>0, <2>2, <2>3 DEF Fresh
  <2>4. CASE next' = next + 1 /\ segTasks' = Put(segTasks, next + 1)
    <3>1. \A g \in Frames : segTasks'[g] = IF g = next + 1 THEN segTasks[g] + 1 ELSE segTasks[g]
      BY <1>0, <2>1, <2>4 DEF SoamOK, Put
    <3>2. \A g \in Frames : segTasks[g] \in Nat /\ (segTasks[g] > 0 => g <= next)
      BY <1>0 DEF SoamOK, Fresh
    <3>3. segTasks[next + 1] = 0 /\ Unsplit(next + 1)
      BY <1>0, <2>1, <3>2 DEF Fresh
    <3> QED
      BY <1>0, <2>1, <2>2, <2>4, <3>1, <3>2, <3>3 DEF Fresh
  <2> QED
    BY <2>3, <2>4 DEF SendSegment, At, Goto
<1>9. FinishOnce' /\ BusOwned' /\ SemAccounting' /\ WindowStep
  <2>1. \A u \in Fetchers, g \in Frames : /\ Finishing(u, g)' <=> Finishing(u, g)
                                          /\ Cleaning(u, g)' <=> Cleaning(u, g)
    BY <1>0 DEF Finishing, Cleaning, ThreadsOK, Threads, Fetchers, SendSegment, At, Goto, localVars
  <2>2. \A g \in Frames : Entering(g)' <=> Entering(g)
    BY <1>0 DEF Entering, ThreadsOK, Threads, Fetchers, SendSegment, At, Goto, localVars
  <2> QED
    BY <1>0, <2>1, <2>2, Keeps DEF BusOK, SendSegment, At, Goto, busVars, frameVars
<1> QED
  BY <1>1, <1>2, <1>3, <1>4, <1>5, <1>6, <1>7, <1>8, <1>9 DEF IInv, TypeOK

\* _finish marks a frame once: a second caller finds it in done and keeps out, and
\* None marks nothing, so the thread that has it cleans no frame's directory.
LEMMA MarkInv ==
  ASSUME IInv, NEW t \in Fetchers, Mark(t)
  PROVE  IInv' /\ WindowStep
<1>0. ThreadsOK /\ ClientOK /\ TotalsOK /\ SoamOK /\ BusOK /\ Control /\ Enrolled /\ Fresh
      /\ FinishOnce /\ BusOwned /\ SemAccounting
  BY DEF IInv, TypeOK
<1>1. ThreadsOK'
  BY <1>0 DEF ThreadsOK, Control, Mark, Resume, AlreadyDone, At, Goto, localVars, Threads, Fetchers, Labels
<1>2. ClientOK'
  BY <1>0 DEF ClientOK, Control, Mark, Resume, AlreadyDone, At, Goto, frameVars, endVars, outVars
<1>3. TotalsOK'
  BY <1>0 DEF TotalsOK, Mark, Resume, AlreadyDone, At, Goto, totalVars
<1>4. SoamOK'
  BY <1>0, TakeFact DEF SoamOK, Mark, Resume, AlreadyDone, At, Goto, soamVars, segVars, infVars, stitchVars
<1>5. BusOK'
  BY <1>0 DEF BusOK, Mark, Resume, AlreadyDone, At, Goto, busVars
<1>6. Control'
  BY <1>0 DEF Control, ThreadsOK, Fetchers, Threads, Mark, Resume, AlreadyDone, At, Goto, localVars
<1>7. Enrolled'
  BY <1>0 DEF Enrolled, Registered, Control, ThreadsOK, Threads, Fetchers, Mark, Resume, AlreadyDone, At, Goto, localVars, frameVars
<1>8. Fresh'
  <2>1. CASE done' = done
    <3>1. \A g \in Frames : Unsplit(g)' <=> Unsplit(g)
      BY <2>1 DEF Mark, Resume, AlreadyDone, At, Goto, Unsplit, localVars, soamVars, segVars, infVars, stitchVars
    <3> QED
      BY <1>0, <3>1 DEF Fresh, Mark, Resume, AlreadyDone, At, Goto, localVars, soamVars, segVars
  <2>2. CASE done' # done
    <3>1. arg[t] \in Frames /\ done' \subseteq done \cup {arg[t]}
      BY <1>0, <2>2 DEF Mark, Resume, AlreadyDone, At, Goto, ClientOK
    <3>2. \A g \in Frames : g # arg[t] /\ Unsplit(g) => Unsplit(g)'
      BY <3>1 DEF Mark, Resume, AlreadyDone, At, Goto, Unsplit, localVars, soamVars, segVars, infVars, stitchVars
    <3>3. ~Unsplit(arg[t])
      BY DEF Unsplit
    <3> QED
      BY <1>0, <3>1, <3>2, <3>3, FreshKeeps DEF Mark, Resume, AlreadyDone, At, Goto, localVars, soamVars, segVars
  <2> QED
    BY <2>1, <2>2
<1>9. FinishOnce' /\ BusOwned' /\ SemAccounting' /\ WindowStep
  <2>0. /\ pc[t] = "mark" /\ sem' = sem /\ next' = next /\ arg' = arg
        /\ known' = known /\ dir' = dir
        /\ \A u \in Threads : u # t => pc'[u] = pc[u]
        /\ \A u \in Fetchers : u # t => pc'[u] = pc[u]
        /\ pc'["seg_submit"] = pc["seg_submit"]
    BY <1>0 DEF Mark, Resume, AlreadyDone, At, Goto, localVars, busVars, ThreadsOK, Threads, Fetchers
  <2>1. dir \subseteq Frames /\ arg[t] \in Frames \cup {NoId}
    BY <1>0 DEF ThreadsOK, BusOK
  <2>2. CASE arg[t] \in done \/ arg[t] = NoId
    <3>0. NoId \notin done /\ NoId \notin known
      BY <1>0 DEF ClientOK
    <3>1. done' = done /\ (pc'[t] \in {"fetch", "check"} \/ arg[t] = NoId)
      <4>1. CASE arg[t] \in done
        BY <1>0, <4>1 DEF Mark, Resume, AlreadyDone, At, Goto, frameVars, ThreadsOK, Threads, Fetchers
      <4>2. CASE arg[t] = NoId
        BY <3>0, <4>2 DEF Mark, Resume, AlreadyDone, At, Goto
      <4> QED
        BY <2>2, <4>1, <4>2
    <3>2. \A u \in Fetchers, g \in Frames : /\ Finishing(u, g)' <=> Finishing(u, g)
                                            /\ Cleaning(u, g)' <=> Cleaning(u, g)
      BY <2>0, <3>1 DEF Finishing, Cleaning
    <3>3. \A g \in Frames : Entering(g)' <=> Entering(g)
      BY <2>0 DEF Entering
    <3> QED
      BY <1>0, <2>0, <2>1, <3>1, <3>2, <3>3, Keeps
  <2>3. CASE arg[t] \notin done /\ arg[t] # NoId
    <3> DEFINE f == arg[t]
    <3>1. f \in Frames /\ f \in known /\ f \notin done
      BY <1>0, <2>1, <2>3, ArgKnown
    <3>2. done' = done \cup {f} /\ pc'[t] = "clean"
      BY <1>0, <2>3, <3>1 DEF Mark, Resume, AlreadyDone, At, Goto, ThreadsOK, Threads, Fetchers
    <3>3. \A u \in Fetchers : ~Finishing(u, f)
      BY <1>0, <3>1 DEF FinishOnce
    <3>4. Finishing(t, f)' /\ Cleaning(t, f)'
      BY <2>0, <3>2 DEF Finishing, Cleaning
    <3>5. \A u \in Fetchers, g \in Frames : u # t => /\ Finishing(u, g)' <=> Finishing(u, g)
                                                     /\ Cleaning(u, g)' <=> Cleaning(u, g)
      BY <2>0 DEF Finishing, Cleaning
    <3>6. \A g \in Frames : /\ ~Finishing(t, g) /\ ~Cleaning(t, g)
                            /\ Finishing(t, g)' => g = f
      BY <2>0 DEF Finishing, Cleaning
    <3>7. FinishOnce'
      BY <1>0, <3>1, <3>2, <3>3, <3>5, <3>6 DEF FinishOnce
    <3>8. BusOwned'
      BY <1>0, <2>0, <2>1, <3>2, <3>4, <3>5, <3>6 DEF BusOwned, Owned
    <3>9. \A g \in Frames : HoldsSlot(g)' <=> HoldsSlot(g)
      BY <2>0, <3>1, <3>2, <3>3, <3>4, <3>5, <3>6 DEF HoldsSlot, Entering
    <3>10. \A g \in Frames : (g \in done' <=> g \in done) \/ HoldsSlot(g)
      BY <3>1, <3>2 DEF HoldsSlot
    <3> QED
      BY <1>0, <2>0, <3>7, <3>8, <3>9, <3>10, SemKeeps
  <2> QED
    BY <2>2, <2>3
<1> QED
  BY <1>1, <1>2, <1>3, <1>4, <1>5, <1>6, <1>7, <1>8, <1>9 DEF IInv, TypeOK

\* Removing the directory keeps the slot with the frame until it is released.
LEMMA CleanInv ==
  ASSUME IInv, NEW t \in Fetchers, Clean(t)
  PROVE  IInv' /\ WindowStep
<1>0. ThreadsOK /\ ClientOK /\ TotalsOK /\ SoamOK /\ BusOK /\ Control /\ Enrolled /\ Fresh
      /\ FinishOnce /\ BusOwned /\ SemAccounting
  BY DEF IInv, TypeOK
<1>1. ThreadsOK'
  BY <1>0 DEF ThreadsOK, Control, Clean, RemoveBus, At, Goto, localVars, Threads, Fetchers, Labels
<1>2. ClientOK'
  BY <1>0 DEF ClientOK, Control, Clean, RemoveBus, At, Goto, frameVars, endVars, outVars
<1>3. TotalsOK'
  BY <1>0 DEF TotalsOK, Clean, RemoveBus, At, Goto, totalVars
<1>4. SoamOK'
  BY <1>0, TakeFact DEF SoamOK, Clean, RemoveBus, At, Goto, soamVars, segVars, infVars, stitchVars
<1>5. BusOK'
  BY <1>0 DEF BusOK, Clean, RemoveBus, At, Goto, busVars
<1>6. Control'
  BY <1>0 DEF Control, ThreadsOK, Fetchers, Threads, Clean, RemoveBus, At, Goto, localVars
<1>7. Enrolled'
  BY <1>0 DEF Enrolled, Registered, Control, ThreadsOK, Threads, Fetchers, Clean, RemoveBus, At, Goto, localVars, frameVars
<1>8. Fresh'
  BY <1>0 DEF Fresh, Unsplit, Clean, RemoveBus, At, Goto, localVars, frameVars, soamVars, segVars, infVars, stitchVars
<1>9. FinishOnce' /\ BusOwned' /\ SemAccounting' /\ WindowStep
  <2>0. /\ pc[t] = "clean" /\ sem' = sem /\ next' = next /\ arg' = arg
        /\ known' = known /\ done' = done
        /\ \A u \in Fetchers : u # t => pc'[u] = pc[u]
        /\ pc'["seg_submit"] = pc["seg_submit"]
    BY <1>0 DEF Clean, RemoveBus, At, Goto, localVars, frameVars, ThreadsOK, Threads, Fetchers
  <2>1. dir \subseteq Frames /\ arg[t] \in Frames \cup {NoId}
    BY <1>0 DEF ThreadsOK, BusOK
  <2>2. CASE arg[t] = NoId
    <3>1. dir' = dir
      BY <2>2 DEF Clean, RemoveBus, At, Goto, busVars
    <3>2. \A u \in Fetchers, g \in Frames : /\ Finishing(u, g)' <=> Finishing(u, g)
                                            /\ Cleaning(u, g)' <=> Cleaning(u, g)
      BY <2>0, <2>2 DEF Finishing, Cleaning
    <3>3. \A g \in Frames : Entering(g)' <=> Entering(g)
      BY <2>0 DEF Entering
    <3> QED
      BY <1>0, <2>0, <2>1, <3>1, <3>2, <3>3, Keeps
  <2>3. CASE arg[t] # NoId
    <3>1. dir' = dir \ {arg[t]} /\ pc'[t] = "release"
      BY <1>0, <2>3 DEF Clean, RemoveBus, At, Goto, ThreadsOK, Threads, Fetchers
    <3>2. \A u \in Fetchers, g \in Frames : /\ Finishing(u, g)' <=> Finishing(u, g)
                                            /\ Cleaning(u, g) /\ g # arg[t] => Cleaning(u, g)'
      BY <2>0, <3>1 DEF Finishing, Cleaning
    <3>3. FinishOnce'
      BY <1>0, <2>0, <3>2 DEF FinishOnce
    <3>4. BusOwned'
      BY <1>0, <2>0, <2>1, <3>1, <3>2 DEF BusOwned, Owned
    <3>5. \A g \in Frames : HoldsSlot(g)' <=> HoldsSlot(g)
      BY <2>0, <3>2 DEF HoldsSlot, Entering
    <3> QED
      BY <1>0, <2>0, <3>3, <3>4, <3>5, SemKeeps
  <2> QED
    BY <2>2, <2>3
<1> QED
  BY <1>1, <1>2, <1>3, <1>4, <1>5, <1>6, <1>7, <1>8, <1>9 DEF IInv, TypeOK

\* release() gives back a slot some frame holds, so it never raises, and the window
\* frees that frame.
LEMMA ReleaseInv ==
  ASSUME IInv, NEW t \in Fetchers, Release(t)
  PROVE  IInv' /\ WindowStep
<1>0. ThreadsOK /\ ClientOK /\ TotalsOK /\ SoamOK /\ BusOK /\ Control /\ Enrolled /\ Fresh
      /\ FinishOnce /\ BusOwned /\ SemAccounting
  BY DEF IInv, TypeOK
<1>a. /\ pc[t] = "release" /\ next' = next /\ arg' = arg
      /\ known' = known /\ done' = done /\ dir' = dir
      /\ \A u \in Fetchers : u # t => pc'[u] = pc[u]
      /\ pc'["seg_submit"] = pc["seg_submit"]
  BY <1>0 DEF Release, Resume, Returned, At, Goto, localVars, frameVars, busVars, ThreadsOK, Threads, Fetchers
<1>b. arg[t] \in Frames /\ Finishing(t, arg[t]) /\ arg[t] \in done
  BY <1>0, <1>a DEF ThreadsOK, Control, Finishing, FinishOnce
<1>c. Held # {} /\ arg[t] \in Held
  BY <1>b DEF Held, HoldsSlot
<1>d. Cardinality(Held) > 0
  BY <1>c, HeldFinite, FS_EmptySet
<1>e. sem \in 0 .. InFlight /\ sem < InFlight
  BY <1>0, <1>d, HeldFinite DEF SemAccounting, ClientOK
<1>f. sem' = sem + 1 /\ pc'[t] \in {"fetch", "check"}
  BY <1>0, <1>e DEF Release, Resume, Returned, At, Goto, ThreadsOK, Threads, Fetchers
<1>1. ThreadsOK'
  BY <1>0 DEF ThreadsOK, Control, Release, Resume, Returned, At, Goto, localVars, Threads, Fetchers, Labels
<1>2. ClientOK'
  BY <1>0, <1>e, <1>f DEF ClientOK, Release, Resume, Returned, At, Goto, frameVars, endVars, outVars
<1>3. TotalsOK'
  BY <1>0 DEF TotalsOK, Release, Resume, Returned, At, Goto, totalVars
<1>4. SoamOK'
  BY <1>0, TakeFact DEF SoamOK, Release, Resume, Returned, At, Goto, soamVars, segVars, infVars, stitchVars
<1>5. BusOK'
  BY <1>0 DEF BusOK, Release, Resume, Returned, At, Goto, busVars
<1>6. Control'
  BY <1>0 DEF Control, ThreadsOK, Fetchers, Threads, Release, Resume, Returned, At, Goto, localVars
<1>7. Enrolled'
  BY <1>0 DEF Enrolled, Registered, Control, ThreadsOK, Threads, Fetchers, Release, Resume, Returned, At, Goto, localVars, frameVars
<1>8. Fresh'
  BY <1>0 DEF Fresh, Unsplit, Release, Resume, Returned, At, Goto, localVars, frameVars, soamVars, segVars, infVars, stitchVars
<1>9. FinishOnce' /\ BusOwned' /\ SemAccounting' /\ WindowStep
  <2>1. dir \subseteq Frames
    BY <1>0 DEF BusOK
  <2>2. \A u \in Fetchers, g \in Frames : /\ Finishing(u, g)' <=> u # t /\ Finishing(u, g)
                                          /\ Cleaning(u, g)' <=> Cleaning(u, g)
    BY <1>a, <1>f DEF Finishing, Cleaning
  <2>3. FinishOnce' /\ BusOwned'
    BY <1>0, <1>a, <2>1, <2>2 DEF FinishOnce, BusOwned, Owned
  <2>4. ~Entering(arg[t])
    BY <1>0, <1>b DEF Entering, Fresh, Unsplit, ThreadsOK
  <2>5. \A u \in Fetchers : Finishing(u, arg[t]) => u = t
    BY <1>0, <1>b DEF FinishOnce
  <2>6. \A g \in Frames : HoldsSlot(g)' <=> HoldsSlot(g) /\ g # arg[t]
    <3> SUFFICES ASSUME NEW g \in Frames PROVE HoldsSlot(g)' <=> HoldsSlot(g) /\ g # arg[t]
      OBVIOUS
    <3>1. Entering(g)' <=> Entering(g)
      BY <1>a DEF Entering
    <3>2. Finishing(t, g) <=> g = arg[t]
      BY <1>a DEF Finishing
    <3> QED
      BY <1>a, <1>b, <2>2, <2>4, <2>5, <3>1, <3>2 DEF HoldsSlot
  <2>7. Held' = Held \ {arg[t]}
    BY <2>6 DEF Held
  <2>8. Cardinality(Held') = Cardinality(Held) - 1
    BY <1>c, <2>7, HeldFinite, FS_RemoveElement
  <2>9. Window!Free(arg[t])
    <3>1. Phase[arg[t]] = "held"
      BY <1>b, <1>c DEF Phase
    <3>2. Phase' = [Phase EXCEPT ![arg[t]] = "freed"]
      BY <1>a, <1>b, <2>7 DEF Phase
    <3> QED
      BY <3>1, <3>2 DEF Window!Free
  <2>10. WindowStep
    BY <1>b, <2>9 DEF WindowStep, Window!Next
  <2> QED
    BY <1>0, <1>e, <1>f, <2>3, <2>8, <2>10, HeldFinite DEF SemAccounting
<1> QED
  BY <1>1, <1>2, <1>3, <1>4, <1>5, <1>6, <1>7, <1>8, <1>9 DEF IInv, TypeOK

\* A segment reply puts the frame it names, or None, in seg_fetch's hand.
LEMMA SegTakeInv ==
  ASSUME IInv, NEW f \in Frames, NEW kind \in Kinds, SegTake(f, kind)
  PROVE  IInv' /\ WindowStep
<1>0. ThreadsOK /\ ClientOK /\ TotalsOK /\ SoamOK /\ BusOK /\ Control /\ Enrolled /\ Fresh
      /\ FinishOnce /\ BusOwned /\ SemAccounting
  BY DEF IInv, TypeOK
<1>1. ThreadsOK'
  BY <1>0 DEF ThreadsOK, Control, SegTake, ReplyId, At, Goto, localVars, Threads, Fetchers, Labels
<1>2. ClientOK'
  BY <1>0 DEF ClientOK, Control, SegTake, ReplyId, At, Goto, frameVars, endVars, outVars
<1>3. TotalsOK'
  BY <1>0 DEF TotalsOK, SegTake, ReplyId, At, Goto, totalVars
<1>4. SoamOK'
  BY <1>0, TakeFact DEF SoamOK, SegTake, ReplyId, At, Goto, soamVars, segVars, infVars, stitchVars
<1>5. BusOK'
  BY <1>0 DEF BusOK, SegTake, ReplyId, At, Goto, busVars
<1>6. Control'
  BY <1>0 DEF Control, ThreadsOK, Fetchers, Threads, SegTake, ReplyId, At, Goto, localVars
<1>7. Enrolled'
  BY <1>0 DEF Enrolled, Registered, Control, ThreadsOK, Threads, Fetchers, SegTake, ReplyId, At, Goto, localVars, frameVars
<1>8. Fresh'
  <2>1. ~Unsplit(f)
    BY DEF Unsplit, SegTake, ReplyId, At, Goto
  <2>2. \A g \in Frames, j \in Kinds : g # f => segOut'[<<g, j>>] = segOut[<<g, j>>]
    BY <1>0 DEF SoamOK, Take, SegTake, ReplyId, At, Goto
  <2>3. \A u \in Fetchers : arg'[u] = arg[u] \/ arg'[u] \in {NoId, f}
    BY <1>0 DEF SegTake, ReplyId, At, Goto, ThreadsOK, Fetchers
  <2>4. \A g \in Frames : g # f /\ Unsplit(g) => Unsplit(g)'
    BY <2>2, <2>3 DEF Unsplit, SegTake, ReplyId, At, Goto, frameVars, infVars, stitchVars
  <2> QED
    BY <1>0, <2>1, <2>4, FreshKeeps DEF SegTake, ReplyId, At, Goto
<1>9. FinishOnce' /\ BusOwned' /\ SemAccounting' /\ WindowStep
  <2>1. \A u \in Fetchers, g \in Frames : /\ Finishing(u, g)' <=> Finishing(u, g)
                                          /\ Cleaning(u, g)' <=> Cleaning(u, g)
    BY <1>0 DEF Finishing, Cleaning, ThreadsOK, Threads, Fetchers, SegTake, ReplyId, At, Goto, localVars
  <2>2. \A g \in Frames : Entering(g)' <=> Entering(g)
    BY <1>0 DEF Entering, ThreadsOK, Threads, Fetchers, SegTake, ReplyId, At, Goto, localVars
  <2> QED
    BY <1>0, <2>1, <2>2, Keeps DEF BusOK, SegTake, ReplyId, At, Goto, busVars, frameVars
<1> QED
  BY <1>1, <1>2, <1>3, <1>4, <1>5, <1>6, <1>7, <1>8, <1>9 DEF IInv, TypeOK

\* A tile task is of the frame seg_fetch has in hand.
LEMMA SegSubmitTileInv ==
  ASSUME IInv, SegSubmitTile
  PROVE  IInv' /\ WindowStep
<1>0. ThreadsOK /\ ClientOK /\ TotalsOK /\ SoamOK /\ BusOK /\ Control /\ Enrolled /\ Fresh
      /\ FinishOnce /\ BusOwned /\ SemAccounting
  BY DEF IInv, TypeOK
<1>a. arg["seg_fetch"] \in Frames /\ <<arg["seg_fetch"], tile>> \in Frames \X Tiles
  BY <1>0 DEF SegSubmitTile, At, Goto, ThreadsOK, Control
<1>1. ThreadsOK'
  BY <1>0 DEF ThreadsOK, Control, SegSubmitTile, At, Goto, localVars, Threads, Fetchers, Labels
<1>2. ClientOK'
  BY <1>0 DEF ClientOK, Control, SegSubmitTile, At, Goto, frameVars, endVars, outVars
<1>3. TotalsOK'
  BY <1>0 DEF TotalsOK, SegSubmitTile, At, Goto, totalVars
<1>4. SoamOK'
  <2>1. Put(infTasks, <<arg["seg_fetch"], tile>>) \in [Frames \X Tiles -> Nat]
    BY <1>0, <1>a, PutFact DEF SoamOK
  <2> QED
    BY <1>0, <2>1 DEF SoamOK, SegSubmitTile, At, Goto, segVars, stitchVars
<1>5. BusOK'
  BY <1>0 DEF BusOK, SegSubmitTile, At, Goto, busVars
<1>6. Control'
  BY <1>0 DEF Control, ThreadsOK, Fetchers, Threads, SegSubmitTile, At, Goto, localVars
<1>7. Enrolled'
  BY <1>0 DEF Enrolled, Registered, Control, ThreadsOK, Threads, Fetchers, SegSubmitTile, At, Goto, localVars, frameVars
<1>8. Fresh'
  <2>1. ~Unsplit(arg["seg_fetch"])
    BY DEF Unsplit, Fetchers
  <2>2. \A g \in Frames, k \in Tiles :
           g # arg["seg_fetch"] => infTasks'[<<g, k>>] = infTasks[<<g, k>>]
    BY <1>0, <1>a DEF SoamOK, Put, SegSubmitTile, At, Goto
  <2>3. \A g \in Frames : g # arg["seg_fetch"] /\ Unsplit(g) => Unsplit(g)'
    BY <2>2 DEF Unsplit, SegSubmitTile, At, Goto, frameVars, segVars, stitchVars
  <2> QED
    BY <1>0, <1>a, <2>1, <2>3, FreshKeeps DEF SegSubmitTile, At, Goto, segVars
<1>9. FinishOnce' /\ BusOwned' /\ SemAccounting' /\ WindowStep
  <2>1. \A u \in Fetchers, g \in Frames : /\ Finishing(u, g)' <=> Finishing(u, g)
                                          /\ Cleaning(u, g)' <=> Cleaning(u, g)
    BY <1>0 DEF Finishing, Cleaning, ThreadsOK, Threads, Fetchers, SegSubmitTile, At, Goto, localVars
  <2>2. \A g \in Frames : Entering(g)' <=> Entering(g)
    BY <1>0 DEF Entering, ThreadsOK, Threads, Fetchers, SegSubmitTile, At, Goto, localVars
  <2> QED
    BY <1>0, <2>1, <2>2, Keeps DEF BusOK, SegSubmitTile, At, Goto, busVars, frameVars
<1> QED
  BY <1>1, <1>2, <1>3, <1>4, <1>5, <1>6, <1>7, <1>8, <1>9 DEF IInv, TypeOK

\* A tile reply is counted for a frame that has been split.
LEMMA InfTakeInv ==
  ASSUME IInv, NEW f \in Frames, NEW k \in Tiles, NEW kind \in Kinds, InfTake(f, k, kind)
  PROVE  IInv' /\ WindowStep
<1>0. ThreadsOK /\ ClientOK /\ TotalsOK /\ SoamOK /\ BusOK /\ Control /\ Enrolled /\ Fresh
      /\ FinishOnce /\ BusOwned /\ SemAccounting
  BY DEF IInv, TypeOK
<1>a. \/ UNCHANGED <<got, errored, dispatched, arg, bad, pc>>
      \/ /\ got' = [got EXCEPT ![f] = got[f] + 1]
         /\ errored' \in {errored, errored \cup {f}}
         /\ \/ UNCHANGED <<dispatched, arg, bad, pc>>
            \/ /\ dispatched' = dispatched \cup {f}
               /\ arg' = [arg EXCEPT !["inf_fetch"] = f]
               /\ bad' = [bad EXCEPT !["inf_fetch"] = TRUE]
               /\ \/ pc' = [pc EXCEPT !["inf_fetch"] = "mark"]
                  \/ pc' = [pc EXCEPT !["inf_fetch"] = "submit"]
  BY DEF InfTake, Goto
<1>1. ThreadsOK'
  <2>1. pc' \in [Threads -> Labels] /\ arg' \in [Fetchers -> Frames \cup {NoId}]
    BY <1>0, <1>a DEF ThreadsOK, Labels
  <2>2. bad' \in [Fetchers -> BOOLEAN]
    BY <1>0, <1>a, Zenon DEF ThreadsOK
  <2>3. infSeen' \in Nat /\ UNCHANGED <<next, tile, segSeen>>
    BY <1>0 DEF ThreadsOK, InfTake
  <2> QED
    BY <1>0, <2>1, <2>2, <2>3 DEF ThreadsOK
<1>2. ClientOK'
  <2>1. errored' \subseteq Frames /\ dispatched' \subseteq Frames
    BY <1>0, <1>a DEF ClientOK
  <2>2. got' \in [Frames -> Nat]
    <3>1. got \in [Frames -> Nat] /\ (got' = got \/ got' = [got EXCEPT ![f] = got[f] + 1])
      BY <1>0, <1>a DEF ClientOK
    <3>2. got[f] + 1 \in Nat
      BY <3>1
    <3> QED
      BY <3>1, <3>2
  <2> QED
    BY <1>0, <2>1, <2>2 DEF ClientOK, InfTake, endVars, outVars
<1>3. TotalsOK'
  BY <1>0 DEF TotalsOK, InfTake, ReplyId, At, Goto, totalVars
<1>4. SoamOK'
  BY <1>0, TakeFact DEF SoamOK, InfTake, ReplyId, At, Goto, soamVars, segVars, infVars, stitchVars
<1>5. BusOK'
  BY <1>0 DEF BusOK, InfTake, ReplyId, At, Goto, busVars
<1>6. Control'
  BY <1>0 DEF Control, ThreadsOK, Fetchers, Threads, InfTake, ReplyId, At, Goto, localVars
<1>7. Enrolled'
  BY <1>0 DEF Enrolled, Registered, Control, ThreadsOK, Threads, Fetchers, InfTake, ReplyId, At, Goto, localVars, frameVars
<1>8. Fresh'
  <2>0. infOut[<<f, k, kind>>] > 0
    BY DEF InfTake
  <2>1. ~Unsplit(f)
    <3>1. Unsplit(f) => infOut[<<f, k, kind>>] = 0
      BY Zenon DEF Unsplit
    <3> QED
      BY <2>0, <3>1
  <2>2. \A g \in Frames, j \in Tiles, i \in Kinds :
           g # f => infOut'[<<g, j, i>>] = infOut[<<g, j, i>>]
    BY <1>0 DEF SoamOK, Take, InfTake, ReplyId, At, Goto
  <2>3. \A u \in Fetchers : arg'[u] = arg[u] \/ arg'[u] = f
    BY <1>0 DEF InfTake, ReplyId, At, Goto, ThreadsOK, Fetchers
  <2>4. \A g \in Frames : g # f /\ Unsplit(g) => Unsplit(g)'
    BY <2>2, <2>3 DEF Unsplit, InfTake, ReplyId, At, Goto, segVars, stitchVars
  <2> QED
    BY <1>0, <2>1, <2>4, FreshKeeps DEF InfTake, ReplyId, At, Goto, segVars
<1>9. FinishOnce' /\ BusOwned' /\ SemAccounting' /\ WindowStep
  <2>1. \A u \in Fetchers, g \in Frames : /\ Finishing(u, g)' <=> Finishing(u, g)
                                          /\ Cleaning(u, g)' <=> Cleaning(u, g)
    BY <1>0 DEF Finishing, Cleaning, ThreadsOK, Threads, Fetchers, InfTake, ReplyId, At, Goto, localVars
  <2>2. \A g \in Frames : Entering(g)' <=> Entering(g)
    BY <1>0 DEF Entering, ThreadsOK, Threads, Fetchers, InfTake, ReplyId, At, Goto, localVars
  <2> QED
    BY <1>0, <2>1, <2>2, Keeps DEF BusOK, InfTake, ReplyId, At, Goto, busVars, frameVars
<1> QED
  BY <1>1, <1>2, <1>3, <1>4, <1>5, <1>6, <1>7, <1>8, <1>9 DEF IInv, TypeOK

\* A stitch task is of the frame inf_fetch has in hand.
LEMMA InfSubmitStitchInv ==
  ASSUME IInv, InfSubmitStitch
  PROVE  IInv' /\ WindowStep
<1>0. ThreadsOK /\ ClientOK /\ TotalsOK /\ SoamOK /\ BusOK /\ Control /\ Enrolled /\ Fresh
      /\ FinishOnce /\ BusOwned /\ SemAccounting
  BY DEF IInv, TypeOK
<1>a. arg["inf_fetch"] \in Frames
  BY <1>0 DEF InfSubmitStitch, At, Goto, ThreadsOK, Control
<1>1. ThreadsOK'
  BY <1>0 DEF ThreadsOK, Control, InfSubmitStitch, At, Goto, localVars, Threads, Fetchers, Labels
<1>2. ClientOK'
  BY <1>0 DEF ClientOK, Control, InfSubmitStitch, At, Goto, frameVars, endVars, outVars
<1>3. TotalsOK'
  BY <1>0 DEF TotalsOK, InfSubmitStitch, At, Goto, totalVars
<1>4. SoamOK'
  <2>1. Put(stitchTasks, arg["inf_fetch"]) \in [Frames -> Nat]
    BY <1>0, <1>a, PutFact DEF SoamOK
  <2> QED
    BY <1>0, <2>1 DEF SoamOK, InfSubmitStitch, At, Goto, segVars, infVars
<1>5. BusOK'
  BY <1>0 DEF BusOK, InfSubmitStitch, At, Goto, busVars
<1>6. Control'
  BY <1>0 DEF Control, ThreadsOK, Fetchers, Threads, InfSubmitStitch, At, Goto, localVars
<1>7. Enrolled'
  BY <1>0 DEF Enrolled, Registered, Control, ThreadsOK, Threads, Fetchers, InfSubmitStitch, At, Goto, localVars, frameVars
<1>8. Fresh'
  <2>1. ~Unsplit(arg["inf_fetch"])
    BY DEF Unsplit, Fetchers
  <2>2. \A g \in Frames : g # arg["inf_fetch"] => stitchTasks'[g] = stitchTasks[g]
    BY <1>0, <1>a DEF SoamOK, Put, InfSubmitStitch, At, Goto
  <2>3. \A g \in Frames : g # arg["inf_fetch"] /\ Unsplit(g) => Unsplit(g)'
    BY <2>2 DEF Unsplit, InfSubmitStitch, At, Goto, localVars, frameVars, segVars, infVars
  <2> QED
    BY <1>0, <1>a, <2>1, <2>3, FreshKeeps DEF InfSubmitStitch, At, Goto, localVars, segVars
<1>9. FinishOnce' /\ BusOwned' /\ SemAccounting' /\ WindowStep
  <2>1. \A u \in Fetchers, g \in Frames : /\ Finishing(u, g)' <=> Finishing(u, g)
                                          /\ Cleaning(u, g)' <=> Cleaning(u, g)
    BY <1>0 DEF Finishing, Cleaning, ThreadsOK, Threads, Fetchers, InfSubmitStitch, At, Goto, localVars
  <2>2. \A g \in Frames : Entering(g)' <=> Entering(g)
    BY <1>0 DEF Entering, ThreadsOK, Threads, Fetchers, InfSubmitStitch, At, Goto, localVars
  <2> QED
    BY <1>0, <2>1, <2>2, Keeps DEF BusOK, InfSubmitStitch, At, Goto, busVars, frameVars
<1> QED
  BY <1>1, <1>2, <1>3, <1>4, <1>5, <1>6, <1>7, <1>8, <1>9 DEF IInv, TypeOK

\* A stitch reply puts the frame it names, or None, in stitch_fetch's hand.
LEMMA StitchTakeInv ==
  ASSUME IInv, NEW f \in Frames, NEW kind \in Kinds, StitchTake(f, kind)
  PROVE  IInv' /\ WindowStep
<1>0. ThreadsOK /\ ClientOK /\ TotalsOK /\ SoamOK /\ BusOK /\ Control /\ Enrolled /\ Fresh
      /\ FinishOnce /\ BusOwned /\ SemAccounting
  BY DEF IInv, TypeOK
<1>1. ThreadsOK'
  BY <1>0 DEF ThreadsOK, Control, StitchTake, ReplyId, At, Goto, localVars, Threads, Fetchers, Labels
<1>2. ClientOK'
  BY <1>0 DEF ClientOK, Control, StitchTake, ReplyId, At, Goto, frameVars, endVars, outVars
<1>3. TotalsOK'
  BY <1>0 DEF TotalsOK, StitchTake, ReplyId, At, Goto, totalVars
<1>4. SoamOK'
  BY <1>0, TakeFact DEF SoamOK, StitchTake, ReplyId, At, Goto, soamVars, segVars, infVars, stitchVars
<1>5. BusOK'
  BY <1>0 DEF BusOK, StitchTake, ReplyId, At, Goto, busVars
<1>6. Control'
  BY <1>0 DEF Control, ThreadsOK, Fetchers, Threads, StitchTake, ReplyId, At, Goto, localVars
<1>7. Enrolled'
  BY <1>0 DEF Enrolled, Registered, Control, ThreadsOK, Threads, Fetchers, StitchTake, ReplyId, At, Goto, localVars, frameVars
<1>8. Fresh'
  <2>1. ~Unsplit(f)
    BY DEF Unsplit, StitchTake, ReplyId, At, Goto
  <2>2. \A g \in Frames, j \in Kinds : g # f => stitchOut'[<<g, j>>] = stitchOut[<<g, j>>]
    BY <1>0 DEF SoamOK, Take, StitchTake, ReplyId, At, Goto
  <2>3. \A u \in Fetchers : arg'[u] = arg[u] \/ arg'[u] \in {NoId, f}
    BY <1>0 DEF StitchTake, ReplyId, At, Goto, ThreadsOK, Fetchers
  <2>4. \A g \in Frames : g # f /\ Unsplit(g) => Unsplit(g)'
    BY <2>2, <2>3 DEF Unsplit, StitchTake, ReplyId, At, Goto, frameVars, segVars, infVars
  <2> QED
    BY <1>0, <2>1, <2>4, FreshKeeps DEF StitchTake, ReplyId, At, Goto, segVars
<1>9. FinishOnce' /\ BusOwned' /\ SemAccounting' /\ WindowStep
  <2>1. \A u \in Fetchers, g \in Frames : /\ Finishing(u, g)' <=> Finishing(u, g)
                                          /\ Cleaning(u, g)' <=> Cleaning(u, g)
    BY <1>0 DEF Finishing, Cleaning, ThreadsOK, Threads, Fetchers, StitchTake, ReplyId, At, Goto, localVars
  <2>2. \A g \in Frames : Entering(g)' <=> Entering(g)
    BY <1>0 DEF Entering, ThreadsOK, Threads, Fetchers, StitchTake, ReplyId, At, Goto, localVars
  <2> QED
    BY <1>0, <2>1, <2>2, Keeps DEF BusOK, StitchTake, ReplyId, At, Goto, busVars, frameVars
<1> QED
  BY <1>1, <1>2, <1>3, <1>4, <1>5, <1>6, <1>7, <1>8, <1>9 DEF IInv, TypeOK

\* Writing the dump record touches no slot and no session.
LEMMA StitchDumpInv ==
  ASSUME IInv, StitchDump
  PROVE  IInv' /\ WindowStep
<1>0. ThreadsOK /\ ClientOK /\ TotalsOK /\ SoamOK /\ BusOK /\ Control /\ Enrolled /\ Fresh
      /\ FinishOnce /\ BusOwned /\ SemAccounting
  BY DEF IInv, TypeOK
<1>1. ThreadsOK'
  BY <1>0 DEF ThreadsOK, Control, StitchDump, At, Goto, localVars, Threads, Fetchers, Labels
<1>2. ClientOK'
  <2>1. arg["stitch_fetch"] \in Frames
    BY <1>0 DEF StitchDump, At, Goto, ThreadsOK, Control
  <2>2. Put(dumped, arg["stitch_fetch"]) \in [Frames -> Nat]
    BY <1>0, <2>1, PutFact DEF ClientOK
  <2> QED
    BY <1>0, <2>2 DEF ClientOK, StitchDump, At, Goto, frameVars, endVars
<1>3. TotalsOK'
  BY <1>0 DEF TotalsOK, StitchDump, At, Goto, totalVars
<1>4. SoamOK'
  BY <1>0, TakeFact DEF SoamOK, StitchDump, At, Goto, soamVars, segVars, infVars, stitchVars
<1>5. BusOK'
  BY <1>0 DEF BusOK, StitchDump, At, Goto, busVars
<1>6. Control'
  BY <1>0 DEF Control, ThreadsOK, Fetchers, Threads, StitchDump, At, Goto, localVars
<1>7. Enrolled'
  BY <1>0 DEF Enrolled, Registered, Control, ThreadsOK, Threads, Fetchers, StitchDump, At, Goto, localVars, frameVars
<1>8. Fresh'
  BY <1>0 DEF Fresh, Unsplit, StitchDump, At, Goto, localVars, frameVars, soamVars, segVars, infVars, stitchVars
<1>9. FinishOnce' /\ BusOwned' /\ SemAccounting' /\ WindowStep
  <2>1. \A u \in Fetchers, g \in Frames : /\ Finishing(u, g)' <=> Finishing(u, g)
                                          /\ Cleaning(u, g)' <=> Cleaning(u, g)
    BY <1>0 DEF Finishing, Cleaning, ThreadsOK, Threads, Fetchers, StitchDump, At, Goto, localVars
  <2>2. \A g \in Frames : Entering(g)' <=> Entering(g)
    BY <1>0 DEF Entering, ThreadsOK, Threads, Fetchers, StitchDump, At, Goto, localVars
  <2> QED
    BY <1>0, <2>1, <2>2, Keeps DEF BusOK, StitchDump, At, Goto, busVars, frameVars
<1> QED
  BY <1>1, <1>2, <1>3, <1>4, <1>5, <1>6, <1>7, <1>8, <1>9 DEF IInv, TypeOK

-----------------------------------------------------------------------------
(* Steps that touch none of the frames' places *)

\* Control moves that neither enter nor leave a place the invariant speaks of.
LEMMA MoveInv ==
  ASSUME IInv, NEW t \in Threads, NEW from, NEW to, Move(t, from, to),
         t = "seg_submit" => to = "exit" /\ from = "acquire",
         from \in {"acquire", "fetch", "check", "look", "wait", "join", "report"},
         to \in {"fetch", "check", "look", "fire", "exit", "dead", "join", "close", "exited"}
  PROVE  IInv' /\ WindowStep
<1>0. ThreadsOK /\ ClientOK /\ TotalsOK /\ SoamOK /\ BusOK /\ Control /\ Enrolled /\ Fresh
      /\ FinishOnce /\ BusOwned /\ SemAccounting
  BY DEF IInv, TypeOK
<1>1. pc[t] = from /\ pc' = [pc EXCEPT ![t] = to] /\ to \in Labels
  BY DEF Move, At, Goto, Labels
<1>2. UNCHANGED dataVars
  BY DEF Move
<1>3. TypeOK'
  BY <1>1, MoveType DEF IInv
<1>4. /\ \A u \in Threads : u # t => pc'[u] = pc[u]
      /\ pc'[t] = to
  BY <1>0, <1>1 DEF ThreadsOK
<1>5. Control'
  BY <1>0, <1>1, <1>2, <1>4 DEF Control, Threads, Fetchers, dataVars, localVars
<1>6. Enrolled'
  BY <1>0, <1>1, <1>2, <1>4 DEF Enrolled, Registered, Threads, dataVars, localVars, frameVars
<1>7. Fresh'
  BY <1>0, <1>2 DEF Fresh, Unsplit, dataVars, localVars, frameVars, soamVars, segVars, infVars,
                    stitchVars
<1>8. \A u \in Fetchers, g \in Frames : /\ Finishing(u, g)' <=> Finishing(u, g)
                                        /\ Cleaning(u, g)' <=> Cleaning(u, g)
  BY <1>1, <1>2, <1>4 DEF Finishing, Cleaning, Threads, dataVars, localVars
<1>9. \A g \in Frames : Entering(g)' <=> Entering(g)
  BY <1>1, <1>2, <1>4 DEF Entering, Threads, dataVars, localVars
<1>10. FinishOnce' /\ BusOwned' /\ SemAccounting' /\ WindowStep
  BY <1>0, <1>2, <1>8, <1>9, Keeps DEF BusOK, dataVars, frameVars, busVars
<1> QED
  BY <1>3, <1>5, <1>6, <1>7, <1>10 DEF IInv

\* Steps of the watchdog, of main and of the clock that set a flag.
LEMMA FlagInv ==
  ASSUME IInv, NEW t \in Threads, NEW to,
         pc[t] \in {"fire", "close", "teardown"} /\ t # "seg_submit" /\ t \notin Fetchers,
         to \in {"exit", "teardown", "report"},
         pc' = pc \/ pc' = [pc EXCEPT ![t] = to],
         UNCHANGED <<localVars, sem, frameVars, totalVars, soamVars, busVars, dumped>>,
         idle' \in BOOLEAN, stalled' \in BOOLEAN, doneEvt' \in BOOLEAN,
         dumpOpen' \in BOOLEAN, sessOpen' \in BOOLEAN
  PROVE  IInv' /\ WindowStep
<1>0. ThreadsOK /\ ClientOK /\ TotalsOK /\ SoamOK /\ BusOK /\ Control /\ Enrolled /\ Fresh
      /\ FinishOnce /\ BusOwned /\ SemAccounting
  BY DEF IInv, TypeOK
<1>1. to \in Labels
  BY DEF Labels
<1>2. ThreadsOK'
  BY <1>0, <1>1 DEF ThreadsOK, localVars
<1>3. ClientOK' /\ TotalsOK' /\ SoamOK' /\ BusOK'
  <2>1. ClientOK'
    BY <1>0 DEF ClientOK, frameVars
  <2>2. TotalsOK'
    BY <1>0 DEF TotalsOK, totalVars
  <2>3. SoamOK' /\ BusOK'
    BY <1>0 DEF SoamOK, soamVars, segVars, infVars, stitchVars, BusOK, busVars
  <2> QED
    BY <2>1, <2>2, <2>3
<1>4. /\ \A u \in Fetchers : pc'[u] = pc[u]
      /\ pc'["seg_submit"] = pc["seg_submit"]
  BY <1>0 DEF ThreadsOK, Threads
<1>5. Control'
  BY <1>0, <1>4 DEF Control, Fetchers, localVars
<1>6. Enrolled'
  BY <1>0, <1>4 DEF Enrolled, Registered, localVars, frameVars
<1>7. Fresh'
  BY <1>0 DEF Fresh, Unsplit, localVars, frameVars, soamVars, segVars, infVars, stitchVars
<1>8. \A u \in Fetchers, g \in Frames : /\ Finishing(u, g)' <=> Finishing(u, g)
                                        /\ Cleaning(u, g)' <=> Cleaning(u, g)
  BY <1>4 DEF Finishing, Cleaning, localVars
<1>9. \A g \in Frames : Entering(g)' <=> Entering(g)
  BY <1>4 DEF Entering, localVars
<1>10. FinishOnce' /\ BusOwned' /\ SemAccounting' /\ WindowStep
  BY <1>0, <1>8, <1>9, Keeps DEF BusOK, frameVars, busVars
<1> QED
  BY <1>2, <1>3, <1>5, <1>6, <1>7, <1>10 DEF IInv, TypeOK

-----------------------------------------------------------------------------
(* Steps of the services and of SOAM *)

\* What every step outside the client shares: the client's state is untouched, so
\* only the sessions, the bus and the directories' owners are left to look at.
LEMMA OutsideInv ==
  ASSUME IInv, UNCHANGED clientVars, SoamOK', BusOK', Fresh', \A f \in dir' \ dir : Owned(f)
  PROVE  IInv' /\ WindowStep
<1>0. ThreadsOK /\ ClientOK /\ TotalsOK /\ SoamOK /\ BusOK /\ Control /\ Enrolled /\ Fresh
      /\ FinishOnce /\ BusOwned /\ SemAccounting
  BY DEF IInv, TypeOK
<1>1. ThreadsOK' /\ ClientOK' /\ TotalsOK'
  <2>1. ThreadsOK'
    BY <1>0 DEF ThreadsOK, clientVars, localVars
  <2>2. ClientOK'
    BY <1>0 DEF ClientOK, clientVars, frameVars, endVars, outVars
  <2>3. TotalsOK'
    BY <1>0 DEF TotalsOK, clientVars, totalVars
  <2> QED
    BY <2>1, <2>2, <2>3
<1>2. Control' /\ Enrolled'
  BY <1>0 DEF Control, Enrolled, Registered, clientVars, localVars, frameVars
<1>3. FinishOnce'
  BY <1>0 DEF FinishOnce, Finishing, clientVars, localVars, frameVars
<1>4. BusOwned'
  BY <1>0 DEF BusOwned, Owned, Cleaning, clientVars, localVars, frameVars
<1>5. SemAccounting' /\ WindowStep
  <2>1. \A f \in Frames : HoldsSlot(f)' <=> HoldsSlot(f)
    BY DEF HoldsSlot, Finishing, Entering, clientVars, localVars, frameVars
  <2>2. sem' = sem /\ done' = done
    BY DEF clientVars, frameVars
  <2> QED
    BY <1>0, <2>1, <2>2, SemKeeps
<1> QED
  BY <1>1, <1>2, <1>3, <1>4, <1>5 DEF IInv, TypeOK

\* A segment task writes the bus for a frame that holds its slot.
LEMMA SegAnswerInv ==
  ASSUME IInv, NEW f \in Frames, NEW kind \in Kinds, SegAnswer(f, kind),
         UNCHANGED busVars \/ \E n \in 0 .. NTiles : WriteTiles(f, n),
         faults' \in [FaultKinds -> Nat]
  PROVE  IInv' /\ WindowStep
<1>0. ThreadsOK /\ ClientOK /\ TotalsOK /\ SoamOK /\ BusOK /\ Control /\ Enrolled /\ Fresh
      /\ FinishOnce /\ BusOwned /\ SemAccounting
  BY DEF IInv, TypeOK
<1>1. /\ segTasks \in [Frames -> Nat] /\ segTasks[f] > 0
      /\ segTasks' = [segTasks EXCEPT ![f] = @ - 1]
      /\ segOut \in [Frames \X Kinds -> Nat]
      /\ segOut' = [segOut EXCEPT ![<<f, kind>>] = @ + 1]
  BY <1>0 DEF SegAnswer, SoamOK, Take, Put
<1>2. next' = next /\ UNCHANGED clientVars
  BY DEF SegAnswer, clientVars, localVars
<1>3. segTasks[f] = 1 /\ f <= next /\ Unsplit(f) /\ next \in 0 .. Count
  BY <1>0, <1>1 DEF Fresh, ThreadsOK
<1>4. SoamOK'
  <2>1. segTasks' \in [Frames -> Nat] /\ segOut' \in [Frames \X Kinds -> Nat]
    <3>1. segTasks' \in [Frames -> Nat]
      BY <1>1
    <3>2. segOut' \in [Frames \X Kinds -> Nat]
      BY <1>1
    <3> QED
      BY <3>1, <3>2
  <2> QED
    BY <1>0, <2>1 DEF SoamOK, SegAnswer, infVars, stitchVars
<1>5. BusOK'
  BY <1>0 DEF BusOK, WriteTiles, busVars
<1>6. Fresh'
  <2>1. \A g \in Frames : segTasks'[g] = IF g = f THEN 0 ELSE segTasks[g]
    BY <1>1, <1>3
  <2>2. \A g \in Frames : g # f /\ Unsplit(g) => Unsplit(g)'
    <3>1. \A g \in Frames, j \in Kinds : g # f => segOut'[<<g, j>>] = segOut[<<g, j>>]
      BY <1>1
    <3> QED
      BY <3>1 DEF Unsplit, SegAnswer, clientVars, localVars, frameVars, infVars, stitchVars
  <2> QED
    BY <1>0, <1>2, <1>3, <2>1, <2>2 DEF Fresh
<1>7. \A g \in dir' \ dir : Owned(g)
  <2>1. dir' \subseteq dir \cup {f}
    BY DEF WriteTiles, busVars
  <2>2. f \in known /\ f \notin done
    BY <1>0, <1>3 DEF Enrolled, Registered, Unsplit
  <2> QED
    BY <2>1, <2>2 DEF Owned
<1> QED
  BY <1>2, <1>4, <1>5, <1>6, <1>7, OutsideInv

\* An inference task concerns a frame that has been split, and makes no directory.
LEMMA InfAnswerInv ==
  ASSUME IInv, NEW f \in Frames, NEW k \in Tiles, NEW kind \in Kinds, InfAnswer(f, k, kind),
         detFiles' = detFiles \/ SaveDetections(f, k), faults' \in [FaultKinds -> Nat]
  PROVE  IInv' /\ WindowStep
<1>0. ThreadsOK /\ ClientOK /\ TotalsOK /\ SoamOK /\ BusOK /\ Control /\ Enrolled /\ Fresh
      /\ FinishOnce /\ BusOwned /\ SemAccounting
  BY DEF IInv, TypeOK
<1>1. /\ infTasks \in [Frames \X Tiles -> Nat] /\ infTasks[<<f, k>>] > 0
      /\ infTasks' = [infTasks EXCEPT ![<<f, k>>] = @ - 1]
      /\ infOut \in [Frames \X Tiles \X Kinds -> Nat]
      /\ infOut' = [infOut EXCEPT ![<<f, k, kind>>] = @ + 1]
  BY <1>0 DEF InfAnswer, SoamOK, Take, Put
<1>2. UNCHANGED clientVars /\ next' = next /\ segTasks' = segTasks
  BY DEF InfAnswer, clientVars, localVars, segVars
<1>3. ~Unsplit(f)
  <2>1. Unsplit(f) => infTasks[<<f, k>>] = 0
    BY Zenon DEF Unsplit
  <2> QED
    BY <1>1, <2>1
<1>4. SoamOK'
  <2>1. infTasks' \in [Frames \X Tiles -> Nat]
    BY <1>1
  <2>2. infOut' \in [Frames \X Tiles \X Kinds -> Nat]
    BY <1>1
  <2> QED
    BY <1>0, <2>1, <2>2 DEF SoamOK, InfAnswer, segVars, stitchVars
<1>5. BusOK'
  BY <1>0 DEF BusOK, InfAnswer, SaveDetections
<1>6. Fresh'
  <2>1. /\ \A g \in Frames, j \in Tiles : g # f => infTasks'[<<g, j>>] = infTasks[<<g, j>>]
        /\ \A g \in Frames, j \in Tiles, i \in Kinds :
              g # f => infOut'[<<g, j, i>>] = infOut[<<g, j, i>>]
    BY <1>1
  <2>2. \A g \in Frames : g # f /\ Unsplit(g) => Unsplit(g)'
    BY <2>1 DEF Unsplit, InfAnswer, clientVars, localVars, frameVars, segVars, stitchVars
  <2> QED
    BY <1>0, <1>2, <1>3, <2>2, FreshKeeps
<1> QED
  BY <1>2, <1>4, <1>5, <1>6, OutsideInv DEF InfAnswer

\* So does a stitch task.
LEMMA StitchAnswerInv ==
  ASSUME IInv, NEW f \in Frames, NEW kind \in Kinds, StitchAnswer(f, kind),
         faults' \in [FaultKinds -> Nat]
  PROVE  IInv' /\ WindowStep
<1>0. ThreadsOK /\ ClientOK /\ TotalsOK /\ SoamOK /\ BusOK /\ Control /\ Enrolled /\ Fresh
      /\ FinishOnce /\ BusOwned /\ SemAccounting
  BY DEF IInv, TypeOK
<1>1. /\ stitchTasks \in [Frames -> Nat] /\ stitchTasks[f] > 0
      /\ stitchTasks' = [stitchTasks EXCEPT ![f] = @ - 1]
      /\ stitchOut \in [Frames \X Kinds -> Nat]
      /\ stitchOut' = [stitchOut EXCEPT ![<<f, kind>>] = @ + 1]
  BY <1>0 DEF StitchAnswer, SoamOK, Take, Put
<1>2. UNCHANGED clientVars /\ next' = next /\ segTasks' = segTasks /\ dir' = dir
  BY DEF StitchAnswer, clientVars, localVars, segVars, busVars
<1>3. ~Unsplit(f)
  BY <1>1 DEF Unsplit
<1>4. SoamOK'
  <2>1. stitchTasks' \in [Frames -> Nat] /\ stitchOut' \in [Frames \X Kinds -> Nat]
    <3>1. stitchTasks' \in [Frames -> Nat]
      BY <1>1
    <3>2. stitchOut' \in [Frames \X Kinds -> Nat]
      BY <1>1
    <3> QED
      BY <3>1, <3>2
  <2> QED
    BY <1>0, <2>1 DEF SoamOK, StitchAnswer, segVars, infVars
<1>5. BusOK'
  BY <1>0 DEF BusOK, StitchAnswer, busVars
<1>6. Fresh'
  <2>1. /\ \A g \in Frames : g # f => stitchTasks'[g] = stitchTasks[g]
        /\ \A g \in Frames, j \in Kinds : g # f => stitchOut'[<<g, j>>] = stitchOut[<<g, j>>]
    BY <1>1
  <2>2. \A g \in Frames : g # f /\ Unsplit(g) => Unsplit(g)'
    BY <2>1 DEF Unsplit, StitchAnswer, clientVars, localVars, frameVars, segVars, infVars
  <2> QED
    BY <1>0, <1>2, <1>3, <2>2, FreshKeeps
<1> QED
  BY <1>2, <1>4, <1>5, <1>6, OutsideInv

\* A duplicated output is of a frame some stage has already seen.
LEMMA DuplicateInv ==
  ASSUME IInv, Duplicate
  PROVE  IInv' /\ WindowStep
<1>0. ThreadsOK /\ ClientOK /\ TotalsOK /\ SoamOK /\ BusOK /\ Control /\ Enrolled /\ Fresh
      /\ FinishOnce /\ BusOwned /\ SemAccounting
  BY DEF IInv, TypeOK
<1>1. UNCHANGED clientVars /\ next' = next /\ segTasks' = segTasks /\ dir' = dir
  BY DEF Duplicate, clientVars, localVars, busVars
<1>2. faults' \in [FaultKinds -> Nat]
  <2>1. faults \in [FaultKinds -> Nat]
    BY <1>0 DEF SoamOK
  <2>2. "dup" \in FaultKinds
    BY DEF FaultKinds
  <2>3. faults' = [faults EXCEPT !["dup"] = @ + 1]
    BY DEF Duplicate, Spend
  <2>4. faults["dup"] + 1 \in Nat
    BY <2>1, <2>2
  <2> QED
    BY <2>1, <2>3, <2>4
<1>3. BusOK'
  BY <1>0 DEF BusOK, Duplicate, busVars
<1>4. SoamOK' /\ Fresh'
  <2>1. CASE /\ \E o \in Frames \X Kinds : segOut[o] > 0 /\ segOut' = Put(segOut, o)
             /\ UNCHANGED <<infOut, stitchOut>>
    <3>a. PICK o \in Frames \X Kinds : segOut[o] > 0 /\ segOut' = [segOut EXCEPT ![o] = @ + 1]
      BY <2>1 DEF Put
    <3>b. PICK f \in Frames, j \in Kinds : o = <<f, j>>
      OBVIOUS
    <3>1. segOut[<<f, j>>] > 0 /\ segOut' = [segOut EXCEPT ![<<f, j>>] = @ + 1]
      BY <3>a, <3>b
    <3>2. segOut' \in [Frames \X Kinds -> Nat]
      BY <1>0, <3>1 DEF SoamOK
    <3>3. SoamOK'
      BY <1>0, <1>2, <2>1, <3>2 DEF SoamOK, Duplicate
    <3>4. ~Unsplit(f)
      BY <3>1 DEF Unsplit
    <3>5. \A g \in Frames, i \in Kinds : g # f => segOut'[<<g, i>>] = segOut[<<g, i>>]
      BY <1>0, <3>1 DEF SoamOK
    <3>6. \A g \in Frames : g # f /\ Unsplit(g) => Unsplit(g)'
      BY <2>1, <3>5 DEF Unsplit, Duplicate, clientVars, localVars, frameVars
    <3> QED
      BY <1>0, <1>1, <3>3, <3>4, <3>6, FreshKeeps
  <2>2. CASE /\ \E o \in Frames \X Tiles \X Kinds : infOut[o] > 0 /\ infOut' = Put(infOut, o)
             /\ UNCHANGED <<segOut, stitchOut>>
    <3>a. PICK o \in Frames \X Tiles \X Kinds :
             infOut[o] > 0 /\ infOut' = [infOut EXCEPT ![o] = @ + 1]
      BY <2>2 DEF Put
    <3>b. PICK f \in Frames, k \in Tiles, j \in Kinds : o = <<f, k, j>>
      OBVIOUS
    <3>1. infOut[<<f, k, j>>] > 0 /\ infOut' = [infOut EXCEPT ![<<f, k, j>>] = @ + 1]
      BY <3>a, <3>b
    <3>2. infOut' \in [Frames \X Tiles \X Kinds -> Nat]
      <4>1. infOut \in [Frames \X Tiles \X Kinds -> Nat]
        BY <1>0 DEF SoamOK
      <4>2. infOut[o] + 1 \in Nat
        BY <4>1, <3>a
      <4> QED
        BY <4>1, <4>2, <3>a
    <3>3. SoamOK'
      BY <1>0, <1>2, <2>2, <3>2 DEF SoamOK, Duplicate
    <3>4. ~Unsplit(f)
      <4>1. Unsplit(f) => infOut[<<f, k, j>>] = 0
        BY Zenon DEF Unsplit
      <4> QED
        BY <3>1, <4>1
    <3>5. \A g \in Frames, h \in Tiles, i \in Kinds :
             g # f => infOut'[<<g, h, i>>] = infOut[<<g, h, i>>]
      BY <1>0, <3>1 DEF SoamOK
    <3>6. \A g \in Frames : g # f /\ Unsplit(g) => Unsplit(g)'
      BY <2>2, <3>5 DEF Unsplit, Duplicate, clientVars, localVars, frameVars
    <3> QED
      BY <1>0, <1>1, <3>3, <3>4, <3>6, FreshKeeps
  <2>3. CASE /\ \E o \in Frames \X Kinds : stitchOut[o] > 0 /\ stitchOut' = Put(stitchOut, o)
             /\ UNCHANGED <<segOut, infOut>>
    <3>a. PICK o \in Frames \X Kinds : stitchOut[o] > 0 /\ stitchOut' = [stitchOut EXCEPT ![o] = @ + 1]
      BY <2>3 DEF Put
    <3>b. PICK f \in Frames, j \in Kinds : o = <<f, j>>
      OBVIOUS
    <3>1. stitchOut[<<f, j>>] > 0 /\ stitchOut' = [stitchOut EXCEPT ![<<f, j>>] = @ + 1]
      BY <3>a, <3>b
    <3>2. stitchOut' \in [Frames \X Kinds -> Nat]
      BY <1>0, <3>1 DEF SoamOK
    <3>3. SoamOK'
      BY <1>0, <1>2, <2>3, <3>2 DEF SoamOK, Duplicate
    <3>4. ~Unsplit(f)
      BY <3>1 DEF Unsplit
    <3>5. \A g \in Frames, i \in Kinds : g # f => stitchOut'[<<g, i>>] = stitchOut[<<g, i>>]
      BY <1>0, <3>1 DEF SoamOK
    <3>6. \A g \in Frames : g # f /\ Unsplit(g) => Unsplit(g)'
      BY <2>3, <3>5 DEF Unsplit, Duplicate, clientVars, localVars, frameVars
    <3> QED
      BY <1>0, <1>1, <3>3, <3>4, <3>6, FreshKeeps
  <2> QED
    BY <2>1, <2>2, <2>3 DEF Duplicate
<1> QED
  BY <1>1, <1>3, <1>4, OutsideInv

-----------------------------------------------------------------------------
(* The theorems *)

\* The inductive invariant holds in the initial state.
LEMMA InvInit == Init => IInv
<1> SUFFICES ASSUME Init PROVE IInv
  OBVIOUS
<1>1. TypeOK
  BY TypeInit
<1>2. /\ pc["seg_submit"] = "acquire" /\ pc["stitch_fetch"] = "check"
      /\ pc["seg_fetch"] = "fetch" /\ pc["inf_fetch"] = "fetch"
  BY DEF Init, Threads, Fetchers
<1>3. \A t \in Fetchers : pc[t] \in {"fetch", "check"} /\ arg[t] = NoId
  BY <1>2 DEF Init, Fetchers
<1>4. /\ next = 0 /\ sem = InFlight /\ known = {} /\ done = {} /\ dir = {}
      /\ segTasks = Nothing(Frames) /\ segOut = Nothing(Frames \X Kinds)
      /\ infTasks = Nothing(Frames \X Tiles) /\ infOut = Nothing(Frames \X Tiles \X Kinds)
      /\ stitchTasks = Nothing(Frames) /\ stitchOut = Nothing(Frames \X Kinds)
  BY DEF Init
<1>5. Control
  BY <1>2, <1>3 DEF Control
<1>6. Enrolled
  BY <1>2, <1>4 DEF Enrolled, Registered
<1>7. Fresh
  BY <1>3, <1>4 DEF Fresh, Unsplit, Nothing
<1>8. \A t \in Fetchers, f \in Frames : ~Finishing(t, f)
  BY <1>3 DEF Finishing
<1>9. FinishOnce /\ BusOwned
  BY <1>4, <1>8 DEF FinishOnce, BusOwned
<1>10. SemAccounting
  <2>1. Held = {}
    BY <1>2, <1>4, <1>8 DEF Held, HoldsSlot, Entering
  <2> QED
    BY <1>4, <2>1, FS_EmptySet DEF SemAccounting
<1> QED
  BY <1>1, <1>5, <1>6, <1>7, <1>9, <1>10 DEF IInv

\* Every step keeps the inductive invariant, and is a step of the window or none.
LEMMA InvStep == IInv /\ [Next]_vars => IInv' /\ WindowStep
<1> SUFFICES ASSUME IInv, [Next]_vars PROVE IInv' /\ WindowStep
  OBVIOUS
<1>0. TypeOK
  BY DEF IInv
<1>1. CASE Submitter
  <2>1. CASE SubmitterExit
    BY <2>1, MoveInv DEF SubmitterExit, Threads
  <2> QED
    BY <1>1, <2>1, AcquireInv, RegisterInv, SendSegmentInv DEF Submitter
<1>2. ASSUME NEW t \in Fetchers, Finish(t) PROVE IInv' /\ WindowStep
  <2>1. CASE SessionGone(t)
    <3>1. t \in Threads /\ t # "seg_submit"
      BY DEF Threads, Fetchers
    <3> QED
      BY <2>1, <3>1, MoveInv DEF SessionGone
  <2> QED
    BY <1>2, <2>1, MarkInv, CleanInv, ReleaseInv DEF Finish
<1>3. CASE SegFetch
  <2>1. CASE SegFetchExit
    BY <2>1, MoveInv DEF SegFetchExit, Threads, Fetchers
  <2> QED
    BY <1>2, <1>3, <2>1, SegTakeInv, SegSubmitTileInv DEF SegFetch, Fetchers
<1>4. CASE InfFetch
  <2>1. CASE InfFetchExit
    BY <2>1, MoveInv DEF InfFetchExit, Threads, Fetchers
  <2> QED
    BY <1>2, <1>4, <2>1, InfTakeInv, InfSubmitStitchInv DEF InfFetch, Fetchers
<1>5. CASE StitchFetch
  <2>1. CASE StitchCheck
    <3>1. "stitch_fetch" \in Threads
      BY DEF Threads, Fetchers
    <3> QED
      BY <2>1, <3>1, MoveInv DEF StitchCheck
  <2>2. CASE StitchPollTimeout
    <3>1. "stitch_fetch" \in Threads
      BY DEF Threads, Fetchers
    <3> QED
      BY <2>2, <3>1, MoveInv DEF StitchPollTimeout
  <2> QED
    BY <1>2, <1>5, <2>1, <2>2, StitchTakeInv, StitchDumpInv DEF StitchFetch, Fetchers
<1>6. CASE Watchdog
  <2>0. "watchdog" \in Threads /\ "watchdog" \notin Fetchers
    BY DEF Threads, Fetchers
  <2>1. CASE WatchdogCheck
    BY <2>0, <2>1, MoveInv DEF WatchdogCheck
  <2>2. CASE WatchdogLook
    BY <2>0, <2>2, MoveInv DEF WatchdogLook
  <2>3. CASE WatchdogFire
    <3>1. idle' \in BOOLEAN /\ dumpOpen' \in BOOLEAN /\ sessOpen' \in BOOLEAN
      BY <1>0, <2>3 DEF TypeOK, ClientOK, WatchdogFire, outVars
    <3> QED
      BY <2>0, <2>3, <3>1, FlagInv DEF WatchdogFire, At, Goto, outVars
  <2> QED
    BY <1>6, <2>1, <2>2, <2>3 DEF Watchdog
<1>7. CASE Main
  <2>0. "main" \in Threads /\ "main" \notin Fetchers
    BY DEF Threads, Fetchers
  <2>1. CASE MainWait
    BY <2>0, <2>1, MoveInv DEF MainWait
  <2>2. CASE MainJoin
    BY <2>0, <2>2, MoveInv DEF MainJoin
  <2>3. CASE MainReport
    BY <2>0, <2>3, MoveInv DEF MainReport
  <2>4. CASE MainCloseDump
    <3>1. /\ idle' \in BOOLEAN /\ stalled' \in BOOLEAN /\ doneEvt' \in BOOLEAN
          /\ dumpOpen' \in BOOLEAN /\ sessOpen' \in BOOLEAN
      BY <1>0, <2>4 DEF TypeOK, ClientOK, MainCloseDump, endVars
    <3> QED
      BY <2>0, <2>4, <3>1, FlagInv DEF MainCloseDump, At, Goto
  <2>5. CASE MainCloseSessions
    <3>1. /\ idle' \in BOOLEAN /\ stalled' \in BOOLEAN /\ doneEvt' \in BOOLEAN
          /\ dumpOpen' \in BOOLEAN /\ sessOpen' \in BOOLEAN
      BY <1>0, <2>5 DEF TypeOK, ClientOK, MainCloseSessions, endVars
    <3> QED
      BY <2>0, <2>5, <3>1, FlagInv DEF MainCloseSessions, At, Goto
  <2> QED
    BY <1>7, <2>1, <2>2, <2>3, <2>4, <2>5 DEF Main
<1>8. CASE IdleElapses
  <2>1. /\ ThreadsOK' /\ TotalsOK' /\ SoamOK' /\ BusOK'
    BY <1>0, <1>8 DEF IdleElapses, TypeOK, ThreadsOK, TotalsOK, SoamOK, BusOK, localVars,
                      totalVars, soamVars, segVars, infVars, stitchVars, busVars
  <2>2. ClientOK'
    BY <1>0, <1>8 DEF IdleElapses, TypeOK, ClientOK, frameVars, outVars
  <2>3. Control' /\ Enrolled' /\ Fresh'
    BY <1>8 DEF IInv, IdleElapses, Control, Enrolled, Registered, Fresh, Unsplit, localVars,
                frameVars, soamVars, segVars, infVars, stitchVars
  <2>4. FinishOnce' /\ BusOwned' /\ SemAccounting' /\ WindowStep
    <3>1. /\ known' = known /\ done' = done /\ sem' = sem /\ dir' = dir /\ pc' = pc
          /\ arg' = arg /\ next' = next
      BY <1>8 DEF IdleElapses, localVars, frameVars, busVars
    <3>2. /\ \A u \in Fetchers, g \in Frames : /\ Finishing(u, g)' <=> Finishing(u, g)
                                               /\ Cleaning(u, g)' <=> Cleaning(u, g)
          /\ \A g \in Frames : Entering(g)' <=> Entering(g)
      BY <3>1 DEF Finishing, Cleaning, Entering
    <3> QED
      BY <1>0, <3>1, <3>2, Keeps DEF IInv, TypeOK, BusOK
  <2> QED
    BY <2>1, <2>2, <2>3, <2>4 DEF IInv, TypeOK
<1>9. CASE Services
  <2>0. /\ faults \in [FaultKinds -> Nat]
        /\ \A k \in FaultKinds : Spend(k) => faults' \in [FaultKinds -> Nat]
    <3>1. faults \in [FaultKinds -> Nat]
      BY <1>0 DEF TypeOK, SoamOK
    <3>2. ASSUME NEW k \in FaultKinds, faults' = [faults EXCEPT ![k] = @ + 1]
          PROVE  faults' \in [FaultKinds -> Nat]
      BY <3>1, <3>2
    <3> QED
      BY <3>1, <3>2 DEF Spend
  <2>1. PICK f \in Frames : SegService(f) \/ StitchService(f) \/ \E k \in Tiles : InfService(f, k)
    BY <1>9 DEF Services
  <2>2. CASE SegService(f)
    <3>1. CASE SegOk(f)
      BY <2>0, <3>1, SegAnswerInv DEF SegOk, Kinds
    <3>2. ASSUME NEW kind \in {"err", "failed"}, SegNotOk(f, kind) PROVE IInv' /\ WindowStep
      BY <2>0, <3>2, SegAnswerInv DEF SegNotOk, Kinds, FaultKinds
    <3> QED
      BY <2>2, <3>1, <3>2 DEF SegService
  <2>3. CASE StitchService(f)
    <3>1. CASE StitchOk(f)
      BY <2>0, <3>1, StitchAnswerInv DEF StitchOk, Kinds
    <3>2. ASSUME NEW kind \in {"err", "failed"}, StitchNotOk(f, kind) PROVE IInv' /\ WindowStep
      BY <2>0, <3>2, StitchAnswerInv DEF StitchNotOk, Kinds, FaultKinds
    <3> QED
      BY <2>3, <3>1, <3>2 DEF StitchService
  <2>4. ASSUME NEW k \in Tiles, InfService(f, k) PROVE IInv' /\ WindowStep
    <3>1. CASE InfOk(f, k)
      BY <2>0, <3>1, InfAnswerInv DEF InfOk, Kinds
    <3>2. ASSUME NEW kind \in {"err", "failed"}, InfNotOk(f, k, kind) PROVE IInv' /\ WindowStep
      BY <2>0, <3>2, InfAnswerInv DEF InfNotOk, Kinds, FaultKinds
    <3> QED
      BY <2>4, <3>1, <3>2 DEF InfService
  <2> QED
    BY <2>1, <2>2, <2>3, <2>4
<1>10. CASE Duplicate
  BY <1>10, DuplicateInv
<1>11. CASE UNCHANGED vars
  <2>1. UNCHANGED clientVars /\ UNCHANGED busVars /\ UNCHANGED soamVars
    BY <1>11 DEF vars, dataVars, clientVars
  <2>2. SoamOK' /\ BusOK'
    BY <1>0, <2>1 DEF TypeOK, SoamOK, BusOK, soamVars, segVars, infVars, stitchVars, busVars
  <2>3. Fresh'
    BY <2>1 DEF IInv, Fresh, Unsplit, clientVars, localVars, frameVars, soamVars, segVars, infVars,
                stitchVars
  <2>4. dir' = dir
    BY <2>1 DEF busVars
  <2> QED
    BY <2>1, <2>2, <2>3, <2>4, OutsideInv
<1> QED
  BY <1>1, <1>3, <1>4, <1>5, <1>6, <1>7, <1>8, <1>9, <1>10, <1>11 DEF Next, Exited

\* The inductive invariant holds in every reachable state.
THEOREM Invariant == Spec => []IInv
<1>1. Init => IInv
  BY InvInit
<1>2. IInv /\ [Next]_vars => IInv'
  BY InvStep
<1> QED
  BY <1>1, <1>2, PTL DEF Spec

\* Type correctness: in particular the semaphore never leaves 0 .. InFlight.
THEOREM TypeCorrect == Spec => []TypeOK
<1>1. IInv => TypeOK
  BY DEF IInv
<1> QED
  BY <1>1, Invariant, PTL

\* Every slot of the in-flight window is free or held by one frame.
THEOREM SlotsAccounted == Spec => []SemAccounting
<1>1. IInv => SemAccounting
  BY DEF IInv
<1> QED
  BY <1>1, Invariant, PTL

\* The bus never holds the directories of more frames than hold a slot.
THEOREM BusIsBounded == Spec => []BusBounded
<1>1. IInv => BusBounded
  <2> SUFFICES ASSUME IInv PROVE BusBounded
    OBVIOUS
  <2>1. dir \subseteq Frames /\ sem \in 0 .. InFlight
    BY DEF IInv, TypeOK, BusOK, ClientOK
  <2>2. dir \subseteq Held
    BY <2>1 DEF IInv, BusOwned, Owned, Held, HoldsSlot, Cleaning, Finishing
  <2>3. Cardinality(dir) <= Cardinality(Held) /\ Cardinality(dir) \in Nat
    BY <2>2, HeldFinite, FS_Subset, FS_CardinalityType
  <2> QED
    BY <2>1, <2>2, <2>3, HeldFinite DEF IInv, SemAccounting, BusBounded
<1> QED
  BY <1>1, Invariant, PTL

\* The client implements the window: whatever the services and SOAM do, each frame
\* is admitted once, freed once, and at most InFlight are held at a time.
THEOREM WindowImplemented == Spec => ImplementsWindow
<1>1. Init => Window!Init
  <2> SUFFICES ASSUME Init PROVE Window!Init
    OBVIOUS
  <2>1. \A f \in Frames : ~HoldsSlot(f) /\ f \notin done
    BY DEF Init, HoldsSlot, Finishing, Entering, Threads, Fetchers
  <2> QED
    BY <2>1 DEF Window!Init, Phase, Held
<1>2. IInv /\ [Next]_vars => [Window!Next]_Phase
  BY InvStep DEF WindowStep
<1> QED
  BY <1>1, <1>2, Invariant, PTL DEF Spec, Window!Spec, ImplementsWindow

HIDE ConstantsAssumption DEF ConstantsAssumption, Frames, Tiles, NoId

-----------------------------------------------------------------------------
(* Counting places *)

\* One more output of frame f, or of tile k of frame f.
MoreAnswers(old, new, f, kind) ==
    /\ \A g \in Frames : Answers(new, g) = IF g = f THEN Answers(old, g) + 1 ELSE Answers(old, g)
    /\ \A g \in Frames, j \in Kinds :
          new[<<g, j>>] = IF g = f /\ j = kind THEN old[<<g, j>>] + 1 ELSE old[<<g, j>>]
MoreTileAnswers(old, new, f, k, kind) ==
    /\ \A g \in Frames, i \in Tiles :
          TileAnswers(new, g, i) = IF g = f /\ i = k THEN TileAnswers(old, g, i) + 1
                                                   ELSE TileAnswers(old, g, i)
    /\ \A g \in Frames, i \in Tiles, j \in Kinds :
          new[<<g, i, j>>] = IF g = f /\ i = k /\ j = kind THEN old[<<g, i, j>>] + 1
                                                       ELSE old[<<g, i, j>>]

\* One fewer output of frame f, or of tile k of frame f.
FewerAnswers(old, new, f, kind) ==
    /\ \A g \in Frames : Answers(new, g) = IF g = f THEN Answers(old, g) - 1 ELSE Answers(old, g)
    /\ \A g \in Frames, j \in Kinds :
          new[<<g, j>>] = IF g = f /\ j = kind THEN old[<<g, j>>] - 1 ELSE old[<<g, j>>]
FewerTileAnswers(old, new, f, k, kind) ==
    /\ \A g \in Frames, i \in Tiles :
          TileAnswers(new, g, i) = IF g = f /\ i = k THEN TileAnswers(old, g, i) - 1
                                                   ELSE TileAnswers(old, g, i)
    /\ \A g \in Frames, i \in Tiles, j \in Kinds :
          new[<<g, i, j>>] = IF g = f /\ i = k /\ j = kind THEN old[<<g, i, j>>] - 1
                                                       ELSE old[<<g, i, j>>]

\* An output that is put into a session, or taken from it, is one answer for its frame
\* and none for another.
LEMMA AnswersPut ==
  ASSUME NEW out \in [Frames \X Kinds -> Nat], NEW f \in Frames, NEW kind \in Kinds,
         NEW new, new = Put(out, <<f, kind>>)
  PROVE  MoreAnswers(out, new, f, kind)
<1>1. <<f, kind>> \in Frames \X Kinds
  OBVIOUS
<1>2. ASSUME NEW g \in Frames, NEW j \in Kinds
      PROVE  /\ new[<<g, j>>] = IF g = f /\ j = kind THEN out[<<g, j>>] + 1 ELSE out[<<g, j>>]
             /\ out[<<g, j>>] \in Nat
  <2>1. <<g, j>> \in Frames \X Kinds /\ (<<g, j>> = <<f, kind>> <=> g = f /\ j = kind)
    OBVIOUS
  <2>2. out[<<g, j>>] \in Nat
    BY <2>1
  <2>3. new[<<g, j>>] = IF <<g, j>> = <<f, kind>> THEN out[<<g, j>>] + 1 ELSE out[<<g, j>>]
    BY <1>1, <2>1 DEF Put
  <2> QED
    BY <2>1, <2>2, <2>3
<1>3. ASSUME NEW g \in Frames
      PROVE  Answers(new, g) = IF g = f THEN Answers(out, g) + 1 ELSE Answers(out, g)
  <2>1. "ok" \in Kinds /\ "err" \in Kinds /\ "failed" \in Kinds
    BY DEF Kinds
  <2> QED
    BY <1>2, <2>1 DEF Answers, Kinds
<1> QED
  BY <1>2, <1>3 DEF MoreAnswers

LEMMA AnswersTake ==
  ASSUME NEW out \in [Frames \X Kinds -> Nat], NEW f \in Frames, NEW kind \in Kinds,
         out[<<f, kind>>] > 0, NEW new, new = Take(out, <<f, kind>>)
  PROVE  FewerAnswers(out, new, f, kind)
<1>1. <<f, kind>> \in Frames \X Kinds
  OBVIOUS
<1>2. ASSUME NEW g \in Frames, NEW j \in Kinds
      PROVE  /\ new[<<g, j>>] = IF g = f /\ j = kind THEN out[<<g, j>>] - 1 ELSE out[<<g, j>>]
             /\ out[<<g, j>>] \in Nat
  <2>1. <<g, j>> \in Frames \X Kinds /\ (<<g, j>> = <<f, kind>> <=> g = f /\ j = kind)
    OBVIOUS
  <2>2. out[<<g, j>>] \in Nat
    BY <2>1
  <2>3. new[<<g, j>>] = IF <<g, j>> = <<f, kind>> THEN out[<<g, j>>] - 1 ELSE out[<<g, j>>]
    BY <1>1, <2>1 DEF Take
  <2> QED
    BY <2>1, <2>2, <2>3
<1>3. ASSUME NEW g \in Frames
      PROVE  Answers(new, g) = IF g = f THEN Answers(out, g) - 1 ELSE Answers(out, g)
  <2>1. "ok" \in Kinds /\ "err" \in Kinds /\ "failed" \in Kinds
    BY DEF Kinds
  <2> QED
    BY <1>2, <2>1 DEF Answers, Kinds
<1> QED
  BY <1>2, <1>3 DEF FewerAnswers

LEMMA TileAnswersPut ==
  ASSUME NEW out \in [Frames \X Tiles \X Kinds -> Nat],
         NEW f \in Frames, NEW k \in Tiles, NEW kind \in Kinds,
         NEW new, new = Put(out, <<f, k, kind>>)
  PROVE  MoreTileAnswers(out, new, f, k, kind)
<1>1. <<f, k, kind>> \in Frames \X Tiles \X Kinds
  OBVIOUS
<1>2. ASSUME NEW g \in Frames, NEW i \in Tiles, NEW j \in Kinds
      PROVE  /\ new[<<g, i, j>>] = IF g = f /\ i = k /\ j = kind THEN out[<<g, i, j>>] + 1
                                                              ELSE out[<<g, i, j>>]
             /\ out[<<g, i, j>>] \in Nat
  <2>1. /\ <<g, i, j>> \in Frames \X Tiles \X Kinds
        /\ <<g, i, j>> = <<f, k, kind>> <=> g = f /\ i = k /\ j = kind
    OBVIOUS
  <2>2. out[<<g, i, j>>] \in Nat
    BY <2>1
  <2>3. new[<<g, i, j>>] = IF <<g, i, j>> = <<f, k, kind>> THEN out[<<g, i, j>>] + 1 ELSE out[<<g, i, j>>]
    BY <1>1, <2>1 DEF Put
  <2> QED
    BY <2>1, <2>2, <2>3
<1>3. ASSUME NEW g \in Frames, NEW i \in Tiles
      PROVE  TileAnswers(new, g, i) = IF g = f /\ i = k THEN TileAnswers(out, g, i) + 1
                                                       ELSE TileAnswers(out, g, i)
  <2>1. "ok" \in Kinds /\ "err" \in Kinds /\ "failed" \in Kinds
    BY DEF Kinds
  <2> QED
    BY <1>2, <2>1 DEF TileAnswers, Kinds
<1> QED
  BY <1>2, <1>3 DEF MoreTileAnswers

LEMMA TileAnswersTake ==
  ASSUME NEW out \in [Frames \X Tiles \X Kinds -> Nat],
         NEW f \in Frames, NEW k \in Tiles, NEW kind \in Kinds, out[<<f, k, kind>>] > 0,
         NEW new, new = Take(out, <<f, k, kind>>)
  PROVE  FewerTileAnswers(out, new, f, k, kind)
<1>1. <<f, k, kind>> \in Frames \X Tiles \X Kinds
  OBVIOUS
<1>2. ASSUME NEW g \in Frames, NEW i \in Tiles, NEW j \in Kinds
      PROVE  /\ new[<<g, i, j>>] = IF g = f /\ i = k /\ j = kind THEN out[<<g, i, j>>] - 1
                                                              ELSE out[<<g, i, j>>]
             /\ out[<<g, i, j>>] \in Nat
  <2>1. /\ <<g, i, j>> \in Frames \X Tiles \X Kinds
        /\ <<g, i, j>> = <<f, k, kind>> <=> g = f /\ i = k /\ j = kind
    OBVIOUS
  <2>2. out[<<g, i, j>>] \in Nat
    BY <2>1
  <2>3. new[<<g, i, j>>] = IF <<g, i, j>> = <<f, k, kind>> THEN out[<<g, i, j>>] - 1 ELSE out[<<g, i, j>>]
    BY <1>1, <2>1 DEF Take
  <2> QED
    BY <2>1, <2>2, <2>3
<1>3. ASSUME NEW g \in Frames, NEW i \in Tiles
      PROVE  TileAnswers(new, g, i) = IF g = f /\ i = k THEN TileAnswers(out, g, i) - 1
                                                       ELSE TileAnswers(out, g, i)
  <2>1. "ok" \in Kinds /\ "err" \in Kinds /\ "failed" \in Kinds
    BY DEF Kinds
  <2> QED
    BY <1>2, <2>1 DEF TileAnswers, Kinds
<1> QED
  BY <1>2, <1>3 DEF FewerTileAnswers

\* The places of a frame are counted in natural numbers.
Typed(f) ==
    /\ Up(f) \in Nat /\ Down(f) \in Nat
    /\ segTasks[f] \in Nat /\ stitchTasks[f] \in Nat
    /\ Answers(segOut, f) \in Nat /\ Answers(stitchOut, f) \in Nat
    /\ \A kind \in Kinds : segOut[<<f, kind>>] \in Nat /\ stitchOut[<<f, kind>>] \in Nat
    /\ \A k \in Tiles : /\ Tile(f, k) \in Nat /\ infTasks[<<f, k>>] \in Nat
                        /\ TileAnswers(infOut, f, k) \in Nat
                        /\ \A kind \in Kinds : infOut[<<f, k, kind>>] \in Nat

PlacesTyped == \A f \in Frames : Typed(f)

LEMMA PlaceTypes == TypeOK => PlacesTyped
<1> SUFFICES ASSUME TypeOK, NEW f \in Frames PROVE Typed(f)
  BY DEF PlacesTyped
<1>1. segTasks[f] \in Nat /\ stitchTasks[f] \in Nat
  BY DEF TypeOK, SoamOK
<1>2. \A kind \in Kinds : segOut[<<f, kind>>] \in Nat /\ stitchOut[<<f, kind>>] \in Nat
  BY DEF TypeOK, SoamOK
<1>3. Answers(segOut, f) \in Nat /\ Answers(stitchOut, f) \in Nat
  BY <1>2 DEF Answers, Kinds
<1>4. ASSUME NEW k \in Tiles
      PROVE  /\ Tile(f, k) \in Nat /\ infTasks[<<f, k>>] \in Nat
             /\ TileAnswers(infOut, f, k) \in Nat
             /\ \A kind \in Kinds : infOut[<<f, k, kind>>] \in Nat
  <2>1. infTasks[<<f, k>>] \in Nat /\ \A kind \in Kinds : infOut[<<f, k, kind>>] \in Nat
    BY DEF TypeOK, SoamOK
  <2>2. TileAnswers(infOut, f, k) \in Nat
    BY <2>1 DEF TileAnswers, Kinds
  <2>3. Tile(f, k) \in Nat
    BY <2>1, <2>2 DEF Tile, One
  <2> QED
    BY <2>1, <2>2, <2>3
<1>7. Up(f) \in Nat /\ Down(f) \in Nat
  BY <1>1, <1>3 DEF Up, Down, One
<1> QED
  BY <1>1, <1>2, <1>3, <1>4, <1>7, Zenon DEF Typed

\* A frame has NTiles tiles, and at least one.
LEMMA TilesFact ==
  /\ IsFiniteSet(Tiles) /\ Cardinality(Tiles) = NTiles
  /\ 0 \in Tiles /\ NTiles \in Nat /\ NTiles >= 1
<1>1. NTiles \in Nat /\ NTiles >= 1
  BY ConstantsAssumption DEF ConstantsAssumption
<1>2. 0 \in Tiles /\ 0 \in Int /\ NTiles - 1 \in Int
  BY <1>1 DEF Tiles
<1>3. IsFiniteSet(Tiles) /\ Cardinality(Tiles) = IF 0 > NTiles - 1 THEN 0 ELSE (NTiles - 1) - 0 + 1
  BY <1>2, FS_Interval DEF Tiles
<1> QED
  BY <1>1, <1>2, <1>3

\* A set of tiles is all of them when it has NTiles elements, and a larger one has
\* as many elements or more.
LEMMA SomeTiles ==
  ASSUME NEW S \in SUBSET Tiles
  PROVE  /\ IsFiniteSet(S) /\ Cardinality(S) \in Nat /\ Cardinality(S) <= NTiles
         /\ Cardinality(S) >= NTiles => S = Tiles
         /\ \A R \in SUBSET S : Cardinality(R) \in Nat /\ Cardinality(R) <= Cardinality(S)
<1>1. IsFiniteSet(S) /\ Cardinality(S) <= NTiles /\ (NTiles = Cardinality(S) => Tiles = S)
  BY TilesFact, FS_Subset
<1>2. Cardinality(S) \in Nat
  BY <1>1, FS_CardinalityType
<1>3. ASSUME NEW R \in SUBSET S PROVE Cardinality(R) \in Nat /\ Cardinality(R) <= Cardinality(S)
  BY <1>1, FS_Subset, FS_CardinalityType
<1> QED
  BY <1>1, <1>2, <1>3, TilesFact

\* What keeps the counting of frames and tiles: every place keeps its frame or
\* passes it on, a tile may leave the pipeline, and no detection of an unfinished
\* frame goes away.
LEMMA StillPlaces ==
  ASSUME TypeOK, TypeOK', OnePlace, Started, Counted,
         \A f \in Frames : /\ Up(f)' = Up(f)
                           /\ Down(f)' + One(f \in done)' <= Down(f) + One(f \in done),
         \A f \in Frames, k \in Tiles : Tile(f, k)' <= Tile(f, k),
         got' = got, errored' = errored, dispatched' = dispatched, done \subseteq done',
         \A f \in Frames, k \in Tiles : <<f, k>> \in detFiles /\ f \notin done' => <<f, k>> \in detFiles'
  PROVE  OnePlace' /\ Started' /\ Counted'
<1>0. \A f \in Frames : /\ One(f \in done) \in Nat /\ One(f \in done)' \in Nat
                        /\ got[f] \in Nat
  BY DEF One, TypeOK, ClientOK
<1>t. \A f \in Frames : /\ Up(f) \in Nat /\ Down(f) \in Nat
                        /\ \A k \in Tiles : Tile(f, k) \in Nat
  BY PlaceTypes DEF PlacesTyped, Typed
<1>u. \A f \in Frames : /\ Up(f)' \in Nat /\ Down(f)' \in Nat
                        /\ \A k \in Tiles : Tile(f, k)' \in Nat
  <2>1. TypeOK'
    OBVIOUS
  <2>2. PlacesTyped'
    BY <2>1, PlaceTypes, PTL
  <2> QED
    BY <2>2 DEF PlacesTyped, Typed
<1>1. OnePlace'
  BY <1>0, <1>t, <1>u DEF OnePlace
<1>2. Started'
  BY DEF Started
<1>3. Counted'
  <2> SUFFICES ASSUME NEW f \in Frames
               PROVE  /\ got[f] <= Cardinality(Closed(f)')
                      /\ f \notin errored \cup done' => got[f] <= Cardinality(Detected(f)')
    BY DEF Counted
  <2>1. Closed(f) \subseteq Closed(f)' /\ Closed(f)' \subseteq Tiles
    BY <1>t, <1>u DEF Closed
  <2>2. Cardinality(Closed(f)) <= Cardinality(Closed(f)') /\ Cardinality(Closed(f)) \in Nat
        /\ Cardinality(Closed(f)') \in Nat
    BY <2>1, SomeTiles
  <2>3. ASSUME f \notin errored \cup done'
        PROVE  /\ Cardinality(Detected(f)) <= Cardinality(Detected(f)')
               /\ Cardinality(Detected(f)) \in Nat /\ Cardinality(Detected(f)') \in Nat
    <3>1. Detected(f) \subseteq Detected(f)' /\ Detected(f)' \subseteq Tiles
      BY <2>1, <2>3 DEF Detected
    <3> QED
      BY <3>1, SomeTiles
  <2> QED
    BY <1>0, <2>2, <2>3 DEF Counted
<1> QED
  BY <1>1, <1>2, <1>3

\* In one place at most, for a frame that is in a given one.
LEMMA Only ==
  ASSUME TypeOK, OnePlace, NEW f \in Frames
  PROVE  /\ Up(f) >= 1 => /\ Up(f) = 1 /\ Down(f) = 0 /\ f \notin done
                          /\ \A k \in Tiles : Tile(f, k) = 0
         /\ Down(f) >= 1 => /\ Down(f) = 1 /\ Up(f) = 0 /\ f \notin done
                            /\ \A k \in Tiles : Tile(f, k) = 0
         /\ f \in done => Up(f) = 0 /\ Down(f) = 0 /\ \A k \in Tiles : Tile(f, k) = 0
         /\ \A k \in Tiles : Tile(f, k) >= 1 =>
                /\ Tile(f, k) = 1 /\ Up(f) = 0 /\ Down(f) = 0 /\ f \notin done
<1>1. /\ Up(f) \in Nat /\ Down(f) \in Nat /\ \A k \in Tiles : Tile(f, k) \in Nat
      /\ \A k \in Tiles : Up(f) + Tile(f, k) + Down(f) + One(f \in done) <= 1
      /\ 0 \in Tiles
  BY PlaceTypes, TilesFact DEF PlacesTyped, Typed, OnePlace
<1>2. f \in done => One(f \in done) = 1
  BY DEF One
<1>3. One(f \in done) \in Nat /\ (One(f \in done) = 0 => f \notin done)
  BY DEF One
<1> QED
  BY <1>1, <1>2, <1>3

\* No place changes.
SamePlaces == \A f \in Frames : /\ Up(f)' = Up(f) /\ Down(f)' = Down(f)
                                /\ \A k \in Tiles : Tile(f, k)' = Tile(f, k)

\* A step that changes no place, or adds to what is on the bus.
LEMMA SameStill ==
  ASSUME TypeOK, TypeOK', OnePlace, Started, Counted, SamePlaces,
         got' = got, errored' = errored, dispatched' = dispatched, done' = done,
         \A f \in Frames, k \in Tiles : <<f, k>> \in detFiles /\ f \notin done => <<f, k>> \in detFiles'
  PROVE  OnePlace' /\ Started' /\ Counted'
<1>1. \A f \in Frames : /\ One(f \in done)' = One(f \in done)
                        /\ Down(f) \in Nat /\ One(f \in done) \in Nat
                        /\ \A k \in Tiles : Tile(f, k) \in Nat
  BY PlaceTypes DEF One, PlacesTyped, Typed
<1>2. \A f \in Frames : /\ Up(f)' = Up(f)
                        /\ Down(f)' + One(f \in done)' <= Down(f) + One(f \in done)
  BY <1>1 DEF SamePlaces
<1>3. \A f \in Frames, k \in Tiles : Tile(f, k)' <= Tile(f, k)
  BY <1>1 DEF SamePlaces
<1> QED
  BY <1>2, <1>3, StillPlaces

\* Thread t does not come to, or leave, a label at which it has work in hand.
Steady(t) == \A label \in {"submit", "dump", "mark"} : pc'[t] = label <=> pc[t] = label

placeVars == <<next, tile, arg, bad, segVars, infVars, stitchVars,
               got, errored, dispatched, done, segFiles, detFiles>>

\* A step that only moves threads between other labels changes no place.
LEMMA QuietPlaces ==
  ASSUME TypeOK, TypeOK', Places, UNCHANGED placeVars, \A t \in Fetchers : Steady(t)
  PROVE  Places' /\ SamePlaces
<1>1. /\ next' = next /\ tile' = tile /\ arg' = arg /\ bad' = bad
      /\ segTasks' = segTasks /\ segOut' = segOut /\ infTasks' = infTasks /\ infOut' = infOut
      /\ stitchTasks' = stitchTasks /\ stitchOut' = stitchOut
      /\ got' = got /\ errored' = errored /\ dispatched' = dispatched /\ done' = done
      /\ segFiles' = segFiles /\ detFiles' = detFiles
  BY DEF placeVars, segVars, infVars, stitchVars
<1>2. \A t \in Fetchers, f \in Frames, label \in {"submit", "dump", "mark"} :
          Has(t, label, f)' <=> Has(t, label, f)
  BY <1>1 DEF Has, Steady
<1>3. SamePlaces
  <2>1. \A f \in Frames : Up(f)' = Up(f)
    BY <1>1 DEF Up, Answers
  <2>2. \A f \in Frames : Down(f)' = Down(f)
    BY <1>1, <1>2 DEF Down, Answers, Fetchers, One
  <2>3. \A f \in Frames, k \in Tiles : Tile(f, k)' = Tile(f, k)
    BY <1>1, <1>2 DEF Tile, TileAnswers, Fetchers, One
  <2> QED
    BY <2>1, <2>2, <2>3 DEF SamePlaces
<1>4. OnePlace' /\ Started' /\ Counted'
  BY <1>1, <1>3, SameStill DEF Places
<1>5. Files'
  <2>1. \A f \in Frames : Has("seg_fetch", "submit", f)' <=> Has("seg_fetch", "submit", f)
    BY <1>2 DEF Fetchers
  <2>2. ASSUME NEW f \in Frames, NEW k \in Tiles, Filed(f, k) PROVE Filed(f, k)'
    BY <1>1, <2>1, <2>2 DEF Filed
  <2> QED
    BY <2>2 DEF Places, Files
<1>6. Ready'
  <2>1. \A f \in Frames : /\ Has("inf_fetch", "submit", f)' <=> Has("inf_fetch", "submit", f)
                          /\ Has("inf_fetch", "mark", f)' <=> Has("inf_fetch", "mark", f)
    BY <1>2 DEF Fetchers
  <2>2. ASSUME NEW f \in Frames, Prepared(f) PROVE Prepared(f)'
    BY <1>1, <2>1, <2>2 DEF Prepared, AllDetections
  <2> QED
    BY <2>2 DEF Places, Ready
<1>7. Dispatched'
  BY <1>1, <1>2 DEF Places, Dispatched, Stitching, Answers, Fetchers
<1>8. Verdicts'
  <2>1. /\ \A t \in {"seg_fetch", "inf_fetch"} : pc'[t] = "mark" <=> pc[t] = "mark"
        /\ pc'["stitch_fetch"] = "dump" <=> pc["stitch_fetch"] = "dump"
    BY DEF Steady, Fetchers
  <2> QED
    BY <1>1, <2>1, Zenon DEF Places, Verdicts
<1> QED
  BY <1>3, <1>4, <1>5, <1>6, <1>7, <1>8 DEF Places

\* What a fetch thread may have in hand.
HandsFixed == \A t \in Fetchers, label \in {"submit", "dump", "mark"}, f \in Frames :
                 Has(t, label, f)' <=> Has(t, label, f)

\* What it may have in hand of a frame on its way to _finish.
DownHands == \A t \in Fetchers, label \in {"submit", "dump", "mark"}, f \in Frames :
                (t = "seg_fetch" => label # "submit") => (Has(t, label, f)' <=> Has(t, label, f))

\* A step of another thread, or of a service, leaves every hand as it is.
LEMMA HandsKept ==
  ASSUME arg' = arg, \A t \in Fetchers : pc'[t] = pc[t]
  PROVE  HandsFixed /\ DownHands
  BY DEF HandsFixed, DownHands, Has

\* Without a change in a stage, what it holds of each frame is the same.
LEMMA UpKept ==
  ASSUME next' = next, segTasks' = segTasks, segOut' = segOut
  PROVE  \A f \in Frames : Up(f)' = Up(f)
  BY DEF Up, Answers

LEMMA TileKept ==
  ASSUME infTasks' = infTasks, infOut' = infOut, tile' = tile,
         \A f \in Frames : Has("seg_fetch", "submit", f)' <=> Has("seg_fetch", "submit", f)
  PROVE  \A f \in Frames, k \in Tiles : Tile(f, k)' = Tile(f, k)
  BY DEF Tile, TileAnswers, One

LEMMA DownKept ==
  ASSUME stitchTasks' = stitchTasks, stitchOut' = stitchOut, DownHands
  PROVE  \A f \in Frames : Down(f)' = Down(f)
  BY DEF Down, Answers, One, DownHands, Fetchers

\* No file that a stage waits for goes away.
LEMMA FilesKept ==
  ASSUME Files, segFiles \subseteq segFiles', detFiles \subseteq detFiles',
         segOut' = segOut, infTasks' = infTasks, infOut' = infOut, tile' = tile,
         \A f \in Frames : Has("seg_fetch", "submit", f)' <=> Has("seg_fetch", "submit", f)
  PROVE  Files'
<1>1. ASSUME NEW f \in Frames, NEW k \in Tiles, Filed(f, k) PROVE Filed(f, k)'
  BY <1>1 DEF Filed
<1> QED
  BY <1>1 DEF Files

LEMMA ReadyKept ==
  ASSUME Ready, detFiles \subseteq detFiles', stitchTasks' = stitchTasks, errored \subseteq errored',
         DownHands
  PROVE  Ready'
<1>1. \A f \in Frames : /\ Has("inf_fetch", "submit", f)' <=> Has("inf_fetch", "submit", f)
                        /\ Has("inf_fetch", "mark", f)' <=> Has("inf_fetch", "mark", f)
  BY DEF DownHands, Fetchers
<1>2. ASSUME NEW f \in Frames, Prepared(f) PROVE Prepared(f)'
  BY <1>1, <1>2 DEF Prepared, AllDetections
<1> QED
  BY <1>2 DEF Ready

LEMMA DispatchedKept ==
  ASSUME Dispatched, stitchTasks' = stitchTasks, stitchOut' = stitchOut,
         dispatched \subseteq dispatched', DownHands
  PROVE  Dispatched'
<1>1. \A f \in Frames : Stitching(f)' <=> Stitching(f)
  BY DEF Stitching, Answers, DownHands, Fetchers
<1> QED
  BY <1>1 DEF Dispatched

\* A frame that is sent becomes a segment task.
LEMMA SendSegmentPlaces ==
  ASSUME IInv, IInv', Places, SendSegment
  PROVE  Places' /\ SamePlaces
<1>0. TypeOK /\ TypeOK' /\ ThreadsOK /\ SoamOK /\ Control /\ OnePlace /\ Started /\ Counted
      /\ Files /\ Ready /\ Dispatched /\ Verdicts
  BY DEF IInv, TypeOK, Places
<1>1. /\ arg' = arg /\ bad' = bad /\ tile' = tile /\ segOut' = segOut
      /\ infTasks' = infTasks /\ infOut' = infOut
      /\ stitchTasks' = stitchTasks /\ stitchOut' = stitchOut
      /\ got' = got /\ errored' = errored /\ dispatched' = dispatched /\ done' = done
      /\ segFiles' = segFiles /\ detFiles' = detFiles
  BY DEF SendSegment, infVars, stitchVars, frameVars, busVars
<1>2. \A t \in Fetchers : pc'[t] = pc[t]
  BY <1>0 DEF SendSegment, At, Goto, ThreadsOK, Threads, Fetchers
<1>3. HandsFixed /\ DownHands /\ Verdicts'
  BY <1>0, <1>1, <1>2, HandsKept DEF Verdicts, Fetchers
<1>4. \A f \in Frames : Has("seg_fetch", "submit", f)' <=> Has("seg_fetch", "submit", f)
  BY <1>3 DEF HandsFixed, Fetchers
<1>5. \A f \in Frames : Up(f)' = Up(f)
  <2>1. CASE UNCHANGED <<next, segTasks>>
    BY <1>1, <2>1, UpKept
  <2>2. CASE next' = next + 1 /\ segTasks' = Put(segTasks, next + 1)
    <3>1. next \in Nat /\ next + 1 \in Frames
      BY <1>0, ConstantsAssumption DEF SendSegment, At, Control, ThreadsOK, Frames,
                                       ConstantsAssumption
    <3>2. \A f \in Frames : segTasks'[f] = IF f = next + 1 THEN segTasks[f] + 1 ELSE segTasks[f]
      BY <1>0, <2>2, <3>1 DEF SoamOK, Put
    <3>3. ASSUME NEW f \in Frames PROVE Up(f)' = Up(f)
      <4>1. f \in Nat /\ segTasks[f] \in Nat /\ Answers(segOut, f) \in Nat
        BY <1>0, PlaceTypes DEF PlacesTyped, Typed, Frames
      <4>2. One(f > next)' + segTasks'[f] = One(f > next) + segTasks[f]
        BY <2>2, <3>1, <3>2, <4>1 DEF One
      <4>3. Answers(segOut, f)' = Answers(segOut, f)
        BY <1>1 DEF Answers
      <4> QED
        BY <4>1, <4>2, <4>3 DEF Up
    <3> QED
      BY <3>3
  <2> QED
    BY <2>1, <2>2 DEF SendSegment
<1>6. SamePlaces
  BY <1>1, <1>3, <1>4, <1>5, TileKept, DownKept DEF SamePlaces
<1>7. OnePlace' /\ Started' /\ Counted'
  BY <1>0, <1>1, <1>6, SameStill
<1>8. Files' /\ Ready' /\ Dispatched'
  BY <1>0, <1>1, <1>3, <1>4, FilesKept, ReadyKept, DispatchedKept
<1> QED
  BY <1>3, <1>6, <1>7, <1>8 DEF Places

\* A frame that a thread has in hand is on its way to _finish, and nowhere else.
LEMMA InHand ==
  ASSUME TypeOK, OnePlace, NEW t \in Fetchers, NEW f \in Frames, NEW label \in {"submit", "dump", "mark"},
         Has(t, label, f), t = "seg_fetch" => label = "mark",
         t = "inf_fetch" => label # "dump", t = "stitch_fetch" => label # "submit"
  PROVE  /\ Down(f) = 1 /\ Up(f) = 0 /\ f \notin done /\ \A k \in Tiles : Tile(f, k) = 0
         /\ \A u \in Fetchers, l \in {"submit", "dump", "mark"} :
               /\ u = "seg_fetch" => l = "mark"
               /\ u = "inf_fetch" => l # "dump"
               /\ u = "stitch_fetch" => l # "submit"
               /\ Has(u, l, f)
               => u = t /\ l = label
         /\ stitchTasks[f] = 0 /\ Answers(stitchOut, f) = 0
<1>1. stitchTasks[f] \in Nat /\ Answers(stitchOut, f) \in Nat /\ Down(f) \in Nat
  BY PlaceTypes DEF PlacesTyped, Typed
<1>2. Down(f) >= 1
  <2>1. \/ Has("inf_fetch", "submit", f) \/ Has("stitch_fetch", "dump", f)
        \/ Has("stitch_fetch", "mark", f) \/ Has("inf_fetch", "mark", f)
        \/ Has("seg_fetch", "mark", f)
    BY DEF Fetchers
  <2> QED
    BY <1>1, <2>1 DEF Down, One
<1>3. Down(f) = 1 /\ Up(f) = 0 /\ f \notin done /\ \A k \in Tiles : Tile(f, k) = 0
  BY <1>2, Only
<1>4. stitchTasks[f] = 0 /\ Answers(stitchOut, f) = 0
  BY <1>1, <1>3 DEF Down, One, Fetchers
<1>5. ASSUME NEW u \in Fetchers, NEW l \in {"submit", "dump", "mark"}, Has(u, l, f),
             u = "seg_fetch" => l = "mark", u = "inf_fetch" => l # "dump",
             u = "stitch_fetch" => l # "submit"
      PROVE  u = t /\ l = label
  <2>1. CASE u = t
    BY <1>5, <2>1 DEF Has
  <2>2. CASE u # t
    BY <1>1, <1>3, <1>5, <2>2 DEF Down, One, Fetchers
  <2> QED
    BY <2>1, <2>2
<1> QED
  BY <1>3, <1>4, <1>5

\* _finish takes each frame once, so its guard never holds it back; it counts an
\* answer without an id too.
LEMMA MarkFact ==
  ASSUME IInv, Places, NEW t \in Fetchers, Mark(t)
  PROVE  /\ pc[t] = "mark" /\ pc'[t] = "clean"
         /\ \A u \in Threads : u # t => pc'[u] = pc[u]
         /\ arg[t] \in Frames \cup {NoId} /\ arg[t] \notin done
         /\ done' = done \cup ({arg[t]} \cap Frames)
         /\ imgDone' = imgDone + 1 /\ imgErr' = (IF bad[t] THEN imgErr + 1 ELSE imgErr)
         /\ doneEvt' = (doneEvt \/ imgDone + 1 >= Count)
<1>0. ThreadsOK /\ ClientOK /\ Control /\ Enrolled /\ Fresh /\ TypeOK /\ OnePlace
  BY DEF IInv, TypeOK, Places
<1>1. pc[t] = "mark" /\ arg[t] \in Frames \cup {NoId}
  BY <1>0 DEF Mark, At, ThreadsOK
<1>2. arg[t] \notin done
  <2>1. CASE arg[t] = NoId
    BY <1>0, <2>1 DEF ClientOK, Frames, NoId
  <2>2. CASE arg[t] \in Frames
    <3>1. Has(t, "mark", arg[t])
      BY <1>1 DEF Has
    <3> QED
      BY <1>0, <2>2, <3>1, InHand
  <2> QED
    BY <1>1, <2>1, <2>2
<1>3. {arg[t]} \cap known = {arg[t]} \cap Frames
  <2>1. arg[t] = NoId \/ arg[t] \in known
    BY <1>0, ArgKnown
  <2>2. known \subseteq Frames /\ NoId \notin Frames
    BY <1>0 DEF ClientOK, Frames, NoId
  <2> QED
    BY <2>1, <2>2
<1>4. /\ pc' = [pc EXCEPT ![t] = "clean"]
      /\ done' = done \cup ({arg[t]} \cap Frames)
      /\ imgDone' = imgDone + 1 /\ imgErr' = (IF bad[t] THEN imgErr + 1 ELSE imgErr)
      /\ doneEvt' = (doneEvt \/ imgDone + 1 >= Count)
  BY <1>2, <1>3, Zenon DEF Mark, AlreadyDone, LastFrame, Goto
<1>5. t \in Threads /\ pc \in [Threads -> Labels]
  BY <1>0 DEF ThreadsOK, Threads
<1> QED
  BY <1>1, <1>2, <1>4, <1>5

\* The frame goes from the thread's hand to "done".
LEMMA MarkPlaces ==
  ASSUME IInv, IInv', Places, NEW t \in Fetchers, Mark(t)
  PROVE  /\ Places'
         /\ \A f \in Frames : /\ Up(f)' = Up(f)
                              /\ Down(f)' = (IF f = arg[t] THEN 0 ELSE Down(f))
                              /\ \A k \in Tiles : Tile(f, k)' = Tile(f, k)
<1>0. TypeOK /\ TypeOK' /\ ThreadsOK /\ SoamOK /\ Control /\ OnePlace /\ Started /\ Counted
      /\ Files /\ Ready /\ Dispatched /\ Verdicts
  BY DEF IInv, TypeOK, Places
<1>1. /\ arg' = arg /\ bad' = bad /\ tile' = tile /\ next' = next
      /\ segTasks' = segTasks /\ segOut' = segOut
      /\ infTasks' = infTasks /\ infOut' = infOut
      /\ stitchTasks' = stitchTasks /\ stitchOut' = stitchOut
      /\ got' = got /\ errored' = errored /\ dispatched' = dispatched
      /\ segFiles' = segFiles /\ detFiles' = detFiles
  BY DEF Mark, localVars, soamVars, segVars, infVars, stitchVars, busVars
<1>2. /\ pc[t] = "mark" /\ pc'[t] = "clean"
      /\ \A u \in Fetchers : u # t => pc'[u] = pc[u]
      /\ done' = done \cup ({arg[t]} \cap Frames)
  BY MarkFact DEF Threads
<1>3. \A u \in Fetchers, label \in {"submit", "dump", "mark"}, f \in Frames :
          Has(u, label, f)' <=> Has(u, label, f) /\ ~(u = t /\ label = "mark")
  BY <1>1, <1>2 DEF Has
<1>4. \A f \in Frames : Has("seg_fetch", "submit", f)' <=> Has("seg_fetch", "submit", f)
  BY <1>3 DEF Fetchers
<1>5. (\A f \in Frames : Up(f)' = Up(f)) /\ (\A f \in Frames, k \in Tiles : Tile(f, k)' = Tile(f, k))
  BY <1>1, <1>4, UpKept, TileKept
<1>6. ASSUME NEW f \in Frames PROVE Down(f)' = IF f = arg[t] THEN 0 ELSE Down(f)
  <2>1. stitchTasks'[f] = stitchTasks[f] /\ Answers(stitchOut, f)' = Answers(stitchOut, f)
    BY <1>1 DEF Answers
  <2>2. CASE f # arg[t]
    <3>1. \A u \in Fetchers, label \in {"submit", "dump", "mark"} : Has(u, label, f)' <=> Has(u, label, f)
      BY <1>3, <2>2 DEF Has
    <3> QED
      BY <2>1, <2>2, <3>1 DEF Down, One, Fetchers
  <2>3. CASE f = arg[t]
    <3>1. Has(t, "mark", f)
      BY <1>2, <2>3 DEF Has
    <3>2. /\ stitchTasks[f] = 0 /\ Answers(stitchOut, f) = 0
          /\ \A u \in Fetchers, l \in {"submit", "dump", "mark"} :
               /\ u = "seg_fetch" => l = "mark"
               /\ u = "inf_fetch" => l # "dump"
               /\ u = "stitch_fetch" => l # "submit"
               /\ Has(u, l, f)
               => u = t /\ l = "mark"
      BY <1>0, <3>1, InHand
    <3>3. /\ ~Has("inf_fetch", "submit", f)' /\ ~Has("stitch_fetch", "dump", f)'
          /\ ~Has("stitch_fetch", "mark", f)' /\ ~Has("inf_fetch", "mark", f)'
          /\ ~Has("seg_fetch", "mark", f)'
      BY <1>3, <3>2 DEF Fetchers
    <3> QED
      BY <2>1, <2>3, <3>2, <3>3 DEF Down, One
  <2> QED
    BY <2>2, <2>3
<1>7. OnePlace' /\ Started' /\ Counted'
  <2>1. ASSUME NEW f \in Frames PROVE Down(f)' + One(f \in done)' <= Down(f) + One(f \in done)
    <3>1. Down(f) \in Nat
      BY <1>0, PlaceTypes DEF PlacesTyped, Typed
    <3>2. CASE f = arg[t]
      <4>1. Has(t, "mark", f)
        BY <1>2, <3>2 DEF Has
      <4>2. Down(f) = 1
        BY <1>0, <4>1, InHand
      <4> QED
        BY <1>6, <3>2, <4>2 DEF One
    <3>3. CASE f # arg[t]
      <4>1. f \in done' <=> f \in done
        BY <1>2, <3>3
      <4> QED
        BY <1>6, <3>1, <3>3, <4>1 DEF One
    <3> QED
      BY <3>2, <3>3
  <2>2. \A f \in Frames, k \in Tiles : Tile(f, k) \in Nat
    BY <1>0, PlaceTypes DEF PlacesTyped, Typed
  <2>3. \A f \in Frames, k \in Tiles : Tile(f, k)' <= Tile(f, k)
    BY <1>5, <2>2
  <2> QED
    BY <1>0, <1>1, <1>2, <1>5, <2>1, <2>3, StillPlaces
<1>8. Files'
  BY <1>0, <1>1, <1>4, FilesKept
<1>9. Ready' /\ Dispatched' /\ Verdicts'
  <2>1. \A f \in Frames : /\ Has("inf_fetch", "submit", f)' => Has("inf_fetch", "submit", f)
                          /\ Has("inf_fetch", "mark", f)' => Has("inf_fetch", "mark", f)
                          /\ Has("stitch_fetch", "dump", f)' => Has("stitch_fetch", "dump", f)
                          /\ Has("stitch_fetch", "mark", f)' => Has("stitch_fetch", "mark", f)
    BY <1>3 DEF Fetchers
  <2>2. ASSUME NEW f \in Frames, Prepared(f) PROVE Prepared(f)'
    BY <1>1, <2>1, <2>2 DEF Prepared, AllDetections
  <2>3. ASSUME NEW f \in Frames, Stitching(f)' PROVE Stitching(f)
    BY <1>1, <2>1, <2>3 DEF Stitching, Answers
  <2>4. /\ \A u \in {"seg_fetch", "inf_fetch"} : pc'[u] = "mark" => pc[u] = "mark"
        /\ pc'["stitch_fetch"] = "dump" => pc["stitch_fetch"] = "dump"
    BY <1>2 DEF Fetchers
  <2>5. Verdicts'
    BY <1>0, <1>1, <2>4, Zenon DEF Verdicts
  <2> QED
    BY <1>0, <1>1, <2>2, <2>3, <2>5 DEF Ready, Dispatched
<1> QED
  BY <1>5, <1>6, <1>7, <1>8, <1>9 DEF Places

\* What it means that a frame or a tile is not in a part of the pipeline.
LEMMA Absent ==
  ASSUME TypeOK, NEW f \in Frames
  PROVE  /\ Up(f) = 0 => /\ f <= next /\ segTasks[f] = 0 /\ Answers(segOut, f) = 0
                         /\ \A kind \in Kinds : segOut[<<f, kind>>] = 0
         /\ Down(f) = 0 => /\ ~Stitching(f) /\ stitchTasks[f] = 0 /\ Answers(stitchOut, f) = 0
                           /\ ~Has("inf_fetch", "mark", f) /\ ~Has("seg_fetch", "mark", f)
                           /\ \A kind \in Kinds : stitchOut[<<f, kind>>] = 0
         /\ \A k \in Tiles : Tile(f, k) = 0 =>
               /\ ~(Has("seg_fetch", "submit", f) /\ k >= tile)
               /\ infTasks[<<f, k>>] = 0 /\ TileAnswers(infOut, f, k) = 0
               /\ \A kind \in Kinds : infOut[<<f, k, kind>>] = 0
<1>1. /\ segTasks[f] \in Nat /\ stitchTasks[f] \in Nat
      /\ Answers(segOut, f) \in Nat /\ Answers(stitchOut, f) \in Nat
      /\ next \in Nat /\ f \in Nat
  BY PlaceTypes, ConstantsAssumption
     DEF PlacesTyped, Typed, TypeOK, ThreadsOK, Frames, ConstantsAssumption
<1>2. /\ segOut[<<f, "ok">>] \in Nat /\ segOut[<<f, "err">>] \in Nat /\ segOut[<<f, "failed">>] \in Nat
      /\ stitchOut[<<f, "ok">>] \in Nat /\ stitchOut[<<f, "err">>] \in Nat
      /\ stitchOut[<<f, "failed">>] \in Nat
  BY PlaceTypes DEF PlacesTyped, Typed, Kinds
<1>3. ASSUME Up(f) = 0
      PROVE  /\ f <= next /\ segTasks[f] = 0 /\ Answers(segOut, f) = 0
             /\ \A kind \in Kinds : segOut[<<f, kind>>] = 0
  <2>1. f <= next /\ segTasks[f] = 0 /\ Answers(segOut, f) = 0
    BY <1>1, <1>3 DEF Up, One
  <2>2. segOut[<<f, "ok">>] = 0 /\ segOut[<<f, "err">>] = 0 /\ segOut[<<f, "failed">>] = 0
    BY <1>2, <2>1 DEF Answers
  <2> QED
    BY <2>1, <2>2 DEF Kinds
<1>4. ASSUME Down(f) = 0
      PROVE  /\ ~Stitching(f) /\ stitchTasks[f] = 0 /\ Answers(stitchOut, f) = 0
             /\ ~Has("inf_fetch", "mark", f) /\ ~Has("seg_fetch", "mark", f)
             /\ \A kind \in Kinds : stitchOut[<<f, kind>>] = 0
  <2>a. /\ stitchTasks[f] = 0 /\ Answers(stitchOut, f) = 0
        /\ ~Has("inf_fetch", "submit", f) /\ ~Has("stitch_fetch", "dump", f)
        /\ ~Has("stitch_fetch", "mark", f)
        /\ ~Has("inf_fetch", "mark", f) /\ ~Has("seg_fetch", "mark", f)
    BY <1>1, <1>4 DEF Down, One
  <2>1. /\ ~Stitching(f) /\ stitchTasks[f] = 0 /\ Answers(stitchOut, f) = 0
        /\ ~Has("inf_fetch", "mark", f) /\ ~Has("seg_fetch", "mark", f)
    BY <2>a DEF Stitching
  <2>2. stitchOut[<<f, "ok">>] = 0 /\ stitchOut[<<f, "err">>] = 0 /\ stitchOut[<<f, "failed">>] = 0
    BY <1>2, <2>1 DEF Answers
  <2> QED
    BY <2>1, <2>2 DEF Kinds
<1>5. ASSUME NEW k \in Tiles, Tile(f, k) = 0
      PROVE  /\ ~(Has("seg_fetch", "submit", f) /\ k >= tile)
             /\ infTasks[<<f, k>>] = 0 /\ TileAnswers(infOut, f, k) = 0
             /\ \A kind \in Kinds : infOut[<<f, k, kind>>] = 0
  <2>1. /\ infTasks[<<f, k>>] \in Nat /\ TileAnswers(infOut, f, k) \in Nat
        /\ infOut[<<f, k, "ok">>] \in Nat /\ infOut[<<f, k, "err">>] \in Nat
        /\ infOut[<<f, k, "failed">>] \in Nat
    BY PlaceTypes DEF PlacesTyped, Typed, Kinds
  <2>2. /\ ~(Has("seg_fetch", "submit", f) /\ k >= tile)
        /\ infTasks[<<f, k>>] = 0 /\ TileAnswers(infOut, f, k) = 0
    BY <1>5, <2>1 DEF Tile, One
  <2>3. infOut[<<f, k, "ok">>] = 0 /\ infOut[<<f, k, "err">>] = 0 /\ infOut[<<f, k, "failed">>] = 0
    BY <2>1, <2>2 DEF TileAnswers
  <2> QED
    BY <2>2, <2>3 DEF Kinds
<1> QED
  BY <1>3, <1>4, <1>5

\* _finish removes the files of a frame that no stage will open again.
LEMMA CleanPlaces ==
  ASSUME IInv, IInv', Places, NEW t \in Fetchers, Clean(t)
  PROVE  Places' /\ SamePlaces
<1>0. TypeOK /\ TypeOK' /\ ThreadsOK /\ SoamOK /\ Control /\ FinishOnce /\ OnePlace /\ Started
      /\ Counted /\ Files /\ Ready /\ Dispatched /\ Verdicts
  BY DEF IInv, TypeOK, Places
<1>1. /\ arg' = arg /\ bad' = bad /\ tile' = tile /\ next' = next
      /\ segTasks' = segTasks /\ segOut' = segOut
      /\ infTasks' = infTasks /\ infOut' = infOut
      /\ stitchTasks' = stitchTasks /\ stitchOut' = stitchOut
      /\ got' = got /\ errored' = errored /\ dispatched' = dispatched /\ done' = done
  BY DEF Clean, localVars, frameVars, soamVars, segVars, infVars, stitchVars
<1>2. /\ pc[t] = "clean" /\ pc'[t] \in {"dead", "release"}
      /\ \A u \in Fetchers : u # t => pc'[u] = pc[u]
  BY <1>0 DEF Clean, At, Goto, ThreadsOK, Threads
<1>3. \A u \in Fetchers : Steady(u)
  BY <1>2 DEF Steady
<1>4. CASE arg[t] = NoId
  <2>1. segFiles' = segFiles /\ detFiles' = detFiles
    BY <1>4 DEF Clean, busVars
  <2> QED
    BY <1>0, <1>1, <1>3, <2>1, QuietPlaces DEF placeVars, segVars, infVars, stitchVars
<1>5. CASE arg[t] # NoId
  <2>1. arg[t] \in Frames /\ arg[t] \in done
    BY <1>0, <1>2, <1>5 DEF ThreadsOK, FinishOnce, Finishing
  <2>2. /\ segFiles' = {s \in segFiles : s[1] # arg[t]}
        /\ detFiles' = {d \in detFiles : d[1] # arg[t]}
    BY <1>5 DEF Clean, RemoveBus
  <2>3. /\ Up(arg[t]) = 0 /\ Down(arg[t]) = 0 /\ \A k \in Tiles : Tile(arg[t], k) = 0
    BY <1>0, <2>1, Only
  <2>4. HandsFixed /\ DownHands
    BY <1>1, <1>3 DEF HandsFixed, DownHands, Has, Steady
  <2>5. \A f \in Frames : Has("seg_fetch", "submit", f)' <=> Has("seg_fetch", "submit", f)
    BY <2>4 DEF HandsFixed, Fetchers
  <2>6. SamePlaces
    BY <1>1, <2>4, <2>5, UpKept, TileKept, DownKept DEF SamePlaces
  <2>7. \A f \in Frames, k \in Tiles : f # arg[t] =>
            /\ <<f, k>> \in segFiles' <=> <<f, k>> \in segFiles
            /\ <<f, k>> \in detFiles' <=> <<f, k>> \in detFiles
    BY <2>2
  <2>8. OnePlace' /\ Started' /\ Counted'
    <3>1. \A f \in Frames, k \in Tiles : <<f, k>> \in detFiles /\ f \notin done => <<f, k>> \in detFiles'
      BY <2>1, <2>7
    <3> QED
      BY <1>0, <1>1, <2>6, <3>1, SameStill
  <2>9. Files'
    <3>1. ASSUME NEW f \in Frames, NEW k \in Tiles, Filed(f, k) PROVE Filed(f, k)'
      <4>1. CASE f # arg[t]
        BY <1>1, <2>5, <2>7, <3>1, <4>1 DEF Filed
      <4>2. CASE f = arg[t]
        <5>1. /\ segOut[<<f, "ok">>] = 0 /\ infTasks[<<f, k>>] = 0 /\ infOut[<<f, k, "ok">>] = 0
              /\ ~(Has("seg_fetch", "submit", f) /\ k >= tile)
          BY <1>0, <2>3, <4>2, Absent DEF Kinds
        <5> QED
          BY <1>1, <2>5, <5>1 DEF Filed
      <4> QED
        BY <4>1, <4>2
    <3> QED
      BY <1>0, <3>1 DEF Files
  <2>10. Ready'
    <3>1. \A f \in Frames : /\ Has("inf_fetch", "submit", f)' <=> Has("inf_fetch", "submit", f)
                            /\ Has("inf_fetch", "mark", f)' <=> Has("inf_fetch", "mark", f)
      BY <2>4 DEF HandsFixed, Fetchers
    <3>2. ASSUME NEW f \in Frames, Prepared(f) PROVE Prepared(f)'
      <4>1. CASE f # arg[t]
        BY <1>1, <2>7, <3>1, <3>2, <4>1 DEF Prepared, AllDetections
      <4>2. CASE f = arg[t]
        <5>1. stitchTasks[f] = 0 /\ ~Has("inf_fetch", "submit", f) /\ ~Has("inf_fetch", "mark", f)
          BY <1>0, <2>3, <4>2, Absent DEF Stitching
        <5> QED
          BY <1>1, <3>1, <5>1 DEF Prepared
      <4> QED
        BY <4>1, <4>2
    <3> QED
      BY <1>0, <3>2 DEF Ready
  <2>11. Dispatched'
    BY <1>0, <1>1, <2>4, DispatchedKept
  <2>12. Verdicts'
    <3>1. /\ \A u \in {"seg_fetch", "inf_fetch"} : pc'[u] = "mark" => pc[u] = "mark"
          /\ pc'["stitch_fetch"] = "dump" => pc["stitch_fetch"] = "dump"
      BY <1>3 DEF Steady, Fetchers
    <3> QED
      BY <1>0, <1>1, <3>1, Zenon DEF Verdicts
  <2> QED
    BY <2>6, <2>8, <2>9, <2>10, <2>11, <2>12 DEF Places
<1> QED
  BY <1>4, <1>5

\* seg_fetch takes a frame over: a success opens all its tiles, an error sends it
\* to _finish, and a failed task is never heard of again.
LEMMA SegTakePlaces ==
  ASSUME IInv, IInv', Places, NEW f \in Frames, NEW kind \in Kinds, SegTake(f, kind)
  PROVE  /\ Places'
         /\ Up(f) = 1 /\ Down(f) = 0 /\ \A k \in Tiles : Tile(f, k) = 0
         /\ Up(f)' = 0 /\ Down(f)' = One(kind = "err") /\ \A k \in Tiles : Tile(f, k)' = One(kind = "ok")
         /\ \A g \in Frames : g # f => /\ Up(g)' = Up(g) /\ Down(g)' = Down(g)
                                       /\ \A k \in Tiles : Tile(g, k)' = Tile(g, k)
<1>0. TypeOK /\ TypeOK' /\ ThreadsOK /\ ClientOK /\ SoamOK /\ Control /\ OnePlace /\ Started /\ Counted
      /\ Files /\ Ready /\ Dispatched /\ Verdicts
  BY DEF IInv, TypeOK, Places
<1>1. /\ next' = next /\ segTasks' = segTasks
      /\ infTasks' = infTasks /\ infOut' = infOut
      /\ stitchTasks' = stitchTasks /\ stitchOut' = stitchOut
      /\ got' = got /\ errored' = errored /\ dispatched' = dispatched /\ done' = done
      /\ segFiles' = segFiles /\ detFiles' = detFiles
  BY DEF SegTake, frameVars, infVars, stitchVars, busVars
<1>2. /\ pc["seg_fetch"] = "fetch" /\ tile' = 0
      /\ segOut[<<f, kind>>] > 0 /\ segOut' = Take(segOut, <<f, kind>>)
      /\ arg'["seg_fetch"] = ReplyId(f, kind) /\ bad'["seg_fetch"]
      /\ pc'["seg_fetch"] = (IF kind = "ok" THEN "submit" ELSE "mark")
      /\ \A t \in Fetchers : t # "seg_fetch" => pc'[t] = pc[t] /\ arg'[t] = arg[t] /\ bad'[t] = bad[t]
  BY <1>0 DEF SegTake, At, Goto, ThreadsOK, Threads, Fetchers
<1>3. /\ \A g \in Frames : Answers(segOut, g)' = IF g = f THEN Answers(segOut, g) - 1 ELSE Answers(segOut, g)
      /\ \A g \in Frames, j \in Kinds : segOut'[<<g, j>>]
                                  = IF g = f /\ j = kind THEN segOut[<<g, j>>] - 1 ELSE segOut[<<g, j>>]
  <2>1. segOut \in [Frames \X Kinds -> Nat] /\ segOut[<<f, kind>>] > 0
        /\ segOut' = Take(segOut, <<f, kind>>)
    BY <1>0, <1>2 DEF SoamOK
  <2>2. FewerAnswers(segOut, segOut', f, kind)
    BY <2>1, AnswersTake
  <2>3. \A g : Answers(segOut, g)' = Answers(segOut', g)
    BY DEF Answers
  <2> QED
    BY <2>2, <2>3 DEF FewerAnswers
<1>4. /\ Up(f) = 1 /\ Down(f) = 0 /\ f \notin done /\ \A k \in Tiles : Tile(f, k) = 0
      /\ got[f] = 0 /\ f \notin errored /\ f \notin dispatched
  <2>1. Up(f) \in Nat /\ segOut[<<f, kind>>] \in Nat
    BY <1>0, PlaceTypes DEF PlacesTyped, Typed
  <2>2. Up(f) >= 1
    BY <1>0, <1>2, <2>1, Absent
  <2>3. Up(f) = 1 /\ Down(f) = 0 /\ f \notin done /\ \A k \in Tiles : Tile(f, k) = 0
    BY <1>0, <2>2, Only
  <2> QED
    BY <1>0, <2>3 DEF Started
<1>5. /\ Up(f)' = 0
      /\ \A g \in Frames : g # f => Up(g)' = Up(g)
  <2>1. ASSUME NEW g \in Frames, g # f PROVE Up(g)' = Up(g)
    BY <1>1, <1>3, <2>1 DEF Up
  <2>2. Up(f)' = 0
    <3>1. segTasks[f] \in Nat /\ Answers(segOut, f) \in Nat
      BY <1>0, PlaceTypes DEF PlacesTyped, Typed
    <3>2. Up(f)' = Up(f) - 1
      BY <1>1, <1>3, <3>1 DEF Up, One
    <3> QED
      BY <1>4, <3>2
  <2> QED
    BY <2>1, <2>2
<1>6. /\ \A g \in Frames : Has("seg_fetch", "submit", g)' <=> g = f /\ kind = "ok"
      /\ \A g \in Frames : Has("seg_fetch", "mark", g)' <=> g = f /\ kind = "err"
      /\ \A g \in Frames : ~Has("seg_fetch", "submit", g) /\ ~Has("seg_fetch", "mark", g)
      /\ \A t \in Fetchers, l \in {"submit", "dump", "mark"}, g \in Frames :
             t # "seg_fetch" => (Has(t, l, g)' <=> Has(t, l, g))
  <2>1. ReplyId(f, kind) = IF kind = "failed" THEN NoId ELSE f
    BY DEF ReplyId
  <2>2. NoId \notin Frames /\ (kind = "ok" \/ kind = "err" \/ kind = "failed")
    BY DEF NoId, Frames, Kinds
  <2> QED
    BY <1>2, <2>1, <2>2 DEF Has
<1>7. /\ Down(f)' = One(kind = "err")
      /\ \A g \in Frames : g # f => Down(g)' = Down(g)
  <2>1. ASSUME NEW g \in Frames
        PROVE  /\ g # f => Down(g)' = Down(g)
               /\ Down(g)' = Down(g) + One(g = f /\ kind = "err")
    <3>1. /\ Has("inf_fetch", "submit", g)' <=> Has("inf_fetch", "submit", g)
          /\ Has("inf_fetch", "mark", g)' <=> Has("inf_fetch", "mark", g)
          /\ Has("stitch_fetch", "dump", g)' <=> Has("stitch_fetch", "dump", g)
          /\ Has("stitch_fetch", "mark", g)' <=> Has("stitch_fetch", "mark", g)
          /\ Has("seg_fetch", "mark", g)' <=> g = f /\ kind = "err"
          /\ ~Has("seg_fetch", "mark", g)
      BY <1>6 DEF Fetchers
    <3>2. stitchTasks'[g] = stitchTasks[g] /\ Answers(stitchOut, g)' = Answers(stitchOut, g)
      BY <1>1 DEF Answers
    <3>3. Down(g) \in Nat /\ stitchTasks[g] \in Nat /\ Answers(stitchOut, g) \in Nat
      BY <1>0, PlaceTypes DEF PlacesTyped, Typed
    <3> QED
      BY <3>1, <3>2, <3>3 DEF Down, One
  <2>2. Down(f)' = 0 + One(f = f /\ kind = "err")
    BY <1>4, <2>1
  <2> QED
    BY <2>1, <2>2 DEF One
<1>8. /\ \A k \in Tiles : Tile(f, k)' = One(kind = "ok")
      /\ \A g \in Frames : g # f => \A k \in Tiles : Tile(g, k)' = Tile(g, k)
  <2>1. ASSUME NEW g \in Frames, NEW k \in Tiles
        PROVE  /\ g # f => Tile(g, k)' = Tile(g, k)
               /\ Tile(g, k)' = Tile(g, k) + One(g = f /\ kind = "ok")
    <3>1. k \in Nat /\ tile' = 0 /\ k >= tile'
      BY <1>2 DEF Tiles
    <3>2. infTasks'[<<g, k>>] = infTasks[<<g, k>>] /\ TileAnswers(infOut, g, k)' = TileAnswers(infOut, g, k)
      BY <1>1 DEF TileAnswers
    <3>3. Tile(g, k) \in Nat /\ infTasks[<<g, k>>] \in Nat /\ TileAnswers(infOut, g, k) \in Nat
      BY <1>0, PlaceTypes DEF PlacesTyped, Typed
    <3> QED
      BY <1>6, <3>1, <3>2, <3>3 DEF Tile, One
  <2>2. \A k \in Tiles : Tile(f, k)' = 0 + One(f = f /\ kind = "ok")
    BY <1>4, <2>1
  <2> QED
    BY <2>1, <2>2 DEF One
<1>9. OnePlace'
  <2>1. ASSUME NEW g \in Frames, NEW k \in Tiles
        PROVE  Up(g)' + Tile(g, k)' + Down(g)' + One(g \in done)' <= 1
    <3>1. CASE g = f
      BY <1>1, <1>4, <1>5, <1>7, <1>8, <3>1 DEF One
    <3>2. CASE g # f
      BY <1>0, <1>1, <1>5, <1>7, <1>8, <3>2 DEF OnePlace, One
    <3> QED
      BY <3>1, <3>2
  <2> QED
    BY <2>1 DEF OnePlace
<1>10. Started'
  BY <1>0, <1>1, <1>5 DEF Started
<1>11. Counted'
  <2>1. ASSUME NEW g \in Frames
        PROVE  /\ got[g] <= Cardinality(Closed(g)')
               /\ g \notin errored \cup done => got[g] <= Cardinality(Detected(g)')
    <3>1. CASE g = f
      <4>1. Closed(g)' \subseteq Tiles /\ Detected(g)' \subseteq Tiles
        BY DEF Closed, Detected
      <4>2. Cardinality(Closed(g)') \in Nat /\ Cardinality(Detected(g)') \in Nat
        BY <4>1, SomeTiles
      <4> QED
        BY <1>4, <3>1, <4>2
    <3>2. CASE g # f
      <4>1. Closed(g)' = Closed(g) /\ Detected(g)' = Detected(g)
        BY <1>1, <1>8, <3>2 DEF Closed, Detected
      <4> QED
        BY <1>0, <4>1 DEF Counted
    <3> QED
      BY <3>1, <3>2
  <2> QED
    BY <1>1, <2>1 DEF Counted
<1>12. Files'
  <2>1. ASSUME NEW g \in Frames, NEW k \in Tiles, Filed(g, k) PROVE Filed(g, k)'
    <3>1. segOut'[<<g, "ok">>] > 0 => segOut[<<g, "ok">>] > 0
      <4>2. "ok" \in Kinds
        BY DEF Kinds
      <4>1. segOut[<<g, "ok">>] \in Nat
        BY <1>0, <4>2, PlaceTypes DEF PlacesTyped, Typed
      <4>3. segOut'[<<g, "ok">>] = IF g = f /\ "ok" = kind THEN segOut[<<g, "ok">>] - 1 ELSE segOut[<<g, "ok">>]
        BY <1>3, <4>2
      <4> QED
        BY <4>1, <4>3
    <3>2. Has("seg_fetch", "submit", g)' => segOut[<<g, "ok">>] > 0
      BY <1>2, <1>6
    <3> QED
      BY <1>1, <2>1, <3>1, <3>2 DEF Filed
  <2> QED
    BY <1>0, <2>1 DEF Files
<1>13. Ready' /\ Dispatched'
  <2>1. \A g \in Frames : /\ Has("inf_fetch", "submit", g)' <=> Has("inf_fetch", "submit", g)
                          /\ Has("inf_fetch", "mark", g)' <=> Has("inf_fetch", "mark", g)
                          /\ Has("stitch_fetch", "dump", g)' <=> Has("stitch_fetch", "dump", g)
                          /\ Has("stitch_fetch", "mark", g)' <=> Has("stitch_fetch", "mark", g)
    BY <1>6 DEF Fetchers
  <2>2. ASSUME NEW g \in Frames, Prepared(g) PROVE Prepared(g)'
    BY <1>1, <2>1, <2>2 DEF Prepared, AllDetections
  <2>3. ASSUME NEW g \in Frames, Stitching(g)' PROVE Stitching(g)
    BY <1>1, <2>1, <2>3 DEF Stitching, Answers
  <2> QED
    BY <1>0, <1>1, <2>2, <2>3 DEF Ready, Dispatched
<1>14. Verdicts'
  <2>1. "inf_fetch" \in Fetchers /\ "stitch_fetch" \in Fetchers
    BY DEF Fetchers
  <2>2. /\ pc'["inf_fetch"] = pc["inf_fetch"] /\ bad'["inf_fetch"] = bad["inf_fetch"]
        /\ pc'["stitch_fetch"] = pc["stitch_fetch"] /\ bad'["stitch_fetch"] = bad["stitch_fetch"]
    BY <1>2, <2>1
  <2> QED
    BY <1>0, <1>2, <2>2, Zenon DEF Verdicts
<1> QED
  BY <1>4, <1>5, <1>7, <1>8, <1>9, <1>10, <1>11, <1>12, <1>13, <1>14 DEF Places

\* A tile that is submitted becomes an inference task; on a closed session the
\* thread dies, and the tiles it had not submitted are not seen again.
LEMMA SegSubmitTilePlaces ==
  ASSUME IInv, IInv', Places, SegSubmitTile
  PROVE  /\ Places'
         /\ \A g \in Frames : Up(g)' = Up(g) /\ Down(g)' = Down(g)
         /\ \A g \in Frames, k \in Tiles : Tile(g, k)' <= Tile(g, k)
         /\ sessOpen => SamePlaces
<1>0. TypeOK /\ TypeOK' /\ ThreadsOK /\ SoamOK /\ Control /\ OnePlace /\ Started /\ Counted
      /\ Files /\ Ready /\ Dispatched /\ Verdicts
  BY DEF IInv, TypeOK, Places
<1> DEFINE f == arg["seg_fetch"]
<1>1. /\ next' = next /\ segTasks' = segTasks /\ segOut' = segOut /\ infOut' = infOut
      /\ arg' = arg /\ bad' = bad
      /\ stitchTasks' = stitchTasks /\ stitchOut' = stitchOut
      /\ got' = got /\ errored' = errored /\ dispatched' = dispatched /\ done' = done
      /\ segFiles' = segFiles /\ detFiles' = detFiles
  BY DEF SegSubmitTile, frameVars, segVars, stitchVars, busVars
<1>2. /\ pc["seg_fetch"] = "submit" /\ pc'["seg_fetch"] \in {"submit", "fetch", "dead"}
      /\ \A t \in Fetchers : t # "seg_fetch" => pc'[t] = pc[t]
  BY <1>0 DEF SegSubmitTile, At, Goto, ThreadsOK, Threads, Fetchers
<1>3. DownHands /\ Verdicts'
  <2>1. DownHands
    BY <1>1, <1>2 DEF DownHands, Has
  <2>2. /\ \A u \in {"seg_fetch", "inf_fetch"} : pc'[u] = "mark" => pc[u] = "mark"
        /\ pc'["stitch_fetch"] = "dump" => pc["stitch_fetch"] = "dump"
    BY <1>2 DEF Fetchers
  <2>3. Verdicts'
    BY <1>0, <1>1, <2>2, Zenon DEF Verdicts
  <2> QED
    BY <2>1, <2>3
<1>4. /\ f \in Frames /\ tile \in Tiles /\ tile \in Nat /\ tile < NTiles /\ NTiles \in Nat
  BY <1>0, <1>2, TilesFact DEF Control, ThreadsOK, Tiles
<1>5. \A g \in Frames : Up(g)' = Up(g) /\ Down(g)' = Down(g)
  BY <1>1, <1>3, UpKept, DownKept
<1>6. ASSUME NEW g \in Frames, NEW k \in Tiles
      PROVE  /\ Tile(g, k)' <= Tile(g, k)
             /\ sessOpen => Tile(g, k)' = Tile(g, k)
             /\ Filed(g, k) => Filed(g, k)'
  <2>1. /\ Tile(g, k) \in Nat /\ infTasks[<<g, k>>] \in Nat /\ TileAnswers(infOut, g, k) \in Nat
        /\ k \in Nat /\ k < NTiles
        /\ TileAnswers(infOut, g, k)' = TileAnswers(infOut, g, k)
    BY <1>0, <1>1, <1>4, PlaceTypes DEF PlacesTyped, Typed, Tiles, TileAnswers
  <2>2. CASE ~sessOpen
    <3>1. infTasks' = infTasks /\ ~Has("seg_fetch", "submit", g)'
      BY <1>0, <2>2 DEF SegSubmitTile, At, Goto, ThreadsOK, Threads, Fetchers, Has
    <3>2. Tile(g, k)' <= Tile(g, k)
      BY <2>1, <3>1 DEF Tile, One
    <3>3. Filed(g, k) => Filed(g, k)'
      BY <1>1, <3>1 DEF Filed
    <3> QED
      BY <2>2, <3>2, <3>3
  <2>3. CASE sessOpen
    <3>1. /\ infTasks' = Put(infTasks, <<f, tile>>) /\ tile' = tile + 1
          /\ pc'["seg_fetch"] = IF tile + 1 = NTiles THEN "fetch" ELSE "submit"
      BY <1>0, <2>3 DEF SegSubmitTile, At, Goto, ThreadsOK, Threads, Fetchers
    <3>2. infTasks'[<<g, k>>] = IF g = f /\ k = tile THEN infTasks[<<g, k>>] + 1 ELSE infTasks[<<g, k>>]
      <4>1. /\ <<g, k>> \in Frames \X Tiles /\ <<f, tile>> \in Frames \X Tiles
            /\ (<<g, k>> = <<f, tile>> <=> g = f /\ k = tile)
        BY <1>4
      <4>2. infTasks \in [Frames \X Tiles -> Nat]
        BY <1>0 DEF SoamOK
      <4> QED
        BY <3>1, <4>1, <4>2 DEF Put
    <3>3. /\ Has("seg_fetch", "submit", g) <=> g = f
          /\ Has("seg_fetch", "submit", g)' <=> g = f /\ tile + 1 # NTiles
      BY <1>1, <1>2, <3>1 DEF Has
    <3>4. Tile(g, k)' = Tile(g, k)
      <4>1. One(Has("seg_fetch", "submit", g) /\ k >= tile)' + infTasks'[<<g, k>>]
            = One(Has("seg_fetch", "submit", g) /\ k >= tile) + infTasks[<<g, k>>]
        BY <1>4, <2>1, <3>1, <3>2, <3>3 DEF One
      <4> QED
        BY <2>1, <4>1 DEF Tile
    <3>5. Filed(g, k) => Filed(g, k)'
      BY <1>1, <1>4, <2>1, <3>1, <3>2, <3>3 DEF Filed
    <3> QED
      BY <2>1, <3>4, <3>5
  <2> QED
    BY <2>2, <2>3
<1>7. OnePlace' /\ Started' /\ Counted'
  <2>1. \A g \in Frames : Down(g)' + One(g \in done)' <= Down(g) + One(g \in done)
    <3>1. \A g \in Frames : Down(g) \in Nat /\ One(g \in done) \in Nat
      BY <1>0, PlaceTypes DEF PlacesTyped, Typed, One
    <3>2. \A g \in Frames : Down(g)' = Down(g) /\ One(g \in done)' = One(g \in done)
      BY <1>1, <1>5 DEF One
    <3> QED
      BY <3>1, <3>2
  <2> QED
    BY <1>0, <1>1, <1>5, <1>6, <2>1, StillPlaces
<1>8. Files'
  BY <1>0, <1>6 DEF Files
<1>9. Ready' /\ Dispatched'
  BY <1>0, <1>1, <1>3, ReadyKept, DispatchedKept
<1>10. sessOpen => SamePlaces
  BY <1>5, <1>6 DEF SamePlaces
<1> QED
  BY <1>3, <1>5, <1>6, <1>7, <1>8, <1>9, <1>10 DEF Places

\* What keeps the counting for a step of the last stages: a frame on its way to
\* _finish keeps its place or loses it.
LEMMA DownStep ==
  ASSUME TypeOK, TypeOK', Places,
         next' = next, tile' = tile, segTasks' = segTasks, segOut' = segOut,
         infTasks' = infTasks, infOut' = infOut,
         got' = got, errored' = errored, dispatched' = dispatched, done' = done,
         segFiles' = segFiles, detFiles' = detFiles,
         pc'["seg_fetch"] = pc["seg_fetch"], arg'["seg_fetch"] = arg["seg_fetch"],
         \A g \in Frames : Down(g)' <= Down(g),
         \A g \in Frames : Prepared(g) => Prepared(g)',
         \A g \in Frames : Stitching(g)' => Stitching(g),
         Verdicts'
  PROVE  /\ Places'
         /\ \A g \in Frames : Up(g)' = Up(g) /\ \A k \in Tiles : Tile(g, k)' = Tile(g, k)
<1>1. \A g \in Frames : Has("seg_fetch", "submit", g)' <=> Has("seg_fetch", "submit", g)
  BY DEF Has
<1>2. /\ \A g \in Frames : Up(g)' = Up(g)
      /\ \A g \in Frames, k \in Tiles : Tile(g, k)' = Tile(g, k)
  BY <1>1, UpKept, TileKept
<1>3. \A g \in Frames : /\ Down(g) \in Nat /\ Down(g)' \in Nat /\ One(g \in done) \in Nat
                        /\ One(g \in done)' = One(g \in done)
                        /\ \A k \in Tiles : Tile(g, k) \in Nat
  <2>1. TypeOK'
    OBVIOUS
  <2>2. PlacesTyped'
    BY <2>1, PlaceTypes, PTL
  <2> QED
    BY <2>2, PlaceTypes DEF PlacesTyped, Typed, One
<1>4. /\ \A g \in Frames : Down(g)' + One(g \in done)' <= Down(g) + One(g \in done)
      /\ \A g \in Frames, k \in Tiles : Tile(g, k)' <= Tile(g, k)
  BY <1>2, <1>3
<1>5. OnePlace' /\ Started' /\ Counted'
  BY <1>2, <1>4, StillPlaces DEF Places
<1>6. Files'
  BY <1>1, FilesKept DEF Places
<1>7. Ready' /\ Dispatched'
  BY DEF Places, Ready, Dispatched
<1> QED
  BY <1>2, <1>5, <1>6, <1>7 DEF Places

\* The frame inf_fetch has in hand becomes a stitch task, unless the session is closed.
LEMMA InfSubmitStitchPlaces ==
  ASSUME IInv, IInv', Places, InfSubmitStitch
  PROVE  /\ Places'
         /\ \A g \in Frames : /\ Up(g)' = Up(g) /\ Down(g)' <= Down(g)
                              /\ \A k \in Tiles : Tile(g, k)' = Tile(g, k)
         /\ sessOpen => SamePlaces
<1>0. TypeOK /\ TypeOK' /\ ThreadsOK /\ SoamOK /\ Control /\ OnePlace /\ Ready /\ Dispatched /\ Verdicts
  BY DEF IInv, TypeOK, Places
<1> DEFINE f == arg["inf_fetch"]
<1>1. /\ next' = next /\ tile' = tile /\ arg' = arg /\ bad' = bad
      /\ segTasks' = segTasks /\ segOut' = segOut
      /\ infTasks' = infTasks /\ infOut' = infOut /\ stitchOut' = stitchOut
      /\ got' = got /\ errored' = errored /\ dispatched' = dispatched /\ done' = done
      /\ segFiles' = segFiles /\ detFiles' = detFiles
  BY DEF InfSubmitStitch, localVars, frameVars, segVars, infVars, busVars
<1>2. /\ pc["inf_fetch"] = "submit" /\ pc'["inf_fetch"] \in {"fetch", "dead"}
      /\ \A t \in Fetchers : t # "inf_fetch" => pc'[t] = pc[t]
  BY <1>0 DEF InfSubmitStitch, At, Goto, ThreadsOK, Threads, Fetchers
<1>3. f \in Frames
  BY <1>0, <1>2 DEF Control
<1>4. stitchTasks' = (IF sessOpen THEN Put(stitchTasks, f) ELSE stitchTasks)
  BY DEF InfSubmitStitch
<1>5. \A g \in Frames : stitchTasks'[g] = IF g = f /\ sessOpen THEN stitchTasks[g] + 1 ELSE stitchTasks[g]
  BY <1>0, <1>3, <1>4 DEF SoamOK, Put
<1>6. Verdicts'
  <2>1. /\ \A u \in {"seg_fetch", "inf_fetch"} : pc'[u] = "mark" => pc[u] = "mark"
        /\ pc'["stitch_fetch"] = "dump" => pc["stitch_fetch"] = "dump"
    BY <1>2 DEF Fetchers
  <2> QED
    BY <1>0, <1>1, <2>1, Zenon DEF Verdicts
<1>7. ASSUME NEW g \in Frames
      PROVE  /\ Down(g)' <= Down(g) /\ (sessOpen => Down(g)' = Down(g))
             /\ Prepared(g) => Prepared(g)'
             /\ Stitching(g)' => Stitching(g)
  <2>1. /\ Has("inf_fetch", "submit", g) <=> g = f
        /\ ~Has("inf_fetch", "submit", g)'
        /\ ~Has("inf_fetch", "mark", g)' /\ ~Has("inf_fetch", "mark", g)
        /\ Has("stitch_fetch", "dump", g)' <=> Has("stitch_fetch", "dump", g)
        /\ Has("stitch_fetch", "mark", g)' <=> Has("stitch_fetch", "mark", g)
        /\ Has("seg_fetch", "mark", g)' <=> Has("seg_fetch", "mark", g)
    BY <1>1, <1>2 DEF Has, Fetchers
  <2>2. /\ stitchTasks[g] \in Nat /\ Answers(stitchOut, g) \in Nat
        /\ Answers(stitchOut, g)' = Answers(stitchOut, g)
    BY <1>0, <1>1, PlaceTypes DEF PlacesTyped, Typed, Answers
  <2>3. Down(g)' <= Down(g) /\ (sessOpen => Down(g)' = Down(g))
    BY <1>5, <2>1, <2>2 DEF Down, One
  <2>4. Prepared(g) => Prepared(g)'
    BY <1>1, <1>5, <2>1, <2>2 DEF Prepared, AllDetections
  <2>5. Stitching(g)' => Stitching(g)
    BY <1>5, <2>1, <2>2 DEF Stitching
  <2> QED
    BY <2>3, <2>4, <2>5
<1>8. /\ Places'
      /\ \A g \in Frames : Up(g)' = Up(g) /\ \A k \in Tiles : Tile(g, k)' = Tile(g, k)
  BY <1>0, <1>1, <1>2, <1>6, <1>7, DownStep DEF Fetchers
<1>9. sessOpen => SamePlaces
  BY <1>7, <1>8 DEF SamePlaces
<1> QED
  BY <1>7, <1>8, <1>9

\* stitch_fetch takes an answer: the frame is in its hand, unless the answer has no id.
LEMMA StitchTakePlaces ==
  ASSUME IInv, IInv', Places, NEW f \in Frames, NEW kind \in Kinds, StitchTake(f, kind)
  PROVE  /\ Places'
         /\ Down(f) = 1 /\ Up(f) = 0 /\ f \notin done /\ f \in dispatched /\ \A k \in Tiles : Tile(f, k) = 0
         /\ \A g \in Frames : /\ Up(g)' = Up(g)
                              /\ Down(g)' = (IF g = f /\ kind = "failed" THEN 0 ELSE Down(g))
                              /\ \A k \in Tiles : Tile(g, k)' = Tile(g, k)
<1>0. TypeOK /\ TypeOK' /\ ThreadsOK /\ SoamOK /\ Control /\ OnePlace /\ Ready /\ Dispatched /\ Verdicts
  BY DEF IInv, TypeOK, Places
<1>1. /\ next' = next /\ tile' = tile
      /\ segTasks' = segTasks /\ segOut' = segOut
      /\ infTasks' = infTasks /\ infOut' = infOut /\ stitchTasks' = stitchTasks
      /\ got' = got /\ errored' = errored /\ dispatched' = dispatched /\ done' = done
      /\ segFiles' = segFiles /\ detFiles' = detFiles
  BY DEF StitchTake, frameVars, segVars, infVars, busVars
<1>2. /\ pc["stitch_fetch"] = "fetch"
      /\ stitchOut[<<f, kind>>] > 0 /\ stitchOut' = Take(stitchOut, <<f, kind>>)
      /\ arg'["stitch_fetch"] = ReplyId(f, kind)
      /\ pc'["stitch_fetch"] = (IF kind = "ok" THEN "dump" ELSE "mark")
      /\ \A t \in Fetchers : t # "stitch_fetch" => pc'[t] = pc[t] /\ arg'[t] = arg[t]
  BY <1>0 DEF StitchTake, At, Goto, ThreadsOK, Threads, Fetchers
<1>b. /\ bad'["stitch_fetch"] <=> kind # "ok"
      /\ bad'["seg_fetch"] = bad["seg_fetch"] /\ bad'["inf_fetch"] = bad["inf_fetch"]
  BY <1>0 DEF StitchTake, ThreadsOK, Fetchers
<1>3. \A g \in Frames : /\ stitchOut'[<<g, kind>>] = IF g = f THEN stitchOut[<<g, kind>>] - 1
                                                             ELSE stitchOut[<<g, kind>>]
                        /\ Answers(stitchOut, g)' = IF g = f THEN Answers(stitchOut, g) - 1
                                                             ELSE Answers(stitchOut, g)
  <2>1. stitchOut \in [Frames \X Kinds -> Nat] /\ stitchOut[<<f, kind>>] > 0
        /\ stitchOut' = Take(stitchOut, <<f, kind>>)
    BY <1>0, <1>2 DEF SoamOK
  <2>2. FewerAnswers(stitchOut, stitchOut', f, kind)
    BY <2>1, AnswersTake
  <2>3. \A g : Answers(stitchOut, g)' = Answers(stitchOut', g)
    BY DEF Answers
  <2> QED
    BY <2>2, <2>3 DEF FewerAnswers
<1>4. /\ Answers(stitchOut, f) >= 1
      /\ Down(f) = 1 /\ Up(f) = 0 /\ f \notin done /\ \A k \in Tiles : Tile(f, k) = 0
      /\ f \in dispatched
  <2>1. Down(f) \in Nat /\ stitchOut[<<f, kind>>] \in Nat /\ Answers(stitchOut, f) \in Nat
    BY <1>0, PlaceTypes DEF PlacesTyped, Typed
  <2>2. Down(f) >= 1
    BY <1>0, <1>2, <2>1, Absent
  <2>3. Down(f) = 1 /\ Up(f) = 0 /\ f \notin done /\ \A k \in Tiles : Tile(f, k) = 0
    BY <1>0, <2>2, Only
  <2>4. Answers(stitchOut, f) >= 1
    <3>1. stitchOut[<<f, "ok">>] \in Nat /\ stitchOut[<<f, "err">>] \in Nat /\ stitchOut[<<f, "failed">>] \in Nat
      BY <1>0, PlaceTypes DEF PlacesTyped, Typed, Kinds
    <3> QED
      BY <1>2, <3>1 DEF Answers, Kinds
  <2>5. f \in dispatched
    BY <1>0, <2>1, <2>4 DEF Dispatched, Stitching
  <2> QED
    BY <2>3, <2>4, <2>5
<1>5. ReplyId(f, kind) = (IF kind = "failed" THEN NoId ELSE f) /\ NoId \notin Frames
      /\ (kind = "ok" \/ kind = "err" \/ kind = "failed")
  BY DEF ReplyId, NoId, Frames, Kinds
<1>6. Verdicts'
  <2>1. /\ pc'["seg_fetch"] = pc["seg_fetch"] /\ pc'["inf_fetch"] = pc["inf_fetch"]
    BY <1>2 DEF Fetchers
  <2>2. pc'["stitch_fetch"] = "dump" => ~bad'["stitch_fetch"]
    BY <1>2, <1>b
  <2> QED
    BY <1>0, <1>b, <2>1, <2>2, Zenon DEF Verdicts
<1>7. ASSUME NEW g \in Frames
      PROVE  /\ Down(g)' = (IF g = f /\ kind = "failed" THEN 0 ELSE Down(g))
             /\ Down(g)' <= Down(g)
             /\ Prepared(g) => Prepared(g)'
             /\ Stitching(g)' => Stitching(g)
  <2>1. /\ Has("inf_fetch", "submit", g)' <=> Has("inf_fetch", "submit", g)
        /\ Has("inf_fetch", "mark", g)' <=> Has("inf_fetch", "mark", g)
        /\ Has("seg_fetch", "mark", g)' <=> Has("seg_fetch", "mark", g)
    BY <1>2 DEF Has, Fetchers
  <2>2. /\ ~Has("stitch_fetch", "dump", g) /\ ~Has("stitch_fetch", "mark", g)
        /\ Has("stitch_fetch", "dump", g)' <=> g = f /\ kind = "ok"
        /\ Has("stitch_fetch", "mark", g)' <=> g = f /\ kind = "err"
    BY <1>2, <1>5 DEF Has
  <2>3. stitchTasks[g] \in Nat /\ Answers(stitchOut, g) \in Nat /\ Down(g) \in Nat
    BY <1>0, PlaceTypes DEF PlacesTyped, Typed
  <2>a. /\ stitchTasks'[g] = stitchTasks[g]
        /\ g = f => Answers(stitchOut, g)' = Answers(stitchOut, g) - 1
        /\ g # f => Answers(stitchOut, g)' = Answers(stitchOut, g)
    BY <1>1, <1>3
  <2>4. Down(g)' = Down(g) - One(g = f /\ kind = "failed")
    <3>1. CASE g # f
      BY <2>1, <2>2, <2>3, <2>a, <3>1 DEF Down, One
    <3>2. CASE g = f
      <4>1. Answers(stitchOut, g)' + One(Has("stitch_fetch", "dump", g))' + One(Has("stitch_fetch", "mark", g))'
            = Answers(stitchOut, g) - One(kind = "failed")
        BY <1>5, <2>2, <2>3, <2>a, <3>2 DEF One
      <4>2. Answers(stitchOut, g)' \in Int
        BY <2>3, <2>a
      <4> QED
        BY <2>1, <2>2, <2>3, <2>a, <3>2, <4>1, <4>2 DEF Down, One
    <3> QED
      BY <3>1, <3>2
  <2>5. Down(g)' = (IF g = f /\ kind = "failed" THEN 0 ELSE Down(g)) /\ Down(g)' <= Down(g)
    BY <1>4, <2>3, <2>4 DEF One
  <2>6. Prepared(g) => Prepared(g)'
    BY <1>1, <2>1 DEF Prepared, AllDetections
  <2>7. Stitching(g)' => Stitching(g)
    <3>1. CASE g # f
      BY <2>1, <2>2, <2>3, <2>a, <3>1 DEF Stitching
    <3>2. CASE g = f
      <4>1. Answers(stitchOut, g) > 0
        BY <1>4, <2>3, <3>2
      <4> QED
        BY <4>1 DEF Stitching
    <3> QED
      BY <3>1, <3>2
  <2> QED
    BY <2>5, <2>6, <2>7
<1>8. /\ Places'
      /\ \A g \in Frames : Up(g)' = Up(g) /\ \A k \in Tiles : Tile(g, k)' = Tile(g, k)
  <2>1. pc'["seg_fetch"] = pc["seg_fetch"] /\ arg'["seg_fetch"] = arg["seg_fetch"]
    BY <1>2 DEF Fetchers
  <2> QED
    BY <1>0, <1>1, <1>6, <1>7, <2>1, DownStep
<1> QED
  BY <1>4, <1>7, <1>8

\* The record is written, unless the dump is closed.
LEMMA StitchDumpPlaces ==
  ASSUME IInv, IInv', Places, StitchDump
  PROVE  /\ Places'
         /\ \A g \in Frames : /\ Up(g)' = Up(g) /\ Down(g)' <= Down(g)
                              /\ \A k \in Tiles : Tile(g, k)' = Tile(g, k)
         /\ dumpOpen => SamePlaces
<1>0. TypeOK /\ TypeOK' /\ ThreadsOK /\ SoamOK /\ Control /\ OnePlace /\ Ready /\ Dispatched /\ Verdicts
  BY DEF IInv, TypeOK, Places
<1>1. /\ next' = next /\ tile' = tile /\ arg' = arg /\ bad' = bad
      /\ segTasks' = segTasks /\ segOut' = segOut
      /\ infTasks' = infTasks /\ infOut' = infOut
      /\ stitchTasks' = stitchTasks /\ stitchOut' = stitchOut
      /\ got' = got /\ errored' = errored /\ dispatched' = dispatched /\ done' = done
      /\ segFiles' = segFiles /\ detFiles' = detFiles
  BY DEF StitchDump, localVars, frameVars, soamVars, segVars, infVars, stitchVars, busVars
<1>2. /\ pc["stitch_fetch"] = "dump"
      /\ pc'["stitch_fetch"] = (IF dumpOpen THEN "mark" ELSE "dead")
      /\ \A t \in Fetchers : t # "stitch_fetch" => pc'[t] = pc[t]
  BY <1>0 DEF StitchDump, At, Goto, ThreadsOK, Threads, Fetchers
<1>3. Verdicts'
  <2>1. /\ pc'["seg_fetch"] = pc["seg_fetch"] /\ pc'["inf_fetch"] = pc["inf_fetch"]
    BY <1>2 DEF Fetchers
  <2>2. pc'["stitch_fetch"] # "dump"
    BY <1>2
  <2> QED
    BY <1>0, <1>1, <2>1, <2>2, Zenon DEF Verdicts
<1>4. ASSUME NEW g \in Frames
      PROVE  /\ Down(g)' <= Down(g) /\ (dumpOpen => Down(g)' = Down(g))
             /\ Prepared(g) => Prepared(g)'
             /\ Stitching(g)' => Stitching(g)
  <2>1. /\ Has("inf_fetch", "submit", g)' <=> Has("inf_fetch", "submit", g)
        /\ Has("inf_fetch", "mark", g)' <=> Has("inf_fetch", "mark", g)
        /\ Has("seg_fetch", "mark", g)' <=> Has("seg_fetch", "mark", g)
    BY <1>1, <1>2 DEF Has, Fetchers
  <2>2. /\ ~Has("stitch_fetch", "mark", g) /\ ~Has("stitch_fetch", "dump", g)'
        /\ Has("stitch_fetch", "mark", g)' <=> Has("stitch_fetch", "dump", g) /\ dumpOpen
    BY <1>1, <1>2 DEF Has
  <2>3. /\ stitchTasks[g] \in Nat /\ Answers(stitchOut, g) \in Nat
        /\ Answers(stitchOut, g)' = Answers(stitchOut, g)
    BY <1>0, <1>1, PlaceTypes DEF PlacesTyped, Typed, Answers
  <2>4. Down(g)' <= Down(g) /\ (dumpOpen => Down(g)' = Down(g))
    BY <1>1, <2>1, <2>2, <2>3 DEF Down, One
  <2>5. Prepared(g) => Prepared(g)'
    BY <1>1, <2>1 DEF Prepared, AllDetections
  <2>6. Stitching(g)' => Stitching(g)
    BY <1>1, <2>1, <2>2, <2>3 DEF Stitching
  <2> QED
    BY <2>4, <2>5, <2>6
<1>5. /\ Places'
      /\ \A g \in Frames : Up(g)' = Up(g) /\ \A k \in Tiles : Tile(g, k)' = Tile(g, k)
  <2>1. pc'["seg_fetch"] = pc["seg_fetch"] /\ arg'["seg_fetch"] = arg["seg_fetch"]
    BY <1>1, <1>2 DEF Fetchers
  <2> QED
    BY <1>0, <1>1, <1>3, <1>4, <2>1, DownStep
<1>6. dumpOpen => SamePlaces
  BY <1>4, <1>5 DEF SamePlaces
<1> QED
  BY <1>4, <1>5, <1>6

\* The segment service turns a task into an answer; a success has written every tile.
LEMMA SegAnswerPlaces ==
  ASSUME IInv, IInv', Places, NEW f \in Frames, NEW kind \in Kinds, SegAnswer(f, kind),
         segFiles \subseteq segFiles', detFiles' = detFiles,
         kind = "ok" => \A k \in Tiles : <<f, k>> \in segFiles'
  PROVE  /\ Places' /\ SamePlaces
         /\ Answers(segOut, f) = 0
         /\ \A g \in Frames, j \in Kinds :
               segOut'[<<g, j>>] = IF g = f /\ j = kind THEN segOut[<<g, j>>] + 1 ELSE segOut[<<g, j>>]
<1>0. TypeOK /\ TypeOK' /\ SoamOK /\ OnePlace /\ Started /\ Counted
      /\ Files /\ Ready /\ Dispatched /\ Verdicts
  BY DEF IInv, TypeOK, Places
<1>1. /\ next' = next /\ tile' = tile /\ arg' = arg /\ bad' = bad /\ pc' = pc
      /\ infTasks' = infTasks /\ infOut' = infOut
      /\ stitchTasks' = stitchTasks /\ stitchOut' = stitchOut
      /\ got' = got /\ errored' = errored /\ dispatched' = dispatched /\ done' = done
  BY DEF SegAnswer, clientVars, localVars, frameVars, infVars, stitchVars
<1>2. segTasks[f] > 0 /\ segTasks' = Take(segTasks, f) /\ segOut' = Put(segOut, <<f, kind>>)
  BY DEF SegAnswer
<1>3. /\ \A g \in Frames : Answers(segOut, g)' = IF g = f THEN Answers(segOut, g) + 1 ELSE Answers(segOut, g)
      /\ \A g \in Frames, j \in Kinds :
            segOut'[<<g, j>>] = IF g = f /\ j = kind THEN segOut[<<g, j>>] + 1 ELSE segOut[<<g, j>>]
  <2>1. segOut \in [Frames \X Kinds -> Nat] /\ segOut' = Put(segOut, <<f, kind>>)
    BY <1>0, <1>2 DEF SoamOK
  <2>2. MoreAnswers(segOut, segOut', f, kind)
    BY <2>1, AnswersPut
  <2>3. \A g : Answers(segOut, g)' = Answers(segOut', g)
    BY DEF Answers
  <2> QED
    BY <2>2, <2>3 DEF MoreAnswers
<1>4. \A g \in Frames : segTasks'[g] = IF g = f THEN segTasks[g] - 1 ELSE segTasks[g]
  BY <1>0, <1>2 DEF SoamOK, Take
<1>5. HandsFixed /\ DownHands /\ Verdicts'
  BY <1>0, <1>1, HandsKept DEF Verdicts
<1>6. \A g \in Frames : Has("seg_fetch", "submit", g)' <=> Has("seg_fetch", "submit", g)
  BY <1>5 DEF HandsFixed, Fetchers
<1>7. SamePlaces
  <2>1. ASSUME NEW g \in Frames PROVE Up(g)' = Up(g)
    <3>1. segTasks[g] \in Nat /\ Answers(segOut, g) \in Nat
      BY <1>0, PlaceTypes DEF PlacesTyped, Typed
    <3>2. segTasks'[g] + Answers(segOut, g)' = segTasks[g] + Answers(segOut, g)
          /\ segTasks'[g] \in Int /\ Answers(segOut, g)' \in Int
      BY <1>3, <1>4, <3>1
    <3> QED
      BY <1>1, <3>1, <3>2 DEF Up, One
  <2> QED
    BY <1>1, <1>5, <1>6, <2>1, TileKept, DownKept DEF SamePlaces
<1>8. OnePlace' /\ Started' /\ Counted'
  BY <1>0, <1>1, <1>7, SameStill
<1>9. Files'
  <2>1. ASSUME NEW g \in Frames, NEW k \in Tiles, Filed(g, k) PROVE Filed(g, k)'
    <3>1. segOut'[<<g, "ok">>] > 0 => <<g, k>> \in segFiles'
      <4>1. "ok" \in Kinds
        BY DEF Kinds
      <4>2. segOut'[<<g, "ok">>] = IF g = f /\ "ok" = kind THEN segOut[<<g, "ok">>] + 1 ELSE segOut[<<g, "ok">>]
        BY <1>3, <4>1
      <4> QED
        BY <2>1, <4>2 DEF Filed
    <3> QED
      BY <1>1, <1>6, <2>1, <3>1 DEF Filed
  <2> QED
    BY <1>0, <2>1 DEF Files
<1>10. Ready' /\ Dispatched'
  BY <1>0, <1>1, <1>5, ReadyKept, DispatchedKept
<1>11. Answers(segOut, f) = 0
  <2>1. Up(f) \in Nat /\ segTasks[f] \in Nat /\ Answers(segOut, f) \in Nat
    BY <1>0, PlaceTypes DEF PlacesTyped, Typed
  <2>2. Up(f) >= 1
    BY <1>0, <1>2, <2>1, Absent
  <2>3. Up(f) = 1
    BY <1>0, <2>2, Only
  <2> QED
    BY <1>2, <2>1, <2>3 DEF Up, One
<1> QED
  BY <1>3, <1>5, <1>7, <1>8, <1>9, <1>10, <1>11 DEF Places

\* The inference service does so for a tile; a success has saved its detections.
LEMMA InfAnswerPlaces ==
  ASSUME IInv, IInv', Places, NEW f \in Frames, NEW k \in Tiles, NEW kind \in Kinds,
         InfAnswer(f, k, kind), detFiles \subseteq detFiles',
         kind = "ok" => <<f, k>> \in detFiles'
  PROVE  /\ Places' /\ SamePlaces
         /\ TileAnswers(infOut, f, k) = 0 /\ <<f, k>> \in segFiles
         /\ \A g \in Frames, i \in Tiles, j \in Kinds :
               infOut'[<<g, i, j>>] = IF g = f /\ i = k /\ j = kind THEN infOut[<<g, i, j>>] + 1
                                                                  ELSE infOut[<<g, i, j>>]
<1>0. TypeOK /\ TypeOK' /\ SoamOK /\ OnePlace /\ Started /\ Counted
      /\ Files /\ Ready /\ Dispatched /\ Verdicts
  BY DEF IInv, TypeOK, Places
<1>1. /\ next' = next /\ tile' = tile /\ arg' = arg /\ bad' = bad /\ pc' = pc
      /\ segTasks' = segTasks /\ segOut' = segOut
      /\ stitchTasks' = stitchTasks /\ stitchOut' = stitchOut
      /\ got' = got /\ errored' = errored /\ dispatched' = dispatched /\ done' = done
      /\ segFiles' = segFiles
  BY DEF InfAnswer, clientVars, localVars, frameVars, segVars, stitchVars
<1>2. infTasks[<<f, k>>] > 0 /\ infTasks' = Take(infTasks, <<f, k>>) /\ infOut' = Put(infOut, <<f, k, kind>>)
  BY DEF InfAnswer
<1>3. /\ \A g \in Frames, i \in Tiles :
            TileAnswers(infOut, g, i)' = IF g = f /\ i = k THEN TileAnswers(infOut, g, i) + 1
                                                         ELSE TileAnswers(infOut, g, i)
      /\ \A g \in Frames, i \in Tiles, j \in Kinds :
            infOut'[<<g, i, j>>] = IF g = f /\ i = k /\ j = kind THEN infOut[<<g, i, j>>] + 1
                                                               ELSE infOut[<<g, i, j>>]
  <2>1. infOut \in [Frames \X Tiles \X Kinds -> Nat] /\ infOut' = Put(infOut, <<f, k, kind>>)
    BY <1>0, <1>2 DEF SoamOK
  <2>2. MoreTileAnswers(infOut, infOut', f, k, kind)
    BY <2>1, TileAnswersPut
  <2>3. \A g, i : TileAnswers(infOut, g, i)' = TileAnswers(infOut', g, i)
    BY DEF TileAnswers
  <2> QED
    BY <2>2, <2>3 DEF MoreTileAnswers
<1>4. \A g \in Frames, i \in Tiles :
          infTasks'[<<g, i>>] = IF g = f /\ i = k THEN infTasks[<<g, i>>] - 1 ELSE infTasks[<<g, i>>]
  <2>1. infTasks \in [Frames \X Tiles -> Nat] /\ infTasks' = Take(infTasks, <<f, k>>)
    BY <1>0, <1>2 DEF SoamOK
  <2> QED
    BY <2>1 DEF Take
<1>5. HandsFixed /\ DownHands /\ Verdicts'
  BY <1>0, <1>1, HandsKept DEF Verdicts
<1>6. \A g \in Frames : Has("seg_fetch", "submit", g)' <=> Has("seg_fetch", "submit", g)
  BY <1>5 DEF HandsFixed, Fetchers
<1>7. SamePlaces
  <2>1. ASSUME NEW g \in Frames, NEW i \in Tiles PROVE Tile(g, i)' = Tile(g, i)
    <3>1. infTasks[<<g, i>>] \in Nat /\ TileAnswers(infOut, g, i) \in Nat
      BY <1>0, PlaceTypes DEF PlacesTyped, Typed
    <3>2. infTasks'[<<g, i>>] + TileAnswers(infOut, g, i)' = infTasks[<<g, i>>] + TileAnswers(infOut, g, i)
          /\ infTasks'[<<g, i>>] \in Int /\ TileAnswers(infOut, g, i)' \in Int
      BY <1>3, <1>4, <3>1
    <3> QED
      BY <1>1, <1>6, <3>1, <3>2 DEF Tile, One
  <2> QED
    BY <1>1, <1>5, <2>1, UpKept, DownKept DEF SamePlaces
<1>8. OnePlace' /\ Started' /\ Counted'
  BY <1>0, <1>1, <1>7, SameStill
<1>9. Files'
  <2>1. ASSUME NEW g \in Frames, NEW i \in Tiles, Filed(g, i) PROVE Filed(g, i)'
    <3>1. infOut'[<<g, i, "ok">>] > 0 => <<g, i>> \in detFiles'
      <4>1. "ok" \in Kinds
        BY DEF Kinds
      <4>2. infOut'[<<g, i, "ok">>] = IF g = f /\ i = k /\ "ok" = kind THEN infOut[<<g, i, "ok">>] + 1
                                                                     ELSE infOut[<<g, i, "ok">>]
        BY <1>3, <4>1
      <4> QED
        BY <2>1, <4>2 DEF Filed
    <3>2. infTasks'[<<g, i>>] > 0 => infTasks[<<g, i>>] > 0
      <4>1. infTasks[<<g, i>>] \in Nat
        BY <1>0, PlaceTypes DEF PlacesTyped, Typed
      <4> QED
        BY <1>4, <4>1
    <3> QED
      BY <1>1, <1>6, <2>1, <3>1, <3>2 DEF Filed
  <2> QED
    BY <1>0, <2>1 DEF Files
<1>10. Ready' /\ Dispatched'
  BY <1>0, <1>1, <1>5, ReadyKept, DispatchedKept
<1>11. TileAnswers(infOut, f, k) = 0 /\ <<f, k>> \in segFiles
  <2>1. Tile(f, k) \in Nat /\ infTasks[<<f, k>>] \in Nat /\ TileAnswers(infOut, f, k) \in Nat
    BY <1>0, PlaceTypes DEF PlacesTyped, Typed
  <2>2. Tile(f, k) >= 1
    BY <1>0, <1>2, <2>1, Absent
  <2>3. Tile(f, k) = 1
    BY <1>0, <2>2, Only
  <2>4. TileAnswers(infOut, f, k) = 0
    BY <1>2, <2>1, <2>3 DEF Tile, One
  <2> QED
    BY <1>0, <1>2, <2>4 DEF Files, Filed
<1> QED
  BY <1>3, <1>5, <1>7, <1>8, <1>9, <1>10, <1>11 DEF Places

\* And the stitch service, which finds every detection of the frame.
LEMMA StitchAnswerPlaces ==
  ASSUME IInv, IInv', Places, NEW f \in Frames, NEW kind \in Kinds,
         StitchAnswer(f, kind)
  PROVE  /\ Places' /\ SamePlaces
         /\ Answers(stitchOut, f) = 0 /\ AllDetections(f)
         /\ \A g \in Frames, j \in Kinds :
               stitchOut'[<<g, j>>] = IF g = f /\ j = kind THEN stitchOut[<<g, j>>] + 1 ELSE stitchOut[<<g, j>>]
<1>0. TypeOK /\ TypeOK' /\ SoamOK /\ OnePlace /\ Started /\ Counted
      /\ Files /\ Ready /\ Dispatched /\ Verdicts
  BY DEF IInv, TypeOK, Places
<1>1. /\ next' = next /\ tile' = tile /\ arg' = arg /\ bad' = bad /\ pc' = pc
      /\ segTasks' = segTasks /\ segOut' = segOut
      /\ infTasks' = infTasks /\ infOut' = infOut
      /\ got' = got /\ errored' = errored /\ dispatched' = dispatched /\ done' = done
      /\ segFiles' = segFiles /\ detFiles' = detFiles
  BY DEF StitchAnswer, clientVars, localVars, frameVars, segVars, infVars, busVars
<1>2. stitchTasks[f] > 0 /\ stitchTasks' = Take(stitchTasks, f) /\ stitchOut' = Put(stitchOut, <<f, kind>>)
  BY DEF StitchAnswer
<1>3. /\ \A g \in Frames : Answers(stitchOut, g)' = IF g = f THEN Answers(stitchOut, g) + 1
                                                            ELSE Answers(stitchOut, g)
      /\ \A g \in Frames, j \in Kinds :
            stitchOut'[<<g, j>>] = IF g = f /\ j = kind THEN stitchOut[<<g, j>>] + 1 ELSE stitchOut[<<g, j>>]
  <2>1. stitchOut \in [Frames \X Kinds -> Nat] /\ stitchOut' = Put(stitchOut, <<f, kind>>)
    BY <1>0, <1>2 DEF SoamOK
  <2>2. MoreAnswers(stitchOut, stitchOut', f, kind)
    BY <2>1, AnswersPut
  <2>3. \A g : Answers(stitchOut, g)' = Answers(stitchOut', g)
    BY DEF Answers
  <2> QED
    BY <2>2, <2>3 DEF MoreAnswers
<1>4. \A g \in Frames : stitchTasks'[g] = IF g = f THEN stitchTasks[g] - 1 ELSE stitchTasks[g]
  BY <1>0, <1>2 DEF SoamOK, Take
<1>5. HandsFixed /\ DownHands /\ Verdicts'
  BY <1>0, <1>1, HandsKept DEF Verdicts
<1>6. \A g \in Frames : Has("seg_fetch", "submit", g)' <=> Has("seg_fetch", "submit", g)
  BY <1>5 DEF HandsFixed, Fetchers
<1>7. \A g \in Frames : /\ Has("inf_fetch", "submit", g)' <=> Has("inf_fetch", "submit", g)
                        /\ Has("inf_fetch", "mark", g)' <=> Has("inf_fetch", "mark", g)
                        /\ Has("seg_fetch", "mark", g)' <=> Has("seg_fetch", "mark", g)
                        /\ Has("stitch_fetch", "dump", g)' <=> Has("stitch_fetch", "dump", g)
                        /\ Has("stitch_fetch", "mark", g)' <=> Has("stitch_fetch", "mark", g)
  BY <1>5 DEF HandsFixed, Fetchers
<1>8. SamePlaces
  <2>1. ASSUME NEW g \in Frames PROVE Down(g)' = Down(g)
    <3>1. stitchTasks[g] \in Nat /\ Answers(stitchOut, g) \in Nat
      BY <1>0, PlaceTypes DEF PlacesTyped, Typed
    <3>2. stitchTasks'[g] + Answers(stitchOut, g)' = stitchTasks[g] + Answers(stitchOut, g)
          /\ stitchTasks'[g] \in Int /\ Answers(stitchOut, g)' \in Int
      BY <1>3, <1>4, <3>1
    <3> QED
      BY <1>7, <3>1, <3>2 DEF Down, One
  <2> QED
    BY <1>1, <1>6, <2>1, UpKept, TileKept DEF SamePlaces
<1>9. OnePlace' /\ Started' /\ Counted'
  BY <1>0, <1>1, <1>8, SameStill
<1>10. Files'
  BY <1>0, <1>1, <1>6, FilesKept
<1>11. Ready' /\ Dispatched'
  <2>1. ASSUME NEW g \in Frames
        PROVE  (Prepared(g) => Prepared(g)') /\ (Stitching(g)' => Stitching(g))
    <3>1. stitchTasks[g] \in Nat /\ Answers(stitchOut, g) \in Nat
      BY <1>0, PlaceTypes DEF PlacesTyped, Typed
    <3>2. stitchTasks'[g] > 0 => stitchTasks[g] > 0
      BY <1>4, <3>1
    <3>3. Answers(stitchOut, g)' > 0 => Answers(stitchOut, g) > 0 \/ stitchTasks[g] > 0
      BY <1>2, <1>3, <3>1
    <3>4. Prepared(g) => Prepared(g)'
      BY <1>1, <1>7, <3>2 DEF Prepared, AllDetections
    <3>5. Stitching(g)' => Stitching(g)
      BY <1>7, <3>2, <3>3 DEF Stitching
    <3> QED
      BY <3>4, <3>5
  <2> QED
    BY <1>0, <1>1, <2>1 DEF Ready, Dispatched
<1>12. Answers(stitchOut, f) = 0 /\ AllDetections(f)
  <2>1. Down(f) \in Nat /\ stitchTasks[f] \in Nat /\ Answers(stitchOut, f) \in Nat
    BY <1>0, PlaceTypes DEF PlacesTyped, Typed
  <2>2. Down(f) >= 1
    BY <1>0, <1>2, <2>1, Absent
  <2>3. Down(f) = 1
    BY <1>0, <2>2, Only
  <2>4. Answers(stitchOut, f) = 0
    BY <1>2, <2>1, <2>3 DEF Down, One
  <2> QED
    BY <1>0, <1>2, <2>4 DEF Ready, Prepared
<1> QED
  BY <1>3, <1>5, <1>8, <1>9, <1>10, <1>11, <1>12 DEF Places

\* inf_fetch takes the answer for a tile that is nowhere else, of a frame that it knows.
LEMMA InfTakeFact ==
  ASSUME IInv, Places, NEW f \in Frames, NEW k \in Tiles, NEW kind \in Kinds, InfTake(f, k, kind)
  PROVE  /\ Tile(f, k) = 1 /\ Up(f) = 0 /\ Down(f) = 0 /\ f \notin done /\ f \in known
         /\ infOut[<<f, k, kind>>] = 1
         /\ FewerTileAnswers(infOut, infOut', f, k, kind)
         /\ \A g \in Frames, i \in Tiles :
               Tile(g, i)' = IF g = f /\ i = k THEN 0 ELSE Tile(g, i)
         /\ \A g \in Frames : Up(g)' = Up(g)
         /\ kind = "ok" => <<f, k>> \in detFiles
<1>0. TypeOK /\ ThreadsOK /\ SoamOK /\ OnePlace /\ Files /\ Enrolled
  BY DEF IInv, TypeOK, Places
<1>1. /\ next' = next /\ tile' = tile /\ infTasks' = infTasks
      /\ segTasks' = segTasks /\ segOut' = segOut
      /\ infOut[<<f, k, kind>>] > 0 /\ infOut' = Take(infOut, <<f, k, kind>>)
      /\ pc["inf_fetch"] = "fetch"
  BY DEF InfTake, At, segVars
<1>2. /\ \A g \in Frames, i \in Tiles :
            TileAnswers(infOut, g, i)' = IF g = f /\ i = k THEN TileAnswers(infOut, g, i) - 1
                                                         ELSE TileAnswers(infOut, g, i)
      /\ FewerTileAnswers(infOut, infOut', f, k, kind)
  <2>1. infOut \in [Frames \X Tiles \X Kinds -> Nat] /\ infOut[<<f, k, kind>>] > 0
        /\ infOut' = Take(infOut, <<f, k, kind>>)
    BY <1>0, <1>1 DEF SoamOK
  <2>2. FewerTileAnswers(infOut, infOut', f, k, kind)
    BY <2>1, TileAnswersTake
  <2>3. \A g, i : TileAnswers(infOut, g, i)' = TileAnswers(infOut', g, i)
    BY DEF TileAnswers
  <2> QED
    BY <2>2, <2>3 DEF FewerTileAnswers
<1>3. Tile(f, k) = 1 /\ Up(f) = 0 /\ Down(f) = 0 /\ f \notin done /\ infOut[<<f, k, kind>>] = 1
  <2>1. /\ Tile(f, k) \in Nat /\ infTasks[<<f, k>>] \in Nat
        /\ infOut[<<f, k, "ok">>] \in Nat /\ infOut[<<f, k, "err">>] \in Nat
        /\ infOut[<<f, k, "failed">>] \in Nat
    BY <1>0, PlaceTypes DEF PlacesTyped, Typed, Kinds
  <2>2. Tile(f, k) >= infOut[<<f, k, kind>>]
    <3>1. kind = "ok" \/ kind = "err" \/ kind = "failed"
      BY DEF Kinds
    <3> QED
      BY <2>1, <3>1 DEF Tile, TileAnswers, One
  <2>3. infOut[<<f, k, kind>>] \in Nat
    BY <2>1 DEF Kinds
  <2>4. Tile(f, k) = 1 /\ Up(f) = 0 /\ Down(f) = 0 /\ f \notin done
    BY <1>0, <1>1, <2>1, <2>2, <2>3, Only
  <2> QED
    BY <1>1, <2>2, <2>3, <2>4
<1>4. f \in known
  <2>1. f <= next /\ f \in Nat /\ next \in Nat
    BY <1>0, <1>3, Absent, ConstantsAssumption DEF ThreadsOK, Frames, ConstantsAssumption
  <2> QED
    BY <1>0, <2>1 DEF Enrolled, Registered
<1>5. \A g \in Frames, i \in Tiles : Tile(g, i)' = IF g = f /\ i = k THEN 0 ELSE Tile(g, i)
  <2>1. ASSUME NEW g \in Frames, NEW i \in Tiles
        PROVE  Tile(g, i)' = IF g = f /\ i = k THEN 0 ELSE Tile(g, i)
    <3>1. Has("seg_fetch", "submit", g)' <=> Has("seg_fetch", "submit", g)
      BY <1>0, <1>1 DEF InfTake, Has, Goto, ThreadsOK, Threads, Fetchers
    <3>2. infTasks[<<g, i>>] \in Nat /\ TileAnswers(infOut, g, i) \in Nat
      BY <1>0, PlaceTypes DEF PlacesTyped, Typed
    <3>3. CASE ~(g = f /\ i = k)
      BY <1>1, <1>2, <3>1, <3>3 DEF Tile, One
    <3>4. CASE g = f /\ i = k
      <4>1. Tile(g, i)' = Tile(g, i) - 1
        BY <1>1, <1>2, <3>1, <3>2, <3>4 DEF Tile, One
      <4> QED
        BY <1>3, <3>4, <4>1
    <3> QED
      BY <3>3, <3>4
  <2> QED
    BY <2>1
<1>6. \A g \in Frames : Up(g)' = Up(g)
  BY <1>1, UpKept
<1>7. kind = "ok" => <<f, k>> \in detFiles
  BY <1>0, <1>1 DEF Files, Filed
<1> QED
  BY <1>2, <1>3, <1>4, <1>5, <1>6, <1>7

\* What inf_fetch does with the answer: it counts it, unless it has no id, and the
\* count that is complete puts the frame in its hand.
Skipped == UNCHANGED <<got, errored, dispatched, arg, bad, pc>>
Counts(f, kind) ==
    /\ kind # "failed" /\ got' = [got EXCEPT ![f] = got[f] + 1]
    /\ errored' = IF kind = "ok" THEN errored ELSE errored \cup {f}
Dispatches(f) ==
    /\ got[f] + 1 >= NTiles
    /\ dispatched' = dispatched \cup {f}
    /\ arg' = [arg EXCEPT !["inf_fetch"] = f] /\ bad' = [bad EXCEPT !["inf_fetch"] = TRUE]
    /\ pc' = [pc EXCEPT !["inf_fetch"] = IF f \in errored' THEN "mark" ELSE "submit"]

LEMMA InfTakeCases ==
  ASSUME IInv, Places, NEW f \in Frames, NEW k \in Tiles, NEW kind \in Kinds, InfTake(f, k, kind)
  PROVE  \/ kind = "failed" /\ Skipped
         \/ Counts(f, kind) /\ UNCHANGED <<dispatched, arg, bad, pc>>
         \/ Counts(f, kind) /\ Dispatches(f)
<1>1. f \in known /\ NoId \notin known
  <2>1. known \subseteq Frames /\ NoId \notin Frames
    BY DEF IInv, TypeOK, ClientOK, Frames, NoId
  <2> QED
    BY <2>1, InfTakeFact
<1>2. ReplyId(f, kind) \in known <=> kind # "failed"
  BY <1>1 DEF ReplyId
<1>3. CASE kind = "failed"
  BY <1>2, <1>3 DEF InfTake, Skipped
<1>4. CASE kind # "failed"
  BY <1>2, <1>4 DEF InfTake, Counts, Dispatches, Complete, Goto
<1> QED
  BY <1>3, <1>4

\* The tiles that are past inf_fetch, and their detections, are one more.
LEMMA InfTakeCounted ==
  ASSUME IInv, IInv', Places, NEW f \in Frames, NEW k \in Tiles, NEW kind \in Kinds,
         InfTake(f, k, kind)
  PROVE  /\ Cardinality(Closed(f)') = Cardinality(Closed(f)) + 1
         /\ kind = "ok" => Cardinality(Detected(f)') = Cardinality(Detected(f)) + 1
         /\ Cardinality(Detected(f)') >= Cardinality(Detected(f))
         /\ \A g \in Frames : g # f => Closed(g)' = Closed(g) /\ Detected(g)' = Detected(g)
         /\ \A g \in Frames : /\ Cardinality(Closed(g)) \in Nat /\ Cardinality(Detected(g)) \in Nat
                              /\ Cardinality(Closed(g)') \in Nat /\ Cardinality(Detected(g)') \in Nat
<1>1. detFiles' = detFiles
  BY DEF InfTake, busVars
<1>2. /\ Tile(f, k) = 1 /\ (kind = "ok" => <<f, k>> \in detFiles)
      /\ \A g \in Frames, i \in Tiles : Tile(g, i)' = IF g = f /\ i = k THEN 0 ELSE Tile(g, i)
  BY InfTakeFact
<1>3. Closed(f)' = Closed(f) \cup {k} /\ k \notin Closed(f)
  BY <1>2 DEF Closed
<1>4. /\ kind = "ok" => Detected(f)' = Detected(f) \cup {k}
      /\ k \notin Detected(f) /\ Detected(f) \subseteq Detected(f)'
  BY <1>1, <1>2, <1>3 DEF Detected
<1>5. ASSUME NEW g \in Frames
      PROVE  /\ Closed(g) \in SUBSET Tiles /\ Detected(g) \in SUBSET Tiles
             /\ Closed(g)' \in SUBSET Tiles /\ Detected(g)' \in SUBSET Tiles
  BY DEF Closed, Detected
<1>6. \A g \in Frames : /\ Cardinality(Closed(g)) \in Nat /\ Cardinality(Detected(g)) \in Nat
                        /\ Cardinality(Closed(g)') \in Nat /\ Cardinality(Detected(g)') \in Nat
                        /\ IsFiniteSet(Closed(g)) /\ IsFiniteSet(Detected(g))
  BY <1>5, SomeTiles
<1>7. Cardinality(Detected(f)') >= Cardinality(Detected(f))
  <2>1. Cardinality(Detected(f)) <= Cardinality(Detected(f)')
    BY <1>4, <1>5, SomeTiles
  <2> QED
    BY <1>6, <2>1
<1>8. Cardinality(Closed(f)') = Cardinality(Closed(f)) + 1
  BY <1>3, <1>6, FS_AddElement
<1>9. kind = "ok" => Cardinality(Detected(f)') = Cardinality(Detected(f)) + 1
  BY <1>4, <1>6, FS_AddElement
<1>10. \A g \in Frames : g # f => Closed(g)' = Closed(g) /\ Detected(g)' = Detected(g)
  BY <1>1, <1>2 DEF Closed, Detected
<1> QED
  BY <1>6, <1>7, <1>8, <1>9, <1>10

\* Counted again.
LEMMA InfTakeCount ==
  ASSUME IInv, IInv', Places, NEW f \in Frames, NEW k \in Tiles, NEW kind \in Kinds,
         InfTake(f, k, kind)
  PROVE  Counted'
<1>1. done' = done /\ ClientOK /\ Counted
  BY DEF InfTake, IInv, TypeOK, Places
<1>2. CASE kind = "failed" /\ Skipped
  <2>1. got' = got /\ errored' = errored
    BY <1>2 DEF Skipped
  <2> SUFFICES ASSUME NEW g \in Frames
               PROVE  /\ got[g] <= Cardinality(Closed(g)')
                      /\ g \notin errored \cup done => got[g] <= Cardinality(Detected(g)')
    BY <1>1, <2>1 DEF Counted
  <2>2. /\ got[g] \in Nat /\ got[g] <= Cardinality(Closed(g))
        /\ g \notin errored \cup done => got[g] <= Cardinality(Detected(g))
    BY <1>1 DEF ClientOK, Counted
  <2>3. CASE g = f
    BY <2>2, <2>3, InfTakeCounted
  <2>4. CASE g # f
    BY <2>2, <2>4, InfTakeCounted
  <2> QED
    BY <2>3, <2>4
<1>3. CASE Counts(f, kind)
  <2> SUFFICES ASSUME NEW g \in Frames
               PROVE  /\ got'[g] <= Cardinality(Closed(g)')
                      /\ g \notin errored' \cup done => got'[g] <= Cardinality(Detected(g)')
    BY <1>1 DEF Counted
  <2>1. /\ got[g] \in Nat /\ got[g] <= Cardinality(Closed(g))
        /\ g \notin errored \cup done => got[g] <= Cardinality(Detected(g))
    BY <1>1 DEF ClientOK, Counted
  <2>2. got'[g] = (IF g = f THEN got[g] + 1 ELSE got[g]) /\ errored \subseteq errored'
        /\ (kind # "ok" => f \in errored')
    BY <1>1, <1>3 DEF Counts, ClientOK
  <2>3. CASE g = f
    <3>1. /\ Cardinality(Closed(f)') = Cardinality(Closed(f)) + 1
          /\ kind = "ok" => Cardinality(Detected(f)') = Cardinality(Detected(f)) + 1
          /\ Cardinality(Closed(f)) \in Nat /\ Cardinality(Detected(f)) \in Nat
      BY InfTakeCounted
    <3> QED
      BY <2>1, <2>2, <2>3, <3>1
  <2>4. CASE g # f
    <3>1. Closed(g)' = Closed(g) /\ Detected(g)' = Detected(g)
      BY <2>4, InfTakeCounted
    <3> QED
      BY <2>1, <2>2, <2>4, <3>1
  <2> QED
    BY <2>3, <2>4
<1> QED
  BY <1>2, <1>3, InfTakeCases

\* Where a frame is on its way to _finish, and what is ready for it.
LEMMA InfTakeDown ==
  ASSUME IInv, IInv', Places, NEW f \in Frames, NEW k \in Tiles, NEW kind \in Kinds,
         InfTake(f, k, kind)
  PROVE  /\ \A g \in Frames : g # f => Down(g)' = Down(g)
         /\ Down(f)' = (IF pc'["inf_fetch"] = "fetch" THEN 0 ELSE 1)
         /\ pc'["inf_fetch"] # "fetch" => /\ \A i \in Tiles : Tile(f, i)' = 0
                                          /\ f \in dispatched' /\ Prepared(f)'
<1>0. TypeOK /\ TypeOK' /\ ThreadsOK /\ ClientOK
  BY DEF IInv, TypeOK
<1>1. /\ pc["inf_fetch"] = "fetch" /\ stitchTasks' = stitchTasks /\ stitchOut' = stitchOut
      /\ done' = done /\ detFiles' = detFiles
  BY DEF InfTake, At, stitchVars, busVars
<1>2. Down(f) = 0 /\ f \notin done
  BY InfTakeFact
<1>3. /\ stitchTasks[f] = 0 /\ Answers(stitchOut, f) = 0
      /\ ~Has("seg_fetch", "mark", f) /\ ~Has("stitch_fetch", "dump", f) /\ ~Has("stitch_fetch", "mark", f)
  BY <1>0, <1>2, Absent DEF Stitching
<1>4. CASE UNCHANGED <<arg, bad, pc>>
  <2>1. \A g \in Frames : Down(g)' = Down(g)
    BY <1>1, <1>4 DEF Down, Has, Answers, One
  <2> QED
    BY <1>1, <1>2, <1>4, <2>1
<1>5. CASE Counts(f, kind) /\ Dispatches(f)
  <2>1. /\ pc'["inf_fetch"] = (IF f \in errored' THEN "mark" ELSE "submit") /\ arg'["inf_fetch"] = f
        /\ \A t \in Fetchers : t # "inf_fetch" => pc'[t] = pc[t] /\ arg'[t] = arg[t]
        /\ f \in dispatched'
    BY <1>0, <1>5 DEF Dispatches, ThreadsOK, Threads, Fetchers
  <2>2. ASSUME NEW g \in Frames
        PROVE  /\ Has("seg_fetch", "mark", g)' <=> Has("seg_fetch", "mark", g)
               /\ Has("stitch_fetch", "mark", g)' <=> Has("stitch_fetch", "mark", g)
               /\ Has("stitch_fetch", "dump", g)' <=> Has("stitch_fetch", "dump", g)
               /\ ~Has("inf_fetch", "submit", g) /\ ~Has("inf_fetch", "mark", g)
               /\ Has("inf_fetch", "submit", g)' <=> g = f /\ f \notin errored'
               /\ Has("inf_fetch", "mark", g)' <=> g = f /\ f \in errored'
               /\ stitchTasks'[g] = stitchTasks[g] /\ Answers(stitchOut, g)' = Answers(stitchOut, g)
    BY <1>1, <2>1 DEF Has, Fetchers, Answers
  <2>3. \A g \in Frames : g # f => Down(g)' = Down(g)
    BY <2>2 DEF Down, One
  <2>4. Down(f)' = 1
    BY <1>3, <2>2 DEF Down, One
  <2>5. got'[f] = got[f] + 1 /\ got'[f] >= NTiles /\ got[f] \in Nat
    BY <1>0, <1>5 DEF Counts, Dispatches, ClientOK
  <2>6. \A g \in Frames : /\ got'[g] <= Cardinality(Closed(g)')
                          /\ g \notin errored' \cup done => got'[g] <= Cardinality(Detected(g)')
    BY <1>1, InfTakeCount DEF Counted
  <2>7. Closed(f)' = Tiles
    <3>1. Closed(f)' \in SUBSET Tiles
      BY DEF Closed
    <3>2. Cardinality(Closed(f)') \in Nat /\ Cardinality(Closed(f)') >= NTiles
      BY <2>5, <2>6, <3>1, SomeTiles, TilesFact
    <3> QED
      BY <3>1, <3>2, SomeTiles
  <2>8. \A i \in Tiles : Tile(f, i)' = 0
    BY <2>7 DEF Closed
  <2>9. f \notin errored' => AllDetections(f)'
    <3> SUFFICES ASSUME f \notin errored' PROVE AllDetections(f)'
      OBVIOUS
    <3>1. Detected(f)' \in SUBSET Tiles
      BY DEF Detected, Closed
    <3>2. Cardinality(Detected(f)') \in Nat /\ Cardinality(Detected(f)') >= NTiles
      BY <1>2, <2>5, <2>6, <3>1, SomeTiles, TilesFact
    <3>3. Detected(f)' = Tiles
      BY <3>1, <3>2, SomeTiles
    <3> QED
      BY <3>3 DEF Detected, AllDetections
  <2>10. Prepared(f)'
    BY <1>3, <2>2, <2>9 DEF Prepared
  <2> QED
    BY <2>1, <2>3, <2>4, <2>8, <2>10
<1> QED
  BY <1>4, <1>5, InfTakeCases DEF Skipped

\* An answer for a tile closes the tile, and the last of a frame sends it on.
LEMMA InfTakePlaces ==
  ASSUME IInv, IInv', Places, NEW f \in Frames, NEW k \in Tiles, NEW kind \in Kinds,
         InfTake(f, k, kind)
  PROVE  Places'
<1>0. TypeOK /\ TypeOK' /\ ThreadsOK /\ ClientOK /\ OnePlace /\ Started /\ Files /\ Ready
      /\ Dispatched /\ Verdicts
  BY DEF IInv, TypeOK, Places
<1>1. /\ tile' = tile /\ segOut' = segOut /\ infTasks' = infTasks
      /\ stitchTasks' = stitchTasks /\ stitchOut' = stitchOut
      /\ done' = done /\ segFiles' = segFiles /\ detFiles' = detFiles
      /\ pc["inf_fetch"] = "fetch"
  BY DEF InfTake, At, segVars, stitchVars, busVars
<1>a. \A g \in Frames, i \in Tiles, j \in Kinds :
         infOut'[<<g, i, j>>] = IF g = f /\ i = k /\ j = kind THEN infOut[<<g, i, j>>] - 1
                                                            ELSE infOut[<<g, i, j>>]
  <2>1. FewerTileAnswers(infOut, infOut', f, k, kind)
    BY InfTakeFact
  <2> QED
    BY <2>1 DEF FewerTileAnswers
<1>2. /\ Tile(f, k) = 1 /\ Up(f) = 0 /\ Down(f) = 0 /\ f \notin done
      /\ \A g \in Frames, i \in Tiles : Tile(g, i)' = IF g = f /\ i = k THEN 0 ELSE Tile(g, i)
      /\ \A g \in Frames : Up(g)' = Up(g)
  BY InfTakeFact
<1>3. /\ \A g \in Frames : g # f => Down(g)' = Down(g)
      /\ Down(f)' = (IF pc'["inf_fetch"] = "fetch" THEN 0 ELSE 1)
      /\ pc'["inf_fetch"] # "fetch" => /\ \A i \in Tiles : Tile(f, i)' = 0
                                       /\ f \in dispatched' /\ Prepared(f)'
  BY InfTakeDown
<1>4. /\ \A t \in Fetchers : t # "inf_fetch" => pc'[t] = pc[t] /\ arg'[t] = arg[t]
      /\ \/ pc'["inf_fetch"] = "fetch"
         \/ pc'["inf_fetch"] \in {"mark", "submit"} /\ arg'["inf_fetch"] = f
      /\ \A g \in Frames : g # f => /\ got'[g] = got[g] /\ (g \in errored' <=> g \in errored)
                                    /\ (g \in dispatched' <=> g \in dispatched)
      /\ errored \subseteq errored' /\ dispatched \subseteq dispatched'
  <2>1. CASE UNCHANGED <<dispatched, arg, bad, pc>>
    <3>1. \/ got' = got /\ errored' = errored
          \/ got' = [got EXCEPT ![f] = got[f] + 1] /\ errored' \in {errored, errored \cup {f}}
      BY InfTakeCases DEF Skipped, Counts
    <3> QED
      BY <1>0, <1>1, <2>1, <3>1 DEF ClientOK
  <2>2. CASE Counts(f, kind) /\ Dispatches(f)
    BY <1>0, <2>2 DEF Counts, Dispatches, ThreadsOK, ClientOK, Threads, Fetchers
  <2> QED
    BY <2>1, <2>2, InfTakeCases DEF Skipped
<1>5. /\ bad'["seg_fetch"] = bad["seg_fetch"] /\ bad'["stitch_fetch"] = bad["stitch_fetch"]
      /\ pc'["inf_fetch"] = "mark" => bad'["inf_fetch"]
  <2>1. CASE UNCHANGED <<arg, bad, pc>>
    BY <1>1, <2>1
  <2>2. CASE Dispatches(f)
    BY <1>0, <2>2, Zenon DEF Dispatches, ThreadsOK, Fetchers
  <2> QED
    BY <2>1, <2>2, InfTakeCases DEF Skipped
<1>6. OnePlace'
  <2>1. ASSUME NEW g \in Frames, NEW i \in Tiles
        PROVE  Up(g)' + Tile(g, i)' + Down(g)' + One(g \in done)' <= 1
    <3>1. /\ Up(g) + Tile(g, i) + Down(g) + One(g \in done) <= 1
          /\ Up(g) \in Nat /\ Tile(g, i) \in Nat /\ Down(g) \in Nat /\ One(g \in done) \in Nat
          /\ One(g \in done)' = One(g \in done)
      BY <1>0, <1>1, PlaceTypes DEF OnePlace, PlacesTyped, Typed, One
    <3>2. CASE g # f
      BY <1>2, <1>3, <3>1, <3>2
    <3>3. CASE g = f
      BY <1>2, <1>3, <3>1, <3>3 DEF One
    <3> QED
      BY <3>2, <3>3
  <2> QED
    BY <2>1 DEF OnePlace
<1>7. Started'
  <2>1. ASSUME NEW g \in Frames, Up(g)' = 1
        PROVE  got'[g] = 0 /\ g \notin errored' /\ g \notin dispatched'
    <3>1. g # f
      BY <1>2, <2>1
    <3> QED
      BY <1>0, <1>2, <1>4, <2>1, <3>1 DEF Started
  <2> QED
    BY <2>1 DEF Started
<1>8. Counted'
  BY InfTakeCount
<1>9. \A g \in Frames, l \in {"submit", "dump", "mark"} :
         /\ Has("seg_fetch", l, g)' <=> Has("seg_fetch", l, g)
         /\ Has("stitch_fetch", l, g)' <=> Has("stitch_fetch", l, g)
         /\ g # f => ~Has("inf_fetch", l, g)'
  BY <1>4 DEF Has, Fetchers
<1>10. Files'
  <2>1. ASSUME NEW g \in Frames, NEW i \in Tiles, Filed(g, i) PROVE Filed(g, i)'
    <3>1. infOut'[<<g, i, "ok">>] > 0 => infOut[<<g, i, "ok">>] > 0
      <4>1. "ok" \in Kinds
        BY DEF Kinds
      <4>2. infOut[<<g, i, "ok">>] \in Nat
        BY <1>0, <4>1, PlaceTypes DEF PlacesTyped, Typed
      <4>3. infOut'[<<g, i, "ok">>] = IF g = f /\ i = k /\ "ok" = kind THEN infOut[<<g, i, "ok">>] - 1
                                                                     ELSE infOut[<<g, i, "ok">>]
        BY <1>a, <4>1
      <4> QED
        BY <4>2, <4>3
    <3>2. Has("seg_fetch", "submit", g)' <=> Has("seg_fetch", "submit", g)
      BY <1>9
    <3> QED
      BY <1>1, <2>1, <3>1, <3>2 DEF Filed
  <2> QED
    BY <1>0, <2>1 DEF Files
<1>11. Ready'
  <2>1. ASSUME NEW g \in Frames, Prepared(g) PROVE Prepared(g)'
    <3>1. CASE g # f
      <4>1. ~Has("inf_fetch", "submit", g)' /\ ~Has("inf_fetch", "mark", g)'
        BY <1>9, <3>1
      <4> QED
        BY <1>1, <2>1, <4>1 DEF Prepared, AllDetections
    <3>2. CASE g = f /\ pc'["inf_fetch"] = "fetch"
      <4>1. ~Has("inf_fetch", "submit", g)' /\ ~Has("inf_fetch", "mark", g)'
        BY <3>2 DEF Has
      <4> QED
        BY <1>1, <2>1, <4>1 DEF Prepared, AllDetections
    <3>3. CASE g = f /\ pc'["inf_fetch"] # "fetch"
      BY <1>3, <3>3
    <3> QED
      BY <3>1, <3>2, <3>3
  <2> QED
    BY <1>0, <2>1 DEF Ready
<1>12. Dispatched'
  <2>1. ASSUME NEW g \in Frames, Stitching(g)' PROVE g \in dispatched'
    <3>1. CASE g = f /\ pc'["inf_fetch"] # "fetch"
      BY <1>3, <3>1
    <3>2. CASE ~Has("inf_fetch", "submit", g)'
      <4>1. Stitching(g)
        BY <1>1, <1>9, <2>1, <3>2 DEF Stitching, Answers
      <4> QED
        BY <1>0, <1>4, <4>1 DEF Dispatched
    <3> QED
      BY <1>9, <3>1, <3>2 DEF Has
  <2> QED
    BY <2>1 DEF Dispatched
<1>13. Verdicts'
  <2>1. pc'["seg_fetch"] = pc["seg_fetch"] /\ pc'["stitch_fetch"] = pc["stitch_fetch"]
    BY <1>4 DEF Fetchers
  <2> QED
    BY <1>0, <1>5, <2>1, Zenon DEF Verdicts
<1> QED
  BY <1>6, <1>7, <1>8, <1>10, <1>11, <1>12, <1>13 DEF Places

-----------------------------------------------------------------------------
(* The ledger of places *)

\* In the beginning every frame waits to be sent, and nothing else is anywhere.
LEMMA PlacesInit == Init => Places /\ \A f \in Frames : Up(f) = 1
<1> SUFFICES ASSUME Init PROVE Places /\ \A f \in Frames : Up(f) = 1
  OBVIOUS
<1>1. \A t \in Fetchers : pc[t] \in {"fetch", "check"} /\ arg[t] = NoId
  BY DEF Init, Threads, Fetchers
<1>2. /\ next = 0 /\ done = {} /\ errored = {} /\ dispatched = {}
      /\ \A f \in Frames : got[f] = 0 /\ segTasks[f] = 0 /\ stitchTasks[f] = 0
      /\ \A f \in Frames, k \in Tiles : infTasks[<<f, k>>] = 0
  BY DEF Init, Nothing
<1>o. /\ \A o \in Frames \X Kinds : segOut[o] = 0 /\ stitchOut[o] = 0
      /\ \A o \in Frames \X Tiles \X Kinds : infOut[o] = 0
  BY DEF Init, Nothing
<1>3. \A t \in Fetchers, l \in {"submit", "dump", "mark"}, f \in Frames : ~Has(t, l, f)
  BY <1>1 DEF Has
<1>k. "ok" \in Kinds /\ "err" \in Kinds /\ "failed" \in Kinds
  BY DEF Kinds
<1>4. \A f \in Frames : Answers(segOut, f) = 0 /\ Answers(stitchOut, f) = 0 /\ segOut[<<f, "ok">>] = 0
  <2> SUFFICES ASSUME NEW f \in Frames
               PROVE  Answers(segOut, f) = 0 /\ Answers(stitchOut, f) = 0 /\ segOut[<<f, "ok">>] = 0
    OBVIOUS
  <2>1. <<f, "ok">> \in Frames \X Kinds /\ <<f, "err">> \in Frames \X Kinds
        /\ <<f, "failed">> \in Frames \X Kinds
    BY <1>k
  <2> QED
    BY <1>o, <2>1 DEF Answers
<1>5. \A f \in Frames, k \in Tiles : TileAnswers(infOut, f, k) = 0 /\ infOut[<<f, k, "ok">>] = 0
  <2> SUFFICES ASSUME NEW f \in Frames, NEW k \in Tiles
               PROVE  TileAnswers(infOut, f, k) = 0 /\ infOut[<<f, k, "ok">>] = 0
    OBVIOUS
  <2>1. /\ <<f, k, "ok">> \in Frames \X Tiles \X Kinds /\ <<f, k, "err">> \in Frames \X Tiles \X Kinds
        /\ <<f, k, "failed">> \in Frames \X Tiles \X Kinds
    BY <1>k
  <2> QED
    BY <1>o, <2>1 DEF TileAnswers
<1>6. \A f \in Frames : Up(f) = 1 /\ Down(f) = 0
  <2> SUFFICES ASSUME NEW f \in Frames PROVE Up(f) = 1 /\ Down(f) = 0
    OBVIOUS
  <2>0. next = 0
    BY <1>2
  <2>1. f > next
    BY <2>0, ConstantsAssumption DEF Frames, ConstantsAssumption
  <2>2. /\ segTasks[f] = 0 /\ Answers(segOut, f) = 0
        /\ stitchTasks[f] = 0 /\ Answers(stitchOut, f) = 0
    BY <1>2, <1>4
  <2>3. /\ ~Has("inf_fetch", "submit", f) /\ ~Has("inf_fetch", "mark", f)
        /\ ~Has("stitch_fetch", "dump", f) /\ ~Has("stitch_fetch", "mark", f)
        /\ ~Has("seg_fetch", "mark", f)
    BY <1>3 DEF Fetchers
  <2> QED
    BY <2>1, <2>2, <2>3 DEF Up, Down, One
<1>8. \A f \in Frames, k \in Tiles : Tile(f, k) = 0
  <2> SUFFICES ASSUME NEW f \in Frames, NEW k \in Tiles PROVE Tile(f, k) = 0
    OBVIOUS
  <2>1. ~Has("seg_fetch", "submit", f)
    BY <1>3 DEF Fetchers
  <2>2. infTasks[<<f, k>>] = 0 /\ TileAnswers(infOut, f, k) = 0
    BY <1>2, <1>5
  <2> QED
    BY <2>1, <2>2 DEF Tile, One
<1>9. OnePlace /\ Started
  BY <1>2, <1>6, <1>8 DEF OnePlace, Started, One
<1>10. Counted
  <2>1. \A f \in Frames : Closed(f) \in SUBSET Tiles /\ Detected(f) \in SUBSET Tiles
    BY DEF Closed, Detected
  <2>2. \A f \in Frames : Cardinality(Closed(f)) \in Nat /\ Cardinality(Detected(f)) \in Nat
    BY <2>1, SomeTiles
  <2> QED
    BY <1>2, <2>2 DEF Counted
<1>11. Files
  <2>1. ASSUME NEW f \in Frames, NEW k \in Tiles PROVE Filed(f, k)
    <3>1. ~Has("seg_fetch", "submit", f)
      BY <1>3 DEF Fetchers
    <3> QED
      BY <1>2, <1>4, <1>5, <3>1 DEF Filed
  <2> QED
    BY <2>1 DEF Files
<1>12. Ready /\ Dispatched
  <2>1. ASSUME NEW f \in Frames PROVE Prepared(f) /\ ~Stitching(f)
    <3>1. stitchTasks[f] = 0 /\ Answers(stitchOut, f) = 0
      BY <1>2, <1>4
    <3>2. /\ ~Has("inf_fetch", "submit", f) /\ ~Has("inf_fetch", "mark", f)
          /\ ~Has("stitch_fetch", "dump", f) /\ ~Has("stitch_fetch", "mark", f)
      BY <1>3 DEF Fetchers
    <3> QED
      BY <3>1, <3>2 DEF Prepared, Stitching
  <2> QED
    BY <2>1 DEF Ready, Dispatched
<1>13. Verdicts
  BY <1>1 DEF Verdicts, Fetchers
<1> QED
  BY <1>6, <1>9, <1>10, <1>11, <1>12, <1>13 DEF Places

-----------------------------------------------------------------------------
(* Every step is one of these *)

\* A step that changes no place.
Quiet ==
    \/ Acquire \/ Register \/ SubmitterExit \/ SegFetchExit \/ InfFetchExit
    \/ \E t \in Fetchers : Release(t) \/ SessionGone(t)
    \/ StitchCheck \/ StitchPollTimeout \/ Watchdog \/ Main \/ IdleElapses
    \/ UNCHANGED vars

\* A service has answered a task, and each answer that is not a success has been
\* charged to a worker or to SOAM.
Charged(kind) == Failures' = Failures + One(kind # "ok")
SegServed(f, kind) ==
    /\ SegAnswer(f, kind) /\ Charged(kind)
    /\ segFiles \subseteq segFiles' /\ detFiles' = detFiles
    /\ kind = "ok" => \A k \in Tiles : <<f, k>> \in segFiles'
InfServed(f, k, kind) ==
    /\ InfAnswer(f, k, kind) /\ Charged(kind)
    /\ detFiles \subseteq detFiles' /\ (kind = "ok" => <<f, k>> \in detFiles')
StitchServed(f, kind) == StitchAnswer(f, kind) /\ Charged(kind)

Served ==
    \/ \E f \in Frames, kind \in Kinds : SegServed(f, kind) \/ StitchServed(f, kind)
    \/ \E f \in Frames, k \in Tiles, kind \in Kinds : InfServed(f, k, kind)

LEMMA ChargedFact ==
  ASSUME TypeOK
  PROVE  /\ faults' = faults => Charged("ok")
         /\ \A kind \in {"err", "failed"} : Spend(kind) => Charged(kind)
         /\ Failures \in Nat
<1>1. faults \in [FaultKinds -> Nat] /\ "err" \in FaultKinds /\ "failed" \in FaultKinds
  BY DEF TypeOK, SoamOK, FaultKinds
<1>2. faults["err"] \in Nat /\ faults["failed"] \in Nat
  BY <1>1
<1>3. ASSUME NEW kind \in {"err", "failed"}, Spend(kind) PROVE Charged(kind)
  <2>1. faults' = [faults EXCEPT ![kind] = faults[kind] + 1]
    BY <1>3 DEF Spend
  <2>2. faults'["err"] = (IF kind = "err" THEN faults["err"] + 1 ELSE faults["err"])
        /\ faults'["failed"] = (IF kind = "failed" THEN faults["failed"] + 1 ELSE faults["failed"])
    BY <1>1, <2>1
  <2> QED
    BY <1>2, <2>2 DEF Charged, Failures, One
<1>4. faults' = faults => Charged("ok")
  BY <1>2 DEF Charged, Failures, One
<1> QED
  BY <1>2, <1>3, <1>4 DEF Failures

\* With every file in its place, no worker answers with an error of its own.
LEMMA ServedStep ==
  ASSUME IInv, IInv', Places, Services
  PROVE  Served
<1>0. TypeOK /\ {"ok", "err", "failed"} = Kinds
  BY DEF IInv, Kinds
<1>1. PICK f \in Frames : SegService(f) \/ StitchService(f) \/ \E k \in Tiles : InfService(f, k)
  BY DEF Services
<1>2. CASE SegService(f)
  <2>1. CASE SegOk(f)
    <3>1. NTiles \in Nat /\ \A k \in Tiles : k < NTiles
      BY TilesFact DEF Tiles
    <3>2. /\ segFiles \subseteq segFiles' /\ detFiles' = detFiles
          /\ \A k \in Tiles : <<f, k>> \in segFiles'
      BY <2>1, <3>1 DEF SegOk, WriteTiles
    <3>3. SegServed(f, "ok")
      BY <1>0, <2>1, <3>2, ChargedFact DEF SegOk, SegServed
    <3> QED
      BY <1>0, <3>3 DEF Served
  <2>2. ASSUME NEW kind \in {"err", "failed"}, SegNotOk(f, kind) PROVE Served
    <3>1. segFiles \subseteq segFiles' /\ detFiles' = detFiles
      BY <2>2 DEF SegNotOk, WriteTiles, busVars
    <3>2. SegServed(f, kind)
      BY <1>0, <2>2, <3>1, ChargedFact DEF SegNotOk, SegServed
    <3> QED
      BY <1>0, <3>2 DEF Served
  <2> QED
    BY <1>2, <2>1, <2>2 DEF SegService
<1>3. CASE StitchService(f)
  <2>1. CASE StitchOk(f)
    <3>1. StitchServed(f, "ok")
      BY <1>0, <2>1, ChargedFact DEF StitchOk, StitchServed
    <3> QED
      BY <1>0, <3>1 DEF Served
  <2>2. ASSUME NEW kind \in {"err", "failed"}, StitchNotOk(f, kind) PROVE Served
    <3>1. AllDetections(f)
      BY <2>2 DEF StitchNotOk, StitchAnswer, Places, Ready, Prepared
    <3>2. StitchServed(f, kind)
      BY <1>0, <2>2, <3>1, ChargedFact DEF StitchNotOk, StitchServed
    <3> QED
      BY <1>0, <3>2 DEF Served
  <2> QED
    BY <1>3, <2>1, <2>2 DEF StitchService
<1>4. ASSUME NEW k \in Tiles, InfService(f, k) PROVE Served
  <2>1. CASE InfOk(f, k)
    <3>1. detFiles \subseteq detFiles' /\ <<f, k>> \in detFiles'
      BY <2>1 DEF InfOk, SaveDetections
    <3>2. InfServed(f, k, "ok")
      BY <1>0, <2>1, <3>1, ChargedFact DEF InfOk, InfServed
    <3> QED
      BY <1>0, <3>2 DEF Served
  <2>2. ASSUME NEW kind \in {"err", "failed"}, InfNotOk(f, k, kind) PROVE Served
    <3>1. <<f, k>> \in segFiles
      BY <2>2 DEF InfNotOk, InfAnswer, Places, Files, Filed
    <3>2. detFiles \subseteq detFiles'
      BY <2>2 DEF InfNotOk, SaveDetections
    <3>3. InfServed(f, k, kind)
      BY <1>0, <2>2, <3>1, <3>2, ChargedFact DEF InfNotOk, InfServed
    <3> QED
      BY <1>0, <3>3 DEF Served
  <2> QED
    BY <1>4, <2>1, <2>2 DEF InfService
<1> QED
  BY <1>1, <1>2, <1>3, <1>4

LEMMA StepCases ==
  ASSUME MaxDup = 0, IInv, IInv', Places, [Next]_vars
  PROVE  \/ SendSegment \/ SegSubmitTile \/ InfSubmitStitch \/ StitchDump
         \/ \E t \in Fetchers : Mark(t) \/ Clean(t)
         \/ \E f \in Frames, kind \in Kinds : SegTake(f, kind) \/ StitchTake(f, kind)
         \/ \E f \in Frames, k \in Tiles, kind \in Kinds : InfTake(f, k, kind)
         \/ Served \/ Quiet
<1>1. ~Duplicate
  <2>1. faults["dup"] \in Nat
    BY DEF IInv, TypeOK, SoamOK, FaultKinds
  <2>2. Budget["dup"] = 0
    BY DEF Budget
  <2> QED
    BY <2>1, <2>2 DEF Duplicate, Spend
<1>2. CASE Submitter
  BY <1>2 DEF Submitter, Quiet
<1>3. ASSUME NEW t \in Fetchers, Finish(t)
      PROVE  (\E u \in Fetchers : Mark(u) \/ Clean(u)) \/ Quiet
  BY <1>3 DEF Finish, Quiet
<1>4. CASE SegFetch
  BY <1>3, <1>4 DEF SegFetch, Quiet, Fetchers
<1>5. CASE InfFetch
  BY <1>3, <1>5 DEF InfFetch, Quiet, Fetchers
<1>6. CASE StitchFetch
  BY <1>3, <1>6 DEF StitchFetch, Quiet, Fetchers
<1>7. CASE Services
  BY <1>7, ServedStep
<1>8. CASE Watchdog \/ Main \/ IdleElapses \/ Exited \/ UNCHANGED vars
  BY <1>8 DEF Quiet, Exited
<1> QED
  BY <1>1, <1>2, <1>4, <1>5, <1>6, <1>7, <1>8 DEF Next

\* What the client and the services have counted.
sumVars == <<segSeen, totalVars, faults, dumped>>

\* A quiet step leaves the pipeline, what the threads have in hand and what has been
\* counted as they are.
LEMMA QuietFact ==
  ASSUME TypeOK, Quiet
  PROVE  UNCHANGED <<placeVars, sumVars>> /\ \A t \in Fetchers : Steady(t)
<1>0. ThreadsOK
  BY DEF TypeOK
<1>1. ASSUME NEW t \in Threads, NEW from, NEW to, Move(t, from, to),
             t \in Fetchers => from \notin {"submit", "dump", "mark"} /\ to \notin {"submit", "dump", "mark"}
      PROVE  UNCHANGED <<placeVars, sumVars>> /\ \A u \in Fetchers : Steady(u)
  BY <1>0, <1>1 DEF Move, At, Goto, dataVars, placeVars, sumVars, outVars, localVars, frameVars, soamVars, busVars,
                    Steady, ThreadsOK
<1>2. Fetchers \subseteq Threads /\ "seg_submit" \in Threads \ Fetchers /\ "main" \in Threads \ Fetchers
      /\ "watchdog" \in Threads \ Fetchers /\ "seg_fetch" \in Fetchers /\ "inf_fetch" \in Fetchers
      /\ "stitch_fetch" \in Fetchers
  BY DEF Fetchers, Threads
<1>3. ASSUME NEW t \in Threads, NEW from, NEW to, At(t, from), Goto(t, to),
             t \in Fetchers => from \notin {"submit", "dump", "mark"} /\ to \notin {"submit", "dump", "mark"}
      PROVE  \A u \in Fetchers : Steady(u)
  BY <1>0, <1>3 DEF At, Goto, Steady, ThreadsOK
<1>4. CASE Acquire
  BY <1>2, <1>3, <1>4 DEF Acquire, placeVars, sumVars, outVars, localVars, frameVars, soamVars, busVars
<1>5. CASE Register
  BY <1>2, <1>3, <1>5 DEF Register, placeVars, sumVars, outVars, localVars, soamVars, busVars
<1>6. CASE SubmitterExit
  BY <1>1, <1>2, <1>6 DEF SubmitterExit
<1>7. CASE SegFetchExit \/ InfFetchExit
  BY <1>1, <1>2, <1>7 DEF SegFetchExit, InfFetchExit
<1>8. ASSUME NEW t \in Fetchers, Release(t) PROVE UNCHANGED <<placeVars, sumVars>> /\ \A u \in Fetchers : Steady(u)
  <2>1. UNCHANGED <<placeVars, sumVars>>
    BY <1>8 DEF Release, placeVars, sumVars, outVars, localVars, frameVars, soamVars, busVars
  <2>2. Goto(t, Resume(t)) \/ Goto(t, "dead")
    BY <1>8 DEF Release
  <2>3. At(t, "release") /\ Resume(t) \in {"check", "fetch"}
    BY <1>8 DEF Release, Resume
  <2> QED
    BY <1>2, <1>3, <2>1, <2>2, <2>3
<1>9. ASSUME NEW t \in Fetchers, SessionGone(t)
      PROVE  UNCHANGED <<placeVars, sumVars>> /\ \A u \in Fetchers : Steady(u)
  BY <1>1, <1>2, <1>9 DEF SessionGone
<1>10. CASE StitchCheck \/ StitchPollTimeout
  BY <1>1, <1>2, <1>10 DEF StitchCheck, StitchPollTimeout
<1>11. CASE Watchdog
  <2>1. CASE WatchdogFire
    BY <1>2, <1>3, <2>1 DEF WatchdogFire, placeVars, sumVars, outVars, localVars, frameVars, soamVars, busVars
  <2> QED
    BY <1>1, <1>2, <1>11, <2>1 DEF Watchdog, WatchdogCheck, WatchdogLook
<1>12. CASE Main
  <2>1. CASE MainCloseDump
    BY <1>2, <1>3, <2>1 DEF MainCloseDump, placeVars, sumVars, outVars, localVars, frameVars, soamVars, busVars
  <2>2. CASE MainCloseSessions
    BY <1>2, <1>3, <2>2 DEF MainCloseSessions, placeVars, sumVars, outVars, localVars, frameVars, soamVars, busVars
  <2> QED
    BY <1>1, <1>2, <1>12, <2>1, <2>2 DEF Main, MainWait, MainJoin, MainReport
<1>13. CASE IdleElapses \/ UNCHANGED vars
  BY <1>13 DEF IdleElapses, vars, dataVars, placeVars, sumVars, outVars, localVars, frameVars, soamVars, busVars, Steady
<1> QED
  BY <1>4, <1>5, <1>6, <1>7, <1>8, <1>9, <1>10, <1>11, <1>12, <1>13 DEF Quiet

\* Every step keeps the ledger of places.
LEMMA PlacesStep ==
  ASSUME MaxDup = 0, IInv, IInv', Places, [Next]_vars
  PROVE  Places'
<1>0. TypeOK /\ TypeOK'
  BY DEF IInv
<1>1. ASSUME NEW t \in Fetchers, Mark(t) \/ Clean(t) PROVE Places'
  BY <1>1, MarkPlaces, CleanPlaces
<1>2. ASSUME NEW f \in Frames, NEW kind \in Kinds, SegTake(f, kind) \/ StitchTake(f, kind) PROVE Places'
  BY <1>2, SegTakePlaces, StitchTakePlaces
<1>3. ASSUME NEW f \in Frames, NEW k \in Tiles, NEW kind \in Kinds, InfTake(f, k, kind) PROVE Places'
  BY <1>3, InfTakePlaces
<1>4. ASSUME NEW f \in Frames, NEW kind \in Kinds, SegServed(f, kind) \/ StitchServed(f, kind)
      PROVE  Places'
  BY <1>4, SegAnswerPlaces, StitchAnswerPlaces DEF SegServed, StitchServed
<1>5. ASSUME NEW f \in Frames, NEW k \in Tiles, NEW kind \in Kinds, InfServed(f, k, kind)
      PROVE  Places'
  BY <1>5, InfAnswerPlaces DEF InfServed
<1>6. CASE Quiet
  BY <1>0, <1>6, QuietFact, QuietPlaces
<1> QED
  BY <1>1, <1>2, <1>3, <1>4, <1>5, <1>6, StepCases, SendSegmentPlaces, SegSubmitTilePlaces,
     InfSubmitStitchPlaces, StitchDumpPlaces DEF Served

\* When SOAM delivers each output once, every frame and every tile is in at most one
\* place, and every stage finds what it needs on the bus.
THEOREM PlacesInvariant == ASSUME MaxDup = 0 PROVE Spec => []Places
<1>1. Init => Places
  BY PlacesInit
<1>2. IInv /\ IInv' /\ Places /\ [Next]_vars => Places'
  BY PlacesStep
<1> QED
  BY <1>1, <1>2, Invariant, PTL DEF Spec

\* A stitch task exists only for a frame all of whose detections are on the bus.
THEOREM StitchIsComplete == ASSUME MaxDup = 0 PROVE Spec => []StitchComplete
<1>1. Places => StitchComplete
  BY DEF Places, Ready, Prepared, StitchComplete
<1> QED
  BY <1>1, PlacesInvariant, PTL

\* No task is left for a frame that _finish has taken.
THEOREM TilesNotOrphaned == ASSUME MaxDup = 0 PROVE Spec => []NoTileOrphaned
<1>1. IInv /\ Places => NoTileOrphaned
  <2> SUFFICES ASSUME IInv, Places, NEW f \in done
               PROVE  stitchTasks[f] = 0 /\ \A k \in Tiles : infTasks[<<f, k>>] = 0
    BY DEF NoTileOrphaned
  <2>1. TypeOK /\ OnePlace /\ f \in Frames
    BY DEF IInv, Places, TypeOK, ClientOK
  <2>2. Down(f) = 0 /\ \A k \in Tiles : Tile(f, k) = 0
    BY <2>1, Only
  <2> QED
    BY <2>1, <2>2, Absent
<1> QED
  BY <1>1, PlacesInvariant, Invariant, PTL

-----------------------------------------------------------------------------
(* Sets of frames and of tiles *)

LEMMA FrameSets ==
  /\ Count \in Nat /\ IsFiniteSet(Frames) /\ Cardinality(Frames) = Count
  /\ IsFiniteSet(Frames \X Tiles)
  /\ \A S \in SUBSET Frames : IsFiniteSet(S) /\ Cardinality(S) \in Nat /\ Cardinality(S) <= Count
  /\ \A S \in SUBSET (Frames \X Tiles) : IsFiniteSet(S) /\ Cardinality(S) \in Nat
<1>1. Count \in Nat /\ 1 \in Int /\ Count \in Int
  BY ConstantsAssumption DEF ConstantsAssumption
<1>2. IsFiniteSet(Frames) /\ Cardinality(Frames) = IF 1 > Count THEN 0 ELSE Count - 1 + 1
  BY <1>1, FS_Interval DEF Frames
<1>3. Cardinality(Frames) = Count
  BY <1>1, <1>2
<1>4. IsFiniteSet(Frames \X Tiles)
  BY <1>2, TilesFact, FS_Product
<1>5. ASSUME NEW S \in SUBSET Frames
      PROVE  IsFiniteSet(S) /\ Cardinality(S) \in Nat /\ Cardinality(S) <= Count
  BY <1>2, <1>3, FS_Subset, FS_CardinalityType
<1>6. ASSUME NEW S \in SUBSET (Frames \X Tiles) PROVE IsFiniteSet(S) /\ Cardinality(S) \in Nat
  BY <1>4, FS_Subset, FS_CardinalityType
<1> QED
  BY <1>1, <1>2, <1>3, <1>4, <1>5, <1>6

\* A set with one element more, or without one of its own.
LEMMA OneMore ==
  ASSUME NEW S, IsFiniteSet(S), Cardinality(S) \in Nat, NEW x, x \notin S
  PROVE  Cardinality(S \cup {x}) = Cardinality(S) + 1
  BY FS_AddElement

LEMMA AtMostOneMore ==
  ASSUME NEW S, IsFiniteSet(S), Cardinality(S) \in Nat, NEW x
  PROVE  Cardinality(S \cup {x}) <= Cardinality(S) + 1
<1>1. CASE x \in S
  <2>1. S \cup {x} = S
    BY <1>1
  <2> QED
    BY <2>1
<1>2. CASE x \notin S
  BY <1>2, OneMore
<1> QED
  BY <1>1, <1>2

LEMMA OneLess ==
  ASSUME NEW S, IsFiniteSet(S), Cardinality(S) \in Nat, NEW x, x \in S
  PROVE  Cardinality(S \ {x}) = Cardinality(S) - 1
  BY FS_RemoveElement

\* An answer put into a session is one failure more, unless it is a success; one
\* that is taken, with no other for its frame, is one failure less.
LEMMA BadPut ==
  ASSUME NEW out, NEW new, NEW f \in Frames, NEW kind \in Kinds, MoreAnswers(out, new, f, kind)
  PROVE  Cardinality(Bad(new)) <= Cardinality(Bad(out)) + One(kind # "ok")
<1>1. "err" \in Kinds /\ "failed" \in Kinds
  BY DEF Kinds
<1>2. Bad(out) \in SUBSET Frames /\ Bad(new) \in SUBSET Frames
  BY DEF Bad
<1>3. CASE kind = "ok"
  <2>1. \A g \in Frames : new[<<g, "err">>] = out[<<g, "err">>] /\ new[<<g, "failed">>] = out[<<g, "failed">>]
    BY <1>1, <1>3 DEF MoreAnswers
  <2>2. Bad(new) = Bad(out)
    BY <2>1 DEF Bad
  <2> QED
    BY <1>2, <1>3, <2>2, FrameSets DEF One
<1>4. CASE kind # "ok"
  <2>1. \A g \in Frames : g # f =>
            new[<<g, "err">>] = out[<<g, "err">>] /\ new[<<g, "failed">>] = out[<<g, "failed">>]
    BY <1>1 DEF MoreAnswers
  <2>2. Bad(new) \subseteq Bad(out) \cup {f} /\ Bad(out) \cup {f} \in SUBSET Frames
    BY <1>2, <2>1 DEF Bad
  <2>3. Cardinality(Bad(new)) <= Cardinality(Bad(out) \cup {f})
    BY <2>2, FrameSets, FS_Subset
  <2>4. Cardinality(Bad(out) \cup {f}) <= Cardinality(Bad(out)) + 1
    BY <1>2, FrameSets, AtMostOneMore
  <2> QED
    BY <1>2, <1>4, <2>2, <2>3, <2>4, FrameSets DEF One
<1> QED
  BY <1>3, <1>4

LEMMA BadTake ==
  ASSUME NEW out, NEW new, NEW f \in Frames, NEW kind \in Kinds, FewerAnswers(out, new, f, kind),
         \A j \in Kinds : out[<<f, j>>] \in Nat /\ new[<<f, j>>] = 0, out[<<f, kind>>] > 0
  PROVE  Cardinality(Bad(new)) + One(kind # "ok") <= Cardinality(Bad(out))
<1>1. "err" \in Kinds /\ "failed" \in Kinds
  BY DEF Kinds
<1>2. Bad(out) \in SUBSET Frames /\ Bad(new) \in SUBSET Frames
  BY DEF Bad
<1>3. \A g \in Frames : g # f =>
          new[<<g, "err">>] = out[<<g, "err">>] /\ new[<<g, "failed">>] = out[<<g, "failed">>]
  BY <1>1 DEF FewerAnswers
<1>4. f \notin Bad(new)
  BY <1>1 DEF Bad
<1>5. Bad(new) \subseteq Bad(out) \ {f} /\ Bad(out) \ {f} \in SUBSET Frames
  BY <1>2, <1>3, <1>4 DEF Bad
<1>6. Cardinality(Bad(new)) <= Cardinality(Bad(out) \ {f})
  BY <1>5, FrameSets, FS_Subset
<1>7. Cardinality(Bad(out) \ {f}) <= Cardinality(Bad(out)) - One(kind # "ok")
  <2>1. CASE f \in Bad(out)
    BY <1>2, <2>1, FrameSets, OneLess DEF One
  <2>2. CASE f \notin Bad(out)
    <3>1. kind = "ok"
      BY <1>1, <2>2 DEF Bad, Kinds
    <3>2. Bad(out) \ {f} = Bad(out)
      BY <2>2
    <3> QED
      BY <1>2, <3>1, <3>2, FrameSets DEF One
  <2> QED
    BY <2>1, <2>2
<1> QED
  BY <1>2, <1>5, <1>6, <1>7, FrameSets DEF One

LEMMA BadTilesPut ==
  ASSUME NEW out, NEW new, NEW f \in Frames, NEW k \in Tiles, NEW kind \in Kinds,
         MoreTileAnswers(out, new, f, k, kind)
  PROVE  Cardinality(BadTiles(new)) <= Cardinality(BadTiles(out)) + One(kind # "ok")
<1>1. "err" \in Kinds /\ "failed" \in Kinds
  BY DEF Kinds
<1>2. BadTiles(out) \in SUBSET (Frames \X Tiles) /\ BadTiles(new) \in SUBSET (Frames \X Tiles)
  BY DEF BadTiles
<1>3. ASSUME NEW t \in Frames \X Tiles, t # <<f, k>> \/ kind = "ok"
      PROVE  /\ new[<<t[1], t[2], "err">>] = out[<<t[1], t[2], "err">>]
             /\ new[<<t[1], t[2], "failed">>] = out[<<t[1], t[2], "failed">>]
  <2>1. t[1] \in Frames /\ t[2] \in Tiles /\ t = <<t[1], t[2]>>
    OBVIOUS
  <2>2. ~(t[1] = f /\ t[2] = k) \/ kind = "ok"
    BY <1>3, <2>1
  <2> QED
    BY <1>1, <2>1, <2>2 DEF MoreTileAnswers
<1>4. CASE kind = "ok"
  <2>1. BadTiles(new) = BadTiles(out)
    BY <1>3, <1>4 DEF BadTiles
  <2> QED
    BY <1>2, <1>4, <2>1, FrameSets DEF One
<1>5. CASE kind # "ok"
  <2>1. BadTiles(new) \subseteq BadTiles(out) \cup {<<f, k>>}
        /\ BadTiles(out) \cup {<<f, k>>} \in SUBSET (Frames \X Tiles)
    BY <1>2, <1>3 DEF BadTiles
  <2>2. Cardinality(BadTiles(new)) <= Cardinality(BadTiles(out) \cup {<<f, k>>})
    BY <2>1, FrameSets, FS_Subset
  <2>3. Cardinality(BadTiles(out) \cup {<<f, k>>}) <= Cardinality(BadTiles(out)) + 1
    BY <1>2, FrameSets, AtMostOneMore
  <2> QED
    BY <1>2, <1>5, <2>1, <2>2, <2>3, FrameSets DEF One
<1> QED
  BY <1>4, <1>5

LEMMA BadTilesTake ==
  ASSUME NEW out, NEW new, NEW f \in Frames, NEW k \in Tiles, NEW kind \in Kinds,
         FewerTileAnswers(out, new, f, k, kind),
         \A j \in Kinds : out[<<f, k, j>>] \in Nat /\ new[<<f, k, j>>] = 0, out[<<f, k, kind>>] > 0
  PROVE  Cardinality(BadTiles(new)) + One(kind # "ok") <= Cardinality(BadTiles(out))
<1>1. "err" \in Kinds /\ "failed" \in Kinds
  BY DEF Kinds
<1>2. BadTiles(out) \in SUBSET (Frames \X Tiles) /\ BadTiles(new) \in SUBSET (Frames \X Tiles)
  BY DEF BadTiles
<1>3. ASSUME NEW t \in Frames \X Tiles, t # <<f, k>>
      PROVE  /\ new[<<t[1], t[2], "err">>] = out[<<t[1], t[2], "err">>]
             /\ new[<<t[1], t[2], "failed">>] = out[<<t[1], t[2], "failed">>]
  <2>1. t[1] \in Frames /\ t[2] \in Tiles /\ t = <<t[1], t[2]>>
    OBVIOUS
  <2>2. ~(t[1] = f /\ t[2] = k)
    BY <1>3, <2>1
  <2> QED
    BY <1>1, <2>1, <2>2 DEF FewerTileAnswers
<1>t. <<f, k>> \in Frames \X Tiles /\ <<f, k>>[1] = f /\ <<f, k>>[2] = k
  OBVIOUS
<1>4. <<f, k>> \notin BadTiles(new)
  BY <1>1, <1>t DEF BadTiles
<1>5. BadTiles(new) \subseteq BadTiles(out) \ {<<f, k>>}
      /\ BadTiles(out) \ {<<f, k>>} \in SUBSET (Frames \X Tiles)
  BY <1>2, <1>3, <1>4 DEF BadTiles
<1>6. Cardinality(BadTiles(new)) <= Cardinality(BadTiles(out) \ {<<f, k>>})
  BY <1>5, FrameSets, FS_Subset
<1>7. Cardinality(BadTiles(out) \ {<<f, k>>}) <= Cardinality(BadTiles(out)) - One(kind # "ok")
  <2>1. CASE <<f, k>> \in BadTiles(out)
    BY <1>2, <2>1, FrameSets, OneLess DEF One
  <2>2. CASE <<f, k>> \notin BadTiles(out)
    <3>1. kind = "ok"
      <4>1. ~(out[<<f, k, "err">>] + out[<<f, k, "failed">>] > 0)
        BY <1>t, <2>2 DEF BadTiles
      <4> QED
        BY <1>1, <4>1 DEF Kinds
    <3>2. Cardinality(BadTiles(out) \ {<<f, k>>}) = Cardinality(BadTiles(out))
      <4>1. BadTiles(out) \ {<<f, k>>} = BadTiles(out)
        BY <2>2
      <4> QED
        BY <4>1, Zenon
    <3>3. Cardinality(BadTiles(out)) \in Nat
      BY <1>2, FrameSets
    <3>4. One(kind # "ok") = 0
      BY <3>1 DEF One
    <3> QED
      BY <3>2, <3>3, <3>4
  <2> QED
    BY <2>1, <2>2
<1> QED
  BY <1>2, <1>5, <1>6, <1>7, FrameSets DEF One

-----------------------------------------------------------------------------
(* What is counted as failed has failed *)

\* The counts are natural numbers.
CountsTyped ==
    /\ segErr \in Nat /\ infErr \in Nat /\ infOk \in Nat
    /\ imgDone \in Nat /\ imgErr \in Nat /\ boxes \in Nat
    /\ Cardinality(SegBad) \in Nat /\ Cardinality(InfBad) \in Nat /\ Cardinality(StitchBad) \in Nat
    /\ Cardinality(errored \ done) \in Nat /\ Failures \in Nat

LEMMA CountTypes == TypeOK => CountsTyped
<1> SUFFICES ASSUME TypeOK PROVE CountsTyped
  OBVIOUS
<1>1. /\ segErr \in Nat /\ infErr \in Nat /\ infOk \in Nat
      /\ imgDone \in Nat /\ imgErr \in Nat /\ boxes \in Nat
  BY DEF TypeOK, TotalsOK
<1>2. /\ SegBad \in SUBSET Frames /\ StitchBad \in SUBSET Frames
      /\ InfBad \in SUBSET (Frames \X Tiles)
  BY DEF SegBad, StitchBad, InfBad, Bad, BadTiles
<1>3. errored \ done \in SUBSET Frames
  BY DEF TypeOK, ClientOK
<1>4. /\ Cardinality(SegBad) \in Nat /\ Cardinality(StitchBad) \in Nat
      /\ Cardinality(InfBad) \in Nat /\ Cardinality(errored \ done) \in Nat
  BY <1>2, <1>3, FrameSets
<1> QED
  BY <1>1, <1>4, ChargedFact DEF CountsTyped

\* The one answer for a frame, or for a tile, is the last.
LEMMA LastAnswer ==
  ASSUME NEW out \in [Frames \X Kinds -> Nat], NEW new \in [Frames \X Kinds -> Nat],
         NEW f \in Frames, NEW kind \in Kinds, FewerAnswers(out, new, f, kind),
         Answers(out, f) <= 1
  PROVE  \A j \in Kinds : out[<<f, j>>] \in Nat /\ new[<<f, j>>] = 0
<1>1. "ok" \in Kinds /\ "err" \in Kinds /\ "failed" \in Kinds
  BY DEF Kinds
<1>2. \A j \in Kinds : out[<<f, j>>] \in Nat /\ new[<<f, j>>] \in Nat
  OBVIOUS
<1>3. Answers(new, f) = Answers(out, f) - 1
  BY DEF FewerAnswers
<1>4. Answers(out, f) \in Nat
  BY <1>1, <1>2 DEF Answers
<1>5. new[<<f, "ok">>] = 0 /\ new[<<f, "err">>] = 0 /\ new[<<f, "failed">>] = 0
  BY <1>1, <1>2, <1>3, <1>4 DEF Answers
<1> QED
  BY <1>2, <1>5 DEF Kinds

LEMMA LastTileAnswer ==
  ASSUME NEW out \in [Frames \X Tiles \X Kinds -> Nat], NEW new \in [Frames \X Tiles \X Kinds -> Nat],
         NEW f \in Frames, NEW k \in Tiles, NEW kind \in Kinds, FewerTileAnswers(out, new, f, k, kind),
         TileAnswers(out, f, k) <= 1
  PROVE  \A j \in Kinds : out[<<f, k, j>>] \in Nat /\ new[<<f, k, j>>] = 0
<1>1. "ok" \in Kinds /\ "err" \in Kinds /\ "failed" \in Kinds
  BY DEF Kinds
<1>2. \A j \in Kinds : out[<<f, k, j>>] \in Nat /\ new[<<f, k, j>>] \in Nat
  OBVIOUS
<1>3. TileAnswers(new, f, k) = TileAnswers(out, f, k) - 1
  BY DEF FewerTileAnswers
<1>4. TileAnswers(out, f, k) \in Nat
  BY <1>1, <1>2 DEF TileAnswers
<1>5. /\ new[<<f, k, "ok">>] \in Nat /\ new[<<f, k, "err">>] \in Nat /\ new[<<f, k, "failed">>] \in Nat
      /\ new[<<f, k, "ok">>] + new[<<f, k, "err">>] + new[<<f, k, "failed">>] <= 0
  <2>1. TileAnswers(new, f, k) <= 0
    BY <1>3, <1>4
  <2>2. new[<<f, k, "ok">>] + new[<<f, k, "err">>] + new[<<f, k, "failed">>] <= 0
    BY <2>1 DEF TileAnswers
  <2>3. new[<<f, k, "ok">>] \in Nat
    BY <1>1, <1>2
  <2>4. new[<<f, k, "err">>] \in Nat
    BY <1>1, <1>2
  <2>5. new[<<f, k, "failed">>] \in Nat
    BY <1>1, <1>2
  <2> QED
    BY <2>2, <2>3, <2>4, <2>5
<1>6. \A a, b, c \in Nat : a + b + c <= 0 => a = 0 /\ b = 0 /\ c = 0
  OBVIOUS
<1>7. new[<<f, k, "ok">>] = 0 /\ new[<<f, k, "err">>] = 0 /\ new[<<f, k, "failed">>] = 0
  BY ONLY <1>5, <1>6
<1> QED
  BY <1>2, <1>7 DEF Kinds

\* Each fetch thread takes the failures it counts from its session.
LEMMA SegTakeBad ==
  ASSUME IInv, IInv', Places, NEW f \in Frames, NEW kind \in Kinds, SegTake(f, kind)
  PROVE  Cardinality(SegBad)' + One(kind # "ok") <= Cardinality(SegBad)
<1>1. /\ segOut \in [Frames \X Kinds -> Nat] /\ segOut' \in [Frames \X Kinds -> Nat]
      /\ segOut[<<f, kind>>] > 0 /\ segOut' = Take(segOut, <<f, kind>>)
  BY DEF IInv, TypeOK, SoamOK, SegTake
<1>2. FewerAnswers(segOut, segOut', f, kind)
  BY <1>1, AnswersTake
<1>3. Answers(segOut, f) <= 1
  <2>1. Up(f) = 1 /\ segTasks[f] \in Nat /\ Answers(segOut, f) \in Nat
    BY SegTakePlaces, PlaceTypes DEF IInv, PlacesTyped, Typed
  <2> QED
    BY <2>1 DEF Up, One
<1>4. \A j \in Kinds : segOut[<<f, j>>] \in Nat /\ segOut'[<<f, j>>] = 0
  BY <1>1, <1>2, <1>3, LastAnswer
<1> QED
  BY <1>1, <1>2, <1>4, BadTake DEF SegBad

LEMMA StitchTakeBad ==
  ASSUME IInv, IInv', Places, NEW f \in Frames, NEW kind \in Kinds, StitchTake(f, kind)
  PROVE  Cardinality(StitchBad)' + One(kind # "ok") <= Cardinality(StitchBad)
<1>1. /\ stitchOut \in [Frames \X Kinds -> Nat] /\ stitchOut' \in [Frames \X Kinds -> Nat]
      /\ stitchOut[<<f, kind>>] > 0 /\ stitchOut' = Take(stitchOut, <<f, kind>>)
  BY DEF IInv, TypeOK, SoamOK, StitchTake
<1>2. FewerAnswers(stitchOut, stitchOut', f, kind)
  BY <1>1, AnswersTake
<1>3. Answers(stitchOut, f) <= 1
  <2>1. Down(f) = 1 /\ stitchTasks[f] \in Nat /\ Answers(stitchOut, f) \in Nat
    BY StitchTakePlaces, PlaceTypes DEF IInv, PlacesTyped, Typed
  <2> QED
    BY <2>1 DEF Down, One
<1>4. \A j \in Kinds : stitchOut[<<f, j>>] \in Nat /\ stitchOut'[<<f, j>>] = 0
  BY <1>1, <1>2, <1>3, LastAnswer
<1> QED
  BY <1>1, <1>2, <1>4, BadTake DEF StitchBad

LEMMA InfTakeBad ==
  ASSUME IInv, IInv', Places, NEW f \in Frames, NEW k \in Tiles, NEW kind \in Kinds,
         InfTake(f, k, kind)
  PROVE  Cardinality(InfBad)' + One(kind # "ok") <= Cardinality(InfBad)
<1>1. /\ infOut \in [Frames \X Tiles \X Kinds -> Nat] /\ infOut' \in [Frames \X Tiles \X Kinds -> Nat]
      /\ infOut[<<f, k, kind>>] > 0
  BY DEF IInv, TypeOK, SoamOK, InfTake
<1>2. FewerTileAnswers(infOut, infOut', f, k, kind)
  BY InfTakeFact
<1>3. TileAnswers(infOut, f, k) <= 1
  <2>1. Tile(f, k) = 1 /\ infTasks[<<f, k>>] \in Nat /\ TileAnswers(infOut, f, k) \in Nat
    BY InfTakeFact, PlaceTypes DEF IInv, PlacesTyped, Typed
  <2> QED
    BY <2>1 DEF Tile, One
<1>4. \A j \in Kinds : infOut[<<f, k, j>>] \in Nat /\ infOut'[<<f, k, j>>] = 0
  BY <1>1, <1>2, <1>3, LastTileAnswer
<1> QED
  BY <1>1, <1>2, <1>4, BadTilesTake DEF InfBad

\* An answer that reports a failure has been charged for it.
LEMMA ServedBad ==
  ASSUME IInv, IInv', Places, Served
  PROVE  /\ Cardinality(SegBad)' + Cardinality(InfBad)' + Cardinality(StitchBad)' + Failures
            <= Cardinality(SegBad) + Cardinality(InfBad) + Cardinality(StitchBad) + Failures'
         /\ Cardinality(SegBad)' + Cardinality(InfBad)' + Failures
            <= Cardinality(SegBad) + Cardinality(InfBad) + Failures'
         /\ UNCHANGED clientVars
<1>0. /\ CountsTyped /\ CountsTyped'
      /\ segOut \in [Frames \X Kinds -> Nat] /\ stitchOut \in [Frames \X Kinds -> Nat]
      /\ infOut \in [Frames \X Tiles \X Kinds -> Nat]
  <2>1. TypeOK /\ TypeOK'
    BY DEF IInv
  <2>2. CountsTyped'
    BY <2>1, CountTypes, PTL
  <2> QED
    BY <2>1, <2>2, CountTypes DEF TypeOK, SoamOK
<1>1. ASSUME NEW f \in Frames, NEW kind \in Kinds, SegServed(f, kind)
      PROVE  /\ Cardinality(SegBad)' <= Cardinality(SegBad) + One(kind # "ok")
             /\ InfBad' = InfBad /\ StitchBad' = StitchBad /\ Charged(kind) /\ UNCHANGED clientVars
  <2>1. /\ segOut' = Put(segOut, <<f, kind>>) /\ infOut' = infOut /\ stitchOut' = stitchOut
        /\ Charged(kind) /\ UNCHANGED clientVars
    BY <1>1 DEF SegServed, SegAnswer, infVars, stitchVars
  <2>2. MoreAnswers(segOut, segOut', f, kind)
    BY <1>0, <2>1, AnswersPut
  <2>3. Cardinality(SegBad)' <= Cardinality(SegBad) + One(kind # "ok")
    BY <2>2, BadPut DEF SegBad
  <2> QED
    BY <2>1, <2>3 DEF InfBad, StitchBad
<1>2. ASSUME NEW f \in Frames, NEW kind \in Kinds, StitchServed(f, kind)
      PROVE  /\ Cardinality(StitchBad)' <= Cardinality(StitchBad) + One(kind # "ok")
             /\ InfBad' = InfBad /\ SegBad' = SegBad /\ Charged(kind) /\ UNCHANGED clientVars
  <2>1. /\ stitchOut' = Put(stitchOut, <<f, kind>>) /\ infOut' = infOut /\ segOut' = segOut
        /\ Charged(kind) /\ UNCHANGED clientVars
    BY <1>2 DEF StitchServed, StitchAnswer, infVars, segVars
  <2>2. MoreAnswers(stitchOut, stitchOut', f, kind)
    BY <1>0, <2>1, AnswersPut
  <2>3. Cardinality(StitchBad)' <= Cardinality(StitchBad) + One(kind # "ok")
    BY <2>2, BadPut DEF StitchBad
  <2> QED
    BY <2>1, <2>3 DEF InfBad, SegBad
<1>3. ASSUME NEW f \in Frames, NEW k \in Tiles, NEW kind \in Kinds, InfServed(f, k, kind)
      PROVE  /\ Cardinality(InfBad)' <= Cardinality(InfBad) + One(kind # "ok")
             /\ SegBad' = SegBad /\ StitchBad' = StitchBad /\ Charged(kind) /\ UNCHANGED clientVars
  <2>1. /\ infOut' = Put(infOut, <<f, k, kind>>) /\ segOut' = segOut /\ stitchOut' = stitchOut
        /\ Charged(kind) /\ UNCHANGED clientVars
    BY <1>3 DEF InfServed, InfAnswer, segVars, stitchVars
  <2>2. MoreTileAnswers(infOut, infOut', f, k, kind)
    BY <1>0, <2>1, TileAnswersPut
  <2>3. Cardinality(InfBad)' <= Cardinality(InfBad) + One(kind # "ok")
    BY <2>2, BadTilesPut DEF InfBad
  <2> QED
    BY <2>1, <2>3 DEF SegBad, StitchBad
<1>4. ASSUME NEW f \in Frames, NEW kind \in Kinds, SegServed(f, kind) PROVE
         /\ Cardinality(SegBad)' + Cardinality(InfBad)' + Cardinality(StitchBad)' + Failures
            <= Cardinality(SegBad) + Cardinality(InfBad) + Cardinality(StitchBad) + Failures'
         /\ Cardinality(SegBad)' + Cardinality(InfBad)' + Failures
            <= Cardinality(SegBad) + Cardinality(InfBad) + Failures'
  <2>1. Cardinality(InfBad)' = Cardinality(InfBad) /\ Cardinality(StitchBad)' = Cardinality(StitchBad)
    BY <1>1, <1>4
  <2> QED
    BY <1>0, <1>1, <1>4, <2>1 DEF CountsTyped, Charged, One
<1>5. ASSUME NEW f \in Frames, NEW kind \in Kinds, StitchServed(f, kind) PROVE
         /\ Cardinality(SegBad)' + Cardinality(InfBad)' + Cardinality(StitchBad)' + Failures
            <= Cardinality(SegBad) + Cardinality(InfBad) + Cardinality(StitchBad) + Failures'
         /\ Cardinality(SegBad)' + Cardinality(InfBad)' + Failures
            <= Cardinality(SegBad) + Cardinality(InfBad) + Failures'
  <2>1. Cardinality(InfBad)' = Cardinality(InfBad) /\ Cardinality(SegBad)' = Cardinality(SegBad)
    BY <1>2, <1>5
  <2> QED
    BY <1>0, <1>2, <1>5, <2>1 DEF CountsTyped, Charged, One
<1>6. ASSUME NEW f \in Frames, NEW k \in Tiles, NEW kind \in Kinds, InfServed(f, k, kind) PROVE
         /\ Cardinality(SegBad)' + Cardinality(InfBad)' + Cardinality(StitchBad)' + Failures
            <= Cardinality(SegBad) + Cardinality(InfBad) + Cardinality(StitchBad) + Failures'
         /\ Cardinality(SegBad)' + Cardinality(InfBad)' + Failures
            <= Cardinality(SegBad) + Cardinality(InfBad) + Failures'
  <2>1. Cardinality(SegBad)' = Cardinality(SegBad) /\ Cardinality(StitchBad)' = Cardinality(StitchBad)
    BY <1>3, <1>6
  <2> QED
    BY <1>0, <1>3, <1>6, <2>1 DEF CountsTyped, Charged, One
<1> QED
  BY <1>1, <1>2, <1>3, <1>4, <1>5, <1>6 DEF Served

\* One of the two threads that finish a failed frame by themselves does so.
SegBlamed    == One(pc["seg_fetch"] = "mark")
StitchBlamed == One(pc["stitch_fetch"] = "mark" /\ bad["stitch_fetch"])

\* The sums, in terms of what a step does to each term.
LEMMA ErrorSums ==
  ASSUME TypeOK, TypeOK', TaskErrors, FrameErrors,
         segErr' + infErr' + Cardinality(SegBad)' + Cardinality(InfBad)' + Failures
            <= segErr + infErr + Cardinality(SegBad) + Cardinality(InfBad) + Failures',
         imgErr' + Cardinality(SegBad)' + Cardinality(InfBad)' + Cardinality(StitchBad)'
            + Cardinality(errored \ done)' + SegBlamed' + StitchBlamed' + Failures
            <= imgErr + Cardinality(SegBad) + Cardinality(InfBad) + Cardinality(StitchBad)
               + Cardinality(errored \ done) + SegBlamed + StitchBlamed + Failures'
  PROVE  TaskErrors' /\ FrameErrors'
<1>1. CountsTyped'
  <2>1. TypeOK'
    OBVIOUS
  <2> QED
    BY <2>1, CountTypes, PTL
<1>2. CountsTyped
  BY CountTypes
<1>3. /\ SegBlamed \in Nat /\ StitchBlamed \in Nat /\ SegBlamed' \in Nat /\ StitchBlamed' \in Nat
  BY DEF SegBlamed, StitchBlamed, One
<1>4. TaskErrors'
  BY <1>1, <1>2 DEF CountsTyped, TaskErrors
<1>5. imgErr + Cardinality(SegBad) + Cardinality(InfBad) + Cardinality(StitchBad)
      + Cardinality(errored \ done) + SegBlamed + StitchBlamed <= Failures
  BY DEF FrameErrors, SegBlamed, StitchBlamed
<1>6. imgErr' + Cardinality(SegBad)' + Cardinality(InfBad)' + Cardinality(StitchBad)'
      + Cardinality(errored \ done)' + SegBlamed' + StitchBlamed' <= Failures'
  BY <1>1, <1>2, <1>3, <1>5 DEF CountsTyped
<1>7. FrameErrors'
  BY <1>6 DEF FrameErrors, SegBlamed, StitchBlamed
<1> QED
  BY <1>4, <1>7

errorVars == <<segErr, infErr, imgErr, segOut, infOut, stitchOut, faults, errored, done, arg, bad>>

\* A step that counts nothing and sends no frame to _finish.
LEMMA SameErrors ==
  ASSUME TypeOK, TypeOK', Errors, UNCHANGED errorVars,
         \A t \in Fetchers : pc'[t] = "mark" => pc[t] = "mark"
  PROVE  Errors'
<1>0. /\ segErr' = segErr /\ infErr' = infErr /\ imgErr' = imgErr /\ faults' = faults
      /\ segOut' = segOut /\ infOut' = infOut /\ stitchOut' = stitchOut
      /\ errored' = errored /\ done' = done /\ arg' = arg /\ bad' = bad
  BY DEF errorVars
<1>t. CountsTyped
  BY CountTypes
<1>1. /\ Cardinality(SegBad)' = Cardinality(SegBad) /\ Cardinality(InfBad)' = Cardinality(InfBad)
      /\ Cardinality(StitchBad)' = Cardinality(StitchBad) /\ Failures' = Failures
      /\ Cardinality(errored \ done)' = Cardinality(errored \ done)
  BY <1>0 DEF SegBad, InfBad, StitchBad, Failures
<1>2. /\ pc'["seg_fetch"] = "mark" => pc["seg_fetch"] = "mark"
      /\ pc'["stitch_fetch"] = "mark" => pc["stitch_fetch"] = "mark"
  BY DEF Fetchers
<1>3. /\ SegBlamed' <= SegBlamed /\ SegBlamed' \in Nat /\ SegBlamed \in Nat
      /\ StitchBlamed' <= StitchBlamed /\ StitchBlamed' \in Nat /\ StitchBlamed \in Nat
  BY <1>0, <1>2 DEF SegBlamed, StitchBlamed, One
<1>4. TaskErrors' /\ FrameErrors'
  BY <1>0, <1>t, <1>1, <1>3, ErrorSums DEF CountsTyped, Errors
<1>5. Named'
  BY <1>0, <1>2 DEF Errors, Named
<1> QED
  BY <1>4, <1>5 DEF Errors

\* _finish counts a failure that had been blamed on its frame.
LEMMA MarkErrors ==
  ASSUME IInv, IInv', Places, Errors, NEW t \in Fetchers, Mark(t)
  PROVE  Errors'
<1>0. /\ TypeOK /\ TypeOK' /\ CountsTyped /\ ThreadsOK /\ ClientOK /\ TaskErrors /\ FrameErrors /\ Named
      /\ Verdicts /\ Ready
  BY CountTypes DEF IInv, TypeOK, Errors, Places
<1>1. /\ segErr' = segErr /\ infErr' = infErr /\ faults' = faults
      /\ segOut' = segOut /\ infOut' = infOut /\ stitchOut' = stitchOut
      /\ errored' = errored /\ arg' = arg /\ bad' = bad
  BY DEF Mark, localVars, soamVars, segVars, infVars, stitchVars
<1>2. /\ pc[t] = "mark" /\ pc'[t] = "clean"
      /\ \A u \in Fetchers : u # t => pc'[u] = pc[u]
      /\ done' = done \cup ({arg[t]} \cap Frames)
      /\ imgErr' = (IF bad[t] THEN imgErr + 1 ELSE imgErr)
      /\ arg[t] \notin done
  BY MarkFact DEF Threads
<1>3. /\ Cardinality(SegBad)' = Cardinality(SegBad) /\ Cardinality(InfBad)' = Cardinality(InfBad)
      /\ Cardinality(StitchBad)' = Cardinality(StitchBad) /\ Failures' = Failures
  BY <1>1 DEF SegBad, InfBad, StitchBad, Failures
<1>4. /\ errored \ done \in SUBSET Frames /\ (errored \ done)' \in SUBSET (errored \ done)
  BY <1>0, <1>1, <1>2 DEF ClientOK
<1>5. /\ IsFiniteSet(errored \ done) /\ Cardinality(errored \ done)' \in Nat
      /\ Cardinality(errored \ done)' <= Cardinality(errored \ done)
  <2>1. IsFiniteSet(errored \ done)
    BY <1>4, FrameSets
  <2>2. IsFiniteSet((errored \ done)') /\ Cardinality((errored \ done)') <= Cardinality(errored \ done)
    BY <1>4, <2>1, FS_Subset
  <2> QED
    BY <2>1, <2>2, FS_CardinalityType
<1>6. /\ SegBlamed' = (IF t = "seg_fetch" THEN 0 ELSE SegBlamed)
      /\ StitchBlamed' = (IF t = "stitch_fetch" THEN 0 ELSE StitchBlamed)
      /\ SegBlamed \in Nat /\ StitchBlamed \in Nat
  <2>1. /\ t = "seg_fetch" => pc'["seg_fetch"] = "clean"
        /\ t # "seg_fetch" => pc'["seg_fetch"] = pc["seg_fetch"]
        /\ t = "stitch_fetch" => pc'["stitch_fetch"] = "clean"
        /\ t # "stitch_fetch" => pc'["stitch_fetch"] = pc["stitch_fetch"]
    BY <1>2 DEF Fetchers
  <2> QED
    BY <1>1, <2>1 DEF SegBlamed, StitchBlamed, One
<1>7. imgErr' + Cardinality(errored \ done)' + SegBlamed' + StitchBlamed'
         <= imgErr + Cardinality(errored \ done) + SegBlamed + StitchBlamed
  <2>1. CASE t = "seg_fetch"
    <3>1. SegBlamed = 1
      BY <1>2, <2>1 DEF SegBlamed, One
    <3> QED
      BY <1>0, <1>2, <1>5, <1>6, <2>1, <3>1 DEF CountsTyped
  <2>2. CASE t = "stitch_fetch"
    <3>1. StitchBlamed = IF bad["stitch_fetch"] THEN 1 ELSE 0
      BY <1>2, <2>2 DEF StitchBlamed, One
    <3>2. imgErr' = imgErr + StitchBlamed
      BY <1>0, <1>2, <2>2, <3>1 DEF CountsTyped
    <3> QED
      BY <1>0, <1>5, <1>6, <2>2, <3>2 DEF CountsTyped
  <2>3. CASE t = "inf_fetch"
    <3>1. bad["inf_fetch"]
      BY <1>0, <1>2, <2>3 DEF Verdicts
    <3>2. arg["inf_fetch"] \in Frames
      BY <1>0, <2>3, <3>1 DEF Named, ThreadsOK
    <3>3. arg["inf_fetch"] \in errored \ done
      <4>1. Has("inf_fetch", "mark", arg["inf_fetch"])
        BY <1>2, <2>3 DEF Has
      <4> QED
        BY <1>0, <1>2, <2>3, <3>2, <4>1 DEF Ready, Prepared
    <3>4. (errored \ done)' = (errored \ done) \ {arg["inf_fetch"]}
      BY <1>1, <1>2, <2>3, <3>2
    <3>5. Cardinality(errored \ done)' = Cardinality(errored \ done) - 1
      BY <1>0, <1>5, <3>3, <3>4, OneLess DEF CountsTyped
    <3> QED
      BY <1>0, <1>2, <1>6, <2>3, <3>5 DEF CountsTyped
  <2> QED
    BY <2>1, <2>2, <2>3 DEF Fetchers
<1>8. TaskErrors' /\ FrameErrors'
  <2>1. CountsTyped'
    BY <1>0, CountTypes, PTL
  <2>2. SegBlamed' \in Nat /\ StitchBlamed' \in Nat
    BY <1>6
  <2> QED
    BY <1>0, <1>1, <1>3, <1>6, <1>7, <2>1, <2>2, ErrorSums DEF CountsTyped
<1>9. Named'
  <2>1. pc'["stitch_fetch"] = "mark" => pc["stitch_fetch"] = "mark"
    BY <1>2 DEF Fetchers
  <2> QED
    BY <1>0, <1>1, <2>1 DEF Named
<1> QED
  BY <1>8, <1>9 DEF Errors

\* The terms of the sums that a step leaves alone.
SameCounts == /\ Failures' = Failures
              /\ Cardinality(errored \ done)' = Cardinality(errored \ done)

LEMMA SegTakeErrors ==
  ASSUME IInv, IInv', Places, Errors, NEW f \in Frames, NEW kind \in Kinds, SegTake(f, kind)
  PROVE  Errors'
<1>0. /\ TypeOK /\ TypeOK' /\ CountsTyped /\ ThreadsOK /\ TaskErrors /\ FrameErrors /\ Named
  BY CountTypes DEF IInv, TypeOK, Errors
<1>1. CountsTyped'
  BY <1>0, CountTypes, PTL
<1>2. /\ infErr' = infErr /\ imgErr' = imgErr /\ infOut' = infOut /\ stitchOut' = stitchOut
      /\ errored' = errored /\ done' = done /\ faults' = faults
      /\ segErr' = segErr + One(kind # "ok")
  BY <1>0 DEF SegTake, infVars, stitchVars, frameVars, CountsTyped, One
<1>3. /\ arg'["inf_fetch"] = arg["inf_fetch"] /\ bad'["inf_fetch"] = bad["inf_fetch"]
      /\ arg'["stitch_fetch"] = arg["stitch_fetch"] /\ bad'["stitch_fetch"] = bad["stitch_fetch"]
      /\ pc'["stitch_fetch"] = pc["stitch_fetch"] /\ pc["seg_fetch"] = "fetch"
      /\ pc'["seg_fetch"] = IF kind = "ok" THEN "submit" ELSE "mark"
  BY <1>0 DEF SegTake, At, Goto, ThreadsOK, Fetchers, Threads
<1>4. /\ Cardinality(InfBad)' = Cardinality(InfBad) /\ Cardinality(StitchBad)' = Cardinality(StitchBad)
      /\ SameCounts
  BY <1>2 DEF InfBad, StitchBad, Failures, SameCounts
<1>5. /\ SegBlamed = 0 /\ SegBlamed' = One(kind # "ok")
      /\ StitchBlamed' = StitchBlamed /\ StitchBlamed \in Nat /\ One(kind # "ok") \in Nat
  BY <1>3 DEF SegBlamed, StitchBlamed, One
<1>6. Cardinality(SegBad)' + One(kind # "ok") <= Cardinality(SegBad)
  BY SegTakeBad
<1>7. TaskErrors' /\ FrameErrors'
  BY <1>0, <1>1, <1>2, <1>4, <1>5, <1>6, ErrorSums DEF CountsTyped, SameCounts
<1>8. Named'
  BY <1>0, <1>3 DEF Named
<1> QED
  BY <1>7, <1>8 DEF Errors

LEMMA StitchTakeErrors ==
  ASSUME IInv, IInv', Places, Errors, NEW f \in Frames, NEW kind \in Kinds, StitchTake(f, kind)
  PROVE  Errors'
<1>0. /\ TypeOK /\ TypeOK' /\ CountsTyped /\ ThreadsOK /\ TaskErrors /\ FrameErrors /\ Named
  BY CountTypes DEF IInv, TypeOK, Errors
<1>1. CountsTyped'
  BY <1>0, CountTypes, PTL
<1>2. /\ segErr' = segErr /\ infErr' = infErr /\ imgErr' = imgErr /\ infOut' = infOut /\ segOut' = segOut
      /\ errored' = errored /\ done' = done /\ faults' = faults
  BY DEF StitchTake, infVars, segVars, frameVars
<1>3. /\ arg'["inf_fetch"] = arg["inf_fetch"] /\ bad'["inf_fetch"] = bad["inf_fetch"]
      /\ pc'["seg_fetch"] = pc["seg_fetch"] /\ pc["stitch_fetch"] = "fetch"
      /\ pc'["stitch_fetch"] = (IF kind = "ok" THEN "dump" ELSE "mark")
  BY <1>0 DEF StitchTake, At, Goto, ThreadsOK, Fetchers, Threads
<1>b. bad'["stitch_fetch"] = (kind # "ok")
  BY <1>0 DEF StitchTake, ThreadsOK, Fetchers
<1>4. /\ Cardinality(InfBad)' = Cardinality(InfBad) /\ Cardinality(SegBad)' = Cardinality(SegBad)
      /\ SameCounts
  BY <1>2 DEF InfBad, SegBad, Failures, SameCounts
<1>5. /\ StitchBlamed = 0 /\ StitchBlamed' = One(kind # "ok")
      /\ SegBlamed' = SegBlamed /\ SegBlamed \in Nat /\ One(kind # "ok") \in Nat
  BY <1>3, <1>b DEF SegBlamed, StitchBlamed, One
<1>6. Cardinality(StitchBad)' + One(kind # "ok") <= Cardinality(StitchBad)
  BY StitchTakeBad
<1>7. TaskErrors' /\ FrameErrors'
  BY <1>0, <1>1, <1>2, <1>4, <1>5, <1>6, ErrorSums DEF CountsTyped, SameCounts
<1>8. Named'
  <2>1. pc'["stitch_fetch"] = "mark" => bad'["stitch_fetch"]
    BY <1>3, <1>b
  <2> QED
    BY <1>0, <1>3, <2>1 DEF Named
<1> QED
  BY <1>7, <1>8 DEF Errors

LEMMA InfTakeErrors ==
  ASSUME IInv, IInv', Places, Errors, NEW f \in Frames, NEW k \in Tiles, NEW kind \in Kinds,
         InfTake(f, k, kind)
  PROVE  Errors'
<1>0. /\ TypeOK /\ TypeOK' /\ CountsTyped /\ ThreadsOK /\ ClientOK /\ TaskErrors /\ FrameErrors /\ Named
  BY CountTypes DEF IInv, TypeOK, Errors
<1>1. CountsTyped'
  BY <1>0, CountTypes, PTL
<1>2. /\ segErr' = segErr /\ imgErr' = imgErr /\ segOut' = segOut /\ stitchOut' = stitchOut
      /\ done' = done /\ faults' = faults
      /\ infErr' = infErr + One(kind # "ok")
  BY <1>0 DEF InfTake, segVars, stitchVars, CountsTyped, One
<1>3. errored' = errored \/ errored' = errored \cup {f}
  BY InfTakeCases DEF Skipped, Counts
<1>3a. kind = "ok" => errored' = errored
  BY InfTakeCases DEF Skipped, Counts
<1>c. \/ UNCHANGED <<arg, bad, pc>>
      \/ /\ arg' = [arg EXCEPT !["inf_fetch"] = f] /\ bad' = [bad EXCEPT !["inf_fetch"] = TRUE]
         /\ \E label \in {"mark", "submit"} : pc' = [pc EXCEPT !["inf_fetch"] = label]
  BY InfTakeCases DEF Skipped, Dispatches
<1>4. /\ pc'["seg_fetch"] = pc["seg_fetch"] /\ pc'["stitch_fetch"] = pc["stitch_fetch"]
      /\ bad'["stitch_fetch"] = bad["stitch_fetch"] /\ arg'["stitch_fetch"] = arg["stitch_fetch"]
      /\ (arg'["inf_fetch"] = f \/ (arg'["inf_fetch"] = arg["inf_fetch"] /\ bad'["inf_fetch"] = bad["inf_fetch"]))
  BY <1>0, <1>c DEF ThreadsOK, Fetchers, Threads
<1>5. /\ Cardinality(SegBad)' = Cardinality(SegBad) /\ Cardinality(StitchBad)' = Cardinality(StitchBad)
      /\ Failures' = Failures
  BY <1>2 DEF SegBad, StitchBad, Failures
<1>6. /\ SegBlamed' = SegBlamed /\ StitchBlamed' = StitchBlamed
      /\ SegBlamed \in Nat /\ StitchBlamed \in Nat /\ One(kind # "ok") \in Nat
  BY <1>4 DEF SegBlamed, StitchBlamed, One
<1>7. Cardinality(InfBad)' + One(kind # "ok") <= Cardinality(InfBad)
  BY InfTakeBad
<1>8. Cardinality(errored \ done)' <= Cardinality(errored \ done) + One(kind # "ok")
  <2>1. CASE errored' = errored
    <3>1. Cardinality(errored \ done)' = Cardinality(errored \ done)
      BY <1>2, <2>1
    <3> QED
      BY <1>0, <1>6, <3>1 DEF CountsTyped
  <2>2. CASE errored' # errored
    <3>1. kind # "ok" /\ errored' = errored \cup {f} /\ f \notin done
      BY <1>3, <1>3a, <2>2, InfTakeFact
    <3>2. (errored \ done)' = (errored \ done) \cup {f}
      BY <1>2, <3>1
    <3>3. errored \ done \in SUBSET Frames
      BY <1>0 DEF ClientOK
    <3>4. Cardinality((errored \ done) \cup {f}) <= Cardinality(errored \ done) + 1
      BY <3>3, FrameSets, AtMostOneMore
    <3> QED
      BY <3>1, <3>2, <3>4 DEF One
  <2> QED
    BY <2>1, <2>2
<1>9. TaskErrors' /\ FrameErrors'
  BY <1>0, <1>1, <1>2, <1>5, <1>6, <1>7, <1>8, ErrorSums DEF CountsTyped
<1>10. Named'
  <2>1. f # NoId
    BY DEF Frames, NoId
  <2> QED
    BY <1>0, <1>4, <2>1 DEF Named
<1> QED
  BY <1>9, <1>10 DEF Errors

\* The dump sends a success of a frame with an id to _finish.
LEMMA StitchDumpErrors ==
  ASSUME IInv, IInv', Places, Errors, StitchDump
  PROVE  Errors'
<1>0. /\ TypeOK /\ TypeOK' /\ CountsTyped /\ ThreadsOK /\ Control /\ TaskErrors /\ FrameErrors /\ Named
      /\ Verdicts
  BY CountTypes DEF IInv, TypeOK, Errors, Places
<1>1. /\ segErr' = segErr /\ infErr' = infErr /\ imgErr' = imgErr
      /\ segOut' = segOut /\ infOut' = infOut /\ stitchOut' = stitchOut
      /\ errored' = errored /\ done' = done /\ faults' = faults /\ arg' = arg /\ bad' = bad
  BY DEF StitchDump, localVars, frameVars, totalVars, soamVars, segVars, infVars, stitchVars
<1>2. /\ pc'["seg_fetch"] = pc["seg_fetch"] /\ pc["stitch_fetch"] = "dump"
  BY <1>0 DEF StitchDump, At, Goto, ThreadsOK, Threads, Fetchers
<1>3. ~bad["stitch_fetch"] /\ arg["stitch_fetch"] # NoId
  BY <1>0, <1>2 DEF Verdicts, Control, Frames, NoId
<1>4. /\ Cardinality(SegBad)' = Cardinality(SegBad) /\ Cardinality(InfBad)' = Cardinality(InfBad)
      /\ Cardinality(StitchBad)' = Cardinality(StitchBad) /\ SameCounts
  BY <1>1 DEF SegBad, InfBad, StitchBad, Failures, SameCounts
<1>5. /\ SegBlamed' = SegBlamed /\ SegBlamed \in Nat /\ StitchBlamed' = 0 /\ StitchBlamed = 0
  BY <1>1, <1>2, <1>3 DEF SegBlamed, StitchBlamed, One
<1>6. TaskErrors' /\ FrameErrors'
  BY <1>0, <1>1, <1>4, <1>5, ErrorSums DEF CountsTyped, SameCounts
<1>7. Named'
  BY <1>0, <1>1, <1>3 DEF Named
<1> QED
  BY <1>6, <1>7 DEF Errors

LEMMA ServedErrors ==
  ASSUME IInv, IInv', Places, Errors, Served
  PROVE  Errors'
<1>0. TypeOK /\ TypeOK' /\ CountsTyped /\ TaskErrors /\ FrameErrors /\ Named
  BY CountTypes DEF IInv, Errors
<1>1. CountsTyped'
  BY <1>0, CountTypes, PTL
<1>2. /\ segErr' = segErr /\ infErr' = infErr /\ imgErr' = imgErr
      /\ errored' = errored /\ done' = done /\ arg' = arg /\ bad' = bad /\ pc' = pc
  BY ServedBad DEF clientVars, localVars, frameVars, totalVars
<1>3. /\ Cardinality(errored \ done)' = Cardinality(errored \ done)
      /\ SegBlamed' = SegBlamed /\ StitchBlamed' = StitchBlamed
      /\ SegBlamed \in Nat /\ StitchBlamed \in Nat
  BY <1>2 DEF SegBlamed, StitchBlamed, One
<1>4. TaskErrors' /\ FrameErrors'
  BY <1>0, <1>1, <1>2, <1>3, ServedBad, ErrorSums DEF CountsTyped
<1>5. Named'
  BY <1>0, <1>2 DEF Named
<1> QED
  BY <1>4, <1>5 DEF Errors

LEMMA PassErrors ==
  ASSUME IInv, IInv', Places, Errors,
         SendSegment \/ SegSubmitTile \/ InfSubmitStitch \/ (\E t \in Fetchers : Clean(t)) \/ Quiet
  PROVE  Errors'
<1>0. TypeOK /\ TypeOK' /\ ThreadsOK
  BY DEF IInv, TypeOK
<1>1. CASE SendSegment
  <2>1. UNCHANGED errorVars
    BY <1>1 DEF SendSegment, errorVars, frameVars, totalVars, infVars, stitchVars
  <2>2. \A t \in Fetchers : pc'[t] = pc[t]
    BY <1>0, <1>1 DEF SendSegment, At, Goto, ThreadsOK, Fetchers, Threads
  <2> QED
    BY <1>0, <2>1, <2>2, SameErrors
<1>2. CASE SegSubmitTile
  <2>1. UNCHANGED errorVars
    BY <1>2 DEF SegSubmitTile, errorVars, frameVars, totalVars, segVars, stitchVars
  <2>2. \A t \in Fetchers : pc'[t] = "mark" => pc[t] = "mark"
    BY <1>0, <1>2 DEF SegSubmitTile, At, Goto, ThreadsOK, Fetchers, Threads
  <2> QED
    BY <1>0, <2>1, <2>2, SameErrors
<1>3. CASE InfSubmitStitch
  <2>1. UNCHANGED errorVars
    BY <1>3 DEF InfSubmitStitch, errorVars, localVars, frameVars, totalVars, segVars, infVars
  <2>2. \A t \in Fetchers : pc'[t] = "mark" => pc[t] = "mark"
    BY <1>0, <1>3 DEF InfSubmitStitch, At, Goto, ThreadsOK, Fetchers, Threads
  <2> QED
    BY <1>0, <2>1, <2>2, SameErrors
<1>4. ASSUME NEW t \in Fetchers, Clean(t) PROVE Errors'
  <2>1. UNCHANGED errorVars
    BY <1>4 DEF Clean, errorVars, localVars, frameVars, totalVars, soamVars, segVars, infVars, stitchVars
  <2>2. \A u \in Fetchers : pc'[u] = "mark" => pc[u] = "mark"
    BY <1>0, <1>4 DEF Clean, At, Goto, ThreadsOK, Fetchers, Threads
  <2> QED
    BY <1>0, <2>1, <2>2, SameErrors
<1>5. CASE Quiet
  <2>1. UNCHANGED <<placeVars, sumVars>> /\ \A t \in Fetchers : Steady(t)
    BY <1>0, <1>5, QuietFact
  <2>2. UNCHANGED errorVars
    BY <2>1 DEF placeVars, sumVars, errorVars, totalVars, segVars, infVars, stitchVars
  <2>3. \A t \in Fetchers : pc'[t] = "mark" => pc[t] = "mark"
    BY <2>1 DEF Steady
  <2> QED
    BY <1>0, <2>2, <2>3, SameErrors
<1> QED
  BY <1>1, <1>2, <1>3, <1>4, <1>5

LEMMA ErrorsStep ==
  ASSUME MaxDup = 0, IInv, IInv', Places, Errors, [Next]_vars
  PROVE  Errors'
<1>1. ASSUME NEW t \in Fetchers, Mark(t) \/ Clean(t) PROVE Errors'
  BY <1>1, MarkErrors, PassErrors
<1>2. ASSUME NEW f \in Frames, NEW kind \in Kinds, SegTake(f, kind) \/ StitchTake(f, kind) PROVE Errors'
  BY <1>2, SegTakeErrors, StitchTakeErrors
<1>3. ASSUME NEW f \in Frames, NEW k \in Tiles, NEW kind \in Kinds, InfTake(f, k, kind) PROVE Errors'
  BY <1>3, InfTakeErrors
<1>4. CASE Served
  BY <1>4, ServedErrors
<1>5. CASE StitchDump
  BY <1>5, StitchDumpErrors
<1>6. CASE SendSegment \/ SegSubmitTile \/ InfSubmitStitch \/ Quiet
  BY <1>6, PassErrors
<1> QED
  BY <1>1, <1>2, <1>3, <1>4, <1>5, <1>6, StepCases

LEMMA ErrorsInit == Init => Errors
<1> SUFFICES ASSUME Init PROVE Errors
  OBVIOUS
<1>1. /\ segErr = 0 /\ infErr = 0 /\ imgErr = 0 /\ errored = {}
      /\ faults["err"] = 0 /\ faults["failed"] = 0
  BY DEF Init, FaultKinds
<1>2. SegBad = {} /\ StitchBad = {} /\ InfBad = {}
  <2>1. /\ \A f \in Frames, kind \in Kinds : segOut[<<f, kind>>] = 0 /\ stitchOut[<<f, kind>>] = 0
        /\ \A f \in Frames, k \in Tiles, kind \in Kinds : infOut[<<f, k, kind>>] = 0
    BY DEF Init, Nothing
  <2>2. "err" \in Kinds /\ "failed" \in Kinds
    BY DEF Kinds
  <2>3. \A f \in Frames : /\ ~(segOut[<<f, "err">>] + segOut[<<f, "failed">>] > 0)
                          /\ ~(stitchOut[<<f, "err">>] + stitchOut[<<f, "failed">>] > 0)
    BY <2>1, <2>2
  <2>4. \A t \in Frames \X Tiles : ~(infOut[<<t[1], t[2], "err">>] + infOut[<<t[1], t[2], "failed">>] > 0)
    BY <2>1, <2>2
  <2> QED
    BY <2>3, <2>4 DEF SegBad, StitchBad, InfBad, Bad, BadTiles
<1>3. /\ Cardinality(SegBad) = 0 /\ Cardinality(StitchBad) = 0 /\ Cardinality(InfBad) = 0
      /\ Cardinality(errored \ done) = 0
  <2>1. errored \ done = {}
    BY <1>1
  <2> QED
    BY <1>2, <2>1, FS_EmptySet
<1>4. /\ pc["seg_fetch"] # "mark" /\ pc["stitch_fetch"] # "mark" /\ ~bad["inf_fetch"]
  BY DEF Init, Fetchers, Threads
<1> QED
  BY <1>1, <1>3, <1>4 DEF Errors, TaskErrors, FrameErrors, Named, Failures, One

\* When SOAM delivers each output once, each failure of a task is blamed on one task
\* and one frame at most.
THEOREM ErrorsInvariant == ASSUME MaxDup = 0 PROVE Spec => []Errors
<1>1. Init => Errors
  BY ErrorsInit
<1>2. IInv /\ IInv' /\ Places /\ Errors /\ [Next]_vars => Errors'
  BY ErrorsStep
<1> QED
  BY <1>1, <1>2, Invariant, PlacesInvariant, PTL DEF Spec

\* No frame and no task is counted as failed unless a service or SOAM failed a task.
THEOREM FailuresAreReal == ASSUME MaxDup = 0 PROVE Spec => []NoSpuriousFailure
<1>1. IInv /\ Errors => NoSpuriousFailure
  <2> SUFFICES ASSUME IInv, Errors PROVE NoSpuriousFailure
    OBVIOUS
  <2>1. CountsTyped
    BY CountTypes DEF IInv
  <2>2. One(pc["seg_fetch"] = "mark") \in Nat
        /\ One(pc["stitch_fetch"] = "mark" /\ bad["stitch_fetch"]) \in Nat
    BY DEF One
  <2> QED
    BY <2>1, <2>2 DEF CountsTyped, Errors, TaskErrors, FrameErrors, NoSpuriousFailure, Failures
<1> QED
  BY <1>1, ErrorsInvariant, Invariant, PTL

-----------------------------------------------------------------------------
(* What is reported adds up *)

\* Nothing of a frame is anywhere in the pipeline.
Nowhere(f) == Up(f) = 0 /\ Down(f) = 0 /\ \A k \in Tiles : Tile(f, k) = 0

\* "images_done" is the number of the frames that are finished or lost; when it is
\* Count, no frame is in the pipeline.
LEMMA AllAccounted ==
  ASSUME TypeOK, OnePlace, LostFrames, FramesMarked
  PROVE  imgDone <= Count /\ (imgDone >= Count => \A f \in Frames : Nowhere(f))
<1>1. done \in SUBSET Frames
  BY DEF TypeOK, ClientOK
<1>2. \A f \in done : Nowhere(f)
  BY <1>1, Only DEF Nowhere
<1>3. PICK A \in SUBSET Frames : /\ A \cap done = {} /\ A \cap dispatched = {}
                                 /\ \A f \in A : Nowhere(f)
                                 /\ Cardinality(A) = One(Misled("seg_fetch"))
  <2>1. CASE Misled("seg_fetch")
    <3>1. PICK f \in Frames : Gone(f) /\ f \notin dispatched
      BY <2>1 DEF LostFrames, Misled
    <3>2. Cardinality({f}) = 1
      BY FS_Singleton
    <3>3. /\ {f} \in SUBSET Frames /\ {f} \cap done = {} /\ {f} \cap dispatched = {}
          /\ \A g \in {f} : Nowhere(g)
      BY <3>1 DEF Gone, Nowhere
    <3>4. One(Misled("seg_fetch")) = 1
      BY <2>1 DEF One
    <3> QED
      BY <3>2, <3>3, <3>4
  <2>2. CASE ~Misled("seg_fetch")
    BY <2>2, FS_EmptySet DEF One
  <2> QED
    BY <2>1, <2>2
<1>4. PICK B \in SUBSET Frames : /\ B \cap done = {} /\ B \subseteq dispatched
                                 /\ \A f \in B : Nowhere(f)
                                 /\ Cardinality(B) = One(Misled("stitch_fetch"))
  <2>1. CASE Misled("stitch_fetch")
    <3>1. PICK f \in Frames : Gone(f) /\ f \in dispatched
      BY <2>1 DEF LostFrames, Misled
    <3>2. Cardinality({f}) = 1
      BY FS_Singleton
    <3>3. /\ {f} \in SUBSET Frames /\ {f} \cap done = {} /\ {f} \subseteq dispatched
          /\ \A g \in {f} : Nowhere(g)
      BY <3>1 DEF Gone, Nowhere
    <3>4. One(Misled("stitch_fetch")) = 1
      BY <2>1 DEF One
    <3> QED
      BY <3>2, <3>3, <3>4
  <2>2. CASE ~Misled("stitch_fetch")
    BY <2>2, FS_EmptySet DEF One
  <2> QED
    BY <2>1, <2>2
<1> DEFINE G == (done \cup A) \cup B
<1>5. G \in SUBSET Frames /\ \A f \in G : Nowhere(f)
  BY <1>1, <1>2, <1>3, <1>4
<1>6. Cardinality(done \cup A) = Cardinality(done) + Cardinality(A)
  <2>1. IsFiniteSet(done) /\ IsFiniteSet(A) /\ Cardinality(done) \in Nat /\ Cardinality(A) \in Nat
    BY <1>1, <1>3, FrameSets
  <2>2. Cardinality(done \cup A) = Cardinality(done) + Cardinality(A) - Cardinality(done \cap A)
    BY <2>1, FS_Union
  <2>3. Cardinality(done \cap A) = 0
    <3>1. done \cap A = {}
      BY <1>3
    <3> QED
      BY <3>1, FS_EmptySet, Zenon
  <2> QED
    BY <2>1, <2>2, <2>3
<1>7. Cardinality(G) = Cardinality(done \cup A) + Cardinality(B)
  <2>1. done \cup A \in SUBSET Frames
    BY <1>1, <1>3
  <2>2. /\ IsFiniteSet(done \cup A) /\ IsFiniteSet(B)
        /\ Cardinality(done \cup A) \in Nat /\ Cardinality(B) \in Nat
    BY <1>4, <2>1, FrameSets
  <2>3. Cardinality(G) = Cardinality(done \cup A) + Cardinality(B) - Cardinality((done \cup A) \cap B)
    BY <2>2, FS_Union
  <2>4. Cardinality((done \cup A) \cap B) = 0
    <3>1. (done \cup A) \cap B = {}
      BY <1>3, <1>4
    <3> QED
      BY <3>1, FS_EmptySet, Zenon
  <2> QED
    BY <2>2, <2>3, <2>4
<1>8. Cardinality(G) = imgDone
  <2>1. imgDone = Cardinality(done) + Cardinality(A) + Cardinality(B)
    BY <1>3, <1>4 DEF FramesMarked
  <2> QED
    BY <1>6, <1>7, <2>1
<1>9. imgDone <= Count
  BY <1>5, <1>8, FrameSets
<1>10. ASSUME imgDone >= Count PROVE G = Frames
  <2>1. Cardinality(G) = Cardinality(Frames)
    BY <1>8, <1>9, <1>10, FrameSets DEF TypeOK, TotalsOK
  <2> QED
    BY <1>5, <2>1, FrameSets, FS_Subset
<1> QED
  BY <1>5, <1>9, <1>10

\* A closed dump or a closed session of a run that did not stall: nothing is left.
LEMMA ClosedEmpty ==
  ASSUME TypeOK, OnePlace, LostFrames, FramesMarked, EndReached,
         ~stalled, pc["main"] # "wait" \/ ~dumpOpen \/ ~sessOpen
  PROVE  imgDone = Count /\ \A f \in Frames : Nowhere(f)
<1>1. imgDone >= Count
  BY DEF EndReached
<1>2. imgDone \in Nat /\ Count \in Nat
  BY FrameSets DEF TypeOK, TotalsOK
<1> QED
  BY <1>1, <1>2, AllAccounted

\* A frame that is gone stays so, on the side of the dispatch where it was lost.
StaysGone == \A f \in Frames : Gone(f) => Gone(f)' /\ (f \in dispatched' <=> f \in dispatched)

LEMMA StaysGoneStep ==
  ASSUME PlacesTyped, PlacesTyped',
         \A f \in Frames : Up(f)' <= Up(f) /\ Down(f)' <= Down(f),
         \A f \in Frames, k \in Tiles : Tile(f, k)' <= Tile(f, k),
         UNCHANGED <<done, dispatched>>
  PROVE  StaysGone
<1> SUFFICES ASSUME NEW f \in Frames, Gone(f) PROVE Gone(f)' /\ (f \in dispatched' <=> f \in dispatched)
  BY DEF StaysGone
<1>1. done' = done /\ dispatched' = dispatched
  OBVIOUS
<1>2. Up(f)' = 0 /\ Down(f)' = 0
  BY DEF PlacesTyped, Typed, Gone
<1>3. \A k \in Tiles : Tile(f, k)' = 0
  <2> SUFFICES ASSUME NEW k \in Tiles PROVE Tile(f, k)' = 0
    OBVIOUS
  <2>1. Tile(f, k)' \in Nat /\ Tile(f, k) = 0 /\ Tile(f, k)' <= Tile(f, k)
    BY DEF PlacesTyped, Typed, Gone
  <2> QED
    BY <2>1
<1> QED
  BY <1>1, <1>2, <1>3 DEF Gone

\* The threads that are lost after a step were lost before it, where they still are
\* or one step further.
LEMMA LostKept ==
  ASSUME LostFrames, StaysGone,
         \A t \in Fetchers : Lost(t)' => Lost(t) /\ pc'[t] \in {"mark", "clean", "dead"}
  PROVE  LostFrames'
<1>1. "seg_fetch" \in Fetchers /\ "stitch_fetch" \in Fetchers
  BY DEF Fetchers
<1>2. \A t \in Fetchers : Lost(t)' => pc'[t] \in {"mark", "clean", "dead"}
  OBVIOUS
<1>3. ASSUME Lost("seg_fetch")' PROVE \E f \in Frames : Gone(f)' /\ f \notin dispatched'
  BY <1>1, <1>3 DEF LostFrames, StaysGone
<1>4. ASSUME Lost("stitch_fetch")' PROVE \E f \in Frames : Gone(f)' /\ f \in dispatched'
  BY <1>1, <1>4 DEF LostFrames, StaysGone
<1> QED
  BY <1>2, <1>3, <1>4 DEF LostFrames

countVars == <<segSeen, totalVars, dumped, done, dispatched, arg, bad>>

\* A step that counts nothing and leaves what is in the pipeline where it is; a
\* thread may drop what it has in hand once the run has stalled.
LEMMA KeepSums ==
  ASSUME TypeOK, TypeOK', Sums, UNCHANGED countVars,
         \A f \in Frames : Up(f)' = Up(f) /\ Down(f)' <= Down(f),
         \A f \in Frames, k \in Tiles : Tile(f, k)' <= Tile(f, k),
         ~stalled' => ~stalled,
         ~stalled' => \A f \in Frames, k \in Tiles : Tile(f, k)' = Tile(f, k),
         ~stalled' => (pc'["stitch_fetch"] = "dump" <=> pc["stitch_fetch"] = "dump"),
         \A t \in Fetchers : pc'[t] = "mark" <=> pc[t] = "mark",
         \A t \in Fetchers : pc[t] \in {"clean", "dead"} /\ Lost(t) => pc'[t] \in {"clean", "dead"}
  PROVE  Sums'
<1>0. /\ segSeen' = segSeen /\ segErr' = segErr /\ infOk' = infOk /\ infErr' = infErr
      /\ imgDone' = imgDone /\ imgErr' = imgErr /\ boxes' = boxes /\ dumped' = dumped
      /\ done' = done /\ dispatched' = dispatched /\ arg' = arg /\ bad' = bad
  BY DEF countVars, totalVars
<1>t. PlacesTyped /\ PlacesTyped'
  BY PlaceTypes, PTL
<1>s. /\ LostFrames /\ FramesMarked /\ FramesSeen /\ TilesCounted /\ BoxesCounted /\ DumpCounted
      /\ "seg_fetch" \in Fetchers /\ "stitch_fetch" \in Fetchers
  BY DEF Sums, Fetchers
<1>1. LostFrames'
  <2>1. \A f \in Frames : Up(f)' <= Up(f) /\ Down(f)' <= Down(f)
    BY <1>t DEF PlacesTyped, Typed
  <2>2. StaysGone
    BY <1>0, <1>t, <2>1, StaysGoneStep
  <2>3. \A t \in Fetchers : Lost(t)' => Lost(t) /\ pc'[t] \in {"mark", "clean", "dead"}
    BY <1>0, <1>s DEF LostFrames, Lost
  <2> QED
    BY <1>s, <2>2, <2>3, LostKept
<1>2. FramesMarked'
  <2>1. One(Misled("seg_fetch"))' = One(Misled("seg_fetch"))
        /\ One(Misled("stitch_fetch"))' = One(Misled("stitch_fetch"))
    BY <1>0, <1>s DEF Misled, Lost, One
  <2>2. Cardinality(done)' = Cardinality(done)
    BY <1>0
  <2> QED
    BY <1>0, <1>s, <2>1, <2>2 DEF FramesMarked
<1>3. FramesSeen'
  <2>1. Waiting' = Waiting
    BY DEF Waiting
  <2>2. Cardinality(Waiting)' = Cardinality(Waiting)
    BY <2>1
  <2> QED
    BY <1>0, <1>s, <2>2 DEF FramesSeen
<1>4. TilesCounted'
  <2> SUFFICES ASSUME ~stalled' PROVE (infOk + infErr + Cardinality(Open) = NTiles * (segSeen - segErr))'
    BY DEF TilesCounted
  <2>1. Open' = Open
    BY DEF Open
  <2>2. Cardinality(Open)' = Cardinality(Open)
    BY <2>1
  <2>3. infOk + infErr + Cardinality(Open) = NTiles * (segSeen - segErr)
    BY <1>s DEF TilesCounted
  <2> QED
    BY <1>0, <2>2, <2>3
<1>5. BoxesCounted'
  BY <1>0, <1>s DEF BoxesCounted, One
<1>6. DumpCounted'
  <2>1. Cardinality(Recorded)' = Cardinality(Recorded)
    BY <1>0 DEF Recorded
  <2>2. One(pc["stitch_fetch"] = "mark" /\ ~bad["stitch_fetch"])'
        = One(pc["stitch_fetch"] = "mark" /\ ~bad["stitch_fetch"])
    BY <1>0, <1>s DEF One
  <2>3. \A f \in Frames : Has("stitch_fetch", "mark", f)' <=> Has("stitch_fetch", "mark", f)
    BY <1>0, <1>s DEF Has
  <2> QED
    BY <1>0, <1>s, <2>1, <2>2, <2>3 DEF DumpCounted
<1> QED
  BY <1>1, <1>2, <1>3, <1>4, <1>5, <1>6 DEF Sums

\* The same for a step that moves nothing in the pipeline.
LEMMA SameSums ==
  ASSUME TypeOK, TypeOK', Sums, UNCHANGED countVars, SamePlaces, ~stalled' => ~stalled,
         pc'["stitch_fetch"] = "dump" <=> pc["stitch_fetch"] = "dump",
         \A t \in Fetchers : pc'[t] = "mark" <=> pc[t] = "mark",
         \A t \in Fetchers : pc[t] \in {"clean", "dead"} /\ Lost(t) => pc'[t] \in {"clean", "dead"}
  PROVE  Sums'
<1>1. PlacesTyped
  BY PlaceTypes
<1>2. \A f \in Frames : Up(f)' = Up(f) /\ Down(f)' <= Down(f)
  BY <1>1 DEF SamePlaces, PlacesTyped, Typed
<1>3. \A f \in Frames, k \in Tiles : Tile(f, k)' = Tile(f, k)
  BY DEF SamePlaces
<1>4. ASSUME NEW f \in Frames, NEW k \in Tiles PROVE Tile(f, k)' <= Tile(f, k)
  <2>1. Tile(f, k) \in Nat
    BY <1>1 DEF PlacesTyped, Typed
  <2>2. Tile(f, k)' = Tile(f, k)
    BY <1>3
  <2> QED
    BY <2>1, <2>2
<1>5. ~stalled' => \A f \in Frames, k \in Tiles : Tile(f, k)' = Tile(f, k)
  BY <1>3
<1> QED
  BY <1>2, <1>4, <1>5, KeepSums

\* A quiet step moves no thread that is lost.
LEMMA QuietLost ==
  ASSUME IInv, Quiet
  PROVE  \A t \in Fetchers : pc[t] \in {"clean", "dead"} => pc'[t] = pc[t]
<1>0. ThreadsOK
  BY DEF IInv, TypeOK
<1>1. ASSUME NEW t \in Threads, NEW from, NEW to, At(t, from), Goto(t, to), from \notin {"clean", "dead"}
      PROVE  \A u \in Fetchers : pc[u] \in {"clean", "dead"} => pc'[u] = pc[u]
  BY <1>0, <1>1 DEF At, Goto, ThreadsOK, Fetchers, Threads
<1>2. ASSUME NEW t \in Threads, NEW from, NEW to, Move(t, from, to), from \notin {"clean", "dead"}
      PROVE  \A u \in Fetchers : pc[u] \in {"clean", "dead"} => pc'[u] = pc[u]
  BY <1>1, <1>2 DEF Move
<1>3. Fetchers \subseteq Threads /\ "seg_submit" \in Threads /\ "main" \in Threads
      /\ "watchdog" \in Threads /\ "seg_fetch" \in Threads /\ "inf_fetch" \in Threads
      /\ "stitch_fetch" \in Threads
  BY DEF Fetchers, Threads
<1>4. CASE Acquire \/ Register
  BY <1>1, <1>3, <1>4 DEF Acquire, Register
<1>5. CASE SubmitterExit \/ SegFetchExit \/ InfFetchExit \/ StitchCheck \/ StitchPollTimeout
  BY <1>2, <1>3, <1>5 DEF SubmitterExit, SegFetchExit, InfFetchExit, StitchCheck, StitchPollTimeout
<1>6. ASSUME NEW t \in Fetchers, Release(t) \/ SessionGone(t)
      PROVE  \A u \in Fetchers : pc[u] \in {"clean", "dead"} => pc'[u] = pc[u]
  <2>1. (At(t, "release") /\ (Goto(t, Resume(t)) \/ Goto(t, "dead"))) \/ Move(t, "fetch", "dead")
    BY <1>6 DEF Release, SessionGone
  <2> QED
    BY <1>1, <1>2, <1>3, <2>1
<1>7. CASE Watchdog
  BY <1>1, <1>2, <1>3, <1>7 DEF Watchdog, WatchdogCheck, WatchdogLook, WatchdogFire
<1>8. CASE Main
  BY <1>1, <1>2, <1>3, <1>8 DEF Main, MainWait, MainJoin, MainReport, MainCloseDump, MainCloseSessions
<1>9. CASE IdleElapses \/ UNCHANGED vars
  BY <1>9 DEF IdleElapses, vars
<1> QED
  BY <1>4, <1>5, <1>6, <1>7, <1>8, <1>9 DEF Quiet

\* A run that has stalled stays so.
LEMMA QuietStall == ASSUME Quiet PROVE ~stalled' => ~stalled
<1>1. ASSUME NEW t, NEW from, NEW to, Move(t, from, to) PROVE stalled' = stalled
  BY <1>1 DEF Move, dataVars, endVars
<1>2. CASE Acquire \/ Register \/ \E t \in Fetchers : Release(t)
  BY <1>2 DEF Acquire, Register, Release, endVars
<1>3. CASE SubmitterExit \/ SegFetchExit \/ InfFetchExit \/ StitchCheck \/ StitchPollTimeout
           \/ \E t \in Fetchers : SessionGone(t)
  BY <1>1, <1>3 DEF SubmitterExit, SegFetchExit, InfFetchExit, StitchCheck, StitchPollTimeout, SessionGone
<1>4. CASE Watchdog
  <2>1. CASE WatchdogFire
    BY <2>1 DEF WatchdogFire
  <2> QED
    BY <1>1, <1>4, <2>1 DEF Watchdog, WatchdogCheck, WatchdogLook
<1>5. CASE Main
  BY <1>1, <1>5 DEF Main, MainWait, MainJoin, MainReport, MainCloseDump, MainCloseSessions, endVars
<1>6. CASE IdleElapses \/ UNCHANGED vars
  BY <1>6 DEF IdleElapses, vars, dataVars, endVars
<1> QED
  BY <1>2, <1>3, <1>4, <1>5, <1>6 DEF Quiet

LEMMA PassSums ==
  ASSUME IInv, IInv', Places, Sums,
         SendSegment \/ (\E t \in Fetchers : Clean(t)) \/ Served \/ Quiet
  PROVE  Sums'
<1>0. TypeOK /\ TypeOK' /\ ThreadsOK
  BY DEF IInv, TypeOK
<1>1. CASE SendSegment
  <2>1. UNCHANGED countVars /\ stalled' = stalled
    BY <1>1 DEF SendSegment, countVars, totalVars, frameVars, endVars, outVars
  <2>2. \A t \in Fetchers : pc'[t] = pc[t]
    BY <1>0, <1>1 DEF SendSegment, At, Goto, ThreadsOK, Fetchers, Threads
  <2>3. SamePlaces
    BY <1>1, SendSegmentPlaces
  <2> QED
    BY <1>0, <2>1, <2>2, <2>3, SameSums DEF Fetchers
<1>2. ASSUME NEW t \in Fetchers, Clean(t) PROVE Sums'
  <2>1. UNCHANGED countVars /\ stalled' = stalled
    BY <1>2 DEF Clean, countVars, totalVars, localVars, frameVars, endVars, outVars
  <2>2. /\ pc[t] = "clean" /\ pc'[t] \in {"dead", "release"} /\ (arg[t] = NoId => pc'[t] = "dead")
        /\ \A u \in Fetchers : u # t => pc'[u] = pc[u]
    BY <1>0, <1>2 DEF Clean, At, Goto, ThreadsOK, Fetchers, Threads
  <2>3. SamePlaces
    BY <1>2, CleanPlaces
  <2>4. pc'["stitch_fetch"] = "dump" <=> pc["stitch_fetch"] = "dump"
    BY <2>2 DEF Fetchers
  <2>5. \A u \in Fetchers : pc'[u] = "mark" <=> pc[u] = "mark"
    BY <2>2
  <2>6. \A u \in Fetchers : pc[u] \in {"clean", "dead"} /\ Lost(u) => pc'[u] \in {"clean", "dead"}
    BY <2>2 DEF Lost
  <2> QED
    BY <1>0, <2>1, <2>3, <2>4, <2>5, <2>6, SameSums
<1>3. CASE Served
  <2>1. UNCHANGED clientVars
    BY <1>3, ServedBad
  <2>2. UNCHANGED countVars /\ stalled' = stalled /\ pc' = pc
    BY <2>1 DEF clientVars, countVars, totalVars, localVars, frameVars, endVars, outVars
  <2>3. SamePlaces
    BY <1>3, SegAnswerPlaces, InfAnswerPlaces, StitchAnswerPlaces
       DEF Served, SegServed, InfServed, StitchServed
  <2> QED
    BY <1>0, <2>2, <2>3, SameSums
<1>4. CASE Quiet
  <2>1. UNCHANGED <<placeVars, sumVars>> /\ \A t \in Fetchers : Steady(t)
    BY <1>0, <1>4, QuietFact
  <2>2. UNCHANGED countVars
    BY <2>1 DEF placeVars, sumVars, countVars, totalVars
  <2>3. SamePlaces
    BY <1>0, <2>1, QuietPlaces
  <2>4. /\ \A t \in Fetchers : pc'[t] = "mark" <=> pc[t] = "mark"
        /\ pc'["stitch_fetch"] = "dump" <=> pc["stitch_fetch"] = "dump"
    BY <2>1 DEF Steady, Fetchers
  <2>5. \A t \in Fetchers : pc[t] \in {"clean", "dead"} /\ Lost(t) => pc'[t] \in {"clean", "dead"}
    BY <1>4, QuietLost
  <2> QED
    BY <1>0, <1>4, <2>2, <2>3, <2>4, <2>5, QuietStall, SameSums
<1> QED
  BY <1>1, <1>2, <1>3, <1>4

\* The frame and the tile that a thread has in hand are somewhere.
LEMMA HandBusy ==
  ASSUME TypeOK, Control
  PROVE  /\ pc["seg_fetch"] = "submit" => \E f \in Frames, k \in Tiles : Tile(f, k) >= 1
         /\ pc["stitch_fetch"] = "dump" => \E f \in Frames : Down(f) >= 1
         /\ pc["stitch_fetch"] = "mark" /\ arg["stitch_fetch"] # NoId => \E f \in Frames : Down(f) >= 1
<1>0. PlacesTyped /\ ThreadsOK
  BY PlaceTypes DEF TypeOK
<1>1. ASSUME pc["seg_fetch"] = "submit" PROVE \E f \in Frames, k \in Tiles : Tile(f, k) >= 1
  <2>1. arg["seg_fetch"] \in Frames /\ tile \in Tiles
    BY <1>0, <1>1, TilesFact DEF Control, ThreadsOK, Tiles
  <2>2. One(Has("seg_fetch", "submit", arg["seg_fetch"]) /\ tile >= tile) = 1
    <3>1. tile >= tile
      BY <1>0 DEF ThreadsOK
    <3> QED
      BY <1>1, <3>1 DEF Has, One
  <2>3. infTasks[<<arg["seg_fetch"], tile>>] \in Nat /\ TileAnswers(infOut, arg["seg_fetch"], tile) \in Nat
    BY <1>0, <2>1 DEF PlacesTyped, Typed
  <2>4. Tile(arg["seg_fetch"], tile) >= 1
    BY <2>2, <2>3 DEF Tile
  <2> QED
    BY <2>1, <2>4
<1>2. ASSUME NEW f \in Frames, Has("stitch_fetch", "dump", f) \/ Has("stitch_fetch", "mark", f)
      PROVE  Down(f) >= 1
  <2>1. One(Has("stitch_fetch", "dump", f)) + One(Has("stitch_fetch", "mark", f)) >= 1
    BY <1>2 DEF One
  <2>2. /\ One(Has("stitch_fetch", "dump", f)) \in Nat /\ One(Has("stitch_fetch", "mark", f)) \in Nat
        /\ One(Has("inf_fetch", "submit", f)) \in Nat /\ One(Has("inf_fetch", "mark", f)) \in Nat
        /\ One(Has("seg_fetch", "mark", f)) \in Nat
        /\ stitchTasks[f] \in Nat /\ Answers(stitchOut, f) \in Nat
    BY <1>0 DEF One, PlacesTyped, Typed
  <2> QED
    BY <2>1, <2>2 DEF Down
<1>3. pc["stitch_fetch"] = "dump" => \E f \in Frames : Down(f) >= 1
  BY <1>2 DEF Control, Has
<1>4. pc["stitch_fetch"] = "mark" /\ arg["stitch_fetch"] # NoId => \E f \in Frames : Down(f) >= 1
  <2>1. arg["stitch_fetch"] \in Frames \cup {NoId}
    BY <1>0 DEF ThreadsOK, Fetchers
  <2> QED
    BY <1>2, <2>1 DEF Has
<1> QED
  BY <1>1, <1>3, <1>4

\* A thread that finds the dump or its session closed has something in hand, so the
\* run has stalled.
LEMMA ClosedStalled ==
  ASSUME IInv, Places, Totals
  PROVE  /\ pc["seg_fetch"] = "submit" /\ ~sessOpen => stalled
         /\ pc["stitch_fetch"] = "dump" /\ ~dumpOpen => stalled
<1>0. TypeOK /\ Control /\ OnePlace /\ LostFrames /\ FramesMarked /\ EndReached
  BY DEF IInv, Places, Totals, Sums
<1>1. ASSUME ~stalled, ~dumpOpen \/ ~sessOpen PROVE \A f \in Frames : Nowhere(f)
  BY <1>0, <1>1, ClosedEmpty
<1> QED
  BY <1>0, <1>1, HandBusy DEF Nowhere

LEMMA SubmitSums ==
  ASSUME IInv, IInv', Places, Totals, SegSubmitTile \/ InfSubmitStitch
  PROVE  Sums'
<1>0. TypeOK /\ TypeOK' /\ ThreadsOK /\ PlacesTyped /\ Sums
  BY PlaceTypes DEF IInv, TypeOK, Totals
<1>1. UNCHANGED countVars /\ stalled' = stalled
  BY DEF SegSubmitTile, InfSubmitStitch, countVars, totalVars, localVars, frameVars, endVars, outVars
<1>2. /\ pc'["stitch_fetch"] = pc["stitch_fetch"]
      /\ \A t \in Fetchers : pc'[t] = "mark" <=> pc[t] = "mark"
      /\ \A t \in Fetchers : pc[t] \in {"clean", "dead"} => pc'[t] = pc[t]
  <2>1. \E t \in {"seg_fetch", "inf_fetch"}, to \in {"fetch", "submit", "dead"} : At(t, "submit") /\ Goto(t, to)
    BY DEF SegSubmitTile, InfSubmitStitch
  <2> QED
    BY <1>0, <2>1 DEF At, Goto, ThreadsOK, Fetchers, Threads
<1>3. \A f \in Frames : Up(f)' = Up(f) /\ Down(f)' <= Down(f)
  BY <1>0, SegSubmitTilePlaces, InfSubmitStitchPlaces DEF PlacesTyped, Typed
<1>4. CASE SegSubmitTile
  <2>1. \A f \in Frames, k \in Tiles : Tile(f, k)' <= Tile(f, k)
    BY <1>4, SegSubmitTilePlaces
  <2>2. ~stalled' => sessOpen
    BY <1>1, <1>4, ClosedStalled DEF SegSubmitTile, At
  <2>3. ~stalled' => \A f \in Frames, k \in Tiles : Tile(f, k)' = Tile(f, k)
    BY <1>4, <2>2, SegSubmitTilePlaces DEF SamePlaces
  <2> QED
    BY <1>0, <1>1, <1>2, <1>3, <2>1, <2>3, KeepSums
<1>5. CASE InfSubmitStitch
  <2>1. \A f \in Frames, k \in Tiles : Tile(f, k)' = Tile(f, k)
    BY <1>5, InfSubmitStitchPlaces
  <2>2. ASSUME NEW f \in Frames, NEW k \in Tiles PROVE Tile(f, k)' <= Tile(f, k)
    <3>1. Tile(f, k) \in Nat
      BY <1>0 DEF PlacesTyped, Typed
    <3>2. Tile(f, k)' = Tile(f, k)
      BY <2>1
    <3> QED
      BY <3>1, <3>2
  <2> QED
    BY <1>0, <1>1, <1>2, <1>3, <2>1, <2>2, KeepSums
<1> QED
  BY <1>4, <1>5

\* The three sums that most steps leave alone.
LEMMA MarkedKept ==
  ASSUME FramesMarked, imgDone' = imgDone, done' = done,
         Misled("seg_fetch")' <=> Misled("seg_fetch"), Misled("stitch_fetch")' <=> Misled("stitch_fetch")
  PROVE  FramesMarked'
<1>1. /\ One(Misled("seg_fetch"))' = One(Misled("seg_fetch"))
      /\ One(Misled("stitch_fetch"))' = One(Misled("stitch_fetch"))
  BY DEF One
<1>2. Cardinality(done)' = Cardinality(done)
  OBVIOUS
<1> QED
  BY <1>1, <1>2 DEF FramesMarked

LEMMA SeenKept ==
  ASSUME FramesSeen, segSeen' = segSeen, \A f \in Frames : Up(f)' = Up(f)
  PROVE  FramesSeen'
<1>1. Waiting' = Waiting
  BY DEF Waiting
<1>2. Cardinality(Waiting)' = Cardinality(Waiting)
  BY <1>1
<1> QED
  BY <1>2 DEF FramesSeen

LEMMA TilesKept ==
  ASSUME TilesCounted, UNCHANGED <<infOk, infErr, segSeen, segErr>>, ~stalled' => ~stalled,
         \A f \in Frames, k \in Tiles : Tile(f, k)' = Tile(f, k)
  PROVE  TilesCounted'
<1>1. Open' = Open
  BY DEF Open
<1>2. Cardinality(Open)' = Cardinality(Open)
  BY <1>1
<1> QED
  BY <1>2 DEF TilesCounted

\* The dump gets the first and only record of the frame in hand.
LEMMA StitchDumpSums ==
  ASSUME IInv, IInv', Places, Totals, StitchDump
  PROVE  Sums'
<1>0. /\ TypeOK /\ TypeOK' /\ ThreadsOK /\ Control /\ PlacesTyped /\ PlacesTyped' /\ Sums /\ OnePlace
      /\ "seg_fetch" \in Fetchers /\ "inf_fetch" \in Fetchers /\ "stitch_fetch" \in Fetchers
  <2>1. TypeOK /\ TypeOK' /\ Control
    BY DEF IInv
  <2>2. PlacesTyped /\ PlacesTyped'
    BY <2>1, PlaceTypes, PTL
  <2> QED
    BY <2>1, <2>2 DEF TypeOK, Totals, Places, Fetchers
<1>1. /\ LostFrames /\ FramesMarked /\ FramesSeen /\ TilesCounted /\ BoxesCounted /\ DumpCounted
  BY <1>0 DEF Sums
<1>2. /\ segSeen' = segSeen /\ segErr' = segErr /\ infOk' = infOk /\ infErr' = infErr
      /\ imgDone' = imgDone /\ imgErr' = imgErr /\ boxes' = boxes
      /\ done' = done /\ dispatched' = dispatched /\ arg' = arg /\ bad' = bad /\ stalled' = stalled
  BY DEF StitchDump, localVars, frameVars, totalVars, endVars
<1>3. /\ pc["stitch_fetch"] = "dump" /\ ~bad["stitch_fetch"] /\ arg["stitch_fetch"] \in Frames
      /\ pc'["stitch_fetch"] = IF dumpOpen THEN "mark" ELSE "dead"
      /\ \A t \in Fetchers : t # "stitch_fetch" => pc'[t] = pc[t]
  <2>1. pc["stitch_fetch"] = "dump" /\ ~bad["stitch_fetch"] /\ arg["stitch_fetch"] \in Frames
    BY <1>0 DEF StitchDump, At, Control, Places, Verdicts
  <2>2. pc' = [pc EXCEPT !["stitch_fetch"] = IF dumpOpen THEN "mark" ELSE "dead"]
    BY DEF StitchDump, Goto
  <2> QED
    BY <1>0, <2>1, <2>2 DEF ThreadsOK, Threads
<1>4. \A f \in Frames : /\ Up(f)' = Up(f) /\ Down(f)' <= Down(f)
                        /\ \A k \in Tiles : Tile(f, k)' = Tile(f, k)
  BY StitchDumpPlaces
<1>5. /\ \A t \in Fetchers : Lost(t)' <=> Lost(t)
      /\ ~Lost("stitch_fetch") /\ Misled("seg_fetch")' = Misled("seg_fetch")
      /\ ~Misled("stitch_fetch") /\ ~Misled("stitch_fetch")'
  BY <1>0, <1>2, <1>3 DEF Lost, Misled
<1>6. LostFrames'
  <2>1. \A f \in Frames, k \in Tiles : Tile(f, k)' <= Tile(f, k)
    <3> SUFFICES ASSUME NEW f \in Frames, NEW k \in Tiles PROVE Tile(f, k)' <= Tile(f, k)
      OBVIOUS
    <3>1. Tile(f, k) \in Nat /\ Tile(f, k)' = Tile(f, k)
      BY <1>0, <1>4 DEF PlacesTyped, Typed
    <3> QED
      BY <3>1
  <2>2. \A f \in Frames : Up(f)' <= Up(f) /\ Down(f)' <= Down(f)
    BY <1>0, <1>4 DEF PlacesTyped, Typed
  <2>3. StaysGone
    BY <1>0, <1>2, <2>1, <2>2, StaysGoneStep
  <2>4. \A t \in Fetchers : Lost(t)' => Lost(t) /\ pc'[t] \in {"mark", "clean", "dead"}
    <3> SUFFICES ASSUME NEW t \in Fetchers, Lost(t)' PROVE Lost(t) /\ pc'[t] \in {"mark", "clean", "dead"}
      OBVIOUS
    <3>1. Lost(t) /\ t # "stitch_fetch"
      BY <1>5
    <3> QED
      BY <1>1, <1>3, <3>1 DEF LostFrames
  <2> QED
    BY <1>1, <2>3, <2>4, LostKept
<1>7. FramesMarked'
  BY <1>1, <1>2, <1>5, MarkedKept
<1>8. FramesSeen'
  BY <1>1, <1>2, <1>4, SeenKept
<1>9. TilesCounted'
  BY <1>1, <1>2, <1>4, TilesKept
<1>10. BoxesCounted'
  <2> SUFFICES ASSUME ~stalled' PROVE BoxesCounted'
    BY DEF BoxesCounted
  <2>1. dumpOpen
    BY <1>2, <1>3, ClosedStalled
  <2>2. /\ boxes = imgDone - imgErr + One(pc["stitch_fetch"] = "dump")
                   + One(pc["stitch_fetch"] = "mark" /\ ~bad["stitch_fetch"])
    BY <1>1, <1>2 DEF BoxesCounted
  <2>3. boxes = imgDone - imgErr + 1 + 0
    BY <1>3, <2>2 DEF One
  <2>4. /\ One(pc["stitch_fetch"] = "dump")' = 0
        /\ One(pc["stitch_fetch"] = "mark" /\ ~bad["stitch_fetch"])' = 1
    BY <1>2, <1>3, <2>1 DEF One
  <2>5. imgDone \in Nat /\ imgErr \in Nat
    BY <1>0 DEF TypeOK, TotalsOK
  <2>6. imgDone - imgErr + 1 + 0 = imgDone - imgErr + 0 + 1
    BY <2>5
  <2> QED
    BY <1>2, <2>3, <2>4, <2>6 DEF BoxesCounted
<1>11. DumpCounted'
  <2>1. CASE ~dumpOpen
    <3>1. dumped' = dumped /\ pc'["stitch_fetch"] = "dead"
      BY <1>3, <2>1 DEF StitchDump
    <3>2. Cardinality(Recorded)' = Cardinality(Recorded)
      BY <3>1 DEF Recorded
    <3>3. One(pc["stitch_fetch"] = "mark" /\ ~bad["stitch_fetch"])'
          = One(pc["stitch_fetch"] = "mark" /\ ~bad["stitch_fetch"])
      BY <1>3, <3>1 DEF One
    <3>4. \A f \in Frames : ~Has("stitch_fetch", "mark", f)
      BY <1>3 DEF Has
    <3> QED
      BY <1>1, <1>2, <3>1, <3>2, <3>3, <3>4 DEF DumpCounted
  <2>2. CASE dumpOpen
    <3> DEFINE f == arg["stitch_fetch"]
    <3>1. /\ dumped' = Put(dumped, f) /\ f \in Frames /\ pc'["stitch_fetch"] = "mark"
          /\ dumped \in [Frames -> Nat]
      BY <1>0, <1>3, <2>2 DEF StitchDump, TypeOK, ClientOK
    <3>2. f \notin done
      <4>1. Has("stitch_fetch", "dump", f)
        BY <1>3 DEF Has
      <4> QED
        BY <1>0, <3>1, <4>1, InHand
    <3>3. dumped[f] = 0
      <4>1. ~Has("stitch_fetch", "mark", f)
        BY <1>3 DEF Has
      <4> QED
        BY <1>1, <3>1, <3>2, <4>1 DEF DumpCounted
    <3>4. \A g \in Frames : dumped'[g] = IF g = f THEN 1 ELSE dumped[g]
      BY <3>1, <3>3 DEF Put
    <3>5. Recorded' = Recorded \cup {f} /\ f \notin Recorded /\ Recorded \in SUBSET Frames
      BY <3>1, <3>3, <3>4 DEF Recorded
    <3>6. Cardinality(Recorded)' = Cardinality(Recorded) + 1
      BY <3>5, FrameSets, OneMore
    <3>7. \A g \in Frames : dumped'[g] <= 1
      BY <1>1, <3>4 DEF DumpCounted
    <3>8. \A g \in Frames : dumped'[g] > 0 => g \in done' \/ Has("stitch_fetch", "mark", g)'
      <4> SUFFICES ASSUME NEW g \in Frames, dumped'[g] > 0
                   PROVE  g \in done' \/ Has("stitch_fetch", "mark", g)'
        OBVIOUS
      <4>1. CASE g = f
        BY <1>2, <3>1, <4>1 DEF Has
      <4>2. CASE g # f
        <5>1. ~Has("stitch_fetch", "mark", g)
          BY <1>3 DEF Has
        <5>2. dumped[g] > 0
          BY <3>4, <4>2
        <5> QED
          BY <1>1, <1>2, <5>1, <5>2 DEF DumpCounted
      <4> QED
        BY <4>1, <4>2
    <3>9. Cardinality(Recorded)' = imgDone' - imgErr'
                                   + One(pc["stitch_fetch"] = "mark" /\ ~bad["stitch_fetch"])'
      <4>1. One(pc["stitch_fetch"] = "mark" /\ ~bad["stitch_fetch"]) = 0
        BY <1>3 DEF One
      <4>2. One(pc["stitch_fetch"] = "mark" /\ ~bad["stitch_fetch"])' = 1
        BY <1>2, <1>3, <3>1 DEF One
      <4>3. Cardinality(Recorded) = imgDone - imgErr + 0
        BY <1>1, <4>1 DEF DumpCounted
      <4>4. imgDone \in Nat /\ imgErr \in Nat
        BY <1>0 DEF TypeOK, TotalsOK
      <4> QED
        BY <1>2, <3>6, <4>2, <4>3, <4>4
    <3> QED
      BY <3>7, <3>8, <3>9 DEF DumpCounted
  <2> QED
    BY <2>1, <2>2
<1> QED
  BY <1>6, <1>7, <1>8, <1>9, <1>10, <1>11 DEF Sums

LEMMA OneMoreFrameOfTiles ==
  \A x \in Int : NTiles * (x + 1) = NTiles * x + NTiles
<1> SUFFICES ASSUME NEW x \in Int PROVE NTiles * (x + 1) = NTiles * x + NTiles
  OBVIOUS
<1>1. NTiles \in Int
  BY TilesFact
<1> QED
  BY <1>1

\* A fetched segment output moves its frame on: to its tiles, to failure, or nowhere.
LEMMA SegTakeSums ==
  ASSUME IInv, IInv', Places, Sums, NEW f \in Frames, NEW kind \in Kinds, SegTake(f, kind)
  PROVE  Sums'
<1>0. /\ TypeOK /\ TypeOK' /\ ThreadsOK /\ PlacesTyped /\ PlacesTyped' /\ OnePlace
      /\ segSeen \in Nat /\ segErr \in Nat /\ infOk \in Nat /\ infErr \in Nat
      /\ "seg_fetch" \in Fetchers /\ "inf_fetch" \in Fetchers /\ "stitch_fetch" \in Fetchers
  <2>1. TypeOK /\ TypeOK'
    BY DEF IInv
  <2>2. PlacesTyped /\ PlacesTyped'
    BY <2>1, PlaceTypes, PTL
  <2> QED
    BY <2>1, <2>2 DEF TypeOK, ThreadsOK, TotalsOK, Places, Fetchers
<1>1. /\ LostFrames /\ FramesMarked /\ FramesSeen /\ TilesCounted /\ BoxesCounted /\ DumpCounted
  BY DEF Sums
<1>2. /\ segSeen' = segSeen + 1 /\ infOk' = infOk /\ infErr' = infErr
      /\ imgDone' = imgDone /\ imgErr' = imgErr /\ boxes' = boxes /\ dumped' = dumped
      /\ done' = done /\ dispatched' = dispatched /\ stalled' = stalled
      /\ segErr' = IF kind = "ok" THEN segErr ELSE segErr + 1
  BY DEF SegTake, frameVars, endVars, outVars
<1>3. /\ pc["seg_fetch"] = "fetch" /\ pc'["seg_fetch"] = IF kind = "ok" THEN "submit" ELSE "mark"
      /\ \A t \in Fetchers : t # "seg_fetch" => pc'[t] = pc[t] /\ arg'[t] = arg[t] /\ bad'[t] = bad[t]
  BY <1>0 DEF SegTake, At, Goto, ThreadsOK, Threads
<1>3a. arg'["seg_fetch"] = ReplyId(f, kind)
  BY <1>0 DEF SegTake, ThreadsOK
<1>4. /\ Up(f) = 1 /\ Down(f) = 0 /\ \A k \in Tiles : Tile(f, k) = 0
      /\ Up(f)' = 0 /\ Down(f)' = One(kind = "err") /\ \A k \in Tiles : Tile(f, k)' = One(kind = "ok")
      /\ \A g \in Frames : g # f => /\ Up(g)' = Up(g) /\ Down(g)' = Down(g)
                                    /\ \A k \in Tiles : Tile(g, k)' = Tile(g, k)
  BY SegTakePlaces
<1>5. ~Lost("seg_fetch") /\ ~Misled("seg_fetch") /\ ~Misled("seg_fetch")'
  <2>1. ~Lost("seg_fetch")
    BY <1>0, <1>1, <1>3 DEF LostFrames
  <2>2. kind # "failed" => arg'["seg_fetch"] # NoId
    BY <1>3a DEF ReplyId, Frames, NoId
  <2>3. kind = "failed" => pc'["seg_fetch"] = "mark"
    BY <1>3
  <2> QED
    BY <2>1, <2>2, <2>3 DEF Misled, Lost
<1>6. \A t \in Fetchers : t # "seg_fetch" => (Lost(t)' <=> Lost(t))
  BY <1>3 DEF Lost
<1>7. \A g \in Frames : Gone(g) => Gone(g)'
  <2> SUFFICES ASSUME NEW g \in Frames, Gone(g) PROVE Gone(g)'
    OBVIOUS
  <2>1. g # f
    BY <1>4 DEF Gone
  <2> QED
    BY <1>2, <1>4, <2>1 DEF Gone
<1>8. LostFrames'
  <2>1. ASSUME NEW t \in Fetchers, Lost(t)' PROVE pc'[t] \in {"mark", "clean", "dead"}
    <3>1. CASE t = "seg_fetch"
      <4>1. kind = "failed"
        BY <1>3a, <2>1, <3>1 DEF Lost, ReplyId, Frames, NoId
      <4> QED
        BY <1>3, <3>1, <4>1
    <3>2. CASE t # "seg_fetch"
      BY <1>1, <1>3, <1>6, <2>1, <3>2 DEF LostFrames
    <3> QED
      BY <3>1, <3>2
  <2>2. ASSUME Lost("seg_fetch")' PROVE \E g \in Frames : Gone(g)' /\ g \notin dispatched'
    <3>1. kind = "failed"
      BY <1>3a, <2>2 DEF Lost, ReplyId, Frames, NoId
    <3>2. f \notin done /\ f \notin dispatched
      <4>1. f \notin done
        BY <1>0, <1>4, Only
      <4> QED
        BY <1>4, <4>1 DEF Places, Started
    <3>3. Gone(f)'
      BY <1>2, <1>4, <3>1, <3>2 DEF Gone, One
    <3> QED
      BY <1>2, <3>2, <3>3
  <2>3. ASSUME Lost("stitch_fetch")' PROVE \E g \in Frames : Gone(g)' /\ g \in dispatched'
    <3>1. Lost("stitch_fetch")
      BY <1>0, <1>6, <2>3
    <3> QED
      BY <1>1, <1>2, <1>7, <3>1 DEF LostFrames
  <2> QED
    BY <2>1, <2>2, <2>3 DEF LostFrames
<1>9. FramesMarked'
  <2>1. Misled("stitch_fetch")' <=> Misled("stitch_fetch")
    BY <1>0, <1>3 DEF Misled, Lost
  <2> QED
    BY <1>1, <1>2, <1>5, <2>1, MarkedKept
<1>10. FramesSeen'
  <2>1. Waiting' = Waiting \ {f} /\ f \in Waiting /\ Waiting \in SUBSET Frames
    BY <1>4 DEF Waiting
  <2>2. Cardinality(Waiting)' = Cardinality(Waiting) - 1 /\ Cardinality(Waiting) \in Nat
    BY <2>1, FrameSets, OneLess
  <2> QED
    BY <1>0, <1>1, <1>2, <2>2 DEF FramesSeen
<1>11. TilesCounted'
  <2> SUFFICES ASSUME ~stalled' PROVE (infOk + infErr + Cardinality(Open) = NTiles * (segSeen - segErr))'
    BY DEF TilesCounted
  <2>1. infOk + infErr + Cardinality(Open) = NTiles * (segSeen - segErr)
    BY <1>1, <1>2 DEF TilesCounted
  <2>2. Open \in SUBSET (Frames \X Tiles)
    BY DEF Open
  <2>3. CASE kind = "ok"
    <3>1. Open' = Open \cup ({f} \X Tiles)
      <4>1. \A t \in Frames \X Tiles : Tile(t[1], t[2])' = IF t[1] = f THEN 1 ELSE Tile(t[1], t[2])
        BY <1>4, <2>3 DEF One
      <4> QED
        BY <4>1 DEF Open
    <3>2. Open \cap ({f} \X Tiles) = {}
      BY <1>4 DEF Open
    <3>3. IsFiniteSet({f} \X Tiles) /\ Cardinality({f} \X Tiles) = NTiles
      <4>1. IsFiniteSet({f}) /\ Cardinality({f}) = 1
        BY FS_Singleton
      <4>2. IsFiniteSet({f} \X Tiles) /\ Cardinality({f} \X Tiles) = Cardinality({f}) * Cardinality(Tiles)
        BY <4>1, TilesFact, FS_Product
      <4> QED
        BY <4>1, <4>2, TilesFact
    <3>4. IsFiniteSet(Open) /\ Cardinality(Open) \in Nat
      BY <2>2, FrameSets
    <3>5. Cardinality(Open \cup ({f} \X Tiles))
          = Cardinality(Open) + Cardinality({f} \X Tiles) - Cardinality(Open \cap ({f} \X Tiles))
      BY <3>3, <3>4, FS_Union
    <3>6. Cardinality(Open \cap ({f} \X Tiles)) = 0
      BY <3>2, FS_EmptySet, Zenon
    <3>7. Cardinality(Open)' = Cardinality(Open) + NTiles
      BY <3>1, <3>3, <3>4, <3>5, <3>6, TilesFact
    <3>8. segSeen' - segErr' = (segSeen - segErr) + 1 /\ segSeen - segErr \in Int
      BY <1>0, <1>2, <2>3
    <3>9. NTiles * (segSeen' - segErr') = NTiles * (segSeen - segErr) + NTiles
      BY <3>8, OneMoreFrameOfTiles
    <3> QED
      BY <1>0, <1>2, <2>1, <3>4, <3>7, <3>9, TilesFact
  <2>4. CASE kind # "ok"
    <3>1. \A g \in Frames, k \in Tiles : Tile(g, k)' = Tile(g, k)
      BY <1>4, <2>4 DEF One
    <3>2. Open' = Open
      BY <3>1 DEF Open
    <3>3. Cardinality(Open)' = Cardinality(Open)
      BY <3>2
    <3>4. segSeen' - segErr' = segSeen - segErr
      BY <1>0, <1>2, <2>4
    <3> QED
      BY <1>2, <2>1, <3>3, <3>4
  <2> QED
    BY <2>3, <2>4
<1>12. BoxesCounted'
  BY <1>0, <1>1, <1>2, <1>3 DEF BoxesCounted, One
<1>13. DumpCounted'
  <2>1. Cardinality(Recorded)' = Cardinality(Recorded)
    BY <1>2 DEF Recorded
  <2>2. \A g \in Frames : Has("stitch_fetch", "mark", g)' <=> Has("stitch_fetch", "mark", g)
    BY <1>0, <1>3 DEF Has
  <2>3. One(pc["stitch_fetch"] = "mark" /\ ~bad["stitch_fetch"])'
        = One(pc["stitch_fetch"] = "mark" /\ ~bad["stitch_fetch"])
    BY <1>0, <1>3 DEF One
  <2> QED
    BY <1>1, <1>2, <2>1, <2>2, <2>3 DEF DumpCounted
<1> QED
  BY <1>8, <1>9, <1>10, <1>11, <1>12, <1>13 DEF Sums

\* A fetched stitch output is a success to record, a failure, or a lost frame.
LEMMA StitchTakeSums ==
  ASSUME IInv, IInv', Places, Sums, NEW f \in Frames, NEW kind \in Kinds, StitchTake(f, kind)
  PROVE  Sums'
<1>0. /\ TypeOK /\ TypeOK' /\ ThreadsOK /\ PlacesTyped /\ PlacesTyped' /\ OnePlace
      /\ imgDone \in Nat /\ imgErr \in Nat /\ boxes \in Nat
      /\ "seg_fetch" \in Fetchers /\ "inf_fetch" \in Fetchers /\ "stitch_fetch" \in Fetchers
  <2>1. TypeOK /\ TypeOK'
    BY DEF IInv
  <2>2. PlacesTyped /\ PlacesTyped'
    BY <2>1, PlaceTypes, PTL
  <2> QED
    BY <2>1, <2>2 DEF TypeOK, ThreadsOK, TotalsOK, Places, Fetchers
<1>1. /\ LostFrames /\ FramesMarked /\ FramesSeen /\ TilesCounted /\ BoxesCounted /\ DumpCounted
  BY DEF Sums
<1>2. /\ segSeen' = segSeen /\ infOk' = infOk /\ infErr' = infErr /\ segErr' = segErr
      /\ imgDone' = imgDone /\ imgErr' = imgErr /\ dumped' = dumped
      /\ done' = done /\ dispatched' = dispatched /\ stalled' = stalled
      /\ boxes' = IF kind = "ok" THEN boxes + 1 ELSE boxes
  BY DEF StitchTake, frameVars, endVars, outVars
<1>3. /\ pc["stitch_fetch"] = "fetch" /\ pc'["stitch_fetch"] = IF kind = "ok" THEN "dump" ELSE "mark"
      /\ \A t \in Fetchers : t # "stitch_fetch" => pc'[t] = pc[t] /\ arg'[t] = arg[t] /\ bad'[t] = bad[t]
  BY <1>0 DEF StitchTake, At, Goto, ThreadsOK, Threads
<1>3a. arg'["stitch_fetch"] = ReplyId(f, kind)
  BY <1>0 DEF StitchTake, ThreadsOK
<1>3b. bad'["stitch_fetch"] = (kind # "ok")
  BY <1>0 DEF StitchTake, ThreadsOK
<1>4. /\ Down(f) = 1 /\ Up(f) = 0 /\ f \notin done /\ f \in dispatched /\ \A k \in Tiles : Tile(f, k) = 0
      /\ \A g \in Frames : /\ Up(g)' = Up(g)
                           /\ Down(g)' = (IF g = f /\ kind = "failed" THEN 0 ELSE Down(g))
                           /\ \A k \in Tiles : Tile(g, k)' = Tile(g, k)
  BY StitchTakePlaces
<1>5. ~Lost("stitch_fetch") /\ ~Misled("stitch_fetch") /\ ~Misled("stitch_fetch")'
  <2>1. ~Lost("stitch_fetch")
    BY <1>0, <1>1, <1>3 DEF LostFrames
  <2>2. kind # "failed" => arg'["stitch_fetch"] # NoId
    BY <1>3a DEF ReplyId, Frames, NoId
  <2>3. kind = "failed" => pc'["stitch_fetch"] = "mark"
    BY <1>3
  <2> QED
    BY <2>1, <2>2, <2>3 DEF Misled, Lost
<1>6. \A t \in Fetchers : t # "stitch_fetch" => (Lost(t)' <=> Lost(t))
  BY <1>3 DEF Lost
<1>7. \A g \in Frames : Gone(g) => Gone(g)'
  <2> SUFFICES ASSUME NEW g \in Frames, Gone(g) PROVE Gone(g)'
    OBVIOUS
  <2>1. g # f
    BY <1>4 DEF Gone
  <2> QED
    BY <1>2, <1>4, <2>1 DEF Gone
<1>8. LostFrames'
  <2>1. ASSUME NEW t \in Fetchers, Lost(t)' PROVE pc'[t] \in {"mark", "clean", "dead"}
    <3>1. CASE t = "stitch_fetch"
      <4>1. kind = "failed"
        BY <1>3a, <2>1, <3>1 DEF Lost, ReplyId, Frames, NoId
      <4> QED
        BY <1>3, <3>1, <4>1
    <3>2. CASE t # "stitch_fetch"
      BY <1>1, <1>3, <1>6, <2>1, <3>2 DEF LostFrames
    <3> QED
      BY <3>1, <3>2
  <2>2. ASSUME Lost("stitch_fetch")' PROVE \E g \in Frames : Gone(g)' /\ g \in dispatched'
    <3>1. kind = "failed"
      BY <1>3a, <2>2 DEF Lost, ReplyId, Frames, NoId
    <3>2. Gone(f)'
      BY <1>2, <1>4, <3>1 DEF Gone
    <3> QED
      BY <1>2, <1>4, <3>2
  <2>3. ASSUME Lost("seg_fetch")' PROVE \E g \in Frames : Gone(g)' /\ g \notin dispatched'
    <3>1. Lost("seg_fetch")
      BY <1>0, <1>6, <2>3
    <3> QED
      BY <1>1, <1>2, <1>7, <3>1 DEF LostFrames
  <2> QED
    BY <2>1, <2>2, <2>3 DEF LostFrames
<1>9. FramesMarked'
  <2>1. Misled("seg_fetch")' <=> Misled("seg_fetch")
    BY <1>0, <1>3 DEF Misled, Lost
  <2> QED
    BY <1>1, <1>2, <1>5, <2>1, MarkedKept
<1>10. FramesSeen'
  BY <1>1, <1>2, <1>4, SeenKept
<1>11. TilesCounted'
  BY <1>1, <1>2, <1>4, TilesKept
<1>12. BoxesCounted'
  <2> SUFFICES ASSUME ~stalled' PROVE BoxesCounted'
    BY DEF BoxesCounted
  <2>1. boxes = imgDone - imgErr + 0 + 0
    BY <1>1, <1>2, <1>3 DEF BoxesCounted, One
  <2>2. /\ One(pc["stitch_fetch"] = "dump")' = One(kind = "ok")
        /\ One(pc["stitch_fetch"] = "mark" /\ ~bad["stitch_fetch"])' = 0
    BY <1>3, <1>3b DEF One
  <2>3. boxes' = imgDone' - imgErr' + One(kind = "ok") + 0
    BY <1>0, <1>2, <2>1 DEF One
  <2> QED
    BY <2>2, <2>3 DEF BoxesCounted
<1>13. DumpCounted'
  <2>1. Cardinality(Recorded)' = Cardinality(Recorded)
    BY <1>2 DEF Recorded
  <2>2. \A g \in Frames : ~Has("stitch_fetch", "mark", g)
    BY <1>3 DEF Has
  <2>3. One(pc["stitch_fetch"] = "mark" /\ ~bad["stitch_fetch"])'
        = One(pc["stitch_fetch"] = "mark" /\ ~bad["stitch_fetch"])
    BY <1>3, <1>3b DEF One
  <2> QED
    BY <1>1, <1>2, <2>1, <2>2, <2>3 DEF DumpCounted
<1> QED
  BY <1>8, <1>9, <1>10, <1>11, <1>12, <1>13 DEF Sums

\* A fetched tile answer is counted, and its tile is no longer open.
LEMMA InfTakeSums ==
  ASSUME IInv, IInv', Places, Errors, Sums, NEW f \in Frames, NEW k \in Tiles, NEW kind \in Kinds,
         InfTake(f, k, kind)
  PROVE  Sums'
<1>0. /\ TypeOK /\ TypeOK' /\ ThreadsOK /\ PlacesTyped /\ PlacesTyped' /\ Named
      /\ infOk \in Nat /\ infErr \in Nat
      /\ "seg_fetch" \in Fetchers /\ "inf_fetch" \in Fetchers /\ "stitch_fetch" \in Fetchers
  <2>1. TypeOK /\ TypeOK'
    BY DEF IInv
  <2>2. PlacesTyped /\ PlacesTyped'
    BY <2>1, PlaceTypes, PTL
  <2> QED
    BY <2>1, <2>2 DEF TypeOK, ThreadsOK, TotalsOK, Errors, Fetchers
<1>1. /\ LostFrames /\ FramesMarked /\ FramesSeen /\ TilesCounted /\ BoxesCounted /\ DumpCounted
  BY DEF Sums
<1>2. /\ segSeen' = segSeen /\ segErr' = segErr
      /\ imgDone' = imgDone /\ imgErr' = imgErr /\ boxes' = boxes /\ dumped' = dumped
      /\ done' = done /\ stalled' = stalled
      /\ infOk' = (IF kind = "ok" THEN infOk + 1 ELSE infOk)
      /\ infErr' = (IF kind = "ok" THEN infErr ELSE infErr + 1)
      /\ pc["inf_fetch"] = "fetch"
  BY DEF InfTake, At, endVars, outVars
<1>3. dispatched' = dispatched \/ dispatched' = dispatched \cup {f}
  BY InfTakeCases DEF Skipped, Dispatches
<1>c. \/ UNCHANGED <<arg, bad, pc>>
      \/ /\ arg' = [arg EXCEPT !["inf_fetch"] = f] /\ bad' = [bad EXCEPT !["inf_fetch"] = TRUE]
         /\ \E label \in {"mark", "submit"} : pc' = [pc EXCEPT !["inf_fetch"] = label]
  BY InfTakeCases DEF Skipped, Dispatches
<1>4. /\ \A t \in Fetchers : t # "inf_fetch" => pc'[t] = pc[t] /\ arg'[t] = arg[t] /\ bad'[t] = bad[t]
      /\ (arg'["inf_fetch"] = f \/ (arg'["inf_fetch"] = arg["inf_fetch"] /\ bad'["inf_fetch"] = bad["inf_fetch"]))
  BY <1>0, <1>c DEF ThreadsOK, Threads
<1>5. /\ \A g \in Frames, i \in Tiles : Tile(g, i)' = IF g = f /\ i = k THEN 0 ELSE Tile(g, i)
      /\ \A g \in Frames : Up(g)' = Up(g)
      /\ Tile(f, k) = 1
  BY InfTakeFact
<1>6. \A g \in Frames : g # f => Down(g)' = Down(g)
  BY InfTakeDown
<1>7. \A g \in Frames : Gone(g) => g # f /\ Gone(g)'
  <2> SUFFICES ASSUME NEW g \in Frames, Gone(g) PROVE g # f /\ Gone(g)'
    OBVIOUS
  <2>1. g # f
    BY <1>5 DEF Gone
  <2>2. \A i \in Tiles : Tile(g, i)' = 0
    BY <1>5, <2>1 DEF Gone
  <2> QED
    BY <1>2, <1>5, <1>6, <2>1, <2>2 DEF Gone
<1>8. LostFrames'
  <2>1. ~Lost("inf_fetch")'
    <3>1. f # NoId
      BY DEF Frames, NoId
    <3> QED
      BY <1>0, <1>4, <3>1 DEF Named, Lost
  <2>2. \A t \in Fetchers : t # "inf_fetch" => (Lost(t)' <=> Lost(t))
    BY <1>4 DEF Lost
  <2>3. ASSUME NEW t \in Fetchers, Lost(t)' PROVE pc'[t] \in {"mark", "clean", "dead"}
    BY <1>1, <1>4, <2>1, <2>2, <2>3 DEF LostFrames
  <2>4. ASSUME Lost("stitch_fetch")' PROVE \E g \in Frames : Gone(g)' /\ g \in dispatched'
    <3>1. PICK g \in Frames : Gone(g) /\ g \in dispatched
      BY <1>0, <1>1, <2>2, <2>4 DEF LostFrames
    <3> QED
      BY <1>3, <1>7, <3>1
  <2>5. ASSUME Lost("seg_fetch")' PROVE \E g \in Frames : Gone(g)' /\ g \notin dispatched'
    <3>1. PICK g \in Frames : Gone(g) /\ g \notin dispatched
      BY <1>0, <1>1, <2>2, <2>5 DEF LostFrames
    <3> QED
      BY <1>3, <1>7, <3>1
  <2> QED
    BY <2>3, <2>4, <2>5 DEF LostFrames
<1>9. FramesMarked'
  <2>1. /\ Misled("seg_fetch")' <=> Misled("seg_fetch")
        /\ Misled("stitch_fetch")' <=> Misled("stitch_fetch")
    BY <1>0, <1>4 DEF Misled, Lost
  <2> QED
    BY <1>1, <1>2, <2>1, MarkedKept
<1>10. FramesSeen'
  BY <1>1, <1>2, <1>5, SeenKept
<1>11. TilesCounted'
  <2> SUFFICES ASSUME ~stalled' PROVE (infOk + infErr + Cardinality(Open) = NTiles * (segSeen - segErr))'
    BY DEF TilesCounted
  <2>1. infOk + infErr + Cardinality(Open) = NTiles * (segSeen - segErr)
    BY <1>1, <1>2 DEF TilesCounted
  <2>2. Open \in SUBSET (Frames \X Tiles)
    BY DEF Open
  <2>3. Open' = Open \ {<<f, k>>} /\ <<f, k>> \in Open
    <3>1. \A t \in Frames \X Tiles : Tile(t[1], t[2])' = IF t = <<f, k>> THEN 0 ELSE Tile(t[1], t[2])
      <4> SUFFICES ASSUME NEW g \in Frames, NEW i \in Tiles
                   PROVE  Tile(g, i)' = IF <<g, i>> = <<f, k>> THEN 0 ELSE Tile(g, i)
        OBVIOUS
      <4>1. <<g, i>> = <<f, k>> <=> g = f /\ i = k
        OBVIOUS
      <4> QED
        BY <1>5, <4>1
    <3> QED
      BY <1>5, <3>1 DEF Open
  <2>4. Cardinality(Open)' = Cardinality(Open) - 1 /\ Cardinality(Open) \in Nat
    BY <2>2, <2>3, FrameSets, OneLess
  <2>5. infOk' + infErr' = infOk + infErr + 1
    BY <1>0, <1>2
  <2> QED
    BY <1>0, <1>2, <2>1, <2>4, <2>5
<1>12. BoxesCounted'
  BY <1>0, <1>1, <1>2, <1>4 DEF BoxesCounted, One
<1>13. DumpCounted'
  <2>1. Cardinality(Recorded)' = Cardinality(Recorded)
    BY <1>2 DEF Recorded
  <2>2. \A g \in Frames : Has("stitch_fetch", "mark", g)' <=> Has("stitch_fetch", "mark", g)
    BY <1>0, <1>4 DEF Has
  <2>3. One(pc["stitch_fetch"] = "mark" /\ ~bad["stitch_fetch"])'
        = One(pc["stitch_fetch"] = "mark" /\ ~bad["stitch_fetch"])
    BY <1>0, <1>4 DEF One
  <2> QED
    BY <1>1, <1>2, <2>1, <2>2, <2>3 DEF DumpCounted
<1> QED
  BY <1>8, <1>9, <1>10, <1>11, <1>12, <1>13 DEF Sums

\* A success is recorded and not yet counted.
Succeeding == One(pc["stitch_fetch"] = "mark" /\ ~bad["stitch_fetch"])
Dumping    == One(pc["stitch_fetch"] = "dump")

\* _finish counts a frame, or an answer without an id.
LEMMA MarkSums ==
  ASSUME IInv, IInv', Places, Errors, Sums, NEW t \in Fetchers, Mark(t)
  PROVE  Sums'
<1>0. /\ TypeOK /\ ThreadsOK /\ ClientOK /\ OnePlace /\ Verdicts /\ Named
      /\ imgDone \in Nat /\ imgErr \in Nat /\ boxes \in Nat
      /\ "seg_fetch" \in Fetchers /\ "inf_fetch" \in Fetchers /\ "stitch_fetch" \in Fetchers
  BY DEF IInv, TypeOK, TotalsOK, Places, Errors, Fetchers
<1>1. /\ LostFrames /\ FramesMarked /\ FramesSeen /\ TilesCounted /\ BoxesCounted /\ DumpCounted
  BY DEF Sums
<1>2. /\ segSeen' = segSeen /\ segErr' = segErr /\ infOk' = infOk /\ infErr' = infErr
      /\ boxes' = boxes /\ dumped' = dumped /\ dispatched' = dispatched
      /\ arg' = arg /\ bad' = bad /\ stalled' = stalled
  <2>1. AlreadyDone(arg[t]) => stalled' = stalled
    BY DEF Mark, endVars
  <2>2. ~AlreadyDone(arg[t]) => stalled' = stalled
    BY DEF Mark
  <2> QED
    BY <2>1, <2>2 DEF Mark, localVars, outVars
<1>3. /\ pc[t] = "mark" /\ pc'[t] = "clean"
      /\ \A u \in Fetchers : u # t => pc'[u] = pc[u]
      /\ arg[t] \in Frames \cup {NoId} /\ arg[t] \notin done
      /\ done' = done \cup ({arg[t]} \cap Frames)
      /\ imgDone' = imgDone + 1 /\ imgErr' = (IF bad[t] THEN imgErr + 1 ELSE imgErr)
  BY MarkFact DEF Fetchers, Threads
<1>4. \A g \in Frames : /\ Up(g)' = Up(g) /\ Down(g)' = (IF g = arg[t] THEN 0 ELSE Down(g))
                        /\ \A k \in Tiles : Tile(g, k)' = Tile(g, k)
  BY MarkPlaces
<1>5. arg[t] \in Frames => Down(arg[t]) = 1
  <2> SUFFICES ASSUME arg[t] \in Frames PROVE Down(arg[t]) = 1
    OBVIOUS
  <2>1. Has(t, "mark", arg[t])
    BY <1>3 DEF Has
  <2> QED
    BY <1>0, <2>1, InHand
<1>6. \A u \in Fetchers : Lost(u)' <=> Lost(u)
  BY <1>2 DEF Lost
<1>7. t # "stitch_fetch" => bad[t]
  BY <1>0, <1>3 DEF Verdicts, Fetchers
<1>8. LostFrames'
  <2>1. StaysGone
    <3> SUFFICES ASSUME NEW g \in Frames, Gone(g) PROVE Gone(g)' /\ (g \in dispatched' <=> g \in dispatched)
      BY DEF StaysGone
    <3>1. g # arg[t]
      BY <1>5 DEF Gone
    <3> QED
      BY <1>2, <1>3, <1>4, <3>1 DEF Gone
  <2>2. \A u \in Fetchers : Lost(u)' => Lost(u) /\ pc'[u] \in {"mark", "clean", "dead"}
    BY <1>1, <1>3, <1>6 DEF LostFrames
  <2> QED
    BY <1>1, <2>1, <2>2, LostKept
<1>9. FramesMarked'
  <2>0. done \in SUBSET Frames /\ IsFiniteSet(done) /\ Cardinality(done) \in Nat
    BY <1>0, FrameSets DEF ClientOK
  <2>1. \A u \in Fetchers : u # t => (Misled(u)' <=> Misled(u))
    BY <1>3, <1>6 DEF Misled
  <2>2. CASE arg[t] \in Frames
    <3>1. done' = done \cup {arg[t]}
      BY <1>3, <2>2
    <3>2. Cardinality(done)' = Cardinality(done) + 1
      BY <1>3, <2>0, <3>1, OneMore
    <3>3. ~Misled(t) /\ ~Misled(t)'
      BY <1>2, <2>2 DEF Misled, Lost, Frames, NoId
    <3>4. /\ Misled("seg_fetch")' <=> Misled("seg_fetch")
          /\ Misled("stitch_fetch")' <=> Misled("stitch_fetch")
      BY <1>0, <2>1, <3>3
    <3>5. /\ One(Misled("seg_fetch"))' = One(Misled("seg_fetch"))
          /\ One(Misled("stitch_fetch"))' = One(Misled("stitch_fetch"))
          /\ One(Misled("seg_fetch")) \in Nat /\ One(Misled("stitch_fetch")) \in Nat
      BY <3>4 DEF One
    <3> QED
      BY <1>0, <1>1, <1>3, <2>0, <3>2, <3>5 DEF FramesMarked
  <2>3. CASE arg[t] = NoId
    <3>1. done' = done
      BY <1>3, <2>3 DEF Frames, NoId
    <3>2. Cardinality(done)' = Cardinality(done)
      BY <3>1
    <3>3. t # "inf_fetch"
      BY <1>0, <1>7, <2>3 DEF Named
    <3>4. bad[t]
      BY <1>0, <1>3, <1>7, <2>3 DEF Named
    <3>5. ~Misled(t) /\ Misled(t)'
      BY <1>2, <1>3, <2>3, <3>4 DEF Misled, Lost
    <3>6. CASE t = "seg_fetch"
      <4>1. /\ One(Misled("seg_fetch")) = 0 /\ One(Misled("seg_fetch"))' = 1
            /\ One(Misled("stitch_fetch"))' = One(Misled("stitch_fetch"))
            /\ One(Misled("stitch_fetch")) \in Nat
        BY <1>0, <2>1, <3>5, <3>6 DEF One
      <4> QED
        BY <1>0, <1>1, <1>3, <2>0, <3>2, <4>1 DEF FramesMarked
    <3>7. CASE t = "stitch_fetch"
      <4>1. /\ One(Misled("stitch_fetch")) = 0 /\ One(Misled("stitch_fetch"))' = 1
            /\ One(Misled("seg_fetch"))' = One(Misled("seg_fetch"))
            /\ One(Misled("seg_fetch")) \in Nat
        BY <1>0, <2>1, <3>5, <3>7 DEF One
      <4> QED
        BY <1>0, <1>1, <1>3, <2>0, <3>2, <4>1 DEF FramesMarked
    <3> QED
      BY <3>3, <3>6, <3>7 DEF Fetchers
  <2> QED
    BY <1>3, <2>2, <2>3
<1>10. FramesSeen'
  BY <1>1, <1>2, <1>4, SeenKept
<1>11. TilesCounted'
  BY <1>1, <1>2, <1>4, TilesKept
<1>12. /\ Succeeding' \in Nat /\ Succeeding \in Nat
       /\ imgDone' - imgErr' + Succeeding' = imgDone - imgErr + Succeeding
       /\ Dumping' = Dumping
  <2>1. Succeeding \in Nat /\ Succeeding' \in Nat
    BY DEF One, Succeeding, Dumping
  <2>2. CASE bad[t]
    <3>1. imgDone' - imgErr' = imgDone - imgErr
      BY <1>0, <1>3, <2>2
    <3>2. Succeeding' = Succeeding
      BY <1>0, <1>2, <1>3, <2>2 DEF One, Succeeding, Dumping
    <3>3. Dumping' = Dumping
      BY <1>0, <1>3 DEF One, Succeeding, Dumping
    <3> QED
      BY <2>1, <3>1, <3>2, <3>3
  <2>3. CASE ~bad[t]
    <3>1. t = "stitch_fetch"
      BY <1>7, <2>3
    <3>2. Succeeding = 1 /\ Succeeding' = 0
      BY <1>2, <1>3, <2>3, <3>1 DEF One, Succeeding, Dumping
    <3>3. Dumping' = Dumping
      BY <1>3, <3>1 DEF One, Succeeding, Dumping
    <3>4. imgDone' - imgErr' = imgDone - imgErr + 1
      BY <1>0, <1>3, <2>3
    <3> QED
      BY <1>0, <2>1, <3>2, <3>3, <3>4
  <2> QED
    BY <2>2, <2>3
<1>13. BoxesCounted'
  <2> SUFFICES ASSUME ~stalled'
               PROVE  boxes' = imgDone' - imgErr' + Dumping' + Succeeding'
    BY DEF BoxesCounted, Succeeding, Dumping
  <2>1. boxes = imgDone - imgErr + Dumping + Succeeding
    BY <1>1, <1>2 DEF BoxesCounted, Succeeding, Dumping
  <2>2. Dumping \in Nat /\ imgDone' \in Nat /\ imgErr' \in Nat
    BY <1>0, <1>3 DEF One, Succeeding, Dumping
  <2>3. ASSUME NEW a \in Int, NEW b \in Int, NEW d \in Nat, NEW p \in Nat, NEW q \in Nat, a + p = b + q
        PROVE  a + d + p = b + d + q
    BY <2>3
  <2>4. imgDone' - imgErr' \in Int /\ imgDone - imgErr \in Int
    BY <1>0, <2>2
  <2>5. imgDone' - imgErr' + Dumping + Succeeding' = imgDone - imgErr + Dumping + Succeeding
    BY <1>12, <2>2, <2>3, <2>4
  <2> QED
    BY <1>2, <1>12, <2>1, <2>5
<1>14. DumpCounted'
  <2>1. Cardinality(Recorded)' = Cardinality(Recorded)
    BY <1>2 DEF Recorded
  <2>2. Cardinality(Recorded)' = imgDone' - imgErr' + Succeeding'
    <3>1. Cardinality(Recorded) = imgDone - imgErr + Succeeding
      BY <1>1 DEF DumpCounted, Succeeding
    <3> QED
      BY <1>12, <2>1, <3>1
  <2>3. \A g \in Frames : dumped'[g] <= 1
    BY <1>1, <1>2 DEF DumpCounted, Succeeding
  <2>4. \A g \in Frames : dumped'[g] > 0 => g \in done' \/ Has("stitch_fetch", "mark", g)'
    <3> SUFFICES ASSUME NEW g \in Frames, dumped'[g] > 0
                 PROVE  g \in done' \/ Has("stitch_fetch", "mark", g)'
      OBVIOUS
    <3>1. g \in done \/ Has("stitch_fetch", "mark", g)
      BY <1>1, <1>2 DEF DumpCounted, Succeeding
    <3> QED
      BY <1>0, <1>2, <1>3, <3>1 DEF Has
  <2> QED
    BY <2>2, <2>3, <2>4 DEF DumpCounted, Succeeding
<1> QED
  BY <1>8, <1>9, <1>10, <1>11, <1>13, <1>14 DEF Sums

LEMMA SumsStep ==
  ASSUME MaxDup = 0, IInv, IInv', Places, Errors, Totals, [Next]_vars
  PROVE  Sums'
<1>0. Sums
  BY DEF Totals
<1>1. ASSUME NEW t \in Fetchers, Mark(t) \/ Clean(t) PROVE Sums'
  BY <1>0, <1>1, MarkSums, PassSums
<1>2. ASSUME NEW f \in Frames, NEW kind \in Kinds, SegTake(f, kind) \/ StitchTake(f, kind) PROVE Sums'
  BY <1>0, <1>2, SegTakeSums, StitchTakeSums
<1>3. ASSUME NEW f \in Frames, NEW k \in Tiles, NEW kind \in Kinds, InfTake(f, k, kind) PROVE Sums'
  BY <1>0, <1>3, InfTakeSums
<1>4. CASE SendSegment \/ Served \/ Quiet
  BY <1>0, <1>4, PassSums
<1>5. CASE SegSubmitTile \/ InfSubmitStitch
  BY <1>5, SubmitSums
<1>6. CASE StitchDump
  BY <1>6, StitchDumpSums
<1> QED
  BY <1>1, <1>2, <1>3, <1>4, <1>5, <1>6, StepCases

endStateVars == <<doneEvt, stalled, dumpOpen, sessOpen, imgDone>>

\* Only _finish, the watchdog and main change how far the end of the run is.
LEMMA EndCases ==
  ASSUME MaxDup = 0, IInv, IInv', Places, [Next]_vars
  PROVE  \/ \E t \in Fetchers : Mark(t)
         \/ Watchdog \/ Main
         \/ UNCHANGED endStateVars /\ pc'["main"] = pc["main"]
<1>0. ThreadsOK /\ "main" \in Threads /\ "main" \notin Fetchers /\ Fetchers \subseteq Threads
  BY DEF IInv, TypeOK, Threads, Fetchers
<1>1. ASSUME NEW t \in Threads \ {"main"}, NEW to, Goto(t, to) PROVE pc'["main"] = pc["main"]
  BY <1>0, <1>1 DEF Goto, ThreadsOK
<1>2. /\ "seg_submit" \in Threads \ {"main"} /\ "seg_fetch" \in Threads \ {"main"}
      /\ "inf_fetch" \in Threads \ {"main"} /\ "stitch_fetch" \in Threads \ {"main"}
  BY DEF Threads, Fetchers
<1>3. ASSUME NEW t \in Threads \ {"main"}, NEW from, NEW to, Move(t, from, to)
      PROVE  UNCHANGED endStateVars /\ pc'["main"] = pc["main"]
  BY <1>1, <1>3 DEF Move, dataVars, endStateVars, endVars, outVars, totalVars
<1>4. CASE SendSegment \/ SegSubmitTile \/ InfSubmitStitch \/ StitchDump \/ Acquire \/ Register
  <2>1. UNCHANGED endStateVars
    BY <1>4 DEF SendSegment, SegSubmitTile, InfSubmitStitch, StitchDump, Acquire, Register,
                endStateVars, endVars, outVars, totalVars
  <2>2. \E t \in {"seg_submit", "seg_fetch", "inf_fetch", "stitch_fetch"} : \E to \in Labels : Goto(t, to)
    BY <1>4 DEF SendSegment, SegSubmitTile, InfSubmitStitch, StitchDump, Acquire, Register, Labels
  <2> QED
    BY <1>1, <1>2, <2>1, <2>2
<1>5. ASSUME NEW t \in Fetchers, Clean(t) \/ Release(t)
      PROVE  UNCHANGED endStateVars /\ pc'["main"] = pc["main"]
  <2>1. UNCHANGED endStateVars
    BY <1>5 DEF Clean, Release, endStateVars, endVars, outVars, totalVars
  <2>2. \E to : Goto(t, to)
    BY <1>5 DEF Clean, Release
  <2> QED
    BY <1>0, <1>1, <2>1, <2>2
<1>6. ASSUME NEW f \in Frames, NEW kind \in Kinds, SegTake(f, kind) \/ StitchTake(f, kind)
      PROVE  UNCHANGED endStateVars /\ pc'["main"] = pc["main"]
  <2>1. UNCHANGED endStateVars
    BY <1>6 DEF SegTake, StitchTake, endStateVars, endVars, outVars
  <2>2. \E t \in {"seg_fetch", "stitch_fetch"} : \E to \in Labels : Goto(t, to)
    BY <1>6 DEF SegTake, StitchTake, Labels
  <2> QED
    BY <1>1, <1>2, <2>1, <2>2
<1>7. ASSUME NEW f \in Frames, NEW k \in Tiles, NEW kind \in Kinds, InfTake(f, k, kind)
      PROVE  UNCHANGED endStateVars /\ pc'["main"] = pc["main"]
  <2>1. UNCHANGED endStateVars
    BY <1>7 DEF InfTake, endStateVars, endVars, outVars
  <2>2. pc' = pc \/ \E to : Goto("inf_fetch", to)
    BY <1>7 DEF InfTake
  <2> QED
    BY <1>1, <1>2, <2>1, <2>2
<1>8. CASE Served
  <2>1. UNCHANGED clientVars
    BY <1>8, ServedBad
  <2> QED
    BY <2>1 DEF clientVars, endStateVars, endVars, outVars, totalVars
<1>9. CASE SubmitterExit \/ SegFetchExit \/ InfFetchExit \/ StitchCheck \/ StitchPollTimeout
           \/ \E t \in Fetchers : SessionGone(t)
  BY <1>0, <1>2, <1>3, <1>9
     DEF SubmitterExit, SegFetchExit, InfFetchExit, StitchCheck, StitchPollTimeout, SessionGone
<1>10. CASE IdleElapses \/ UNCHANGED vars
  BY <1>10 DEF IdleElapses, vars, dataVars, endStateVars, endVars, outVars, totalVars
<1> QED
  BY <1>4, <1>5, <1>6, <1>7, <1>8, <1>9, <1>10, StepCases DEF Quiet

LEMMA EndStep ==
  ASSUME MaxDup = 0, IInv, IInv', Places, EndReached, [Next]_vars
  PROVE  EndReached'
<1>0. ThreadsOK /\ "main" \in Threads /\ "main" \notin Fetchers /\ "watchdog" \in Threads
      /\ Fetchers \subseteq Threads /\ imgDone \in Nat /\ Count \in Nat
  BY FrameSets DEF IInv, TypeOK, TotalsOK, Threads, Fetchers
<1>1. ASSUME NEW t \in Fetchers, Mark(t) PROVE EndReached'
  <2>1. /\ imgDone' = imgDone + 1 /\ doneEvt' = (doneEvt \/ imgDone + 1 >= Count)
        /\ pc'["main"] = pc["main"]
    BY <1>0, <1>1, MarkFact
  <2>2. dumpOpen' = dumpOpen /\ sessOpen' = sessOpen /\ stalled' = stalled
    <3>1. AlreadyDone(arg[t]) => stalled' = stalled
      BY <1>1 DEF Mark, endVars
    <3>2. ~AlreadyDone(arg[t]) => stalled' = stalled
      BY <1>1 DEF Mark
    <3> QED
      BY <1>1, <3>1, <3>2 DEF Mark, outVars
  <2>3. (doneEvt => doneEvt') /\ (doneEvt' => doneEvt \/ imgDone + 1 >= Count)
    BY <2>1, Zenon
  <2>4. imgDone >= Count => imgDone' >= Count
    BY <1>0, <2>1
  <2> QED
    BY <2>1, <2>2, <2>3, <2>4 DEF EndReached
<1>2. CASE Watchdog
  <2>1. CASE WatchdogFire
    BY <1>0, <2>1 DEF WatchdogFire, EndReached
  <2>2. CASE WatchdogCheck \/ WatchdogLook
    <3>1. UNCHANGED dataVars /\ pc'["main"] = pc["main"]
      BY <1>0, <2>2 DEF WatchdogCheck, WatchdogLook, Move, Goto, ThreadsOK
    <3> QED
      BY <3>1 DEF dataVars, endVars, outVars, totalVars, EndReached
  <2> QED
    BY <1>2, <2>1, <2>2 DEF Watchdog
<1>3. CASE Main
  <2>1. CASE MainWait
    BY <1>0, <2>1 DEF MainWait, Move, dataVars, endVars, outVars, totalVars, EndReached
  <2>2. CASE MainJoin \/ MainReport
    <3>1. UNCHANGED dataVars /\ pc["main"] # "wait"
      BY <2>2 DEF MainJoin, MainReport, Move, At
    <3> QED
      BY <3>1 DEF dataVars, endVars, outVars, totalVars, EndReached
  <2>3. CASE MainCloseDump \/ MainCloseSessions
    <3>1. pc["main"] # "wait" /\ UNCHANGED <<totalVars, endVars>>
      BY <2>3 DEF MainCloseDump, MainCloseSessions, At
    <3> QED
      BY <3>1 DEF totalVars, endVars, EndReached
  <2> QED
    BY <1>3, <2>1, <2>2, <2>3 DEF Main
<1>4. CASE UNCHANGED endStateVars /\ pc'["main"] = pc["main"]
  BY <1>4 DEF endStateVars, EndReached
<1> QED
  BY <1>1, <1>2, <1>3, <1>4, EndCases

LEMMA TotalsInit == Init => Totals
<1> SUFFICES ASSUME Init PROVE Totals
  OBVIOUS
<1>1. /\ segSeen = 0 /\ segErr = 0 /\ infOk = 0 /\ infErr = 0 /\ imgDone = 0 /\ imgErr = 0 /\ boxes = 0
      /\ done = {} /\ dumpOpen /\ sessOpen /\ ~doneEvt
      /\ \A f \in Frames : dumped[f] = 0
  BY DEF Init
<1>2. /\ \A t \in Fetchers : ~bad[t]
      /\ pc["stitch_fetch"] = "check" /\ pc["main"] = "wait"
      /\ "seg_fetch" \in Fetchers /\ "stitch_fetch" \in Fetchers
  BY DEF Init, Fetchers, Threads
<1>3. LostFrames
  BY <1>2 DEF LostFrames, Lost
<1>4. FramesMarked
  <2>1. Cardinality(done) = 0
    BY <1>1, FS_EmptySet
  <2> QED
    BY <1>1, <1>2, <2>1 DEF FramesMarked, Misled, Lost, One
<1>5. FramesSeen
  <2>1. Waiting = Frames
    BY PlacesInit DEF Waiting
  <2> QED
    BY <1>1, <2>1, FrameSets DEF FramesSeen
<1>6. TilesCounted
  <2>1. \A f \in Frames, k \in Tiles : Tile(f, k) = 0
    <3>0. Places /\ \A f \in Frames : Up(f) = 1
      BY PlacesInit
    <3>1. TypeOK
      BY InvInit DEF IInv
    <3> QED
      BY <3>0, <3>1, Only DEF Places
  <2>2. Open = {}
    BY <2>1 DEF Open
  <2>3. Cardinality(Open) = 0
    BY <2>2, FS_EmptySet
  <2> QED
    BY <1>1, <2>3, TilesFact DEF TilesCounted
<1>7. BoxesCounted
  BY <1>1, <1>2 DEF BoxesCounted, One
<1>8. DumpCounted
  <2>1. Recorded = {}
    BY <1>1 DEF Recorded
  <2>2. Cardinality(Recorded) = 0
    BY <2>1, FS_EmptySet
  <2> QED
    BY <1>1, <1>2, <2>2 DEF DumpCounted, One
<1>9. EndReached
  BY <1>1, <1>2 DEF EndReached
<1> QED
  BY <1>3, <1>4, <1>5, <1>6, <1>7, <1>8, <1>9 DEF Totals, Sums

\* When SOAM delivers each output once, the totals of the report are the numbers of
\* frames and tiles past each place of the pipeline.
THEOREM TotalsInvariant == ASSUME MaxDup = 0 PROVE Spec => []Totals
<1>1. Init => Totals
  BY TotalsInit
<1>2. IInv /\ IInv' /\ Places /\ Errors /\ Totals /\ [Next]_vars => Totals'
  <2> SUFFICES ASSUME IInv, IInv', Places, Errors, Totals, [Next]_vars PROVE Totals'
    OBVIOUS
  <2>1. Sums'
    BY SumsStep
  <2>2. EndReached'
    BY EndStep DEF Totals
  <2> QED
    BY <2>1, <2>2 DEF Totals
<1> QED
  BY <1>1, <1>2, Invariant, PlacesInvariant, ErrorsInvariant, PTL DEF Spec

\* When main is past its wait and the run has not stalled, the pipeline is empty.
LEMMA ReportedEmpty ==
  ASSUME IInv, Places, Errors, Totals, Reporting
  PROVE  /\ imgDone = Count /\ \A f \in Frames : Nowhere(f)
         /\ pc["stitch_fetch"] # "dump"
         /\ ~(pc["stitch_fetch"] = "mark" /\ ~bad["stitch_fetch"])
<1>1. /\ TypeOK /\ Control /\ OnePlace /\ LostFrames /\ FramesMarked /\ EndReached /\ Named
  BY DEF IInv, Places, Errors, Totals, Sums
<1>2. ~stalled /\ pc["main"] # "wait"
  BY DEF Reporting
<1>3. imgDone = Count /\ \A f \in Frames : Nowhere(f)
  BY <1>1, <1>2, ClosedEmpty
<1>4. \A f \in Frames : ~(Down(f) >= 1)
  BY <1>3 DEF Nowhere
<1> QED
  BY <1>1, <1>3, <1>4, HandBusy DEF Named

\* A run that did not stall reports each frame once, and as many successes as there
\* are records in the dump.
THEOREM ReportIsTrue == ASSUME MaxDup = 0 PROVE Spec => []ReportAgrees
<1>1. IInv /\ Places /\ Errors /\ Totals => ReportAgrees
  <2> SUFFICES ASSUME IInv, Places, Errors, Totals, Reporting
               PROVE  /\ imgDone = Count
                      /\ boxes = imgDone - imgErr
                      /\ \A f \in Frames : dumped[f] <= 1
                      /\ Cardinality({f \in Frames : dumped[f] = 1}) = imgDone - imgErr
    BY DEF ReportAgrees
  <2>1. /\ imgDone = Count
        /\ One(pc["stitch_fetch"] = "dump") = 0
        /\ One(pc["stitch_fetch"] = "mark" /\ ~bad["stitch_fetch"]) = 0
    BY ReportedEmpty DEF One
  <2>2. imgDone - imgErr \in Int
    BY DEF IInv, TypeOK, TotalsOK
  <2>3. boxes = imgDone - imgErr
    BY <2>1, <2>2 DEF Totals, Sums, BoxesCounted, Reporting
  <2>4. \A f \in Frames : dumped[f] <= 1
    BY DEF Totals, Sums, DumpCounted
  <2>5. Cardinality(Recorded) = imgDone - imgErr
    BY <2>1, <2>2 DEF Totals, Sums, DumpCounted
  <2> QED
    BY <2>1, <2>3, <2>4, <2>5 DEF Recorded
<1> QED
  BY <1>1, Invariant, PlacesInvariant, ErrorsInvariant, TotalsInvariant, PTL

\* A run that did not stall has counted an answer for each tile of each split frame.
THEOREM TilesAreCounted == ASSUME MaxDup = 0 PROVE Spec => []TilesAccounted
<1>1. IInv /\ Places /\ Errors /\ Totals => TilesAccounted
  <2> SUFFICES ASSUME IInv, Places, Errors, Totals, Reporting
               PROVE  infOk + infErr = NTiles * (Count - segErr)
    BY DEF TilesAccounted
  <2>1. \A f \in Frames : Nowhere(f)
    BY ReportedEmpty
  <2>2. Waiting = {} /\ Open = {}
    BY <2>1 DEF Nowhere, Waiting, Open
  <2>3. Cardinality(Waiting) = 0 /\ Cardinality(Open) = 0
    BY <2>2, FS_EmptySet
  <2>4. segSeen \in Nat /\ infOk \in Nat /\ infErr \in Nat
    BY DEF IInv, TypeOK, ThreadsOK, TotalsOK
  <2>5. segSeen = Count
    BY <2>3, <2>4 DEF Totals, Sums, FramesSeen
  <2>6. infOk + infErr + 0 = NTiles * (segSeen - segErr)
    BY <2>3 DEF Totals, Sums, TilesCounted, Reporting
  <2> QED
    BY <2>4, <2>5, <2>6
<1> QED
  BY <1>1, Invariant, PlacesInvariant, ErrorsInvariant, TotalsInvariant, PTL
=============================================================================
