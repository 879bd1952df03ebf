----------------------------- MODULE BatchProofs -----------------------------
(***************************************************************************)
(* Proofs that the batch client, whatever the number of tasks, of threads  *)
(* and of hosts, sends each index once and reports what the fleet did.     *)
(***************************************************************************)
EXTENDS BatchProperties, FiniteSetTheorems, FunctionTheorems, TLAPS

-----------------------------------------------------------------------------
(* The ranges of the senders *)

LEMMA Times == \A a \in Nat, b \in Nat, s \in Nat : a <= b => a * s \in Nat /\ a * s <= b * s
<1> SUFFICES ASSUME NEW a \in Nat, NEW b \in Nat, NEW s \in Nat, a <= b
             PROVE  a * s \in Nat /\ a * s <= b * s
  OBVIOUS
<1>1. a * s \in Nat /\ (b - a) * s >= 0
  OBVIOUS
<1>2. b * s = a * s + (b - a) * s
  OBVIOUS
<1> QED
  BY <1>1, <1>2

\* A division that is rounded up.
LEMMA RoundedUp ==
  ASSUME NEW count \in Nat, NEW workers \in Nat \ {0}
  PROVE  Step(count, workers) \in Nat /\ count <= workers * Step(count, workers)
<1>1. count + workers - 1 \in Nat
  OBVIOUS
<1>2. Step(count, workers) \in Nat
  BY <1>1 DEF Step
<1>3. count + workers - 1 < workers * Step(count, workers) + workers
  BY <1>1 DEF Step
<1>4. workers * Step(count, workers) \in Nat
  BY <1>2
<1> QED
  BY <1>2, <1>3, <1>4

Share == Step(job.count, NWorkers)

LEMMA JobFact ==
  ASSUME job \in Jobs
  PROVE  /\ job.count \in Nat /\ NWorkers \in Nat \ {0} /\ Share \in Nat
         /\ job.count <= NWorkers * Share
         /\ \A w \in Workers : w \in Nat /\ w < NWorkers
         /\ \A w \in Nat : w < NWorkers => w \in Workers
<1>1. job.count \in Nat /\ job.workers \in Nat
  BY BatchAssumption DEF BatchAssumption
<1>2. NWorkers \in Nat \ {0}
  BY <1>1 DEF NWorkers
<1>3. Share \in Nat /\ job.count <= NWorkers * Share
  BY <1>1, <1>2, RoundedUp DEF Share
<1> QED
  BY <1>1, <1>2, <1>3 DEF Workers

LEMMA RangeFact ==
  ASSUME job \in Jobs, NEW w \in Workers
  PROVE  /\ Low(w) \in Nat /\ High(w) \in Nat /\ High(w) <= job.count
         /\ Low(w) = w * Share
         /\ \A t \in Nat : InRange(t, w) <=> w * Share <= t /\ t < (w + 1) * Share /\ t < job.count
<1>1. job.count \in Nat /\ Share \in Nat /\ w \in Nat
  BY JobFact
<1>2. w * Share \in Nat /\ (w + 1) * Share \in Nat
  BY <1>1
<1>3. /\ Low(w) = w * Share
      /\ High(w) = IF job.count < (w + 1) * Share THEN job.count ELSE (w + 1) * Share
  BY DEF Low, High, Share
<1>4. Low(w) \in Nat /\ High(w) \in Nat /\ High(w) <= job.count
  BY <1>1, <1>2, <1>3
<1>5. ASSUME NEW t \in Nat
      PROVE  InRange(t, w) <=> w * Share <= t /\ t < (w + 1) * Share /\ t < job.count
  BY <1>1, <1>2, <1>3 DEF InRange
<1> QED
  BY <1>3, <1>4, <1>5

\* No index is in two ranges.
LEMMA RangesDisjoint ==
  ASSUME job \in Jobs, NEW t \in Nat, NEW v \in Workers, NEW w \in Workers, InRange(t, v), InRange(t, w)
  PROVE  v = w
<1>1. v \in Nat /\ w \in Nat /\ Share \in Nat
  BY JobFact
<1>2. /\ v * Share <= t /\ t < (v + 1) * Share
      /\ w * Share <= t /\ t < (w + 1) * Share
  BY RangeFact
<1>3. /\ v * Share \in Nat /\ (v + 1) * Share \in Nat
      /\ w * Share \in Nat /\ (w + 1) * Share \in Nat
  BY <1>1
<1>4. ~(v < w)
  <2>1. v < w => (v + 1) * Share <= w * Share
    BY <1>1, Times
  <2> QED
    BY <1>2, <1>3, <2>1
<1>5. ~(w < v)
  <2>1. w < v => (w + 1) * Share <= v * Share
    BY <1>1, Times
  <2> QED
    BY <1>2, <1>3, <2>1
<1> QED
  BY <1>1, <1>4, <1>5

\* Every index is in the range of a thread, and before the end of any range that starts
\* above it.
LEMMA RangesCover ==
  ASSUME job \in Jobs, NEW t \in Tasks
  PROVE  \E w \in Workers : InRange(t, w) /\ \A v \in Nat : v * Share > t => w < v
<1>1. job.count \in Nat /\ NWorkers \in Nat \ {0} /\ Share \in Nat /\ job.count <= NWorkers * Share
  BY JobFact
<1>2. t \in Nat /\ t < job.count
  BY <1>1 DEF Tasks
<1>3. Share # 0
  <2>1. Share = 0 => NWorkers * Share = 0
    BY <1>1
  <2> QED
    BY <1>1, <1>2, <2>1
<1> DEFINE w == t \div Share
<1>4. w \in Nat /\ Share * w <= t /\ t < Share * w + Share
  BY <1>1, <1>2, <1>3
<1> HIDE DEF w
<1>5. w * Share = Share * w /\ (w + 1) * Share = Share * w + Share /\ Share * w \in Nat
  BY <1>1, <1>4
<1>6. \A v \in Nat : v * Share > t => w < v
  <2> SUFFICES ASSUME NEW v \in Nat, v * Share > t, v <= w PROVE FALSE
    BY <1>4
  <2>1. v * Share \in Nat /\ v * Share <= w * Share
    BY <1>1, <1>4, Times
  <2> QED
    BY <1>2, <1>4, <1>5, <2>1
<1>7. w < NWorkers
  <2>1. NWorkers * Share \in Nat
    BY <1>1
  <2>2. NWorkers * Share > t
    BY <1>1, <1>2, <2>1
  <2> QED
    BY <1>1, <1>6, <2>2
<1>8. w \in Workers
  BY <1>4, <1>7, JobFact
<1>9. InRange(t, w)
  BY <1>2, <1>4, <1>5, <1>8, RangeFact
<1> QED
  BY <1>6, <1>8, <1>9

\* The job does not change, nor what is derived from it.
LEMMA SameJob ==
  ASSUME job' = job
  PROVE  /\ Tasks' = Tasks /\ Workers' = Workers /\ Share' = Share
         /\ \A w : Low(w)' = Low(w) /\ High(w)' = High(w)
         /\ \A t, w : InRange(t, w)' = InRange(t, w)
<1>1. Tasks' = Tasks /\ Workers' = Workers /\ Share' = Share
  BY DEF Tasks, Workers, Share, NWorkers
<1>2. \A w : Low(w)' = Low(w) /\ High(w)' = High(w)
  BY DEF Low, High, NWorkers
<1>3. \A t, w : InRange(t, w)' = InRange(t, w)
  BY <1>2 DEF InRange
<1> QED
  BY <1>1, <1>2, <1>3

-----------------------------------------------------------------------------
(* The successes of the hosts *)

\* The successes counted for each host, numbered.
Numbered(count) == UNION {{h} \X (1 .. count[h]) : h \in Hosts}

LEMMA NumberedFact ==
  ASSUME NEW count
  PROVE  /\ \A h \in Hosts : \A i : <<h, i>> \in Numbered(count) <=> i \in 1 .. count[h]
         /\ \A p \in Numbered(count) : \E h \in Hosts : \E i \in 1 .. count[h] : p = <<h, i>>
<1>1. ASSUME NEW h \in Hosts, NEW i
      PROVE  <<h, i>> \in Numbered(count) <=> i \in 1 .. count[h]
  <2>1. ASSUME i \in 1 .. count[h] PROVE <<h, i>> \in Numbered(count)
    <3>1. <<h, i>> \in {h} \X (1 .. count[h])
      BY <2>1
    <3> QED
      BY <3>1 DEF Numbered
  <2>2. ASSUME <<h, i>> \in Numbered(count) PROVE i \in 1 .. count[h]
    <3>1. PICK g \in Hosts : <<h, i>> \in {g} \X (1 .. count[g])
      BY <2>2 DEF Numbered
    <3> QED
      BY <3>1
  <2> QED
    BY <2>1, <2>2
<1>2. ASSUME NEW p \in Numbered(count)
      PROVE  \E h \in Hosts : \E i \in 1 .. count[h] : p = <<h, i>>
  <2>1. PICK g \in Hosts : p \in {g} \X (1 .. count[g])
    BY <1>2 DEF Numbered
  <2> QED
    BY <2>1
<1> QED
  BY <1>1, <1>2

\* A finite set can be numbered.
Numbers(f, S) == /\ f \in [S -> 1 .. Cardinality(S)]
                 /\ \A a, b \in S : f[a] = f[b] => a = b
                 /\ \A i \in 1 .. Cardinality(S) : \E a \in S : f[a] = i

LEMMA Numbering ==
  ASSUME NEW S, IsFiniteSet(S)
  PROVE  Cardinality(S) \in Nat /\ \E f : Numbers(f, S)
<1>1. Cardinality(S) \in Nat /\ ExistsBijection(1 .. Cardinality(S), S)
  BY FS_CardinalityType
<1>2. ExistsBijection(S, 1 .. Cardinality(S))
  BY <1>1, Fun_ExistsBijSymmetric
<1>3. PICK f : f \in Bijection(S, 1 .. Cardinality(S))
  BY <1>2, Fun_ExistsBij
<1>4. Numbers(f, S)
  <2>1. \A T : f \in Bijection(S, T) =>
                 /\ f \in [S -> T]
                 /\ \A a, b \in S : f[a] = f[b] => a = b
                 /\ \A t \in T : \E a \in S : f[a] = t
    BY Fun_BijectionProperties
  <2> QED
    BY <1>3, <2>1 DEF Numbers
<1> QED
  BY <1>1, <1>4

\* Adding to each host its part of a set adds the size of the set: the added numbers
\* are a bijective image of it.
LEMMA SuccessesAdded ==
  ASSUME NEW old \in [Hosts -> Nat], NEW new, NEW ok, IsFiniteSet(ok), \A o \in ok : o.host \in Hosts,
         new = [h \in Hosts |-> old[h] + Cardinality({o \in ok : o.host = h})],
         IsFiniteSet(Numbered(old))
  PROVE  /\ new \in [Hosts -> Nat] /\ IsFiniteSet(Numbered(new))
         /\ Cardinality(Numbered(new)) = Cardinality(Numbered(old)) + Cardinality(ok)
<1> DEFINE Part(h) == {o \in ok : o.host = h}
           Num(h)  == CHOOSE f : Numbers(f, Part(h))
           image   == [o \in ok |-> <<o.host, old[o.host] + Num(o.host)[o]>>]
           added   == Numbered(new) \ Numbered(old)
<1>p. \A h \in Hosts : new[h] = old[h] + Cardinality(Part(h))
  OBVIOUS
<1>m. \A o \in ok : o \in Part(o.host)
  OBVIOUS
<1>s. \A h : Part(h) \in SUBSET ok
  OBVIOUS
<1>h. \A h : \A o \in Part(h) : o \in ok /\ o.host = h
  OBVIOUS
<1> HIDE DEF Part
<1>1. ASSUME NEW h \in Hosts
      PROVE  Cardinality(Part(h)) \in Nat /\ Numbers(Num(h), Part(h))
  <2>1. Part(h) \in SUBSET ok
    BY <1>s
  <2>2. IsFiniteSet(Part(h))
    BY <2>1, FS_Subset
  <2>3. Cardinality(Part(h)) \in Nat /\ \E f : Numbers(f, Part(h))
    BY <2>2, Numbering
  <2> QED
    BY <2>3
<1> HIDE DEF Num
<1>2. ASSUME NEW h \in Hosts
      PROVE  /\ Num(h) \in [Part(h) -> 1 .. Cardinality(Part(h))]
             /\ \A a \in Part(h), b \in Part(h) : Num(h)[a] = Num(h)[b] => a = b
             /\ \A i \in 1 .. Cardinality(Part(h)) : \E a \in Part(h) : Num(h)[a] = i
  <2>1. Numbers(Num(h), Part(h))
    BY <1>1
  <2> QED
    BY <2>1 DEF Numbers
<1>3. \A h \in Hosts : new[h] = old[h] + Cardinality(Part(h)) /\ new[h] \in Nat /\ old[h] \in Nat
  <2> SUFFICES ASSUME NEW h \in Hosts
               PROVE new[h] = old[h] + Cardinality(Part(h)) /\ new[h] \in Nat /\ old[h] \in Nat
    OBVIOUS
  <2>1. Cardinality(Part(h)) \in Nat /\ old[h] \in Nat
    BY <1>1
  <2>2. new[h] = old[h] + Cardinality(Part(h))
    BY <1>p
  <2> QED
    BY <2>1, <2>2
<1>4. new \in [Hosts -> Nat]
  <2>1. new = [h \in Hosts |-> new[h]]
    OBVIOUS
  <2> QED
    BY <1>3, <2>1
<1>5. \A o \in ok : /\ o \in Part(o.host) /\ o.host \in Hosts
                    /\ Num(o.host)[o] \in 1 .. Cardinality(Part(o.host))
  <2> SUFFICES ASSUME NEW o \in ok
               PROVE  /\ o \in Part(o.host) /\ o.host \in Hosts
                      /\ Num(o.host)[o] \in 1 .. Cardinality(Part(o.host))
    OBVIOUS
  <2>1. o \in Part(o.host) /\ o.host \in Hosts
    BY <1>m
  <2>2. Num(o.host) \in [Part(o.host) -> 1 .. Cardinality(Part(o.host))]
    BY <1>2, <2>1
  <2> QED
    BY <2>1, <2>2
<1>6. \A h \in Hosts : \A i : <<h, i>> \in added <=> i \in 1 .. new[h] /\ i \notin 1 .. old[h]
  BY NumberedFact
<1>7. image \in [ok -> added]
  <2> SUFFICES ASSUME NEW o \in ok PROVE <<o.host, old[o.host] + Num(o.host)[o]>> \in added
    OBVIOUS
  <2>1. o.host \in Hosts /\ Num(o.host)[o] \in 1 .. Cardinality(Part(o.host))
    BY <1>5
  <2>2. /\ old[o.host] \in Nat /\ new[o.host] = old[o.host] + Cardinality(Part(o.host))
        /\ Cardinality(Part(o.host)) \in Nat
    BY <1>1, <1>3, <2>1
  <2>3. /\ old[o.host] + Num(o.host)[o] \in 1 .. new[o.host]
        /\ old[o.host] + Num(o.host)[o] \notin 1 .. old[o.host]
    BY <2>1, <2>2
  <2> QED
    BY <1>6, <2>1, <2>3
<1>8. \A a, b \in ok : image[a] = image[b] => a = b
  <2> SUFFICES ASSUME NEW a \in ok, NEW b \in ok, image[a] = image[b] PROVE a = b
    OBVIOUS
  <2>1. a.host = b.host /\ old[a.host] + Num(a.host)[a] = old[b.host] + Num(b.host)[b]
    OBVIOUS
  <2>2. /\ Num(a.host)[a] \in Int /\ Num(a.host)[b] \in Int /\ old[a.host] \in Int
        /\ a \in Part(a.host) /\ b \in Part(a.host) /\ a.host \in Hosts
    BY <1>3, <1>5, <2>1
  <2>3. Num(a.host)[a] = Num(a.host)[b]
    BY <2>1, <2>2
  <2> QED
    BY <1>2, <2>2, <2>3
<1>9. \A p \in added : \E o \in ok : image[o] = p
  <2> SUFFICES ASSUME NEW p \in added PROVE \E o \in ok : image[o] = p
    OBVIOUS
  <2>0. PICK h \in Hosts : \E i \in 1 .. new[h] : p = <<h, i>>
    BY NumberedFact
  <2>1. PICK i \in 1 .. new[h] : p = <<h, i>>
    BY <2>0
  <2>2. i \notin 1 .. old[h]
    BY <1>6, <2>1
  <2>3. /\ old[h] \in Nat /\ new[h] = old[h] + Cardinality(Part(h)) /\ Cardinality(Part(h)) \in Nat
    BY <1>1, <1>3
  <2>4. i - old[h] \in 1 .. Cardinality(Part(h)) /\ old[h] + (i - old[h]) = i
    BY <2>1, <2>2, <2>3
  <2>5. PICK o \in Part(h) : Num(h)[o] = i - old[h]
    BY <1>2, <2>4
  <2>6. o \in ok /\ o.host = h
    BY <1>h
  <2>7. image[o] = <<h, old[h] + Num(h)[o]>>
    BY <2>6
  <2> QED
    BY <2>1, <2>4, <2>5, <2>6, <2>7
<1>10. IsFiniteSet(added) /\ Cardinality(added) = Cardinality(ok)
  <2> HIDE DEF image, added
  <2>1. image \in Bijection(ok, added)
    BY <1>7, <1>8, <1>9, Fun_IsBij
  <2>2. ExistsBijection(ok, added)
    BY <2>1, Fun_ExistsBij
  <2> QED
    BY <2>2, FS_Bijection
<1>11. Numbered(new) = Numbered(old) \cup added
  <2> SUFFICES ASSUME NEW p \in Numbered(old) PROVE p \in Numbered(new)
    OBVIOUS
  <2>0. PICK h \in Hosts : \E i \in 1 .. old[h] : p = <<h, i>>
    BY NumberedFact
  <2>1. PICK i \in 1 .. old[h] : p = <<h, i>>
    BY <2>0
  <2>2. i \in 1 .. new[h]
    BY <1>1, <1>3
  <2> QED
    BY <2>1, <2>2, NumberedFact
<1>12. Cardinality(Numbered(old) \cap added) = 0
  <2>1. Numbered(old) \cap added = {}
    OBVIOUS
  <2> QED
    BY <2>1, FS_EmptySet, Zenon
<1> HIDE DEF added
<1>13. /\ IsFiniteSet(Numbered(old) \cup added)
       /\ Cardinality(Numbered(old) \cup added)
          = Cardinality(Numbered(old)) + Cardinality(added) - Cardinality(Numbered(old) \cap added)
  BY <1>10, FS_Union
<1>14. Cardinality(Numbered(old)) \in Nat /\ Cardinality(ok) \in Nat
  BY FS_CardinalityType
<1> QED
  BY <1>4, <1>10, <1>11, <1>12, <1>13, <1>14

-----------------------------------------------------------------------------
(* The parts of the invariant *)

MainTyped ==
    /\ job \in Jobs /\ started \in 0 .. Cardinality(Workers) /\ next \in [Workers -> Nat]
    /\ phase \in {"start", "fetch", "join", "reported"}

TotalsTyped == done \in Nat /\ errors \in Nat /\ perHost \in [Hosts -> Nat]

FleetTyped ==
    /\ waiting \subseteq Tasks /\ running \in [Hosts -> Tasks \cup {NoTask}]
    /\ outputs \subseteq [task : Tasks, kind : Kinds, host : Hosts, copy : {0, 1}]
    /\ waiting \cap Fetchable = {}
    /\ \A g, h \in Hosts : running[g] # NoTask =>
         /\ running[g] \notin waiting \cup Fetchable
         /\ g # h => running[g] # running[h]

\* What the client's totals say: what was fetched is a success or an error.
TotalsTrue == TotalsTyped /\ IsFiniteSet(Successes) /\ done = Good + errors

MainOk == MainTyped /\ AllStarted /\ EndOfFetch
FleetOk == FleetTyped /\ Placed /\ IsFiniteSet(outputs) /\ faults \in [DOMAIN Budget -> Nat]

LEMMA Parts == IInv <=> MainOk /\ FleetOk /\ TotalsTrue /\ Counted
<1>1. TypeOK <=> MainTyped /\ TotalsTyped /\ FleetTyped
  BY DEF TypeOK, MainTyped, TotalsTyped, FleetTyped
<1> QED
  BY <1>1, Zenon DEF IInv, Bounded, TotalsTrue, MainOk, FleetOk

LEMMA FleetKept ==
  ASSUME FleetOk, job' = job, UNCHANGED <<next, soamVars>>
  PROVE  /\ FleetOk'
         /\ Sent' = Sent /\ Busy' = Busy /\ Bad' = Bad
<1>1. Tasks' = Tasks /\ Workers' = Workers /\ (\A w : Low(w)' = Low(w)) /\ \A t, w : InRange(t, w)' = InRange(t, w)
  BY SameJob
<1>2. Sent' = Sent
  BY <1>1 DEF Sent
<1>3. Busy' = Busy /\ Bad' = Bad /\ Fetchable' = Fetchable
  BY DEF Busy, Bad, Fetchable, soamVars
<1>4. FleetTyped'
  BY <1>1, <1>3 DEF FleetOk, FleetTyped, soamVars
<1>5. Placed'
  BY <1>1, <1>2, <1>3 DEF FleetOk, Placed, soamVars
<1>6. Budget' = Budget
  BY DEF Budget
<1> QED
  BY <1>2, <1>3, <1>4, <1>5, <1>6 DEF FleetOk, soamVars

LEMMA TotalsKept ==
  ASSUME TotalsTrue, UNCHANGED totalVars
  PROVE  TotalsTrue'
<1>1. Successes' = Successes
  BY DEF Successes, totalVars
<1>2. Good' = Good
  BY <1>1, Zenon DEF Good
<1> QED
  BY <1>1, <1>2 DEF TotalsTrue, TotalsTyped, totalVars

LEMMA MainKept ==
  ASSUME MainOk, job' = job, next' \in [Workers -> Nat], UNCHANGED <<started, phase>>,
         done' = done \/ phase = "fetch"
  PROVE  MainOk'
<1>1. Workers' = Workers /\ (\A w : Low(w)' = Low(w) /\ High(w)' = High(w))
  BY SameJob
<1>2. MainTyped'
  BY <1>1 DEF MainOk, MainTyped
<1>3. AllStarted'
  BY <1>1 DEF MainOk, AllStarted
<1>4. EndOfFetch'
  BY DEF MainOk, EndOfFetch
<1> QED
  BY <1>2, <1>3, <1>4 DEF MainOk

\* Every set that the invariant counts is finite, and what is sent is at most all the tasks.
LEMMA Sizes ==
  ASSUME MainOk, FleetOk
  PROVE  /\ IsFiniteSet(Sent) /\ Cardinality(Sent) \in Nat /\ Cardinality(Sent) <= job.count
         /\ IsFiniteSet(waiting) /\ Cardinality(waiting) \in Nat
         /\ IsFiniteSet(Busy) /\ Cardinality(Busy) \in Nat
         /\ IsFiniteSet(outputs) /\ Cardinality(outputs) \in Nat
         /\ IsFiniteSet(Bad) /\ Cardinality(Bad) \in Nat
         /\ Cardinality(Workers) = NWorkers /\ job.count \in Nat
<1>1. job.count \in Nat /\ NWorkers \in Nat \ {0}
  BY JobFact DEF MainOk, MainTyped
<1>2. IsFiniteSet(Tasks) /\ Cardinality(Tasks) = job.count
  <2> DEFINE n == job.count
  <2>1. n \in Nat
    BY <1>1
  <2> HIDE DEF n
  <2>2. IsFiniteSet(0 .. n - 1) /\ Cardinality(0 .. n - 1) = n
    BY <2>1, FS_Interval
  <2> QED
    BY <2>2 DEF Tasks, n
<1>3. Cardinality(Workers) = NWorkers
  BY <1>1, FS_Interval DEF Workers
<1>4. Sent \in SUBSET Tasks /\ waiting \in SUBSET Tasks /\ Busy \in SUBSET Hosts /\ Bad \in SUBSET outputs
  BY DEF Sent, Busy, Bad, FleetOk, FleetTyped
<1>5. IsFiniteSet(Sent) /\ Cardinality(Sent) <= Cardinality(Tasks)
  BY <1>2, <1>4, FS_Subset
<1>6. IsFiniteSet(waiting)
  BY <1>2, <1>4, FS_Subset
<1>7. IsFiniteSet(Busy)
  BY <1>4, FS_Subset, BatchAssumption DEF BatchAssumption
<1>8. IsFiniteSet(outputs)
  BY DEF FleetOk
<1>9. IsFiniteSet(Bad)
  BY <1>4, <1>8, FS_Subset
<1>10. Cardinality(Sent) \in Nat
  BY <1>5, FS_CardinalityType
<1>11. Cardinality(waiting) \in Nat
  BY <1>6, FS_CardinalityType
<1>12. Cardinality(Busy) \in Nat
  BY <1>7, FS_CardinalityType
<1>13. Cardinality(outputs) \in Nat
  BY <1>8, FS_CardinalityType
<1>14. Cardinality(Bad) \in Nat
  BY <1>9, FS_CardinalityType
<1> QED
  BY <1>1, <1>2, <1>3, <1>5, <1>6, <1>7, <1>8, <1>9, <1>10, <1>11, <1>12, <1>13, <1>14

-----------------------------------------------------------------------------
(* Main's own steps: none of them moves a task *)

\* A step that leaves the fleet and the totals as they are leaves the count as it is.
LEMMA CountedKept ==
  ASSUME FleetOk, Counted, job' = job, UNCHANGED <<next, soamVars, totalVars>>
  PROVE  Counted'
<1>1. Sent' = Sent /\ Busy' = Busy /\ Bad' = Bad
  BY FleetKept DEF soamVars
<1>2. /\ Cardinality(Sent)' = Cardinality(Sent)
      /\ Cardinality(Busy)' = Cardinality(Busy)
      /\ Cardinality(Bad)' = Cardinality(Bad)
  BY <1>1, Zenon
<1> QED
  BY <1>2 DEF Counted, soamVars, totalVars

LEMMA StartSenderStep ==
  ASSUME IInv, StartSender
  PROVE  IInv'
<1>1. MainOk /\ FleetOk /\ TotalsTrue /\ Counted
  BY Parts
<1>2. job' = job /\ UNCHANGED <<next, soamVars, totalVars>>
  BY DEF StartSender
<1>3. FleetOk' /\ TotalsTrue' /\ Counted'
  BY <1>1, <1>2, FleetKept, TotalsKept, CountedKept
<1>4. Workers' = Workers /\ (\A w : Low(w)' = Low(w) /\ High(w)' = High(w)) /\ NWorkers' = NWorkers
  BY <1>2, SameJob DEF NWorkers
<1>5. Cardinality(Workers) = NWorkers
  BY <1>1, Sizes
<1>6. CASE started \in Workers /\ Low(started) < High(started)
  <2>1. started' = started + 1 /\ phase' = phase /\ phase = "start"
    BY <1>6 DEF StartSender
  <2>2. started \in Nat /\ started < NWorkers /\ NWorkers \in Nat
    BY <1>1, <1>6, JobFact DEF MainOk, MainTyped
  <2>3. started' \in 0 .. NWorkers
    BY <2>1, <2>2
  <2>4. Cardinality(Workers)' = NWorkers
    BY <1>4, <1>5
  <2>5. MainTyped'
    BY <1>1, <1>2, <1>4, <2>1, <2>3, <2>4 DEF MainOk, MainTyped
  <2>6. AllStarted' /\ EndOfFetch'
    BY <2>1 DEF AllStarted, EndOfFetch
  <2>7. MainOk'
    BY <2>5, <2>6 DEF MainOk
  <2>8. (MainOk /\ FleetOk /\ TotalsTrue /\ Counted)'
    BY <1>3, <2>7
  <2> QED
    BY <2>8, Parts, PTL
<1>7. CASE ~(started \in Workers /\ Low(started) < High(started))
  <2>1. started' = started /\ phase' = "fetch"
    BY <1>7 DEF StartSender
  <2>2. MainTyped'
    BY <1>1, <1>2, <1>4, <2>1 DEF MainOk, MainTyped
  <2>3. started \in Workers => High(started) <= Low(started)
    BY <1>1, <1>7, RangeFact DEF MainOk, MainTyped
  <2>4. AllStarted' /\ EndOfFetch'
    BY <1>4, <2>1, <2>3 DEF AllStarted, EndOfFetch
  <2>5. MainOk'
    BY <2>2, <2>4 DEF MainOk
  <2>6. (MainOk /\ FleetOk /\ TotalsTrue /\ Counted)'
    BY <1>3, <2>5
  <2> QED
    BY <2>6, Parts, PTL
<1> QED
  BY <1>6, <1>7

LEMMA FetchEndStep ==
  ASSUME IInv, FetchEnd \/ Report \/ UNCHANGED vars
  PROVE  IInv'
<1>1. MainOk /\ FleetOk /\ TotalsTrue /\ Counted
  BY Parts
<1>2. job' = job /\ UNCHANGED <<next, started, soamVars, totalVars>>
  BY DEF FetchEnd, Report, vars, jobVars, senderVars
<1>3. FleetOk' /\ TotalsTrue' /\ Counted'
  BY <1>1, <1>2, FleetKept, TotalsKept, CountedKept
<1>4. Workers' = Workers /\ (\A w : Low(w)' = Low(w) /\ High(w)' = High(w))
  BY <1>2, SameJob
<1>5. /\ phase' \in {"start", "fetch", "join", "reported"}
      /\ phase = "start" => phase' = "start"
      /\ phase' \in {"join", "reported"} => phase \in {"join", "reported"} \/ ~Unfinished
  BY <1>1 DEF FetchEnd, Report, vars, MainOk, MainTyped
<1>6. MainTyped'
  BY <1>1, <1>2, <1>4, <1>5 DEF MainOk, MainTyped
<1>7. AllStarted'
  BY <1>1, <1>2, <1>4, <1>5 DEF MainOk, AllStarted
<1>8. job.count \in Nat /\ done \in Nat
  BY <1>1, JobFact DEF MainOk, MainTyped, TotalsTrue, TotalsTyped
<1>9. EndOfFetch'
  BY <1>1, <1>2, <1>5, <1>8 DEF MainOk, EndOfFetch, Unfinished, totalVars
<1>10. (MainOk /\ FleetOk /\ TotalsTrue /\ Counted)'
  BY <1>3, <1>6, <1>7, <1>9 DEF MainOk
<1> QED
  BY <1>10, Parts, PTL

-----------------------------------------------------------------------------
(* The steps of the senders and of the fleet *)

\* A task that is sent is a new one, since the ranges do not overlap.
LEMMA SendStep ==
  ASSUME IInv, NEW w \in Workers, Send(w)
  PROVE  IInv'
<1> DEFINE t == next[w]
<1>1. MainOk /\ FleetOk /\ TotalsTrue /\ Counted
  BY Parts
<1>2. job' = job /\ UNCHANGED <<started, phase, totalVars, running, outputs, faults>>
  BY DEF Send
<1>3. job \in Jobs /\ next \in [Workers -> Nat] /\ Placed
  BY <1>1 DEF MainOk, MainTyped, FleetOk
<1>4. t \in Nat /\ Low(w) <= t /\ t < High(w) /\ High(w) <= job.count /\ High(w) \in Nat /\ job.count \in Nat
  BY <1>3, RangeFact, JobFact DEF Send, Sending, Placed
<1>5. t \in Tasks /\ InRange(t, w)
  BY <1>4 DEF Tasks, InRange
<1>6. waiting' = waiting \cup {t} /\ next' = [next EXCEPT ![w] = t + 1]
  BY DEF Send
<1>7. t \notin Sent
  <2> SUFFICES ASSUME NEW v \in Workers, InRange(t, v), t < next[v] PROVE FALSE
    BY DEF Sent
  <2>1. v = w
    BY <1>3, <1>4, <1>5, RangesDisjoint
  <2> QED
    BY <1>4, <2>1
<1>8. /\ Tasks' = Tasks /\ Workers' = Workers /\ (\A v : Low(v)' = Low(v))
      /\ \A u, v : InRange(u, v)' = InRange(u, v)
  BY <1>2, SameJob
<1> HIDE DEF t
<1>9. Sent' = Sent \cup {t}
  <2>1. ASSUME NEW u \in Tasks
        PROVE  u \in Sent' <=> u \in Sent \/ u = t
    <3>1. u \in Nat /\ t \in Nat
      BY <1>4 DEF Tasks
    <3>2. \A v \in Workers : next'[v] = IF v = w THEN t + 1 ELSE next[v]
      BY <1>3, <1>6
    <3>3. next[w] = t
      BY DEF t
    <3>4. u \in Sent' <=> \E v \in Workers : InRange(u, v) /\ u < next'[v]
      BY <1>8 DEF Sent
    <3>5. u \in Sent <=> \E v \in Workers : InRange(u, v) /\ u < next[v]
      BY DEF Sent
    <3>6. ASSUME u = t PROVE u \in Sent'
      BY <1>5, <3>1, <3>2, <3>4, <3>6
    <3>7. ASSUME u \in Sent PROVE u \in Sent'
      <4>1. PICK v \in Workers : InRange(u, v) /\ u < next[v]
        BY <3>5, <3>7
      <4>2. u < next'[v]
        BY <3>1, <3>2, <3>3, <4>1
      <4> QED
        BY <3>4, <4>1, <4>2
    <3>8. ASSUME u \in Sent' PROVE u \in Sent \/ u = t
      <4>1. PICK v \in Workers : InRange(u, v) /\ u < next'[v]
        BY <3>4, <3>8
      <4>2. u < next[v] \/ u = t
        BY <3>1, <3>2, <3>3, <4>1
      <4> QED
        BY <3>5, <4>1, <4>2
    <3> QED
      BY <3>6, <3>7, <3>8
  <2>2. Sent \subseteq Tasks /\ Sent' \subseteq Tasks
    BY <1>8 DEF Sent
  <2> QED
    BY <1>5, <2>1, <2>2
<1>10. Fetchable' = Fetchable /\ Busy' = Busy /\ Bad' = Bad /\ Budget' = Budget
  BY <1>2 DEF Fetchable, Busy, Bad, Budget
<1>11. t \notin waiting /\ t \notin Fetchable /\ \A h \in Hosts : running[h] # NoTask => running[h] # t
  BY <1>3, <1>7 DEF Placed, Busy
<1>12. FleetTyped'
  <2>1. waiting' \subseteq Tasks'
    BY <1>1, <1>5, <1>6, <1>8 DEF FleetOk, FleetTyped
  <2>2. waiting' \cap Fetchable' = {}
    BY <1>1, <1>6, <1>10, <1>11 DEF FleetOk, FleetTyped
  <2>3. /\ running' \in [Hosts -> Tasks' \cup {NoTask}]
        /\ outputs' \subseteq [task : Tasks', kind : Kinds, host : Hosts, copy : {0, 1}]
    BY <1>1, <1>2, <1>8 DEF FleetOk, FleetTyped
  <2>4. \A g, h \in Hosts : running[g] # NoTask =>
         /\ running[g] \notin waiting \cup {t} \cup Fetchable
         /\ g # h => running[g] # running[h]
    BY <1>1, <1>11 DEF FleetOk, FleetTyped
  <2>5. running' = running
    BY <1>2
  <2> QED
    BY <1>6, <1>10, <2>1, <2>2, <2>3, <2>4, <2>5 DEF FleetTyped
<1>13. Placed'
  <2>1. \A v \in Workers : Low(v) <= next'[v]
    <3> SUFFICES ASSUME NEW v \in Workers PROVE Low(v) <= next'[v]
      OBVIOUS
    <3>1. Low(v) \in Nat /\ Low(v) <= next[v] /\ next[v] \in Nat
      BY <1>3, RangeFact DEF Placed
    <3>2. next'[v] = IF v = w THEN t + 1 ELSE next[v]
      BY <1>3, <1>6
    <3> QED
      BY <1>4, <3>1, <3>2 DEF t
  <2>2. waiting' \cup Fetchable' \subseteq Sent'
    BY <1>3, <1>6, <1>9, <1>10 DEF Placed
  <2>3. \A h \in Busy' : running'[h] \in Sent'
    BY <1>2, <1>3, <1>9, <1>10 DEF Placed
  <2> QED
    BY <1>8, <2>1, <2>2, <2>3 DEF Placed
<1>14. FleetOk'
  BY <1>1, <1>2, <1>10, <1>12, <1>13 DEF FleetOk
<1>15. MainOk'
  <2>1. next' \in [Workers -> Nat]
    BY <1>3, <1>4, <1>6
  <2> QED
    BY <1>1, <1>2, <2>1, MainKept DEF totalVars
<1>16. TotalsTrue'
  BY <1>1, <1>2, TotalsKept
<1>17. Counted'
  <2>1. /\ Cardinality(waiting)' = Cardinality(waiting) + 1
        /\ Cardinality(Sent)' = Cardinality(Sent) + 1
    <3>1. IsFiniteSet(waiting) /\ IsFiniteSet(Sent)
      BY <1>1, Sizes
    <3>2. Cardinality(waiting \cup {t}) = Cardinality(waiting) + 1
      BY <1>11, <3>1, FS_AddElement
    <3>3. Cardinality(Sent \cup {t}) = Cardinality(Sent) + 1
      BY <1>7, <3>1, FS_AddElement
    <3>4. Cardinality(waiting)' = Cardinality(waiting \cup {t})
      BY <1>6, Zenon DEF t
    <3>5. Cardinality(Sent)' = Cardinality(Sent \cup {t})
      BY <1>9, Zenon
    <3> QED
      BY <3>2, <3>3, <3>4, <3>5
  <2>2. Cardinality(Busy)' = Cardinality(Busy)
    BY <1>10, Zenon
  <2>3. Cardinality(Bad)' = Cardinality(Bad)
    BY <1>10, Zenon
  <2>4. Cardinality(outputs)' = Cardinality(outputs) /\ done' = done /\ errors' = errors /\ faults' = faults
    BY <1>2 DEF totalVars
  <2>5. /\ done \in Nat /\ Cardinality(outputs) \in Nat /\ Cardinality(waiting) \in Nat
        /\ Cardinality(Busy) \in Nat /\ Cardinality(Sent) \in Nat
    BY <1>1, Sizes DEF TotalsTrue, TotalsTyped
  <2> QED
    BY <1>1, <2>1, <2>2, <2>3, <2>4, <2>5 DEF Counted
<1>18. (MainOk /\ FleetOk /\ TotalsTrue /\ Counted)'
  BY <1>14, <1>15, <1>16, <1>17
<1> QED
  BY <1>18, Parts, PTL

\* The fleet's own steps leave the client as it is.
LEMMA FleetStep ==
  ASSUME IInv, UNCHANGED <<job, senderVars, phase, totalVars>>, FleetOk', Counted'
  PROVE  IInv'
<1>1. MainOk /\ TotalsTrue
  BY Parts
<1>2. MainOk'
  <2>1. next \in [Workers -> Nat] /\ next' = next
    BY <1>1 DEF MainOk, MainTyped, senderVars
  <2> QED
    BY <1>1, <2>1, MainKept DEF senderVars, totalVars
<1>3. TotalsTrue'
  BY <1>1, TotalsKept
<1>4. (MainOk /\ FleetOk /\ TotalsTrue /\ Counted)'
  BY <1>2, <1>3
<1> QED
  BY <1>4, Parts, PTL

LEMMA SentKept ==
  ASSUME UNCHANGED <<job, senderVars>>
  PROVE  /\ Sent' = Sent /\ Tasks' = Tasks /\ Workers' = Workers /\ (\A w : Low(w)' = Low(w))
         /\ Cardinality(Sent)' = Cardinality(Sent) /\ next' = next
<1>1. next' = next /\ job' = job
  BY DEF senderVars
<1>2. Tasks' = Tasks /\ Workers' = Workers /\ (\A w : Low(w)' = Low(w)) /\ \A t, w : InRange(t, w)' = InRange(t, w)
  BY <1>1, SameJob
<1>3. Sent' = Sent
  BY <1>1, <1>2 DEF Sent
<1>4. Cardinality(Sent)' = Cardinality(Sent)
  BY <1>3, Zenon
<1> QED
  BY <1>1, <1>2, <1>3, <1>4

LEMMA RunStep ==
  ASSUME IInv, NEW h \in Hosts, Run(h)
  PROVE  IInv'
<1>1. MainOk /\ FleetOk /\ TotalsTrue /\ Counted
  BY Parts
<1>2. PICK t \in waiting : waiting' = waiting \ {t} /\ running' = [running EXCEPT ![h] = t]
  BY DEF Run
<1>3. UNCHANGED <<job, senderVars, phase, totalVars, outputs, faults>> /\ running[h] = NoTask
  BY DEF Run
<1>4. Sent' = Sent /\ Tasks' = Tasks /\ Workers' = Workers /\ (\A w : Low(w)' = Low(w)) /\ next' = next
  BY <1>3, SentKept
<1>5. Fetchable' = Fetchable /\ Bad' = Bad /\ Budget' = Budget
  BY <1>3 DEF Fetchable, Bad, Budget
<1>6. FleetTyped /\ Placed
  BY <1>1 DEF FleetOk
<1>7. t \in Tasks /\ t \in Sent /\ t \notin Fetchable /\ t # NoTask
  <2>1. t \in Tasks /\ t \in Sent /\ t \notin Fetchable
    BY <1>6 DEF FleetTyped, Placed
  <2> QED
    BY <2>1 DEF Tasks, NoTask
<1>8. \A g \in Hosts : running'[g] = IF g = h THEN t ELSE running[g]
  BY <1>2, <1>6 DEF FleetTyped
<1>9. Busy' = Busy \cup {h} /\ h \notin Busy
  BY <1>3, <1>7, <1>8 DEF Busy
<1>10. \A g \in Hosts : running[g] # NoTask => running[g] # t
  BY <1>6 DEF FleetTyped
<1>11. FleetTyped'
  <2>1. waiting' \subseteq Tasks /\ running' \in [Hosts -> Tasks \cup {NoTask}]
    BY <1>2, <1>6, <1>7 DEF FleetTyped
  <2>2. waiting' \cap Fetchable = {}
    BY <1>2, <1>6 DEF FleetTyped
  <2>3. ASSUME NEW g \in Hosts, NEW k \in Hosts, running'[g] # NoTask
        PROVE  running'[g] \notin waiting' \cup Fetchable /\ (g # k => running'[g] # running'[k])
    BY <1>2, <1>6, <1>7, <1>8, <1>10, <2>3 DEF FleetTyped
  <2>4. outputs' \subseteq [task : Tasks, kind : Kinds, host : Hosts, copy : {0, 1}]
    BY <1>3, <1>6 DEF FleetTyped
  <2> QED
    BY <1>4, <1>5, <2>1, <2>2, <2>3, <2>4 DEF FleetTyped
<1>12. Placed'
  <2>1. \A g \in Busy' : running'[g] \in Sent
    BY <1>6, <1>7, <1>8, <1>9 DEF Placed, Busy
  <2>2. waiting' \cup Fetchable \subseteq Sent
    BY <1>2, <1>6 DEF Placed
  <2> QED
    BY <1>4, <1>5, <1>6, <2>1, <2>2 DEF Placed
<1>13. FleetOk'
  BY <1>1, <1>3, <1>5, <1>11, <1>12 DEF FleetOk
<1>14. Counted'
  <2>1. IsFiniteSet(waiting) /\ IsFiniteSet(Busy)
    BY <1>1, Sizes
  <2>2. Cardinality(waiting \ {t}) = Cardinality(waiting) - 1
    BY <2>1, FS_RemoveElement
  <2>3. Cardinality(Busy \cup {h}) = Cardinality(Busy) + 1
    BY <1>9, <2>1, FS_AddElement
  <2>4. Cardinality(waiting)' = Cardinality(waiting \ {t})
    BY <1>2, Zenon
  <2>5. Cardinality(Busy)' = Cardinality(Busy \cup {h})
    BY <1>9, Zenon
  <2>6. Cardinality(Bad)' = Cardinality(Bad)
    BY <1>5, Zenon
  <2>7. Cardinality(Sent)' = Cardinality(Sent)
    BY <1>3, SentKept
  <2>8. outputs' = outputs /\ done' = done /\ errors' = errors /\ faults' = faults
    BY <1>3 DEF totalVars
  <2>9. /\ done \in Nat /\ Cardinality(outputs) \in Nat /\ Cardinality(waiting) \in Nat
        /\ Cardinality(Busy) \in Nat /\ Cardinality(Sent) \in Nat
    BY <1>1, Sizes DEF TotalsTrue, TotalsTyped
  <2> QED
    BY <1>1, <2>2, <2>3, <2>4, <2>5, <2>6, <2>7, <2>8, <2>9 DEF Counted
<1> QED
  BY <1>3, <1>13, <1>14, FleetStep

\* What a host lets go of: the task is in one place again.
LEMMA Freed ==
  ASSUME FleetOk, NEW h \in Hosts, running[h] # NoTask, running' = [running EXCEPT ![h] = NoTask]
  PROVE  /\ running' \in [Hosts -> Tasks \cup {NoTask}]
         /\ running[h] \in Tasks /\ running[h] \in Sent
         /\ running[h] \notin waiting /\ running[h] \notin Fetchable
         /\ Busy' = Busy \ {h} /\ h \in Busy
         /\ \A g \in Hosts : running'[g] # NoTask =>
              /\ running'[g] \notin waiting /\ running'[g] \notin Fetchable
              /\ running'[g] # running[h]
              /\ running'[g] \in Sent
              /\ \A k \in Hosts : g # k => running'[g] # running'[k]
<1>1. FleetTyped /\ Placed
  BY DEF FleetOk
<1>2. running' \in [Hosts -> Tasks \cup {NoTask}] /\ running[h] \in Tasks
  BY <1>1 DEF FleetTyped
<1>3. \A g \in Hosts : running'[g] = IF g = h THEN NoTask ELSE running[g]
  BY <1>1 DEF FleetTyped
<1>4. h \in Busy /\ running[h] \in Sent
  BY <1>1 DEF Busy, Placed
<1>5. running[h] \notin waiting /\ running[h] \notin Fetchable
  BY <1>1 DEF FleetTyped
<1>6. Busy' = Busy \ {h}
  BY <1>3 DEF Busy
<1>7. ASSUME NEW g \in Hosts, running'[g] # NoTask
      PROVE  /\ running'[g] \notin waiting /\ running'[g] \notin Fetchable
             /\ running'[g] # running[h]
             /\ running'[g] \in Sent
             /\ \A k \in Hosts : g # k => running'[g] # running'[k]
  <2>1. g # h /\ running'[g] = running[g] /\ running[g] # NoTask
    BY <1>3, <1>7
  <2>2. running[g] \notin waiting /\ running[g] \notin Fetchable /\ running[g] # running[h]
    BY <1>1, <2>1 DEF FleetTyped
  <2>3. running[g] \in Sent
    BY <1>1, <2>1 DEF Placed, Busy
  <2>4. \A k \in Hosts : g # k => running[g] # running'[k]
    BY <1>1, <1>3, <2>1 DEF FleetTyped
  <2> QED
    BY <2>1, <2>2, <2>3, <2>4
<1> QED
  BY <1>2, <1>4, <1>5, <1>6, <1>7

LEMMA SpendFact ==
  ASSUME faults \in [DOMAIN Budget -> Nat], NEW k \in DOMAIN Budget, Spend(k)
  PROVE  /\ faults' \in [DOMAIN Budget -> Nat] /\ faults'[k] = faults[k] + 1
         /\ \A j \in DOMAIN Budget : j # k => faults'[j] = faults[j]
         /\ faults[k] \in Nat
<1>1. faults' = [faults EXCEPT ![k] = @ + 1]
  BY DEF Spend
<1> HIDE DEF Budget
<1> QED
  BY <1>1

LEMMA LoseStep ==
  ASSUME IInv, NEW h \in Hosts, Lose(h)
  PROVE  IInv'
<1> DEFINE t == running[h]
<1>1. MainOk /\ FleetOk /\ TotalsTrue /\ Counted
  BY Parts
<1>2. /\ UNCHANGED <<job, senderVars, phase, totalVars, outputs>> /\ running[h] # NoTask
      /\ waiting' = waiting \cup {t} /\ running' = [running EXCEPT ![h] = NoTask] /\ Spend("lost")
  BY DEF Lose
<1>3. Sent' = Sent /\ Tasks' = Tasks /\ Workers' = Workers /\ (\A w : Low(w)' = Low(w)) /\ next' = next
  BY <1>2, SentKept
<1>4. Fetchable' = Fetchable /\ Bad' = Bad /\ Budget' = Budget
  BY <1>2 DEF Fetchable, Bad, Budget
<1>5. FleetTyped /\ Placed
  BY <1>1 DEF FleetOk
<1>6. /\ running' \in [Hosts -> Tasks \cup {NoTask}]
      /\ t \in Tasks /\ t \in Sent /\ t \notin waiting /\ t \notin Fetchable
      /\ Busy' = Busy \ {h} /\ h \in Busy
      /\ \A g \in Hosts : running'[g] # NoTask =>
           /\ running'[g] \notin waiting /\ running'[g] \notin Fetchable
           /\ running'[g] # t
           /\ running'[g] \in Sent
           /\ \A k \in Hosts : g # k => running'[g] # running'[k]
  BY <1>1, <1>2, Freed
<1> HIDE DEF t
<1>7. FleetTyped'
  <2>1. waiting' \subseteq Tasks /\ waiting' \cap Fetchable = {}
    BY <1>2, <1>5, <1>6 DEF FleetTyped
  <2>2. ASSUME NEW g \in Hosts, NEW k \in Hosts, running'[g] # NoTask
        PROVE  running'[g] \notin waiting' \cup Fetchable /\ (g # k => running'[g] # running'[k])
    BY <1>2, <1>6, <2>2
  <2>3. outputs' \subseteq [task : Tasks, kind : Kinds, host : Hosts, copy : {0, 1}]
    BY <1>2, <1>5 DEF FleetTyped
  <2> QED
    BY <1>3, <1>4, <1>6, <2>1, <2>2, <2>3 DEF FleetTyped
<1>8. Placed'
  <2>1. \A g \in Busy' : running'[g] \in Sent
    BY <1>6 DEF Busy
  <2>2. waiting' \cup Fetchable \subseteq Sent
    BY <1>2, <1>5, <1>6 DEF Placed
  <2> QED
    BY <1>3, <1>4, <1>5, <2>1, <2>2 DEF Placed
<1>9. /\ faults' \in [DOMAIN Budget -> Nat] /\ faults'["dup"] = faults["dup"]
      /\ faults'["err"] = faults["err"] /\ faults'["failed"] = faults["failed"]
  <2>1. {"err", "failed", "dup", "lost"} = DOMAIN Budget
    BY DEF Budget
  <2>2. faults \in [DOMAIN Budget -> Nat]
    BY <1>1 DEF FleetOk
  <2> QED
    BY <1>2, <2>1, <2>2, SpendFact
<1>10. FleetOk'
  BY <1>1, <1>2, <1>4, <1>7, <1>8, <1>9 DEF FleetOk
<1>11. Counted'
  <2>1. IsFiniteSet(waiting) /\ IsFiniteSet(Busy)
    BY <1>1, Sizes
  <2>2. Cardinality(waiting \cup {t}) = Cardinality(waiting) + 1
    BY <1>6, <2>1, FS_AddElement
  <2>3. Cardinality(Busy \ {h}) = Cardinality(Busy) - 1
    BY <1>6, <2>1, FS_RemoveElement
  <2>4. Cardinality(waiting)' = Cardinality(waiting \cup {t})
    BY <1>2, Zenon
  <2>5. Cardinality(Busy)' = Cardinality(Busy \ {h})
    BY <1>6, Zenon
  <2>6. Cardinality(Bad)' = Cardinality(Bad)
    BY <1>4, Zenon
  <2>7. Cardinality(Sent)' = Cardinality(Sent)
    BY <1>2, SentKept
  <2>8. outputs' = outputs /\ done' = done /\ errors' = errors
    BY <1>2 DEF totalVars
  <2>9. /\ done \in Nat /\ Cardinality(outputs) \in Nat /\ Cardinality(waiting) \in Nat
        /\ Cardinality(Busy) \in Nat /\ Cardinality(Sent) \in Nat
    BY <1>1, Sizes DEF TotalsTrue, TotalsTyped
  <2> QED
    BY <1>1, <1>9, <2>2, <2>3, <2>4, <2>5, <2>6, <2>7, <2>8, <2>9 DEF Counted
<1> QED
  BY <1>2, <1>10, <1>11, FleetStep

\* A task that runs has no output yet, so its answer is a new one.
LEMMA AnswerStep ==
  ASSUME IInv, NEW h \in Hosts, NEW kind \in Kinds, Answer(h, kind)
  PROVE  IInv'
<1> DEFINE t == running[h]
           o == [task |-> t, kind |-> kind, host |-> h, copy |-> 0]
<1>1. MainOk /\ FleetOk /\ TotalsTrue /\ Counted
  BY Parts
<1>2. /\ UNCHANGED <<job, senderVars, phase, totalVars, waiting>> /\ running[h] # NoTask
      /\ outputs' = outputs \cup {o} /\ running' = [running EXCEPT ![h] = NoTask]
      /\ kind # "ok" => Spend(kind)
      /\ kind = "ok" => faults' = faults
  BY DEF Answer
<1>3. Sent' = Sent /\ Tasks' = Tasks /\ Workers' = Workers /\ (\A w : Low(w)' = Low(w)) /\ next' = next
  BY <1>2, SentKept
<1>4. FleetTyped /\ Placed
  BY <1>1 DEF FleetOk
<1>5. /\ running' \in [Hosts -> Tasks \cup {NoTask}]
      /\ t \in Tasks /\ t \in Sent /\ t \notin waiting /\ t \notin Fetchable
      /\ Busy' = Busy \ {h} /\ h \in Busy
      /\ \A g \in Hosts : running'[g] # NoTask =>
           /\ running'[g] \notin waiting /\ running'[g] \notin Fetchable
           /\ running'[g] # t
           /\ running'[g] \in Sent
           /\ \A k \in Hosts : g # k => running'[g] # running'[k]
  BY <1>1, <1>2, Freed
<1>6. o.task = t /\ o.kind = kind /\ o.host = h /\ o.copy = 0
  OBVIOUS
<1>7. o \in [task : Tasks, kind : Kinds, host : Hosts, copy : {0, 1}]
  BY <1>5
<1> HIDE DEF t, o
<1>8. Fetchable' = Fetchable \cup {t}
  BY <1>2, <1>6 DEF Fetchable
<1>9. o \notin outputs
  BY <1>5, <1>6 DEF Fetchable
<1>10. Bad' = IF kind = "ok" THEN Bad ELSE Bad \cup {o}
  BY <1>2, <1>6 DEF Bad
<1>11. Budget' = Budget /\ {"err", "failed", "dup", "lost"} = DOMAIN Budget
  BY DEF Budget
<1>12. FleetTyped'
  <2>1. waiting' \subseteq Tasks /\ waiting' \cap Fetchable' = {}
    BY <1>2, <1>4, <1>5, <1>8 DEF FleetTyped
  <2>2. ASSUME NEW g \in Hosts, NEW k \in Hosts, running'[g] # NoTask
        PROVE  running'[g] \notin waiting' \cup Fetchable' /\ (g # k => running'[g] # running'[k])
    BY <1>2, <1>5, <1>8, <2>2
  <2>3. outputs' \subseteq [task : Tasks, kind : Kinds, host : Hosts, copy : {0, 1}]
    BY <1>2, <1>4, <1>7 DEF FleetTyped
  <2> QED
    BY <1>3, <1>5, <2>1, <2>2, <2>3 DEF FleetTyped
<1>13. Placed'
  <2>1. \A g \in Busy' : running'[g] \in Sent
    BY <1>5 DEF Busy
  <2>2. waiting' \cup Fetchable' \subseteq Sent
    BY <1>2, <1>4, <1>5, <1>8 DEF Placed
  <2> QED
    BY <1>3, <1>4, <2>1, <2>2 DEF Placed
<1>14. /\ faults' \in [DOMAIN Budget -> Nat] /\ faults'["dup"] = faults["dup"]
       /\ faults'["err"] + faults'["failed"]
          = faults["err"] + faults["failed"] + IF kind = "ok" THEN 0 ELSE 1
       /\ faults["err"] \in Nat /\ faults["failed"] \in Nat
  <2>1. faults \in [DOMAIN Budget -> Nat]
    BY <1>1 DEF FleetOk
  <2>2. faults["err"] \in Nat /\ faults["failed"] \in Nat
    BY <1>11, <2>1
  <2>3. CASE kind = "ok"
    BY <1>2, <2>1, <2>2, <2>3
  <2>4. CASE kind # "ok"
    <3>1. kind \in DOMAIN Budget /\ kind \in {"err", "failed"} /\ Spend(kind)
      BY <1>2, <1>11, <2>4 DEF Kinds
    <3>2. /\ faults' \in [DOMAIN Budget -> Nat] /\ faults'[kind] = faults[kind] + 1
          /\ \A j \in DOMAIN Budget : j # kind => faults'[j] = faults[j]
      BY <2>1, <3>1, SpendFact
    <3>3. CASE kind = "err"
      BY <1>11, <2>2, <3>2, <3>3
    <3>4. CASE kind = "failed"
      BY <1>11, <2>2, <3>2, <3>4
    <3> QED
      BY <3>1, <3>3, <3>4
  <2> QED
    BY <2>3, <2>4
<1>15. IsFiniteSet(outputs') /\ Cardinality(outputs)' = Cardinality(outputs) + 1
  <2>1. IsFiniteSet(outputs)
    BY <1>1, Sizes
  <2>2. IsFiniteSet(outputs \cup {o}) /\ Cardinality(outputs \cup {o}) = Cardinality(outputs) + 1
    BY <1>9, <2>1, FS_AddElement
  <2>3. Cardinality(outputs)' = Cardinality(outputs \cup {o})
    BY <1>2, Zenon
  <2> QED
    BY <1>2, <2>2, <2>3
<1>16. FleetOk'
  BY <1>11, <1>12, <1>13, <1>14, <1>15 DEF FleetOk
<1>17. Counted'
  <2>1. IsFiniteSet(Bad) /\ IsFiniteSet(Busy) /\ Cardinality(Bad) \in Nat
    BY <1>1, Sizes
  <2>2. Cardinality(Bad)' = Cardinality(Bad) + IF kind = "ok" THEN 0 ELSE 1
    <3>1. CASE kind = "ok"
      <4>1. Cardinality(Bad)' = Cardinality(Bad)
        BY <1>10, <3>1, Zenon
      <4> QED
        BY <2>1, <3>1, <4>1
    <3>2. CASE kind # "ok"
      <4>1. Cardinality(Bad)' = Cardinality(Bad \cup {o})
        BY <1>10, <3>2, Zenon
      <4>2. o \notin Bad
        BY <1>9 DEF Bad
      <4>3. Cardinality(Bad \cup {o}) = Cardinality(Bad) + 1
        BY <2>1, <4>2, FS_AddElement
      <4> QED
        BY <3>2, <4>1, <4>3
    <3> QED
      BY <3>1, <3>2
  <2>3. Cardinality(Busy \ {h}) = Cardinality(Busy) - 1
    BY <1>5, <2>1, FS_RemoveElement
  <2>4. Cardinality(Busy)' = Cardinality(Busy \ {h})
    BY <1>5, Zenon
  <2>5. Cardinality(Sent)' = Cardinality(Sent)
    BY <1>2, SentKept
  <2>6. waiting' = waiting /\ done' = done /\ errors' = errors
    BY <1>2 DEF totalVars
  <2>7. /\ done \in Nat /\ Cardinality(outputs) \in Nat /\ Cardinality(waiting) \in Nat
        /\ Cardinality(Busy) \in Nat /\ Cardinality(Sent) \in Nat /\ errors \in Nat
    BY <1>1, Sizes DEF TotalsTrue, TotalsTyped
  <2> DEFINE extra == IF kind = "ok" THEN 0 ELSE 1
  <2>8. extra \in Nat
    OBVIOUS
  <2>9. /\ Cardinality(Bad)' = Cardinality(Bad) + extra
        /\ faults'["err"] + faults'["failed"] = faults["err"] + faults["failed"] + extra
    BY <1>14, <2>2
  <2> HIDE DEF extra
  <2> QED
    BY <1>1, <1>14, <1>15, <2>1, <2>3, <2>4, <2>5, <2>6, <2>7, <2>8, <2>9 DEF Counted
<1> QED
  BY <1>2, <1>16, <1>17, FleetStep

\* A second delivery is of a task that has an output already.
LEMMA DuplicateStep ==
  ASSUME IInv, Duplicate
  PROVE  IInv'
<1>1. MainOk /\ FleetOk /\ TotalsTrue /\ Counted
  BY Parts
<1>2. PICK o \in outputs : o.copy = 0 /\ outputs' = outputs \cup {[o EXCEPT !.copy = 1]}
  BY DEF Duplicate
<1> DEFINE p == [o EXCEPT !.copy = 1]
<1>3. UNCHANGED <<job, senderVars, phase, totalVars, waiting, running>> /\ Spend("dup")
  BY DEF Duplicate
<1>4. Sent' = Sent /\ Tasks' = Tasks /\ Workers' = Workers /\ (\A w : Low(w)' = Low(w)) /\ next' = next
  BY <1>3, SentKept
<1>5. FleetTyped /\ Placed
  BY <1>1 DEF FleetOk
<1>6. o \in [task : Tasks, kind : Kinds, host : Hosts, copy : {0, 1}]
  BY <1>5 DEF FleetTyped
<1>7. p \in [task : Tasks, kind : Kinds, host : Hosts, copy : {0, 1}] /\ p.task = o.task
  BY <1>6
<1>8. outputs' = outputs \cup {p}
  BY <1>2
<1> HIDE DEF p
<1>9. Fetchable' = Fetchable /\ Busy' = Busy /\ Budget' = Budget
  BY <1>3, <1>7, <1>8 DEF Fetchable, Busy, Budget
<1>10. FleetTyped'
  <2>1. outputs' \subseteq [task : Tasks, kind : Kinds, host : Hosts, copy : {0, 1}]
    BY <1>5, <1>7, <1>8 DEF FleetTyped
  <2> QED
    BY <1>3, <1>4, <1>5, <1>9, <2>1 DEF FleetTyped
<1>11. Placed'
  BY <1>3, <1>4, <1>5, <1>9 DEF Placed
<1>12. faults' \in [DOMAIN Budget -> Nat] /\ faults'["dup"] # 0
  <2>1. {"err", "failed", "dup", "lost"} = DOMAIN Budget
    BY DEF Budget
  <2>2. faults \in [DOMAIN Budget -> Nat]
    BY <1>1 DEF FleetOk
  <2>3. faults' \in [DOMAIN Budget -> Nat] /\ faults'["dup"] = faults["dup"] + 1 /\ faults["dup"] \in Nat
    BY <1>3, <2>1, <2>2, SpendFact
  <2> QED
    BY <2>3
<1>13. IsFiniteSet(outputs')
  BY <1>1, <1>8, FS_AddElement DEF FleetOk
<1>14. FleetOk'
  BY <1>9, <1>10, <1>11, <1>12, <1>13 DEF FleetOk
<1>15. Counted'
  BY <1>12 DEF Counted
<1> QED
  BY <1>3, <1>14, <1>15, FleetStep

-----------------------------------------------------------------------------
(* Main counts what it fetched *)

LEMMA TakenOut ==
  ASSUME NEW S, NEW T, IsFiniteSet(S)
  PROVE  /\ IsFiniteSet(S \ T) /\ IsFiniteSet(S \cap T)
         /\ Cardinality(S \cap T) \in Nat /\ Cardinality(S) \in Nat
         /\ Cardinality(S \ T) = Cardinality(S) - Cardinality(S \cap T)
<1>1. S \cap T \in SUBSET S
  OBVIOUS
<1>2. IsFiniteSet(S \cap T)
  BY <1>1, FS_Subset
<1>3. Cardinality(S \cap T) \in Nat /\ Cardinality(S) \in Nat
  BY <1>2, FS_CardinalityType
<1>4. IsFiniteSet(S \ T) /\ Cardinality(S \ T) = Cardinality(S) - Cardinality(S \cap T)
  BY FS_Difference
<1> QED
  BY <1>2, <1>3, <1>4

\* Each success goes to its host and each other output to the errors, so the totals stay
\* the sum of both, and what leaves the outputs is what is counted.
LEMMA CountStep ==
  ASSUME IInv, phase = "fetch", NEW batch \in SUBSET outputs, Count(batch)
  PROVE  IInv'
<1> DEFINE ok  == {o \in batch : Successful(o)}
           bad == batch \ ok
<1>1. MainOk /\ FleetOk /\ TotalsTrue /\ Counted
  BY Parts
<1>2. /\ outputs' = outputs \ batch /\ done' = done + Cardinality(batch)
      /\ errors' = errors + Cardinality(bad)
      /\ perHost' = [h \in Hosts |-> perHost[h] + Cardinality({o \in ok : o.host = h})]
      /\ UNCHANGED <<job, senderVars, phase, waiting, running, faults>>
  BY DEF Count
<1>3. Sent' = Sent /\ Tasks' = Tasks /\ Workers' = Workers /\ (\A w : Low(w)' = Low(w)) /\ next' = next
  BY <1>2, SentKept
<1>4. FleetTyped /\ Placed
  BY <1>1 DEF FleetOk
<1>5. Busy' = Busy /\ Budget' = Budget
  BY <1>2 DEF Busy, Budget
<1>6. Fetchable' \subseteq Fetchable
  BY <1>2 DEF Fetchable
<1>7. Bad' = Bad \ batch /\ bad = Bad \cap batch /\ ok \subseteq batch /\ ok = batch \cap ok
  BY <1>2 DEF Bad, Successful
<1>8. \A o \in ok : o.host \in Hosts
  BY <1>4 DEF FleetTyped
<1> HIDE DEF ok, bad
<1>9. /\ IsFiniteSet(outputs) /\ Cardinality(outputs) \in Nat
      /\ IsFiniteSet(Bad) /\ Cardinality(Bad) \in Nat
  BY <1>1, Sizes
<1>10. IsFiniteSet(batch) /\ Cardinality(batch) \in Nat
  <2>1. IsFiniteSet(batch)
    BY <1>9, FS_Subset
  <2> QED
    BY <2>1, FS_CardinalityType
<1>11. /\ IsFiniteSet(ok) /\ Cardinality(ok) \in Nat /\ Cardinality(bad) \in Nat
       /\ Cardinality(batch) = Cardinality(ok) + Cardinality(bad)
  <2>1. /\ IsFiniteSet(batch \cap ok) /\ Cardinality(batch \cap ok) \in Nat
        /\ IsFiniteSet(batch \ ok)
        /\ Cardinality(batch \ ok) = Cardinality(batch) - Cardinality(batch \cap ok)
    BY <1>10, TakenOut
  <2>2. IsFiniteSet(ok) /\ Cardinality(ok) = Cardinality(batch \cap ok)
    BY <1>7, <2>1, Zenon
  <2>3. Cardinality(bad) = Cardinality(batch \ ok)
    BY Zenon DEF bad
  <2>4. Cardinality(batch \ ok) \in Nat
    BY <2>1, FS_CardinalityType
  <2> QED
    BY <1>10, <2>1, <2>2, <2>3, <2>4
<1>12. IsFiniteSet(outputs') /\ Cardinality(outputs)' = Cardinality(outputs) - Cardinality(batch)
  <2>1. /\ IsFiniteSet(outputs \ batch)
        /\ Cardinality(outputs \ batch) = Cardinality(outputs) - Cardinality(outputs \cap batch)
    BY <1>9, TakenOut
  <2>2. outputs \cap batch = batch
    OBVIOUS
  <2>3. Cardinality(outputs \cap batch) = Cardinality(batch)
    BY <2>2, Zenon
  <2>4. Cardinality(outputs)' = Cardinality(outputs \ batch)
    BY <1>2, Zenon
  <2> QED
    BY <1>2, <2>1, <2>3, <2>4
<1>13. Cardinality(Bad)' = Cardinality(Bad) - Cardinality(bad)
  <2>1. Cardinality(Bad \ batch) = Cardinality(Bad) - Cardinality(Bad \cap batch)
    BY <1>9, TakenOut
  <2>2. Cardinality(bad) = Cardinality(Bad \cap batch)
    BY <1>7, Zenon
  <2>3. Cardinality(Bad)' = Cardinality(Bad \ batch)
    BY <1>7, Zenon
  <2> QED
    BY <2>1, <2>2, <2>3
<1>14. FleetTyped'
  <2>1. outputs' \subseteq [task : Tasks, kind : Kinds, host : Hosts, copy : {0, 1}]
    BY <1>2, <1>4 DEF FleetTyped
  <2>2. waiting \cap Fetchable' = {}
    BY <1>4, <1>6 DEF FleetTyped
  <2>3. ASSUME NEW g \in Hosts, NEW k \in Hosts, running[g] # NoTask
        PROVE  running[g] \notin waiting \cup Fetchable' /\ (g # k => running[g] # running[k])
    BY <1>4, <1>6, <2>3 DEF FleetTyped
  <2>4. waiting' = waiting /\ running' = running
    BY <1>2
  <2> QED
    BY <1>3, <1>4, <2>1, <2>2, <2>3, <2>4 DEF FleetTyped
<1>15. Placed'
  BY <1>2, <1>3, <1>4, <1>5, <1>6 DEF Placed
<1>16. FleetOk'
  BY <1>1, <1>2, <1>5, <1>12, <1>14, <1>15 DEF FleetOk
<1>17. MainOk'
  <2>1. next' \in [Workers -> Nat]
    BY <1>1, <1>3 DEF MainOk, MainTyped
  <2> QED
    BY <1>1, <1>2, <2>1, MainKept DEF senderVars
<1>18. done \in Nat /\ errors \in Nat /\ perHost \in [Hosts -> Nat] /\ IsFiniteSet(Successes) /\ done = Good + errors
  BY <1>1 DEF TotalsTrue, TotalsTyped
<1>19. TotalsTrue'
  <2>1. Successes = Numbered(perHost) /\ Successes' = Numbered(perHost')
    BY DEF Successes, Numbered
  <2>2. IsFiniteSet(Numbered(perHost))
    BY <1>18, <2>1
  <2>3. /\ perHost' \in [Hosts -> Nat] /\ IsFiniteSet(Numbered(perHost'))
        /\ Cardinality(Numbered(perHost')) = Cardinality(Numbered(perHost)) + Cardinality(ok)
    BY <1>2, <1>8, <1>11, <1>18, <2>2, SuccessesAdded
  <2>4. Good' = Cardinality(Numbered(perHost'))
    BY <2>1, Zenon DEF Good
  <2>5. Good = Cardinality(Numbered(perHost))
    BY <2>1, Zenon DEF Good
  <2>6. Good \in Nat
    BY <1>18, FS_CardinalityType DEF Good
  <2>7. done' = Good' + errors' /\ done' \in Nat /\ errors' \in Nat
    BY <1>2, <1>10, <1>11, <1>18, <2>3, <2>4, <2>5, <2>6
  <2> QED
    BY <2>1, <2>3, <2>7 DEF TotalsTrue, TotalsTyped
<1>20. Counted'
  <2>1. Cardinality(Sent)' = Cardinality(Sent)
    BY <1>2, SentKept
  <2>2. Cardinality(Busy)' = Cardinality(Busy)
    BY <1>5, Zenon
  <2>3. /\ Cardinality(waiting) \in Nat /\ Cardinality(Busy) \in Nat /\ Cardinality(Sent) \in Nat
    BY <1>1, Sizes
  <2>4. waiting' = waiting /\ faults' = faults
    BY <1>2
  <2> QED
    BY <1>1, <1>2, <1>9, <1>10, <1>11, <1>12, <1>13, <1>18, <2>1, <2>2, <2>3, <2>4 DEF Counted
<1>21. (MainOk /\ FleetOk /\ TotalsTrue /\ Counted)'
  BY <1>16, <1>17, <1>19, <1>20
<1> QED
  BY <1>21, Parts, PTL

LEMMA FetchStep ==
  ASSUME IInv, FetchAll \/ FetchTimeout
  PROVE  IInv'
<1>1. CASE FetchAll
  <2>1. PICK batch \in kSubset(job.count, outputs) : Count(batch)
    BY <1>1 DEF FetchAll
  <2>2. batch \in SUBSET outputs /\ phase = "fetch"
    BY <1>1 DEF FetchAll, kSubset
  <2> QED
    BY <2>1, <2>2, CountStep
<1>2. CASE FetchTimeout
  BY <1>2, CountStep DEF FetchTimeout
<1> QED
  BY <1>1, <1>2

-----------------------------------------------------------------------------
(* The theorems *)

LEMMA Initially == Init => IInv
<1> SUFFICES ASSUME Init PROVE IInv
  OBVIOUS
<1>1. job \in Jobs
  BY DEF Init
<1>2. job.count \in Nat /\ NWorkers \in Nat \ {0} /\ \A w \in Workers : Low(w) \in Nat
  BY <1>1, JobFact, RangeFact
<1>3. next = [w \in Workers |-> Low(w)]
  BY DEF Init
<1>4. Sent = {} /\ Busy = {} /\ Bad = {} /\ Fetchable = {}
  <2>1. ASSUME NEW t \in Tasks, NEW w \in Workers, InRange(t, w), t < next[w]
        PROVE  FALSE
    <3>1. t \in Nat /\ Low(w) \in Nat /\ Low(w) <= t /\ t < Low(w)
      BY <1>2, <1>3, <2>1 DEF InRange, Tasks
    <3> QED
      BY <3>1
  <2>2. Sent = {}
    BY <2>1 DEF Sent
  <2> QED
    BY <2>2 DEF Init, Busy, Bad, Fetchable
<1>5. Successes = {}
  <2>1. \A h \in Hosts : 1 .. perHost[h] = {}
    BY DEF Init
  <2> QED
    BY <2>1 DEF Successes
<1>6. IsFiniteSet({}) /\ Cardinality({}) = 0
  BY FS_EmptySet
<1>7. /\ Cardinality(Sent) = 0 /\ Cardinality(Busy) = 0 /\ Cardinality(Bad) = 0
      /\ Cardinality(Successes) = 0
  BY <1>4, <1>5, <1>6, Zenon
<1>8. Cardinality(waiting) = 0 /\ Cardinality(outputs) = 0 /\ IsFiniteSet(outputs)
  BY <1>6, Zenon DEF Init
<1>9. MainOk
  <2>1. Cardinality(Workers) = NWorkers
    BY <1>2, FS_Interval DEF Workers
  <2>2. started \in 0 .. Cardinality(Workers)
    BY <1>2, <2>1 DEF Init
  <2>3. next \in [Workers -> Nat]
    BY <1>2, <1>3
  <2> QED
    BY <1>1, <2>2, <2>3 DEF Init, MainOk, MainTyped, AllStarted, EndOfFetch
<1>10. FleetOk
  <2>1. Placed
    BY <1>2, <1>3, <1>4 DEF Placed, Init
  <2>2. FleetTyped
    BY <1>4 DEF Init, FleetTyped
  <2>3. faults \in [DOMAIN Budget -> Nat]
    BY DEF Init
  <2> QED
    BY <1>8, <2>1, <2>2, <2>3 DEF FleetOk
<1>11. TotalsTrue
  BY <1>5, <1>6, <1>7 DEF Init, TotalsTrue, TotalsTyped, Good
<1>12. Counted
  <2>1. {"err", "failed", "dup", "lost"} = DOMAIN Budget
    BY DEF Budget
  <2>2. faults["err"] = 0 /\ faults["failed"] = 0 /\ done = 0 /\ errors = 0
    BY <2>1 DEF Init
  <2> QED
    BY <1>7, <1>8, <2>2 DEF Counted
<1> QED
  BY <1>9, <1>10, <1>11, <1>12, Parts

\* Inductive invariant of the batch client (soam_client.py:137-226): each sent task is
\* with SOAM, on one host, in an output or counted, and each output counted is a success
\* of its host or an error.
THEOREM BatchInvariant == Spec => []IInv
<1>1. Init => IInv
  BY Initially
<1>2. IInv /\ [Next]_vars => IInv'
  <2> SUFFICES ASSUME IInv, [Next]_vars PROVE IInv'
    OBVIOUS
  <2>1. CASE StartSender
    BY <2>1, StartSenderStep
  <2>2. CASE FetchAll \/ FetchTimeout
    BY <2>2, FetchStep
  <2>3. CASE FetchEnd \/ Report \/ UNCHANGED vars
    BY <2>3, FetchEndStep
  <2>4. CASE Duplicate
    BY <2>4, DuplicateStep
  <2>5. ASSUME NEW w \in Workers, Send(w) PROVE IInv'
    BY <2>5, SendStep
  <2>6. ASSUME NEW h \in Hosts, Service(h) PROVE IInv'
    BY <2>6, RunStep, LoseStep, AnswerStep DEF Service
  <2> QED
    BY <2>1, <2>2, <2>3, <2>4, <2>5, <2>6 DEF Next, Main, Over
<1> QED
  BY <1>1, <1>2, PTL DEF Spec

\* Every variable keeps its type, and a task is waiting, on one host or answered, never two
\* of these, whatever hosts are lost (soam_client.py:137-226).
THEOREM BatchTypeCorrect == Spec => []TypeOK
<1>1. IInv => TypeOK
  BY DEF IInv
<1> QED
  BY <1>1, BatchInvariant, PTL

\* Whatever the count and the number of threads, the ranges of the senders that were started
\* hold every index once: the loop's break at an empty range loses none
\* (soam_client.py:171-180).
THEOREM RangesPartition == Spec => []Partitioned
<1>1. ASSUME IInv PROVE Partitioned
  <2> SUFFICES ASSUME phase # "start", NEW t \in Tasks
               PROVE  \E w \in Workers : /\ w < started /\ InRange(t, w)
                                         /\ \A v \in Workers : InRange(t, v) => v = w
    BY DEF Partitioned
  <2>1. MainOk /\ FleetOk /\ job \in Jobs
    BY <1>1, Parts DEF MainOk, MainTyped
  <2>2. PICK w \in Workers : InRange(t, w) /\ \A v \in Nat : v * Share > t => w < v
    BY <2>1, RangesCover
  <2>3. t \in Nat /\ t < job.count /\ job.count \in Nat
    BY <2>1, JobFact DEF Tasks
  <2>4. \A v \in Workers : InRange(t, v) => v = w
    BY <2>1, <2>2, <2>3, RangesDisjoint
  <2>5. w \in Nat /\ w < NWorkers /\ NWorkers \in Nat /\ Share \in Nat
    BY <2>1, JobFact
  <2>6. started \in Nat /\ started <= NWorkers /\ (started < NWorkers => started \in Workers)
    <3>1. Cardinality(Workers) = NWorkers
      BY <2>1, Sizes
    <3>2. started \in 0 .. NWorkers
      BY <2>1, <3>1 DEF MainOk, MainTyped
    <3> QED
      BY <2>1, <2>5, <3>2, JobFact
  <2>7. w < started
    <3>1. CASE started = NWorkers
      BY <2>5, <3>1
    <3>2. CASE started \in Workers
      <4>1. High(started) <= Low(started)
        BY <2>1, <3>2 DEF MainOk, AllStarted
      <4>2. Low(started) = started * Share /\ Low(started) \in Nat /\ High(started) \in Nat
        BY <2>1, <3>2, RangeFact
      <4>3. ~(Low(started) <= t)
        <5> SUFFICES ASSUME Low(started) <= t PROVE FALSE
          OBVIOUS
        <5>1. High(started) <= t
          BY <2>3, <4>1, <4>2
        <5>2. High(started) = IF job.count < (started + 1) * Share THEN job.count
                                                                  ELSE (started + 1) * Share
          BY DEF High, Share
        <5>3. (started + 1) * Share = started * Share + Share
          BY <2>5, <2>6
        <5>4. Share = 0
          BY <2>3, <2>5, <4>1, <4>2, <5>1, <5>2, <5>3
        <5>5. w * Share <= t /\ t < (w + 1) * Share
          BY <2>1, <2>2, <2>3, RangeFact
        <5>6. (w + 1) * Share = 0
          BY <2>5, <5>4
        <5> QED
          BY <2>3, <5>5, <5>6
      <4> QED
        BY <2>2, <2>3, <2>6, <4>2, <4>3
    <3> QED
      BY <2>5, <2>6, <3>1, <3>2
  <2> QED
    BY <2>2, <2>4, <2>7
<1> QED
  BY <1>1, BatchInvariant, PTL

\* What is reported adds up, whatever is lost, fails or is answered late: the totals are the
\* successes of the hosts and the errors, and a run whose outputs come once has counted
\* every task and left none behind (soam_client.py:190-226).
THEOREM ReportIsSum == Spec => []ReportAddsUp
<1>1. ASSUME IInv PROVE ReportAddsUp
  <2>1. MainOk /\ FleetOk /\ TotalsTrue /\ Counted
    BY <1>1, Parts
  <2>2. /\ IsFiniteSet(waiting) /\ Cardinality(waiting) \in Nat
        /\ IsFiniteSet(Busy) /\ Cardinality(Busy) \in Nat
        /\ IsFiniteSet(outputs) /\ Cardinality(outputs) \in Nat
        /\ IsFiniteSet(Bad) /\ Cardinality(Bad) \in Nat
        /\ Cardinality(Sent) \in Nat /\ Cardinality(Sent) <= job.count /\ job.count \in Nat
    BY <2>1, Sizes
  <2>3. done \in Nat /\ errors \in Nat /\ done = Good + errors /\ Good \in Nat
    BY <2>1, FS_CardinalityType DEF TotalsTrue, TotalsTyped, Good
  <2>4. faults["err"] \in Nat /\ faults["failed"] \in Nat
    <3>1. {"err", "failed", "dup", "lost"} = DOMAIN Budget
      BY DEF Budget
    <3> QED
      BY <2>1, <3>1 DEF FleetOk
  <2>5. faults["dup"] = 0 => errors <= faults["err"] + faults["failed"]
    BY <2>1, <2>2, <2>3, <2>4 DEF Counted
  <2>6. ASSUME phase = "reported", faults["dup"] = 0
        PROVE  /\ done = job.count /\ OnFleet = {} /\ outputs = {}
               /\ Good = job.count - faults["err"] - faults["failed"]
    <3>1. done >= job.count
      BY <2>1, <2>6 DEF MainOk, EndOfFetch
    <3>2. /\ done = job.count /\ Cardinality(outputs) = 0
          /\ Cardinality(waiting) = 0 /\ Cardinality(Busy) = 0
      BY <2>1, <2>2, <2>3, <2>6, <3>1 DEF Counted
    <3>3. outputs = {} /\ waiting = {} /\ Busy = {}
      BY <2>2, <3>2, FS_EmptySet
    <3>4. OnFleet = {}
      BY <3>3 DEF OnFleet, Busy
    <3>5. Bad = {}
      BY <3>3 DEF Bad
    <3>6. Cardinality(Bad) = 0
      BY <3>5, FS_EmptySet, Zenon
    <3>7. errors = faults["err"] + faults["failed"]
      BY <2>1, <2>3, <2>4, <2>6, <3>6 DEF Counted
    <3> QED
      BY <2>3, <2>4, <3>2, <3>3, <3>4, <3>7
  <2> QED
    BY <2>3, <2>5, <2>6 DEF ReportAddsUp
<1> QED
  BY <1>1, BatchInvariant, PTL
=============================================================================
