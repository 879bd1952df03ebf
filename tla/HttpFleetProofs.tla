--------------------------- MODULE HttpFleetProofs ---------------------------
(***************************************************************************)
(* Proofs about the HTTP nodes and the dashboard's jobs, for any number of *)
(* nodes and jobs, any models, any samples, and whether or not replies are *)
(* slow.                                                                   *)
(***************************************************************************)
EXTENDS HttpFleetProperties, TLAPS

USE FleetAssumption DEF FleetAssumption, Nodes

\* What the code's loops rest on: a job that has begun asks for a known kind of
\* work and for one of the models.
LEMMA AskFact ==
  ASSUME TypeOK, Progress, NEW j \in Jobs, pc[j] # "new"
  PROVE  work[j].model \in Models /\ work[j] \in Asks
  BY DEF Progress

\* Round robin over the live nodes stays within their list.
LEMMA RoundRobin ==
  ASSUME NEW n \in Nat \ {0}, NEW k \in Nat
  PROVE  (k % n) + 1 \in 1 .. n
  OBVIOUS

\* A job that asks has a node to ask: one of NODES, one it found alive.
LEMMA TargetFact ==
  ASSUME JobsOK, Progress, NEW j \in Jobs, pc[j] \in {"live", "work", "run"}
  PROVE  /\ Target(j) \in Nodes
         /\ pc[j] = "live" => Target(j) = i[j]
         /\ pc[j] # "live" => Target(j) \in Up
<1>1. i[j] \in 1 .. Longest /\ i[j] \in Nat \ {0} /\ live[j] \in Seq(Up)
  BY DEF JobsOK, Longest
<1>2. CASE pc[j] = "live"
  BY <1>1, <1>2 DEF Target, Progress
<1>3. CASE pc[j] = "work"
  <2>1. i[j] \in 1 .. Len(live[j])
    BY <1>1, <1>3 DEF Progress
  <2>2. live[j][i[j]] \in Up
    BY <1>1, <2>1
  <2> QED
    BY <1>3, <2>2 DEF Target
<1>4. CASE pc[j] = "run"
  <2>1. Len(live[j]) \in Nat \ {0} /\ i[j] - 1 \in Nat
    BY <1>1, <1>4 DEF Progress
  <2>2. ((i[j] - 1) % Len(live[j])) + 1 \in 1 .. Len(live[j])
    BY <2>1, RoundRobin
  <2>3. live[j][((i[j] - 1) % Len(live[j])) + 1] \in Up
    BY <1>1, <2>2
  <2> QED
    BY <1>4, <2>3 DEF Target
<1> QED
  BY <1>2, <1>3, <1>4

-----------------------------------------------------------------------------
(* The jobs *)

Places == {"new", "live", "work", "run", "done"}
Row    == [node : Up, ok : BOOLEAN, by : Objects \cup {NoObject}]

\* A pass of a loop is followed by the next, or by the first of the next loop.
LEMMA LoopFact ==
  ASSUME pc \in [Jobs -> Places], i \in [Jobs -> Nat], NEW j \in Jobs, NEW n \in Nat,
         NEW next \in Places, Loop(j, n, next)
  PROVE  /\ pc' \in [Jobs -> Places] /\ i' \in [Jobs -> Nat]
         /\ \A o \in Jobs \ {j} : pc'[o] = pc[o] /\ i'[o] = i[o]
         /\ \/ i[j] < n /\ i'[j] = i[j] + 1 /\ pc'[j] = pc[j]
            \/ i[j] >= n /\ i'[j] = 1 /\ pc'[j] = next
  BY DEF Loop

\* The request of job j that ends has been counted: just now, or when it was sent.
Counted(j) == \/ waits[j] = 0 /\ asked' = [asked EXCEPT ![j] = @ + 1]
              \/ waits[j] # 0 /\ asked' = asked

\* However a request of job j ends, the loop goes on where the count of requests
\* says it should, and never past its end.
LEMMA ReceiveKeeps ==
  ASSUME JobsOK, Progress, NEW j \in Jobs, pc[j] \in {"live", "work", "run"},
         NEW says, NEW by, says.ok \in BOOLEAN, by \in Objects \cup {NoObject},
         says.ok /\ pc[j] = "live" => i[j] \in Up,
         Counted(j), work' = work, Receive(j, says, by)
  PROVE  /\ JobsOK' /\ Progress' /\ waits'[j] = 0 /\ asked'[j] >= asked[j]
         /\ \A o \in Jobs \ {j} : /\ pc'[o] = pc[o] /\ i'[o] = i[o] /\ live'[o] = live[o]
                                   /\ waits'[o] = waits[o] /\ asked'[o] = asked[o]
<1>1. /\ pc \in [Jobs -> Places] /\ i \in [Jobs -> 1 .. Longest] /\ live \in [Jobs -> Seq(Up)]
      /\ asked \in [Jobs -> 0 .. 2 * NNodes + Samples] /\ waits \in [Jobs -> Nat]
      /\ rows \in [Jobs -> Seq(Row)]
      /\ Longest \in Nat \ {0} /\ NNodes <= Longest /\ Samples <= Longest
  <2>1. Longest \in Nat \ {0} /\ NNodes <= Longest /\ Samples <= Longest
    BY DEF Longest
  <2> QED
    BY <2>1 DEF JobsOK, Places, Row
<1>2. /\ i \in [Jobs -> Nat] /\ asked \in [Jobs -> Nat]
  BY <1>1
<1>3. /\ waits' = [waits EXCEPT ![j] = 0]
      /\ \/ /\ pc[j] = "live" /\ rows' = rows
            /\ live' = IF says.ok THEN [live EXCEPT ![j] = Append(@, i[j])] ELSE live
            /\ Loop(j, NNodes, IF work[j].kind = "poll" \/ live'[j] = <<>> THEN "done" ELSE "work")
         \/ /\ pc[j] = "work" /\ live' = live /\ rows' = rows
            /\ Loop(j, Len(live[j]), IF work[j].kind = "run" /\ Samples > 0 THEN "run" ELSE "done")
         \/ /\ pc[j] = "run" /\ live' = live
            /\ rows' = [rows EXCEPT ![j] = Append(@, [node |-> Target(j), ok |-> says.ok, by |-> by])]
            /\ Loop(j, Samples, "done")
  BY DEF Receive
<1>4. /\ waits' \in [Jobs -> Nat] /\ waits'[j] = 0 /\ \A o \in Jobs \ {j} : waits'[o] = waits[o]
  BY <1>1, <1>3
<1>5. /\ asked' \in [Jobs -> Nat] /\ \A o \in Jobs \ {j} : asked'[o] = asked[o]
      /\ asked'[j] >= asked[j] /\ asked'[j] = Past(j) + 1
  BY <1>1, <1>2 DEF Progress, Past, Counted
<1>6. /\ work[j] \in Asks /\ pc[j] # "new" /\ Past(j) \in Nat
      /\ pc[j] = "live" => i[j] <= NNodes /\ Len(live[j]) < i[j] /\ Past(j) = i[j] - 1
      /\ pc[j] \in {"work", "run"} => Len(live[j]) \in 1 .. NNodes
      /\ pc[j] = "work" => i[j] <= Len(live[j]) /\ Past(j) = NNodes + i[j] - 1
      /\ pc[j] = "run" => i[j] <= Samples /\ Past(j) = NNodes + Len(live[j]) + i[j] - 1
  BY <1>1 DEF Progress, Past
<1>13. /\ i[j] \in 1 .. Longest /\ i[j] \in Nat /\ Len(live[j]) \in Nat /\ asked'[j] \in Nat
       /\ Longest \in Nat \ {0} /\ NNodes <= Longest /\ Samples <= Longest
  BY <1>1, <1>2, <1>5
<1> DEFINE After ==
      /\ pc' \in [Jobs -> Places] /\ i' \in [Jobs -> Nat] /\ live' \in [Jobs -> Seq(Up)]
      /\ rows' \in [Jobs -> Seq(Row)]
      /\ \A o \in Jobs \ {j} : pc'[o] = pc[o] /\ i'[o] = i[o] /\ live'[o] = live[o]
      /\ asked'[j] <= 2 * NNodes + Samples /\ i'[j] \in 1 .. Longest /\ pc'[j] # "new"
      /\ pc'[j] = "live" => i'[j] <= NNodes /\ Len(live'[j]) < i'[j] /\ asked'[j] = i'[j] - 1
      /\ pc'[j] \in {"work", "run"} => Len(live'[j]) \in 1 .. NNodes
      /\ pc'[j] = "work" => i'[j] <= Len(live'[j]) /\ asked'[j] = NNodes + i'[j] - 1
      /\ pc'[j] = "run" => i'[j] <= Samples /\ asked'[j] = NNodes + Len(live'[j]) + i'[j] - 1
<1>7. ASSUME pc[j] = "live" PROVE After
  <2> DEFINE next == IF work[j].kind = "poll" \/ live'[j] = <<>> THEN "done" ELSE "work"
  <2>1. /\ rows' = rows /\ Loop(j, NNodes, next)
        /\ live' = IF says.ok THEN [live EXCEPT ![j] = Append(@, i[j])] ELSE live
    BY <1>3, <1>7
  <2>2. next \in Places /\ next \in {"done", "work"} /\ (next = "work" => live'[j] # <<>>)
    BY DEF Places
  <2>3. /\ live' \in [Jobs -> Seq(Up)] /\ \A o \in Jobs \ {j} : live'[o] = live[o]
        /\ Len(live'[j]) \in Nat /\ Len(live'[j]) <= i[j]
        /\ live'[j] # <<>> => Len(live'[j]) > 0
    <3>1. live[j] \in Seq(Up) /\ Len(live[j]) \in Nat /\ Len(live[j]) < i[j]
      BY <1>1, <1>6, <1>7
    <3>2. CASE says.ok
      <4>1. i[j] \in Up /\ live' = [live EXCEPT ![j] = Append(@, i[j])]
        BY <1>7, <2>1, <3>2
      <4>2. /\ Append(live[j], i[j]) \in Seq(Up)
            /\ Len(Append(live[j], i[j])) = Len(live[j]) + 1
        BY <3>1, <4>1
      <4>3. live'[j] = Append(live[j], i[j])
        BY <1>1, <4>1
      <4> QED
        BY <1>1, <1>13, <3>1, <4>1, <4>2, <4>3
    <3>3. CASE ~says.ok
      BY <1>1, <1>13, <2>1, <3>1, <3>3
    <3> QED
      BY <3>2, <3>3
  <2> HIDE DEF next
  <2>4. /\ pc' \in [Jobs -> Places] /\ i' \in [Jobs -> Nat]
        /\ \A o \in Jobs \ {j} : pc'[o] = pc[o] /\ i'[o] = i[o]
        /\ \/ i[j] < NNodes /\ i'[j] = i[j] + 1 /\ pc'[j] = pc[j]
           \/ i[j] >= NNodes /\ i'[j] = 1 /\ pc'[j] = next
    BY <1>1, <1>2, <2>1, <2>2, LoopFact
  <2>5. /\ i[j] <= NNodes /\ Len(live[j]) < i[j] /\ asked'[j] = i[j]
    BY <1>13, <1>5, <1>6, <1>7
  <2>6. i'[j] \in Nat /\ \/ i[j] < NNodes /\ i'[j] = i[j] + 1 /\ pc'[j] = "live"
                         \/ i[j] >= NNodes /\ i'[j] = 1 /\ pc'[j] = next
    BY <1>7, <1>13, <2>4
  <2>8. /\ asked'[j] <= 2 * NNodes + Samples /\ i'[j] \in 1 .. Longest /\ pc'[j] # "new"
        /\ pc'[j] = "live" => i'[j] <= NNodes /\ Len(live'[j]) < i'[j] /\ asked'[j] = i'[j] - 1
        /\ pc'[j] \in {"work", "run"} => Len(live'[j]) \in 1 .. NNodes
        /\ pc'[j] = "work" => i'[j] <= Len(live'[j]) /\ asked'[j] = NNodes + i'[j] - 1
        /\ pc'[j] = "run" => i'[j] <= Samples /\ asked'[j] = NNodes + Len(live'[j]) + i'[j] - 1
    BY <1>13, <2>2, <2>3, <2>5, <2>6
  <2> QED
    BY <1>1, <2>1, <2>3, <2>4, <2>8
<1>8. ASSUME pc[j] = "work" PROVE After
  <2> DEFINE next == IF work[j].kind = "run" /\ Samples > 0 THEN "run" ELSE "done"
  <2>1. rows' = rows /\ live' = live /\ Loop(j, Len(live[j]), next)
    BY <1>3, <1>8
  <2>2. next \in Places /\ next \in {"done", "run"} /\ (next = "run" => Samples > 0)
    BY DEF Places
  <2> HIDE DEF next
  <2>3. Len(live[j]) \in Nat
    BY <1>1
  <2>4. /\ pc' \in [Jobs -> Places] /\ i' \in [Jobs -> Nat]
        /\ \A o \in Jobs \ {j} : pc'[o] = pc[o] /\ i'[o] = i[o]
        /\ \/ i[j] < Len(live[j]) /\ i'[j] = i[j] + 1 /\ pc'[j] = pc[j]
           \/ i[j] >= Len(live[j]) /\ i'[j] = 1 /\ pc'[j] = next
    BY <1>1, <1>2, <2>1, <2>2, <2>3, LoopFact
  <2>5. /\ i[j] <= Len(live[j]) /\ Len(live[j]) \in 1 .. NNodes
        /\ asked'[j] = NNodes + i[j] /\ Len(live'[j]) = Len(live[j])
    BY <1>13, <1>5, <1>6, <1>8, <2>1
  <2>6. i'[j] \in Nat /\ \/ i[j] < Len(live[j]) /\ i'[j] = i[j] + 1 /\ pc'[j] = "work"
                         \/ i[j] >= Len(live[j]) /\ i'[j] = 1 /\ pc'[j] = next
    BY <1>8, <1>13, <2>4
  <2>8. /\ asked'[j] <= 2 * NNodes + Samples /\ i'[j] \in 1 .. Longest /\ pc'[j] # "new"
        /\ pc'[j] = "live" => i'[j] <= NNodes /\ Len(live'[j]) < i'[j] /\ asked'[j] = i'[j] - 1
        /\ pc'[j] \in {"work", "run"} => Len(live'[j]) \in 1 .. NNodes
        /\ pc'[j] = "work" => i'[j] <= Len(live'[j]) /\ asked'[j] = NNodes + i'[j] - 1
        /\ pc'[j] = "run" => i'[j] <= Samples /\ asked'[j] = NNodes + Len(live'[j]) + i'[j] - 1
    <3>1. CASE i[j] < Len(live[j]) /\ i'[j] = i[j] + 1 /\ pc'[j] = "work"
      BY <1>13, <2>5, <3>1
    <3>2. CASE i[j] >= Len(live[j]) /\ i'[j] = 1 /\ pc'[j] = next
      BY <1>13, <2>2, <2>5, <3>2, SMTT(30)
    <3> QED
      BY <2>6, <3>1, <3>2
  <2>7. /\ live' \in [Jobs -> Seq(Up)] /\ rows' \in [Jobs -> Seq(Row)]
        /\ \A o \in Jobs \ {j} : live'[o] = live[o]
    BY <1>1, <2>1
  <2> QED
    BY <2>4, <2>7, <2>8
<1>9. ASSUME pc[j] = "run" PROVE After
  <2>1. /\ live' = live /\ Loop(j, Samples, "done")
        /\ rows' = [rows EXCEPT ![j] = Append(@, [node |-> Target(j), ok |-> says.ok, by |-> by])]
    BY <1>3, <1>9
  <2>2. "done" \in Places
    BY DEF Places
  <2>3. /\ pc' \in [Jobs -> Places] /\ i' \in [Jobs -> Nat]
        /\ \A o \in Jobs \ {j} : pc'[o] = pc[o] /\ i'[o] = i[o]
        /\ \/ i[j] < Samples /\ i'[j] = i[j] + 1 /\ pc'[j] = pc[j]
           \/ i[j] >= Samples /\ i'[j] = 1 /\ pc'[j] = "done"
    BY <1>1, <1>2, <2>1, <2>2, LoopFact
  <2>4. rows' \in [Jobs -> Seq(Row)]
    <3> DEFINE r == [node |-> Target(j), ok |-> says.ok, by |-> by]
    <3>1. r \in Row
      BY <1>9, TargetFact DEF Row
    <3>2. rows' = [rows EXCEPT ![j] = Append(@, r)]
      BY <2>1
    <3> HIDE DEF r
    <3> QED
      BY <1>1, <3>1, <3>2
  <2>5. /\ i[j] <= Samples /\ Len(live[j]) \in 1 .. NNodes
        /\ asked'[j] = NNodes + Len(live[j]) + i[j] /\ Len(live'[j]) = Len(live[j])
    BY <1>13, <1>5, <1>6, <1>9, <2>1
  <2>6. i'[j] \in Nat /\ \/ i[j] < Samples /\ i'[j] = i[j] + 1 /\ pc'[j] = "run"
                         \/ i[j] >= Samples /\ i'[j] = 1 /\ pc'[j] = "done"
    BY <1>9, <1>13, <2>3
  <2>8. /\ asked'[j] <= 2 * NNodes + Samples /\ i'[j] \in 1 .. Longest /\ pc'[j] # "new"
        /\ pc'[j] = "live" => i'[j] <= NNodes /\ Len(live'[j]) < i'[j] /\ asked'[j] = i'[j] - 1
        /\ pc'[j] \in {"work", "run"} => Len(live'[j]) \in 1 .. NNodes
        /\ pc'[j] = "work" => i'[j] <= Len(live'[j]) /\ asked'[j] = NNodes + i'[j] - 1
        /\ pc'[j] = "run" => i'[j] <= Samples /\ asked'[j] = NNodes + Len(live'[j]) + i'[j] - 1
    <3>1. CASE i[j] < Samples /\ i'[j] = i[j] + 1 /\ pc'[j] = "run"
      BY <1>13, <2>5, <3>1, Z3T(30)
    <3>2. CASE i[j] >= Samples /\ i'[j] = 1 /\ pc'[j] = "done"
      BY <1>13, <2>5, <3>2
    <3> QED
      BY <2>6, <3>1, <3>2
  <2>7. live' \in [Jobs -> Seq(Up)] /\ \A o \in Jobs \ {j} : live'[o] = live[o]
    BY <1>1, <2>1
  <2> QED
    BY <2>3, <2>4, <2>7, <2>8
<1>10. After
  BY <1>7, <1>8, <1>9
<1> HIDE DEF After
<1>11. JobsOK'
  <2>1. asked' \in [Jobs -> 0 .. 2 * NNodes + Samples] /\ i' \in [Jobs -> 1 .. Longest]
    <3>1. i'[j] \in 1 .. Longest /\ asked'[j] \in 0 .. 2 * NNodes + Samples
      BY <1>1, <1>5, <1>10 DEF After
    <3>2. /\ i' \in [Jobs -> Nat] /\ asked' \in [Jobs -> Nat]
          /\ \A o \in Jobs \ {j} : i'[o] = i[o] /\ asked'[o] = asked[o]
      BY <1>5, <1>10 DEF After
    <3> QED
      BY <1>1, <3>1, <3>2
  <2>2. Longest' = Longest /\ work' \in [Jobs -> Asks \cup {NoWork}]
    BY DEF Longest, JobsOK
  <2> QED
    BY <1>4, <1>10, <2>1, <2>2 DEF JobsOK, After, Places, Row
<1>12. Progress'
  <2> SUFFICES ASSUME NEW o \in Jobs
               PROVE  /\ waits'[o] # 0 => waits'[o] = asked'[o] /\ pc'[o] \in {"live", "work", "run"}
                      /\ pc'[o] = "new" => i'[o] = 1 /\ live'[o] = <<>> /\ asked'[o] = 0
                      /\ pc'[o] # "new" => work'[o] \in Asks
                      /\ pc'[o] = "live" => /\ i'[o] <= NNodes /\ Len(live'[o]) < i'[o]
                                            /\ Past(o)' = i'[o] - 1
                      /\ pc'[o] \in {"work", "run"} => Len(live'[o]) \in 1 .. NNodes
                      /\ pc'[o] = "work" => i'[o] <= Len(live'[o]) /\ Past(o)' = NNodes + i'[o] - 1
                      /\ pc'[o] = "run" => /\ i'[o] <= Samples
                                           /\ Past(o)' = NNodes + Len(live'[o]) + i'[o] - 1
    BY DEF Progress
  <2>1. CASE o = j
    <3>1. Past(o)' = asked'[j]
      BY <2>1, <1>4 DEF Past
    <3> QED
      BY <1>4, <1>5, <1>6, <1>10, <2>1, <3>1 DEF After
  <2>2. CASE o # j
    <3>1. Past(o)' = Past(o)
      BY <2>2, <1>4, <1>5 DEF Past
    <3>2. pc'[o] = pc[o] /\ i'[o] = i[o] /\ live'[o] = live[o]
      BY <1>10, <2>2 DEF After
    <3> QED
      BY <1>4, <1>5, <2>2, <3>1, <3>2 DEF Progress
  <2> QED
    BY <2>1, <2>2
<1> QED
  BY <1>4, <1>5, <1>10, <1>11, <1>12 DEF After

-----------------------------------------------------------------------------
(* The threads *)

\* A thread that moves on stays the same request.
SameRequest(t, u) ==
    u.job = t.job /\ u.k = t.k /\ u.node = t.node /\ u.op = t.op /\ u.model = t.model

\* A thread inside a chip is the one the lock names.
LEMMA HolderFact ==
  ASSUME TypeOK, LockAccounted, NEW t \in threads, Inside(t)
  PROVE  lock[t.node] = Id(t) /\ lock[t.node] # Free /\ t.node \in Nodes
<1>1. t \in Threads /\ t.node \in Nodes
  BY DEF TypeOK, Threads
<1>2. Id(t) \in {Id(u) : u \in {v \in threads : v.node = t.node /\ Inside(v)}}
  OBVIOUS
<1>3. lock[t.node] # Free /\ Id(t) \in {lock[t.node]}
  BY <1>1, <1>2 DEF LockAccounted
<1> QED
  BY <1>1, <1>3

\* Two threads are never inside one chip.
LEMMA OneInside ==
  ASSUME TypeOK, LockAccounted, Outstanding, NEW t \in threads, NEW u \in threads,
         Inside(t), Inside(u), t.node = u.node
  PROVE  t = u
  BY HolderFact DEF Outstanding

\* What a thread does to the requests and the jobs: nothing.
LEMMA StepKeeps ==
  ASSUME TypeOK, Progress, Outstanding, NEW t \in threads, NEW u \in Threads,
         SameRequest(t, u), Step(t, u)
  PROVE  /\ JobsOK' /\ Progress' /\ Outstanding' /\ threads' \subseteq Threads
         /\ threads' = (threads \ {t}) \cup {u}
<1>1. threads' = (threads \ {t}) \cup {u} /\ UNCHANGED jobVars
  BY DEF Step
<1>2. JobsOK'
  BY <1>1 DEF TypeOK, JobsOK, jobVars
<1>3. Progress'
  BY <1>1 DEF Progress, Past, jobVars
<1>4. threads' \subseteq Threads
  BY <1>1 DEF TypeOK
<1>5. \A j \in Jobs : Target(j)' = Target(j)
  BY <1>1 DEF Target, jobVars
<1>6. t \in Threads
  BY DEF TypeOK
<1>7. t.job \in Jobs /\ t.k \in 1 .. asked[t.job]
  BY <1>6 DEF Threads, Outstanding
<1>8. \A v \in threads' : /\ v.k \in 1 .. asked'[v.job]
                          /\ v.k = waits'[v.job] => v.node = Target(v.job)'
  <2> SUFFICES ASSUME NEW v \in threads'
               PROVE  /\ v.k \in 1 .. asked'[v.job]
                      /\ v.k = waits'[v.job] => v.node = Target(v.job)'
    OBVIOUS
  <2>1. PICK w \in threads : w.job = v.job /\ w.k = v.k /\ w.node = v.node
    BY <1>1 DEF SameRequest
  <2>2. w.job \in Jobs
    BY DEF TypeOK, Threads
  <2>3. Target(v.job)' = Target(w.job) /\ asked' = asked /\ waits' = waits
    BY <1>1, <1>5, <2>1, <2>2 DEF jobVars
  <2> QED
    BY <2>1, <2>3 DEF Outstanding
<1>9. \A v, w \in threads' : Id(v) = Id(w) => v = w
  BY <1>1 DEF Outstanding, Id, SameRequest
<1> QED
  BY <1>1, <1>2, <1>3, <1>4, <1>8, <1>9 DEF Outstanding

-----------------------------------------------------------------------------
(* The lock *)

Occupants(n) == {t \in threads : t.node = n /\ Inside(t)}

\* A thread that neither enters nor leaves its chip leaves the accounting as it is.
LEMMA LockSame ==
  ASSUME LockAccounted, NEW t \in threads, NEW u, SameRequest(t, u),
         threads' = (threads \ {t}) \cup {u}, lock' = lock, Inside(u) <=> Inside(t)
  PROVE  LockAccounted'
<1> SUFFICES ASSUME NEW n \in Nodes
             PROVE  {Id(v) : v \in Occupants(n)'} = {Id(v) : v \in Occupants(n)}
  BY DEF LockAccounted, Occupants, Id, Inside
<1>1. \A v \in Occupants(n)' : \E w \in Occupants(n) : Id(v) = Id(w)
  BY DEF Occupants, SameRequest, Id, Inside
<1>2. \A v \in Occupants(n) : \E w \in Occupants(n)' : Id(v) = Id(w)
  BY DEF Occupants, SameRequest, Id, Inside
<1> QED
  BY <1>1, <1>2

\* The lock of a chip is taken when nobody is inside.
LEMMA LockEnter ==
  ASSUME TypeOK, LockAccounted, NEW t \in threads, NEW u, SameRequest(t, u),
         threads' = (threads \ {t}) \cup {u}, ~Inside(t), Inside(u), lock[t.node] = Free,
         lock' = [lock EXCEPT ![t.node] = Id(t)]
  PROVE  LockAccounted'
<1>0. t.node \in Nodes /\ lock \in [Nodes -> {Free} \cup (Jobs \X Nat)] /\ Id(t) # Free
  BY DEF TypeOK, ChipsOK, Threads, Id, Free
<1>1. Occupants(t.node) = {}
  BY <1>0, HolderFact DEF Occupants
<1>2. Occupants(t.node)' = {u}
  <2>1. \A v \in threads : v.node = t.node => ~Inside(v)
    BY <1>1 DEF Occupants
  <2>2. u \in threads' /\ u.node = t.node /\ Inside(u)
    BY DEF SameRequest
  <2>3. \A v \in threads' : v \in threads \/ v = u
    OBVIOUS
  <2> QED
    BY <2>1, <2>2, <2>3 DEF Occupants, Inside
<1>3. \A n \in Nodes \ {t.node} : Occupants(n)' = Occupants(n)
  BY DEF Occupants, SameRequest, Inside
<1>4. Id(u) = Id(t)
  BY DEF SameRequest, Id
<1> SUFFICES ASSUME NEW n \in Nodes
             PROVE  {Id(v) : v \in Occupants(n)'} = IF lock'[n] = Free THEN {} ELSE {lock'[n]}
  BY DEF LockAccounted, Occupants, Id, Inside
<1>5. CASE n = t.node
  <2>1. lock'[n] = Id(t)
    BY <1>0, <1>5
  <2>2. {Id(v) : v \in Occupants(n)'} = {Id(u)}
    BY <1>2, <1>5
  <2> QED
    BY <1>0, <1>4, <2>1, <2>2
<1>6. CASE n # t.node
  <2>1. lock'[n] = lock[n]
    BY <1>0, <1>6
  <2>2. {Id(v) : v \in Occupants(n)} = IF lock[n] = Free THEN {} ELSE {lock[n]}
    BY DEF LockAccounted, Occupants
  <2> QED
    BY <1>3, <1>6, <2>1, <2>2
<1> QED
  BY <1>5, <1>6

\* The thread that leaves a chip was alone inside.
LEMMA LockLeave ==
  ASSUME TypeOK, Outstanding, LockAccounted, NEW t \in threads, NEW u, SameRequest(t, u),
         threads' = (threads \ {t}) \cup {u}, Inside(t), ~Inside(u), Unlock(t.node)
  PROVE  LockAccounted'
<1>0. t.node \in Nodes /\ lock \in [Nodes -> {Free} \cup (Jobs \X Nat)]
  BY DEF TypeOK, ChipsOK, Threads
<1>1. \A v \in Occupants(t.node) : v = t
  BY OneInside DEF Occupants
<1>2. Occupants(t.node)' = {}
  BY <1>1 DEF Occupants, SameRequest, Inside
<1>3. \A n \in Nodes \ {t.node} : Occupants(n)' = Occupants(n)
  BY DEF Occupants, SameRequest, Inside
<1> SUFFICES ASSUME NEW n \in Nodes
             PROVE  {Id(v) : v \in Occupants(n)'} = IF lock'[n] = Free THEN {} ELSE {lock'[n]}
  BY DEF LockAccounted, Occupants, Id, Inside
<1>4. CASE n = t.node
  <2>1. lock'[n] = Free
    BY <1>0, <1>4 DEF Unlock
  <2>2. {Id(v) : v \in Occupants(n)'} = {}
    BY <1>2, <1>4
  <2> QED
    BY <2>1, <2>2
<1>5. CASE n # t.node
  <2>1. lock'[n] = lock[n]
    BY <1>0, <1>5 DEF Unlock
  <2>2. {Id(v) : v \in Occupants(n)} = IF lock[n] = Free THEN {} ELSE {lock[n]}
    BY DEF LockAccounted, Occupants
  <2> QED
    BY <1>3, <1>5, <2>1, <2>2
<1> QED
  BY <1>4, <1>5

-----------------------------------------------------------------------------
(* The actions of the dashboard *)

\* What the actions of the jobs leave as it is: the chips, their locks, and the
\* truth of every answer under way.
LEMMA ChipsKeep ==
  ASSUME ChipsOK, LockAccounted, ChipTruthful, HandTruthful, ReplyTruthful,
         UNCHANGED <<chipVars, lock>>,
         \A t \in threads' : t \in threads \/ t.at = "start",
         \A t \in threads : t \in threads' \/ t.at = "send"
  PROVE  ChipsOK' /\ LockAccounted' /\ ChipTruthful' /\ HandTruthful' /\ ReplyTruthful'
<1>1. ChipsOK'
  BY DEF ChipsOK, chipVars
<1>2. LockAccounted'
  <2>1. \A n \in Nodes : Occupants(n)' = Occupants(n)
    BY DEF Occupants, Inside
  <2> SUFFICES ASSUME NEW n \in Nodes
               PROVE  {Id(v) : v \in Occupants(n)'} = IF lock'[n] = Free THEN {} ELSE {lock'[n]}
    BY DEF LockAccounted, Occupants, Id, Inside
  <2> QED
    BY <2>1 DEF LockAccounted, Occupants
<1>3. ChipTruthful'
  BY DEF ChipTruthful, chipVars
<1>4. HandTruthful'
  <2>1. model' = model /\ onChip' = onChip
    BY DEF chipVars
  <2>2. ASSUME NEW t \in threads' PROVE HandTrue(t)'
    <3>1. CASE t.at = "start"
      BY <3>1 DEF HandTrue
    <3>2. CASE t \in threads
      <4>1. HandTrue(t)
        BY <3>2 DEF HandTruthful
      <4> QED
        BY <2>1, <4>1 DEF HandTrue, Says
    <3> QED
      BY <3>1, <3>2
  <2> QED
    BY <2>2 DEF HandTruthful
<1>5. ReplyTruthful'
  <2>1. \A t \in threads' : t.at = "send" => t \in threads
    OBVIOUS
  <2> QED
    BY <2>1 DEF ReplyTruthful
<1> QED
  BY <1>1, <1>2, <1>3, <1>4, <1>5

LEMMA BeginInv == ASSUME IInv, NEW j \in Jobs, Begin(j) PROVE IInv'
<1>0. TypeOK /\ Progress /\ Outstanding /\ JobsOK /\ ChipsOK
  BY DEF IInv, TypeOK
<1>1. /\ pc[j] = "new" /\ pc' = [pc EXCEPT ![j] = "live"]
      /\ UNCHANGED <<chipVars, lock, threads, i, live, asked, waits, rows>>
  BY DEF Begin
<1>2. PICK w \in Asks : work' = [work EXCEPT ![j] = w]
  BY DEF Begin
<1>3. JobsOK'
  BY <1>0, <1>1, <1>2 DEF JobsOK, Longest
<1>4. i[j] = 1 /\ live[j] = <<>> /\ asked[j] = 0 /\ waits[j] = 0
  BY <1>0, <1>1 DEF Progress
<1>5. Progress'
  <2> SUFFICES ASSUME NEW o \in Jobs
               PROVE  /\ waits'[o] # 0 => waits'[o] = asked'[o] /\ pc'[o] \in {"live", "work", "run"}
                      /\ pc'[o] = "new" => i'[o] = 1 /\ live'[o] = <<>> /\ asked'[o] = 0
                      /\ pc'[o] # "new" => work'[o] \in Asks
                      /\ pc'[o] = "live" => /\ i'[o] <= NNodes /\ Len(live'[o]) < i'[o]
                                            /\ Past(o)' = i'[o] - 1
                      /\ pc'[o] \in {"work", "run"} => Len(live'[o]) \in 1 .. NNodes
                      /\ pc'[o] = "work" => i'[o] <= Len(live'[o]) /\ Past(o)' = NNodes + i'[o] - 1
                      /\ pc'[o] = "run" => /\ i'[o] <= Samples
                                           /\ Past(o)' = NNodes + Len(live'[o]) + i'[o] - 1
    BY DEF Progress
  <2>1. Past(o)' = Past(o)
    BY <1>1 DEF Past
  <2>2. CASE o = j
    BY <1>0, <1>1, <1>2, <1>4, <2>1, <2>2 DEF JobsOK, Past
  <2>3. CASE o # j
    <3>1. pc'[o] = pc[o] /\ work'[o] = work[o]
      BY <1>0, <1>1, <1>2, <2>3 DEF JobsOK
    <3> QED
      BY <1>0, <1>1, <2>1, <3>1 DEF Progress
  <2> QED
    BY <2>2, <2>3
<1>6. Outstanding'
  <2>1. ASSUME NEW t \in threads PROVE t.job # j
    BY <1>0, <1>4 DEF Outstanding
  <2>2. ASSUME NEW t \in threads PROVE Target(t.job)' = Target(t.job)
    <3>1. pc'[t.job] = pc[t.job]
      BY <1>0, <1>1, <2>1, <2>2 DEF JobsOK
    <3> QED
      BY <1>1, <3>1 DEF Target
  <2> QED
    BY <1>0, <1>1, <2>2 DEF Outstanding, Id
<1>7. ChipsOK' /\ LockAccounted' /\ ChipTruthful' /\ HandTruthful' /\ ReplyTruthful'
  BY <1>0, <1>1, ChipsKeep DEF IInv
<1>8. threads' \subseteq Threads
  BY <1>0, <1>1 DEF TypeOK
<1> QED
  BY <1>3, <1>5, <1>6, <1>7, <1>8 DEF IInv, TypeOK

\* Once the request of a job is over, no thread is the one it waits for.
LEMMA OutstandingAfter ==
  ASSUME TypeOK, Outstanding, JobsOK', NEW j \in Jobs, threads' \subseteq threads,
         waits'[j] = 0, asked'[j] >= asked[j],
         \A o \in Jobs \ {j} : /\ pc'[o] = pc[o] /\ i'[o] = i[o] /\ live'[o] = live[o]
                               /\ waits'[o] = waits[o] /\ asked'[o] = asked[o]
  PROVE  Outstanding'
<1>1. ASSUME NEW t \in threads'
      PROVE  t.k \in 1 .. asked'[t.job] /\ (t.k = waits'[t.job] => t.node = Target(t.job)')
  <2>1. t \in threads /\ t.job \in Jobs
    BY DEF TypeOK, Threads
  <2>2. t.k \in 1 .. asked[t.job] /\ (t.k = waits[t.job] => t.node = Target(t.job))
    BY <2>1 DEF Outstanding
  <2>3. CASE t.job = j
    <3>1. asked[j] \in Nat /\ asked'[j] \in Nat
      BY DEF TypeOK, JobsOK
    <3> QED
      BY <2>2, <2>3, <3>1
  <2>4. CASE t.job # j
    <3>1. Target(t.job)' = Target(t.job)
      BY <2>1, <2>4 DEF Target
    <3> QED
      BY <2>1, <2>2, <2>4, <3>1
  <2> QED
    BY <2>3, <2>4
<1>2. \A t, u \in threads' : Id(t) = Id(u) => t = u
  BY DEF Outstanding
<1> QED
  BY <1>1, <1>2 DEF Outstanding, Id

LEMMA AskInv == ASSUME IInv, NEW j \in Jobs, Ask(j) PROVE IInv'
<1>0. TypeOK /\ Progress /\ Outstanding /\ JobsOK /\ ChipsOK /\ threads \subseteq Threads
  BY DEF IInv, TypeOK
<1>1. /\ pc[j] \in {"live", "work", "run"} /\ waits[j] = 0
      /\ asked' = [asked EXCEPT ![j] = @ + 1] /\ UNCHANGED <<work, chipVars, lock>>
  BY DEF Ask
<1>2. CASE Target(j) \in Up
  <2> DEFINE new == [job |-> j, k |-> asked'[j], node |-> Target(j), op |-> Op(j),
                     model |-> work[j].model, at |-> "start", by |-> NoObject, says |-> Failure]
  <2>1. /\ threads' = threads \cup {new} /\ waits' = [waits EXCEPT ![j] = asked'[j]]
        /\ UNCHANGED <<pc, i, live, rows>>
    BY <1>2 DEF Ask
  <2>2. /\ asked \in [Jobs -> Nat] /\ waits \in [Jobs -> Nat] /\ asked'[j] = asked[j] + 1
        /\ \A o \in Jobs \ {j} : asked'[o] = asked[o] /\ waits'[o] = waits[o]
        /\ waits'[j] = asked'[j] /\ asked' \in [Jobs -> Nat] /\ waits' \in [Jobs -> Nat]
    BY <1>0, <1>1, <2>1 DEF JobsOK
  <2>3. Past(j) = asked[j] /\ asked[j] < 2 * NNodes + Samples
    <3>1. Past(j) = asked[j] /\ i[j] \in Nat \ {0} /\ Len(live[j]) \in Nat
      BY <1>0, <1>1 DEF Past, JobsOK
    <3>2. CASE pc[j] = "live"
      <4>1. i[j] <= NNodes /\ asked[j] = i[j] - 1
        BY <1>0, <3>1, <3>2 DEF Progress
      <4> QED
        BY <3>1, <4>1
    <3>3. CASE pc[j] = "work"
      <4>1. i[j] <= Len(live[j]) /\ Len(live[j]) <= NNodes /\ asked[j] = NNodes + i[j] - 1
        BY <1>0, <3>1, <3>3 DEF Progress
      <4> QED
        BY <3>1, <4>1
    <3>4. CASE pc[j] = "run"
      <4>1. i[j] <= Samples /\ Len(live[j]) <= NNodes /\ asked[j] = NNodes + Len(live[j]) + i[j] - 1
        BY <1>0, <3>1, <3>4 DEF Progress
      <4> QED
        BY <3>1, <4>1
    <3> QED
      BY <1>1, <3>2, <3>3, <3>4
  <2>4. JobsOK'
    <3>1. asked' \in [Jobs -> 0 .. 2 * NNodes + Samples]
      <4>1. ASSUME NEW o \in Jobs PROVE asked'[o] \in 0 .. 2 * NNodes + Samples
        <5>1. CASE o = j
          BY <2>2, <2>3, <5>1
        <5>2. CASE o # j
          BY <1>0, <2>2, <5>2 DEF JobsOK
        <5> QED
          BY <5>1, <5>2
      <4> QED
        BY <2>2, <4>1
    <3> QED
      BY <1>0, <1>1, <2>1, <2>2, <3>1 DEF JobsOK, Longest
  <2>5. Progress'
    <3>1. ASSUME NEW o \in Jobs PROVE Past(o)' = Past(o)
      <4>1. CASE o = j
        BY <2>2, <2>3, <4>1 DEF Past
      <4>2. CASE o # j
        BY <2>2, <4>2 DEF Past
      <4> QED
        BY <4>1, <4>2
    <3>2. pc' = pc /\ i' = i /\ live' = live /\ work' = work
      BY <1>1, <2>1
    <3>3. ASSUME NEW o \in Jobs
          PROVE  /\ waits'[o] # 0 => waits'[o] = asked'[o] /\ pc[o] \in {"live", "work", "run"}
                 /\ pc[o] = "new" => asked'[o] = 0
      <4>1. CASE o = j
        BY <1>1, <2>2, <4>1
      <4>2. CASE o # j
        BY <1>0, <2>2, <4>2 DEF Progress
      <4> QED
        BY <4>1, <4>2
    <3> QED
      BY <1>0, <3>1, <3>2, <3>3 DEF Progress
  <2>6. Outstanding'
    <3>1. ASSUME NEW t \in threads
          PROVE  /\ t.k \in 1 .. asked'[t.job] /\ Id(t) # Id(new)
                 /\ (t.k = waits'[t.job] => t.node = Target(t.job)')
      <4>1. t.job \in Jobs /\ t.k \in 1 .. asked[t.job]
        BY <1>0 DEF Threads, Outstanding
      <4>2. Target(t.job)' = Target(t.job)
        BY <2>1 DEF Target
      <4>3. CASE t.job = j
        <5>1. t.k < asked'[j]
          BY <2>2, <4>1, <4>3
        <5>2. Id(t) # Id(new)
          BY <5>1, <4>1, <2>2 DEF Id
        <5> QED
          BY <2>2, <4>1, <4>3, <5>1, <5>2
      <4>4. CASE t.job # j
        <5>1. Id(t) # Id(new)
          BY <4>4 DEF Id
        <5> QED
          BY <1>0, <2>2, <4>1, <4>2, <4>4, <5>1 DEF Outstanding
      <4> QED
        BY <4>3, <4>4
    <3>2. new.job = j /\ new.k = asked'[j] /\ new.node = Target(j)' /\ new.k \in 1 .. asked'[j]
      <4>1. new.job = j /\ new.k = asked'[j] /\ new.node = Target(j)
        OBVIOUS
      <4>2. Target(j)' = Target(j)
        BY <2>1 DEF Target
      <4>3. asked'[j] \in 1 .. asked'[j]
        BY <2>2
      <4> HIDE DEF new
      <4> QED
        BY <4>1, <4>2, <4>3
    <3> HIDE DEF new
    <3>3. ASSUME NEW t \in threads' PROVE t \in threads \/ t = new
      BY <2>1
    <3>4. \A t, u \in threads : Id(t) = Id(u) => t = u
      BY <1>0 DEF Outstanding
    <3>5. \A t, u \in threads' : Id(t) = Id(u) => t = u
      BY <3>1, <3>3, <3>4
    <3>6. \A t \in threads' : /\ t.k \in 1 .. asked'[t.job]
                              /\ t.k = waits'[t.job] => t.node = Target(t.job)'
      <4>1. ASSUME NEW t \in threads'
            PROVE  t.k \in 1 .. asked'[t.job] /\ (t.k = waits'[t.job] => t.node = Target(t.job)')
        <5>1. CASE t \in threads
          BY <3>1, <5>1
        <5>2. CASE t = new
          <6>1. t.job = j
            BY <3>2, <5>2
          <6> QED
            BY <3>2, <5>2, <6>1
        <5> QED
          BY <3>3, <5>1, <5>2
      <4> QED
        BY <4>1
    <3> QED
      BY <3>5, <3>6 DEF Outstanding, Id
  <2>7. new \in Threads
    <3>1. work[j].model \in Models
      BY <1>0, <1>1, AskFact
    <3>2. Op(j) \in {"health", "load", "unload", "infer"}
      BY <1>1 DEF Op
    <3>3. Failure \in Replies
      BY DEF Failure, Replies, Names
    <3> QED
      BY <1>2, <2>2, <3>1, <3>2, <3>3 DEF Threads
  <2>8. ChipsOK' /\ LockAccounted' /\ ChipTruthful' /\ HandTruthful' /\ ReplyTruthful'
    <3>1. \A t \in threads' : t \in threads \/ t.at = "start"
      BY <2>1
    <3>2. \A t \in threads : t \in threads'
      BY <2>1
    <3> QED
      BY <1>0, <1>1, <3>1, <3>2, ChipsKeep DEF IInv
  <2> QED
    BY <1>0, <2>1, <2>4, <2>5, <2>6, <2>7, <2>8 DEF IInv, TypeOK
<1>3. CASE Target(j) \notin Up
  <2>1. Receive(j, Failure, NoObject) /\ threads' = threads
    BY <1>3 DEF Ask
  <2>2. Failure.ok = FALSE /\ Failure.ok \in BOOLEAN
    BY DEF Failure
  <2>3. /\ JobsOK' /\ Progress' /\ waits'[j] = 0 /\ asked'[j] >= asked[j]
        /\ \A o \in Jobs \ {j} : /\ pc'[o] = pc[o] /\ i'[o] = i[o] /\ live'[o] = live[o]
                                  /\ waits'[o] = waits[o] /\ asked'[o] = asked[o]
    <3> DEFINE says == Failure  by == NoObject
    <3>1. says.ok \in BOOLEAN /\ by \in Objects \cup {NoObject} /\ Receive(j, says, by)
      BY <2>1, <2>2
    <3>2. ~(says.ok /\ pc[j] = "live")
      BY <2>2
    <3>3. work' = work /\ Counted(j)
      BY <1>1 DEF Counted
    <3> HIDE DEF says, by
    <3> QED
      BY <1>0, <1>1, <3>1, <3>2, <3>3, ReceiveKeeps
  <2>4. Outstanding'
    BY <1>0, <2>1, <2>3, OutstandingAfter
  <2>5. ChipsOK' /\ LockAccounted' /\ ChipTruthful' /\ HandTruthful' /\ ReplyTruthful'
    BY <1>0, <1>1, <2>1, ChipsKeep DEF IInv
  <2> QED
    BY <1>0, <2>1, <2>3, <2>4, <2>5 DEF IInv, TypeOK
<1> QED
  BY <1>2, <1>3

LEMMA GiveUpInv == ASSUME IInv, NEW j \in Jobs, GiveUp(j) PROVE IInv'
<1>0. TypeOK /\ Progress /\ Outstanding /\ JobsOK /\ ChipsOK /\ threads \subseteq Threads
  BY DEF IInv, TypeOK
<1>1. /\ waits[j] # 0 /\ Receive(j, Failure, NoObject)
      /\ UNCHANGED <<work, chipVars, lock, threads, asked>>
  BY DEF GiveUp
<1>2. pc[j] \in {"live", "work", "run"}
  BY <1>0, <1>1 DEF Progress
<1>3. Failure.ok = FALSE /\ Failure.ok \in BOOLEAN /\ Counted(j)
  BY <1>1 DEF Failure, Counted
<1>4. /\ JobsOK' /\ Progress' /\ waits'[j] = 0 /\ asked'[j] >= asked[j]
      /\ \A o \in Jobs \ {j} : /\ pc'[o] = pc[o] /\ i'[o] = i[o] /\ live'[o] = live[o]
                                /\ waits'[o] = waits[o] /\ asked'[o] = asked[o]
  BY <1>0, <1>1, <1>2, <1>3, ReceiveKeeps
<1>5. Outstanding'
  BY <1>0, <1>1, <1>4, OutstandingAfter
<1>6. ChipsOK' /\ LockAccounted' /\ ChipTruthful' /\ HandTruthful' /\ ReplyTruthful'
  BY <1>0, <1>1, ChipsKeep DEF IInv
<1> QED
  BY <1>0, <1>1, <1>4, <1>5, <1>6 DEF IInv, TypeOK

LEMMA SendInv == ASSUME IInv, NEW t \in threads, Send(t) PROVE IInv'
<1>0. TypeOK /\ Progress /\ Outstanding /\ JobsOK /\ ChipsOK /\ threads \subseteq Threads
  BY DEF IInv, TypeOK
<1>1. /\ t.at = "send" /\ threads' = threads \ {t}
      /\ UNCHANGED <<work, chipVars, lock, asked>>
  BY DEF Send
<1>2. t.job \in Jobs /\ t.k \in 1 .. asked[t.job] /\ asked[t.job] \in Nat /\ t.node \in Up
  BY <1>0 DEF Threads, Outstanding, JobsOK
<1>3. ChipsOK' /\ LockAccounted' /\ ChipTruthful' /\ HandTruthful' /\ ReplyTruthful'
  <2>1. \A u \in threads' : u \in threads
    BY <1>1
  <2>2. \A u \in threads : u \in threads' \/ u.at = "send"
    BY <1>1
  <2> QED
    BY <1>0, <1>1, <2>1, <2>2, ChipsKeep DEF IInv
<1>4. CASE waits[t.job] = t.k
  <2> DEFINE j == t.job
  <2>1. Receive(j, t.says, t.by) /\ j \in Jobs /\ waits[j] # 0
    BY <1>2, <1>4 DEF Send
  <2>2. pc[j] \in {"live", "work", "run"} /\ t.node = Target(j)
    BY <1>0, <1>4, <2>1 DEF Progress, Outstanding
  <2>3. t.says.ok \in BOOLEAN /\ t.by \in Objects \cup {NoObject} /\ Counted(j)
    BY <1>0, <1>1, <2>1 DEF Threads, Replies, Counted
  <2>4. pc[j] = "live" => i[j] \in Up
    BY <1>0, <1>2, <2>1, <2>2, TargetFact
  <2> HIDE DEF j
  <2>5. /\ JobsOK' /\ Progress' /\ waits'[j] = 0 /\ asked'[j] >= asked[j]
        /\ \A o \in Jobs \ {j} : /\ pc'[o] = pc[o] /\ i'[o] = i[o] /\ live'[o] = live[o]
                                  /\ waits'[o] = waits[o] /\ asked'[o] = asked[o]
    BY <1>0, <1>1, <2>1, <2>2, <2>3, <2>4, ReceiveKeeps
  <2>6. Outstanding'
    BY <1>0, <1>1, <2>1, <2>5, OutstandingAfter
  <2> QED
    BY <1>0, <1>1, <1>3, <2>5, <2>6 DEF IInv, TypeOK
<1>5. CASE waits[t.job] # t.k
  <2>1. UNCHANGED <<pc, i, live, waits, rows>>
    BY <1>5 DEF Send
  <2>2. JobsOK' /\ Progress'
    BY <1>0, <1>1, <2>1 DEF JobsOK, Progress, Past, Longest
  <2>3. Outstanding'
    BY <1>0, <1>1, <2>1 DEF Outstanding, Target, Id
  <2> QED
    BY <1>0, <1>1, <1>3, <2>2, <2>3 DEF IInv, TypeOK
<1> QED
  BY <1>4, <1>5

-----------------------------------------------------------------------------
(* The actions of the nodes *)

\* What ReplyTruthful asks of one thread, and ChipTruthful of one node.
ReplyTrue(t) ==
    t.at = "send" /\ t.says.ok =>
        /\ t.op = "infer" => t.says = Says(t.by.name, t.by.hw)
        /\ t.op = "load"  => t.says = Says(t.model, <<t.node, t.model>> \in Maps)
Binding(n)  == \E t \in threads : t.node = n /\ t.at = "bind"
ChipTrue(n) == stem[n] = model[n].name /\ (onChip[n] = model[n].hw \/ Binding(n))

LEMMA TruthUnfolds ==
  /\ ReplyTruthful <=> \A t \in threads : ReplyTrue(t)
  /\ ChipTruthful <=> \A n \in Nodes : ChipTrue(n)
  BY DEF ReplyTruthful, ReplyTrue, ChipTruthful, ChipTrue, Binding

LEMMA ReplyKeeps ==
  ASSUME ReplyTruthful, NEW t, NEW u, threads' = (threads \ {t}) \cup {u}, ReplyTrue(u)
  PROVE  ReplyTruthful'
<1>1. \A v \in threads' : ReplyTrue(v)
  BY TruthUnfolds
<1> QED
  BY <1>1 DEF ReplyTruthful, ReplyTrue

\* A step that does not touch the chip, by a thread that is not inside Chip.load.
LEMMA QuietStep ==
  ASSUME ChipTruthful, HandTruthful, ReplyTruthful, NEW t \in threads, NEW u,
         threads' = (threads \ {t}) \cup {u}, UNCHANGED chipVars, t.at # "bind",
         HandTrue(u), ReplyTrue(u)
  PROVE  ChipTruthful' /\ HandTruthful' /\ ReplyTruthful'
<1>1. ReplyTruthful'
  BY ReplyKeeps
<1>2. HandTruthful'
  <2>1. \A v \in threads' : HandTrue(v)
    BY DEF HandTruthful
  <2>2. \A v : HandTrue(v) => HandTrue(v)'
    BY DEF HandTrue, chipVars, Says
  <2> QED
    BY <2>1, <2>2 DEF HandTruthful
<1>3. ChipTruthful'
  <2>1. \A n : Binding(n) => Binding(n)'
    BY DEF Binding
  <2>2. model' = model /\ stem' = stem /\ onChip' = onChip
    BY DEF chipVars
  <2>3. \A n \in Nodes : ChipTrue(n)
    BY TruthUnfolds
  <2>4. \A n \in Nodes : ChipTrue(n)'
    BY <2>1, <2>2, <2>3 DEF ChipTrue
  <2> QED
    BY <2>4 DEF ChipTruthful, ChipTrue, Binding
<1> QED
  BY <1>1, <1>2, <1>3

\* A step of the thread inside a chip does not show at another node.
LEMMA ChipStep ==
  ASSUME TypeOK, Outstanding, LockAccounted, ChipTruthful, HandTruthful, ReplyTruthful,
         NEW t \in threads, NEW u, SameRequest(t, u), Inside(t),
         threads' = (threads \ {t}) \cup {u},
         \A n \in Nodes \ {t.node} :
             model'[n] = model[n] /\ stem'[n] = stem[n] /\ onChip'[n] = onChip[n],
         HandTrue(u)', ReplyTrue(u), ChipTrue(t.node)'
  PROVE  ChipTruthful' /\ HandTruthful' /\ ReplyTruthful'
<1>1. ReplyTruthful'
  BY ReplyKeeps
<1>2. HandTruthful'
  <2>1. ASSUME NEW v \in threads, v # t PROVE HandTrue(v)'
    <3>1. CASE ~Inside(v)
      BY <3>1 DEF HandTrue, Inside
    <3>2. CASE Inside(v)
      <4>1. v.node # t.node /\ v.node \in Nodes
        BY <2>1, <3>2, OneInside, HolderFact
      <4>2. model'[v.node] = model[v.node] /\ onChip'[v.node] = onChip[v.node]
        BY <4>1
      <4>3. HandTrue(v)
        BY DEF HandTruthful
      <4> QED
        BY <4>2, <4>3 DEF HandTrue, Says
    <3> QED
      BY <3>1, <3>2
  <2> QED
    BY <2>1 DEF HandTruthful
<1>3. ChipTruthful'
  <2>1. ASSUME NEW n \in Nodes PROVE ChipTrue(n)'
    <3>1. CASE n = t.node
      BY <3>1
    <3>2. CASE n # t.node
      <4>1. ChipTrue(n)
        BY TruthUnfolds
      <4>2. Binding(n) => Binding(n)'
        BY <3>2 DEF Binding
      <4> QED
        BY <3>2, <4>1, <4>2 DEF ChipTrue
    <3> QED
      BY <3>1, <3>2
  <2> QED
    BY <2>1 DEF ChipTruthful, ChipTrue, Binding
<1> QED
  BY <1>1, <1>2, <1>3

\* The record of a thread that moves on, and of one that has its answer.
Moved(t, a)       == [t EXCEPT !.at = a]
Answered(t, says) == [t EXCEPT !.at = "send", !.says = says]

LEMMA MovedFact ==
  ASSUME NEW t \in Threads, NEW a \in {"start", "in", "bind", "forwarded", "send"}
  PROVE  /\ Moved(t, a) \in Threads /\ SameRequest(t, Moved(t, a)) /\ Moved(t, a).at = a
         /\ Moved(t, a).by = t.by /\ Moved(t, a).says = t.says
  BY DEF Threads, SameRequest, Moved

LEMMA AnsweredFact ==
  ASSUME NEW t \in Threads, NEW says \in Replies
  PROVE  /\ Answered(t, says) \in Threads /\ SameRequest(t, Answered(t, says))
         /\ Answered(t, says).at = "send" /\ Answered(t, says).says = says
         /\ Answered(t, says).by = t.by
  BY DEF Threads, SameRequest, Answered

\* The answers that are no answer, or say nothing of a model.
LEMMA SaysFact ==
  /\ Failure \in Replies /\ Failure.ok = FALSE
  /\ \A m \in Names, c \in BOOLEAN : Says(m, c) \in Replies
  BY DEF Failure, Replies, Names, Says

\* Outside the lock: a thread answers without touching chip or lock.
LEMMA OutsideKeeps ==
  ASSUME IInv, NEW t \in threads, NEW says \in Replies, Answer(t, says),
         UNCHANGED <<chipVars, lock>>, ~Inside(t),
         says.ok => t.op \in {"health", "unload"}
  PROVE  IInv'
<1>0. TypeOK /\ Progress /\ Outstanding /\ JobsOK /\ ChipsOK /\ t \in Threads
  BY DEF IInv, TypeOK
<1> DEFINE u == Answered(t, says)
<1>1. Step(t, u)
  BY DEF Answer, Answered
<1>2. u \in Threads /\ SameRequest(t, u) /\ u.at = "send" /\ u.says = says
  BY <1>0, AnsweredFact
<1> HIDE DEF u
<1>3. /\ JobsOK' /\ Progress' /\ Outstanding' /\ threads' \subseteq Threads
      /\ threads' = (threads \ {t}) \cup {u}
  BY <1>0, <1>1, <1>2, StepKeeps
<1>4. ~Inside(u) /\ HandTrue(u) /\ t.at # "bind"
  BY <1>2 DEF Inside, HandTrue
<1>5. ReplyTrue(u)
  BY <1>2 DEF ReplyTrue, SameRequest
<1>6. LockAccounted'
  BY <1>2, <1>3, <1>4, LockSame DEF IInv
<1>7. ChipTruthful' /\ HandTruthful' /\ ReplyTruthful'
  BY <1>3, <1>4, <1>5, QuietStep DEF IInv
<1>8. ChipsOK'
  BY <1>0 DEF ChipsOK, chipVars
<1> QED
  BY <1>3, <1>6, <1>7, <1>8 DEF IInv, TypeOK

LEMMA HealthInv == ASSUME IInv, NEW t \in threads, Health(t) PROVE IInv'
<1>0. ChipsOK /\ t \in Threads
  BY DEF IInv, TypeOK
<1>1. /\ t.op = "health" /\ t.at = "start" /\ UNCHANGED <<chipVars, lock>>
      /\ Answer(t, Says(stem[t.node], onChip[t.node]))
  BY DEF Health
<1>2. Says(stem[t.node], onChip[t.node]) \in Replies
  BY <1>0, SaysFact DEF ChipsOK, Threads
<1> QED
  BY <1>1, <1>2, OutsideKeeps DEF Inside

LEMMA NoDeviceInv == ASSUME IInv, NEW t \in threads, NoDevice(t) PROVE IInv'
<1>1. /\ t.op # "health" /\ t.at = "start" /\ UNCHANGED <<chipVars, lock>>
      /\ Answer(t, IF t.op = "unload" THEN Says(NoName, FALSE) ELSE Failure)
  BY DEF NoDevice
<1>2. ~Inside(t)
  BY <1>1 DEF Inside
<1>3. CASE t.op = "unload"
  <2>1. Says(NoName, FALSE) \in Replies /\ Answer(t, Says(NoName, FALSE))
    BY <1>1, <1>3, SaysFact DEF Names
  <2> QED
    BY <1>1, <1>2, <1>3, <2>1, OutsideKeeps
<1>4. CASE t.op # "unload"
  <2>1. Failure \in Replies /\ Failure.ok = FALSE /\ Answer(t, Failure)
    BY <1>1, <1>4, SaysFact
  <2> QED
    BY <1>1, <1>2, <2>1, OutsideKeeps
<1> QED
  BY <1>3, <1>4

LEMMA EnterChipInv == ASSUME IInv, NEW t \in threads, EnterChip(t) PROVE IInv'
<1>0. TypeOK /\ Progress /\ Outstanding /\ JobsOK /\ ChipsOK /\ t \in Threads
  BY DEF IInv, TypeOK
<1> DEFINE u == Moved(t, "in")
<1>1. /\ t.at = "start" /\ lock[t.node] = Free /\ lock' = [lock EXCEPT ![t.node] = Id(t)]
      /\ Step(t, u) /\ UNCHANGED chipVars
  BY DEF EnterChip, Moved
<1>2. u \in Threads /\ SameRequest(t, u) /\ u.at = "in"
  BY <1>0, MovedFact
<1> HIDE DEF u
<1>3. /\ JobsOK' /\ Progress' /\ Outstanding' /\ threads' \subseteq Threads
      /\ threads' = (threads \ {t}) \cup {u}
  BY <1>0, <1>1, <1>2, StepKeeps
<1>4. Inside(u) /\ ~Inside(t) /\ HandTrue(u) /\ ReplyTrue(u)
  BY <1>1, <1>2 DEF Inside, HandTrue, ReplyTrue
<1>5. LockAccounted'
  BY <1>0, <1>1, <1>2, <1>3, <1>4, LockEnter DEF IInv
<1>6. ChipTruthful' /\ HandTruthful' /\ ReplyTruthful'
  BY <1>1, <1>3, <1>4, QuietStep DEF IInv
<1>7. ChipsOK'
  <2>1. lock' \in [Nodes -> {Free} \cup (Jobs \X Nat)]
    BY <1>0, <1>1 DEF ChipsOK, Threads, Id
  <2> QED
    BY <1>0, <1>1, <2>1 DEF ChipsOK, chipVars
<1> QED
  BY <1>3, <1>5, <1>6, <1>7 DEF IInv, TypeOK

\* An exception inside the "with" block gives the lock back.
LEMMA RaiseInv ==
  ASSUME IInv, NEW t \in threads, Raise(t), t.at = "in"
  PROVE  IInv'
<1>0. TypeOK /\ Progress /\ Outstanding /\ JobsOK /\ ChipsOK /\ t \in Threads
  BY DEF IInv, TypeOK
<1> DEFINE u == Answered(t, Failure)
<1>1. Step(t, u) /\ Unlock(t.node) /\ UNCHANGED chipVars
  BY DEF Raise, Answer, Answered, Leave
<1>2. u \in Threads /\ SameRequest(t, u) /\ u.at = "send" /\ u.says = Failure
  BY <1>0, AnsweredFact, SaysFact
<1> HIDE DEF u
<1>3. /\ JobsOK' /\ Progress' /\ Outstanding' /\ threads' \subseteq Threads
      /\ threads' = (threads \ {t}) \cup {u}
  BY <1>0, <1>1, <1>2, StepKeeps
<1>4. ~Inside(u) /\ Inside(t) /\ t.at # "bind" /\ HandTrue(u) /\ ReplyTrue(u)
  BY <1>2, SaysFact DEF Inside, HandTrue, ReplyTrue
<1>5. LockAccounted'
  BY <1>0, <1>1, <1>2, <1>3, <1>4, LockLeave DEF IInv
<1>6. ChipTruthful' /\ HandTruthful' /\ ReplyTruthful'
  BY <1>1, <1>3, <1>4, QuietStep DEF IInv
<1>7. ChipsOK'
  BY <1>0, <1>1 DEF ChipsOK, chipVars, Unlock
<1> QED
  BY <1>3, <1>5, <1>6, <1>7 DEF IInv, TypeOK

LEMMA MapInv == ASSUME IInv, NEW t \in threads, Map(t) PROVE IInv'
<1>0. TypeOK /\ Progress /\ Outstanding /\ JobsOK /\ ChipsOK /\ t \in Threads
  BY DEF IInv, TypeOK
<1>1. t.op = "load" /\ t.at = "in"
  BY DEF Map
<1>2. CASE t.model \notin Staged
  BY <1>1, <1>2, RaiseInv DEF Map
<1>3. CASE t.model \in Staged
  <2> DEFINE u == Moved(t, "bind")
             n == t.node
  <2>1. /\ onChip' = [onChip EXCEPT ![n] = <<n, t.model>> \in Maps]
        /\ Step(t, u) /\ UNCHANGED <<chips, model, stem, lock>>
    BY <1>3 DEF Map, Moved
  <2>2. u \in Threads /\ SameRequest(t, u) /\ u.at = "bind"
    BY <1>0, MovedFact
  <2> HIDE DEF u
  <2>3. /\ JobsOK' /\ Progress' /\ Outstanding' /\ threads' \subseteq Threads
        /\ threads' = (threads \ {t}) \cup {u}
    BY <1>0, <2>1, <2>2, StepKeeps
  <2>4. n \in Nodes /\ onChip \in [Nodes -> BOOLEAN]
    BY <1>0 DEF Threads, ChipsOK
  <2>5. onChip'[n] = (<<n, t.model>> \in Maps) /\ onChip' \in [Nodes -> BOOLEAN]
    BY <2>1, <2>4
  <2>6. Inside(u) /\ Inside(t) /\ ReplyTrue(u)
    BY <1>1, <2>2 DEF Inside, ReplyTrue
  <2>7. HandTrue(u)'
    BY <2>2, <2>5 DEF HandTrue, SameRequest
  <2>8. ChipTrue(n)'
    <3>1. Binding(n)'
      BY <2>2, <2>3 DEF Binding, SameRequest
    <3>2. stem[n] = model[n].name
      BY <2>4 DEF IInv, ChipTruthful
    <3> QED
      BY <2>1, <3>1, <3>2 DEF ChipTrue
  <2>9. \A o \in Nodes \ {n} : model'[o] = model[o] /\ stem'[o] = stem[o] /\ onChip'[o] = onChip[o]
    BY <2>1, <2>4
  <2>10. LockAccounted'
    BY <2>1, <2>2, <2>3, <2>6, LockSame DEF IInv
  <2>11. ChipTruthful' /\ HandTruthful' /\ ReplyTruthful'
    BY <1>0, <2>2, <2>3, <2>6, <2>7, <2>8, <2>9, ChipStep DEF IInv
  <2>12. ChipsOK'
    BY <1>0, <2>1, <2>5 DEF ChipsOK
  <2> QED
    BY <2>3, <2>10, <2>11, <2>12 DEF IInv, TypeOK
<1> QED
  BY <1>2, <1>3

LEMMA BindInv == ASSUME IInv, NEW t \in threads, Bind(t) PROVE IInv'
<1>0. TypeOK /\ Progress /\ Outstanding /\ JobsOK /\ ChipsOK /\ t \in Threads
  BY DEF IInv, TypeOK
<1> DEFINE n == t.node
           says == Says(t.model, onChip[n])
<1>1. /\ t.op = "load" /\ t.at = "bind"
      /\ model' = [model EXCEPT ![n] = Object(n, t.model)]
      /\ stem' = [stem EXCEPT ![n] = t.model]
      /\ Step(t, Answered(t, says)) /\ Unlock(n) /\ UNCHANGED <<chips, onChip>>
  BY DEF Bind, Answer, Answered
<1>2. /\ n \in Nodes /\ t.model \in Models /\ onChip[n] \in BOOLEAN
      /\ model \in [Nodes -> Objects \cup {NoObject}] /\ stem \in [Nodes -> Names]
  BY <1>0 DEF Threads, ChipsOK
<1>3. says \in Replies
  BY <1>2, SaysFact DEF Names
<1>4. PICK u \in Threads : /\ u = Answered(t, says) /\ SameRequest(t, u)
                           /\ u.at = "send" /\ u.says = says
  BY <1>0, <1>3, AnsweredFact
<1>5. onChip[n] = (<<n, t.model>> \in Maps)
  BY <1>1 DEF IInv, HandTruthful, HandTrue
<1>6. says = Says(t.model, <<n, t.model>> \in Maps)
  BY <1>5
<1>7. Object(n, t.model) \in Objects
  BY <1>2 DEF Objects, Object
<1>8. /\ model'[n] = Object(n, t.model) /\ stem'[n] = t.model /\ onChip' = onChip
      /\ model' \in [Nodes -> Objects \cup {NoObject}] /\ stem' \in [Nodes -> Names]
      /\ \A o \in Nodes \ {n} : model'[o] = model[o] /\ stem'[o] = stem[o] /\ onChip'[o] = onChip[o]
  BY <1>1, <1>2, <1>7 DEF Names
<1> HIDE DEF says
<1>9. /\ JobsOK' /\ Progress' /\ Outstanding' /\ threads' \subseteq Threads
      /\ threads' = (threads \ {t}) \cup {u}
  BY <1>0, <1>1, <1>4, StepKeeps
<1>10. Inside(t) /\ ~Inside(u) /\ HandTrue(u)'
  BY <1>1, <1>4 DEF Inside, HandTrue
<1>11. ReplyTrue(u)
  BY <1>1, <1>4, <1>6 DEF ReplyTrue, SameRequest
<1>12. ChipTrue(n)'
  BY <1>5, <1>8 DEF ChipTrue, Object
<1>13. LockAccounted'
  BY <1>0, <1>1, <1>4, <1>9, <1>10, LockLeave DEF IInv
<1>14. ChipTruthful' /\ HandTruthful' /\ ReplyTruthful'
  BY <1>0, <1>4, <1>8, <1>9, <1>10, <1>11, <1>12, ChipStep DEF IInv
<1>15. ChipsOK'
  BY <1>0, <1>1, <1>8 DEF ChipsOK, Unlock
<1> QED
  BY <1>9, <1>13, <1>14, <1>15 DEF IInv, TypeOK

LEMMA ClearInv == ASSUME IInv, NEW t \in threads, Clear(t) PROVE IInv'
<1>0. TypeOK /\ Progress /\ Outstanding /\ JobsOK /\ ChipsOK /\ t \in Threads
  BY DEF IInv, TypeOK
<1> DEFINE n == t.node
           says == Says(NoName, FALSE)
           u == Answered(t, says)
<1>1. /\ t.op = "unload" /\ t.at = "in"
      /\ model' = [model EXCEPT ![n] = NoObject]
      /\ stem' = [stem EXCEPT ![n] = NoName]
      /\ onChip' = [onChip EXCEPT ![n] = FALSE]
      /\ Step(t, u) /\ Unlock(n) /\ UNCHANGED chips
  BY DEF Clear, Answer, Answered
<1>2. /\ n \in Nodes /\ onChip \in [Nodes -> BOOLEAN]
      /\ model \in [Nodes -> Objects \cup {NoObject}] /\ stem \in [Nodes -> Names]
  BY <1>0 DEF Threads, ChipsOK
<1>3. says \in Replies
  BY SaysFact DEF Names
<1>4. u \in Threads /\ SameRequest(t, u) /\ u.at = "send" /\ u.says = says
  BY <1>0, <1>3, AnsweredFact
<1>5. /\ model'[n] = NoObject /\ stem'[n] = NoName /\ onChip'[n] = FALSE
      /\ model' \in [Nodes -> Objects \cup {NoObject}] /\ stem' \in [Nodes -> Names]
      /\ onChip' \in [Nodes -> BOOLEAN]
      /\ \A o \in Nodes \ {n} : model'[o] = model[o] /\ stem'[o] = stem[o] /\ onChip'[o] = onChip[o]
  BY <1>1, <1>2 DEF Names
<1> HIDE DEF u, says
<1>6. /\ JobsOK' /\ Progress' /\ Outstanding' /\ threads' \subseteq Threads
      /\ threads' = (threads \ {t}) \cup {u}
  BY <1>0, <1>1, <1>4, StepKeeps
<1>7. Inside(t) /\ ~Inside(u) /\ HandTrue(u)' /\ ReplyTrue(u)
  BY <1>1, <1>4 DEF Inside, HandTrue, ReplyTrue, SameRequest
<1>8. ChipTrue(n)'
  <2>1. NoObject.name = NoName /\ NoObject.hw = FALSE
    BY DEF NoObject
  <2> QED
    BY <1>5, <2>1 DEF ChipTrue
<1>9. LockAccounted'
  BY <1>0, <1>1, <1>4, <1>6, <1>7, LockLeave DEF IInv
<1>10. ChipTruthful' /\ HandTruthful' /\ ReplyTruthful'
  BY <1>0, <1>4, <1>5, <1>6, <1>7, <1>8, ChipStep DEF IInv
<1>11. ChipsOK'
  BY <1>0, <1>1, <1>5 DEF ChipsOK, Unlock
<1> QED
  BY <1>6, <1>9, <1>10, <1>11 DEF IInv, TypeOK

LEMMA ForwardInv == ASSUME IInv, NEW t \in threads, Forward(t) PROVE IInv'
<1>0. TypeOK /\ Progress /\ Outstanding /\ JobsOK /\ ChipsOK /\ t \in Threads
  BY DEF IInv, TypeOK
<1>1. t.op = "infer" /\ t.at = "in"
  BY DEF Forward
<1>2. CASE Raise(t)
  BY <1>1, <1>2, RaiseInv
<1>3. CASE ~Raise(t)
  <2> DEFINE n == t.node
             u == [t EXCEPT !.at = "forwarded", !.by = model[n], !.says = Says(stem[n], FALSE)]
  <2>1. Step(t, u) /\ lock' = [lock EXCEPT ![n] = lock[n]] /\ UNCHANGED chipVars
    BY <1>3 DEF Forward, Held
  <2>2. /\ n \in Nodes /\ model[n] \in Objects \cup {NoObject} /\ stem[n] \in Names
        /\ lock \in [Nodes -> {Free} \cup (Jobs \X Nat)]
    BY <1>0 DEF Threads, ChipsOK
  <2>3. Says(stem[n], FALSE) \in Replies
    BY <2>2, SaysFact
  <2>4. /\ u \in Threads /\ SameRequest(t, u) /\ u.at = "forwarded"
        /\ u.by = model[n] /\ u.says = Says(stem[n], FALSE)
    BY <1>0, <2>2, <2>3 DEF Threads, SameRequest
  <2> HIDE DEF u
  <2>5. lock' = lock
    BY <2>1, <2>2
  <2>6. /\ JobsOK' /\ Progress' /\ Outstanding' /\ threads' \subseteq Threads
        /\ threads' = (threads \ {t}) \cup {u}
    BY <1>0, <2>1, <2>4, StepKeeps
  <2>7. stem[n] = model[n].name
    BY <2>2 DEF IInv, ChipTruthful
  <2>8. Inside(t) /\ Inside(u) /\ HandTrue(u) /\ ReplyTrue(u) /\ t.at # "bind"
    BY <1>1, <2>4, <2>7 DEF Inside, HandTrue, ReplyTrue, SameRequest
  <2>9. LockAccounted'
    BY <2>4, <2>5, <2>6, <2>8, LockSame DEF IInv
  <2>10. ChipTruthful' /\ HandTruthful' /\ ReplyTruthful'
    BY <2>1, <2>6, <2>8, QuietStep DEF IInv
  <2>11. ChipsOK'
    BY <1>0, <2>1, <2>5 DEF ChipsOK, chipVars
  <2> QED
    BY <2>6, <2>9, <2>10, <2>11 DEF IInv, TypeOK
<1> QED
  BY <1>2, <1>3

LEMMA ReportInv == ASSUME IInv, NEW t \in threads, Report(t) PROVE IInv'
<1>0. TypeOK /\ Progress /\ Outstanding /\ JobsOK /\ ChipsOK /\ t \in Threads
  BY DEF IInv, TypeOK
<1> DEFINE n == t.node
           says == Says(t.says.model, onChip[n])
           u == Answered(t, says)
<1>1. /\ t.op = "infer" /\ t.at = "forwarded" /\ Step(t, u) /\ Unlock(n) /\ UNCHANGED chipVars
  BY DEF Report, Answer, Answered
<1>2. n \in Nodes /\ t.says.model \in Names /\ onChip[n] \in BOOLEAN
  BY <1>0 DEF Threads, ChipsOK, Replies
<1>3. says \in Replies
  BY <1>2, SaysFact
<1>4. u \in Threads /\ SameRequest(t, u) /\ u.at = "send" /\ u.says = says /\ u.by = t.by
  BY <1>0, <1>3, AnsweredFact
<1>5. t.by = model[n] /\ t.says = Says(t.by.name, FALSE)
  BY <1>1 DEF IInv, HandTruthful, HandTrue
<1>6. ~Binding(n)
  BY <1>0, <1>1, OneInside DEF Binding, Inside, IInv
<1>7. onChip[n] = t.by.hw
  BY <1>2, <1>5, <1>6, TruthUnfolds DEF IInv, ChipTrue
<1>8. t.says.model = t.by.name
  BY <1>5 DEF Says
<1>9. says = Says(t.by.name, t.by.hw)
  BY <1>7, <1>8
<1> HIDE DEF u, says
<1>10. /\ JobsOK' /\ Progress' /\ Outstanding' /\ threads' \subseteq Threads
       /\ threads' = (threads \ {t}) \cup {u}
  BY <1>0, <1>1, <1>4, StepKeeps
<1>11. Inside(t) /\ ~Inside(u) /\ HandTrue(u) /\ t.at # "bind"
  BY <1>1, <1>4 DEF Inside, HandTrue
<1>12. ReplyTrue(u)
  BY <1>1, <1>4, <1>9 DEF ReplyTrue, SameRequest
<1>13. LockAccounted'
  BY <1>0, <1>1, <1>4, <1>10, <1>11, LockLeave DEF IInv
<1>14. ChipTruthful' /\ HandTruthful' /\ ReplyTruthful'
  BY <1>1, <1>10, <1>11, <1>12, QuietStep DEF IInv
<1>15. ChipsOK'
  BY <1>0, <1>1 DEF ChipsOK, chipVars, Unlock
<1> QED
  BY <1>10, <1>13, <1>14, <1>15 DEF IInv, TypeOK

-----------------------------------------------------------------------------
(* The theorems *)

LEMMA InitInv == Init => IInv
<1> SUFFICES ASSUME Init PROVE IInv
  OBVIOUS
<1>1. PICK m \in Staged \cup {NoName} :
         LET Loads(n) == m # NoName /\ n \in chips IN
         /\ model  = [n \in Nodes |-> IF Loads(n) THEN Object(n, m) ELSE NoObject]
         /\ stem   = [n \in Nodes |-> IF Loads(n) THEN m ELSE NoName]
         /\ onChip = [n \in Nodes |-> Loads(n) /\ <<n, m>> \in Maps]
  BY DEF Init
<1>2. \A n \in Nodes : m # NoName /\ n \in chips => Object(n, m) \in Objects /\ m \in Models
  BY DEF Object, Objects
<1>3. ChipsOK
  <2>1. chips \subseteq Up /\ lock = [n \in Nodes |-> Free]
    BY DEF Init
  <2>2. model \in [Nodes -> Objects \cup {NoObject}]
    BY <1>1, <1>2
  <2>3. stem \in [Nodes -> Names]
    BY <1>1, <1>2 DEF Names
  <2>4. onChip \in [Nodes -> BOOLEAN]
    BY <1>1
  <2> QED
    BY <2>1, <2>2, <2>3, <2>4 DEF ChipsOK
<1>4. JobsOK
  <2>1. Longest \in Nat /\ Longest >= 1
    BY DEF Longest
  <2> QED
    BY <2>1 DEF Init, JobsOK
<1>5. threads = {}
  BY DEF Init
<1>6. Progress
  BY DEF Init, Progress
<1>7. ChipTruthful
  <2>1. ASSUME NEW n \in Nodes PROVE stem[n] = model[n].name /\ onChip[n] = model[n].hw
    <3>1. CASE m # NoName /\ n \in chips
      <4>1. model[n] = Object(n, m) /\ stem[n] = m /\ onChip[n] = (<<n, m>> \in Maps)
        BY <1>1, <3>1
      <4> QED
        BY <4>1 DEF Object
    <3>2. CASE ~(m # NoName /\ n \in chips)
      <4>1. model[n] = NoObject /\ stem[n] = NoName
        BY <1>1, <3>2
      <4>2. onChip[n] => m # NoName /\ n \in chips
        BY <1>1
      <4>3. onChip[n] = FALSE
        BY <1>3, <3>2, <4>2 DEF ChipsOK
      <4>4. NoObject.name = NoName /\ NoObject.hw = FALSE
        BY DEF NoObject
      <4> QED
        BY <4>1, <4>3, <4>4
    <3> QED
      BY <3>1, <3>2
  <2> QED
    BY <2>1 DEF ChipTruthful
<1>8. LockAccounted
  <2> SUFFICES ASSUME NEW n \in Nodes
               PROVE  {Id(t) : t \in Occupants(n)} = IF lock[n] = Free THEN {} ELSE {lock[n]}
    BY DEF LockAccounted, Occupants
  <2>1. lock[n] = Free
    BY DEF Init
  <2>2. Occupants(n) = {}
    BY <1>5 DEF Occupants
  <2> QED
    BY <2>1, <2>2
<1> QED
  BY <1>3, <1>4, <1>5, <1>6, <1>7, <1>8
     DEF IInv, TypeOK, Outstanding, HandTruthful, ReplyTruthful

LEMMA StepInv == IInv /\ [Next]_vars => IInv'
<1> SUFFICES ASSUME IInv, [Next]_vars PROVE IInv'
  OBVIOUS
<1>1. CASE UNCHANGED vars
  <2>1. TypeOK'
    BY <1>1 DEF IInv, TypeOK, ChipsOK, JobsOK, Longest, vars, chipVars, jobVars
  <2>2. Progress'
    BY <1>1 DEF IInv, Progress, Past, vars, jobVars
  <2>3. Outstanding'
    BY <1>1 DEF IInv, Outstanding, Target, Id, vars, jobVars
  <2>4. LockAccounted' /\ ChipTruthful' /\ HandTruthful' /\ ReplyTruthful'
    <3>1. UNCHANGED <<chipVars, lock, threads>>
      BY <1>1 DEF vars
    <3> QED
      BY <3>1, ChipsKeep DEF IInv, TypeOK
  <2> QED
    BY <2>1, <2>2, <2>3, <2>4 DEF IInv
<1>2. ASSUME NEW j \in Jobs, Dashboard(j) PROVE IInv'
  BY <1>2, BeginInv, AskInv, GiveUpInv DEF Dashboard
<1>3. ASSUME NEW t \in threads, OutsideLock(t) PROVE IInv'
  BY <1>3, HealthInv, NoDeviceInv, SendInv DEF OutsideLock
<1>4. ASSUME NEW t \in threads, InsideLock(t) PROVE IInv'
  BY <1>4, EnterChipInv, MapInv, BindInv, ClearInv, ForwardInv, ReportInv DEF InsideLock
<1> QED
  BY <1>1, <1>2, <1>3, <1>4 DEF Next, Over

\* The inductive invariant holds in every state of every behaviour.
THEOREM FleetInvariant == Spec => []IInv
<1> QED
  BY InitInv, StepInv, PTL DEF Spec

\* Types, and with them the bounds of every loop of a job: at most NNodes requests
\* to find the live nodes, one to load on each, one per sample.
THEOREM FleetTypeCorrect == Spec => []TypeOK
<1>1. IInv => TypeOK
  BY DEF IInv
<1> QED
  BY <1>1, FleetInvariant, PTL

\* The lock of every node is held exactly by the one thread inside its chip.
THEOREM LockIsAccounted == Spec => []LockAccounted
<1>1. IInv => LockAccounted
  BY DEF IInv
<1> QED
  BY <1>1, FleetInvariant, PTL

\* Every answer of a node is true of the model that gave it, whatever other jobs
\* load and unload meanwhile.
THEOREM RepliesAreTruthful == Spec => []ReplyTruthful
<1>1. IInv => ReplyTruthful
  BY DEF IInv
<1> QED
  BY <1>1, FleetInvariant, PTL
=============================================================================
