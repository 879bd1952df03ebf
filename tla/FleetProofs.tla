----------------------------- MODULE FleetProofs -----------------------------
(***************************************************************************)
(* Proofs about a launch and the compute-nodes card, for any number of     *)
(* hosts, of instances on each and of pages that poll.                     *)
(***************************************************************************)
EXTENDS FleetProperties, FiniteSetTheorems, TLAPS

InstanceType == [container : BOOLEAN, worker : {"off", "boot", "mapped"}, mark : BOOLEAN]

-----------------------------------------------------------------------------
(* Logs *)

LEMMA HostFact ==
  ASSUME NEW i \in Instances
  PROVE  Host(i) \in Hosts
BY DEF Instances, Host

LEMMA ListedFact ==
  ASSUME NEW order
  PROVE  /\ \A i, j : <<i, j>> \in order => i \in Listed(order)
         /\ \A i : i \in Listed(order) => \E p \in order : p[1] = i
<1>1. ASSUME NEW i, NEW j, <<i, j>> \in order PROVE i \in Listed(order)
  <2>1. <<i, j>>[1] = i
    OBVIOUS
  <2> QED
    BY <1>1, <2>1 DEF Listed
<1>2. \A i : i \in Listed(order) => \E p \in order : p[1] = i
  BY DEF Listed
<1> QED
  BY <1>1, <1>2

\* The logs of a host are logs of its instances.
LEMMA ListedHere ==
  ASSUME NEW order \in Orders, InOrder(order), NEW h \in Hosts, NEW i \in Listed(order[h])
  PROVE  i \in Instances /\ Host(i) = h
<1>1. PICK p \in order[h] : p[1] = i
  BY ListedFact
<1>2. p \in Instances \X Instances /\ Host(p[1]) = h
  BY DEF Orders, InOrder
<1> QED
  BY <1>1, <1>2

\* A log that is written to is the newest of its host, and the others keep their order.
LEMMA TouchFact ==
  ASSUME logs \in Orders, InOrder(logs), NEW i \in Instances, Touch(i)
  PROVE  /\ logs' \in Orders /\ InOrder(logs)'
         /\ \A h \in Hosts : h # Host(i) => logs'[h] = logs[h]
         /\ \A j \in Listed(logs[Host(i)]) \cup {i} :
              <<j, i>> \in logs'[Host(i)] /\ j \in Listed(logs'[Host(i)])
         /\ \A h \in Hosts : \A j, k \in Instances \ {i} : <<j, k>> \in logs[h] => <<j, k>> \in logs'[h]
<1> DEFINE H    == Host(i)
           old  == {p \in logs[H] : i \notin {p[1], p[2]}}
           new  == {<<j, i>> : j \in Listed(logs[H]) \cup {i}}
<1>1. H \in Hosts /\ logs' = [logs EXCEPT ![H] = old \cup new]
  BY HostFact DEF Touch
<1>2. logs'[H] = old \cup new /\ \A h \in Hosts : h # H => logs'[h] = logs[h]
  BY <1>1 DEF Orders
<1>3. \A j \in Listed(logs[H]) \cup {i} : j \in Instances /\ Host(j) = H
  BY <1>1, ListedHere
<1>4. old \subseteq Instances \X Instances /\ new \subseteq Instances \X Instances
  BY <1>1, <1>3 DEF Orders
<1>5. logs' \in Orders
  BY <1>1, <1>4 DEF Orders
<1>6. InOrder(logs)'
  <2> SUFFICES ASSUME NEW h \in Hosts, NEW p \in logs'[h]
               PROVE  /\ Host(p[1]) = h /\ Host(p[2]) = h
                      /\ <<p[2], p[1]>> \in logs'[h] => p[1] = p[2]
    BY DEF InOrder, Host
  <2>1. CASE h # H
    BY <1>2, <2>1 DEF InOrder
  <2>2. CASE h = H /\ p \in old
    <3>1. Host(p[1]) = h /\ Host(p[2]) = h /\ p[1] # i /\ p[2] # i
      BY <1>1, <2>2 DEF InOrder
    <3>2. <<p[2], p[1]>> \in new => FALSE
      BY <3>1
    <3>3. <<p[2], p[1]>> \in old => p[1] = p[2]
      BY <1>1, <2>2 DEF InOrder
    <3> QED
      BY <1>2, <2>2, <3>1, <3>2, <3>3
  <2>3. CASE h = H /\ p \in new
    <3>1. PICK j \in Listed(logs[H]) \cup {i} : p = <<j, i>>
      BY <2>3
    <3>2. p[1] = j /\ p[2] = i /\ Host(j) = H
      BY <1>3, <3>1
    <3>3. <<i, j>> \in old => FALSE
      OBVIOUS
    <3>4. <<i, j>> \in new => i = j
      OBVIOUS
    <3> QED
      BY <1>2, <2>3, <3>2, <3>3, <3>4
  <2> QED
    BY <1>2, <2>1, <2>2, <2>3
<1>7. ASSUME NEW j \in Listed(logs[H]) \cup {i}
      PROVE  <<j, i>> \in logs'[H] /\ j \in Listed(logs'[H])
  <2>1. <<j, i>> \in logs'[H]
    BY <1>2
  <2> QED
    BY <2>1, ListedFact
<1>8. ASSUME NEW h \in Hosts, NEW j \in Instances \ {i}, NEW k \in Instances \ {i}, <<j, k>> \in logs[h]
      PROVE  <<j, k>> \in logs'[h]
  <2>1. CASE h # H
    BY <1>2, <1>8, <2>1
  <2>2. CASE h = H
    <3>1. i \notin {<<j, k>>[1], <<j, k>>[2]}
      OBVIOUS
    <3> QED
      BY <1>2, <1>8, <2>2, <3>1
  <2> QED
    BY <2>1, <2>2
<1> QED
  BY <1>2, <1>5, <1>6, <1>7, <1>8

-----------------------------------------------------------------------------
(* The steps *)

\* A worker's step writes its own log: marks stay, one is added by the worker that has the
\* chip, and a chip is taken only when it is free.
LEMMA InstanceMoves ==
  ASSUME IInv, NEW i \in Instances, Touch(i), NEW rec \in InstanceType, inst' = [inst EXCEPT ![i] = rec],
         UNCHANGED <<app, launch, polls, poll>>,
         inst[i].mark => rec.mark,
         rec.mark => inst[i].worker = "mapped" /\ rec.worker # "boot",
         rec.worker = "mapped" /\ inst[i].worker # "mapped" => ChipFree(Host(i)) /\ ~rec.mark
  PROVE  IInv'
<1>1. /\ LaunchOK /\ PollOK /\ inst \in [Instances -> InstanceType] /\ logs \in Orders /\ InOrder(logs)
      /\ Host(i) \in Hosts
  BY HostFact DEF IInv, LaunchOK, InstanceType
<1>2. \A j \in Instances : inst'[j] = IF j = i THEN rec ELSE inst[j]
  BY <1>1
<1>3. logs' \in Orders /\ InOrder(logs)'
  BY <1>1, TouchFact
<1>4. \A h \in Hosts : h # Host(i) => logs'[h] = logs[h]
  BY <1>1, TouchFact
<1>5. \A j \in Listed(logs[Host(i)]) \cup {i} : <<j, i>> \in logs'[Host(i)] /\ j \in Listed(logs'[Host(i)])
  BY <1>1, TouchFact
<1>6. \A h \in Hosts : \A j, k \in Instances \ {i} : <<j, k>> \in logs[h] => <<j, k>> \in logs'[h]
  BY <1>1, TouchFact
<1>7. LaunchOK' /\ PollOK'
  <2>1. inst' \in [Instances -> InstanceType]
    BY <1>1
  <2> QED
    BY <1>1, <1>3, <2>1 DEF LaunchOK, PollOK, InstanceType
<1>8. ASSUME NEW j \in Instances, inst'[j].mark, ~inst[j].mark
      PROVE  j = i /\ inst[i].worker = "mapped"
  BY <1>2, <1>8
<1>9. ASSUME NEW j \in Instances, inst'[j].worker = "mapped", inst[j].worker # "mapped"
      PROVE  j = i /\ ChipFree(Host(i)) /\ ~inst'[i].mark
  BY <1>2, <1>9
<1>10. \A j \in Instances : inst[j].mark => inst'[j].mark
  BY <1>2
<1>11. ChipHeldOnce'
  <2>1. ASSUME NEW j \in Instances, NEW k \in Instances, Host(j) = Host(k),
               inst'[j].worker = "mapped", inst'[k].worker = "mapped"
        PROVE  j = k
    <3>1. CASE inst[j].worker = "mapped" /\ inst[k].worker = "mapped"
      BY <2>1, <3>1 DEF IInv, ChipHeldOnce
    <3>2. CASE inst[j].worker # "mapped"
      <4>1. j = i /\ ChipFree(Host(i))
        BY <1>9, <2>1, <3>2
      <4>2. inst[k].worker # "mapped"
        BY <2>1, <4>1 DEF ChipFree
      <4> QED
        BY <1>9, <2>1, <4>1, <4>2
    <3>3. CASE inst[k].worker # "mapped"
      <4>1. k = i /\ ChipFree(Host(i))
        BY <1>9, <2>1, <3>3
      <4>2. inst[j].worker # "mapped"
        BY <2>1, <4>1 DEF ChipFree
      <4> QED
        BY <1>9, <2>1, <4>1, <4>2
    <3> QED
      BY <3>1, <3>2, <3>3
  <2>2. \A j \in Instances : inst'[j].mark => inst'[j].worker # "boot"
    BY <1>2 DEF IInv, ChipHeldOnce
  <2> QED
    BY <2>1, <2>2 DEF ChipHeldOnce, Host
<1>12. ASSUME NEW j \in Instances, inst'[j].mark
       PROVE  /\ j \in Listed(logs'[Host(j)])
              /\ \A k \in Instances : Host(k) = Host(j) /\ inst'[k].worker = "mapped" =>
                    <<j, k>> \in logs'[Host(j)]
  <2>1. CASE j # i
    <3>1. inst[j].mark /\ Host(j) \in Hosts
      BY <1>8, <1>12, <2>1, HostFact
    <3>2. j \in Listed(logs[Host(j)])
      BY <3>1 DEF IInv, MarksListed
    <3>3. j \in Listed(logs'[Host(j)])
      BY <1>4, <1>5, <3>1, <3>2
    <3>4. ASSUME NEW k \in Instances, Host(k) = Host(j), inst'[k].worker = "mapped"
          PROVE  <<j, k>> \in logs'[Host(j)]
      <4>1. CASE k = i
        BY <1>5, <3>2, <3>4, <4>1
      <4>2. CASE k # i
        <5>1. inst[k].worker = "mapped"
          BY <1>2, <3>4, <4>2
        <5>2. <<j, k>> \in logs[Host(j)]
          BY <3>1, <3>4, <5>1 DEF IInv, MarksListed
        <5> QED
          BY <1>6, <2>1, <3>1, <4>2, <5>2
      <4> QED
        BY <4>1, <4>2
    <3> QED
      BY <3>3, <3>4
  <2>2. CASE j = i
    <3>1. inst[i].worker = "mapped"
      BY <1>2, <1>12, <2>2
    <3>2. ASSUME NEW k \in Instances, Host(k) = Host(i), inst'[k].worker = "mapped"
          PROVE  k = i
      <4>1. CASE inst[k].worker = "mapped"
        BY <3>1, <3>2, <4>1 DEF IInv, ChipHeldOnce
      <4>2. CASE inst[k].worker # "mapped"
        BY <1>9, <3>2, <4>2
      <4> QED
        BY <4>1, <4>2
    <3> QED
      BY <1>5, <2>2, <3>2
  <2> QED
    BY <2>1, <2>2
<1>13. MarksListed'
  BY <1>12 DEF MarksListed, Host
<1>14. ASSUME NEW p \in Pages, poll[p].pc = "read"
       PROVE  /\ poll[p].after => EveryHostReady(poll[p].order)'
              /\ \A k \in poll[p].steady :
                   /\ inst'[k].mark
                   /\ inst'[k].worker = "mapped" =>
                        \A j \in Instances :
                           j \in Listed(poll[p].order[Host(k)]) \cup {k} /\ inst'[j].mark =>
                               <<j, k>> \in poll[p].order[Host(k)]
  <2>1. /\ poll[p].order \in Orders /\ poll[p].steady \subseteq Instances /\ InOrder(poll[p].order)
        /\ poll'[p].order = poll[p].order
    BY <1>1 DEF IInv, PollOK
  <2>2. poll[p].after => EveryHostReady(poll[p].order)'
    BY <1>10, <1>14, <2>1 DEF IInv, PollSteady, EveryHostReady, Host
  <2>3. ASSUME NEW k \in poll[p].steady
        PROVE  /\ inst'[k].mark
               /\ inst'[k].worker = "mapped" =>
                    \A j \in Instances :
                       j \in Listed(poll[p].order[Host(k)]) \cup {k} /\ inst'[j].mark =>
                           <<j, k>> \in poll[p].order[Host(k)]
    <3>1. k \in Instances /\ inst[k].mark /\ inst'[k].mark /\ Host(k) \in Hosts
      BY <1>10, <1>14, <2>1, HostFact DEF IInv, PollSteady
    <3>2. ASSUME inst'[k].worker = "mapped", NEW j \in Instances,
                 j \in Listed(poll[p].order[Host(k)]) \cup {k}, inst'[j].mark
          PROVE  <<j, k>> \in poll[p].order[Host(k)]
      <4>1. inst[k].worker = "mapped"
        BY <1>9, <3>1, <3>2
      <4>2. CASE inst[j].mark
        BY <1>14, <3>2, <4>1, <4>2 DEF IInv, PollSteady
      <4>3. CASE ~inst[j].mark
        <5>1. j = i /\ inst[i].worker = "mapped" /\ j # k
          BY <1>8, <3>1, <3>2, <4>3
        <5>2. Host(j) = Host(k)
          BY <2>1, <3>1, <3>2, <5>1, ListedHere
        <5> QED
          BY <3>1, <4>1, <5>1, <5>2 DEF IInv, ChipHeldOnce
      <4> QED
        BY <4>2, <4>3
    <3> QED
      BY <3>1, <3>2
  <2> QED
    BY <2>2, <2>3
<1>15. PollSteady'
  BY <1>14 DEF PollSteady, Host
<1>16. \A p \in Pages : InOrder(poll[p].order)'
  <2>1. \A p \in Pages : InOrder(poll[p].order)
    BY DEF IInv
  <2>2. \A p \in Pages : InOrder(poll'[p].order)
    BY <2>1
  <2> QED
    BY <2>2 DEF InOrder, Host
<1>17. launch' = "ready" => EveryHostReady(logs)'
  <2>1. ASSUME launch = "ready", NEW h \in Hosts
        PROVE  \E j \in Instances : Host(j) = h /\ inst'[j].mark /\ j \in Listed(logs'[h])
    <3>1. PICK j \in Instances : Host(j) = h /\ inst[j].mark
      BY <2>1 DEF IInv, EveryHostReady
    <3> QED
      BY <1>10, <1>12, <3>1
  <2> QED
    BY <2>1 DEF EveryHostReady, Host
<1> QED
  BY <1>3, <1>7, <1>11, <1>13, <1>15, <1>16, <1>17 DEF IInv

\* Nothing that matters to the logs happens to the workers.
LEMMA MarksKept ==
  ASSUME IInv, LaunchOK', UNCHANGED <<logs, poll>>,
         \A i \in Instances : inst'[i].mark = inst[i].mark /\ inst'[i].worker = inst[i].worker,
         launch' = "ready" => EveryHostReady(logs)
  PROVE  IInv'
<1>1. PollOK' /\ InOrder(logs)' /\ \A p \in Pages : InOrder(poll[p].order)'
  BY DEF IInv, PollOK, InOrder, Host
<1>2. ChipHeldOnce' /\ MarksListed'
  BY DEF IInv, ChipHeldOnce, MarksListed, Host
<1>3. \A order : EveryHostReady(order) => EveryHostReady(order)'
  BY DEF EveryHostReady, Host
<1>4. ASSUME NEW p \in Pages, poll[p].pc = "read"
      PROVE  /\ poll[p].after => EveryHostReady(poll[p].order)'
             /\ \A i \in poll[p].steady :
                  /\ inst'[i].mark
                  /\ inst'[i].worker = "mapped" =>
                       \A j \in Instances :
                          j \in Listed(poll[p].order[Host(i)]) \cup {i} /\ inst'[j].mark =>
                              <<j, i>> \in poll[p].order[Host(i)]
  <2>1. poll[p].steady \subseteq Instances
    BY DEF IInv, PollOK
  <2>2. poll[p].after => EveryHostReady(poll[p].order)'
    BY <1>4 DEF IInv, PollSteady, EveryHostReady, Host
  <2> QED
    BY <1>4, <2>1, <2>2 DEF IInv, PollSteady
<1>5. PollSteady'
  BY <1>4 DEF PollSteady, Host
<1>6. launch' = "ready" => EveryHostReady(logs)'
  BY DEF EveryHostReady, Host
<1> QED
  BY <1>1, <1>2, <1>5, <1>6 DEF IInv

LEMMA DisableStep ==
  ASSUME IInv, Disable, UNCHANGED poll
  PROVE  IInv'
<1>1. /\ inst' = [i \in Instances |-> [inst[i] EXCEPT !.container = FALSE]]
      /\ launch = "register" /\ app' = "disabled" /\ UNCHANGED <<logs, launch, polls>> /\ LaunchOK
  BY DEF Disable, IInv
<1>2. \A i \in Instances : inst[i] \in InstanceType
  BY <1>1 DEF LaunchOK, InstanceType
<1>3. \A i \in Instances : /\ inst'[i] \in InstanceType
                           /\ inst'[i].mark = inst[i].mark /\ inst'[i].worker = inst[i].worker
  BY <1>1, <1>2 DEF InstanceType
<1>4. LaunchOK'
  BY <1>1, <1>3 DEF LaunchOK, InstanceType
<1> QED
  BY <1>1, <1>3, <1>4, MarksKept

LEMMA PlaceStep ==
  ASSUME IInv, NEW i \in Instances, Place(i), UNCHANGED poll
  PROVE  IInv'
<1> DEFINE rec == [container |-> TRUE, worker |-> "boot", mark |-> FALSE]
<1>1. /\ Touch(i) /\ inst' = [inst EXCEPT ![i] = rec] /\ UNCHANGED <<app, launch, polls>>
      /\ ~inst[i].mark /\ inst[i].worker = "off"
  BY DEF Place, Free
<1>2. rec \in InstanceType /\ ~rec.mark /\ rec.worker = "boot"
  BY DEF InstanceType
<1> HIDE DEF rec
<1> QED
  BY <1>1, <1>2, InstanceMoves

\* What a step of an instance writes into its record.
LEMMA RecordFact ==
  ASSUME NEW r \in InstanceType
  PROVE  /\ \A w \in {"off", "boot", "mapped"} :
              LET s == [r EXCEPT !.worker = w]
              IN  s \in InstanceType /\ s.worker = w /\ s.mark = r.mark
         /\ LET s == [r EXCEPT !.worker = "off", !.container = FALSE]
            IN  s \in InstanceType /\ s.worker = "off" /\ s.mark = r.mark
         /\ LET s == [r EXCEPT !.mark = TRUE]
            IN  s \in InstanceType /\ s.worker = r.worker /\ s.mark
BY DEF InstanceType

LEMMA InstanceStep ==
  ASSUME IInv, NEW i \in Instances, InstanceNext(i), UNCHANGED poll
  PROVE  IInv'
<1>1. inst[i] \in InstanceType /\ inst \in [Instances -> InstanceType]
  BY DEF IInv, LaunchOK, InstanceType
<1>2. inst[i].mark => inst[i].worker # "boot"
  BY DEF IInv, ChipHeldOnce
<1>3. CASE OpenChip(i)
  <2> DEFINE rec == [inst[i] EXCEPT !.worker = "mapped"]
  <2>1. /\ Touch(i) /\ inst' = [inst EXCEPT ![i] = rec] /\ UNCHANGED <<app, launch, polls>>
        /\ inst[i].worker = "boot" /\ ChipFree(Host(i))
    BY <1>3 DEF OpenChip
  <2>2. rec \in InstanceType /\ rec.worker = "mapped" /\ rec.mark = inst[i].mark
    BY <1>1, RecordFact
  <2> HIDE DEF rec
  <2> QED
    BY <1>2, <2>1, <2>2, InstanceMoves
<1>4. CASE GiveUp(i)
  <2> DEFINE rec == [inst[i] EXCEPT !.worker = "off", !.container = FALSE]
  <2>1. /\ Touch(i) /\ inst' = [inst EXCEPT ![i] = rec] /\ UNCHANGED <<app, launch, polls>>
        /\ inst[i].worker = "boot"
    <3>1. inst' = [inst EXCEPT ![i].worker = "off", ![i].container = FALSE]
      BY <1>4 DEF GiveUp
    <3>2. inst' = [inst EXCEPT ![i] = rec]
      BY <1>1, <3>1
    <3> QED
      BY <1>4, <3>2 DEF GiveUp
  <2>2. rec \in InstanceType /\ rec.worker = "off" /\ rec.mark = inst[i].mark
    BY <1>1, RecordFact
  <2> HIDE DEF rec
  <2> QED
    BY <1>2, <2>1, <2>2, InstanceMoves
<1>5. CASE LogReady(i)
  <2> DEFINE rec == [inst[i] EXCEPT !.mark = TRUE]
  <2>1. /\ Touch(i) /\ inst' = [inst EXCEPT ![i] = rec] /\ UNCHANGED <<app, launch, polls>>
        /\ inst[i].worker = "mapped"
    BY <1>5 DEF LogReady
  <2>2. rec \in InstanceType /\ rec.worker = inst[i].worker /\ rec.mark
    BY <1>1, RecordFact
  <2> HIDE DEF rec
  <2> QED
    BY <2>1, <2>2, InstanceMoves
<1>6. CASE Orphan(i)
  <2> DEFINE rec == [inst[i] EXCEPT !.worker = "off"]
  <2>1. /\ Touch(i) /\ inst' = [inst EXCEPT ![i] = rec] /\ UNCHANGED <<app, launch, polls>>
        /\ inst[i].worker # "off"
    BY <1>6 DEF Orphan
  <2>2. rec \in InstanceType /\ rec.worker = "off" /\ rec.mark = inst[i].mark
    BY <1>1, RecordFact
  <2>3. inst[i].mark => inst[i].worker = "mapped"
    BY <1>1, <1>2, <2>1 DEF InstanceType
  <2> HIDE DEF rec
  <2> QED
    BY <2>1, <2>2, <2>3, InstanceMoves
<1> QED
  BY <1>3, <1>4, <1>5, <1>6 DEF InstanceNext

\* As many hosts with a ready log as there are hosts: every host has one.
LEMMA AllHostsReady ==
  ASSUME IInv, ReadyHosts >= Nodes
  PROVE  EveryHostReady(logs)
<1> DEFINE ready == {Host(i) : i \in Marked}
<1>1. Marked \subseteq Instances /\ ready \subseteq Hosts /\ IsFiniteSet(Hosts)
  BY LaunchAssumption, HostFact DEF Marked
<1>2. IsFiniteSet(ready) /\ Cardinality(ready) <= Cardinality(Hosts)
      /\ (Cardinality(Hosts) = Cardinality(ready) => Hosts = ready)
  BY <1>1, FS_Subset
<1>3. Cardinality(ready) \in Nat /\ Cardinality(Hosts) \in Nat
  BY <1>1, <1>2, FS_CardinalityType
<1>4. Cardinality(ready) >= Cardinality(Hosts)
  BY DEF ReadyHosts, Nodes
<1>5. Cardinality(Hosts) = Cardinality(ready)
  <2> DEFINE m == Cardinality(ready)
             n == Cardinality(Hosts)
  <2>1. m \in Nat /\ n \in Nat /\ m <= n /\ m >= n
    BY <1>2, <1>3, <1>4
  <2> HIDE DEF m, n
  <2>2. n = m
    BY <2>1
  <2> QED
    BY <2>2 DEF m, n
<1>6. Hosts = ready
  BY <1>2, <1>5
<1> SUFFICES ASSUME NEW h \in Hosts
             PROVE  \E i \in Instances : Host(i) = h /\ inst[i].mark /\ i \in Listed(logs[h])
  BY DEF EveryHostReady
<1>7. PICK i \in Marked : Host(i) = h
  BY <1>6
<1> QED
  BY <1>1, <1>7 DEF Marked, IInv, MarksListed

LEMMA LauncherStep ==
  ASSUME IInv, Enable \/ Look \/ LookedEnough, UNCHANGED poll
  PROVE  IInv'
<1>1. UNCHANGED <<inst, logs>> /\ LaunchOK
  BY DEF Enable, Look, LookedEnough, IInv
<1>2. LaunchOK'
  BY <1>1 DEF Enable, Look, LookedEnough, LaunchOK
<1>3. launch' = "ready" => EveryHostReady(logs)
  BY AllHostsReady DEF Enable, Look, LookedEnough, IInv
<1> QED
  BY <1>1, <1>2, <1>3, MarksKept

LEMMA PageStep ==
  ASSUME IInv, NEW p \in Pages, ListLogs(p) \/ ReadLogs(p)
  PROVE  IInv'
<1>1. UNCHANGED launchVars /\ LaunchOK /\ PollOK
  BY DEF ListLogs, ReadLogs, IInv
<1>2. LaunchOK' /\ ChipHeldOnce' /\ MarksListed' /\ InOrder(logs)' /\ (launch' = "ready" => EveryHostReady(logs)')
  BY <1>1 DEF IInv, LaunchOK, ChipHeldOnce, MarksListed, InOrder, EveryHostReady, Host, launchVars
<1>3. ASSUME NEW rec \in [pc : {"idle", "read"}, order : Orders, steady : SUBSET Instances, after : BOOLEAN],
             poll' = [poll EXCEPT ![p] = rec], InOrder(rec.order),
             rec.pc = "read" =>
               /\ rec.after => EveryHostReady(rec.order)
               /\ \A i \in rec.steady :
                    /\ inst[i].mark
                    /\ inst[i].worker = "mapped" =>
                         \A j \in Instances : j \in Listed(rec.order[Host(i)]) \cup {i} /\ inst[j].mark =>
                             <<j, i>> \in rec.order[Host(i)]
      PROVE  IInv'
  <2>1. PollOK' /\ \A q \in Pages : poll'[q] = IF q = p THEN rec ELSE poll[q]
    BY <1>1, <1>3 DEF PollOK
  <2>2. \A q \in Pages : InOrder(poll[q].order)'
    <3>1. \A q \in Pages : InOrder(poll'[q].order)
      BY <1>3, <2>1 DEF IInv
    <3> QED
      BY <3>1 DEF InOrder, Host
  <2>3. ASSUME NEW q \in Pages, poll'[q].pc = "read"
        PROVE  /\ poll'[q].after => EveryHostReady(poll'[q].order)
               /\ \A i \in poll'[q].steady :
                    /\ inst[i].mark
                    /\ inst[i].worker = "mapped" =>
                         \A j \in Instances :
                            j \in Listed(poll'[q].order[Host(i)]) \cup {i} /\ inst[j].mark =>
                                <<j, i>> \in poll'[q].order[Host(i)]
    <3>1. CASE q = p
      BY <1>3, <2>1, <2>3, <3>1
    <3>2. CASE q # p
      BY <2>1, <2>3, <3>2 DEF IInv, PollSteady
    <3> QED
      BY <3>1, <3>2
  <2>4. PollSteady'
    BY <1>1, <2>3 DEF PollSteady, EveryHostReady, Host, launchVars
  <2> QED
    BY <1>2, <2>1, <2>2, <2>4 DEF IInv
<1>4. CASE ListLogs(p)
  <2> DEFINE rec == [pc |-> "read", order |-> logs, steady |-> {i \in Instances : Serving(i)},
                     after |-> launch = "ready"]
  <2>1. poll' = [poll EXCEPT ![p] = rec]
    BY <1>4 DEF ListLogs
  <2>2. rec \in [pc : {"idle", "read"}, order : Orders, steady : SUBSET Instances, after : BOOLEAN]
    BY <1>1 DEF LaunchOK
  <2>3. InOrder(logs) /\ (launch = "ready" => EveryHostReady(logs))
    BY DEF IInv
  <2>4. ASSUME NEW i \in Instances, Serving(i)
        PROVE  /\ inst[i].mark /\ inst[i].worker = "mapped"
               /\ \A j \in Instances : j \in Listed(logs[Host(i)]) \cup {i} /\ inst[j].mark =>
                     <<j, i>> \in logs[Host(i)]
    <3>1. inst[i].mark /\ inst[i].worker = "mapped" /\ Host(i) \in Hosts /\ logs \in Orders
      BY <1>1, <2>4, HostFact DEF Serving, LaunchOK
    <3>2. ASSUME NEW j \in Instances, j \in Listed(logs[Host(i)]) \cup {i}, inst[j].mark
          PROVE  <<j, i>> \in logs[Host(i)]
      <4>1. Host(j) = Host(i)
        BY <2>3, <3>1, <3>2, ListedHere
      <4> QED
        BY <3>1, <3>2, <4>1 DEF IInv, MarksListed
    <3> QED
      BY <3>1, <3>2
  <2> QED
    BY <1>3, <2>1, <2>2, <2>3, <2>4
<1>5. CASE ReadLogs(p)
  <2>1. poll' = [poll EXCEPT ![p] = NoPoll] /\ NoPoll.pc = "idle"
    BY <1>5 DEF ReadLogs, NoPoll
  <2>2. NoPoll \in [pc : {"idle", "read"}, order : Orders, steady : SUBSET Instances, after : BOOLEAN]
    BY DEF NoPoll, Orders
  <2>3. InOrder(NoPoll.order)
    BY DEF NoPoll, InOrder
  <2> QED
    BY <1>3, <2>1, <2>2, <2>3
<1> QED
  BY <1>4, <1>5

-----------------------------------------------------------------------------
(* The theorems *)

LEMMA InitIInv == Init => IInv
<1> SUFFICES ASSUME Init PROVE IInv
  OBVIOUS
<1>1. /\ app = "new" /\ inst = [i \in Instances |-> Unborn] /\ logs = [h \in Hosts |-> {}]
      /\ launch = "register" /\ polls = 0 /\ poll = [p \in Pages |-> NoPoll]
  BY DEF Init, LaunchInit
<1>2. Unborn \in InstanceType /\ Unborn.worker = "off" /\ Unborn.mark = FALSE
  BY DEF Unborn, InstanceType
<1>3. \A i \in Instances : inst[i] = Unborn
  BY <1>1
<1>4. LaunchOK
  BY <1>1, <1>2 DEF LaunchOK, Orders, InstanceType
<1>5. PollOK
  BY <1>1 DEF PollOK, NoPoll, Orders
<1>6. ChipHeldOnce /\ MarksListed
  BY <1>2, <1>3 DEF ChipHeldOnce, MarksListed
<1>7. InOrder(logs) /\ \A p \in Pages : poll[p].pc = "idle" /\ InOrder(poll[p].order)
  BY <1>1 DEF InOrder, NoPoll
<1>8. PollSteady
  BY <1>7 DEF PollSteady
<1> QED
  BY <1>1, <1>4, <1>5, <1>6, <1>7, <1>8 DEF IInv

LEMMA NextIInv ==
  ASSUME IInv, [Next]_vars
  PROVE  IInv'
<1>1. CASE LaunchNext /\ UNCHANGED poll
  BY <1>1, LauncherStep, DisableStep, PlaceStep, InstanceStep DEF LaunchNext, Placement
<1>2. CASE \E p \in Pages : ListLogs(p) \/ ReadLogs(p)
  BY <1>2, PageStep
<1>3. CASE UNCHANGED vars
  <2>1. UNCHANGED <<app, inst, logs, launch, polls, poll>>
    BY <1>3 DEF vars, launchVars
  <2>2. LaunchOK'
    BY <2>1 DEF IInv, LaunchOK
  <2>3. launch' = "ready" => EveryHostReady(logs)
    BY <2>1 DEF IInv
  <2> QED
    BY <2>1, <2>2, <2>3, MarksKept
<1> QED
  BY <1>1, <1>2, <1>3 DEF Next

\* Every state of a launch satisfies the invariant: a chip has one worker, and no log on its
\* host that says READY is newer than that worker's (fleet.py:132-145, register.sh:44-54).
THEOREM FleetInvariant == Spec => []IInv
<1> QED
  BY InitIInv, NextIInv, PTL DEF Spec

\* The ready log none of whose host's ready logs is newer is the one the card takes.
LEMMA NewestIs ==
  ASSUME NEW order \in Orders, InOrder(order), NEW h \in Hosts, NEW among, NEW i \in among,
         \A j \in among : <<j, i>> \in order[h]
  PROVE  Newest(among, order[h]) = i
<1> DEFINE new == Newest(among, order[h])
<1>1. new \in among /\ \A j \in among : <<j, new>> \in order[h]
  BY DEF Newest
<1> HIDE DEF new
<1>2. <<i, new>> \in order[h] /\ <<new, i>> \in order[h]
  BY <1>1
<1>3. \A p \in order[h] : <<p[2], p[1]>> \in order[h] => p[1] = p[2]
  BY DEF InOrder
<1>4. <<i, new>>[1] = i /\ <<i, new>>[2] = new
  OBVIOUS
<1>5. i = new
  BY <1>2, <1>3, <1>4
<1> QED
  BY <1>5 DEF new

\* A worker that served its host while a poll looked is the one on the card, whatever newer
\* logs killed and failed instances have left (fleet.py:132-184).
THEOREM CardIsLive == Spec => CardShowsLive
<1>1. ASSUME IInv, [Next]_vars
      PROVE  [\A p \in Pages : ReadLogs(p) =>
                \A i \in poll[p].steady : Serving(i) =>
                    Card(poll[p].order)[Host(i)] = [log |-> i, ready |-> TRUE]]_vars
  <2> SUFFICES ASSUME NEW p \in Pages, ReadLogs(p), NEW i \in poll[p].steady, Serving(i)
               PROVE  Card(poll[p].order)[Host(i)] = [log |-> i, ready |-> TRUE]
    OBVIOUS
  <2> DEFINE order == poll[p].order
             h     == Host(i)
             ready == ReadyLogs(h, order)
  <2>1. /\ poll[p].pc = "read" /\ order \in Orders /\ InOrder(order) /\ i \in Instances /\ h \in Hosts
        /\ inst[i].mark /\ inst[i].worker = "mapped"
    <3>1. PollOK /\ InOrder(poll[p].order)
      BY <1>1 DEF IInv
    <3>2. poll[p].pc = "read" /\ order \in Orders /\ i \in Instances
      BY <3>1 DEF ReadLogs, PollOK
    <3> QED
      BY <3>1, <3>2, HostFact DEF Serving
  <2>2. \A j \in Instances : j \in Listed(order[h]) \cup {i} /\ inst[j].mark => <<j, i>> \in order[h]
    BY <1>1, <2>1 DEF IInv, PollSteady
  <2>3. <<i, i>> \in order[h]
    BY <2>1, <2>2
  <2>4. i \in ready
    BY <2>1, <2>3, ListedFact DEF ReadyLogs
  <2>5. \A j \in ready : <<j, i>> \in order[h]
    BY <2>1, <2>2, ListedHere DEF ReadyLogs
  <2>6. Newest(ready, order[h]) = i
    BY <2>1, <2>4, <2>5, NewestIs
  <2>7. order[h] # {} /\ ready # {}
    BY <2>3, <2>4
  <2>8. Card(order)[h] = [log |-> Newest(ready, order[h]), ready |-> ready # {}]
    BY <2>1, <2>7 DEF Card
  <2> QED
    BY <2>6, <2>7, <2>8
<1> QED
  BY <1>1, FleetInvariant, PTL DEF Spec, CardShowsLive

\* Once up.sh has seen every node ready, every card that is listed after that says so too,
\* though they read the logs in different ways (up.sh:286-297, fleet.py:132-210).
THEOREM ReadyIsReady == Spec => ReadyMeansReady
<1>1. ASSUME IInv, [Next]_vars
      PROVE  [\A p \in Pages : ReadLogs(p) /\ poll[p].after =>
                \A h \in Hosts : Card(poll[p].order)[h].ready]_vars
  <2> SUFFICES ASSUME NEW p \in Pages, ReadLogs(p), poll[p].after, NEW h \in Hosts
               PROVE  Card(poll[p].order)[h].ready
    OBVIOUS
  <2> DEFINE order == poll[p].order
             ready == ReadyLogs(h, order)
  <2>1. EveryHostReady(order)
    BY <1>1 DEF ReadLogs, IInv, PollSteady
  <2>2. PICK i \in Instances : Host(i) = h /\ inst[i].mark /\ i \in Listed(order[h])
    BY <2>1 DEF EveryHostReady
  <2>3. ready # {} /\ order[h] # {}
    BY <2>2, ListedFact DEF ReadyLogs
  <2>4. Card(order)[h].ready = (ready # {})
    BY <2>3 DEF Card
  <2> QED
    BY <2>3, <2>4
<1> QED
  BY <1>1, FleetInvariant, PTL DEF Spec, ReadyMeansReady
=============================================================================
