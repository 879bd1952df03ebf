--------------------------- MODULE FleetProperties ---------------------------
(***************************************************************************)
(* What up.sh and the compute-nodes card say of a launch, and what becomes *)
(* of it.                                                                  *)
(***************************************************************************)
EXTENDS FleetCard

\* A worker that served its host from before a poll looked until it was answered is the one
\* on the card, though the logs of killed and of failed instances are newer, and were ready
\* before it (fleet.py:132-184, "the newest file per host is typically a corpse").
CardShowsLive ==
    [][\A p \in Pages : ReadLogs(p) =>
          \A i \in poll[p].steady : Serving(i) =>
              Card(poll[p].order)[Host(i)] = [log |-> i, ready |-> TRUE]]_vars

\* Once up.sh has stopped waiting because every node is ready, every card says so too, though
\* they read the logs in different ways (up.sh:286-297, fleet.py:132-210).
ReadyMeansReady ==
    [][\A p \in Pages : ReadLogs(p) /\ poll[p].after =>
          \A h \in Hosts : Card(poll[p].order)[h].ready]_vars

\* Every chip is in use in the end, whatever instances were packed on its host before, however
\* long their workers outlive them (register.sh:44-51, inference_worker.py:81-97).
FleetComesUp == <>[](\A h \in Hosts : \E i \in Instances : Serving(i) /\ Host(i) = h)

-----------------------------------------------------------------------------
(* The inductive invariant behind CardShowsLive and ReadyMeansReady          *)

Orders == [Hosts -> SUBSET (Instances \X Instances)]

LaunchOK ==
    /\ app \in {"new", "packed", "disabled", "spread"}
    /\ inst \in [Instances -> [container : BOOLEAN, worker : {"off", "boot", "mapped"}, mark : BOOLEAN]]
    /\ logs \in Orders
    /\ launch \in {"register", "wait", "ready", "timeout"} /\ polls \in Nat

PollOK ==
    poll \in [Pages -> [pc : {"idle", "read"}, order : Orders, steady : SUBSET Instances, after : BOOLEAN]]

\* Of two logs of one host one is the newer.
InOrder(order) ==
    \A h \in Hosts : \A p \in order[h] :
        /\ Host(p[1]) = h /\ Host(p[2]) = h
        /\ <<p[2], p[1]>> \in order[h] => p[1] = p[2]

\* One worker holds a chip, and gets ready with it.
ChipHeldOnce ==
    /\ \A i, j \in Instances :
         Host(i) = Host(j) /\ inst[i].worker = "mapped" /\ inst[j].worker = "mapped" => i = j
    /\ \A i \in Instances : inst[i].mark => inst[i].worker # "boot"

\* The log that says READY is there, and none is newer than that of the worker with the chip.
MarksListed ==
    \A j \in Instances : inst[j].mark =>
        /\ j \in Listed(logs[Host(j)])
        /\ \A i \in Instances : Host(i) = Host(j) /\ inst[i].worker = "mapped" =>
              <<j, i>> \in logs[Host(j)]

EveryHostReady(order) ==
    \A h \in Hosts : \E i \in Instances : Host(i) = h /\ inst[i].mark /\ i \in Listed(order[h])

\* What a poll has listed stays true of a worker that goes on serving: nobody else on its host
\* gets ready.
PollSteady ==
    \A p \in Pages : poll[p].pc = "read" =>
        /\ poll[p].after => EveryHostReady(poll[p].order)
        /\ \A i \in poll[p].steady :
             /\ inst[i].mark
             /\ inst[i].worker = "mapped" =>
                  \A j \in Instances :
                     j \in Listed(poll[p].order[Host(i)]) \cup {i} /\ inst[j].mark =>
                         <<j, i>> \in poll[p].order[Host(i)]

IInv ==
    /\ LaunchOK /\ PollOK /\ ChipHeldOnce /\ MarksListed /\ PollSteady
    /\ InOrder(logs) /\ \A p \in Pages : InOrder(poll[p].order)
    /\ launch = "ready" => EveryHostReady(logs)
=============================================================================
