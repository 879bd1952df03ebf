------------------------------ MODULE FleetCard ------------------------------
(***************************************************************************)
(* The dashboards' compute-nodes card (src/common/fleet.py), polled by the *)
(* open pages while a launch is under way (ServiceLaunch).  A poll lists   *)
(* the logs with the time of their last write first, and reads them then.  *)
(*                                                                         *)
(* The nodes stay up, and the two seconds for which a card is served again *)
(* are left out.                                                           *)
(***************************************************************************)
EXTENDS ServiceLaunch

CONSTANT Pages      \* threads that serve the card

VARIABLE poll       \* page -> [pc, order: the logs listed, steady: who served then, after:
                    \*   up.sh had seen the nodes ready]

vars == <<launchVars, poll>>

NoPoll == [pc |-> "idle", order |-> [h \in Hosts |-> {}], steady |-> {}, after |-> FALSE]

Init == LaunchInit /\ poll = [p \in Pages |-> NoPoll]

ListLogs(p) ==
    /\ poll[p].pc = "idle"
    /\ poll' = [poll EXCEPT ![p] =
          [pc |-> "read", order |-> logs, steady |-> {i \in Instances : Serving(i)},
           after |-> launch = "ready"]]
    /\ UNCHANGED launchVars

\* The worker of a host is the newest of its logs that got ready, else the newest.
ReadyLogsMutant(h, order) == Listed(order[h])   \* mutation: any log, whatever it says
ReadyLogs(h, order) == {i \in Listed(order[h]) : inst[i].mark}

NoWorker == [log |-> <<>>, ready |-> FALSE]
Newest(among, order) == CHOOSE i \in among : \A j \in among : <<j, i>> \in order

Card(order) ==
    [h \in Hosts |->
        IF order[h] = {} THEN NoWorker
        ELSE LET ready == ReadyLogs(h, order)
             IN  [log   |-> Newest(IF ready = {} THEN Listed(order[h]) ELSE ready, order[h]),
                  ready |-> ready # {}]]

\* The page is answered with Card(poll[p].order).
ReadLogs(p) ==
    /\ poll[p].pc = "read"
    /\ poll' = [poll EXCEPT ![p] = NoPoll]
    /\ UNCHANGED launchVars

Next ==
    \/ LaunchNext /\ UNCHANGED poll
    \/ \E p \in Pages : ListLogs(p) \/ ReadLogs(p)

Spec == Init /\ [][Next]_vars

\* register.sh runs, SOAM starts instances, and workers and containers take their steps.
Fairness ==
    /\ WF_vars((Enable \/ Disable) /\ UNCHANGED poll)
    /\ WF_vars((Look \/ LookedEnough) /\ UNCHANGED poll)
    /\ WF_vars(Placement /\ UNCHANGED poll)
    /\ \A i \in Instances : WF_vars(InstanceNext(i) /\ UNCHANGED poll)

FairSpec == Spec /\ Fairness
=============================================================================
