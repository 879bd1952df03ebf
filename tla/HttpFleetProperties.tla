-------------------------- MODULE HttpFleetProperties --------------------------
(***************************************************************************)
(* What a node promises its clients, and the dashboard its user.           *)
(***************************************************************************)
EXTENDS HttpFleet

Names   == Models \cup {NoName}
Replies == [ok : BOOLEAN, model : Names, onChip : BOOLEAN]
Threads == [job : Jobs, k : Nat, node : Up, op : {"health", "load", "unload", "infer"},
            model : Models, at : {"start", "in", "bind", "forwarded", "send"},
            by : Objects \cup {NoObject}, says : Replies]

ChipsOK ==
    /\ chips \subseteq Up
    /\ model \in [Nodes -> Objects \cup {NoObject}]
    /\ stem \in [Nodes -> Names] /\ onChip \in [Nodes -> BOOLEAN]
    /\ lock \in [Nodes -> {Free} \cup (Jobs \X Nat)]

Longest == IF Samples > NNodes THEN Samples ELSE NNodes
JobsOK ==
    /\ work \in [Jobs -> Asks \cup {NoWork}]
    /\ pc \in [Jobs -> {"new", "live", "work", "run", "done"}]
    /\ i \in [Jobs -> 1 .. Longest] /\ live \in [Jobs -> Seq(Up)]
    /\ asked \in [Jobs -> 0 .. 2 * NNodes + Samples] /\ waits \in [Jobs -> Nat]
    /\ rows \in [Jobs -> Seq([node : Up, ok : BOOLEAN, by : Objects \cup {NoObject}])]

\* Every variable has its type; in particular no loop of a job runs past its end.
TypeOK == ChipsOK /\ JobsOK /\ threads \subseteq Threads

-----------------------------------------------------------------------------
Inside(t) == t.at \in {"in", "bind", "forwarded"}

\* The lock of a node is held exactly by the thread that is inside its chip, and
\* given back whatever way the thread leaves (http_server.py:142, 147, 156):
\* "one task in flight per node".
LockAccounted ==
    \A n \in Nodes : {Id(t) : t \in {u \in threads : u.node = n /\ Inside(u)}}
                   = IF lock[n] = Free THEN {} ELSE {lock[n]}

\* An answer to /infer names the model that computed it and says where it ran, and
\* an answer to /load says where that very model was mapped, whatever other jobs
\* load and unload meanwhile: "the node honestly reports SOFTWARE instead of
\* ON-CHIP" (http_server.py:12-13).
ReplyTruthful ==
    \A t \in threads : t.at = "send" /\ t.says.ok =>
        /\ t.op = "infer" => t.says = Says(t.by.name, t.by.hw)
        /\ t.op = "load"  => t.says = Says(t.model, <<t.node, t.model>> \in Maps)

-----------------------------------------------------------------------------
(* The inductive invariant behind the three properties above                 *)

\* The requests of job j that are over: answered, refused or given up.
Past(j) == IF waits[j] = 0 THEN asked[j] ELSE asked[j] - 1

\* How far the loops of each job are, counted in requests: NNodes of the first
\* loop, one per live node of the second, one per sample of the third.
Progress ==
    \A j \in Jobs :
        /\ waits[j] # 0 => waits[j] = asked[j] /\ pc[j] \in {"live", "work", "run"}
        /\ pc[j] = "new" => i[j] = 1 /\ live[j] = <<>> /\ asked[j] = 0
        /\ pc[j] # "new" => work[j] \in Asks
        /\ pc[j] = "live" => i[j] <= NNodes /\ Len(live[j]) < i[j] /\ Past(j) = i[j] - 1
        /\ pc[j] \in {"work", "run"} => Len(live[j]) \in 1 .. NNodes
        /\ pc[j] = "work" => i[j] <= Len(live[j]) /\ Past(j) = NNodes + i[j] - 1
        /\ pc[j] = "run" => i[j] <= Samples /\ Past(j) = NNodes + Len(live[j]) + i[j] - 1

\* A thread is one request of its job, and the one its job waits for is at the
\* node the job is asking.
Outstanding ==
    /\ \A t \in threads : /\ t.k \in 1 .. asked[t.job]
                          /\ t.k = waits[t.job] => t.node = Target(t.job)
    /\ \A t, u \in threads : Id(t) = Id(u) => t = u

\* What a node says of its chip is true of its model, but for the moment inside
\* Chip.load between the two assignments.
ChipTruthful ==
    \A n \in Nodes : /\ stem[n] = model[n].name
                     /\ \/ onChip[n] = model[n].hw
                        \/ \E t \in threads : t.node = n /\ t.at = "bind"

\* What a thread inside the chip has read or written is still so.
HandTrue(t) ==
    /\ t.at = "bind" => onChip[t.node] = (<<t.node, t.model>> \in Maps)
    /\ t.at = "forwarded" => t.by = model[t.node] /\ t.says = Says(t.by.name, FALSE)
HandTruthful == \A t \in threads : HandTrue(t)

\* The strengthening of TypeOK, LockAccounted and ReplyTruthful that every step
\* preserves.
IInv == /\ TypeOK /\ Progress /\ Outstanding
        /\ LockAccounted /\ ChipTruthful /\ HandTruthful /\ ReplyTruthful

-----------------------------------------------------------------------------
\* Every job ends, even when a chip hangs inside a request: the client's timeout
\* (akida_client.py:49) bounds each of its finitely many requests.
JobsEnd == \A j \in Jobs : pc[j] = "live" ~> pc[j] = "done"

\* A node answers /health even while its chip is busy or hung: "the fleet card has
\* to keep polling" while a workload runs (dashboard/app.py:402-403).
HealthAnswered ==
    \A n \in Nodes :
        (\E t \in threads : t.node = n /\ t.op = "health")
            ~> ~(\E t \in threads : t.node = n /\ t.op = "health")

=============================================================================
