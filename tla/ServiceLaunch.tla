---------------------------- MODULE ServiceLaunch ----------------------------
(***************************************************************************)
(* Bringing the service instances of a launch up: register.sh enables the  *)
(* application, whose instances EGO packs anywhere, and bounces it so that *)
(* they are placed again, one per host; up.sh then counts ready workers in *)
(* the instances' logs.  An instance is a container and its worker.  Each  *)
(* host has one chip, which one worker at a time can open; a worker that   *)
(* cannot retries and gives up, and SOAM starts another instance.  Killing *)
(* an instance kills the container: its worker goes on until it notices.   *)
(*                                                                         *)
(* The log of an instance that ended without getting ready may be          *)
(* forgotten, when the names run out.                                      *)
(***************************************************************************)
EXTENDS Integers, FiniteSets

CONSTANTS
    Hosts,      \* compute nodes
    PerHost,    \* names for the instances of a host and their logs, taken in turn
    MaxPolls    \* times up.sh looks before it goes on regardless (40)

ASSUME LaunchAssumption ==
    MaxPolls \in Nat \ {0} /\ PerHost \in Nat \ {0} /\ IsFiniteSet(Hosts)

VARIABLES
    app,        \* the application: "new", "packed", "disabled", "spread"
    inst,       \* instance -> [container, worker, mark: its log says READY]
    logs,       \* host -> the pairs <<i, j>> of its logs, i last written no later than j
    launch,     \* up.sh: "register", "wait", "ready" or "timeout"
    polls       \* times it has looked

launchVars == <<app, inst, logs, launch, polls>>

Instances == Hosts \X (1 .. PerHost)
Host(i) == i[1]
Unborn  == [container |-> FALSE, worker |-> "off", mark |-> FALSE]
Nodes   == Cardinality(Hosts)

LaunchInit ==
    /\ app = "new" /\ inst = [i \in Instances |-> Unborn] /\ logs = [h \in Hosts |-> {}]
    /\ launch = "register" /\ polls = 0

Listed(order) == {p[1] : p \in order}

\* The log of an instance is written to: it becomes the newest of its host.
Touch(i) ==
    logs' = [logs EXCEPT ![Host(i)] =
        {p \in @ : i \notin {p[1], p[2]}} \cup {<<j, i>> : j \in Listed(@) \cup {i}}]

Serving(i) == inst[i].container /\ inst[i].worker = "mapped" /\ inst[i].mark
ChipFree(h) == \A i \in Instances : Host(i) = h => inst[i].worker # "mapped"
Load(h) == Cardinality({i \in Instances : Host(i) = h /\ inst[i].container})

-----------------------------------------------------------------------------
(* register.sh, inside the master.                                           *)

Enable ==
    /\ launch = "register"
    /\ \/ app = "new" /\ app' = "packed" /\ launch' = launch
       \/ app = "disabled" /\ app' = "spread" /\ launch' = "wait"
    /\ UNCHANGED <<inst, logs, polls>>

Disable ==
    /\ launch = "register" /\ app = "packed" /\ app' = "disabled"
    /\ inst' = [i \in Instances |-> [inst[i] EXCEPT !.container = FALSE]]
    /\ UNCHANGED <<logs, launch, polls>>

-----------------------------------------------------------------------------
(* SOAM and EGO: as many instances as nodes, anywhere at first, on the least *)
(* loaded host (EqualFreeSlot) after the bounce.                             *)

Free(i) == ~inst[i].container /\ inst[i].worker = "off" /\ ~inst[i].mark

Place(i) ==
    /\ app \in {"packed", "spread"}
    /\ Free(i) /\ \A k \in 1 .. i[2] - 1 : ~Free(<<Host(i), k>>)
    /\ Cardinality({j \in Instances : inst[j].container}) < Nodes
    /\ app = "spread" => \A h \in Hosts : Load(Host(i)) <= Load(h)
    /\ inst' = [inst EXCEPT ![i] = [container |-> TRUE, worker |-> "boot", mark |-> FALSE]]
    /\ Touch(i)
    /\ UNCHANGED <<app, launch, polls>>

-----------------------------------------------------------------------------
(* A worker and its container.                                               *)

\* The device is there, or another worker holds it: after some tries the worker gives up, and
\* its container with it.
OpenChip(i) ==
    /\ inst[i].worker = "boot" /\ ChipFree(Host(i))
    /\ inst' = [inst EXCEPT ![i].worker = "mapped"]
    /\ Touch(i)
    /\ UNCHANGED <<app, launch, polls>>

GiveUp(i) ==
    /\ inst[i].worker = "boot" /\ ~ChipFree(Host(i))
    /\ inst' = [inst EXCEPT ![i].worker = "off", ![i].container = FALSE]
    /\ Touch(i)
    /\ UNCHANGED <<app, launch, polls>>

\* The container has read READY from its worker.
LogReady(i) ==
    /\ inst[i].container /\ inst[i].worker = "mapped" /\ ~inst[i].mark
    /\ inst' = [inst EXCEPT ![i].mark = TRUE]
    /\ Touch(i)
    /\ UNCHANGED <<app, launch, polls>>

OrphanMutant(i) ==     \* mutation: a worker with a chip does not look for the end of its pipe
    /\ ~inst[i].container /\ inst[i].worker = "boot"
    /\ inst' = [inst EXCEPT ![i].worker = "off"]
    /\ Touch(i)
    /\ UNCHANGED <<app, launch, polls>>
\* The worker of a container that is gone finds its pipe closed.
Orphan(i) ==
    /\ ~inst[i].container /\ inst[i].worker # "off"
    /\ inst' = [inst EXCEPT ![i].worker = "off"]
    /\ Touch(i)
    /\ UNCHANGED <<app, launch, polls>>

-----------------------------------------------------------------------------
(* up.sh: distinct hosts with a ready log, not logs.                         *)

Marked == {i \in Instances : inst[i].mark}
ReadyHostsMutant == Cardinality(Marked)     \* mutation: logs are counted
ReadyHosts == Cardinality({Host(i) : i \in Marked})

Look ==
    /\ launch = "wait" /\ polls < MaxPolls
    /\ IF ReadyHosts >= Nodes
       THEN launch' = "ready" /\ polls' = polls
       ELSE launch' = launch /\ polls' = polls + 1
    /\ UNCHANGED <<app, inst, logs>>

LookedEnough ==
    /\ launch = "wait" /\ polls = MaxPolls /\ launch' = "timeout"
    /\ UNCHANGED <<app, inst, logs, polls>>

-----------------------------------------------------------------------------
InstanceNext(i) == OpenChip(i) \/ GiveUp(i) \/ LogReady(i) \/ Orphan(i)
Placement == \E i \in Instances : Place(i)
LaunchNext ==
    \/ Enable \/ Disable \/ Look \/ LookedEnough \/ Placement
    \/ \E i \in Instances : InstanceNext(i)
=============================================================================
