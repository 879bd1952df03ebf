------------------------------- MODULE HttpFleet -------------------------------
(***************************************************************************)
(* The serial-http-round-robin application: one HTTP server per chip       *)
(* (service/http_server.py) with a thread per request around one lock and  *)
(* one Chip object (common/akida_chip.py), and the dashboard               *)
(* (dashboard/app.py), whose own requests run in threads too and ask the   *)
(* nodes one at a time through AkidaServiceClient, which gives up after a  *)
(* timeout while the node goes on.                                         *)
(*                                                                         *)
(* A job is one request to the dashboard.  A thread is one request to a    *)
(* node, until its reply has been written.                                 *)
(***************************************************************************)
EXTENDS Naturals, Sequences

CONSTANTS
    NNodes,   \* NODES: the node URLs the dashboard knows
    Up,       \* the nodes that accept connections
    Models,   \* the model names a request may have
    Staged,   \* the models in the shared directory
    Maps,     \* the pairs <<node, model>> that map hw_only
    Width,    \* the input size of each model
    Jobs,     \* bound: the requests to the dashboard, each made once
    Asks,     \* what a job may ask for: records [kind, model]
    Samples,  \* min(total, LIMIT): the samples of a run
    Slow      \* a reply may take longer than the client's timeout

ASSUME FleetAssumption ==
    /\ NNodes \in Nat \ {0} /\ Up \subseteq 1 .. NNodes
    /\ Staged \subseteq Models /\ Maps \subseteq Up \X Models
    /\ Width \in [Models -> Nat] /\ Samples \in Nat
    /\ Asks \subseteq [kind : {"load", "unload", "run", "poll"}, model : Models]
    /\ Slow \in BOOLEAN

Nodes    == 1 .. NNodes
NoName   == "none"                    \* stem is None
Objects  == [name : Models, hw : BOOLEAN]         \* an akida.Model and where it runs
NoObject == [name |-> NoName, hw |-> FALSE]       \* model is None
Object(n, m) == [name |-> m, hw |-> <<n, m>> \in Maps]

VARIABLES
    chips,                  \* the nodes whose server found a device
    model, stem, onChip,    \* the Chip of each node
    lock,                   \* _lock of each node: free, or the thread inside
    threads,                \* the requests the nodes are working on
    work,                   \* what each job asks for, once it has begun
    pc, i, live,            \* each job: where it is, loop index, nodes found alive
    asked, waits,           \* each job: requests made so far, and the one it waits for
    rows                    \* each run: the outcome of each sample

chipVars == <<chips, model, stem, onChip>>
jobVars  == <<work, pc, i, live, asked, waits, rows>>
vars     == <<chipVars, lock, threads, jobVars>>

NoWork == [kind |-> "none", model |-> NoName]
Free   == <<>>
Id(t) == <<t.job, t.k>>

Failure    == [ok |-> FALSE, model |-> NoName, onChip |-> FALSE]
Says(m, c) == [ok |-> TRUE, model |-> m, onChip |-> c]

\* _init on each node: a device or none; the default model, if there is one.
Init ==
    /\ chips \in SUBSET Up
    /\ \E m \in Staged \cup {NoName} :
         LET Loads(n) == m # NoName /\ n \in chips IN
         /\ model  = [n \in Nodes |-> IF Loads(n) THEN Object(n, m) ELSE NoObject]
         /\ stem   = [n \in Nodes |-> IF Loads(n) THEN m ELSE NoName]
         /\ onChip = [n \in Nodes |-> Loads(n) /\ <<n, m>> \in Maps]
    /\ lock = [n \in Nodes |-> Free] /\ threads = {}
    /\ work = [j \in Jobs |-> NoWork]
    /\ pc = [j \in Jobs |-> "new"] /\ i = [j \in Jobs |-> 1] /\ live = [j \in Jobs |-> <<>>]
    /\ asked = [j \in Jobs |-> 0] /\ waits = [j \in Jobs |-> 0]
    /\ rows = [j \in Jobs |-> <<>>]

-----------------------------------------------------------------------------
(* The dashboard: find the live nodes, load or unload on each, and for a run *)
(* ask for one sample after the other, round robin.                          *)

Begin(j) ==
    /\ pc[j] = "new" /\ pc' = [pc EXCEPT ![j] = "live"]
    /\ \E w \in Asks : work' = [work EXCEPT ![j] = w]
    /\ UNCHANGED <<chipVars, lock, threads, i, live, asked, waits, rows>>

Target(j) == CASE pc[j] = "live" -> i[j]
               [] pc[j] = "work" -> live[j][i[j]]
               [] pc[j] = "run"  -> live[j][((i[j] - 1) % Len(live[j])) + 1]

Op(j) == CASE pc[j] = "live" -> "health"
           [] pc[j] = "work" -> IF work[j].kind = "unload" THEN "unload" ELSE "load"
           [] pc[j] = "run"  -> "infer"

\* A loop of n passes that ends goes on at "next".
LoopMutant(j, n, next) ==              \* mutation: one pass too many
    IF i[j] <= n THEN i' = [i EXCEPT ![j] = @ + 1] /\ UNCHANGED pc
                 ELSE i' = [i EXCEPT ![j] = 1] /\ pc' = [pc EXCEPT ![j] = next]
Loop(j, n, next) ==
    IF i[j] < n THEN i' = [i EXCEPT ![j] = @ + 1] /\ UNCHANGED pc
                ELSE i' = [i EXCEPT ![j] = 1] /\ pc' = [pc EXCEPT ![j] = next]

\* What a job makes of a reply, or of the AkidaServiceError that replaces it.
Receive(j, says, by) ==
    /\ waits' = [waits EXCEPT ![j] = 0]
    /\ \/ /\ pc[j] = "live"
          /\ live' = IF says.ok THEN [live EXCEPT ![j] = Append(@, i[j])] ELSE live
          /\ Loop(j, NNodes, IF work[j].kind = "poll" \/ live'[j] = <<>> THEN "done" ELSE "work")
          /\ UNCHANGED rows
       \/ /\ pc[j] = "work"
          /\ Loop(j, Len(live[j]), IF work[j].kind = "run" /\ Samples > 0 THEN "run" ELSE "done")
          /\ UNCHANGED <<live, rows>>
       \/ /\ pc[j] = "run"
          /\ rows' = [rows EXCEPT ![j] = Append(@, [node |-> Target(j), ok |-> says.ok, by |-> by])]
          /\ Loop(j, Samples, "done")
          /\ UNCHANGED live

\* A request reaches its node, where a thread takes it, or is refused.
Ask(j) ==
    /\ pc[j] \in {"live", "work", "run"} /\ waits[j] = 0
    /\ asked' = [asked EXCEPT ![j] = @ + 1]
    /\ IF Target(j) \in Up
         THEN /\ threads' = threads \cup
                    {[job |-> j, k |-> asked'[j], node |-> Target(j), op |-> Op(j),
                      model |-> work[j].model, at |-> "start", by |-> NoObject, says |-> Failure]}
              /\ waits' = [waits EXCEPT ![j] = asked'[j]]
              /\ UNCHANGED <<pc, i, live, rows>>
         ELSE Receive(j, Failure, NoObject) /\ UNCHANGED threads
    /\ UNCHANGED <<work, chipVars, lock>>

LateMutant == FALSE                    \* mutation: a client without a timeout
Late == Slow

\* urlopen times out; the thread on the node knows nothing of it.
GiveUp(j) ==
    /\ waits[j] # 0 /\ Late
    /\ Receive(j, Failure, NoObject)
    /\ UNCHANGED <<work, chipVars, lock, threads, asked>>

-----------------------------------------------------------------------------
(* A node: what thread t does next.                                          *)

Step(t, u) == threads' = (threads \ {t}) \cup {u} /\ UNCHANGED jobVars
Answer(t, says) == Step(t, [t EXCEPT !.at = "send", !.says = says])
Unlock(n) == lock' = [lock EXCEPT ![n] = Free]

\* do_GET /health takes no lock.
MayLookMutant(n) == lock[n] = Free     \* mutation: it waits for the chip
MayLook(n) == TRUE

Health(t) ==
    /\ t.op = "health" /\ t.at = "start" /\ MayLook(t.node)
    /\ Answer(t, Says(stem[t.node], onChip[t.node]))
    /\ UNCHANGED <<chipVars, lock>>

\* A node without a device: 503, but an unload is answered with ok.
NoDevice(t) ==
    /\ t.op # "health" /\ t.at = "start" /\ t.node \notin chips
    /\ Answer(t, IF t.op = "unload" THEN Says(NoName, FALSE) ELSE Failure)
    /\ UNCHANGED <<chipVars, lock>>

EnterChip(t) ==
    /\ t.op # "health" /\ t.at = "start" /\ t.node \in chips /\ lock[t.node] = Free
    /\ lock' = [lock EXCEPT ![t.node] = Id(t)]
    /\ Step(t, [t EXCEPT !.at = "in"])
    /\ UNCHANGED chipVars

\* Leaving the "with" block with an exception, answered with 500.
LeaveMutant(n) == UNCHANGED lock       \* mutation: release() is skipped by the exception
Leave(n) == Unlock(n)

Raise(t) == Answer(t, Failure) /\ Leave(t.node) /\ UNCHANGED chipVars

\* Chip.load, as far as map(): on_chip is set before the model is.
Map(t) ==
    /\ t.op = "load" /\ t.at = "in"
    /\ IF t.model \notin Staged THEN Raise(t)
       ELSE /\ onChip' = [onChip EXCEPT ![t.node] = <<t.node, t.model>> \in Maps]
            /\ Step(t, [t EXCEPT !.at = "bind"])
            /\ UNCHANGED <<chips, model, stem, lock>>

Bind(t) ==
    /\ t.op = "load" /\ t.at = "bind"
    /\ model' = [model EXCEPT ![t.node] = Object(t.node, t.model)]
    /\ stem' = [stem EXCEPT ![t.node] = t.model]
    /\ Answer(t, Says(t.model, onChip[t.node])) /\ Unlock(t.node)
    /\ UNCHANGED <<chips, onChip>>

\* Chip.unload.
Clear(t) ==
    /\ t.op = "unload" /\ t.at = "in"
    /\ model' = [model EXCEPT ![t.node] = NoObject]
    /\ stem' = [stem EXCEPT ![t.node] = NoName]
    /\ onChip' = [onChip EXCEPT ![t.node] = FALSE]
    /\ Answer(t, Says(NoName, FALSE)) /\ Unlock(t.node)
    /\ UNCHANGED chips

\* Whether the mapped model takes the input of the model the run is for.
Fits(t) == model[t.node] # NoObject /\ Width[model[t.node].name] = Width[t.model]

HeldMutant(n) == Free                  \* mutation: on_chip is read after the "with" block
Held(n) == lock[n]

\* Chip.infer: forward, and the model's name for the reply.  It raises when the input has
\* another size, and when the model's own forward does.
Forward(t) ==
    /\ t.op = "infer" /\ t.at = "in"
    /\ \/ Raise(t)
       \/ /\ Fits(t)
          /\ Step(t, [t EXCEPT !.at = "forwarded", !.by = model[t.node],
                               !.says = Says(stem[t.node], FALSE)])
          /\ lock' = [lock EXCEPT ![t.node] = Held(t.node)]
          /\ UNCHANGED chipVars

\* do_POST /infer reads on_chip before it leaves the lock.
Report(t) ==
    /\ t.op = "infer" /\ t.at = "forwarded"
    /\ Answer(t, Says(t.says.model, onChip[t.node])) /\ Unlock(t.node)
    /\ UNCHANGED chipVars

\* The reply is written; a client that has given up does not read it.
Send(t) ==
    /\ t.at = "send" /\ threads' = threads \ {t}
    /\ IF waits[t.job] = t.k THEN Receive(t.job, t.says, t.by)
                             ELSE UNCHANGED <<pc, i, live, waits, rows>>
    /\ UNCHANGED <<work, chipVars, lock, asked>>

-----------------------------------------------------------------------------
Dashboard(j) == Begin(j) \/ Ask(j) \/ GiveUp(j)
OutsideLock(t) == Health(t) \/ NoDevice(t) \/ Send(t)
InsideLock(t) == EnterChip(t) \/ Map(t) \/ Bind(t) \/ Clear(t) \/ Forward(t) \/ Report(t)

Over == (\A j \in Jobs : pc[j] = "done") /\ threads = {} /\ UNCHANGED vars

Next == \/ \E j \in Jobs : Dashboard(j)
        \/ \E t \in threads : OutsideLock(t) \/ InsideLock(t)
        \/ Over

Spec == Init /\ [][Next]_vars

\* The dashboard's threads run and its timeouts elapse; so does what a node does
\* without the lock.  Nothing is owed inside the lock: a chip may hang.
FleetFairness ==
    /\ \A j \in Jobs : WF_vars(Ask(j)) /\ WF_vars(GiveUp(j))
    /\ \A n \in Nodes : WF_vars(\E t \in threads : t.node = n /\ OutsideLock(t))

FairSpec == Spec /\ FleetFairness
=============================================================================
