----------------------------- MODULE BatchClient -----------------------------
(***************************************************************************)
(* The batch client: one session, several threads that send the tasks of a *)
(* range of indices each, and a loop that fetches outputs until it has     *)
(* counted as many as there are tasks (batch-inference/client/             *)
(* soam_client.py).  SOAM and the service instances, one to a host, are    *)
(* external: a task waits, runs on a host, is run again elsewhere if the   *)
(* host is lost, and has one output, unless SOAM delivers one twice.       *)
(***************************************************************************)
EXTENDS Integers, FiniteSets, FiniteSetsExt

CONSTANTS
    Jobs,        \* the --count and --workers there may be: [count, workers]
    Hosts,
    MaxErr,      \* bound: tasks answered with an error
    MaxFailed,   \* bound: tasks SOAM gives up on
    MaxDup,      \* bound: outputs delivered a second time
    MaxLost      \* bound: hosts lost while they run a task

ASSUME BatchAssumption ==
    /\ Jobs \subseteq [count : Nat, workers : Nat]
    /\ IsFiniteSet(Hosts)
    /\ {MaxErr, MaxFailed, MaxDup, MaxLost} \subseteq Nat

VARIABLES
    job,
    started,     \* sender threads created so far
    next,        \* the index each sender sends next
    phase,       \* main: start, fetch, join, reported
    done, errors, perHost,
    waiting,     \* tasks SOAM holds
    running,     \* the task on each host
    outputs,     \* outputs not yet fetched: [task, kind, host, copy]
    faults

jobVars    == <<job>>
senderVars == <<started, next>>
totalVars  == <<done, errors, perHost>>
soamVars   == <<waiting, running, outputs, faults>>
vars       == <<jobVars, senderVars, phase, totalVars, soamVars>>

NoTask == -1
Tasks  == 0 .. job.count - 1
Kinds  == {"ok", "err", "failed"}
Budget == [err |-> MaxErr, failed |-> MaxFailed, dup |-> MaxDup, lost |-> MaxLost]

\* The threads of a job, and the half-open range of indices of thread w.
NWorkers == IF job.workers > 1 THEN job.workers ELSE 1
Workers  == 0 .. NWorkers - 1

StepMutant(count, workers) == count \div workers      \* mutation: rounded down
Step(count, workers) == (count + workers - 1) \div workers

Low(w)  == w * Step(job.count, NWorkers)
High(w) == LET end == (w + 1) * Step(job.count, NWorkers)
           IN  IF job.count < end THEN job.count ELSE end

Init ==
    /\ job \in Jobs
    /\ started = 0 /\ next = [w \in Workers |-> Low(w)]
    /\ phase = "start" /\ done = 0 /\ errors = 0 /\ perHost = [h \in Hosts |-> 0]
    /\ waiting = {} /\ running = [h \in Hosts |-> NoTask] /\ outputs = {}
    /\ faults = [k \in DOMAIN Budget |-> 0]

Spend(k) == faults[k] < Budget[k] /\ faults' = [faults EXCEPT ![k] = @ + 1]

-----------------------------------------------------------------------------
(* Main creates the senders, and stops at the first whose range is empty.    *)

StartSender ==
    /\ phase = "start"
    /\ IF started \in Workers /\ Low(started) < High(started)
         THEN started' = started + 1 /\ UNCHANGED phase
         ELSE phase' = "fetch" /\ UNCHANGED started
    /\ UNCHANGED <<job, next, totalVars, soamVars>>

SendingMutant(w) == w < started /\ next[w] <= High(w)     \* mutation: the range includes its end
Sending(w) == w < started /\ next[w] < High(w)

Send(w) ==
    /\ Sending(w)
    /\ waiting' = waiting \cup {next[w]}
    /\ next' = [next EXCEPT ![w] = @ + 1]
    /\ UNCHANGED <<job, started, phase, totalVars, running, outputs, faults>>

-----------------------------------------------------------------------------
(* SOAM and the service instances.                                           *)

Run(h) ==
    /\ running[h] = NoTask
    /\ \E t \in waiting : waiting' = waiting \ {t} /\ running' = [running EXCEPT ![h] = t]
    /\ UNCHANGED <<job, senderVars, phase, totalVars, outputs, faults>>

Answer(h, kind) ==
    /\ running[h] # NoTask
    /\ kind # "ok" => Spend(kind)
    /\ kind = "ok" => UNCHANGED faults
    /\ outputs' = outputs \cup {[task |-> running[h], kind |-> kind, host |-> h, copy |-> 0]}
    /\ running' = [running EXCEPT ![h] = NoTask]
    /\ UNCHANGED <<job, senderVars, phase, totalVars, waiting>>

\* The host is lost with its task, which is put back; another instance takes its place.
Lose(h) ==
    /\ running[h] # NoTask /\ Spend("lost")
    /\ waiting' = waiting \cup {running[h]}
    /\ running' = [running EXCEPT ![h] = NoTask]
    /\ UNCHANGED <<job, senderVars, phase, totalVars, outputs>>

Duplicate ==
    /\ \E o \in outputs : o.copy = 0 /\ outputs' = outputs \cup {[o EXCEPT !.copy = 1]}
    /\ Spend("dup")
    /\ UNCHANGED <<job, senderVars, phase, totalVars, waiting, running>>

-----------------------------------------------------------------------------
(* Main fetches outputs.                                                     *)

SuccessfulMutant(o) == o.kind # "failed"    \* mutation: an "error" in the reply is not looked for
Successful(o) == o.kind = "ok"

Count(batch) ==
    LET ok == {o \in batch : Successful(o)}
    IN  /\ outputs' = outputs \ batch
        /\ done' = done + Cardinality(batch)
        /\ errors' = errors + Cardinality(batch \ ok)
        /\ perHost' = [h \in Hosts |-> perHost[h] + Cardinality({o \in ok : o.host = h})]
        /\ UNCHANGED <<job, senderVars, phase, waiting, running, faults>>

UnfinishedMutant == done # job.count        \* mutation: a count that is passed is not noticed
Unfinished == done < job.count

\* fetch_task_output(count, 120) returns when count outputs are there, or else what there is,
\* if anything, when the time is up.
FetchAll ==
    /\ phase = "fetch" /\ Unfinished
    /\ \E batch \in kSubset(job.count, outputs) : Count(batch)

FetchTimeout ==
    /\ phase = "fetch" /\ Unfinished /\ Cardinality(outputs) < job.count
    /\ Count(outputs)

FetchEnd ==
    /\ phase = "fetch" /\ ~Unfinished /\ phase' = "join"
    /\ UNCHANGED <<job, senderVars, totalVars, soamVars>>

\* Join the senders, close the session, report.
Report ==
    /\ phase = "join" /\ \A w \in Workers : ~Sending(w)
    /\ phase' = "reported"
    /\ UNCHANGED <<job, senderVars, totalVars, soamVars>>

-----------------------------------------------------------------------------
Service(h) == Run(h) \/ Lose(h) \/ \E kind \in Kinds : Answer(h, kind)
Main == StartSender \/ FetchAll \/ FetchTimeout \/ FetchEnd \/ Report
Over == phase = "reported" /\ UNCHANGED vars

Next == Main \/ Duplicate \/ Over \/ (\E w \in Workers : Send(w)) \/ \E h \in Hosts : Service(h)

Spec == Init /\ [][Next]_vars

\* The client's threads run, fetches time out, and instances answer what they are given.
Fairness ==
    /\ WF_vars(Main)
    /\ \A w \in UNION {0 .. j.workers : j \in Jobs} : WF_vars(Send(w))
    /\ \A h \in Hosts : WF_vars(Service(h))

FairSpec == Spec /\ Fairness
=============================================================================
